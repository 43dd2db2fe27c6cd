----------------------------- MODULE SyntaxTree -----------------------------
(***************************************************************************)
(* The nodes of the syntax tree (src/include/Ast.h) the parser builds, with *)
(* the kinds that matter to the lists it collects on the way.  arr is the  *)
(* arr_flag of an expression; it also covers the test for an array type,   *)
(* which only array items meet.                                            *)
(***************************************************************************)
Null == [op |-> "null", arr |-> FALSE]
Num(v) == [op |-> "num", val |-> v, arr |-> FALSE]
Var(n) == [op |-> "var", name |-> n, arr |-> FALSE]
Call(f, args) == [op |-> "call", name |-> f, args |-> args, arr |-> FALSE]
Item(a, idx) == [op |-> "item", name |-> a, idx |-> idx, arr |-> TRUE]
Sum(l, r) == [op |-> "sum", l |-> l, r |-> r, arr |-> l.arr \/ r.arr]

\* An initialiser in braces.  It is no node: its elements go into a vector.
Braces(items) == [op |-> "braces", items |-> items]

\* get_value: constants have theirs, everything else the initial 0.
Value(node) == IF node.op = "num" THEN node.val ELSE 0
=============================================================================
