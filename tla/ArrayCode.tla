----------------------------- MODULE ArrayCode -----------------------------
(***************************************************************************)
(* The intermediate code of array declarations and array items:            *)
(* ArrayItem::genCode, AssignStmt::genCode, the array part of              *)
(* DeclStmt::genCode and of FunctionCall::genCode (src/src/Ast.cpp).       *)
(* Operands are constants and numbered temporaries.                        *)
(***************************************************************************)
EXTENDS SyntaxTree, Integers, Sequences, SequencesExt

CONSTANTS Arrays,  \* the arrays in scope
          Dims     \* the dimensions of each; a parameter's first one is 0

Const(v) == [op |-> "const", val |-> v]
Temp(t) == [op |-> "temp", val |-> t]

IsParam(a) == Dims[a][1] = 0

Fetch(tag, shape, base, off, dst, param) ==
  [do |-> "fetch", tag |-> tag, shape |-> shape, base |-> base, off |-> off, dst |-> dst,
   param |-> param]

\* What follows the k-th dimension.
After(shape, k) == SubSeq(shape, k + 1, Len(shape))

(***************************************************************************)
(* The code of an expression: the instructions, the operand with its value *)
(* (an array item has head, too: the address of the element) and the last  *)
(* label given out.  All the fetches of one item carry its operand as tag. *)
(* The code of the subscripts comes in front of the fetches, but for a     *)
(* parameter each comes in front of its own.  The last fetch of a parameter*)
(* has param_flag, as has the first.                                       *)
(***************************************************************************)
RECURSIVE Code(_, _), Subscripts(_, _)
Subscripts(es, n) ==
  IF es = << >> THEN << >>
  ELSE LET first == Code(Head(es), n) IN <<first>> \o Subscripts(Tail(es), first.n)

LastLabel(codes, n) == IF codes = << >> THEN n ELSE Last(codes).n
CodeOf(codes) == FlattenSeq([k \in DOMAIN codes |-> codes[k].code])

Code(e, n) ==
  IF e.op = "num" THEN [code |-> << >>, val |-> Const(e.val), n |-> n]
  ELSE
    LET subs == Subscripts(e.idx, n)
        m == LastLabel(subs, n)
        tag == m + 1
        count == IF IsParam(e.name) THEN Len(e.idx)
                 ELSE IF e.idx = << >> THEN 1 ELSE Len(Dims[e.name])
        pointer == m + 2
        heads == [k \in 1 .. count |-> m + 2 + k]
        base == [k \in 1 .. count |-> IF k > 1 THEN Temp(heads[k - 1])
                                      ELSE IF IsParam(e.name) THEN Temp(pointer)
                                      ELSE [op |-> "array", val |-> e.name]]
        off == [k \in 1 .. count |-> IF k <= Len(e.idx) THEN subs[k].val ELSE Const(0)]
        fetch == [k \in 1 .. count |->
          IF IsParam(e.name)
          THEN Fetch(tag, Tail(Dims[e.name]), base[k], off[k], heads[k], k \in {1, count})
          ELSE Fetch(tag, After(Dims[e.name], k - 1), base[k], off[k], heads[k], FALSE)]
        head == IF count = 0 THEN pointer ELSE heads[count]
        load == IF e.idx = << >> THEN << >>
                ELSE <<[do |-> "load", dst |-> tag, from |-> head, item |-> e]>>
    IN [code |->
          IF IsParam(e.name)
          THEN <<[do |-> "load pointer", dst |-> pointer, of |-> e.name]>>
               \o FlattenSeq([k \in 1 .. count |-> Append(subs[k].code, fetch[k])]) \o load
          ELSE CodeOf(subs) \o fetch \o load,
        val |-> Temp(tag), head |-> head, n |-> m + 2 + count]

\* AssignStmt::genCode: the right side first; the item is also loaded.
Assignment(item, e, n) ==
  LET value == Code(e, n)
      place == Code(item, value.n)
  IN [code |-> value.code \o place.code
               \o <<[do |-> "store", to |-> place.head, val |-> value.val, item |-> item]>>,
      n |-> place.n]

\* FunctionCall::genCode for an array argument: the address of the element.
Argument(item, n) ==
  LET place == Code(item, n) IN
  [code |-> Append(place.code, [do |-> "argument", from |-> place.head, item |-> item]),
   n |-> place.n]

Increased(dc, dims) ==
  LET free == {i \in DOMAIN dc : dc[i] + 1 # dims[i]} IN
  IF free = {} THEN [i \in DOMAIN dc |-> 0]
  ELSE LET k == CHOOSE i \in free : \A j \in free : j <= i IN
       [i \in DOMAIN dc |-> IF i < k THEN dc[i] ELSE IF i = k THEN dc[i] + 1 ELSE 0]

\* For MemoryMatches: an element without a value is not counted.
ValuesCounted(dc, dims, e) == IF e = Null THEN dc ELSE Increased(dc, dims)

\* The counter of DeclStmt::genCode counts every element, with carries; after
\* the last one it is back at the first.
Counted(dc, dims, e) == Increased(dc, dims)

RECURSIVE Elements(_, _, _, _)
Elements(a, init, dc, n) ==
  IF init = << >> THEN [code |-> << >>, n |-> n]
  ELSE
    LET e == Head(init)
        value == Code(e, n + 1)
        tag == n + 1
        head == [k \in DOMAIN dc |-> value.n + k]
        stores ==
          value.code
          \o [k \in DOMAIN dc |->
                Fetch(tag, After(Dims[a], k - 1),
                      IF k = 1 THEN [op |-> "array", val |-> a] ELSE Temp(head[k - 1]),
                      Const(dc[k]), head[k], FALSE)]
          \o <<[do |-> "store", to |-> Last(head), val |-> value.val,
                item |-> Item(a, [k \in DOMAIN dc |-> Num(dc[k])])]>>
        rest == Elements(a, Tail(init), Counted(dc, Dims[a], e),
                         IF e = Null THEN n + 1 ELSE value.n + Len(dc))
    IN [code |-> (IF e = Null THEN << >> ELSE stores) \o rest.code, n |-> rest.n]

\* The array part of DeclStmt::genCode for a local array: memset, and a
\* store for each element of the initialiser.
Declaration(a, init, n) ==
  LET elements == Elements(a, init, [k \in DOMAIN Dims[a] |-> 0], n) IN
  [code |-> <<[do |-> "memset", of |-> a]>> \o elements.code, n |-> elements.n]
=============================================================================
