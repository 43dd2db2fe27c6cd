---------------------------- MODULE ControlFlow -----------------------------
(***************************************************************************)
(* The branches of BranchCode run against the program they were made from. *)
(* The source runs by its own rules, statement by statement; the code runs *)
(* block after block, as laid out.  Both make the same assignments and the *)
(* same tests, in the same order, whatever the tests yield.                *)
(***************************************************************************)
EXTENDS BranchCode, TLC

CONSTANT Functions  \* a set of records [body, isvoid]

VARIABLES
  function,
  code,   \* its blocks
  at,     \* the position of the next instruction, or Done
  vals,   \* what the comparisons of this block have computed, by position
  flag,   \* the flags: the last comparison of this block held; {} if none yet
  todo    \* what is left of the source: statements, and conditions with branches

vars == <<function, code, at, vals, flag, todo>>
-----------------------------------------------------------------------------
(***************************************************************************)
(* The source.  A condition under evaluation is what to do either way.     *)
(* After the body of a loop comes "again", to which a break or a continue  *)
(* unwinds.                                                                *)
(***************************************************************************)
Cond(c, yes, no) == [op |-> "cond", c |-> c, yes |-> yes, no |-> no]
Again(loop) == [op |-> "again", loop |-> loop]

\* The statements from the first "again" of todo on.
Unwound(s) == LET n == SelectInSeq(s, LAMBDA x : x.op = "again") IN SubSeq(s, n, Len(s))

\* todo with a test or a do in front, or empty.
RECURSIVE Settle(_)
Settle(s) ==
  IF s = << >> THEN s
  ELSE LET h == Head(s)  r == Tail(s)
       IN CASE h.op = "do" -> s
            [] h.op = "empty" -> Settle(r)
            [] h.op = "seq" -> Settle(<<h.first, h.second>> \o r)
            [] h.op = "if" -> Settle(<<Cond(h.cond, <<h.then>>, << >>)>> \o r)
            [] h.op = "ifelse" -> Settle(<<Cond(h.cond, <<h.then>>, <<h.else>>)>> \o r)
            [] h.op = "while" -> Settle(<<Cond(h.cond, <<h.body, Again(h)>>, << >>)>> \o r)
            [] h.op = "again" -> Settle(<<h.loop>> \o r)
            [] h.op = "break" -> Settle(Tail(Unwound(r)))
            [] h.op = "continue" -> Settle(Unwound(r))
            [] h.op = "return" -> << >>
            [] h.op = "cond" ->
                 CASE h.c.op = "test" -> s
                   [] h.c.op = "not" -> Settle(<<Cond(h.c.arg, h.no, h.yes)>> \o r)
                   [] h.c.op = "and" -> Settle(<<Cond(h.c.l, <<Cond(h.c.r, h.yes, h.no)>>, h.no)>> \o r)
                   [] h.c.op = "or"  -> Settle(<<Cond(h.c.l, h.yes, <<Cond(h.c.r, h.yes, h.no)>>)>> \o r)

AfterDo == Settle(Tail(todo))
AfterTest(v) == Settle((IF v THEN Head(todo).yes ELSE Head(todo).no) \o Tail(todo))
-----------------------------------------------------------------------------
\* Where the code is.
Done == <<0, 0>>
Running == at # Done
Here == code[at[1]][at[2]]
AtEnd == at[2] > Len(code[at[1]])
AtOp(op) == Running /\ ~AtEnd /\ Here.op = op

\* What the source does next, and what the code does: assign, test or return.
Expected ==
  CASE todo = << >>          -> <<"ret", 0>>
    [] Head(todo).op = "do"  -> <<"do", Head(todo).id>>
    [] OTHER                 -> <<"test", Head(todo).c.id>>

Observed == <<Here.op, Here.x[1]>>

Visible == ~Running \/ AtOp("do") \/ AtOp("test") \/ AtOp("ret")

Next1 == <<at[1], at[2] + 1>>

Init ==
  /\ function \in Functions
  /\ code = Compile(function.body, function.isvoid)
  /\ at = <<Entry, 1>>
  /\ vals = << >> /\ flag = {}
  /\ todo = Settle(<<function.body>>)

\* A block begins.
Jump(b) == at' = <<b, 1>> /\ vals' = << >> /\ flag' = {}

FallThrough ==
  /\ Running /\ AtEnd
  /\ Jump(at[1] + 1)
  /\ UNCHANGED <<function, code, todo>>

\* CmpInstruction: the value goes to its dst and the flags stay.
Compared(v) == vals' = vals @@ (at :> v) /\ flag' = {v} /\ at' = Next1

\* An operand this block has not computed, or flags it has not set, may be anything.
ValuesOf(x) == IF x \in DOMAIN vals THEN {vals[x]} ELSE BOOLEAN
Flags == IF flag = {} THEN BOOLEAN ELSE flag

DoAssignment ==
  /\ AtOp("do")
  /\ todo' = IF Observed = Expected THEN AfterDo ELSE todo
  /\ at' = Next1
  /\ UNCHANGED <<function, code, vals, flag>>

Test ==
  /\ AtOp("test")
  /\ \E v \in BOOLEAN :
       /\ Compared(v)
       /\ todo' = IF Observed = Expected THEN AfterTest(v) ELSE todo
  /\ UNCHANGED <<function, code>>

NotZero ==
  /\ AtOp("ne")
  /\ \E v \in ValuesOf(Here.x) : Compared(v)
  /\ UNCHANGED <<function, code, todo>>

IsZero ==
  /\ AtOp("eq")
  /\ \E v \in ValuesOf(Here.x) : Compared(~v)
  /\ UNCHANGED <<function, code, todo>>

\* CondBrInstruction::genMachineCode tests the flags, not the operand.
Branches ==
  /\ AtOp("condbr")
  /\ \E holds \in Flags : Jump(IF holds THEN Here.t ELSE Here.f)
  /\ UNCHANGED <<function, code, todo>>

Goto ==
  /\ AtOp("br")
  /\ Jump(Here.t)
  /\ UNCHANGED <<function, code, todo>>

Ret ==
  /\ AtOp("ret")
  /\ at' = Done
  /\ UNCHANGED <<function, code, vals, flag, todo>>

Returned == ~Running /\ UNCHANGED vars

Next ==
  \/ FallThrough \/ DoAssignment \/ Test \/ NotZero \/ IsZero \/ Branches \/ Goto \/ Ret
  \/ Returned

Spec == Init /\ [][Next]_vars /\ WF_vars(Next)
-----------------------------------------------------------------------------
\* The positions are those of the code: every branch was given its blocks
\* before the function was finished, and the code does not run past the last.
TypeOK ==
  /\ \A b \in DOMAIN code : \A k \in DOMAIN code[b] : Targets(code[b][k]) \subseteq DOMAIN code
  /\ Running => at[1] \in DOMAIN code /\ at[2] \in 1 .. Len(code[at[1]]) + 1
  /\ Running /\ at[1] = Len(code) => ~AtEnd
  /\ DOMAIN vals \subseteq Nat \X Nat /\ flag \subseteq BOOLEAN

(***************************************************************************)
(* The next thing the code does is what the source does next, and it       *)
(* returns when the source is done: short circuits, nested loops, breaks   *)
(* and returns lead where the language says.                               *)
(***************************************************************************)
Agrees == Running /\ Visible => Observed = Expected

(***************************************************************************)
(* A conditional branch finds the flags of its own operand: the operand    *)
(* was compared in the same block and nothing was compared since, although *)
(* CondBrInstruction takes the condition from the block (get_op).          *)
(***************************************************************************)
FlagsFresh ==
  AtOp("condbr") => Here.x \in DOMAIN vals /\ flag = {vals[Here.x]}

\* The code never runs on for ever between two things the source does.
Answers == ~Visible ~> Visible

(***************************************************************************)
(* FunctionDef says of its edges "You need do set successors and           *)
(* predecessors for each basic block" (src/src/Ast.cpp:135): a branch that *)
(* is taken is one of them, those to ret_bb aside.                         *)
(***************************************************************************)
EdgesComplete ==
  Running /\ ~AtEnd =>
    \A b \in Targets(Here) \ {RetBlock} : <<at[1], b>> \in Edges(Body(function.body))
=============================================================================
