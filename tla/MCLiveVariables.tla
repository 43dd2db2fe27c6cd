-------------------------- MODULE MCLiveVariables ---------------------------
(***************************************************************************)
(* Small instances of LiveVariables.  The analysis treats each register on *)
(* its own, so the flow graphs of three blocks, cyclic ones included, are  *)
(* combined with all short bodies over one register; two programs written  *)
(* by hand have two registers and an operand object with two users.        *)
(***************************************************************************)
EXTENDS LiveVariables

\* What a block does with the register: nothing, or uses and definitions in turn.
Bodies == {<< >>, <<"use">>, <<"def">>, <<"use", "def">>, <<"def", "use">>}

\* Operand object of step k of block b.
Op(b, k) == 2 * b + k

OneRegister(body, succ) ==
  [code |-> [b \in 1 .. 3 |->
               [k \in 1 .. Len(body[b]) |->
                  [def |-> IF body[b][k] = "def" THEN {Op(b, k)} ELSE {},
                   use |-> IF body[b][k] = "use" THEN {Op(b, k)} ELSE {}]]],
   succ |-> succ,
   reg  |-> [o \in 1 .. 8 |-> 1]]

Graphs3 ==
  {<<a, b, c>> : a \in {{2}, {3}, {2, 3}},
                 b \in {{1}, {2}, {3}, {1, 3}, {2, 3}},
                 c \in {{}, {1}, {2}}}

I(d, u) == [def |-> d, use |-> u]

\* Registers 1 and 2; object 3 is used by two instructions of a loop body.
TwoRegisters ==
  {[code |-> << <<I({1}, {}), I({2}, {})>>, <<I({}, {3}), I({4}, {3, 5})>>, <<I({}, {6})>> >>,
    succ |-> <<{2}, {2, 3}, {}>>,
    reg  |-> <<1, 2, 1, 2, 2, 2>>],
   [code |-> << <<I({1}, {})>>, <<I({2}, {3})>>, <<I({4}, {5}), I({}, {6})>> >>,
    succ |-> <<{2, 3}, {3}, {2}>>,
    reg  |-> <<1, 2, 1, 1, 2, 1>>]}

MCPrograms ==
  {OneRegister(body, succ) : body \in [1 .. 3 -> Bodies], succ \in Graphs3} \cup TwoRegisters
=============================================================================
