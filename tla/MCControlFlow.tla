--------------------------- MODULE MCControlFlow ----------------------------
(***************************************************************************)
(* Functions for ControlFlow: fifteen shapes of statements, with each of   *)
(* eight shapes of conditions in their places.                             *)
(***************************************************************************)
EXTENDS ControlFlow

T(n) == [op |-> "test", id |-> n]
Not(c) == [op |-> "not", arg |-> c]
And(a, b) == [op |-> "and", l |-> a, r |-> b]
Or(a, b) == [op |-> "or", l |-> a, r |-> b]

\* Conditions whose tests are numbered from n.
Conds(n) ==
  {T(n), Not(T(n)), And(T(n), T(n + 1)), Or(T(n), Not(T(n + 1))),
   Or(And(T(n), T(n + 1)), T(n + 2)), And(Or(T(n), T(n + 1)), T(n + 2)),
   And(T(n), Or(T(n + 1), T(n + 2))), Or(T(n), And(T(n + 1), T(n + 2)))}

Do(n) == [op |-> "do", id |-> n]
Empty == [op |-> "empty"]
Break == [op |-> "break"]
Continue == [op |-> "continue"]
Leave == [op |-> "return"]
If(c, s) == [op |-> "if", cond |-> c, then |-> s]
IfElse(c, s, t) == [op |-> "ifelse", cond |-> c, then |-> s, else |-> t]
While(c, s) == [op |-> "while", cond |-> c, body |-> s]
Then(s, t) == [op |-> "seq", first |-> s, second |-> t]

OneCond(c) ==
  {Then(If(c, Do(1)), Do(2)),
   Then(IfElse(c, Do(1), Leave), Do(2)),
   While(c, Empty),
   Then(While(c, Continue), While(T(9), Break)),
   Then(While(c, Then(Break, Do(1))), Do(2))}

TwoConds(c, d) ==
  {If(c, IfElse(d, Do(1), Do(2))),
   Then(While(c, Then(If(d, Break), Do(1))), Do(2)),
   Then(While(c, Then(IfElse(d, Continue, Leave), Do(1))), Do(2)),
   Then(While(c, Then(While(d, Then(If(T(9), Break), Do(1))), Then(Do(2), Continue))), Do(3)),
   Then(While(c, Then(If(T(9), Break), Then(While(d, Continue), Break))), Do(1)),
   Then(While(c, Then(While(d, Break), Then(If(T(9), Continue), While(T(8), Break)))), Leave)}

Bodies ==
  {Empty, Do(1), Then(Leave, Do(1))}
  \cup UNION {OneCond(c) : c \in Conds(1)}
  \cup UNION {TwoConds(c, d) : c \in Conds(1), d \in Conds(4)}

MCFunctions == {[body |-> b, isvoid |-> FALSE] : b \in Bodies}
               \cup {[body |-> b, isvoid |-> TRUE] : b \in {Empty, Do(1), Leave, While(T(1), Do(1))}}

BreakFunction == {[body |-> Then(While(T(1), Then(If(T(2), Break), Do(1))), Do(2)), isvoid |-> FALSE]}
=============================================================================
