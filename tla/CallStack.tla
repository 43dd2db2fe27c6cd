----------------------------- MODULE CallStack ------------------------------
(***************************************************************************)
(* What a call means in the source language.  Each activation has its      *)
(* parameters and a local variable; a call puts one on the stack with the  *)
(* arguments as parameters, a return takes it off and gives its result to  *)
(* the caller.  Nothing else changes an activation.                        *)
(***************************************************************************)
EXTENDS Integers, Sequences, SequencesExt

CONSTANTS
  Argument(_, _),  \* argument k of the call that makes the activation at a depth
  Initial(_),      \* what the activation at a depth gives its variable
  Result(_),       \* what it returns
  MaxParams

VARIABLE stack

Depth == Len(stack)

Init == stack = << >>

Enter ==
  \E n \in 0 .. MaxParams :
    stack' = Append(stack, [params |-> [k \in 1 .. n |-> Argument(Depth + 1, k)],
                            local  |-> Initial(Depth + 1)])

Leave == stack # << >> /\ stack' = Front(stack)

Receive == stack # << >> /\ stack' = [stack EXCEPT ![Depth].local = Result(Depth + 1)]

Next == Enter \/ Leave \/ Receive

Spec == Init /\ [][Next]_stack
=============================================================================
