----------------------------- MODULE MCWebMerge -----------------------------
(***************************************************************************)
(* All lists of MaxDefs definitions whose chains are sets of three uses of *)
(* one register; a definition may stand between or after its uses.  Two    *)
(* lists by hand have a second register and more definitions.              *)
(***************************************************************************)
EXTENDS WebMerge

CONSTANT MaxDefs

Uses == 1 .. 3

\* Definitions are at even numbers, uses at odd ones; -1 for a dead definition.
ChainOf(d, U) ==
  [reg |-> 1, start |-> 2 * d, uses |-> U,
   end |-> IF U = {} THEN -1 ELSE Max({2 * u + 1 : u \in U})]

Line(n) == [d \in 1 .. n |-> [reg |-> 1 + (d % 2), start |-> d, end |-> d + 2,
                              uses |-> {d, d + 2}]]

MCInputs ==
  {[d \in 1 .. MaxDefs |-> ChainOf(d, U[d])] : U \in [1 .. MaxDefs -> SUBSET Uses]}
    \cup {Line(5), Line(6), << >>}
=============================================================================
