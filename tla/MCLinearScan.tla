---------------------------- MODULE MCLinearScan ----------------------------
(***************************************************************************)
(* Small instance of LinearScan: two general registers, one float register *)
(* and every list of at most MaxIntervals intervals over MaxTime           *)
(* instruction numbers, dead definitions (end = -1) included.              *)
(***************************************************************************)
EXTENDS LinearScan, FiniteSets

CONSTANTS MaxIntervals, MaxTime

MCIntRegs == <<9, 10>>
MCFpRegs == <<21>>

\* Starts are definitions, so the last instruction only ends intervals.
SmallIntervals ==
  {v \in [start : 1 .. MaxTime - 1, end : {-1} \cup 2 .. MaxTime, fp : BOOLEAN] :
     v.end = -1 \/ v.start < v.end}

MCInputs ==
  {w \in UNION {[1 .. n -> SmallIntervals] : n \in 1 .. MaxIntervals} : SortedByStart(w)}
=============================================================================
