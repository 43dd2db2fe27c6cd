----------------------------- MODULE MCCallFrame ----------------------------
(***************************************************************************)
(* Five functions for CallFrame.  The allocator takes registers from the   *)
(* front of its lists, so saved_regs holds a first part of each: r4 on,    *)
(* and s5 on (21 on).  A temporary of the return always takes r4.          *)
(***************************************************************************)
EXTENDS CallFrame

Ints(n) == [k \in 1 .. n |-> "int"]
Floats(n) == [k \in 1 .. n |-> "float"]
SavedRegs(g, f) == [n \in 1 .. g |-> n + 3] \o [n \in 1 .. f |-> n + 20]

Function(sig, ret, saved, locals, spills) ==
  [sig |-> sig, ret |-> ret, saved |-> saved, locals |-> locals, spills |-> spills]

(***************************************************************************)
(* Parameters of one bank only on the stack, or none; both parities of the  *)
(* frame; float registers for no vpush, a short or a full one, and two.     *)
(***************************************************************************)
MCFunctions ==
  << Function(<< >>, "int", SavedRegs(2, 1), 2, 0),
     Function(Ints(1) \o Floats(1) \o Ints(1), "float", SavedRegs(1, 17), 1, 1),
     Function(Ints(4) \o Floats(1) \o Ints(3), "int", SavedRegs(7, 0), 1, 2),
     Function(Ints(1) \o Floats(7), "float", SavedRegs(1, 27), 2, 0),
     Function(<< >>, "int", SavedRegs(3, 16), 1, 1) >>

\* What the refinement is proved from (CallFrameProofs).
ASSUME OrderAssumption == \A g \in DOMAIN MCFunctions : StackParametersLast(MCFunctions[g].sig)

\* The first eight parameters of params_f40_i24 (test/level2-6/39_fp_params.sy:22).
MixedFunctions ==
  << Function(<< >>, "int", SavedRegs(2, 1), 2, 0),
     Function(Ints(3) \o Floats(1) \o Ints(3) \o Floats(1), "float", SavedRegs(1, 0), 1, 0) >>
=============================================================================
