--------------------------- MODULE LiveVariables ----------------------------
(***************************************************************************)
(* LiveVariableAnalysis::pass on one function                              *)
(* (src/src/LiveVariableAnalysis.cpp): the iteration that computes which   *)
(* use operands are live into and out of each block.  The elements of the  *)
(* sets are operand objects, not registers.                                *)
(***************************************************************************)
EXTENDS MachineProgram

CONSTANT Programs   \* the functions, with their flow graphs

Instruction == [def : SUBSET Nat, use : SUBSET Nat]

\* The successors of a block are blocks of the same function.
ASSUME ProgramsAssumption ==
  \A p \in Programs : /\ p.code \in Seq(Seq(Instruction))
                      /\ p.succ \in [Blocks(p) -> SUBSET Blocks(p)]

VARIABLES
  prog,      \* the function
  liveIn,    \* MachineBlock::live_in, kept from one pass to the next
  liveOut,   \* MachineBlock::live_out
  blk,       \* the block the for loop visits next
  change,    \* has a block's live_in changed in this pass
  lvpc       \* "clear", "iterate", "done"

lvVars == <<liveIn, liveOut, blk, change, lvpc>>

(***************************************************************************)
(* computeUsePos and computeDefUse: the uses that a definition in the      *)
(* block kills, and the uses that no earlier definition in it precedes.    *)
(***************************************************************************)
Def(b) == {u \in AllUses(prog) : \E k \in Insts(prog, b) : Defines(prog, b, k, prog.reg[u])}
Use(b) ==
  {u \in UsesIn(prog, b) :
     \E k \in Insts(prog, b) :
       u \in prog.code[b][k].use /\ Transparent(prog, b, 0, k, prog.reg[u])}

LiveSets == [Blocks(prog) -> SUBSET AllUses(prog)]

TypeOK ==
  /\ liveIn \in LiveSets
  /\ liveOut \in LiveSets
  /\ blk \in 1 .. Len(prog.code) + 1
  /\ change \in BOOLEAN
  /\ lvpc \in {"clear", "iterate", "done"}

\* The sets are whatever an earlier pass over the function left behind.
Init ==
  /\ prog \in Programs
  /\ liveIn \in {[b \in Blocks(prog) |-> S] : S \in {{}, AllUses(prog)}}
  /\ liveOut = [b \in Blocks(prog) |-> AllUses(prog)]
  /\ blk = 1 /\ change = TRUE /\ lvpc = "clear"

\* For TypeOK: the blocks are counted from zero.
BeginPassAtZero == blk' = 0 /\ change' = FALSE

BeginPass == blk' = 1 /\ change' = FALSE

\* For LiveExact: the sets of the previous pass stay.
ClearForgotten ==
  lvpc = "clear" /\ BeginPass /\ lvpc' = "iterate" /\ UNCHANGED <<liveIn, liveOut>>

\* iterate, its first loop; then the first turn of the while loop begins.
ClearLiveIn ==
  /\ lvpc = "clear"
  /\ liveIn' = [b \in Blocks(prog) |-> {}]
  /\ BeginPass
  /\ lvpc' = "iterate"
  /\ UNCHANGED liveOut

PastLastBlock == blk > Len(prog.code)

\* The body of the for loop: a block's sets from its successors' live_in.
VisitBlock ==
  /\ lvpc = "iterate" /\ ~PastLastBlock
  /\ LET out == UNION {liveIn[s] : s \in prog.succ[blk]}
         in  == Use(blk) \cup (out \ Def(blk))
     IN  /\ liveOut' = [liveOut EXCEPT ![blk] = out]
         /\ liveIn' = [liveIn EXCEPT ![blk] = in]
         /\ change' = (change \/ liveIn[blk] # in)
  /\ blk' = blk + 1
  /\ UNCHANGED lvpc

\* For Terminates: the flag is not reset at the head of the loop.
RepeatForever == lvpc = "iterate" /\ PastLastBlock /\ blk' = 1
                 /\ UNCHANGED <<liveIn, liveOut, change, lvpc>>

\* The condition of the while loop.
EndPass ==
  /\ lvpc = "iterate" /\ PastLastBlock
  /\ IF change
     THEN BeginPass /\ UNCHANGED lvpc
     ELSE lvpc' = "done" /\ UNCHANGED <<blk, change>>
  /\ UNCHANGED <<liveIn, liveOut>>

Analyse == ClearLiveIn \/ VisitBlock \/ EndPass

Returned == lvpc = "done" /\ UNCHANGED lvVars

Next == (Analyse \/ Returned) /\ UNCHANGED prog

Spec == Init /\ [][Next]_<<prog, lvVars>> /\ WF_lvVars(Analyse /\ UNCHANGED prog)
-----------------------------------------------------------------------------
(***************************************************************************)
(* What liveness means: a use is live where a block begins when some path  *)
(* through the flow graph leads from there to an instruction that has the  *)
(* use, without a definition of its register on the way.                   *)
(***************************************************************************)
Paths(b) ==
  {w \in UNION {[1 .. n -> Blocks(prog)] : n \in 1 .. Len(prog.code)} :
     w[1] = b /\ \A i \in 1 .. Len(w) - 1 : w[i + 1] \in prog.succ[w[i]]}

ReachesUse(w, u) ==
  LET last == w[Len(w)]
      r == prog.reg[u]
  IN  /\ \A i \in 1 .. Len(w) - 1 : \A k \in Insts(prog, w[i]) : ~Defines(prog, w[i], k, r)
      /\ \E k \in Insts(prog, last) :
           /\ u \in prog.code[last][k].use
           /\ \A j \in 1 .. k - 1 : ~Defines(prog, last, j, r)

LiveInto(b) == {u \in AllUses(prog) : \E w \in Paths(b) : ReachesUse(w, u)}
LiveOutOf(b) == UNION {LiveInto(s) : s \in prog.succ[b]}

(***************************************************************************)
(* LiveExact: when the analysis ends, live_in and live_out of every block  *)
(* are exactly the uses that are live there, although a pass reads the     *)
(* sets of successors that this pass has not visited yet, and liveOut of a *)
(* block visited early is not looked at again after its successors.  On    *)
(* the way live_in never holds a use that is not live, so that loops do    *)
(* not keep each other's uses alive.                                       *)
(***************************************************************************)
LiveExact ==
  /\ lvpc = "done" => \A b \in Blocks(prog) :
                        liveIn[b] = LiveInto(b) /\ liveOut[b] = LiveOutOf(b)
  /\ lvpc # "clear" => \A b \in Blocks(prog) : liveIn[b] \subseteq LiveInto(b)

\* Terminates: the while loop stops on every flow graph, cyclic ones included.
Terminates == <>(lvpc = "done")
=============================================================================
