------------------------------ MODULE WebMerge ------------------------------
(***************************************************************************)
(* The merging loop at the end of LinearScan::computeLiveIntervals         *)
(* (src/src/LinearScan.cpp:128-162).  A pass compares all pairs of a copy  *)
(* of the list; an interval that was absorbed is erased from the list but  *)
(* stays in the copy, where it goes on absorbing others.                   *)
(***************************************************************************)
EXTENDS Integers, Sequences, FiniteSets, FiniteSetsExt, SequencesExt

CONSTANT Inputs   \* the lists of chains, one for each definition

\* Registers and the operand objects that are used are numbered.
Chain == [reg : Nat, start : Int, end : Int, uses : SUBSET Nat]

ASSUME InputsAssumption == Inputs \subseteq Seq(Chain)

VARIABLES
  chains,      \* the intervals before the loop
  intervals,   \* the list, as positions in chains
  body,        \* what each Interval object holds
  t,           \* the copy this pass works on
  i, j,        \* the pair it compares next
  change, mpc

vars == <<chains, intervals, body, t, i, j, change, mpc>>

Identity(n) == [k \in 1 .. n |-> k]

Init ==
  /\ chains \in Inputs
  /\ intervals = Identity(Len(chains))
  /\ body = [k \in DOMAIN chains |->
               [start |-> chains[k].start, end |-> chains[k].end,
                defs |-> {k}, uses |-> chains[k].uses]]
  /\ t = << >> /\ i = 1 /\ j = 2 /\ change = TRUE /\ mpc = "while"

BeginPass ==
  /\ mpc = "while" /\ change
  /\ change' = FALSE
  /\ t' = intervals
  /\ i' = 1 /\ j' = 2 /\ mpc' = "pair"
  /\ UNCHANGED <<chains, intervals, body>>

EndLoop ==
  /\ mpc = "while" /\ ~change
  /\ mpc' = "done"
  /\ UNCHANGED <<chains, intervals, body, t, i, j, change>>

\* For Ends: the inner loop never moves on.
SamePair == UNCHANGED <<i, j, mpc>>

\* The next pair of the two for loops, or the test of the while loop.
NextPair ==
  IF j < Len(t) THEN j' = j + 1 /\ UNCHANGED <<i, mpc>>
  ELSE IF i + 1 < Len(t) THEN i' = i + 1 /\ j' = i + 2 /\ UNCHANGED mpc
  ELSE mpc' = "while" /\ UNCHANGED <<i, j>>

Together(v, w) ==
  /\ chains[Min(body[v].defs)].reg = chains[Min(body[w].defs)].reg
  /\ body[v].uses \cap body[w].uses # {}

Union(v, w) ==
  [start |-> Min({body[v].start, body[v].end, body[w].start, body[w].end}),
   end   |-> Max({body[v].start, body[v].end, body[w].start, body[w].end}),
   defs  |-> body[v].defs \cup body[w].defs,
   uses  |-> body[v].uses \cup body[w].uses]

\* For ComponentsMerged: the first merge of a pass does not ask for another pass.
MergeUnnoticed ==
  /\ mpc = "pair" /\ j <= Len(t) /\ Together(t[i], t[j])
  /\ body' = [body EXCEPT ![t[i]] = Union(t[i], t[j])]
  /\ intervals' = RemoveFirst(intervals, t[j])
  /\ NextPair
  /\ UNCHANGED <<chains, t, change>>

\* For NothingLost: the absorbing interval is erased.
MergeErasesFirst ==
  /\ mpc = "pair" /\ j <= Len(t) /\ Together(t[i], t[j])
  /\ change' = TRUE
  /\ body' = [body EXCEPT ![t[i]] = Union(t[i], t[j])]
  /\ intervals' = RemoveFirst(intervals, t[i])
  /\ NextPair
  /\ UNCHANGED <<chains, t>>

\* The body of the inner loop: the second interval goes into the first.
Merge ==
  /\ mpc = "pair" /\ j <= Len(t) /\ Together(t[i], t[j])
  /\ change' = TRUE
  /\ body' = [body EXCEPT ![t[i]] = Union(t[i], t[j])]
  /\ intervals' = RemoveFirst(intervals, t[j])
  /\ NextPair
  /\ UNCHANGED <<chains, t>>

Skip ==
  /\ mpc = "pair"
  /\ j <= Len(t) => ~Together(t[i], t[j])
  /\ NextPair
  /\ UNCHANGED <<chains, intervals, body, t, change>>

Step == BeginPass \/ EndLoop \/ Merge \/ Skip
Ended == mpc = "done" /\ UNCHANGED vars
Next == Step \/ Ended

Spec == Init /\ [][Next]_vars /\ WF_vars(Step)
-----------------------------------------------------------------------------
(***************************************************************************)
(* What the loop is for: the definitions a use of one register connects,   *)
(* directly or through others.                                             *)
(***************************************************************************)
Linked(d, e) ==
  d = e \/ (chains[d].reg = chains[e].reg /\ chains[d].uses \cap chains[e].uses # {})

Closed(S) == \A d \in S, e \in DOMAIN chains : Linked(d, e) => e \in S

\* The smallest closed set around d.
Component(d) ==
  LET Around == {S \in SUBSET DOMAIN chains : d \in S /\ Closed(S)}
  IN  {e \in DOMAIN chains : \A S \in Around : e \in S}
Components == {Component(d) : d \in DOMAIN chains}

Listed == {body[w] : w \in ToSet(intervals)}

(***************************************************************************)
(* ComponentsMerged: at the end the list holds one interval for each       *)
(* connected component, with all its definitions and uses, although a pass *)
(* walks over a copy with intervals that are erased already.  A merged     *)
(* interval reaches from the first to the last point of its members, also  *)
(* of one that ends before it starts because its use stands earlier in the *)
(* function (a loop).                                                      *)
(***************************************************************************)
ComponentsMerged ==
  mpc = "done" =>
    /\ {b.defs : b \in Listed} = Components
    /\ Len(intervals) = Cardinality(Components)
    /\ \A b \in Listed : b.uses = UNION {chains[d].uses : d \in b.defs}
    /\ \A b \in Listed : Cardinality(b.defs) > 1 =>
         LET points == UNION {{chains[d].start, chains[d].end} : d \in b.defs}
         IN  b.start = Min(points) /\ b.end = Max(points)

(***************************************************************************)
(* NothingLost: at every moment each definition is in a listed interval,   *)
(* also after it was absorbed by one that had been absorbed itself.        *)
(***************************************************************************)
NothingLost == UNION {b.defs : b \in Listed} = DOMAIN chains

\* Ends: the loop stops, although an erased interval may set the flag again.
Ends == <>(mpc = "done")
=============================================================================
