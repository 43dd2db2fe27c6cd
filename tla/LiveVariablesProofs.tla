------------------------- MODULE LiveVariablesProofs -------------------------
(***************************************************************************)
(* Theorems about the live variable analysis, for every flow graph.        *)
(***************************************************************************)
EXTENDS LiveVariables, MinMaxLemmas, TLAPS, FiniteSetTheorems, SequenceTheorems

\* Whatever else instructions hold (RegAlloc has more than Instruction says).
WellFormed ==
  /\ \E I : prog.code \in Seq(Seq(I))
  /\ prog.succ \in [Blocks(prog) -> SUBSET Blocks(prog)]

(***************************************************************************)
(* Paths of any length: from block b along w, of length n, to a use.       *)
(***************************************************************************)
Path(w, n, b) ==
  /\ w \in [1 .. n -> Blocks(prog)]
  /\ w[1] = b
  /\ \A k \in 1 .. n - 1 : w[k + 1] \in prog.succ[w[k]]

\* Block b does not define the register of u.
Passes(b, u) == \A k \in Insts(prog, b) : ~Defines(prog, b, k, prog.reg[u])

Leads(w, n, u) ==
  /\ \A k \in 1 .. n - 1 : Passes(w[k], u)
  /\ u \in Use(w[n])

Live(u, b) == \E n \in Nat \ {0} : \E w : Path(w, n, b) /\ Leads(w, n, u)

(***************************************************************************)
(* The inductive invariant.  Nothing is found that is not live; and in a   *)
(* pass that has changed nothing so far the blocks visited satisfy the     *)
(* equations of the analysis.                                              *)
(***************************************************************************)
OnlyLive == lvpc # "clear" => \A b \in Blocks(prog) : \A u \in liveIn[b] : Live(u, b)

Solved(b) ==
  /\ liveOut[b] = UNION {liveIn[s] : s \in prog.succ[b]}
  /\ liveIn[b] = Use(b) \cup (liveOut[b] \ Def(b))

SolvedSoFar ==
  /\ lvpc = "iterate" /\ ~change => \A b \in Blocks(prog) : b < blk => Solved(b)
  /\ lvpc = "done" => \A b \in Blocks(prog) : Solved(b)

IInv == WellFormed /\ TypeOK /\ OnlyLive /\ SolvedSoFar
-----------------------------------------------------------------------------
(***************************************************************************)
(* Blocks and their uses.                                                  *)
(***************************************************************************)

\* BlockTypes: blocks and instructions are numbered from one, successors are
\* blocks.
LEMMA BlockTypes ==
  ASSUME WellFormed
  PROVE  /\ Len(prog.code) \in Nat /\ Blocks(prog) = 1 .. Len(prog.code)
         /\ \A b \in Blocks(prog) : /\ prog.succ[b] \subseteq Blocks(prog)
                                    /\ Insts(prog, b) \subseteq Nat \ {0}
                                    /\ \A k \in Insts(prog, b) : 1 .. k \subseteq Insts(prog, b)
<1>0. PICK I : prog.code \in Seq(Seq(I))
  BY DEF WellFormed
<1>1. /\ Len(prog.code) \in Nat /\ Blocks(prog) = 1 .. Len(prog.code)
      /\ prog.code \in [1 .. Len(prog.code) -> Seq(I)]
  BY <1>0, LenProperties DEF Blocks
<1>2. ASSUME NEW b \in Blocks(prog)
      PROVE  /\ prog.succ[b] \subseteq Blocks(prog)
             /\ Insts(prog, b) \subseteq Nat \ {0}
             /\ \A k \in Insts(prog, b) : 1 .. k \subseteq Insts(prog, b)
  <2>1. prog.code[b] \in Seq(I)
    BY <1>1
  <2>2. Insts(prog, b) = 1 .. Len(prog.code[b]) /\ Len(prog.code[b]) \in Nat
    BY <2>1, LenProperties DEF Insts
  <2> QED BY <2>2 DEF WellFormed
<1> QED BY <1>1, <1>2

\* UseTypes: the sets of computeDefUse hold uses of the function, and a
\* block passes a use on unless it kills it.
LEMMA UseTypes ==
  ASSUME WellFormed
  PROVE  \A b \in Blocks(prog) :
           /\ Use(b) \subseteq AllUses(prog)
           /\ Def(b) \subseteq AllUses(prog)
           /\ \A u \in AllUses(prog) : Passes(b, u) <=> u \notin Def(b)
BY DEF Use, Def, AllUses, Passes

\* UseStarts: what the property says of the last block of a path.
LEMMA UseStarts ==
  ASSUME WellFormed, NEW b \in Blocks(prog), NEW u
  PROVE  u \in Use(b) <=>
           \E k \in Insts(prog, b) :
             /\ u \in prog.code[b][k].use
             /\ \A l \in 1 .. k - 1 : ~Defines(prog, b, l, prog.reg[u])
<1>1. ASSUME NEW k \in Insts(prog, b)
      PROVE  Transparent(prog, b, 0, k, prog.reg[u]) <=>
               \A l \in 1 .. k - 1 : ~Defines(prog, b, l, prog.reg[u])
  <2>1. Insts(prog, b) \subseteq Nat \ {0} /\ 1 .. k \subseteq Insts(prog, b)
    BY BlockTypes
  <2>2. \A l : l \in Insts(prog, b) /\ 0 < l /\ l < k <=> l \in 1 .. k - 1
    BY <2>1
  <2> QED BY <2>2 DEF Transparent
<1> QED BY <1>1 DEF Use, UsesIn
-----------------------------------------------------------------------------
(***************************************************************************)
(* Live along a path of any length, and of the property's bounded length.  *)
(***************************************************************************)

\* ReachesLeads: the property's paths, spelled out.
LEMMA ReachesLeads ==
  ASSUME WellFormed, NEW n \in Nat \ {0}, NEW w \in [1 .. n -> Blocks(prog)], NEW u
  PROVE  ReachesUse(w, u) <=> Leads(w, n, u)
<1>1. Len(w) = n /\ w[n] \in Blocks(prog)
  OBVIOUS
<1>2. u \in Use(w[n]) <=>
        \E k \in Insts(prog, w[n]) :
          /\ u \in prog.code[w[n]][k].use
          /\ \A l \in 1 .. k - 1 : ~Defines(prog, w[n], l, prog.reg[u])
  BY <1>1, UseStarts
<1> QED BY <1>1, <1>2 DEF ReachesUse, Leads, Passes

\* Extend: a use that is live into a successor and passes the block is live
\* into the block.
LEMMA Extend ==
  ASSUME WellFormed, NEW b \in Blocks(prog), NEW s \in prog.succ[b], NEW u,
         Live(u, s), Passes(b, u)
  PROVE  Live(u, b)
<1>0. PICK n \in Nat \ {0} : \E w : Path(w, n, s) /\ Leads(w, n, u)
  BY DEF Live
<1>1. PICK w : Path(w, n, s) /\ Leads(w, n, u)
  BY <1>0
<1> DEFINE v == [k \in 1 .. n + 1 |-> IF k = 1 THEN b ELSE w[k - 1]]
<1>2. /\ w \in [1 .. n -> Blocks(prog)] /\ w[1] = s
      /\ \A k \in 1 .. n - 1 : w[k + 1] \in prog.succ[w[k]] /\ Passes(w[k], u)
      /\ u \in Use(w[n])
  BY <1>1 DEF Path, Leads
<1>3. v \in [1 .. n + 1 -> Blocks(prog)] /\ v[1] = b /\ v[n + 1] = w[n]
  BY <1>2
<1>4. ASSUME NEW k \in 1 .. n PROVE v[k + 1] \in prog.succ[v[k]] /\ Passes(v[k], u)
  <2>1. CASE k = 1
    BY <2>1, <1>2
  <2>2. CASE k # 1
    <3>1. v[k + 1] = w[k] /\ v[k] = w[k - 1] /\ k - 1 \in 1 .. n - 1 /\ (k - 1) + 1 = k
      BY <2>2
    <3>2. w[(k - 1) + 1] \in prog.succ[w[k - 1]] /\ Passes(w[k - 1], u)
      BY <3>1, <1>2
    <3> QED BY <3>1, <3>2
  <2> QED BY <2>1, <2>2
<1>5. n + 1 \in Nat \ {0} /\ (n + 1) - 1 = n
  OBVIOUS
<1> HIDE DEF v
<1>6. Path(v, n + 1, b) /\ Leads(v, n + 1, u)
  BY <1>2, <1>3, <1>4, <1>5 DEF Path, Leads
<1> QED BY <1>5, <1>6 DEF Live

\* Starts: a use that no definition precedes is live into its block.
LEMMA Starts ==
  ASSUME WellFormed, NEW b \in Blocks(prog), NEW u \in Use(b)
  PROVE  Live(u, b)
<1> DEFINE v == [k \in 1 .. 1 |-> b]
<1>1. v \in [1 .. 1 -> Blocks(prog)] /\ v[1] = b /\ 1 .. 1 - 1 = {}
  OBVIOUS
<1> HIDE DEF v
<1>2. Path(v, 1, b) /\ Leads(v, 1, u)
  BY <1>1 DEF Path, Leads
<1> QED BY <1>2 DEF Live

\* Shortcut: a path that meets a block twice can leave out the way between.
LEMMA Shortcut ==
  ASSUME WellFormed, NEW n \in Nat \ {0}, NEW w, NEW b, NEW u,
         Path(w, n, b), Leads(w, n, u),
         NEW a \in 1 .. n, NEW c \in 1 .. n, a < c, w[a] = w[c]
  PROVE  \E v : Path(v, n - (c - a), b) /\ Leads(v, n - (c - a), u)
<1> DEFINE m == n - (c - a)
           v == [k \in 1 .. m |-> IF k <= a THEN w[k] ELSE w[k + (c - a)]]
<1>1. /\ w \in [1 .. n -> Blocks(prog)] /\ w[1] = b
      /\ \A k \in 1 .. n - 1 : w[k + 1] \in prog.succ[w[k]] /\ Passes(w[k], u)
      /\ u \in Use(w[n])
  BY DEF Path, Leads
<1>2. m \in Nat \ {0} /\ a <= m
  OBVIOUS
<1>3. v \in [1 .. m -> Blocks(prog)] /\ v[1] = b
  <2>1. ASSUME NEW k \in 1 .. m PROVE v[k] \in Blocks(prog)
    <3>1. k <= a => k \in 1 .. n
      BY <1>2
    <3>2. k > a => k + (c - a) \in 1 .. n
      BY <1>2
    <3> QED BY <3>1, <3>2, <1>1
  <2> QED BY <2>1, <1>1, <1>2
<1>4. v[m] = w[n]
  BY <1>2
<1>5. ASSUME NEW k \in 1 .. m - 1 PROVE v[k + 1] \in prog.succ[v[k]] /\ Passes(v[k], u)
  <2>1. CASE k < a
    <3>1. v[k] = w[k] /\ v[k + 1] = w[k + 1] /\ k \in 1 .. n - 1
      BY <2>1, <1>2
    <3> QED BY <3>1, <1>1
  <2>2. CASE k = a
    <3>1. v[k] = w[c] /\ v[k + 1] = w[c + 1] /\ c \in 1 .. n - 1
      BY <2>2, <1>2
    <3> QED BY <3>1, <1>1
  <2>3. CASE k > a
    <3>1. v[k] = w[k + (c - a)] /\ v[k + 1] = w[(k + (c - a)) + 1]
      BY <2>3, <1>2
    <3>2. k + (c - a) \in 1 .. n - 1
      BY <2>3, <1>2
    <3> QED BY <3>1, <3>2, <1>1
  <2> QED BY <2>1, <2>2, <2>3
<1> HIDE DEF v
<1>6. Path(v, m, b) /\ Leads(v, m, u)
  BY <1>1, <1>3, <1>4, <1>5 DEF Path, Leads
<1> QED BY <1>6

\* LiveBounded: the bound on the length of the paths loses nothing.
LEMMA LiveBounded ==
  ASSUME WellFormed, NEW b \in Blocks(prog)
  PROVE  LiveInto(b) = {u \in AllUses(prog) : Live(u, b)}
<1> DEFINE N == Len(prog.code)
<1>1. N \in Nat /\ Blocks(prog) = 1 .. N
  BY BlockTypes
<1>2. ASSUME NEW u, NEW w \in Paths(b), ReachesUse(w, u)
      PROVE  Live(u, b)
  <2>1. PICK n \in 1 .. N : w \in [1 .. n -> Blocks(prog)]
    BY DEF Paths
  <2>2. Len(w) = n /\ n \in Nat \ {0}
    BY <2>1, <1>1
  <2>3. Path(w, n, b)
    BY <2>1, <2>2 DEF Paths, Path
  <2>4. Leads(w, n, u)
    BY <2>1, <2>2, <1>2, ReachesLeads
  <2> QED BY <2>2, <2>3, <2>4 DEF Live
<1>3. ASSUME NEW u, Live(u, b)
      PROVE  \E w \in Paths(b) : ReachesUse(w, u)
  <2> DEFINE Lengths == {n \in Nat \ {0} : \E w : Path(w, n, b) /\ Leads(w, n, u)}
  <2>1. Lengths \in SUBSET Nat /\ Lengths # {}
    BY <1>3 DEF Live
  <2> HIDE DEF Lengths
  <2>2. PICK n \in Lengths : \A m \in Lengths : n <= m
    BY <2>1, NatMinimum
  <2>3. n \in Nat \ {0} /\ \E w : Path(w, n, b) /\ Leads(w, n, u)
    BY <2>2 DEF Lengths
  <2>4. PICK w : Path(w, n, b) /\ Leads(w, n, u)
    BY <2>3
  <2>5. w \in [1 .. n -> 1 .. N] /\ w[1] = b
        /\ \A k \in 1 .. n - 1 : w[k + 1] \in prog.succ[w[k]]
    BY <2>4, <1>1 DEF Path
  <2>6. ASSUME NEW a \in 1 .. n, NEW c \in 1 .. n, a < c, w[a] = w[c] PROVE FALSE
    <3>1. \E v : Path(v, n - (c - a), b) /\ Leads(v, n - (c - a), u)
      BY <2>3, <2>4, <2>6, Shortcut
    <3>2. n - (c - a) \in Nat \ {0} /\ n - (c - a) < n
      BY <2>3, <2>6
    <3>3. n - (c - a) \in Lengths
      BY <3>1, <3>2 DEF Lengths
    <3> QED BY <2>2, <2>3, <3>2, <3>3
  <2>7. w \in Injection(1 .. n, 1 .. N)
    <3>1. \A a, c \in 1 .. n : w[a] = w[c] => a = c
      BY <2>3, <2>6
    <3> QED BY <2>5, <3>1 DEF Injection, IsInjective
  <2>8. n <= N
    <3>1. IsFiniteSet(1 .. N) /\ Cardinality(1 .. N) = N /\ Cardinality(1 .. n) = n
      BY <1>1, <2>3, FS_Interval
    <3>2. Cardinality(1 .. n) <= Cardinality(1 .. N)
      BY <2>7, <3>1, FS_Injection
    <3> QED BY <3>1, <3>2
  <2>9. w \in [1 .. n -> Blocks(prog)] /\ n \in 1 .. N /\ Len(w) = n
    BY <1>1, <2>3, <2>5, <2>8
  <2>10. w \in Paths(b)
    BY <2>5, <2>9 DEF Paths
  <2>11. ReachesUse(w, u)
    BY <2>3, <2>4, <2>9, ReachesLeads
  <2> QED BY <2>10, <2>11
<1> QED BY <1>2, <1>3 DEF LiveInto
-----------------------------------------------------------------------------
(***************************************************************************)
(* The steps.                                                              *)
(***************************************************************************)

LEMMA IInvInit == ASSUME Init PROVE IInv
<1>1. WellFormed
  BY ProgramsAssumption DEF Init, WellFormed
<1>2. TypeOK
  <2>1. Len(prog.code) \in Nat
    BY <1>1, BlockTypes
  <2> QED BY <2>1 DEF Init, TypeOK, LiveSets
<1>3. OnlyLive /\ SolvedSoFar
  BY DEF Init, OnlyLive, SolvedSoFar
<1> QED BY <1>1, <1>2, <1>3 DEF IInv

\* Steps never change the function, nor what is live in it.
LEMMA SameFunction ==
  ASSUME prog' = prog
  PROVE  /\ WellFormed' <=> WellFormed
         /\ Blocks(prog)' = Blocks(prog) /\ AllUses(prog)' = AllUses(prog)
         /\ LiveSets' = LiveSets
         /\ \A b : Use(b)' = Use(b) /\ Def(b)' = Def(b)
         /\ \A u, b : Live(u, b)' <=> Live(u, b)
         /\ \A b : LiveInto(b)' = LiveInto(b) /\ LiveOutOf(b)' = LiveOutOf(b)
<1>1. \A b : Use(b)' = Use(b) /\ Def(b)' = Def(b)
  BY DEF Use, Def
<1>2. \A w, n, b : Path(w, n, b)' <=> Path(w, n, b)
  BY DEF Path
<1>3. \A w, n, u : Leads(w, n, u)' <=> Leads(w, n, u)
  BY <1>1 DEF Leads, Passes
<1>4. \A u, b : Live(u, b)' <=> Live(u, b)
  BY <1>2, <1>3 DEF Live
<1>5. \A b : LiveInto(b)' = LiveInto(b)
  BY DEF LiveInto, Paths, ReachesUse
<1>6. \A b : LiveOutOf(b)' = LiveOutOf(b)
  BY <1>5 DEF LiveOutOf
<1> QED BY <1>1, <1>4, <1>5, <1>6 DEF WellFormed, LiveSets

\* VisitFacts: what visiting one block writes.
LEMMA VisitFacts ==
  ASSUME IInv, VisitBlock, prog' = prog, NEW b, b = blk
  PROVE  /\ b \in Blocks(prog)
         /\ liveOut' \in LiveSets /\ liveIn' \in LiveSets
         /\ liveOut'[b] = UNION {liveIn[s] : s \in prog.succ[b]}
         /\ liveIn'[b] = Use(b) \cup (liveOut'[b] \ Def(b))
         /\ \A c \in Blocks(prog) : c # b => liveIn'[c] = liveIn[c] /\ liveOut'[c] = liveOut[c]
         /\ ~change' => ~change /\ liveIn' = liveIn
         /\ change' \in BOOLEAN /\ blk' = b + 1 /\ lvpc = "iterate" /\ lvpc' = lvpc
<1> DEFINE out == UNION {liveIn[s] : s \in prog.succ[b]}
           in  == Use(b) \cup (out \ Def(b))
<1>1. /\ lvpc = "iterate" /\ lvpc' = lvpc /\ blk' = b + 1 /\ ~PastLastBlock
      /\ liveOut' = [liveOut EXCEPT ![b] = out]
      /\ liveIn' = [liveIn EXCEPT ![b] = in]
      /\ change' = (change \/ liveIn[b] # in)
  BY DEF VisitBlock
<1>2. b \in Blocks(prog)
  <2>1. Len(prog.code) \in Nat /\ Blocks(prog) = 1 .. Len(prog.code)
    BY BlockTypes DEF IInv
  <2> QED BY <1>1, <2>1 DEF PastLastBlock, IInv, TypeOK
<1>3. /\ liveIn \in LiveSets /\ liveOut \in LiveSets /\ change \in BOOLEAN
      /\ WellFormed
  BY DEF IInv, TypeOK
<1>4. out \in SUBSET AllUses(prog)
  <2>1. prog.succ[b] \subseteq Blocks(prog)
    BY <1>2, <1>3, BlockTypes
  <2> QED BY <1>3, <2>1 DEF LiveSets
<1>5. in \in SUBSET AllUses(prog)
  BY <1>2, <1>3, <1>4, UseTypes
<1> HIDE DEF out, in
<1>6. liveOut' \in LiveSets /\ liveIn' \in LiveSets
  BY <1>1, <1>3, <1>4, <1>5 DEF LiveSets
<1>7. /\ liveOut'[b] = out /\ liveIn'[b] = in
      /\ \A c \in Blocks(prog) : c # b => liveIn'[c] = liveIn[c] /\ liveOut'[c] = liveOut[c]
  BY <1>1, <1>2, <1>3 DEF LiveSets
<1>8. ~change' => ~change /\ liveIn' = liveIn
  BY <1>1, <1>2, <1>3 DEF LiveSets
<1>9. change' \in BOOLEAN
  BY <1>1, <1>3
<1> QED BY <1>1, <1>2, <1>6, <1>7, <1>8, <1>9 DEF out, in

\* VisitFindsLive: what a visit adds is live.
LEMMA VisitFindsLive ==
  ASSUME IInv, VisitBlock, prog' = prog
  PROVE  \A c \in Blocks(prog) : \A u \in liveIn'[c] : Live(u, c)
<1>1. PICK b : b = blk
  OBVIOUS
<1>2. WellFormed /\ TypeOK /\ \A c \in Blocks(prog) : \A u \in liveIn[c] : Live(u, c)
  BY VisitFacts, <1>1 DEF IInv, OnlyLive
<1>3. /\ b \in Blocks(prog)
      /\ liveOut'[b] = UNION {liveIn[s] : s \in prog.succ[b]}
      /\ liveIn'[b] = Use(b) \cup (liveOut'[b] \ Def(b))
      /\ \A c \in Blocks(prog) : c # b => liveIn'[c] = liveIn[c]
  BY <1>1, VisitFacts
<1>4. ASSUME NEW u \in liveIn'[b] PROVE Live(u, b)
  <2>1. CASE u \in Use(b)
    BY <2>1, <1>2, <1>3, Starts
  <2>2. CASE u \in liveOut'[b] /\ u \notin Def(b)
    <3>1. PICK s \in prog.succ[b] : u \in liveIn[s]
      BY <2>2, <1>3
    <3>2. s \in Blocks(prog)
      BY <1>2, <1>3, BlockTypes
    <3>3. u \in AllUses(prog)
      BY <1>2, <3>1, <3>2 DEF TypeOK, LiveSets
    <3>4. Passes(b, u)
      BY <1>2, <1>3, <2>2, <3>3, UseTypes
    <3>5. Live(u, s)
      BY <1>2, <3>1, <3>2
    <3> QED BY <1>2, <1>3, <3>1, <3>4, <3>5, Extend
  <2> QED BY <2>1, <2>2, <1>3
<1> QED BY <1>2, <1>3, <1>4

LEMMA IInvStep == ASSUME IInv, [Next]_<<prog, lvVars>> PROVE IInv'
<1> USE DEF IInv
<1>1. CASE ClearLiveIn /\ prog' = prog
  <2>1. /\ liveIn' = [b \in Blocks(prog) |-> {}] /\ blk' = 1 /\ change' = FALSE
        /\ lvpc' = "iterate" /\ liveOut' = liveOut
    BY <1>1 DEF ClearLiveIn, BeginPass
  <2>2. Len(prog.code) \in Nat /\ Blocks(prog) = 1 .. Len(prog.code)
    BY BlockTypes
  <2>3. WellFormed' /\ LiveSets' = LiveSets /\ Blocks(prog)' = Blocks(prog)
    BY <1>1, SameFunction
  <2>4. TypeOK'
    <3>1. liveIn' \in LiveSets' /\ liveOut' \in LiveSets'
      BY <2>1, <2>3 DEF TypeOK, LiveSets
    <3>2. blk' \in 1 .. Len(prog'.code) + 1
      BY <1>1, <2>1, <2>2
    <3> QED BY <2>1, <3>1, <3>2 DEF TypeOK
  <2>5. OnlyLive'
    BY <2>1, <2>3 DEF OnlyLive
  <2>6. SolvedSoFar'
    BY <2>1, <2>2, <2>3 DEF SolvedSoFar
  <2> QED BY <2>3, <2>4, <2>5, <2>6
<1>2. CASE VisitBlock /\ prog' = prog
  <2>1. PICK b : b = blk
    OBVIOUS
  <2>2. /\ b \in Blocks(prog)
        /\ liveOut' \in LiveSets /\ liveIn' \in LiveSets
        /\ liveOut'[b] = UNION {liveIn[s] : s \in prog.succ[b]}
        /\ liveIn'[b] = Use(b) \cup (liveOut'[b] \ Def(b))
        /\ \A c \in Blocks(prog) : c # b => liveIn'[c] = liveIn[c] /\ liveOut'[c] = liveOut[c]
        /\ ~change' => ~change /\ liveIn' = liveIn
        /\ change' \in BOOLEAN /\ blk' = b + 1 /\ lvpc = "iterate" /\ lvpc' = lvpc
    BY <1>2, <2>1, VisitFacts
  <2>3. Len(prog.code) \in Nat /\ Blocks(prog) = 1 .. Len(prog.code)
    BY BlockTypes
  <2>4. /\ WellFormed' /\ LiveSets' = LiveSets /\ Blocks(prog)' = Blocks(prog)
        /\ \A c : Use(c)' = Use(c) /\ Def(c)' = Def(c)
        /\ \A u, c : Live(u, c)' <=> Live(u, c)
    BY <1>2, SameFunction
  <2>5. TypeOK'
    <3>1. blk' \in 1 .. Len(prog'.code) + 1
      BY <1>2, <2>2, <2>3
    <3> QED BY <2>2, <2>4, <3>1 DEF TypeOK
  <2>6. OnlyLive'
    BY <1>2, <2>4, VisitFindsLive DEF OnlyLive
  <2>7. SolvedSoFar'
    <3> SUFFICES ASSUME ~change', NEW c \in Blocks(prog), c < b + 1
                 PROVE  Solved(c)'
      BY <2>2, <2>4 DEF SolvedSoFar
    <3>1. liveIn' = liveIn /\ ~change
      BY <2>2
    <3>2. CASE c = b
      BY <1>2, <2>2, <2>4, <3>1, <3>2 DEF Solved
    <3>3. CASE c # b
      <4>1. c < b
        BY <2>2, <2>3, <3>3
      <4>2. Solved(c)
        BY <2>1, <2>2, <3>1, <4>1 DEF SolvedSoFar
      <4> QED BY <1>2, <2>2, <2>4, <3>1, <3>3, <4>2 DEF Solved
    <3> QED BY <3>2, <3>3
  <2> QED BY <2>4, <2>5, <2>6, <2>7
<1>3. CASE EndPass /\ prog' = prog
  <2>1. /\ lvpc = "iterate" /\ blk > Len(prog.code)
        /\ UNCHANGED <<liveIn, liveOut>>
        /\ \/ change /\ blk' = 1 /\ change' = FALSE /\ lvpc' = lvpc
           \/ ~change /\ lvpc' = "done" /\ blk' = blk /\ change' = change
    BY <1>3 DEF EndPass, PastLastBlock, BeginPass
  <2>2. Len(prog.code) \in Nat /\ Blocks(prog) = 1 .. Len(prog.code)
    BY BlockTypes
  <2>3. /\ WellFormed' /\ LiveSets' = LiveSets /\ Blocks(prog)' = Blocks(prog)
        /\ \A c : Use(c)' = Use(c) /\ Def(c)' = Def(c)
        /\ \A u, c : Live(u, c)' <=> Live(u, c)
    BY <1>3, SameFunction
  <2>4. TypeOK'
    <3>1. liveIn' \in LiveSets' /\ liveOut' \in LiveSets'
      BY <2>1, <2>3 DEF TypeOK
    <3>2. blk' \in 1 .. Len(prog'.code) + 1
      BY <1>3, <2>1, <2>2 DEF TypeOK
    <3>3. change' \in BOOLEAN /\ lvpc' \in {"clear", "iterate", "done"}
      BY <2>1 DEF TypeOK
    <3> QED BY <3>1, <3>2, <3>3 DEF TypeOK
  <2>5. OnlyLive'
    BY <2>1, <2>3 DEF OnlyLive
  <2>6. \A c : Solved(c)' <=> Solved(c)
    BY <1>3, <2>1, <2>3 DEF Solved
  <2>7. SolvedSoFar'
    BY <2>1, <2>2, <2>3, <2>6 DEF SolvedSoFar, TypeOK
  <2> QED BY <2>3, <2>4, <2>5, <2>7
<1>4. CASE UNCHANGED <<prog, lvVars>>
  <2>1. \A c : Solved(c)' <=> Solved(c)
    BY <1>4 DEF Solved, Use, Def, lvVars
  <2>2. /\ WellFormed' /\ LiveSets' = LiveSets /\ Blocks(prog)' = Blocks(prog)
        /\ \A u, c : Live(u, c)' <=> Live(u, c)
    BY <1>4, SameFunction
  <2> QED BY <1>4, <2>1, <2>2 DEF lvVars, TypeOK, OnlyLive, SolvedSoFar
<1> QED BY <1>1, <1>2, <1>3, <1>4 DEF Next, Analyse, Returned

THEOREM Invariance == Spec => []IInv
BY IInvInit, IInvStep, PTL DEF Spec

(***************************************************************************)
(* TypeCorrect: the sets of the analysis hold uses of the function and the *)
(* loop of src/src/LiveVariableAnalysis.cpp:39-62 stays inside the list of *)
(* blocks, for every function.                                             *)
(***************************************************************************)
THEOREM TypeCorrect == Spec => []TypeOK
<1>1. IInv => TypeOK
  BY DEF IInv
<1> QED BY <1>1, Invariance, PTL
-----------------------------------------------------------------------------
(***************************************************************************)
(* The end of the analysis.                                                *)
(***************************************************************************)

\* AllLive: sets that satisfy the equations have every use that is live.
LEMMA AllLive ==
  ASSUME IInv, lvpc = "done", NEW b \in Blocks(prog), NEW u \in AllUses(prog), Live(u, b)
  PROVE  u \in liveIn[b]
<1>0. PICK n \in Nat \ {0} : \E w : Path(w, n, b) /\ Leads(w, n, u)
  BY DEF Live
<1>1. PICK w : Path(w, n, b) /\ Leads(w, n, u)
  BY <1>0
<1>2. /\ w \in [1 .. n -> Blocks(prog)] /\ w[1] = b
      /\ \A k \in 1 .. n - 1 : w[k + 1] \in prog.succ[w[k]] /\ Passes(w[k], u)
      /\ u \in Use(w[n])
  BY <1>1 DEF Path, Leads
<1>3. WellFormed /\ \A c \in Blocks(prog) : Solved(c)
  BY DEF IInv, SolvedSoFar
<1> DEFINE Missing == {k \in 1 .. n : u \notin liveIn[w[k]]}
<1>4. ASSUME Missing # {} PROVE FALSE
  <2>1. Missing \in SUBSET Nat /\ \A k \in Missing : k <= n
    OBVIOUS
  <2> HIDE DEF Missing
  <2>2. PICK m \in Missing : \A k \in Missing : k <= m
    BY <1>4, <2>1, NatMaximum
  <2>3. m \in 1 .. n /\ u \notin liveIn[w[m]] /\ w[m] \in Blocks(prog)
    BY <2>2, <1>2 DEF Missing
  <2>4. m # n
    BY <1>2, <1>3, <2>3 DEF Solved
  <2>5. m \in 1 .. n - 1 /\ m + 1 \in 1 .. n
    BY <2>3, <2>4
  <2>6. u \in liveIn[w[m + 1]]
    BY <2>2, <2>3, <2>5 DEF Missing
  <2>7. u \in liveOut[w[m]]
    BY <1>2, <1>3, <2>3, <2>5, <2>6 DEF Solved
  <2>8. u \notin Def(w[m])
    BY <1>2, <1>3, <2>3, <2>5, UseTypes
  <2> QED BY <1>3, <2>3, <2>7, <2>8 DEF Solved
<1>5. 1 \in 1 .. n
  OBVIOUS
<1> QED BY <1>2, <1>4, <1>5

(***************************************************************************)
(* LiveVariablesExact: when the iteration of                               *)
(* src/src/LiveVariableAnalysis.cpp:39-62 stops, live_in and live_out are  *)
(* exactly what is live along paths of the flow graph, for every function; *)
(* and never, on the way, does live_in hold a use that is not live.        *)
(***************************************************************************)
THEOREM LiveVariablesExact == Spec => []LiveExact
<1>1. ASSUME IInv PROVE LiveExact
  <2>1. WellFormed /\ TypeOK
    BY <1>1 DEF IInv
  <2>2. ASSUME lvpc # "clear", NEW b \in Blocks(prog)
        PROVE  liveIn[b] \subseteq LiveInto(b)
    <3>1. liveIn[b] \subseteq AllUses(prog)
      BY <2>1 DEF TypeOK, LiveSets
    <3>2. \A u \in liveIn[b] : Live(u, b)
      BY <1>1, <2>2 DEF IInv, OnlyLive
    <3> QED BY <2>1, <3>1, <3>2, LiveBounded
  <2>3. ASSUME lvpc = "done", NEW b \in Blocks(prog)
        PROVE  liveIn[b] = LiveInto(b)
    <3>1. LiveInto(b) \subseteq liveIn[b]
      BY <1>1, <2>1, <2>3, LiveBounded, AllLive
    <3> QED BY <2>2, <2>3, <3>1
  <2>4. ASSUME lvpc = "done", NEW b \in Blocks(prog)
        PROVE  liveOut[b] = LiveOutOf(b)
    <3>1. Solved(b)
      BY <1>1, <2>4 DEF IInv, SolvedSoFar
    <3>2. prog.succ[b] \subseteq Blocks(prog)
      BY <2>1, BlockTypes
    <3> QED BY <2>3, <2>4, <3>1, <3>2 DEF Solved, LiveOutOf
  <2> QED BY <2>2, <2>3, <2>4 DEF LiveExact
<1> QED BY <1>1, Invariance, PTL
=============================================================================
