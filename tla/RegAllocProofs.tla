------------------------- MODULE RegAllocProofs -------------------------
(***************************************************************************)
(* The allocated function computes what the function with virtual          *)
(* registers would, for any number of registers and any reach of the       *)
(* loads, for the functions whose operand objects are shared between       *)
(* instructions as Tidy says, and as long as the rounds of spilling keep   *)
(* to it (SharingKept) and spill no object that is Carried (CarriedKept).  *)
(*                                                                         *)
(* The argument: after every round the function computes the same, because *)
(* a slot always holds what was last written to the register it stands     *)
(* for (SpillRight); and when a round gives every web a register, no two   *)
(* values that are still needed share one (WebsRight, and the invariant of *)
(* the scan), so a use finds what the path taken wrote last.               *)
(***************************************************************************)
EXTENDS RegAlloc, MinMaxLemmas, TLAPS, FiniteSetTheorems, SequenceTheorems

LVP == INSTANCE LiveVariablesProofs WITH Programs <- {}
LSP == INSTANCE LinearScanProofs
         WITH Inputs <- {w \in Seq(LS!Interval) : LS!SortedByStart(w)}

(***************************************************************************)
(* Functions and their instructions.                                       *)
(***************************************************************************)

\* Shape: blocks and instructions are numbered from one, and there is at
\* least one of each.
LEMMA Shape ==
  ASSUME NEW p, WellFormed(p)
  PROVE  /\ Len(p.code) \in Nat /\ Blocks(p) = 1 .. Len(p.code) /\ 1 \in Blocks(p)
         /\ \A b \in Blocks(p) :
              /\ p.code[b] \in Seq(Instruction)
              /\ Len(p.code[b]) \in Nat /\ Insts(p, b) = 1 .. Len(p.code[b])
              /\ 1 \in Insts(p, b) /\ Len(p.code[b]) \in Insts(p, b)
              /\ p.succ[b] \subseteq Blocks(p)
<1>1. /\ p.code \in Seq(Seq(Instruction)) /\ p.code # << >>
      /\ \A b \in Blocks(p) : p.code[b] # << >>
      /\ p.succ \in [Blocks(p) -> SUBSET Blocks(p)]
  BY DEF WellFormed, Function
<1>2. Len(p.code) \in Nat /\ Blocks(p) = 1 .. Len(p.code) /\ Len(p.code) # 0
  BY <1>1, LenProperties, EmptySeq DEF Blocks
<1>3. ASSUME NEW b \in Blocks(p)
      PROVE  /\ p.code[b] \in Seq(Instruction)
             /\ Len(p.code[b]) \in Nat /\ Insts(p, b) = 1 .. Len(p.code[b])
             /\ Len(p.code[b]) # 0
  <2>1. p.code[b] \in Seq(Instruction) /\ p.code[b] # << >>
    BY <1>1, <1>2, ElementOfSeq
  <2> QED BY <2>1, LenProperties, EmptySeq DEF Insts
<1> QED BY <1>1, <1>2, <1>3

\* PointFacts: points are pairs of a block and a position in it; identities
\* tell instructions apart.
LEMMA PointFacts ==
  ASSUME NEW p, WellFormed(p)
  PROVE  /\ \A x : x \in Points(p) <=> \E b \in Blocks(p) : \E k \in Insts(p, b) : x = <<b, k>>
         /\ \A x \in Points(p) :
              /\ x = <<x[1], x[2]>> /\ x[1] \in Blocks(p) /\ x[2] \in Insts(p, x[1])
              /\ InstAt(p, x) \in Instruction
              /\ InstAt(p, x).id \in Ids(p)
              /\ PointOf(p, InstAt(p, x).id) = x
              /\ Node(p, InstAt(p, x).id) = InstAt(p, x)
<1>1. \A x : x \in Points(p) <=> \E b \in Blocks(p) : \E k \in Insts(p, b) : x = <<b, k>>
  BY DEF Points
<1>2. ASSUME NEW x \in Points(p)
      PROVE  /\ x = <<x[1], x[2]>> /\ x[1] \in Blocks(p) /\ x[2] \in Insts(p, x[1])
             /\ InstAt(p, x) \in Instruction
             /\ InstAt(p, x).id \in Ids(p)
             /\ PointOf(p, InstAt(p, x).id) = x
             /\ Node(p, InstAt(p, x).id) = InstAt(p, x)
  <2>1. x = <<x[1], x[2]>> /\ x[1] \in Blocks(p) /\ x[2] \in Insts(p, x[1])
    BY <1>1
  <2>2. InstAt(p, x) \in Instruction
    <3>1. p.code[x[1]] \in Seq(Instruction) /\ x[2] \in 1 .. Len(p.code[x[1]])
      BY <2>1, Shape
    <3> QED BY <3>1, ElementOfSeq DEF InstAt
  <2>3. InstAt(p, x).id \in Ids(p)
    BY DEF Ids
  <2>4. PointOf(p, InstAt(p, x).id) \in Points(p)
        /\ InstAt(p, PointOf(p, InstAt(p, x).id)).id = InstAt(p, x).id
    BY DEF PointOf
  <2>5. PointOf(p, InstAt(p, x).id) = x
    BY <2>4 DEF WellFormed
  <2> QED BY <2>1, <2>2, <2>3, <2>5 DEF Node
<1> QED BY <1>1, <1>2

\* NodeFacts: the same, from an identity.
LEMMA NodeFacts ==
  ASSUME NEW p, WellFormed(p), NEW i \in Ids(p)
  PROVE  /\ PointOf(p, i) \in Points(p) /\ Node(p, i) = InstAt(p, PointOf(p, i))
         /\ PointOf(p, i)[1] \in Blocks(p) /\ PointOf(p, i)[2] \in Insts(p, PointOf(p, i)[1])
         /\ PointOf(p, i) = <<PointOf(p, i)[1], PointOf(p, i)[2]>>
         /\ Node(p, i) \in Instruction /\ Node(p, i).id = i
         /\ i \in 1 .. p.ids
         /\ Node(p, i).def \subseteq DOMAIN p.reg /\ Node(p, i).use \subseteq DOMAIN p.reg
         /\ \A d, e \in Node(p, i).def : d = e
<1>1. PICK x \in Points(p) : i = InstAt(p, x).id
  BY DEF Ids
<1>2. PointOf(p, i) = x /\ Node(p, i) = InstAt(p, x)
  BY <1>1, PointFacts
<1>3. /\ InstAt(p, x).id \in 1 .. p.ids
      /\ InstAt(p, x).def \cup InstAt(p, x).use \subseteq DOMAIN p.reg
      /\ \A d, e \in InstAt(p, x).def : d = e
  BY DEF WellFormed
<1> QED BY <1>1, <1>2, <1>3, PointFacts

\* OperandFacts: operand objects have a register and a parent.
LEMMA OperandFacts ==
  ASSUME NEW p, WellFormed(p)
  PROVE  /\ p.reg \in Seq(Nat) /\ p.parent \in Seq(Nat) /\ p.ids \in Nat /\ p.labels \in Nat
         /\ Len(p.reg) \in Nat /\ DOMAIN p.reg = 1 .. Len(p.reg) /\ DOMAIN p.parent = DOMAIN p.reg
         /\ Len(p.parent) = Len(p.reg)
         /\ \A o \in DOMAIN p.reg : p.reg[o] \in 0 .. p.labels /\ p.parent[o] \in 0 .. p.ids
<1>1. /\ p.reg \in Seq(Nat) /\ p.parent \in Seq(Nat) /\ p.ids \in Nat /\ p.labels \in Nat
      /\ Len(p.parent) = Len(p.reg)
      /\ \A o \in DOMAIN p.reg : p.reg[o] <= p.labels /\ p.parent[o] \in 0 .. p.ids
  BY DEF WellFormed, Function
<1>2. Len(p.reg) \in Nat /\ DOMAIN p.reg = 1 .. Len(p.reg) /\ DOMAIN p.parent = DOMAIN p.reg
  BY <1>1, LenProperties
<1>3. \A o \in DOMAIN p.reg : p.reg[o] \in Nat
  BY <1>1, <1>2, ElementOfSeq
<1> QED BY <1>1, <1>2, <1>3

\* UseFacts: the uses of a function are those of its instructions.
LEMMA UseFacts ==
  ASSUME NEW p, WellFormed(p)
  PROVE  /\ \A u : u \in AllUses(p) <=> \E i \in Ids(p) : u \in Node(p, i).use
         /\ \A i \in Ids(p) : Node(p, i).use \subseteq AllUses(p)
         /\ AllUses(p) \subseteq DOMAIN p.reg
<1>1. ASSUME NEW u \in AllUses(p) PROVE \E i \in Ids(p) : u \in Node(p, i).use
  <2>1. PICK b \in Blocks(p) : u \in UsesIn(p, b)
    BY DEF AllUses
  <2>2. PICK k \in Insts(p, b) : u \in p.code[b][k].use
    BY <2>1 DEF UsesIn
  <2>3. <<b, k>> \in Points(p) /\ InstAt(p, <<b, k>>) = p.code[b][k]
    BY PointFacts DEF InstAt
  <2> QED BY <2>2, <2>3, PointFacts
<1>2. ASSUME NEW i \in Ids(p), NEW u \in Node(p, i).use PROVE u \in AllUses(p)
  <2> DEFINE x == PointOf(p, i)
  <2>1. x[1] \in Blocks(p) /\ x[2] \in Insts(p, x[1]) /\ u \in p.code[x[1]][x[2]].use
    BY <1>2, NodeFacts DEF InstAt
  <2> HIDE DEF x
  <2>2. u \in UsesIn(p, x[1])
    BY <2>1 DEF UsesIn
  <2> QED BY <2>1, <2>2 DEF AllUses
<1> QED BY <1>1, <1>2, NodeFacts

\* FlowFacts: control stays in the function; the entry of a block.
LEMMA FlowFacts ==
  ASSUME NEW p, WellFormed(p)
  PROVE  /\ \A i \in Ids(p) : Flow(p, i) \subseteq Ids(p)
         /\ \A b \in Blocks(p) : /\ First(p, b) \in Ids(p) /\ PointOf(p, First(p, b)) = <<b, 1>>
         /\ \A b \in Blocks(p) : \A k \in Insts(p, b) :
              Flow(p, p.code[b][k].id) = IF k < Len(p.code[b]) THEN {p.code[b][k + 1].id}
                                         ELSE {First(p, s) : s \in p.succ[b]}
<1>1. ASSUME NEW b \in Blocks(p), NEW k \in Insts(p, b)
      PROVE  /\ <<b, k>> \in Points(p) /\ p.code[b][k].id \in Ids(p)
             /\ PointOf(p, p.code[b][k].id) = <<b, k>>
  <2>1. <<b, k>> \in Points(p) /\ InstAt(p, <<b, k>>) = p.code[b][k]
    BY PointFacts DEF InstAt
  <2> QED BY <2>1, PointFacts
<1>2. \A b \in Blocks(p) : First(p, b) \in Ids(p) /\ PointOf(p, First(p, b)) = <<b, 1>>
  BY <1>1, Shape DEF First
<1>3. ASSUME NEW b \in Blocks(p), NEW k \in Insts(p, b)
      PROVE  Flow(p, p.code[b][k].id) = IF k < Len(p.code[b]) THEN {p.code[b][k + 1].id}
                                         ELSE {First(p, s) : s \in p.succ[b]}
  <2>1. PointOf(p, p.code[b][k].id) = <<b, k>> /\ <<b, k>>[1] = b /\ <<b, k>>[2] = k
    BY <1>1
  <2> QED BY <2>1, Zenon DEF Flow
<1>4. ASSUME NEW i \in Ids(p) PROVE Flow(p, i) \subseteq Ids(p)
  <2>1. PICK b \in Blocks(p) : \E k \in Insts(p, b) : i = p.code[b][k].id
    BY NodeFacts DEF InstAt
  <2>1a. PICK k \in Insts(p, b) : i = p.code[b][k].id
    BY <2>1
  <2>2. CASE k < Len(p.code[b])
    <3>1. k + 1 \in Insts(p, b)
      BY <2>2, Shape
    <3>2. Flow(p, i) = {p.code[b][k + 1].id}
      BY <2>1a, <2>2, <1>3
    <3> QED BY <3>1, <3>2, <1>1
  <2>3. CASE ~ (k < Len(p.code[b]))
    <3>1. Flow(p, i) = {First(p, s) : s \in p.succ[b]}
      BY <2>1a, <2>3, <1>3
    <3>2. p.succ[b] \subseteq Blocks(p)
      BY Shape
    <3> QED BY <3>1, <3>2, <1>2
  <2> QED BY <2>2, <2>3
<1> QED BY <1>2, <1>3, <1>4
-----------------------------------------------------------------------------
(***************************************************************************)
(* Liveness.                                                               *)
(***************************************************************************)

\* Needs: S holds whatever a step back from it adds.
Needs(p, u, S) ==
  \A i \in Ids(p) :
    \/ u \in Node(p, i).use
    \/ ~Writes(p, i, p.reg[u]) /\ Flow(p, i) \cap S # {}
    => i \in S

Users(p, u) == {i \in Ids(p) : u \in Node(p, i).use}

\* IdsFinite: a function has finitely many instructions.
LEMMA IdsFinite ==
  ASSUME NEW p, WellFormed(p)
  PROVE  IsFiniteSet(Ids(p)) /\ Cardinality(Ids(p)) \in Nat
<1>1. Ids(p) \in SUBSET (1 .. p.ids) /\ p.ids \in Nat
  BY NodeFacts, OperandFacts
<1>2. IsFiniteSet(1 .. p.ids)
  <2>1. 1 \in Int /\ p.ids \in Int
    BY <1>1
  <2> QED BY <2>1, FS_Interval
<1>3. IsFiniteSet(Ids(p))
  BY <1>1, <1>2, FS_Subset
<1> QED BY <1>3, FS_CardinalityType

Rises(p, u, N, f) ==
  /\ f[0] = Users(p, u) /\ f[N] = LiveAbove(p, u)
  /\ \A n \in 1 .. N : f[n] = f[n - 1] \cup Backward(p, u, f[n - 1])

\* AboveSteps: LiveAbove is reached step by step.
LEMMA AboveSteps ==
  ASSUME NEW p, NEW u, NEW N \in Nat, N = Cardinality(Ids(p))
  PROVE  \E f : Rises(p, u, N, f)
<1> DEFINE Next1(S) == S \cup Backward(p, u, S)
           Steps(f, k) == f = [n \in 0 .. k |-> IF n = 0 THEN Users(p, u) ELSE Next1(f[n - 1])]
           above == CHOOSE f : Steps(f, N)
           Bad == {k \in 0 .. N : ~ \E f : Steps(f, k)}
<1>3. LiveAbove(p, u) = above[N]
  BY DEF LiveAbove, Users
<1> HIDE DEF Next1
<1>1. ASSUME Bad # {} PROVE FALSE
  <2>1. Bad \in SUBSET Nat
    OBVIOUS
  <2> HIDE DEF Bad
  <2>2. PICK k \in Bad : \A l \in Bad : k <= l
    BY <1>1, <2>1, NatMinimum
  <2>3. k \in 0 .. N /\ ~ \E f : Steps(f, k)
    BY <2>2 DEF Bad
  <2>4. CASE k = 0
    <3> DEFINE g == [n \in 0 .. 0 |-> Users(p, u)]
    <3>1. Steps(g, 0)
      OBVIOUS
    <3> QED BY <2>3, <2>4, <3>1
  <2>5. CASE k # 0
    <3>1. k - 1 \in 0 .. N /\ ~ (k <= k - 1)
      BY <2>3, <2>5
    <3>2. PICK g : Steps(g, k - 1)
      BY <2>2, <3>1 DEF Bad
    <3> DEFINE h == [n \in 0 .. k |-> IF n = k THEN Next1(g[k - 1]) ELSE g[n]]
    <3>3. Steps(h, k)
      <4>1. ASSUME NEW n \in 0 .. k
            PROVE  h[n] = IF n = 0 THEN Users(p, u) ELSE Next1(h[n - 1])
        <5>1. CASE n = k
          <6>1. k - 1 \in 0 .. k /\ k - 1 # k
            BY <2>3, <2>5
          <6>2. h[k - 1] = g[k - 1]
            BY <6>1
          <6> QED BY <2>5, <5>1, <6>2
        <5>2. CASE n # k
          <6>1. n \in 0 .. k - 1
            BY <2>3, <5>2
          <6>2. h[n] = g[n] /\ g[n] = IF n = 0 THEN Users(p, u) ELSE Next1(g[n - 1])
            BY <3>2, <5>2, <6>1
          <6>3. n # 0 => n - 1 \in 0 .. k /\ n - 1 # k
            BY <2>3, <6>1
          <6>4. n # 0 => h[n - 1] = g[n - 1]
            BY <6>3
          <6> QED BY <6>2, <6>4
        <5> QED BY <5>1, <5>2
      <4>2. h = [n \in 0 .. k |-> h[n]]
        OBVIOUS
      <4> HIDE DEF h
      <4> QED BY <4>1, <4>2
    <3> HIDE DEF h, Steps
    <3> QED BY <2>3, <3>3
  <2> QED BY <2>4, <2>5
<1>2. Steps(above, N)
  <2>1. \E f : Steps(f, N)
    <3>1. N \in 0 .. N
      OBVIOUS
    <3> QED BY <1>1, <3>1
  <2> HIDE DEF Steps
  <2> QED BY <2>1
<1>4. /\ above[0] = Users(p, u)
      /\ \A n \in 1 .. N : above[n] = Next1(above[n - 1])
  <2>1. 0 \in 0 .. N /\ \A n \in 1 .. N : n \in 0 .. N /\ n # 0
    OBVIOUS
  <2> HIDE DEF above
  <2> QED BY <1>2, <2>1
<1> HIDE DEF above
<1> QED BY <1>3, <1>4 DEF Next1, Rises

\* AboveClosed: as many steps as there are instructions are enough.
LEMMA AboveClosed ==
  ASSUME NEW p, WellFormed(p), NEW u
  PROVE  Users(p, u) \cup Backward(p, u, LiveAbove(p, u)) \subseteq LiveAbove(p, u)
<1>1. IsFiniteSet(Ids(p)) /\ Cardinality(Ids(p)) \in Nat
  BY IdsFinite
<1>2. PICK N \in Nat : N = Cardinality(Ids(p))
  BY <1>1
<1>3. PICK f : /\ f[0] = Users(p, u) /\ f[N] = LiveAbove(p, u)
               /\ \A n \in 1 .. N : f[n] = f[n - 1] \cup Backward(p, u, f[n - 1])
  <2>1. PICK g : Rises(p, u, N, g)
    BY <1>2, AboveSteps
  <2> QED BY <2>1 DEF Rises
<1> DEFINE Open(n) == ~ (Backward(p, u, f[n]) \subseteq f[n])
           Bad == {n \in 0 .. N : ~ (/\ f[n] \in SUBSET Ids(p) /\ Users(p, u) \subseteq f[n]
                                     /\ Open(n) => Cardinality(f[n]) >= n)}
<1>4. ASSUME Bad # {} PROVE FALSE
  <2>1. Bad \in SUBSET Nat
    OBVIOUS
  <2> HIDE DEF Bad
  <2>2. PICK k \in Bad : \A l \in Bad : k <= l
    BY <1>4, <2>1, NatMinimum
  <2>3. k \in 0 .. N /\ k \in Nat
    BY <2>2 DEF Bad
  <2>4. k # 0
    <3>1. f[0] \in SUBSET Ids(p)
      BY <1>3 DEF Users
    <3>2. Cardinality(f[0]) \in Nat
      BY <1>1, <3>1, FS_Subset, FS_CardinalityType
    <3> QED BY <1>3, <2>2, <3>1, <3>2 DEF Bad
  <2>5. k - 1 \in 0 .. N /\ k - 1 \notin Bad /\ k \in 1 .. N
    BY <2>2, <2>3, <2>4
  <2>6. PICK A : A = f[k - 1]
    OBVIOUS
  <2>7. A \in SUBSET Ids(p) /\ Users(p, u) \subseteq A /\ (Open(k - 1) => Cardinality(A) >= k - 1)
    BY <2>5, <2>6 DEF Bad
  <2>8. f[k] = A \cup Backward(p, u, A)
    BY <1>3, <2>5, <2>6
  <2>9. f[k] \in SUBSET Ids(p) /\ Users(p, u) \subseteq f[k]
    BY <2>7, <2>8 DEF Backward
  <2>10. ASSUME Open(k) PROVE Cardinality(f[k]) >= k
    <3>1. f[k] # A
      BY <2>8, <2>10
    <3>2. Open(k - 1)
      BY <2>6, <2>8, <3>1
    <3>3. IsFiniteSet(f[k]) /\ A \in SUBSET f[k]
      BY <1>1, <2>8, <2>9, FS_Subset
    <3>4. Cardinality(A) <= Cardinality(f[k]) /\ Cardinality(A) # Cardinality(f[k])
      BY <3>1, <3>3, FS_Subset
    <3>5. Cardinality(A) \in Nat /\ Cardinality(f[k]) \in Nat
      BY <3>3, FS_Subset, FS_CardinalityType
    <3>6. Cardinality(A) >= k - 1
      BY <2>7, <3>2
    <3> QED BY <2>3, <3>4, <3>5, <3>6
  <2> QED BY <2>2, <2>3, <2>9, <2>10 DEF Bad
<1>5. N \in 0 .. N /\ N \notin Bad
  BY <1>4
<1>6. f[N] \in SUBSET Ids(p) /\ Users(p, u) \subseteq f[N] /\ (Open(N) => Cardinality(f[N]) >= N)
  BY <1>5 DEF Bad
<1>7. ASSUME Open(N) PROVE FALSE
  <2>1. Cardinality(f[N]) <= N /\ Cardinality(f[N]) \in Nat
    BY <1>1, <1>2, <1>6, FS_Subset, FS_CardinalityType
  <2>2. Cardinality(f[N]) = N
    BY <1>6, <1>7, <2>1
  <2>3. f[N] = Ids(p)
    BY <1>1, <1>2, <1>6, <2>2, FS_Subset
  <2> QED BY <1>7, <2>3 DEF Backward
<1> QED BY <1>3, <1>6, <1>7

\* LiveClosed: the set of instructions a use is live in front of is closed.
LEMMA LiveClosed ==
  ASSUME NEW p, WellFormed(p), NEW u, NEW i \in Ids(p)
  PROVE  /\ u \in Node(p, i).use => LiveAt(p, u, i)
         /\ ~Writes(p, i, p.reg[u]) /\ LiveAfter(p, u, i) => LiveAt(p, u, i)
BY AboveClosed DEF LiveAt, LiveAfter, Users, Backward

\* LiveLeast: and it is the smallest one.
LEMMA LiveLeast ==
  ASSUME NEW p, WellFormed(p), NEW u, NEW S, Needs(p, u, S)
  PROVE  \A i : LiveAt(p, u, i) => i \in S /\ i \in Ids(p)
<1>1. PICK N \in Nat : N = Cardinality(Ids(p))
  BY IdsFinite
<1>2. PICK f : /\ f[0] = Users(p, u) /\ f[N] = LiveAbove(p, u)
               /\ \A n \in 1 .. N : f[n] = f[n - 1] \cup Backward(p, u, f[n - 1])
  <2>1. PICK g : Rises(p, u, N, g)
    BY <1>1, AboveSteps
  <2> QED BY <2>1 DEF Rises
<1> DEFINE Bad == {n \in 0 .. N : ~ (f[n] \subseteq S \cap Ids(p))}
<1>3. ASSUME Bad # {} PROVE FALSE
  <2>1. Bad \in SUBSET Nat
    OBVIOUS
  <2> HIDE DEF Bad
  <2>2. PICK k \in Bad : \A l \in Bad : k <= l
    BY <1>3, <2>1, NatMinimum
  <2>3. k \in 0 .. N /\ k \in Nat
    BY <2>2 DEF Bad
  <2>4. k # 0
    BY <1>2, <2>2 DEF Bad, Users, Needs
  <2>5. k - 1 \in 0 .. N /\ k - 1 \notin Bad /\ k \in 1 .. N
    BY <2>2, <2>3, <2>4
  <2>6. f[k - 1] \subseteq S \cap Ids(p)
    BY <2>5 DEF Bad
  <2>7. Backward(p, u, f[k - 1]) \subseteq S \cap Ids(p)
    BY <2>6 DEF Backward, Needs
  <2> QED BY <1>2, <2>2, <2>5, <2>6, <2>7 DEF Bad
<1>4. f[N] \subseteq S \cap Ids(p)
  BY <1>3
<1> QED BY <1>2, <1>4 DEF LiveAt

\* LiveNext: what is live behind an instruction is live at one it leads to.
LEMMA LiveNext ==
  ASSUME NEW p, NEW u, NEW i
  PROVE  LiveAfter(p, u, i) <=> \E j \in Flow(p, i) : LiveAt(p, u, j)
BY DEF LiveAfter, LiveAt

\* LiveOfUse: only uses are live.
LEMMA LiveOfUse ==
  ASSUME NEW p, WellFormed(p), NEW u, NEW i, LiveAt(p, u, i)
  PROVE  u \in AllUses(p) /\ i \in Ids(p)
<1>1. CASE u \in AllUses(p)
  <2>1. Needs(p, u, Ids(p))
    BY DEF Needs
  <2> QED BY <1>1, <2>1, LiveLeast
<1>2. CASE u \notin AllUses(p)
  <2>1. Needs(p, u, {})
    BY <1>2, UseFacts DEF Needs
  <2> QED BY <2>1, LiveLeast
<1> QED BY <1>1, <1>2

\* LiveWith: a use is live wherever another use of its only user is, when the
\* two have one register and it is live at the user too.
LEMMA LiveWith ==
  ASSUME NEW p, WellFormed(p), NEW u, NEW v, p.reg[u] = p.reg[v], NEW i \in Ids(p),
         \A j \in Ids(p) : v \in Node(p, j).use => j = i,
         LiveAt(p, u, i), NEW j, LiveAt(p, v, j)
  PROVE  LiveAt(p, u, j)
<1> DEFINE S == {k \in Ids(p) : LiveAt(p, u, k)}
<1>1. Needs(p, v, S)
  <2> SUFFICES ASSUME NEW k \in Ids(p),
                      \/ v \in Node(p, k).use
                      \/ ~Writes(p, k, p.reg[v]) /\ Flow(p, k) \cap S # {}
               PROVE  LiveAt(p, u, k)
    BY DEF Needs
  <2>1. CASE v \in Node(p, k).use
    BY <2>1
  <2>2. CASE ~Writes(p, k, p.reg[v]) /\ Flow(p, k) \cap S # {}
    BY <2>2, LiveClosed DEF LiveAfter, LiveAt
  <2> QED BY <2>1, <2>2
<1> QED BY <1>1, LiveLeast

\* LiveUpward: in a block a use is live as far up as nothing writes its register.
LEMMA LiveUpward ==
  ASSUME NEW p, WellFormed(p), NEW b \in Blocks(p), NEW k \in Insts(p, b), NEW j \in Insts(p, b),
         k <= j, NEW u, LiveAt(p, u, p.code[b][j].id),
         \A m \in Insts(p, b) : k <= m /\ m < j => ~Defines(p, b, m, p.reg[u])
  PROVE  LiveAt(p, u, p.code[b][k].id)
<1> DEFINE Bad == {m \in k .. j : ~LiveAt(p, u, p.code[b][m].id)}
<1>0. Len(p.code[b]) \in Nat /\ Insts(p, b) = 1 .. Len(p.code[b])
  BY Shape
<1>1. ASSUME Bad # {} PROVE FALSE
  <2>1. Bad \in SUBSET Nat /\ j \in Nat /\ \A m \in Bad : m <= j
    BY <1>0
  <2> HIDE DEF Bad
  <2>2. PICK m \in Bad : \A n \in Bad : n <= m
    BY <1>1, <2>1, NatMaximum
  <2>3. m \in k .. j /\ ~LiveAt(p, u, p.code[b][m].id) /\ m # j
    BY <2>2 DEF Bad
  <2>4. /\ m \in Insts(p, b) /\ m + 1 \in Insts(p, b) /\ m + 1 \in k .. j /\ m < j
        /\ m < Len(p.code[b]) /\ k <= m
    BY <1>0, <2>3
  <2>5. LiveAt(p, u, p.code[b][m + 1].id)
    BY <2>2, <2>4 DEF Bad
  <2>6. ~Defines(p, b, m, p.reg[u])
    BY <2>4
  <2>7. <<b, m>> \in Points(p) /\ InstAt(p, <<b, m>>) = p.code[b][m]
    BY <2>4, PointFacts DEF InstAt
  <2>8. p.code[b][m].id \in Ids(p) /\ Node(p, p.code[b][m].id) = p.code[b][m]
    BY <2>7, PointFacts
  <2>9. ~Writes(p, p.code[b][m].id, p.reg[u])
    BY <2>6, <2>8 DEF Writes, Defines
  <2>10. p.code[b][m + 1].id \in Flow(p, p.code[b][m].id)
    BY <2>4, FlowFacts
  <2>11. LiveAt(p, u, p.code[b][m].id)
    BY <2>5, <2>8, <2>9, <2>10, LiveClosed DEF LiveAfter, LiveAt
  <2> QED BY <2>3, <2>11
<1>2. k \in k .. j
  BY <1>0
<1> QED BY <1>1, <1>2


(***************************************************************************)
(* What the analysis computes, point by point: the use stands further down *)
(* in the block, or leaves it, and its register is not written on the way. *)
(***************************************************************************)
Quiet(b, k, j, r) == \A m \in Insts(prog, b) : k <= m /\ m < j => ~Defines(prog, b, m, r)

UsedBelow(u, b, k) ==
  \E j \in Insts(prog, b) : /\ k <= j /\ u \in prog.code[b][j].use
                            /\ Quiet(b, k, j, prog.reg[u])

Computed(u, b, k) ==
  UsedBelow(u, b, k) \/ (u \in liveOut[b] /\ Quiet(b, k, Len(prog.code[b]) + 1, prog.reg[u]))

Analysed == LVP!IInv /\ lvpc = "done"

\* SameNames: the copies LVP has of the operators of MachineProgram.
LEMMA SameNames ==
  /\ \A p : LVP!Blocks(p) = Blocks(p) /\ LVP!AllUses(p) = AllUses(p)
  /\ \A p, b : LVP!Insts(p, b) = Insts(p, b) /\ LVP!UsesIn(p, b) = UsesIn(p, b)
  /\ \A p, b, k, r : LVP!Defines(p, b, k, r) <=> Defines(p, b, k, r)
  /\ \A p, b, i, j, r : LVP!Transparent(p, b, i, j, r) <=> Transparent(p, b, i, j, r)
BY DEF LVP!Blocks, Blocks, LVP!AllUses, AllUses, LVP!Insts, Insts, LVP!UsesIn, UsesIn,
       LVP!Defines, Defines, LVP!Transparent, Transparent

\* AnalysisFacts: the equations of the analysis, and that it finds live uses.
LEMMA AnalysisFacts ==
  ASSUME WellFormed(prog), Analysed, NEW b \in Blocks(prog)
  PROVE  /\ liveOut[b] = UNION {liveIn[s] : s \in prog.succ[b]}
         /\ liveIn[b] \subseteq AllUses(prog) /\ liveOut[b] \subseteq AllUses(prog)
         /\ \A u \in liveIn[b] : LVP!Live(u, b)
         /\ \A u \in AllUses(prog) : u \in liveIn[b] <=> Computed(u, b, 1)
<1>1. /\ \A c \in Blocks(prog) : LVP!Solved(c) /\ \A u \in liveIn[c] : LVP!Live(u, c)
      /\ liveIn \in [Blocks(prog) -> SUBSET AllUses(prog)]
      /\ liveOut \in [Blocks(prog) -> SUBSET AllUses(prog)]
  BY SameNames DEF Analysed, LVP!IInv, LVP!SolvedSoFar, LVP!OnlyLive, LVP!TypeOK, LVP!LiveSets
<1>2. /\ liveOut[b] = UNION {liveIn[s] : s \in prog.succ[b]}
      /\ liveIn[b] = LVP!Use(b) \cup (liveOut[b] \ LVP!Def(b))
  BY <1>1 DEF LVP!Solved
<1>3. Insts(prog, b) = 1 .. Len(prog.code[b]) /\ Len(prog.code[b]) \in Nat
  BY Shape
<1>4. ASSUME NEW u \in AllUses(prog)
      PROVE  /\ u \in LVP!Use(b) <=> UsedBelow(u, b, 1)
             /\ u \in LVP!Def(b) <=> ~Quiet(b, 1, Len(prog.code[b]) + 1, prog.reg[u])
  <2>1. u \in LVP!Use(b) <=>
          \E j \in Insts(prog, b) : u \in prog.code[b][j].use /\ Transparent(prog, b, 0, j, prog.reg[u])
    BY SameNames DEF LVP!Use, UsesIn
  <2>2. \A j \in Insts(prog, b) : Transparent(prog, b, 0, j, prog.reg[u]) <=> Quiet(b, 1, j, prog.reg[u])
    BY <1>3 DEF Transparent, Quiet
  <2>3. \A j \in Insts(prog, b) : 1 <= j /\ j < Len(prog.code[b]) + 1
    BY <1>3
  <2>4. u \in LVP!Def(b) <=> \E j \in Insts(prog, b) : Defines(prog, b, j, prog.reg[u])
    BY SameNames DEF LVP!Def
  <2> QED BY <2>1, <2>2, <2>3, <2>4 DEF UsedBelow, Quiet
<1> QED BY <1>1, <1>2, <1>4 DEF Computed

\* PathLive: what is live along a path is live at the entry of its blocks.
LEMMA PathLive ==
  ASSUME WellFormed(prog), NEW b \in Blocks(prog), NEW u, LVP!Live(u, b)
  PROVE  LiveAt(prog, u, First(prog, b))
<1>0. PICK n \in Nat \ {0} : \E w : LVP!Path(w, n, b) /\ LVP!Leads(w, n, u)
  BY DEF LVP!Live
<1>1. PICK w : LVP!Path(w, n, b) /\ LVP!Leads(w, n, u)
  BY <1>0
<1>2. /\ w \in [1 .. n -> Blocks(prog)] /\ w[1] = b
      /\ \A k \in 1 .. n - 1 : w[k + 1] \in prog.succ[w[k]]
      /\ \A k \in 1 .. n - 1 : \A m \in Insts(prog, w[k]) : ~Defines(prog, w[k], m, prog.reg[u])
      /\ u \in LVP!Use(w[n])
  BY <1>1, SameNames DEF LVP!Path, LVP!Leads, LVP!Passes
<1> DEFINE Bad == {k \in 1 .. n : ~LiveAt(prog, u, First(prog, w[k]))}
<1>3. ASSUME Bad # {} PROVE FALSE
  <2>1. Bad \in SUBSET Nat /\ \A k \in Bad : k <= n
    OBVIOUS
  <2> HIDE DEF Bad
  <2>2. PICK m \in Bad : \A k \in Bad : k <= m
    BY <1>3, <2>1, NatMaximum
  <2>3. m \in 1 .. n /\ ~LiveAt(prog, u, First(prog, w[m])) /\ w[m] \in Blocks(prog)
    BY <2>2, <1>2 DEF Bad
  <2>4. PICK c : c = w[m]
    OBVIOUS
  <2>5. /\ c \in Blocks(prog) /\ Insts(prog, c) = 1 .. Len(prog.code[c]) /\ Len(prog.code[c]) \in Nat
        /\ 1 \in Insts(prog, c) /\ Len(prog.code[c]) \in Insts(prog, c)
    BY <2>3, <2>4, Shape
  <2>6. CASE m = n
    <3>1. PICK j \in Insts(prog, c) : u \in prog.code[c][j].use /\ Transparent(prog, c, 0, j, prog.reg[u])
      BY <1>2, <2>4, <2>6, SameNames DEF LVP!Use
    <3>2. <<c, j>> \in Points(prog) /\ InstAt(prog, <<c, j>>) = prog.code[c][j]
      BY <2>5, PointFacts DEF InstAt
    <3>3. LiveAt(prog, u, prog.code[c][j].id)
      BY <3>1, <3>2, PointFacts, LiveClosed
    <3>4. \A k \in Insts(prog, c) : 1 <= k /\ k < j => ~Defines(prog, c, k, prog.reg[u])
      BY <2>5, <3>1 DEF Transparent
    <3>5. LiveAt(prog, u, prog.code[c][1].id)
      BY <2>5, <3>3, <3>4, LiveUpward
    <3> QED BY <2>3, <2>4, <3>5 DEF First
  <2>7. CASE m # n
    <3>1. m \in 1 .. n - 1 /\ m + 1 \in 1 .. n /\ m + 1 > m
      BY <2>3, <2>7
    <3>2. LiveAt(prog, u, First(prog, w[m + 1])) /\ w[m + 1] \in prog.succ[c]
      BY <1>2, <2>2, <2>4, <3>1 DEF Bad
    <3>3. PICK j \in Insts(prog, c) : j = Len(prog.code[c])
      BY <2>5
    <3>4. First(prog, w[m + 1]) \in Flow(prog, prog.code[c][j].id)
      <4>1. ~ (j < Len(prog.code[c]))
        BY <2>5, <3>3
      <4>2. Flow(prog, prog.code[c][j].id) = {First(prog, s) : s \in prog.succ[c]}
        BY <2>5, <4>1, FlowFacts
      <4> QED BY <3>2, <4>2
    <3>5. <<c, j>> \in Points(prog) /\ InstAt(prog, <<c, j>>) = prog.code[c][j]
      BY <2>5, PointFacts DEF InstAt
    <3>6. prog.code[c][j].id \in Ids(prog) /\ Node(prog, prog.code[c][j].id) = prog.code[c][j]
      BY <3>5, PointFacts
    <3>7. \A k \in Insts(prog, c) : ~Defines(prog, c, k, prog.reg[u])
      BY <1>2, <2>4, <3>1
    <3>8. ~Writes(prog, prog.code[c][j].id, prog.reg[u])
      BY <3>6, <3>7 DEF Writes, Defines
    <3>9. LiveAt(prog, u, prog.code[c][j].id)
      BY <3>2, <3>4, <3>6, <3>8, LiveClosed DEF LiveAfter, LiveAt
    <3>10. LiveAt(prog, u, prog.code[c][1].id)
      BY <2>5, <3>3, <3>7, <3>9, LiveUpward
    <3> QED BY <2>3, <2>4, <3>10 DEF First
  <2> QED BY <2>6, <2>7
<1>4. 1 \in 1 .. n
  OBVIOUS
<1> QED BY <1>2, <1>3, <1>4

\* LiveComputed: what the analysis computes is what is live.
LEMMA LiveComputed ==
  ASSUME WellFormed(prog), Analysed
  PROVE  \A b \in Blocks(prog) : \A k \in Insts(prog, b) : \A u :
           LiveAt(prog, u, prog.code[b][k].id) <=> Computed(u, b, k)
<1>0. ASSUME NEW b \in Blocks(prog), NEW k \in Insts(prog, b)
      PROVE  /\ <<b, k>> \in Points(prog) /\ prog.code[b][k].id \in Ids(prog)
             /\ PointOf(prog, prog.code[b][k].id) = <<b, k>>
             /\ Node(prog, prog.code[b][k].id) = prog.code[b][k]
  <2>1. <<b, k>> \in Points(prog) /\ InstAt(prog, <<b, k>>) = prog.code[b][k]
    BY PointFacts DEF InstAt
  <2> QED BY <2>1, PointFacts
<1>1. ASSUME NEW b \in Blocks(prog), NEW k \in Insts(prog, b), NEW u, Computed(u, b, k)
      PROVE  LiveAt(prog, u, prog.code[b][k].id)
  <2>0. Insts(prog, b) = 1 .. Len(prog.code[b]) /\ Len(prog.code[b]) \in Nat
        /\ Len(prog.code[b]) \in Insts(prog, b) /\ prog.succ[b] \subseteq Blocks(prog)
    BY Shape
  <2>1. CASE UsedBelow(u, b, k)
    <3>1. PICK j \in Insts(prog, b) : /\ k <= j /\ u \in prog.code[b][j].use
                                      /\ Quiet(b, k, j, prog.reg[u])
      BY <2>1 DEF UsedBelow
    <3>2. LiveAt(prog, u, prog.code[b][j].id)
      BY <3>1, <1>0, LiveClosed
    <3> QED BY <3>1, <3>2, LiveUpward DEF Quiet
  <2>2. CASE u \in liveOut[b] /\ Quiet(b, k, Len(prog.code[b]) + 1, prog.reg[u])
    <3>1. PICK s \in prog.succ[b] : u \in liveIn[s]
      BY <2>2, AnalysisFacts
    <3>2. LiveAt(prog, u, First(prog, s))
      BY <2>0, <3>1, AnalysisFacts, PathLive
    <3>3. PICK j \in Insts(prog, b) : j = Len(prog.code[b]) /\ k <= j
      BY <2>0
    <3>4. First(prog, s) \in Flow(prog, prog.code[b][j].id)
      <4>1. ~ (j < Len(prog.code[b]))
        BY <2>0, <3>3
      <4>2. Flow(prog, prog.code[b][j].id) = {First(prog, t) : t \in prog.succ[b]}
        BY <4>1, FlowFacts
      <4> QED BY <4>2
    <3>5. ~Defines(prog, b, j, prog.reg[u]) /\ \A m \in Insts(prog, b) : k <= m => ~Defines(prog, b, m, prog.reg[u])
      <4>1. \A m \in Insts(prog, b) : m < Len(prog.code[b]) + 1
        BY <2>0
      <4> QED BY <2>2, <3>3, <4>1 DEF Quiet
    <3>6. ~Writes(prog, prog.code[b][j].id, prog.reg[u])
      BY <1>0, <3>5 DEF Writes, Defines
    <3>7. LiveAt(prog, u, prog.code[b][j].id)
      BY <1>0, <3>2, <3>4, <3>6, LiveClosed DEF LiveAfter, LiveAt
    <3> QED BY <3>3, <3>5, <3>7, LiveUpward
  <2> QED BY <1>1, <2>1, <2>2 DEF Computed
<1>2. ASSUME NEW b \in Blocks(prog), NEW k \in Insts(prog, b), NEW u,
             LiveAt(prog, u, prog.code[b][k].id)
      PROVE  Computed(u, b, k)
  <2> DEFINE S == {i \in Ids(prog) : Computed(u, PointOf(prog, i)[1], PointOf(prog, i)[2])}
  <2>1. u \in AllUses(prog)
    BY <1>2, LiveOfUse
  <2>2. ASSUME NEW i \in Ids(prog),
               \/ u \in Node(prog, i).use
               \/ ~Writes(prog, i, prog.reg[u]) /\ Flow(prog, i) \cap S # {}
        PROVE  Computed(u, PointOf(prog, i)[1], PointOf(prog, i)[2])
    <3>1. PICK c \in Blocks(prog) : \E m \in Insts(prog, c) :
                 PointOf(prog, i) = <<c, m>> /\ i = prog.code[c][m].id /\ Node(prog, i) = prog.code[c][m]
      BY NodeFacts DEF InstAt
    <3>2. PICK m \in Insts(prog, c) :
                 PointOf(prog, i) = <<c, m>> /\ i = prog.code[c][m].id /\ Node(prog, i) = prog.code[c][m]
      BY <3>1
    <3>3. /\ Insts(prog, c) = 1 .. Len(prog.code[c]) /\ Len(prog.code[c]) \in Nat
          /\ prog.succ[c] \subseteq Blocks(prog)
      BY Shape
    <3>4. CASE u \in Node(prog, i).use
      <4>1. Quiet(c, m, m, prog.reg[u]) /\ m <= m
        BY <3>3 DEF Quiet
      <4>2. UsedBelow(u, c, m)
        BY <3>2, <3>4, <4>1 DEF UsedBelow
      <4> QED BY <3>2, <4>2 DEF Computed
    <3>5. CASE ~Writes(prog, i, prog.reg[u]) /\ Flow(prog, i) \cap S # {}
      <4>0. ~Defines(prog, c, m, prog.reg[u])
        BY <3>2, <3>5 DEF Writes, Defines
      <4>1. PICK j \in Flow(prog, i) : j \in Ids(prog) /\ Computed(u, PointOf(prog, j)[1], PointOf(prog, j)[2])
        BY <3>5
      <4>2. CASE m < Len(prog.code[c])
        <5>1. m + 1 \in Insts(prog, c)
          BY <3>3, <4>2
        <5>2. j = prog.code[c][m + 1].id
          BY <3>2, <4>1, <4>2, FlowFacts
        <5>3. Computed(u, c, m + 1)
          <6>1. PointOf(prog, j) = <<c, m + 1>> /\ <<c, m + 1>>[1] = c /\ <<c, m + 1>>[2] = m + 1
            BY <1>0, <5>1, <5>2
          <6> QED BY <4>1, <6>1, Zenon
        <5>4. \A n \in Int : Quiet(c, m + 1, n, prog.reg[u]) => Quiet(c, m, n, prog.reg[u])
          <6>1. \A l \in Insts(prog, c) : m <= l => l = m \/ m + 1 <= l
            BY <3>3
          <6> QED BY <4>0, <6>1 DEF Quiet
        <5>5. CASE UsedBelow(u, c, m + 1)
          <6>1. PICK l \in Insts(prog, c) : /\ m + 1 <= l /\ u \in prog.code[c][l].use
                                            /\ Quiet(c, m + 1, l, prog.reg[u])
            BY <5>5 DEF UsedBelow
          <6>2. m <= l /\ l \in Int
            BY <3>3, <6>1
          <6> QED BY <3>2, <5>4, <6>1, <6>2 DEF UsedBelow, Computed
        <5>6. CASE u \in liveOut[c] /\ Quiet(c, m + 1, Len(prog.code[c]) + 1, prog.reg[u])
          BY <3>2, <3>3, <5>4, <5>6 DEF Computed
        <5> QED BY <5>3, <5>5, <5>6 DEF Computed
      <4>3. CASE ~ (m < Len(prog.code[c]))
        <5>1. Flow(prog, i) = {First(prog, t) : t \in prog.succ[c]}
          BY <3>2, <4>3, FlowFacts
        <5>2. PICK s \in prog.succ[c] : j = First(prog, s)
          BY <4>1, <5>1
        <5>3. s \in Blocks(prog) /\ PointOf(prog, j) = <<s, 1>>
          BY <3>3, <5>2, FlowFacts
        <5>4. Computed(u, s, 1)
          BY <4>1, <5>3
        <5>5. u \in liveOut[c]
          BY <2>1, <5>2, <5>3, <5>4, AnalysisFacts
        <5>6. Quiet(c, m, Len(prog.code[c]) + 1, prog.reg[u])
          <6>1. \A l \in Insts(prog, c) : m <= l => l = m
            BY <3>3, <4>3
          <6> QED BY <4>0, <6>1 DEF Quiet
        <5> QED BY <3>2, <5>5, <5>6 DEF Computed
      <4> QED BY <4>2, <4>3
    <3> QED BY <2>2, <3>4, <3>5
  <2>3. Needs(prog, u, S)
    BY <2>2 DEF Needs
  <2> HIDE DEF S
  <2>4. prog.code[b][k].id \in S
    BY <1>2, <2>3, LiveLeast
  <2>5. PointOf(prog, prog.code[b][k].id) = <<b, k>> /\ <<b, k>>[1] = b /\ <<b, k>>[2] = k
    BY <1>0
  <2> QED BY <2>4, <2>5, Zenon DEF S
<1> QED BY <1>1, <1>2

(***************************************************************************)
(* Sets of numbers, and sets in ascending order.                           *)
(***************************************************************************)

\* Extremes: Min and Max of a set of integers between two bounds.
LEMMA Extremes ==
  ASSUME NEW lo \in Int, NEW hi \in Int, NEW S \in SUBSET (lo .. hi), S # {}
  PROVE  /\ Min(S) \in S /\ Max(S) \in S
         /\ \A x \in S : Min(S) <= x /\ x <= Max(S)
<1> DEFINE T == {x - lo : x \in S}
<1>1. T \in SUBSET Nat /\ T # {} /\ \A x \in T : x <= hi - lo
  <2>1. \A x \in S : x - lo \in Nat /\ x - lo <= hi - lo
    OBVIOUS
  <2>2. T \subseteq Nat /\ \A x \in T : x <= hi - lo
    BY <2>1
  <2> QED BY <2>2
<1>2. hi - lo \in Nat
  BY <1>1
<1>3. PICK m \in T : \A x \in T : m <= x
  BY <1>1, NatMinimum
<1>4. PICK n \in T : \A x \in T : x <= n
  <2> HIDE DEF T
  <2> QED BY <1>1, <1>2, NatMaximum
<1>5. PICK a \in S : m = a - lo
  BY <1>3
<1>6. PICK c \in S : n = c - lo
  BY <1>4
<1>7. \A x \in S : a <= x /\ x <= c
  <2> SUFFICES ASSUME NEW x \in S PROVE a <= x /\ x <= c
    OBVIOUS
  <2>1. x - lo \in T
    OBVIOUS
  <2>2. a - lo <= x - lo /\ x - lo <= c - lo
    BY <2>1, <1>3, <1>4, <1>5, <1>6
  <2> QED BY <2>2
<1>8. Min(S) = a /\ Max(S) = c
  BY <1>7, ExtremesAre
<1> QED BY <1>7, <1>8

Orders(R, S) ==
  /\ \A x \in S : <<x, x>> \notin R
  /\ \A x, y \in S : x # y => <<x, y>> \in R \/ <<y, x>> \in R
  /\ \A x, y, z \in S : <<x, y>> \in R /\ <<y, z>> \in R => <<x, z>> \in R

\* AscendingFacts: Ascending lists every element of a set once, in order.
LEMMA AscendingFacts ==
  ASSUME NEW S, IsFiniteSet(S), NEW R, Orders(R, S),
         NEW n, n = Cardinality(S), NEW a, a = Ascending(S, R)
  PROVE  /\ n \in Nat /\ a \in [1 .. n -> S] /\ a \in Seq(S) /\ Len(a) = n
         /\ \A x \in S : \E i \in 1 .. n : a[i] = x
         /\ \A i, j \in 1 .. n : i < j => <<a[i], a[j]>> \in R
<1> DEFINE Below(x) == {y \in S : <<y, x>> \in R}
           rank == [x \in S |-> Cardinality(Below(x)) + 1]
<1>1. n \in Nat
  BY FS_CardinalityType
<1>2. ASSUME NEW x \in S
      PROVE  IsFiniteSet(Below(x)) /\ Cardinality(Below(x)) \in 0 .. n - 1
  <2>1. Below(x) \in SUBSET S /\ Below(x) # S
    BY DEF Orders
  <2>2. IsFiniteSet(Below(x)) /\ Cardinality(Below(x)) <= n /\ Cardinality(Below(x)) # n
    BY <2>1, FS_Subset
  <2>3. Cardinality(Below(x)) \in Nat
    BY <2>2, FS_CardinalityType
  <2> QED BY <1>1, <2>2, <2>3
<1>3. ASSUME NEW x \in S, NEW y \in S, <<x, y>> \in R
      PROVE  rank[x] < rank[y]
  <2>1. Below(x) \in SUBSET Below(y) /\ Below(x) # Below(y)
    BY <1>3 DEF Orders
  <2>2. IsFiniteSet(Below(y)) /\ Cardinality(Below(y)) \in Int /\ Cardinality(Below(x)) \in Int
    BY <1>2
  <2>3. Cardinality(Below(x)) <= Cardinality(Below(y)) /\ Cardinality(Below(x)) # Cardinality(Below(y))
    BY <2>1, <2>2, FS_Subset
  <2> QED BY <2>2, <2>3
<1>4. rank \in [S -> 1 .. n]
  <2>1. ASSUME NEW x \in S PROVE rank[x] \in 1 .. n
    <3>1. rank[x] = Cardinality(Below(x)) + 1 /\ Cardinality(Below(x)) \in 0 .. n - 1
      BY <1>2
    <3> QED BY <3>1, <1>1
  <2>2. rank = [x \in S |-> rank[x]]
    OBVIOUS
  <2> HIDE DEF rank
  <2> QED BY <2>1, <2>2
<1>5. \A x, y \in S : rank[x] = rank[y] => x = y
  <2>1. \A x \in S : rank[x] \in Int
    BY <1>1, <1>4
  <2> HIDE DEF rank
  <2> SUFFICES ASSUME NEW x \in S, NEW y \in S, rank[x] = rank[y], x # y PROVE FALSE
    OBVIOUS
  <2>2. <<x, y>> \in R \/ <<y, x>> \in R
    BY DEF Orders
  <2>3. rank[x] < rank[y] \/ rank[y] < rank[x]
    BY <1>3, <2>2
  <2> QED BY <2>1, <2>3
<1>6. rank \in Injection(S, 1 .. n)
  BY <1>4, <1>5, Zenon DEF Injection, IsInjective
<1>7. IsFiniteSet(1 .. n) /\ Cardinality(1 .. n) = n
  BY <1>1, FS_Interval
<1>8. rank \in Surjection(S, 1 .. n)
  BY <1>6, <1>7, FS_Injection
<1>9. \A i \in 1 .. n : \E x \in S : rank[x] = i
  BY <1>8 DEF Surjection
<1>10. \A i \in 1 .. n : a[i] = CHOOSE x \in S : Cardinality(Below(x)) = i - 1
  BY DEF Ascending
<1>11. ASSUME NEW i \in 1 .. n PROVE a[i] \in S /\ rank[a[i]] = i
  <2>1. PICK x \in S : rank[x] = i
    BY <1>9
  <2>2. Cardinality(Below(x)) = i - 1
    <3>1. rank[x] = Cardinality(Below(x)) + 1 /\ Cardinality(Below(x)) \in 0 .. n - 1
      BY <1>2
    <3> QED BY <2>1, <3>1, <1>1
  <2>3. a[i] \in S /\ Cardinality(Below(a[i])) = i - 1
    BY <2>2, <1>10
  <2> QED BY <2>3, <1>1
<1>12. a \in [1 .. n -> S]
  BY <1>11 DEF Ascending
<1> HIDE DEF rank
<1>13. ASSUME NEW i \in 1 .. n, NEW j \in 1 .. n, i < j PROVE <<a[i], a[j]>> \in R
  <2>1. a[i] # a[j] /\ a[i] \in S /\ a[j] \in S
    BY <1>1, <1>11, <1>13
  <2>2. CASE <<a[j], a[i]>> \in R
    <3>1. j < i
      BY <2>1, <2>2, <1>3, <1>11
    <3> QED BY <1>1, <1>13, <3>1
  <2> QED BY <2>1, <2>2 DEF Orders
<1>14. ASSUME NEW x \in S PROVE \E i \in 1 .. n : a[i] = x
  <2>1. rank[x] \in 1 .. n /\ a[rank[x]] \in S /\ rank[a[rank[x]]] = rank[x]
    BY <1>4, <1>11
  <2> QED BY <2>1, <1>5
<1>15. a \in Seq(S) /\ Len(a) = n
  BY <1>1, <1>12, SeqDef
<1> QED BY <1>1, <1>12, <1>13, <1>14, <1>15
-----------------------------------------------------------------------------
(***************************************************************************)
(* Chains.                                                                 *)
(***************************************************************************)

UsesOwned(p) == \A i \in Ids(p) : \A u \in Node(p, i).use : p.parent[u] = i

\* LiveWhy: what is live in front of an instruction is used by it, or passes it.
LEMMA LiveWhy ==
  ASSUME NEW p, WellFormed(p), NEW u, NEW i, LiveAt(p, u, i)
  PROVE  u \in Node(p, i).use \/ (~Writes(p, i, p.reg[u]) /\ LiveAfter(p, u, i))
<1> DEFINE S == {k \in Ids(p) : /\ LiveAt(p, u, k)
                                /\ \/ u \in Node(p, k).use
                                   \/ ~Writes(p, k, p.reg[u]) /\ LiveAfter(p, u, k)}
<1>1. ASSUME NEW k \in Ids(p), ~Writes(p, k, p.reg[u]), Flow(p, k) \cap S # {} PROVE k \in S
  <2>1. LiveAfter(p, u, k)
    BY <1>1 DEF LiveAfter, LiveAt
  <2> QED BY <1>1, <2>1, LiveClosed
<1>2. \A k \in Ids(p) : u \in Node(p, k).use => k \in S
  BY LiveClosed
<1>3. Needs(p, u, S)
  BY <1>1, <1>2 DEF Needs
<1> HIDE DEF S
<1>4. i \in S
  BY <1>3, LiveLeast
<1> QED BY <1>4 DEF S

\* LiveDownward: down a block it stays live where nothing reads.
LEMMA LiveDownward ==
  ASSUME NEW p, WellFormed(p), NEW b \in Blocks(p), NEW k \in Insts(p, b), NEW j \in Insts(p, b),
         k <= j, NEW u, LiveAt(p, u, p.code[b][k].id),
         \A m \in Insts(p, b) : k <= m /\ m < j => p.code[b][m].use = {}
  PROVE  LiveAt(p, u, p.code[b][j].id)
<1> DEFINE Bad == {m \in k .. j : ~LiveAt(p, u, p.code[b][m].id)}
<1>0. Len(p.code[b]) \in Nat /\ Insts(p, b) = 1 .. Len(p.code[b])
  BY Shape
<1>1. ASSUME Bad # {} PROVE FALSE
  <2>1. Bad \in SUBSET Nat
    BY <1>0
  <2> HIDE DEF Bad
  <2>2. PICK m \in Bad : \A n \in Bad : m <= n
    BY <1>1, <2>1, NatMinimum
  <2>3. m \in k .. j /\ ~LiveAt(p, u, p.code[b][m].id) /\ m # k
    BY <2>2 DEF Bad
  <2>4. /\ m - 1 \in Insts(p, b) /\ m \in Insts(p, b) /\ m - 1 \in k .. j /\ ~ (m <= m - 1)
        /\ m - 1 < Len(p.code[b]) /\ k <= m - 1 /\ m - 1 < j /\ m - 1 + 1 = m
    BY <1>0, <2>3
  <2>5. LiveAt(p, u, p.code[b][m - 1].id)
    BY <2>2, <2>4 DEF Bad
  <2>6. p.code[b][m - 1].use = {}
    BY <2>4
  <2>7. <<b, m - 1>> \in Points(p) /\ InstAt(p, <<b, m - 1>>) = p.code[b][m - 1]
    BY <2>4, PointFacts DEF InstAt
  <2>8. Node(p, p.code[b][m - 1].id) = p.code[b][m - 1]
    BY <2>7, PointFacts
  <2>9. LiveAfter(p, u, p.code[b][m - 1].id)
    BY <2>5, <2>6, <2>8, LiveWhy
  <2>10. Flow(p, p.code[b][m - 1].id) = {p.code[b][m].id}
    BY <2>4, FlowFacts
  <2>11. LiveAt(p, u, p.code[b][m].id)
    BY <2>9, <2>10 DEF LiveAfter, LiveAt
  <2> QED BY <2>3, <2>11
<1>2. j \in k .. j
  BY <1>0
<1> QED BY <1>1, <1>2

\* TidyFacts: a use belongs to its parent; a definition does too, or it is
\* written again or used by it.
LEMMA TidyFacts ==
  ASSUME NEW p, Tidy(p)
  PROVE  /\ UsesOwned(p)
         /\ \A i \in Ids(p) : \A d \in Node(p, i).def :
              /\ p.parent[d] \in Ids(p)
              /\ \/ p.parent[d] = i /\ d \notin Node(p, i).use
                 \/ p.parent[d] # i /\ (Carried(p, i, d) \/ Redone(p, i, d))
BY DEF Tidy, UsesOwned

\* RedoneFacts: nothing sees what is written again at once.
LEMMA RedoneFacts ==
  ASSUME NEW p, WellFormed(p), NEW i \in Ids(p), NEW d \in Node(p, i).def,
         p.parent[d] \in Ids(p), Redone(p, i, d)
  PROVE  /\ Flow(p, i) = {p.parent[d]}
         /\ d \in Node(p, p.parent[d]).def /\ Node(p, p.parent[d]).use = {}
         /\ PointOf(p, p.parent[d]) = <<PointOf(p, i)[1], PointOf(p, i)[2] + 1>>
         /\ \A u : p.reg[u] = p.reg[d] => ~LiveAfter(p, u, i)
<1> DEFINE j == p.parent[d]
<1>1. PICK b, k : b = PointOf(p, i)[1] /\ k = PointOf(p, i)[2]
  OBVIOUS
<1>2. PointOf(p, j) = <<b, k + 1>> /\ Node(p, j).def = {d} /\ Node(p, j).use = {}
  BY <1>1 DEF Redone
<1>3. /\ b \in Blocks(p) /\ k \in Insts(p, b) /\ k + 1 \in Insts(p, b)
      /\ i = p.code[b][k].id /\ j = p.code[b][k + 1].id
  BY <1>1, <1>2, NodeFacts DEF InstAt
<1>4. k < Len(p.code[b])
  BY <1>3, Shape
<1>5. Flow(p, i) = {j}
  BY <1>3, <1>4, FlowFacts
<1>6. ASSUME NEW u, p.reg[u] = p.reg[d], LiveAfter(p, u, i) PROVE FALSE
  <2>1. LiveAt(p, u, j)
    BY <1>5, <1>6 DEF LiveAfter, LiveAt
  <2>2. ~Writes(p, j, p.reg[u])
    BY <1>2, <2>1, LiveWhy
  <2> QED BY <1>2, <1>6, <2>2 DEF Writes
<1> QED BY <1>1, <1>2, <1>5, <1>6

Between(p, i, j) ==
  {k \in Ids(p) : /\ PointOf(p, k)[1] = PointOf(p, i)[1]
                  /\ PointOf(p, i)[2] < PointOf(p, k)[2] /\ PointOf(p, k)[2] < PointOf(p, j)[2]}

\* CarriedFacts: an object that is carried has its register to itself, which
\* is live from its definition to its parent only; what is live behind the
\* definition is live at the parent.
LEMMA CarriedFacts ==
  ASSUME NEW p, WellFormed(p), UsesOwned(p), NEW i \in Ids(p), NEW d \in Node(p, i).def,
         NEW j \in Ids(p), j = p.parent[d], Carried(p, i, d)
  PROVE  /\ PointOf(p, j)[1] = PointOf(p, i)[1] /\ PointOf(p, i)[2] < PointOf(p, j)[2]
         /\ PointOf(p, j)[2] < Len(p.code[PointOf(p, i)[1]])
         /\ d \in Node(p, j).use /\ Cardinality(Node(p, j).use) <= 2
         /\ \A o \in DOMAIN p.reg : p.reg[o] = p.reg[d] => o = d
         /\ \A k \in Ids(p) : d \in Node(p, k).def => k = i
         /\ \A k \in Between(p, i, j) : Node(p, k).use = {}
         /\ \A k \in Between(p, i, j) \cup {i} : \A e \in Node(p, k).def :
              Reaches(p, k, e) # {} /\ Reaches(p, k, e) \subseteq Node(p, j).use
         /\ \A k : LiveAt(p, d, k) => k \in Between(p, i, j) \cup {j}
         /\ \A u : LiveAfter(p, u, i) => LiveAt(p, u, j)
<1>1. /\ PointOf(p, j)[1] = PointOf(p, i)[1] /\ PointOf(p, i)[2] < PointOf(p, j)[2]
      /\ PointOf(p, j)[2] < Len(p.code[PointOf(p, i)[1]])
      /\ d \in Node(p, j).use /\ Cardinality(Node(p, j).use) <= 2
      /\ \A o \in DOMAIN p.reg : p.reg[o] = p.reg[d] => o = d
      /\ \A k \in Ids(p) : d \in Node(p, k).def => k = i
      /\ \A k \in Between(p, i, j) : Node(p, k).use = {}
      /\ \A k \in Between(p, i, j) \cup {i} : \A e \in Node(p, k).def :
           Reaches(p, k, e) # {} /\ Reaches(p, k, e) \subseteq Node(p, j).use
  BY DEF Carried, Between
<1>2. PICK b, k, l : b = PointOf(p, i)[1] /\ k = PointOf(p, i)[2] /\ l = PointOf(p, j)[2]
  OBVIOUS
<1>3. /\ b \in Blocks(p) /\ k \in Insts(p, b) /\ l \in Insts(p, b) /\ k < l
      /\ i = p.code[b][k].id /\ j = p.code[b][l].id
  BY <1>1, <1>2, NodeFacts DEF InstAt
<1>4. Insts(p, b) = 1 .. Len(p.code[b]) /\ Len(p.code[b]) \in Nat
  BY <1>3, Shape
<1>5. \A m \in Insts(p, b) : /\ p.code[b][m].id \in Ids(p)
                             /\ PointOf(p, p.code[b][m].id) = <<b, m>>
                             /\ Node(p, p.code[b][m].id) = p.code[b][m]
  <2>1. \A m \in Insts(p, b) : <<b, m>> \in Points(p) /\ InstAt(p, <<b, m>>) = p.code[b][m]
    BY <1>3, PointFacts DEF InstAt
  <2>2. ASSUME NEW m \in Insts(p, b)
        PROVE  /\ p.code[b][m].id \in Ids(p)
               /\ PointOf(p, p.code[b][m].id) = <<b, m>>
               /\ Node(p, p.code[b][m].id) = p.code[b][m]
    <3>1. PICK y \in Points(p) : y = <<b, m>> /\ InstAt(p, y) = p.code[b][m]
      BY <2>1
    <3> QED BY <3>1, PointFacts
  <2> QED BY <2>2
<1>6. \A m \in Insts(p, b) : k < m /\ m < l => p.code[b][m].id \in Between(p, i, j)
  BY <1>2, <1>5 DEF Between
<1>7. ASSUME NEW u, LiveAfter(p, u, i) PROVE LiveAt(p, u, j)
  <2>1. k + 1 \in Insts(p, b) /\ k < Len(p.code[b]) /\ k + 1 <= l
    BY <1>3, <1>4
  <2>2. Flow(p, i) = {p.code[b][k + 1].id}
    BY <1>3, <2>1, FlowFacts
  <2>3. LiveAt(p, u, p.code[b][k + 1].id)
    BY <1>7, <2>2 DEF LiveAfter, LiveAt
  <2>4. \A m \in Insts(p, b) : k + 1 <= m /\ m < l => p.code[b][m].use = {}
    <3>1. \A m \in Insts(p, b) : k + 1 <= m => k < m
      BY <1>3, <1>4
    <3> QED BY <1>1, <1>5, <1>6, <3>1
  <2> QED BY <1>3, <2>1, <2>3, <2>4, LiveDownward
<1> DEFINE S == Between(p, i, j) \cup {j}
<1>8. ASSUME NEW m \in Ids(p),
             \/ d \in Node(p, m).use
             \/ ~Writes(p, m, p.reg[d]) /\ Flow(p, m) \cap S # {}
      PROVE  m \in S
  <2>1. CASE d \in Node(p, m).use
    BY <2>1 DEF UsesOwned
  <2>2. CASE ~Writes(p, m, p.reg[d]) /\ Flow(p, m) \cap S # {}
    <3>1. PICK n \in S : n \in Flow(p, m)
      BY <2>2
    <3>2. /\ PointOf(p, n)[1] = b /\ k < PointOf(p, n)[2] /\ n \in Ids(p)
          /\ PointOf(p, n)[2] <= l
      <4>1. CASE n = j
        <5>1. PointOf(p, j)[1] = b /\ PointOf(p, j)[2] = l /\ j \in Ids(p)
          BY <1>1, <1>2
        <5>2. k < l /\ l <= l
          BY <1>3, <1>4
        <5> QED BY <4>1, <5>1, <5>2
      <4>2. CASE n \in Between(p, i, j)
        <5>1. n \in Ids(p) /\ PointOf(p, n)[1] = b /\ k < PointOf(p, n)[2] /\ PointOf(p, n)[2] < l
          BY <1>2, <4>2 DEF Between
        <5>2. PointOf(p, n)[2] \in Insts(p, b)
          BY <5>1, NodeFacts
        <5> QED BY <1>3, <1>4, <5>1, <5>2
      <4> QED BY <3>1, <4>1, <4>2
    <3>3. PICK c, x : c = PointOf(p, m)[1] /\ x = PointOf(p, m)[2]
      OBVIOUS
    <3>4. c \in Blocks(p) /\ x \in Insts(p, c) /\ m = p.code[c][x].id
      BY <3>3, NodeFacts DEF InstAt
    <3>5. x < Len(p.code[c])
      <4>1. ASSUME ~ (x < Len(p.code[c])) PROVE FALSE
        <5>1. PICK s \in p.succ[c] : n = First(p, s)
          BY <3>1, <3>4, <4>1, FlowFacts
        <5>2. s \in Blocks(p)
          BY <3>4, <5>1, Shape
        <5>3. PointOf(p, n) = <<s, 1>>
          BY <5>1, <5>2, FlowFacts
        <5> QED BY <1>3, <1>4, <3>2, <5>3
      <4> QED BY <4>1
    <3>6. n = p.code[c][x + 1].id
      BY <3>1, <3>4, <3>5, FlowFacts
    <3>7. x + 1 \in Insts(p, c) /\ x \in Nat
      BY <3>4, <3>5, Shape
    <3>8. PointOf(p, n) = <<c, x + 1>>
      <4>1. <<c, x + 1>> \in Points(p) /\ InstAt(p, <<c, x + 1>>) = p.code[c][x + 1]
        BY <3>4, <3>7, PointFacts DEF InstAt
      <4> QED BY <3>6, <4>1, PointFacts
    <3>9. c = b /\ k <= x /\ x < l
      BY <1>3, <1>4, <3>2, <3>7, <3>8
    <3>10. x # k
      <4>1. Writes(p, i, p.reg[d])
        BY DEF Writes
      <4> QED BY <1>3, <2>2, <3>4, <3>9, <4>1
    <3> QED BY <1>3, <1>4, <1>6, <3>4, <3>7, <3>9, <3>10
  <2> QED BY <1>8, <2>1, <2>2
<1>9. \A m : LiveAt(p, d, m) => m \in S
  <2>1. Needs(p, d, S)
    BY <1>8 DEF Needs
  <2> HIDE DEF S
  <2> QED BY <2>1, LiveLeast
<1> QED BY <1>1, <1>7, <1>9

\* The uses that instruction i's definition of d reaches.
Reached(i, d) == {u \in AllUses(prog) : prog.reg[u] = prog.reg[d] /\ LiveAfter(prog, u, i)}

\* The uses that d reaches from any of the instructions that define it.
Chained(d) == UNION {Reached(i, d) : i \in {j \in Ids(prog) : d \in Node(prog, j).def}}

ChainsRight ==
  /\ DOMAIN du_chains = Defs
  /\ \A d \in Defs : du_chains[d] = Chained(d)

\* DefsAre: the definitions of the function are those of its instructions.
LEMMA DefsAre ==
  ASSUME WellFormed(prog)
  PROVE  \A d : d \in Defs <=> \E i \in Ids(prog) : d \in Node(prog, i).def
<1>1. \A d : d \in Defs <=> \E x \in Points(prog) : d \in InstAt(prog, x).def
  BY DEF Defs
<1>2. \A x \in Points(prog) : \E i \in Ids(prog) : Node(prog, i) = InstAt(prog, x)
  BY PointFacts
<1>3. \A i \in Ids(prog) : \E x \in Points(prog) : Node(prog, i) = InstAt(prog, x)
  BY NodeFacts
<1> QED BY <1>1, <1>2, <1>3

\* AfterComputed: what the analysis computes behind an instruction is what is
\* live behind it.
LEMMA AfterComputed ==
  ASSUME WellFormed(prog), Analysed, NEW b \in Blocks(prog), NEW k \in Insts(prog, b)
  PROVE  \A u : Computed(u, b, k + 1) <=> LiveAfter(prog, u, prog.code[b][k].id)
<1> DEFINE i == prog.code[b][k].id
<1>3. /\ Insts(prog, b) = 1 .. Len(prog.code[b]) /\ Len(prog.code[b]) \in Nat
      /\ prog.succ[b] \subseteq Blocks(prog)
  BY Shape
<1>7. ASSUME NEW u \in AllUses(prog)
      PROVE  Computed(u, b, k + 1) <=> LiveAfter(prog, u, i)
  <2>1. CASE k < Len(prog.code[b])
    <3>1. k + 1 \in Insts(prog, b) /\ Flow(prog, i) = {prog.code[b][k + 1].id}
      <4>1. k + 1 \in Insts(prog, b)
        BY <1>3, <2>1
      <4>2. Flow(prog, prog.code[b][k].id) = {prog.code[b][k + 1].id}
        BY <2>1, FlowFacts
      <4> QED BY <4>1, <4>2
    <3> QED BY <3>1, LiveComputed DEF LiveAfter, LiveAt
  <2>2. CASE ~ (k < Len(prog.code[b]))
    <3>1. Flow(prog, i) = {First(prog, s) : s \in prog.succ[b]}
      BY <2>2, FlowFacts
    <3>2. Computed(u, b, k + 1) <=> u \in liveOut[b]
      <4>1. \A j \in Insts(prog, b) : ~ (k + 1 <= j)
        BY <1>3, <2>2
      <4> QED BY <4>1 DEF Computed, UsedBelow, Quiet
    <3>3. u \in liveOut[b] <=> \E s \in prog.succ[b] : u \in liveIn[s]
      BY AnalysisFacts
    <3>4. \A s \in prog.succ[b] : u \in liveIn[s] <=> LiveAt(prog, u, First(prog, s))
      <4>1. \A s \in prog.succ[b] : s \in Blocks(prog) /\ 1 \in Insts(prog, s)
        BY <1>3, Shape
      <4> QED BY <4>1, AnalysisFacts, LiveComputed DEF First
    <3> QED BY <3>1, <3>2, <3>3, <3>4 DEF LiveAfter, LiveAt
  <2> QED BY <2>1, <2>2
<1>8. ASSUME NEW u, Computed(u, b, k + 1) PROVE u \in AllUses(prog)
  <2>1. CASE UsedBelow(u, b, k + 1)
    BY <2>1 DEF UsedBelow, UsesIn, AllUses
  <2>2. CASE u \in liveOut[b]
    BY <2>2, AnalysisFacts
  <2> QED BY <1>8, <2>1, <2>2 DEF Computed
<1>9. ASSUME NEW u, LiveAfter(prog, u, i) PROVE u \in AllUses(prog)
  BY <1>9, LiveOfUse DEF LiveAfter, LiveAt
<1> QED BY <1>7, <1>8, <1>9

\* ChainIs: what makeDuChains collects at an instruction is what its
\* definition reaches.
LEMMA ChainIs ==
  ASSUME WellFormed(prog), Analysed, NEW i \in Ids(prog), NEW d \in Node(prog, i).def
  PROVE  ChainFrom(PointOf(prog, i), d) = Reached(i, d)
<1>1. PICK b \in Blocks(prog) : \E k \in Insts(prog, b) :
             PointOf(prog, i) = <<b, k>> /\ i = prog.code[b][k].id /\ Node(prog, i) = prog.code[b][k]
  BY NodeFacts DEF InstAt
<1>2. PICK k \in Insts(prog, b) :
             PointOf(prog, i) = <<b, k>> /\ i = prog.code[b][k].id /\ Node(prog, i) = prog.code[b][k]
  BY <1>1
<1>3. /\ Insts(prog, b) = 1 .. Len(prog.code[b]) /\ Len(prog.code[b]) \in Nat
      /\ prog.succ[b] \subseteq Blocks(prog)
  BY Shape
<1>6. ASSUME NEW u
      PROVE  u \in ChainFrom(<<b, k>>, d) <=>
               prog.reg[u] = prog.reg[d] /\ Computed(u, b, k + 1)
  <2> DEFINE r == prog.reg[d]
             In(v) == v \in UsesIn(prog, b) /\ \E j \in Insts(prog, b) :
                         /\ j > k /\ v \in prog.code[b][j].use /\ Transparent(prog, b, k, j, r)
             Out(v) == v \in liveOut[b] /\ Transparent(prog, b, k, Len(prog.code[b]) + 1, r)
  <2>1. <<b, k>>[1] = b /\ <<b, k>>[2] = k
    OBVIOUS
  <2>2. u \in ChainFrom(<<b, k>>, d) <=> prog.reg[u] = r /\ (In(u) \/ Out(u))
    BY <2>1 DEF ChainFrom
  <2>3. \A j \in Int : Transparent(prog, b, k, j, r) <=> Quiet(b, k + 1, j, r)
    BY <1>3 DEF Transparent, Quiet
  <2>4. \A j \in Insts(prog, b) : u \in prog.code[b][j].use => u \in UsesIn(prog, b)
    BY DEF UsesIn
  <2>5. ASSUME prog.reg[u] = r PROVE In(u) <=> UsedBelow(u, b, k + 1)
    <3>1. \A j \in Insts(prog, b) : j \in Int /\ (j > k <=> k + 1 <= j)
      BY <1>3
    <3> QED BY <2>3, <2>4, <2>5, <3>1 DEF UsedBelow
  <2>6. ASSUME prog.reg[u] = r
        PROVE  Out(u) <=> u \in liveOut[b] /\ Quiet(b, k + 1, Len(prog.code[b]) + 1, prog.reg[u])
    BY <1>3, <2>3, <2>6
  <2> HIDE DEF In, Out
  <2> QED BY <2>2, <2>5, <2>6 DEF Computed
<1>7. \A u : Computed(u, b, k + 1) <=> LiveAfter(prog, u, i)
  BY <1>2, AfterComputed
<1>8. \A u : LiveAfter(prog, u, i) => u \in AllUses(prog)
  BY LiveOfUse DEF LiveAfter, LiveAt
<1> QED BY <1>2, <1>6, <1>7, <1>8 DEF Reached

\* ChainIsRight: and in all.
LEMMA ChainIsRight ==
  ASSUME WellFormed(prog), Analysed, NEW d
  PROVE  Chain(d) = Chained(d)
<1>1. \A x \in Points(prog) : /\ InstAt(prog, x).id \in Ids(prog)
                              /\ PointOf(prog, InstAt(prog, x).id) = x
                              /\ Node(prog, InstAt(prog, x).id) = InstAt(prog, x)
  BY PointFacts
<1>2. \A i \in Ids(prog) : PointOf(prog, i) \in Points(prog) /\ Node(prog, i) = InstAt(prog, PointOf(prog, i))
  BY NodeFacts
<1>3. ASSUME NEW u \in Chain(d) PROVE u \in Chained(d)
  <2>1. PICK x \in Points(prog) : d \in InstAt(prog, x).def /\ u \in ChainFrom(x, d)
    BY DEF Chain
  <2>2. PICK i \in Ids(prog) : PointOf(prog, i) = x /\ d \in Node(prog, i).def
    BY <1>1, <2>1
  <2>3. u \in Reached(i, d)
    BY <2>1, <2>2, ChainIs
  <2> QED BY <2>2, <2>3 DEF Chained
<1>4. ASSUME NEW u \in Chained(d) PROVE u \in Chain(d)
  <2>1. PICK i \in Ids(prog) : d \in Node(prog, i).def /\ u \in Reached(i, d)
    BY DEF Chained
  <2>2. u \in ChainFrom(PointOf(prog, i), d)
    BY <2>1, ChainIs
  <2> QED BY <1>2, <2>1, <2>2 DEF Chain
<1> QED BY <1>3, <1>4

\* ChainFacts: a chain holds what any of its definitions reaches.
LEMMA ChainFacts ==
  ASSUME WellFormed(prog), ChainsRight
  PROVE  /\ DOMAIN du_chains = Defs
         /\ \A i \in Ids(prog) : \A d \in Node(prog, i).def :
              d \in Defs /\ Reached(i, d) \subseteq du_chains[d]
         /\ \A d \in Defs : \A u \in du_chains[d] :
              /\ prog.reg[u] = prog.reg[d] /\ u \in AllUses(prog)
              /\ \E i \in Ids(prog) : d \in Node(prog, i).def /\ u \in Reached(i, d)
BY DefsAre DEF ChainsRight, Chained, Reached

(***************************************************************************)
(* Numbers of instructions.                                                *)
(***************************************************************************)
Above(x, y) == x[1] < y[1] \/ (x[1] = y[1] /\ x[2] < y[2])

Total == Cardinality(Points(prog))
NumberOf(i) == Number(PointOf(prog, i))

\* PointsFinite: a function has finitely many instructions.
LEMMA PointsFinite ==
  ASSUME NEW p, WellFormed(p) PROVE IsFiniteSet(Points(p))
<1> DEFINE Row(b) == {<<b, k>> : k \in Insts(p, b)}
           row == [b \in Blocks(p) |-> Row(b)]
           Rows == {Row(b) : b \in Blocks(p)}
<1>1. ASSUME NEW b \in Blocks(p) PROVE IsFiniteSet(Row(b))
  <2> DEFINE f == [k \in Insts(p, b) |-> <<b, k>>]
  <2>1. Insts(p, b) = 1 .. Len(p.code[b]) /\ Len(p.code[b]) \in Nat
    BY Shape
  <2>2. IsFiniteSet(Insts(p, b))
    BY <2>1, FS_Interval
  <2>3. f \in Surjection(Insts(p, b), Row(b))
    BY DEF Surjection
  <2> QED BY <2>2, <2>3, FS_Surjection
<1>2. IsFiniteSet(Rows)
  <2>1. Blocks(p) = 1 .. Len(p.code) /\ Len(p.code) \in Nat
    BY Shape
  <2>2. IsFiniteSet(Blocks(p))
    BY <2>1, FS_Interval
  <2>3. row \in Surjection(Blocks(p), Rows)
    <3>1. row \in [Blocks(p) -> Rows]
      OBVIOUS
    <3>2. \A r \in Rows : \E b \in Blocks(p) : row[b] = r
      OBVIOUS
    <3> HIDE DEF row, Rows
    <3> QED BY <3>1, <3>2 DEF Surjection
  <2> HIDE DEF row, Rows
  <2> QED BY <2>2, <2>3, FS_Surjection
<1>3. \A T \in Rows : IsFiniteSet(T)
  BY <1>1
<1>4. Points(p) = UNION Rows
  BY DEF Points
<1> HIDE DEF Rows
<1> QED BY <1>2, <1>3, <1>4, FS_UNION

\* NumberFacts: instructions are numbered in the order of the layout.
LEMMA NumberFacts ==
  ASSUME WellFormed(prog)
  PROVE  /\ Total \in Nat
         /\ \A x : Number(x) \in 0 .. Total
         /\ \A x, y \in Points(prog) : Above(x, y) => Number(x) < Number(y)
<1> DEFINE Upto(x) == {y \in Points(prog) : y[1] < x[1] \/ (y[1] = x[1] /\ y[2] <= x[2])}
<1>1. IsFiniteSet(Points(prog)) /\ Total \in Nat
  BY PointsFinite, FS_CardinalityType DEF Total
<1>2. ASSUME NEW x PROVE IsFiniteSet(Upto(x)) /\ Number(x) = Cardinality(Upto(x)) /\ Number(x) \in 0 .. Total
  <2>1. IsFiniteSet(Upto(x)) /\ Cardinality(Upto(x)) <= Total
    BY <1>1, FS_Subset DEF Total
  <2>2. Cardinality(Upto(x)) \in Nat
    BY <2>1, FS_CardinalityType
  <2> QED BY <1>1, <2>1, <2>2 DEF Number
<1>3. ASSUME NEW x \in Points(prog), NEW y \in Points(prog), Above(x, y)
      PROVE  Number(x) < Number(y)
  <2>1. \A z \in Points(prog) : z[1] \in Nat /\ z[2] \in Nat
    <3>1. \A b \in Blocks(prog) : Insts(prog, b) \subseteq Nat
      BY Shape
    <3>2. Blocks(prog) \subseteq Nat
      BY Shape
    <3> QED BY <3>1, <3>2, PointFacts
  <2>2. y \in Upto(y) /\ y \notin Upto(x)
    BY <1>3, <2>1 DEF Above
  <2>3. \A z \in Upto(x) : z \in Upto(y)
    BY <1>3, <2>1 DEF Above
  <2>4. Upto(x) \in SUBSET Upto(y) /\ Upto(x) # Upto(y)
    BY <2>2, <2>3
  <2>5a. Number(x) \in Int /\ Number(y) \in Int
    <3>1. Number(x) \in 0 .. Total /\ Number(y) \in 0 .. Total
      BY <1>2
    <3> QED BY <1>1, <3>1
  <2>5b. IsFiniteSet(Upto(y)) /\ Number(y) = Cardinality(Upto(y))
    BY <1>2
  <2>5c. Number(x) = Cardinality(Upto(x))
    BY <1>2
  <2>5. IsFiniteSet(Upto(y)) /\ Number(y) = Cardinality(Upto(y)) /\ Number(x) = Cardinality(Upto(x))
        /\ Number(x) \in Int /\ Number(y) \in Int
    BY <2>5a, <2>5b, <2>5c
  <2> HIDE DEF Upto
  <2>6. Cardinality(Upto(x)) <= Cardinality(Upto(y)) /\ Cardinality(Upto(x)) # Cardinality(Upto(y))
    BY <2>4, <2>5, FS_Subset
  <2> QED BY <2>5, <2>6
<1> QED BY <1>1, <1>2, <1>3

\* DefinedBefore: what is live was written further up, and reached from there.
LEMMA DefinedBefore ==
  ASSUME NEW p, WellFormed(p), DefinedAbove(p), NEW u, NEW i, LiveAt(p, u, i)
  PROVE  \E e \in Ids(p) : /\ Writes(p, e, p.reg[u]) /\ LiveAfter(p, u, e)
                           /\ Above(PointOf(p, e), PointOf(p, i))
<1>0. i \in Ids(p) /\ u \in AllUses(p)
  BY LiveOfUse
<1>1. PICK b \in Blocks(p) : \E k \in Insts(p, b) :
             PointOf(p, i) = <<b, k>> /\ i = p.code[b][k].id /\ Node(p, i) = p.code[b][k]
  BY <1>0, NodeFacts DEF InstAt
<1>2. PICK k \in Insts(p, b) :
             PointOf(p, i) = <<b, k>> /\ i = p.code[b][k].id /\ Node(p, i) = p.code[b][k]
  BY <1>1
<1>3. /\ Insts(p, b) = 1 .. Len(p.code[b]) /\ Len(p.code[b]) \in Nat /\ 1 \in Insts(p, b)
      /\ Blocks(p) \subseteq Nat
  BY Shape
<1> DEFINE Writers == {m \in 1 .. k - 1 : Defines(p, b, m, p.reg[u])}
<1>4. CASE Writers = {}
  <2>1. LiveAt(p, u, First(p, b))
    <3>1. \A m \in Insts(p, b) : 1 <= m /\ m < k => ~Defines(p, b, m, p.reg[u])
      BY <1>3, <1>4
    <3> QED BY <1>2, <1>3, <3>1, LiveUpward DEF First
  <2>2. PICK e \in Ids(p) : /\ PointOf(p, e)[1] < b /\ Writes(p, e, p.reg[u]) /\ LiveAfter(p, u, e)
    BY <1>0, <2>1 DEF DefinedAbove
  <2>3. Above(PointOf(p, e), PointOf(p, i))
    BY <1>2, <2>2 DEF Above
  <2> QED BY <2>2, <2>3
<1>5. CASE Writers # {}
  <2>1. Writers \in SUBSET Nat /\ k \in Nat /\ \A m \in Writers : m <= k
    BY <1>3
  <2> HIDE DEF Writers
  <2>2. PICK m \in Writers : \A n \in Writers : n <= m
    BY <1>5, <2>1, NatMaximum
  <2>3. m \in 1 .. k - 1 /\ Defines(p, b, m, p.reg[u])
    BY <2>2 DEF Writers
  <2>4. m \in Insts(p, b) /\ m + 1 \in Insts(p, b) /\ m < Len(p.code[b]) /\ m + 1 <= k /\ m < k
    BY <1>3, <2>3
  <2>5. \A n \in Insts(p, b) : m + 1 <= n /\ n < k => ~Defines(p, b, n, p.reg[u])
    <3>1. \A n \in Insts(p, b) : m + 1 <= n /\ n < k => n \in 1 .. k - 1 /\ ~ (n <= m)
      BY <1>3, <2>4
    <3> QED BY <2>2, <3>1 DEF Writers
  <2>6. LiveAt(p, u, p.code[b][m + 1].id)
    BY <1>2, <2>4, <2>5, LiveUpward
  <2>7. LiveAfter(p, u, p.code[b][m].id)
    BY <2>4, <2>6, FlowFacts DEF LiveAfter, LiveAt
  <2>8. <<b, m>> \in Points(p) /\ InstAt(p, <<b, m>>) = p.code[b][m]
    BY <2>4, PointFacts DEF InstAt
  <2>9. /\ p.code[b][m].id \in Ids(p) /\ Node(p, p.code[b][m].id) = p.code[b][m]
        /\ PointOf(p, p.code[b][m].id) = <<b, m>>
    BY <2>8, PointFacts
  <2>10. Writes(p, p.code[b][m].id, p.reg[u])
    BY <2>3, <2>9 DEF Writes, Defines
  <2>11. Above(<<b, m>>, <<b, k>>)
    BY <2>4 DEF Above
  <2> QED BY <1>2, <2>7, <2>9, <2>10, <2>11
<1> QED BY <1>4, <1>5
-----------------------------------------------------------------------------
(***************************************************************************)
(* The interval of one definition.                                         *)
(***************************************************************************)

\* StretchedFacts: it starts no later than the definition's parent, and reaches every
\* use and the end of every block a use leaves; that of a definition nobody
\* uses starts there.
LEMMA StretchedFacts ==
  ASSUME WellFormed(prog), Tidy(prog), Analysed, ChainsRight, NEW d \in Defs
  PROVE  /\ Stretched(d).start \in 0 .. Total /\ Stretched(d).end \in -1 .. Total
         /\ Stretched(d).start <= NumberOf(prog.parent[d])
         /\ du_chains[d] = {} => Stretched(d).start = NumberOf(prog.parent[d])
         /\ \A u \in du_chains[d] :
              /\ \A j \in Ids(prog) : u \in Node(prog, j).use => NumberOf(j) <= Stretched(d).end
              /\ \A b \in Blocks(prog) : u \in liveOut[b] => LastNo(b) <= Stretched(d).end
<1> DEFINE uses == du_chains[d]
           ends == {ParentNo(u) : u \in uses}
           Entered(b) == uses \cap liveIn[b] # {}
           Left(b) == uses \cap liveOut[b] # {}
           Defined(b) == {k \in Insts(prog, b) : uses # {} /\ Min(uses) \in prog.code[b][k].def}
           starts == {FirstNo(b) : b \in {c \in Blocks(prog) : Entered(c)}}
                     \cup {Number(<<b, Min(Defined(b))>>) :
                             b \in {c \in Blocks(prog) : ~Entered(c) /\ Left(c) /\ Defined(c) # {}}}
           stops == {LastNo(b) : b \in {c \in Blocks(prog) : Left(c)}}
                    \cup {ParentNo(u) : u \in {v \in uses : Entered(ParentBlock(v)) /\ ~Left(ParentBlock(v))}}
           firsts == {ParentNo(d)} \cup starts
           lasts == ends \cup stops
<1>1. Total \in Nat /\ \A x : Number(x) \in 0 .. Total
  BY NumberFacts
<1>2. Stretched(d) = [start |-> Min(firsts), end |-> IF uses = {} THEN -1 ELSE Max(lasts)]
  BY Zenon DEF Stretched
<1>3. ParentNo(d) = NumberOf(prog.parent[d])
  BY DEF ParentNo, NumberOf
<1>4. firsts \in SUBSET (0 .. Total) /\ firsts # {}
  <2>1. \A b : FirstNo(b) \in 0 .. Total
    BY <1>1 DEF FirstNo
  <2>2. \A u : ParentNo(u) \in 0 .. Total
    BY <1>1 DEF ParentNo
  <2> QED BY <1>1, <2>1, <2>2
<1>5. lasts \in SUBSET (0 .. Total)
  <2>1. \A b : LastNo(b) \in 0 .. Total
    BY <1>1 DEF LastNo
  <2>2. \A u : ParentNo(u) \in 0 .. Total
    BY <1>1 DEF ParentNo
  <2> QED BY <2>1, <2>2
<1>6. uses # {} => lasts # {}
  OBVIOUS
<1>7. uses = {} => firsts = {ParentNo(d)}
  OBVIOUS
<1>8. ASSUME NEW u \in uses
      PROVE  /\ \A j \in Ids(prog) : u \in Node(prog, j).use => NumberOf(j) \in lasts
             /\ \A b \in Blocks(prog) : u \in liveOut[b] => LastNo(b) \in lasts
  <2>1. ASSUME NEW j \in Ids(prog), u \in Node(prog, j).use PROVE NumberOf(j) \in lasts
    <3>1. prog.parent[u] = j
      BY <2>1, TidyFacts DEF UsesOwned
    <3>2. ParentNo(u) = NumberOf(j)
      BY <3>1 DEF ParentNo, NumberOf
    <3> QED BY <3>2
  <2> QED BY <2>1
<1> HIDE DEF uses, firsts, lasts
<1>9. Min(firsts) \in firsts /\ \A x \in firsts : Min(firsts) <= x
  <2>1. 0 \in Int /\ Total \in Int
    BY <1>1
  <2> QED BY <2>1, <1>4, Extremes
<1>10. uses # {} => Max(lasts) \in lasts /\ \A x \in lasts : x <= Max(lasts)
  <2> SUFFICES ASSUME uses # {}
               PROVE  Max(lasts) \in lasts /\ \A x \in lasts : x <= Max(lasts)
    OBVIOUS
  <2>1. lasts # {} /\ lasts \in SUBSET (0 .. Total)
    BY <1>5, <1>6
  <2>2. 0 \in Int /\ Total \in Int
    BY <1>1
  <2> QED BY <2>1, <2>2, Extremes
<1>11. ParentNo(d) \in firsts
  BY DEF firsts
<1>12. Stretched(d).start = Min(firsts)
       /\ Stretched(d).end = IF uses = {} THEN -1 ELSE Max(lasts)
  BY <1>2
<1>13. Min(firsts) <= NumberOf(prog.parent[d]) /\ (uses = {} => Min(firsts) = NumberOf(prog.parent[d]))
  BY <1>3, <1>7, <1>9, <1>11
<1>14. Stretched(d).start \in 0 .. Total /\ Stretched(d).end \in -1 .. Total
  <2>1. Min(firsts) \in 0 .. Total
    BY <1>4, <1>9
  <2>2. uses # {} => Max(lasts) \in 0 .. Total
    BY <1>5, <1>10
  <2>3. 0 .. Total \subseteq -1 .. Total /\ -1 \in -1 .. Total
    BY <1>1
  <2> QED BY <1>12, <2>1, <2>2, <2>3
<1>15. uses = du_chains[d]
  BY DEF uses
<1> QED BY <1>8, <1>10, <1>12, <1>13, <1>14, <1>15

\* EndReached: the interval of a definition reaches every place above a use of
\* it, in its block or in one it leaves.
LEMMA EndReached ==
  ASSUME WellFormed(prog), Tidy(prog), Analysed, ChainsRight,
         NEW d \in Defs, NEW u \in du_chains[d],
         NEW b \in Blocks(prog), NEW k \in Insts(prog, b),
         \/ \E j \in Insts(prog, b) : k <= j /\ u \in prog.code[b][j].use
         \/ u \in liveOut[b]
  PROVE  Number(<<b, k>>) <= Stretched(d).end
<1>0. /\ Insts(prog, b) = 1 .. Len(prog.code[b]) /\ Len(prog.code[b]) \in Nat
      /\ Len(prog.code[b]) \in Insts(prog, b)
  BY Shape
<1>1. /\ Total \in Nat /\ \A x : Number(x) \in 0 .. Total
      /\ \A x, y \in Points(prog) : Above(x, y) => Number(x) < Number(y)
  BY NumberFacts
<1>2. /\ Stretched(d).end \in -1 .. Total
      /\ \A j \in Ids(prog) : u \in Node(prog, j).use => NumberOf(j) <= Stretched(d).end
      /\ \A c \in Blocks(prog) : u \in liveOut[c] => LastNo(c) <= Stretched(d).end
  BY StretchedFacts
<1>3. ASSUME NEW j \in Insts(prog, b), k <= j
      PROVE  Number(<<b, k>>) <= Number(<<b, j>>)
  <2>1. <<b, k>> \in Points(prog) /\ <<b, j>> \in Points(prog)
    BY PointFacts
  <2>2. k = j \/ Above(<<b, k>>, <<b, j>>)
    BY <1>0, <1>3 DEF Above
  <2>3. Number(<<b, k>>) \in Int /\ Number(<<b, j>>) \in Int
    BY <1>1
  <2> QED BY <2>1, <2>2, <2>3, <1>1
<1>4. CASE \E j \in Insts(prog, b) : k <= j /\ u \in prog.code[b][j].use
  <2>1. PICK j \in Insts(prog, b) : k <= j /\ u \in prog.code[b][j].use
    BY <1>4
  <2>2. <<b, j>> \in Points(prog) /\ InstAt(prog, <<b, j>>) = prog.code[b][j]
    BY PointFacts DEF InstAt
  <2>3. /\ prog.code[b][j].id \in Ids(prog) /\ Node(prog, prog.code[b][j].id) = prog.code[b][j]
        /\ PointOf(prog, prog.code[b][j].id) = <<b, j>>
    BY <2>2, PointFacts
  <2>4. Number(<<b, j>>) <= Stretched(d).end
    BY <2>1, <2>3, <1>2 DEF NumberOf
  <2>5. Number(<<b, k>>) <= Number(<<b, j>>) /\ Number(<<b, k>>) \in Int /\ Number(<<b, j>>) \in Int
    BY <2>1, <1>1, <1>3
  <2> QED BY <1>2, <2>4, <2>5
<1>5. CASE u \in liveOut[b]
  <2>1. Number(<<b, Len(prog.code[b])>>) <= Stretched(d).end
    BY <1>5, <1>2 DEF LastNo
  <2>2. k <= Len(prog.code[b])
    BY <1>0
  <2>3. Number(<<b, k>>) <= Number(<<b, Len(prog.code[b])>>)
        /\ Number(<<b, k>>) \in Int /\ Number(<<b, Len(prog.code[b])>>) \in Int
    BY <2>2, <1>0, <1>1, <1>3
  <2> QED BY <1>2, <2>1, <2>3
<1> QED BY <1>4, <1>5
-----------------------------------------------------------------------------
(***************************************************************************)
(* Webs.                                                                   *)
(***************************************************************************)

\* ComponentFacts: the components are classes of definitions of one register.
LEMMA ComponentFacts ==
  ASSUME NEW d \in DOMAIN du_chains
  PROVE  /\ d \in Component(d) /\ Component(d) \subseteq SameRegister(d)
         /\ Closed(Component(d))
         /\ \A e \in Component(d) : Component(e) = Component(d)
<1>1. SameRegister(d) \in SUBSET DOMAIN du_chains /\ d \in SameRegister(d) /\ Closed(SameRegister(d))
  BY DEF SameRegister, Closed, Linked
<1>2. d \in Component(d) /\ Component(d) \subseteq SameRegister(d)
  BY <1>1 DEF Component
<1>3. Closed(Component(d))
  <2> SUFFICES ASSUME NEW x \in Component(d), NEW e \in DOMAIN du_chains, Linked(x, e)
               PROVE  e \in Component(d)
    BY DEF Closed
  <2>1. e \in SameRegister(d)
    BY <1>1, <1>2 DEF Closed
  <2>2. ASSUME NEW S \in SUBSET SameRegister(d), d \in S, Closed(S) PROVE e \in S
    BY <2>2 DEF Component, Closed
  <2> QED BY <2>1, <2>2 DEF Component
<1>4. ASSUME NEW e \in Component(d) PROVE Component(e) = Component(d)
  <2>1. SameRegister(e) = SameRegister(d) /\ e \in DOMAIN du_chains /\ e \in SameRegister(e)
    BY <1>2 DEF SameRegister
  <2>2. Component(e) \subseteq Component(d)
    BY <1>2, <1>3, <1>4, <2>1 DEF Component
  <2>3. d \in Component(e)
    <3>1. ASSUME NEW S \in SUBSET SameRegister(d), e \in S, Closed(S), d \notin S PROVE FALSE
      <4> DEFINE T == SameRegister(d) \ S
      <4>1. Closed(T)
        <5> SUFFICES ASSUME NEW x \in T, NEW y \in DOMAIN du_chains, Linked(x, y)
                     PROVE  y \in T
          BY DEF Closed
        <5>1. y \in SameRegister(d)
          BY <1>1 DEF Closed
        <5>2. Linked(y, x) /\ x \in DOMAIN du_chains
          BY <1>1 DEF Linked
        <5>3. y \notin S
          BY <5>2, <3>1 DEF Closed
        <5> QED BY <5>1, <5>3
      <4>2. d \in T /\ T \in SUBSET SameRegister(d)
        BY <1>1, <3>1
      <4>3. e \in T
        BY <1>4, <4>1, <4>2 DEF Component
      <4> QED BY <3>1, <4>3
    <3> QED BY <1>1, <2>1, <3>1 DEF Component
  <2>4. Closed(Component(e))
    <3> SUFFICES ASSUME NEW x \in Component(e), NEW y \in DOMAIN du_chains, Linked(x, y)
                 PROVE  y \in Component(e)
      BY DEF Closed
    <3>0. x \in SameRegister(e)
      BY DEF Component
    <3>1. y \in SameRegister(e)
      BY <3>0 DEF SameRegister, Linked
    <3>2. ASSUME NEW S \in SUBSET SameRegister(e), e \in S, Closed(S) PROVE y \in S
      BY <3>2 DEF Component, Closed
    <3> QED BY <3>1, <3>2 DEF Component
  <2>5. Component(e) \in SUBSET SameRegister(d)
    BY <2>1 DEF Component
  <2>6. Component(d) \subseteq Component(e)
    BY <2>3, <2>4, <2>5 DEF Component
  <2> QED BY <2>2, <2>6
<1> QED BY <1>2, <1>3, <1>4

WebAt(d) == [defs |-> Component(d), uses |-> UNION {du_chains[e] : e \in Component(d)}]
Operands(w) == w.defs \cup w.uses

\* DefsFinite: there are finitely many definitions.
LEMMA DefsFinite ==
  ASSUME WellFormed(prog)
  PROVE  Defs \subseteq DOMAIN prog.reg /\ IsFiniteSet(Defs)
<1>1. Defs \subseteq DOMAIN prog.reg
  BY DefsAre, NodeFacts
<1>2. IsFiniteSet(DOMAIN prog.reg)
  <2>1. DOMAIN prog.reg = 1 .. Len(prog.reg) /\ Len(prog.reg) \in Nat
    BY OperandFacts
  <2> QED BY <2>1, FS_Interval
<1> QED BY <1>1, <1>2, FS_Subset

\* WebFacts: every definition is in one web, with the uses it reaches; a web
\* is about one register, and no operand is in two.
LEMMA WebFacts ==
  ASSUME WellFormed(prog), Tidy(prog), ChainsRight
  PROVE  /\ IsFiniteSet(Webs)
         /\ \A d \in Defs : /\ WebAt(d) \in Webs /\ d \in WebAt(d).defs
                            /\ du_chains[d] \subseteq WebAt(d).uses
                            /\ du_chains[d] = {} => WebAt(d).defs = {d}
         /\ \A w \in Webs :
              /\ w.defs # {} /\ w.defs \subseteq Defs /\ w.uses \subseteq AllUses(prog)
              /\ \A d \in w.defs : w = WebAt(d)
              /\ \A o, q \in Operands(w) : prog.reg[o] = prog.reg[q]
              /\ \A u \in w.uses : \E d \in w.defs : u \in du_chains[d]
         /\ \A v, w \in Webs : Operands(v) \cap Operands(w) # {} => v = w
<1>0. /\ DOMAIN du_chains = Defs
      /\ \A d \in Defs : \A u \in du_chains[d] : prog.reg[u] = prog.reg[d] /\ u \in AllUses(prog)
  BY ChainFacts
<1>1. Webs = {WebAt(d) : d \in Defs}
  BY <1>0 DEF Webs, WebAt
<1>2. IsFiniteSet(Webs)
  <2> DEFINE f == [d \in Defs |-> WebAt(d)]
  <2>1. f \in Surjection(Defs, Webs)
    BY <1>1 DEF Surjection
  <2> HIDE DEF f
  <2> QED BY <2>1, DefsFinite, FS_Surjection
<1>3. ASSUME NEW d \in Defs
      PROVE  /\ d \in WebAt(d).defs /\ WebAt(d).defs \subseteq Defs
             /\ \A e \in WebAt(d).defs : prog.reg[e] = prog.reg[d] /\ WebAt(e) = WebAt(d)
             /\ \A u : u \in WebAt(d).uses <=> \E e \in WebAt(d).defs : u \in du_chains[e]
  <2>1. WebAt(d).defs = Component(d)
        /\ WebAt(d).uses = UNION {du_chains[e] : e \in Component(d)}
    BY DEF WebAt
  <2>2. /\ d \in Component(d) /\ Component(d) \subseteq SameRegister(d)
        /\ \A e \in Component(d) : Component(e) = Component(d)
    BY <1>0, ComponentFacts
  <2>3. \A e \in Component(d) : WebAt(e) = WebAt(d)
    BY <2>2 DEF WebAt
  <2> QED BY <1>0, <2>1, <2>2, <2>3 DEF SameRegister
<1>4. ASSUME NEW d \in Defs, du_chains[d] = {} PROVE WebAt(d).defs = {d}
  <2>1. Closed({d}) /\ {d} \in SUBSET SameRegister(d)
    BY <1>0, <1>4 DEF Closed, Linked, SameRegister
  <2>2. Component(d) \subseteq {d}
    BY <2>1 DEF Component
  <2>3. d \in Component(d)
    BY <1>0, ComponentFacts
  <2> QED BY <2>2, <2>3 DEF WebAt
<1>5. ASSUME NEW w \in Webs
      PROVE  /\ w.defs # {} /\ w.defs \subseteq Defs /\ w.uses \subseteq AllUses(prog)
             /\ \A d \in w.defs : w = WebAt(d)
             /\ \A o, q \in Operands(w) : prog.reg[o] = prog.reg[q]
             /\ \A u \in w.uses : \E d \in w.defs : u \in du_chains[d]
  <2>1. PICK d \in Defs : w = WebAt(d)
    BY <1>1
  <2>2. \A o \in Operands(w) : prog.reg[o] = prog.reg[d]
    BY <1>0, <1>3, <2>1 DEF Operands
  <2>3. w.uses \subseteq AllUses(prog)
    BY <1>0, <1>3, <2>1
  <2> QED BY <1>3, <2>1, <2>2, <2>3
<1>6. ASSUME NEW v \in Webs, NEW w \in Webs, NEW o, o \in Operands(v), o \in Operands(w)
      PROVE  v = w
  <2>1. CASE o \in v.defs /\ o \in w.defs
    BY <1>5, <2>1
  <2>2. CASE o \in v.uses /\ o \in w.uses
    <3>1. PICK d \in v.defs : o \in du_chains[d]
      BY <1>5, <2>2
    <3>2. PICK e \in w.defs : o \in du_chains[e]
      BY <1>5, <2>2
    <3>3. d \in Defs /\ e \in Defs /\ v = WebAt(d) /\ w = WebAt(e)
      BY <1>5
    <3>4. Linked(d, e)
      BY <1>0, <3>1, <3>2, <3>3 DEF Linked
    <3>5. e \in Component(d)
      BY <1>0, <3>3, <3>4, ComponentFacts DEF Closed
    <3> QED BY <1>3, <3>3, <3>5 DEF WebAt
  <2>3. ASSUME NEW a \in {v, w}, NEW c \in {v, w}, o \in a.defs, o \in c.uses PROVE o \in c.defs
    <3>1. PICK i \in Ids(prog) : o \in Node(prog, i).def
      BY <1>5, <2>3, DefsAre
    <3>2. PICK j \in Ids(prog) : o \in Node(prog, j).use
      BY <1>5, <2>3, UseFacts
    <3>3. UsesOwned(prog) /\ prog.parent[o] = j
      BY <3>2, TidyFacts DEF UsesOwned
    <3>4. Carried(prog, i, o)
      <4>1. ~ Redone(prog, i, o)
        BY <3>1, <3>2, <3>3, RedoneFacts
      <4> QED BY <3>1, <3>2, <3>3, <4>1, TidyFacts
    <3>5. \A e \in DOMAIN prog.reg : prog.reg[e] = prog.reg[o] => e = o
      BY <3>1, <3>3, <3>4, CarriedFacts
    <3>6. PICK e \in c.defs : o \in du_chains[e]
      BY <1>5, <2>3
    <3>7. e \in DOMAIN prog.reg /\ prog.reg[e] = prog.reg[o]
      BY <1>0, <1>5, <3>6, DefsFinite
    <3> QED BY <3>5, <3>6, <3>7
  <2> QED BY <1>6, <2>1, <2>2, <2>3 DEF Operands
<1> QED BY <1>1, <1>2, <1>3, <1>4, <1>5, <1>6
-----------------------------------------------------------------------------
(***************************************************************************)
(* The interval of a web.                                                  *)
(***************************************************************************)

\* SpanFacts: it covers the intervals of its definitions.
LEMMA SpanFacts ==
  ASSUME WellFormed(prog), Tidy(prog), Analysed, ChainsRight, NEW w \in Webs
  PROVE  /\ Span(w).start \in -1 .. Total /\ Span(w).end \in -1 .. Total
         /\ \A d \in w.defs : /\ Span(w).start <= Stretched(d).start
                              /\ Stretched(d).end <= Span(w).end
                              /\ w.defs = {d} => Span(w) = Stretched(d)
<1> DEFINE spans == {Stretched(d) : d \in w.defs}
           lows  == {Min({i.start, i.end}) : i \in spans}
           highs == {Max({i.start, i.end}) : i \in spans}
<1>0. w.defs # {} /\ w.defs \subseteq Defs /\ IsFiniteSet(w.defs) /\ Total \in Nat
  BY WebFacts, DefsFinite, FS_Subset, NumberFacts
<1>1. ASSUME NEW d \in w.defs
      PROVE  Stretched(d).start \in -1 .. Total /\ Stretched(d).end \in -1 .. Total
  <2>1. d \in Defs
    BY <1>0
  <2>2. Stretched(d).start \in 0 .. Total /\ Stretched(d).end \in -1 .. Total
    BY <2>1, StretchedFacts
  <2> QED BY <1>0, <2>2
<1>2. ASSUME NEW d \in w.defs
      PROVE  LET s == Stretched(d).start  e == Stretched(d).end
             IN  /\ Min({s, e}) \in -1 .. Total /\ Max({s, e}) \in -1 .. Total
                 /\ Min({s, e}) <= s /\ e <= Max({s, e})
  <2> DEFINE s == Stretched(d).start
             e == Stretched(d).end
  <2>1. -1 \in Int /\ Total \in Int /\ {s, e} \in SUBSET (-1 .. Total) /\ {s, e} # {}
    BY <1>0, <1>1
  <2> HIDE DEF s, e
  <2>2. /\ Min({s, e}) \in {s, e} /\ Max({s, e}) \in {s, e}
        /\ \A x \in {s, e} : Min({s, e}) <= x /\ x <= Max({s, e})
    BY <2>1, Extremes
  <2>3. /\ Min({s, e}) \in -1 .. Total /\ Max({s, e}) \in -1 .. Total
        /\ Min({s, e}) <= s /\ e <= Max({s, e})
    BY <2>1, <2>2
  <2> QED BY <2>3 DEF s, e
<1>3. CASE Cardinality(w.defs) = 1
  <2>1. PICK d : w.defs = {d}
    BY <1>0, <1>3, FS_Singleton
  <2>2. Span(w) = Stretched(d)
    <3>1. {Stretched(e) : e \in w.defs} = {Stretched(d)}
      BY <2>1
    <3> QED BY <1>3, <3>1 DEF Span
  <2>3. Stretched(d).start \in -1 .. Total /\ Stretched(d).end \in -1 .. Total
    BY <1>1, <2>1
  <2> QED BY <1>0, <2>1, <2>2, <2>3
<1>4. CASE Cardinality(w.defs) # 1
  <2>1. Span(w) = [start |-> Min(lows), end |-> Max(highs)]
    BY <1>4, Zenon DEF Span
  <2>2. lows \in SUBSET (-1 .. Total) /\ highs \in SUBSET (-1 .. Total) /\ lows # {} /\ highs # {}
    <3>1. \A x \in lows : x \in -1 .. Total
      BY <1>2
    <3>2. \A x \in highs : x \in -1 .. Total
      BY <1>2
    <3>3. PICK d : d \in w.defs
      BY <1>0
    <3>4. /\ Min({Stretched(d).start, Stretched(d).end}) \in lows
          /\ Max({Stretched(d).start, Stretched(d).end}) \in highs
      BY <3>3
    <3> HIDE DEF lows, highs
    <3> QED BY <3>1, <3>2, <3>4
  <2>3. \A d \in w.defs : /\ Min({Stretched(d).start, Stretched(d).end}) \in lows
                          /\ Max({Stretched(d).start, Stretched(d).end}) \in highs
                          /\ w.defs # {d}
    BY <1>4, FS_Singleton
  <2> HIDE DEF lows, highs
  <2>4. /\ Min(lows) \in lows /\ \A x \in lows : Min(lows) <= x
        /\ Max(highs) \in highs /\ \A x \in highs : x <= Max(highs)
    <3>1. -1 \in Int /\ Total \in Int
      BY <1>0
    <3> QED BY <2>2, <3>1, Extremes
  <2>5. Min(lows) \in -1 .. Total /\ Max(highs) \in -1 .. Total
    BY <2>2, <2>4
  <2>6. ASSUME NEW d \in w.defs
        PROVE  Min(lows) <= Stretched(d).start /\ Stretched(d).end <= Max(highs)
    <3> DEFINE s == Stretched(d).start
               e == Stretched(d).end
    <3>1. s \in -1 .. Total /\ e \in -1 .. Total /\ Min({s, e}) \in -1 .. Total
          /\ Max({s, e}) \in -1 .. Total /\ Min({s, e}) <= s /\ e <= Max({s, e})
          /\ Min(lows) <= Min({s, e}) /\ Max({s, e}) <= Max(highs)
      BY <1>1, <1>2, <2>3, <2>4
    <3> QED BY <1>0, <2>5, <3>1
  <2>7. Span(w).start = Min(lows) /\ Span(w).end = Max(highs)
    BY <2>1
  <2> QED BY <2>3, <2>5, <2>6, <2>7
<1> QED BY <1>3, <1>4

\* A use that is carried: the object is the definition's too.
Awaited(u) == \E e \in Ids(prog) : u \in Node(prog, e).def /\ Carried(prog, e, u)

\* UseInWeb: where a use is live its web's interval has not ended, and has
\* begun; only where it is carried it may begin as late as at its user.
LEMMA UseInWeb ==
  ASSUME WellFormed(prog), Tidy(prog), DefinedAbove(prog), Analysed, ChainsRight,
         NEW u, NEW i, LiveAt(prog, u, i)
  PROVE  \E w \in Webs : /\ u \in w.uses
                         /\ \/ Span(w).start < NumberOf(i)
                            \/ Awaited(u) /\ Span(w).start <= NumberOf(prog.parent[u])
                         /\ NumberOf(i) <= Span(w).end
<1>0. i \in Ids(prog) /\ u \in AllUses(prog)
  BY LiveOfUse
<1>1. PICK e \in Ids(prog) : /\ Writes(prog, e, prog.reg[u]) /\ LiveAfter(prog, u, e)
                             /\ Above(PointOf(prog, e), PointOf(prog, i))
  BY DefinedBefore
<1>2. PICK d \in Node(prog, e).def : prog.reg[d] = prog.reg[u]
  BY <1>1 DEF Writes
<1>3. u \in du_chains[d] /\ d \in Defs
  BY <1>0, <1>1, <1>2, ChainFacts DEF Reached
<1>4. PICK w \in Webs : w = WebAt(d)
  BY <1>3, WebFacts
<1>5. d \in w.defs /\ u \in w.uses
  BY <1>3, <1>4, WebFacts
<1>6. /\ Span(w).start \in -1 .. Total /\ Span(w).end \in -1 .. Total
      /\ Span(w).start <= Stretched(d).start /\ Stretched(d).end <= Span(w).end
  BY <1>5, SpanFacts
<1>7. /\ Stretched(d).start \in 0 .. Total /\ Stretched(d).end \in -1 .. Total
      /\ Stretched(d).start <= NumberOf(prog.parent[d])
  BY <1>3, StretchedFacts
<1>8. Total \in Nat /\ NumberOf(e) \in 0 .. Total /\ NumberOf(i) \in 0 .. Total
      /\ NumberOf(e) < NumberOf(i) /\ NumberOf(prog.parent[d]) \in 0 .. Total
  BY <1>0, <1>1, NumberFacts, NodeFacts DEF NumberOf
<1>9. \/ Span(w).start < NumberOf(i)
      \/ Awaited(u) /\ Span(w).start <= NumberOf(prog.parent[u])
  <2>1. \/ prog.parent[d] = e
        \/ Carried(prog, e, d) /\ prog.parent[d] \in Ids(prog)
    <3>1. ~ (prog.parent[d] \in Ids(prog) /\ Redone(prog, e, d))
      BY <1>1, <1>2, RedoneFacts
    <3> QED BY <3>1, TidyFacts
  <2>2. CASE prog.parent[d] = e
    BY <1>6, <1>7, <1>8, <2>2
  <2>3. CASE Carried(prog, e, d) /\ prog.parent[d] \in Ids(prog)
    <3>1. u \in DOMAIN prog.reg /\ UsesOwned(prog)
      BY <1>0, UseFacts, TidyFacts
    <3>2. u = d
      BY <1>2, <2>3, <3>1, CarriedFacts
    <3>3. Awaited(u)
      BY <2>3, <3>2 DEF Awaited
    <3> QED BY <1>6, <1>7, <1>8, <3>2, <3>3
  <2> QED BY <2>1, <2>2, <2>3
<1>10. NumberOf(i) <= Stretched(d).end
  <2>1. PICK b \in Blocks(prog) : \E k \in Insts(prog, b) :
               PointOf(prog, i) = <<b, k>> /\ i = prog.code[b][k].id
    BY <1>0, NodeFacts DEF InstAt
  <2>2. PICK k \in Insts(prog, b) : PointOf(prog, i) = <<b, k>> /\ i = prog.code[b][k].id
    BY <2>1
  <2>3. Computed(u, b, k)
    BY <2>2, LiveComputed
  <2>4. \/ \E j \in Insts(prog, b) : k <= j /\ u \in prog.code[b][j].use
        \/ u \in liveOut[b]
    BY <2>3 DEF Computed, UsedBelow
  <2>5. Number(<<b, k>>) <= Stretched(d).end
    BY <1>3, <2>4, EndReached
  <2> QED BY <2>2, <2>5 DEF NumberOf
<1> QED BY <1>5, <1>6, <1>7, <1>8, <1>9, <1>10

\* DefInWeb: at a definition's parent its web's interval has begun and not
\* ended; that of one nobody uses begins there.
LEMMA DefInWeb ==
  ASSUME WellFormed(prog), Tidy(prog), Analysed, ChainsRight, NEW d \in Defs
  PROVE  /\ WebAt(d) \in Webs /\ d \in WebAt(d).defs
         /\ Span(WebAt(d)).start <= NumberOf(prog.parent[d])
         /\ \/ NumberOf(prog.parent[d]) <= Span(WebAt(d)).end
            \/ Span(WebAt(d)).start = NumberOf(prog.parent[d])
<1>2. PICK w \in Webs : w = WebAt(d)
  BY WebFacts
<1>3. d \in w.defs
  BY <1>2, WebFacts
<1>4. /\ Span(w).start \in -1 .. Total /\ Span(w).end \in -1 .. Total
      /\ Span(w).start <= Stretched(d).start /\ Stretched(d).end <= Span(w).end
      /\ w.defs = {d} => Span(w) = Stretched(d)
  BY <1>3, SpanFacts
<1>5. /\ Stretched(d).start \in 0 .. Total /\ Stretched(d).end \in -1 .. Total
      /\ Stretched(d).start <= NumberOf(prog.parent[d])
      /\ du_chains[d] = {} => Stretched(d).start = NumberOf(prog.parent[d])
  BY StretchedFacts
<1>6. Total \in Nat /\ NumberOf(prog.parent[d]) \in 0 .. Total
  BY NumberFacts DEF NumberOf
<1>7. CASE du_chains[d] = {}
  <2>1. w.defs = {d}
    BY <1>2, <1>7, WebFacts
  <2>2. Span(w).start = NumberOf(prog.parent[d])
    BY <1>4, <1>5, <1>7, <2>1
  <2> QED BY <1>2, <1>3, <1>6, <2>2
<1>8. CASE du_chains[d] # {}
  <2>1. PICK u : u \in du_chains[d]
    BY <1>8
  <2>2. PICK i \in Ids(prog) : /\ d \in Node(prog, i).def /\ u \in Reached(i, d)
                               /\ prog.reg[u] = prog.reg[d]
    BY <2>1, ChainFacts
  <2>3. LiveAfter(prog, u, i)
    BY <2>2 DEF Reached
  <2>4. PICK j \in Ids(prog) : j = prog.parent[d]
    BY <2>2, TidyFacts
  <2>5. j = i \/ Carried(prog, i, d)
    <3>1. ~Redone(prog, i, d)
      BY <2>2, <2>3, <2>4, RedoneFacts
    <3> QED BY <2>2, <2>4, <3>1, TidyFacts
  <2>6. CASE j = i
    <3>1. PICK b \in Blocks(prog) : \E k \in Insts(prog, b) :
                 PointOf(prog, i) = <<b, k>> /\ i = prog.code[b][k].id
      BY NodeFacts DEF InstAt
    <3>2. PICK k \in Insts(prog, b) : PointOf(prog, i) = <<b, k>> /\ i = prog.code[b][k].id
      BY <3>1
    <3>3. Computed(u, b, k + 1)
      BY <2>3, <3>2, AfterComputed
    <3>4. \A l \in Insts(prog, b) : k + 1 <= l => k <= l
      BY Shape
    <3>5. \/ \E l \in Insts(prog, b) : k <= l /\ u \in prog.code[b][l].use
          \/ u \in liveOut[b]
      BY <3>3, <3>4 DEF Computed, UsedBelow
    <3>6. Number(<<b, k>>) <= Stretched(d).end
      BY <2>1, <3>5, EndReached
    <3>7. NumberOf(i) <= Stretched(d).end
      BY <3>2, <3>6 DEF NumberOf
    <3> QED BY <1>2, <1>3, <1>4, <1>5, <1>6, <2>4, <2>6, <3>7
  <2>7. CASE Carried(prog, i, d)
    <3>1. UsesOwned(prog) /\ u \in DOMAIN prog.reg
      BY <2>1, TidyFacts, ChainFacts, UseFacts
    <3>2. u = d /\ d \in Node(prog, j).use
      BY <2>2, <2>4, <2>7, <3>1, CarriedFacts
    <3>3. NumberOf(j) <= Stretched(d).end
      BY <2>1, <3>2, StretchedFacts
    <3> QED BY <1>2, <1>3, <1>4, <1>5, <1>6, <2>4, <3>3
  <2> QED BY <2>5, <2>6, <2>7
<1> QED BY <1>7, <1>8

\* SortedFacts: the sort lists every web once, ascending by start.
LEMMA SortedFacts ==
  ASSUME WellFormed(prog), Tidy(prog), Analysed, ChainsRight, NEW newestFirst \in BOOLEAN,
         NEW s, s = SortedWebs(newestFirst)
  PROVE  /\ s \in Seq(Webs)
         /\ \A w \in Webs : \E i \in DOMAIN s : s[i] = w
         /\ \A i, j \in DOMAIN s : i < j => s[i] # s[j] /\ Span(s[i]).start <= Span(s[j]).start
<1> DEFINE start == [w \in Webs |-> Span(w).start]
           oldest == [w \in Webs |-> Min(w.defs)]
           Earlier(v, w) ==
             \/ start[v] < start[w]
             \/ start[v] = start[w]
                  /\ IF newestFirst THEN oldest[v] > oldest[w] ELSE oldest[v] < oldest[w]
           R == {x \in Webs \X Webs : Earlier(x[1], x[2])}
<1>1. s = Ascending(Webs, R)
  BY Zenon DEF SortedWebs
<1>2. \A w \in Webs : start[w] \in Int /\ start[w] = Span(w).start
  <2>1. \A w \in Webs : Span(w).start \in -1 .. Total
    BY SpanFacts
  <2> QED BY <2>1
<1>3. \A w \in Webs : oldest[w] \in Nat /\ oldest[w] \in w.defs
  <2> SUFFICES ASSUME NEW w \in Webs PROVE oldest[w] \in Nat /\ oldest[w] \in w.defs
    OBVIOUS
  <2>1. w.defs # {} /\ w.defs \subseteq Defs
    BY WebFacts
  <2>2. Defs \subseteq Nat
    BY DefsFinite, OperandFacts
  <2>3. w.defs \in SUBSET Nat
    BY <2>1, <2>2
  <2>4. Min(w.defs) \in w.defs
    BY <2>1, <2>3, MinFacts
  <2> QED BY <2>3, <2>4
<1>4. \A v, w \in Webs : oldest[v] = oldest[w] => v = w
  BY <1>3, WebFacts DEF Operands
<1> HIDE DEF start, oldest
<1>5. \A v, w \in Webs : <<v, w>> \in R <=> Earlier(v, w)
  OBVIOUS
<1>6. Orders(R, Webs)
  <2>1. \A v, w, x \in Webs : Earlier(v, w) /\ Earlier(w, x) => Earlier(v, x)
    BY <1>2, <1>3
  <2>2. \A w \in Webs : ~Earlier(w, w)
    BY <1>2, <1>3
  <2>3. \A v, w \in Webs : v # w => Earlier(v, w) \/ Earlier(w, v)
    BY <1>2, <1>3, <1>4
  <2> HIDE DEF Earlier, R
  <2> QED BY <1>5, <2>1, <2>2, <2>3 DEF Orders
<1> DEFINE n == Cardinality(Webs)
<1>7. IsFiniteSet(Webs)
  BY WebFacts
<1>7a. n = Cardinality(Webs)
  OBVIOUS
<1> HIDE DEF R, n, Earlier
<1>8. /\ n \in Nat /\ s \in Seq(Webs) /\ Len(s) = n
      /\ \A x \in Webs : \E i \in 1 .. n : s[i] = x
      /\ \A i, j \in 1 .. n : i < j => <<s[i], s[j]>> \in R
  BY <1>1, <1>6, <1>7, <1>7a, AscendingFacts
<1>9. DOMAIN s = 1 .. n /\ \A i \in 1 .. n : s[i] \in Webs
  BY <1>8, LenProperties, ElementOfSeq
<1>10. ASSUME NEW i \in 1 .. n, NEW j \in 1 .. n, i < j
       PROVE  s[i] # s[j] /\ Span(s[i]).start <= Span(s[j]).start
  <2>1. Earlier(s[i], s[j]) /\ s[i] \in Webs /\ s[j] \in Webs
    BY <1>5, <1>8, <1>9, <1>10
  <2>2. start[s[i]] <= start[s[j]] /\ s[i] # s[j]
    BY <1>2, <1>3, <2>1 DEF Earlier
  <2> QED BY <1>2, <2>1, <2>2
<1> QED BY <1>8, <1>9, <1>10


(***************************************************************************)
(* What the list of webs and intervals says about the function: one web    *)
(* for each operand, its interval open wherever one of its uses is live    *)
(* and at the parents of its definitions, the uses a definition reaches in *)
(* its own web.                                                            *)
(***************************************************************************)
WebsRight ==
  /\ Len(webs) \in Nat /\ DOMAIN webs = 1 .. Len(webs) /\ Len(webs) = Len(intervals)
  /\ \A k \in DOMAIN webs :
       /\ webs[k].defs # {}
       /\ \A d \in webs[k].defs : \E i \in Ids(prog) : d \in Node(prog, i).def
       /\ webs[k].uses \subseteq AllUses(prog)
       /\ \A o, q \in Operands(webs[k]) : prog.reg[o] = prog.reg[q]
  /\ \A k, l \in DOMAIN webs : Operands(webs[k]) \cap Operands(webs[l]) # {} => k = l
  /\ \A u, i : LiveAt(prog, u, i) =>
       \E k \in DOMAIN webs : /\ u \in webs[k].uses
                              /\ \/ intervals[k].start < NumberOf(i)
                                 \/ Awaited(u) /\ intervals[k].start <= NumberOf(prog.parent[u])
                              /\ NumberOf(i) <= intervals[k].end
  /\ \A i \in Ids(prog) : \A d \in Node(prog, i).def :
       \E k \in DOMAIN webs :
         /\ d \in webs[k].defs
         /\ intervals[k].start <= NumberOf(prog.parent[d])
         /\ \/ NumberOf(prog.parent[d]) <= intervals[k].end
            \/ intervals[k].start = NumberOf(prog.parent[d])
         /\ Reached(i, d) \subseteq webs[k].uses

\* SortedRight: this is so of the list that computeLiveIntervals makes.
LEMMA SortedRight ==
  ASSUME WellFormed(prog), Tidy(prog), DefinedAbove(prog), Analysed, ChainsRight,
         NEW newestFirst \in BOOLEAN, NEW s, s = SortedWebs(newestFirst),
         NEW t, t = [k \in DOMAIN s |-> AsInterval(s[k])]
  PROVE  /\ t \in Seq(LS!Interval) /\ LS!SortedByStart(t)
         /\ Len(s) \in Nat /\ DOMAIN s = 1 .. Len(s) /\ Len(s) = Len(t)
         /\ \A k \in DOMAIN s :
              /\ s[k].defs # {}
              /\ \A d \in s[k].defs : \E i \in Ids(prog) : d \in Node(prog, i).def
              /\ s[k].uses \subseteq AllUses(prog)
              /\ \A o, q \in Operands(s[k]) : prog.reg[o] = prog.reg[q]
         /\ \A k, l \in DOMAIN s : Operands(s[k]) \cap Operands(s[l]) # {} => k = l
         /\ \A u, i : LiveAt(prog, u, i) =>
              \E k \in DOMAIN s : /\ u \in s[k].uses
                                  /\ \/ t[k].start < NumberOf(i)
                                     \/ Awaited(u) /\ t[k].start <= NumberOf(prog.parent[u])
                                  /\ NumberOf(i) <= t[k].end
         /\ \A i \in Ids(prog) : \A d \in Node(prog, i).def :
              \E k \in DOMAIN s :
                /\ d \in s[k].defs
                /\ t[k].start <= NumberOf(prog.parent[d])
                /\ \/ NumberOf(prog.parent[d]) <= t[k].end
                   \/ t[k].start = NumberOf(prog.parent[d])
                /\ Reached(i, d) \subseteq s[k].uses
<1>1. /\ s \in Seq(Webs)
      /\ \A w \in Webs : \E i \in DOMAIN s : s[i] = w
      /\ \A i, j \in DOMAIN s : i < j => s[i] # s[j] /\ Span(s[i]).start <= Span(s[j]).start
  BY SortedFacts
<1>2. Len(s) \in Nat /\ DOMAIN s = 1 .. Len(s) /\ \A k \in DOMAIN s : s[k] \in Webs
  BY <1>1, LenProperties, ElementOfSeq
<1>3. \A k \in DOMAIN s : t[k].start = Span(s[k]).start /\ t[k].end = Span(s[k]).end
                          /\ t[k] \in LS!Interval
  <2> SUFFICES ASSUME NEW k \in DOMAIN s
               PROVE  t[k].start = Span(s[k]).start /\ t[k].end = Span(s[k]).end
                      /\ t[k] \in LS!Interval
    OBVIOUS
  <2>1. t[k] = [start |-> Span(s[k]).start, end |-> Span(s[k]).end,
                fp |-> prog.reg[Min(s[k].defs)] \in prog.fp]
    BY DEF AsInterval
  <2>2. Span(s[k]).start \in -1 .. Total /\ Span(s[k]).end \in -1 .. Total
    BY <1>2, SpanFacts
  <2>3. Span(s[k]).start \in Int /\ Span(s[k]).end \in Int
    BY <2>2
  <2>4. PICK f \in BOOLEAN : f = (prog.reg[Min(s[k].defs)] \in prog.fp)
    <3>1. CASE prog.reg[Min(s[k].defs)] \in prog.fp
      <4>1. TRUE = (prog.reg[Min(s[k].defs)] \in prog.fp)
        BY <3>1
      <4> QED BY <4>1
    <3>2. CASE prog.reg[Min(s[k].defs)] \notin prog.fp
      <4>1. FALSE = (prog.reg[Min(s[k].defs)] \in prog.fp)
        BY <3>2
      <4> QED BY <4>1
    <3> QED BY <3>1, <3>2
  <2>5. t[k] = [start |-> Span(s[k]).start, end |-> Span(s[k]).end, fp |-> f]
    BY <2>1, <2>4, Zenon
  <2> QED BY <2>3, <2>5 DEF LS!Interval
<1>4. DOMAIN t = 1 .. Len(s) /\ t \in Seq(LS!Interval) /\ Len(t) = Len(s)
  <2>1. t \in [1 .. Len(s) -> LS!Interval]
    <3>1. DOMAIN t = 1 .. Len(s) /\ \A k \in 1 .. Len(s) : t[k] \in LS!Interval
      BY <1>2, <1>3
    <3>2. t = [k \in 1 .. Len(s) |-> t[k]]
      BY <1>2
    <3> QED BY <3>1, <3>2
  <2>2. t \in Seq(LS!Interval)
    BY <1>2, <2>1, SeqDef
  <2>3. DOMAIN t = 1 .. Len(s)
    BY <2>1
  <2> QED BY <1>2, <2>2, <2>3, LenProperties
<1>5. LS!SortedByStart(t)
  <2> SUFFICES ASSUME NEW i \in DOMAIN t, NEW j \in DOMAIN t, i < j
               PROVE  t[i].start <= t[j].start
    BY DEF LS!SortedByStart
  <2>1. i \in DOMAIN s /\ j \in DOMAIN s
    BY <1>2, <1>4
  <2> QED BY <1>1, <1>3, <2>1
<1>6. \A k, l \in DOMAIN s : s[k] = s[l] => k = l
  <2> SUFFICES ASSUME NEW k \in DOMAIN s, NEW l \in DOMAIN s, k # l PROVE s[k] # s[l]
    OBVIOUS
  <2>1. k < l \/ l < k
    BY <1>2
  <2> QED BY <1>1, <2>1
<1>7. ASSUME NEW k \in DOMAIN s
      PROVE  /\ s[k].defs # {}
             /\ \A d \in s[k].defs : \E i \in Ids(prog) : d \in Node(prog, i).def
             /\ s[k].uses \subseteq AllUses(prog)
             /\ \A o, q \in Operands(s[k]) : prog.reg[o] = prog.reg[q]
  <2>1. s[k] \in Webs
    BY <1>2
  <2>2. s[k].defs # {} /\ s[k].defs \subseteq Defs /\ s[k].uses \subseteq AllUses(prog)
        /\ \A o, q \in Operands(s[k]) : prog.reg[o] = prog.reg[q]
    BY <2>1, WebFacts
  <2> QED BY <2>2, DefsAre
<1>8. \A k, l \in DOMAIN s : Operands(s[k]) \cap Operands(s[l]) # {} => k = l
  BY <1>2, <1>6, WebFacts
<1>9. ASSUME NEW u, NEW i, LiveAt(prog, u, i)
      PROVE  \E k \in DOMAIN s : /\ u \in s[k].uses
                                 /\ \/ t[k].start < NumberOf(i)
                                    \/ Awaited(u) /\ t[k].start <= NumberOf(prog.parent[u])
                                 /\ NumberOf(i) <= t[k].end
  <2>1. PICK w \in Webs : /\ u \in w.uses
                          /\ \/ Span(w).start < NumberOf(i)
                             \/ Awaited(u) /\ Span(w).start <= NumberOf(prog.parent[u])
                          /\ NumberOf(i) <= Span(w).end
    BY <1>9, UseInWeb
  <2>2. PICK k \in DOMAIN s : s[k] = w
    BY <1>1
  <2> QED BY <1>3, <2>1, <2>2
<1>10. ASSUME NEW i \in Ids(prog), NEW d \in Node(prog, i).def
       PROVE  \E k \in DOMAIN s :
                /\ d \in s[k].defs
                /\ t[k].start <= NumberOf(prog.parent[d])
                /\ \/ NumberOf(prog.parent[d]) <= t[k].end
                   \/ t[k].start = NumberOf(prog.parent[d])
                /\ Reached(i, d) \subseteq s[k].uses
  <2>2. d \in Defs /\ Reached(i, d) \subseteq du_chains[d]
    BY ChainFacts
  <2>1. /\ WebAt(d) \in Webs /\ d \in WebAt(d).defs
        /\ Span(WebAt(d)).start <= NumberOf(prog.parent[d])
        /\ \/ NumberOf(prog.parent[d]) <= Span(WebAt(d)).end
           \/ Span(WebAt(d)).start = NumberOf(prog.parent[d])
    BY <2>2, DefInWeb
  <2>3. Reached(i, d) \subseteq WebAt(d).uses
    BY <2>2, WebFacts
  <2>4. PICK k \in DOMAIN s : s[k] = WebAt(d)
    BY <1>1, <2>1
  <2> QED BY <1>3, <2>1, <2>3, <2>4
<1> QED BY <1>2, <1>4, <1>5, <1>7, <1>8, <1>9, <1>10
-----------------------------------------------------------------------------
(***************************************************************************)
(* The registers of a round that spills nothing.                           *)
(***************************************************************************)
Banks == ToSet(IntRegs) \cup ToSet(FpRegs)
Mapped == mreg = [o \in DOMAIN prog.reg |-> RegisterOf(o)]
Succeeded == success /\ pc = "done"

\* MappedFacts: a use that is live at an instruction has a register, not the
\* one a definition of another virtual register gets there when it is live
\* behind it too, and the one its own definition gets.
LEMMA MappedFacts ==
  ASSUME WellFormed(prog), Tidy(prog), WebsRight, LSP!IInv, Succeeded,
         NEW m, m = [o \in DOMAIN prog.reg |-> RegisterOf(o)], NEW i \in Ids(prog), NEW u
  PROVE  /\ LiveAt(prog, u, i) => m[u] \in Banks
         /\ \A d \in Node(prog, i).def :
              /\ LiveAt(prog, u, i) /\ LiveAfter(prog, u, i) /\ prog.reg[d] # prog.reg[u] =>
                   m[d] # m[u]
              /\ LiveAfter(prog, u, i) /\ prog.reg[d] = prog.reg[u] => m[d] = m[u]
<1>0. /\ Len(webs) \in Nat /\ DOMAIN webs = 1 .. Len(webs) /\ Len(webs) = Len(intervals)
      /\ \A k, l \in DOMAIN webs : Operands(webs[k]) \cap Operands(webs[l]) # {} => k = l
  BY DEF WebsRight
<1>1. ASSUME NEW k \in DOMAIN webs, NEW o \in DOMAIN prog.reg, o \in Operands(webs[k])
      PROVE  m[o] = rreg[k]
  <2>1. {l \in DOMAIN webs : o \in webs[l].defs \cup webs[l].uses} = {k}
    BY <1>0, <1>1 DEF Operands
  <2>2. Max({k}) = k
    <3>1. {k} \in SUBSET Int /\ \A p \in {k} : p <= k
      BY <1>0
    <3> QED BY <3>1, ExtremesAre
  <2>3. RegisterOf(o) = rreg[k]
    BY <2>1, <2>2 DEF RegisterOf
  <2> QED BY <2>3
<1>2. \A k \in DOMAIN webs : LSP!Placed(k) /\ intervals[k] \in LSP!Interval
  <2>1. LSP!TypeOK /\ pc = "done"
    BY DEF LSP!IInv, Succeeded
  <2>2. cur = Len(intervals) + 1 /\ intervals \in Seq(LSP!Interval)
    BY <2>1 DEF LSP!TypeOK, LSP!N
  <2>3. \A k \in DOMAIN webs : k < cur /\ k \in 1 .. Len(intervals)
    BY <1>0, <2>2
  <2>4. \A k \in 1 .. Len(intervals) : intervals[k] \in LSP!Interval
    BY <2>2, ElementOfSeq
  <2> QED BY <2>3, <2>4 DEF LSP!Placed, LSP!N
<1>3. \A k \in DOMAIN webs : rreg[k] \in Banks
  <2>1. LSP!OwnBank /\ success
    BY DEF LSP!IInv, Succeeded
  <2>2. \A k \in DOMAIN webs : rreg[k] \in LSP!Bank(intervals[k].fp)
    BY <1>0, <1>2, <2>1 DEF LSP!OwnBank, LSP!N
  <2>3. \A f : LSP!Bank(f) \subseteq Banks
    BY DEF LSP!Bank, Banks, ToSet, LSP!Range
  <2> QED BY <2>2, <2>3
<1>4. ASSUME NEW k \in DOMAIN webs, NEW l \in DOMAIN webs, k < l,
             intervals[l].start <= intervals[k].end
      PROVE  rreg[k] # rreg[l]
  <2>1. LSP!NoClash /\ success
    BY DEF LSP!IInv, Succeeded
  <2>2. LSP!LiveTogether(k, l)
    BY <1>4 DEF LSP!LiveTogether, LSP!Start, LSP!End
  <2> QED BY <1>0, <1>2, <2>1, <2>2 DEF LSP!NoClash, LSP!N
<1>5. \A k, l \in DOMAIN webs : k < l => intervals[k].start <= intervals[l].start
  <2>1. LSP!SortedByStart(intervals) /\ intervals \in Seq(LSP!Interval)
    BY DEF LSP!IInv, LSP!TypeOK
  <2>2. DOMAIN intervals = 1 .. Len(intervals)
    BY <2>1, LenProperties
  <2> QED BY <1>0, <2>1, <2>2 DEF LSP!SortedByStart
<1>6. ASSUME NEW v, NEW j, LiveAt(prog, v, j)
      PROVE  \E k \in DOMAIN webs : /\ v \in webs[k].uses /\ v \in DOMAIN prog.reg
                                    /\ m[v] = rreg[k]
                                    /\ \/ intervals[k].start < NumberOf(j)
                                       \/ Awaited(v) /\ intervals[k].start <= NumberOf(prog.parent[v])
                                    /\ NumberOf(j) <= intervals[k].end
  <2>1. PICK k \in DOMAIN webs : /\ v \in webs[k].uses
                                 /\ \/ intervals[k].start < NumberOf(j)
                                    \/ Awaited(v) /\ intervals[k].start <= NumberOf(prog.parent[v])
                                 /\ NumberOf(j) <= intervals[k].end
    BY <1>6 DEF WebsRight
  <2>2. v \in DOMAIN prog.reg
    BY <1>6, LiveOfUse, UseFacts
  <2> QED BY <1>1, <2>1, <2>2 DEF Operands
<1>7. ASSUME NEW d \in Node(prog, i).def
      PROVE  \E k \in DOMAIN webs :
               /\ d \in webs[k].defs /\ m[d] = rreg[k]
               /\ intervals[k].start <= NumberOf(prog.parent[d])
               /\ \/ NumberOf(prog.parent[d]) <= intervals[k].end
                  \/ intervals[k].start = NumberOf(prog.parent[d])
               /\ Reached(i, d) \subseteq webs[k].uses
  <2>1. PICK k \in DOMAIN webs :
               /\ d \in webs[k].defs
               /\ intervals[k].start <= NumberOf(prog.parent[d])
               /\ \/ NumberOf(prog.parent[d]) <= intervals[k].end
                  \/ intervals[k].start = NumberOf(prog.parent[d])
               /\ Reached(i, d) \subseteq webs[k].uses
    BY DEF WebsRight
  <2>2. d \in DOMAIN prog.reg
    BY NodeFacts
  <2> QED BY <1>1, <2>1, <2>2 DEF Operands
<1>8. ASSUME NEW d \in Node(prog, i).def, LiveAt(prog, u, i), LiveAfter(prog, u, i),
             prog.reg[d] # prog.reg[u]
      PROVE  m[d] # m[u]
  <2>0. UsesOwned(prog) /\ u \in AllUses(prog) /\ u \in DOMAIN prog.reg
    BY <1>8, TidyFacts, LiveOfUse, UseFacts
  <2>1. PICK a \in Ids(prog) : a = prog.parent[d]
    BY TidyFacts
  <2>2. LiveAt(prog, u, a)
    <3>1. CASE a = i
      BY <1>8, <3>1
    <3>2. CASE Redone(prog, i, d)
      BY <1>8, <2>1, <3>2, RedoneFacts DEF LiveAfter, LiveAt
    <3>3. CASE Carried(prog, i, d)
      BY <1>8, <2>0, <2>1, <3>3, CarriedFacts
    <3> QED BY <2>1, <3>1, <3>2, <3>3, TidyFacts
  <2>3. PICK k \in DOMAIN webs : /\ u \in webs[k].uses /\ m[u] = rreg[k]
                                 /\ \/ intervals[k].start < NumberOf(a)
                                    \/ Awaited(u) /\ intervals[k].start <= NumberOf(prog.parent[u])
                                 /\ NumberOf(a) <= intervals[k].end
    BY <1>6, <2>2
  <2>4. PICK l \in DOMAIN webs :
               /\ d \in webs[l].defs /\ m[d] = rreg[l]
               /\ intervals[l].start <= NumberOf(a)
               /\ NumberOf(a) <= intervals[l].end \/ intervals[l].start = NumberOf(a)
               /\ Reached(i, d) \subseteq webs[l].uses
    BY <1>7, <2>1
  <2>5. k # l
    BY <1>8, <2>3, <2>4 DEF WebsRight, Operands
  <2>6. /\ intervals[k].start \in Int /\ intervals[k].end \in Int
        /\ intervals[l].start \in Int /\ intervals[l].end \in Int
    BY <1>2 DEF LSP!Interval
  <2>7. \A x \in Ids(prog) : NumberOf(x) \in Int
    <3>1. Total \in Nat /\ \A x : NumberOf(x) \in 0 .. Total
      BY NumberFacts DEF NumberOf
    <3> QED BY <3>1
  <2>8. ASSUME NEW x \in Int, intervals[k].start <= x, x <= intervals[k].end,
               intervals[l].start <= x, x <= intervals[l].end
        PROVE  m[d] # m[u]
    <3>1. intervals[l].start <= intervals[k].end /\ intervals[k].start <= intervals[l].end
      BY <2>6, <2>8
    <3>2. k < l \/ l < k
      BY <1>0, <2>5
    <3> QED BY <1>4, <2>3, <2>4, <3>1, <3>2
  <2>9. CASE intervals[k].start < NumberOf(a)
    <3>1. CASE NumberOf(a) <= intervals[l].end
      BY <2>3, <2>4, <2>6, <2>7, <2>8, <2>9, <3>1
    <3>2. CASE intervals[l].start = NumberOf(a)
      <4>1. ~ (l < k)
        BY <1>5, <2>6, <2>7, <2>9, <3>2
      <4>2. k < l
        BY <1>0, <2>5, <4>1
      <4> QED BY <1>4, <2>3, <2>4, <3>2, <4>2
    <3> QED BY <2>4, <3>1, <3>2
  <2>10. CASE Awaited(u) /\ intervals[k].start <= NumberOf(prog.parent[u])
    <3>1. PICK e \in Ids(prog) : u \in Node(prog, e).def /\ Carried(prog, e, u)
      BY <2>10 DEF Awaited
    <3>2. PICK j \in Ids(prog) : j = prog.parent[u] /\ u \in Node(prog, j).use
      BY <2>0, UseFacts DEF UsesOwned
    <3>3. /\ PointOf(prog, j)[2] < Len(prog.code[PointOf(prog, j)[1]])
          /\ \A x \in Between(prog, e, j) \cup {e} : \A f \in Node(prog, x).def :
               Reaches(prog, x, f) # {} /\ Reaches(prog, x, f) \subseteq Node(prog, j).use
          /\ \A x : LiveAt(prog, u, x) => x \in Between(prog, e, j) \cup {j}
      BY <2>0, <3>1, <3>2, CarriedFacts
    <3>4. \A x \in Between(prog, e, j) \cup {j} :
             /\ PointOf(prog, x)[1] = PointOf(prog, j)[1]
             /\ PointOf(prog, x)[2] <= PointOf(prog, j)[2] /\ PointOf(prog, x)[2] \in Nat
      <4>1. PointOf(prog, j)[1] = PointOf(prog, e)[1]
        BY <2>0, <3>1, <3>2, CarriedFacts
      <4>2. \A x \in Ids(prog) : PointOf(prog, x)[2] \in Nat
        <5>1. \A b \in Blocks(prog) : Insts(prog, b) \subseteq Nat
          BY Shape
        <5> QED BY <5>1, NodeFacts
      <4> QED BY <4>1, <4>2 DEF Between
    <3>5. i # j
      <4>1. ASSUME i = j PROVE FALSE
        <5>1. PICK b, n : b = PointOf(prog, j)[1] /\ n = PointOf(prog, j)[2]
          OBVIOUS
        <5>2. b \in Blocks(prog) /\ n \in Insts(prog, b) /\ j = prog.code[b][n].id /\ n < Len(prog.code[b])
          BY <3>3, <5>1, NodeFacts DEF InstAt
        <5>3. Flow(prog, j) = {prog.code[b][n + 1].id}
          BY <5>2, FlowFacts
        <5>4. n + 1 \in Insts(prog, b) /\ n \in Nat
          BY <5>2, Shape
        <5>5. PointOf(prog, prog.code[b][n + 1].id) = <<b, n + 1>>
          <6>1. <<b, n + 1>> \in Points(prog) /\ InstAt(prog, <<b, n + 1>>) = prog.code[b][n + 1]
            BY <5>2, <5>4, PointFacts DEF InstAt
          <6> QED BY <6>1, PointFacts
        <5>6. LiveAt(prog, u, prog.code[b][n + 1].id)
          BY <1>8, <4>1, <5>3 DEF LiveAfter, LiveAt
        <5>7. PointOf(prog, prog.code[b][n + 1].id)[2] <= n
          BY <3>3, <3>4, <5>1, <5>6
        <5> QED BY <5>4, <5>5, <5>7
      <4> QED BY <4>1
    <3>6. i \in Between(prog, e, j) /\ a \in Between(prog, e, j) \cup {j}
      BY <1>8, <2>2, <3>3, <3>5
    <3>7. PICK v \in Reached(i, d) : v \in Node(prog, j).use
      BY <3>3, <3>6 DEF Reaches, Reached
    <3>8. LiveAt(prog, v, j) /\ LiveAt(prog, u, j)
      BY <3>2, <3>7, LiveClosed
    <3>9. NumberOf(j) <= intervals[l].end
      <4>1. PICK n \in DOMAIN webs : v \in webs[n].uses /\ NumberOf(j) <= intervals[n].end
        BY <1>6, <3>8
      <4>2. n = l
        BY <1>0, <2>4, <3>7, <4>1 DEF Operands
      <4> QED BY <4>1, <4>2
    <3>10. NumberOf(j) <= intervals[k].end
      <4>1. PICK n \in DOMAIN webs : u \in webs[n].uses /\ NumberOf(j) <= intervals[n].end
        BY <1>6, <3>8
      <4>2. n = k
        BY <1>0, <2>3, <4>1 DEF Operands
      <4> QED BY <4>1, <4>2
    <3>11. NumberOf(a) <= NumberOf(j)
      <4>1. CASE a = j
        BY <2>7, <4>1
      <4>2. CASE a # j
        <5>1. /\ PointOf(prog, a)[1] = PointOf(prog, j)[1]
              /\ PointOf(prog, a)[2] < PointOf(prog, j)[2]
          <6>1. PointOf(prog, j)[1] = PointOf(prog, e)[1]
            BY <2>0, <3>1, <3>2, CarriedFacts
          <6> QED BY <3>6, <4>2, <6>1 DEF Between
        <5>2. NumberOf(a) < NumberOf(j)
          BY <5>1, NodeFacts, NumberFacts DEF Above, NumberOf
        <5> QED BY <2>7, <5>2
      <4> QED BY <4>1, <4>2
    <3>12. intervals[l].start <= NumberOf(j)
      BY <2>4, <2>6, <2>7, <3>11
    <3> QED BY <2>7, <2>8, <2>10, <3>2, <3>9, <3>10, <3>12
  <2> QED BY <2>3, <2>9, <2>10
<1>9. ASSUME NEW d \in Node(prog, i).def, LiveAfter(prog, u, i), prog.reg[d] = prog.reg[u]
      PROVE  m[d] = m[u]
  <2>1. u \in AllUses(prog) /\ u \in DOMAIN prog.reg
    BY <1>9, LiveOfUse, UseFacts DEF LiveAfter, LiveAt
  <2>2. u \in Reached(i, d)
    BY <1>9, <2>1 DEF Reached
  <2>3. PICK k \in DOMAIN webs : d \in webs[k].defs /\ m[d] = rreg[k] /\ u \in webs[k].uses
    BY <1>7, <2>2
  <2> QED BY <1>1, <2>1, <2>3 DEF Operands
<1>10. LiveAt(prog, u, i) => m[u] \in Banks
  BY <1>3, <1>6
<1> QED BY <1>8, <1>9, <1>10

(***************************************************************************)
(* Slots.  Slot s keeps what register Rg[s] was given last; O tells in     *)
(* front of which instructions it is up to date.                           *)
(***************************************************************************)
Saved(p, n, Rg, O) ==
  /\ Rg \in [1 .. n -> ToSet(p.reg)]
  /\ \A i \in Ids(p) :
       /\ Node(p, i).kind = "load" =>
            /\ Node(p, i).slot \in 1 .. n /\ <<Node(p, i).slot, i>> \in O
            /\ \A d \in Node(p, i).def : p.reg[d] = Rg[Node(p, i).slot]
       /\ Node(p, i).kind = "store" =>
            /\ Node(p, i).slot \in 1 .. n /\ Node(p, i).def = {}
            /\ Max(Node(p, i).use) \in Node(p, i).use
            /\ p.reg[Max(Node(p, i).use)] = Rg[Node(p, i).slot]
       /\ \A j \in Flow(p, i) : \A s \in 1 .. n : <<s, j>> \in O =>
            \/ Node(p, i).kind = "store" /\ Node(p, i).slot = s
            \/ <<s, i>> \in O /\ ~ (Node(p, i).kind = "op" /\ Writes(p, i, Rg[s]))

FunctionRight(p, n) ==
  /\ WellFormed(p) /\ Tidy(p) /\ DefinedAbove(p)
  /\ n \in Nat /\ \E Rg, O : Saved(p, n, Rg, O)

(***************************************************************************)
(* The inductive invariant.                                                *)
(***************************************************************************)
Values == (0 .. prog.ids) \X {0, 1}

Typed ==
  /\ at \in Points(prog)
  /\ env \in [ToSet(prog.reg) -> Values]
  /\ machine \in [Banks -> Values]
  /\ frame \in [1 .. slots -> Values]

LiveAgree(i) == \A u : LiveAt(prog, u, i) => machine[mreg[u]] = env[prog.reg[u]]
SlotsAgree(i, Rg, O) == \A s \in 1 .. slots : <<s, i>> \in O => frame[s] = env[Rg[s]]

Agree ==
  /\ LiveAgree(Here.id)
  /\ \E Rg, O : Saved(prog, slots, Rg, O) /\ SlotsAgree(Here.id, Rg, O)

IInv ==
  /\ FunctionRight(prog, slots)
  /\ LVP!IInv
  /\ phase \in {"liveness", "intervals", "scan", "run", "halt"}
  /\ phase # "liveness" => lvpc = "done"
  /\ phase = "intervals" => ChainsRight
  /\ Len(webs) = Len(intervals)
  /\ phase \in {"scan", "run", "halt"} => WebsRight /\ LSP!IInv
  /\ phase \in {"run", "halt"} => Succeeded /\ Mapped /\ Typed
  /\ phase = "run" => Agree
-----------------------------------------------------------------------------
(***************************************************************************)
(* Running.                                                                *)
(***************************************************************************)

\* HereFacts: the instruction that is executed.
LEMMA HereFacts ==
  ASSUME WellFormed(prog), at \in Points(prog)
  PROVE  Here.id \in Ids(prog) /\ Node(prog, Here.id) = Here /\ Here \in Instruction
BY PointFacts DEF Here

\* FollowFacts: the next one is reached by the flow of control.
LEMMA FollowFacts ==
  ASSUME WellFormed(prog), at \in Points(prog), phase = "run", Follow
  PROVE  /\ at' \in Points(prog) /\ phase' \in {"run", "halt"}
         /\ phase' = "run" => InstAt(prog, at').id \in Flow(prog, Here.id)
<1>1. PICK b \in Blocks(prog) : \E k \in Insts(prog, b) : at = <<b, k>>
  BY PointFacts
<1>2. PICK k \in Insts(prog, b) : at = <<b, k>>
  BY <1>1
<1>3. at[1] = b /\ at[2] = k /\ Here.id = prog.code[b][k].id
  BY <1>2 DEF Here, InstAt
<1>4. Flow(prog, Here.id) = IF k < Len(prog.code[b]) THEN {prog.code[b][k + 1].id}
                            ELSE {First(prog, s) : s \in prog.succ[b]}
  BY <1>3, FlowFacts
<1>5. CASE k < Len(prog.code[b])
  <2>1. at' = <<b, k + 1>> /\ phase' = phase
    BY <1>3, <1>5 DEF Follow
  <2>2. k + 1 \in Insts(prog, b)
    BY <1>5, Shape
  <2>3. at' \in Points(prog)
    BY <2>1, <2>2, PointFacts
  <2>4. InstAt(prog, at').id = prog.code[b][k + 1].id
    BY <2>1 DEF InstAt
  <2> QED BY <1>4, <1>5, <2>1, <2>3, <2>4
<1>6. CASE ~ (k < Len(prog.code[b]))
  <2>1. CASE prog.succ[b] = {}
    BY <1>3, <1>6, <2>1 DEF Follow
  <2>2. CASE prog.succ[b] # {}
    <3>1. PICK s \in prog.succ[b] : at' = <<s, 1>> /\ phase' = phase
      BY <1>3, <1>6, <2>2 DEF Follow
    <3>2. s \in Blocks(prog) /\ 1 \in Insts(prog, s)
      BY Shape
    <3>3. at' \in Points(prog)
      BY <3>1, <3>2, PointFacts
    <3>4. InstAt(prog, at').id = First(prog, s)
      BY <3>1 DEF InstAt, First
    <3> QED BY <1>4, <1>6, <3>1, <3>3, <3>4
  <2> QED BY <2>1, <2>2
<1> QED BY <1>5, <1>6

\* OpEffect: an operation gives its register and its virtual register one
\* value; the live values of others stay.
LEMMA OpEffect ==
  ASSUME IInv, phase = "run", ExecuteOp
  PROVE  /\ env' \in [ToSet(prog.reg) -> Values] /\ machine' \in [Banks -> Values]
         /\ frame' = frame
         /\ \A j \in Flow(prog, Here.id) :
              /\ \A u : LiveAt(prog, u, j) => machine'[mreg[u]] = env'[prog.reg[u]]
              /\ \A Rg, O : Saved(prog, slots, Rg, O) /\ SlotsAgree(Here.id, Rg, O) =>
                   \A s \in 1 .. slots : <<s, j>> \in O => frame'[s] = env'[Rg[s]]
<1> DEFINE i == Here.id
<1>1. /\ WellFormed(prog) /\ Tidy(prog) /\ WebsRight /\ LSP!IInv /\ Succeeded /\ Mapped /\ Typed
      /\ LiveAgree(i)
  BY DEF IInv, FunctionRight, Agree
<1>2. i \in Ids(prog) /\ Node(prog, i) = Here /\ Here.kind = "op"
  BY <1>1, HereFacts DEF Typed, ExecuteOp
<1>3. /\ Here.def \subseteq DOMAIN prog.reg /\ \A d, e \in Here.def : d = e
      /\ i \in 1 .. prog.ids /\ prog.ids \in Nat
  BY <1>1, <1>2, NodeFacts, OperandFacts
<1>4. \A o \in DOMAIN prog.reg : prog.reg[o] \in ToSet(prog.reg)
  BY DEF ToSet
<1>5. \A d : Fresh(d) \in Values
  BY <1>3 DEF Fresh, Values
<1>6. /\ env' = [r \in ToSet(prog.reg) |->
                   IF \E d \in Here.def : prog.reg[d] = r
                   THEN Fresh(CHOOSE d \in Here.def : prog.reg[d] = r) ELSE env[r]]
      /\ machine' = [m \in Banks |->
                       IF \E d \in Here.def : mreg[d] = m
                       THEN Fresh(CHOOSE d \in Here.def : mreg[d] = m) ELSE machine[m]]
      /\ frame' = frame
  <2>1. DOMAIN env = ToSet(prog.reg) /\ DOMAIN machine = Banks
    BY <1>1 DEF Typed
  <2> QED BY <2>1 DEF ExecuteOp
<1>7. env' \in [ToSet(prog.reg) -> Values] /\ machine' \in [Banks -> Values]
  <2>1. \A r \in ToSet(prog.reg) : env[r] \in Values
    BY <1>1 DEF Typed
  <2>2. \A m \in Banks : machine[m] \in Values
    BY <1>1 DEF Typed
  <2> QED BY <1>5, <1>6, <2>1, <2>2
<1>8. ASSUME NEW j \in Flow(prog, i), NEW u, LiveAt(prog, u, j)
      PROVE  machine'[mreg[u]] = env'[prog.reg[u]]
  <2>0. j \in Ids(prog) /\ LiveAfter(prog, u, i) /\ u \in DOMAIN prog.reg /\ prog.reg[u] \in ToSet(prog.reg)
    BY <1>1, <1>4, <1>8, LiveOfUse, UseFacts DEF LiveAfter, LiveAt
  <2>1. mreg[u] \in Banks
    BY <1>1, <1>8, <2>0, MappedFacts DEF Mapped
  <2>2. CASE \E d \in Here.def : prog.reg[d] = prog.reg[u]
    <3>1. PICK d \in Here.def : prog.reg[d] = prog.reg[u]
      BY <2>2
    <3>2. mreg[d] = mreg[u]
      BY <1>1, <1>2, <2>0, <3>1, MappedFacts DEF Mapped
    <3>3. (CHOOSE e \in Here.def : prog.reg[e] = prog.reg[u]) = d
      BY <1>3, <3>1
    <3>4. (CHOOSE e \in Here.def : mreg[e] = mreg[u]) = d
      BY <1>3, <3>2
    <3>5. env'[prog.reg[u]] = Fresh(d)
      BY <1>6, <2>0, <2>2, <3>3
    <3>6. machine'[mreg[u]] = Fresh(d)
      BY <1>6, <2>1, <3>2, <3>4
    <3> QED BY <3>5, <3>6
  <2>3. CASE ~ \E d \in Here.def : prog.reg[d] = prog.reg[u]
    <3>1. LiveAt(prog, u, i)
      BY <1>1, <1>2, <2>0, <2>3, LiveClosed DEF Writes
    <3>2. \A d \in Here.def : mreg[d] # mreg[u]
      BY <1>1, <1>2, <2>0, <2>3, <3>1, MappedFacts DEF Mapped
    <3>3. env'[prog.reg[u]] = env[prog.reg[u]] /\ machine'[mreg[u]] = machine[mreg[u]]
      BY <1>6, <2>0, <2>1, <2>3, <3>2
    <3> QED BY <1>1, <3>1, <3>3 DEF LiveAgree
  <2> QED BY <2>2, <2>3
<1>9. ASSUME NEW j \in Flow(prog, i), NEW Rg, NEW O, Saved(prog, slots, Rg, O), SlotsAgree(i, Rg, O),
             NEW s \in 1 .. slots, <<s, j>> \in O
      PROVE  frame'[s] = env'[Rg[s]]
  <2>1. <<s, i>> \in O /\ ~Writes(prog, i, Rg[s]) /\ Rg[s] \in ToSet(prog.reg)
    BY <1>2, <1>9 DEF Saved
  <2>2. env'[Rg[s]] = env[Rg[s]]
    BY <1>2, <1>6, <2>1 DEF Writes
  <2> QED BY <1>6, <1>9, <2>1, <2>2 DEF SlotsAgree
<1>10. frame' = frame
  BY <1>6
<1> QED BY <1>7, <1>8, <1>9, <1>10

\* LoadEffect: a load brings the value of the virtual register back.
LEMMA LoadEffect ==
  ASSUME IInv, phase = "run", ExecuteLoad
  PROVE  /\ env' = env /\ machine' \in [Banks -> Values] /\ frame' = frame
         /\ \A j \in Flow(prog, Here.id) :
              /\ \A u : LiveAt(prog, u, j) => machine'[mreg[u]] = env'[prog.reg[u]]
              /\ \A Rg, O : Saved(prog, slots, Rg, O) /\ SlotsAgree(Here.id, Rg, O) =>
                   \A s \in 1 .. slots : <<s, j>> \in O => frame'[s] = env'[Rg[s]]
<1> DEFINE i == Here.id
<1>1. /\ WellFormed(prog) /\ Tidy(prog) /\ WebsRight /\ LSP!IInv /\ Succeeded /\ Mapped /\ Typed
      /\ LiveAgree(i)
  BY DEF IInv, FunctionRight, Agree
<1>2. i \in Ids(prog) /\ Node(prog, i) = Here /\ Here.kind = "load"
  BY <1>1, HereFacts DEF Typed, ExecuteLoad
<1>3. PICK R, Q : Saved(prog, slots, R, Q) /\ SlotsAgree(i, R, Q)
  BY DEF IInv, Agree
<1>4. /\ Here.slot \in 1 .. slots /\ <<Here.slot, i>> \in Q
      /\ \A d \in Here.def : prog.reg[d] = R[Here.slot]
  BY <1>2, <1>3 DEF Saved
<1>5. frame[Here.slot] = env[R[Here.slot]] /\ frame[Here.slot] \in Values
  BY <1>1, <1>3, <1>4 DEF SlotsAgree, Typed
<1>6. /\ env' = env /\ frame' = frame
      /\ machine' = [m \in Banks |->
                       IF \E d \in Here.def : mreg[d] = m THEN frame[Here.slot] ELSE machine[m]]
  <2>1. DOMAIN machine = Banks
    BY <1>1 DEF Typed
  <2> QED BY <2>1 DEF ExecuteLoad
<1>7. machine' \in [Banks -> Values]
  <2>1. \A m \in Banks : machine[m] \in Values
    BY <1>1 DEF Typed
  <2> QED BY <1>5, <1>6, <2>1
<1>8. ASSUME NEW j \in Flow(prog, i), NEW u, LiveAt(prog, u, j)
      PROVE  machine'[mreg[u]] = env'[prog.reg[u]]
  <2>0. j \in Ids(prog) /\ LiveAfter(prog, u, i)
    BY <1>1, <1>8, LiveOfUse DEF LiveAfter, LiveAt
  <2>1. mreg[u] \in Banks
    BY <1>1, <1>8, <2>0, MappedFacts DEF Mapped
  <2>2. CASE \E d \in Here.def : prog.reg[d] = prog.reg[u]
    <3>1. PICK d \in Here.def : prog.reg[d] = prog.reg[u]
      BY <2>2
    <3>2. mreg[d] = mreg[u]
      BY <1>1, <1>2, <2>0, <3>1, MappedFacts DEF Mapped
    <3>3. machine'[mreg[u]] = frame[Here.slot]
      BY <1>6, <2>1, <3>2
    <3> QED BY <1>4, <1>5, <1>6, <3>1, <3>3
  <2>3. CASE ~ \E d \in Here.def : prog.reg[d] = prog.reg[u]
    <3>1. LiveAt(prog, u, i)
      BY <1>1, <1>2, <2>0, <2>3, LiveClosed DEF Writes
    <3>2. \A d \in Here.def : mreg[d] # mreg[u]
      BY <1>1, <1>2, <2>0, <2>3, <3>1, MappedFacts DEF Mapped
    <3>3. machine'[mreg[u]] = machine[mreg[u]]
      BY <1>6, <2>1, <3>2
    <3> QED BY <1>1, <1>6, <3>1, <3>3 DEF LiveAgree
  <2> QED BY <2>2, <2>3
<1>9. ASSUME NEW j \in Flow(prog, i), NEW Rg, NEW O, Saved(prog, slots, Rg, O), SlotsAgree(i, Rg, O),
             NEW s \in 1 .. slots, <<s, j>> \in O
      PROVE  frame'[s] = env'[Rg[s]]
  <2>1. <<s, i>> \in O
    BY <1>2, <1>9 DEF Saved
  <2> QED BY <1>6, <1>9, <2>1 DEF SlotsAgree
<1> QED BY <1>6, <1>7, <1>8, <1>9

\* StoreEffect: a store brings the slot up to date.
LEMMA StoreEffect ==
  ASSUME IInv, phase = "run", ExecuteStore
  PROVE  /\ env' = env /\ machine' = machine /\ frame' \in [1 .. slots -> Values]
         /\ \A j \in Flow(prog, Here.id) :
              /\ \A u : LiveAt(prog, u, j) => machine'[mreg[u]] = env'[prog.reg[u]]
              /\ \A Rg, O : Saved(prog, slots, Rg, O) /\ SlotsAgree(Here.id, Rg, O) =>
                   \A s \in 1 .. slots : <<s, j>> \in O => frame'[s] = env'[Rg[s]]
<1> DEFINE i == Here.id
           v == Max(Here.use)
<1>1. /\ WellFormed(prog) /\ Tidy(prog) /\ WebsRight /\ LSP!IInv /\ Succeeded /\ Mapped /\ Typed
      /\ LiveAgree(i)
  BY DEF IInv, FunctionRight, Agree
<1>2. i \in Ids(prog) /\ Node(prog, i) = Here /\ Here.kind = "store"
  BY <1>1, HereFacts DEF Typed, ExecuteStore
<1>3. PICK R, Q : Saved(prog, slots, R, Q)
  BY DEF IInv, Agree
<1>4. Here.slot \in 1 .. slots /\ Here.def = {} /\ v \in Here.use
  BY <1>2, <1>3 DEF Saved
<1>5. LiveAt(prog, v, i)
  BY <1>1, <1>2, <1>4, LiveClosed
<1>6. mreg[v] \in Banks /\ machine[mreg[v]] = env[prog.reg[v]]
  BY <1>1, <1>2, <1>5, MappedFacts DEF Mapped, LiveAgree
<1>7. env' = env /\ machine' = machine /\ frame' = [frame EXCEPT ![Here.slot] = machine[mreg[v]]]
  BY DEF ExecuteStore
<1>8. frame' \in [1 .. slots -> Values] /\ frame'[Here.slot] = machine[mreg[v]]
      /\ \A s \in 1 .. slots : s # Here.slot => frame'[s] = frame[s]
  <2>1. machine[mreg[v]] \in Values /\ frame \in [1 .. slots -> Values]
    BY <1>1, <1>6 DEF Typed
  <2> QED BY <1>4, <1>7, <2>1
<1>9. ASSUME NEW j \in Flow(prog, i), NEW u, LiveAt(prog, u, j)
      PROVE  machine'[mreg[u]] = env'[prog.reg[u]]
  <2>1. LiveAt(prog, u, i)
    BY <1>1, <1>2, <1>4, <1>9, LiveClosed DEF Writes, LiveAfter, LiveAt
  <2> QED BY <1>1, <1>7, <2>1 DEF LiveAgree
<1>10. ASSUME NEW j \in Flow(prog, i), NEW Rg, NEW O, Saved(prog, slots, Rg, O), SlotsAgree(i, Rg, O),
              NEW s \in 1 .. slots, <<s, j>> \in O
       PROVE  frame'[s] = env'[Rg[s]]
  <2>1. CASE s = Here.slot
    <3>1. prog.reg[v] = Rg[s]
      BY <1>2, <1>10, <2>1 DEF Saved
    <3> QED BY <1>6, <1>7, <1>8, <2>1, <3>1
  <2>2. CASE s # Here.slot
    <3>1. <<s, i>> \in O
      BY <1>2, <1>10, <2>2 DEF Saved
    <3> QED BY <1>7, <1>8, <1>10, <2>2, <3>1 DEF SlotsAgree
  <2> QED BY <2>1, <2>2
<1> QED BY <1>7, <1>8, <1>9, <1>10

(***************************************************************************)
(* What a step leaves alone.                                               *)
(***************************************************************************)

\* ScanAssumptions: LinearScanProofs may be used for the rounds.
LEMMA ScanAssumptions ==
  /\ \A w \in {w \in Seq(LS!Interval) : LS!SortedByStart(w)} :
       w \in Seq(LSP!Interval) /\ LSP!SortedByStart(w)
  /\ IntRegs \in Seq(1 .. 11 - 1) /\ FpRegs \in Seq(Nat \ (0 .. 11 - 1))
  /\ IntRegs # << >> /\ FpRegs # << >>
  /\ LSP!IsInjective(IntRegs) /\ LSP!IsInjective(FpRegs)
<1>1. LS!Interval = LSP!Interval /\ \A w : LS!SortedByStart(w) <=> LSP!SortedByStart(w)
  BY DEF LS!Interval, LSP!Interval, LS!SortedByStart, LSP!SortedByStart
<1>2. \A f : IsInjective(f) <=> LSP!IsInjective(f)
  BY DEF IsInjective, LSP!IsInjective
<1>3. IntRegs # << >> /\ FpRegs # << >>
  BY BanksAssumption
<1> QED BY <1>1, <1>2, <1>3, BanksAssumption DEF LS!FirstFpReg

\* WebsKept: the part of the invariant about webs only looks at these.
LEMMA WebsKept ==
  ASSUME WebsRight, UNCHANGED <<prog, webs, intervals>> PROVE WebsRight'
<1>1. prog' = prog /\ webs' = webs /\ intervals' = intervals
  OBVIOUS
<1>2. \A i : (NumberOf(i))' = NumberOf(i)
  BY <1>1 DEF NumberOf, Number
<1>3. \A u : (Awaited(u))' <=> Awaited(u)
  BY <1>1 DEF Awaited
<1>4. \A i, d : (Reached(i, d))' = Reached(i, d)
  BY <1>1 DEF Reached
<1> QED BY <1>1, <1>2, <1>3, <1>4 DEF WebsRight, Operands

\* ScanKept: the same of the part about the scan.
LEMMA ScanKept ==
  ASSUME LSP!IInv, UNCHANGED lsVars PROVE LSP!IInv'
<1>1. UNCHANGED LSP!vars
  BY DEF lsVars, LSP!vars
<1> QED BY <1>1, ScanAssumptions, LSP!StutterKeepsIInv DEF LSP!FirstFpReg

\* AnalysisKept: the same of the part about the analysis.
LEMMA AnalysisKept ==
  ASSUME LVP!IInv, UNCHANGED <<prog, lvVars>> PROVE LVP!IInv'
<1>1. UNCHANGED <<prog, LVP!lvVars>>
  BY DEF lvVars, LVP!lvVars
<1> QED BY <1>1, LVP!IInvStep

\* RunKeeps: running the code keeps registers and slots in agreement.
LEMMA RunKeeps ==
  ASSUME IInv, Run PROVE IInv'
<1>1. /\ FunctionRight(prog, slots) /\ WellFormed(prog) /\ LVP!IInv /\ lvpc = "done"
      /\ Len(webs) = Len(intervals) /\ WebsRight /\ LSP!IInv /\ Succeeded /\ Mapped /\ Typed
      /\ phase = "run"
  BY DEF IInv, FunctionRight, Run
<1>2. UNCHANGED <<prog, lvVars, lsVars, du_chains, webs, slots, mreg>>
  BY DEF Run
<1>3. /\ at' \in Points(prog) /\ phase' \in {"run", "halt"}
      /\ phase' = "run" => InstAt(prog, at').id \in Flow(prog, Here.id)
  BY <1>1, FollowFacts DEF Run, Typed
<1>4. /\ env' \in [ToSet(prog.reg) -> Values] /\ machine' \in [Banks -> Values]
      /\ frame' \in [1 .. slots -> Values]
      /\ \A j \in Flow(prog, Here.id) :
           /\ \A u : LiveAt(prog, u, j) => machine'[mreg[u]] = env'[prog.reg[u]]
           /\ \A Rg, O : Saved(prog, slots, Rg, O) /\ SlotsAgree(Here.id, Rg, O) =>
                \A s \in 1 .. slots : <<s, j>> \in O => frame'[s] = env'[Rg[s]]
  <2>1. CASE ExecuteOp
    BY <1>1, <2>1, OpEffect DEF Typed
  <2>2. CASE ExecuteLoad
    BY <1>1, <2>2, LoadEffect DEF Typed
  <2>3. CASE ExecuteStore
    BY <1>1, <2>3, StoreEffect DEF Typed
  <2> QED BY <2>1, <2>2, <2>3 DEF Run
<1>5. Typed'
  <2>1. (Points(prog))' = Points(prog) /\ (ToSet(prog.reg))' = ToSet(prog.reg)
        /\ Values' = Values /\ Banks' = Banks
    BY <1>2 DEF Values, Banks
  <2> QED BY <1>2, <1>3, <1>4, <2>1 DEF Typed
<1>6. phase' = "run" => Agree'
  <2> SUFFICES ASSUME phase' = "run" PROVE Agree'
    OBVIOUS
  <2>1. PICK j \in Flow(prog, Here.id) : j = InstAt(prog, at').id
    BY <1>3
  <2>2. Agree
    BY <1>1 DEF IInv
  <2>3. PICK Rg, O : Saved(prog, slots, Rg, O) /\ SlotsAgree(Here.id, Rg, O)
    BY <2>2 DEF Agree
  <2>4. Here'.id = j
    BY <1>2, <2>1 DEF Here
  <2>5. \A u : LiveAt(prog, u, j) => machine'[mreg[u]] = env'[prog.reg[u]]
    BY <1>4
  <2>6. \A s \in 1 .. slots : <<s, j>> \in O => frame'[s] = env'[Rg[s]]
    BY <1>4, <2>3
  <2>7. (LiveAgree(Here.id))'
    BY <1>2, <2>4, <2>5 DEF LiveAgree
  <2>8. (Saved(prog, slots, Rg, O))' /\ (SlotsAgree(Here.id, Rg, O))'
    BY <1>2, <2>3, <2>4, <2>6 DEF SlotsAgree
  <2> QED BY <2>7, <2>8 DEF Agree
<1>7. WebsRight' /\ LSP!IInv' /\ LVP!IInv'
  <2>1. UNCHANGED <<prog, webs, intervals>> /\ UNCHANGED lsVars /\ UNCHANGED <<prog, lvVars>>
    BY <1>2 DEF lsVars
  <2> QED BY <1>1, <2>1, WebsKept, ScanKept, AnalysisKept
<1>8. Mapped' /\ Succeeded'
  BY <1>1, <1>2 DEF Mapped, Succeeded, RegisterOf, lsVars
<1>9. FunctionRight(prog, slots)'
  BY <1>1, <1>2
<1> QED BY <1>1, <1>2, <1>3, <1>5, <1>6, <1>7, <1>8, <1>9 DEF IInv, lsVars, lvVars

(***************************************************************************)
(* genSpillCode makes its accesses one after the other.                    *)
(***************************************************************************)
Order == Ascending(Accesses, {x \in Accesses \X Accesses : InOrder(x[1], x[2])})

\* SpillSteps: there is a sequence of functions from prog to SpillCode.
LEMMA SpillSteps ==
  ASSUME Len(Order) \in Nat
  PROVE  \E f : /\ f[0] = prog /\ f[Len(Order)] = SpillCode
                /\ \A n \in 1 .. Len(Order) : f[n] = SpillOperand(f[n - 1], Order[n])
<1> DEFINE N == Len(Order)
           Steps(f, k) == f = [n \in 0 .. k |-> IF n = 0 THEN prog ELSE SpillOperand(f[n - 1], Order[n])]
           after == CHOOSE f : Steps(f, N)
           Bad == {k \in 0 .. N : ~ \E f : Steps(f, k)}
<1>1. ASSUME Bad # {} PROVE FALSE
  <2>1. Bad \in SUBSET Nat
    OBVIOUS
  <2> HIDE DEF Bad
  <2>2. PICK k \in Bad : \A l \in Bad : k <= l
    BY <1>1, <2>1, NatMinimum
  <2>3. k \in 0 .. N /\ ~ \E f : Steps(f, k)
    BY <2>2 DEF Bad
  <2>4. CASE k = 0
    <3> DEFINE g == [n \in 0 .. 0 |-> prog]
    <3>1. Steps(g, 0)
      OBVIOUS
    <3> QED BY <2>3, <2>4, <3>1
  <2>5. CASE k # 0
    <3>1. k - 1 \in 0 .. N /\ ~ (k <= k - 1)
      BY <2>3, <2>5
    <3>2. PICK g : Steps(g, k - 1)
      BY <2>2, <3>1 DEF Bad
    <3> DEFINE h == [n \in 0 .. k |-> IF n = k THEN SpillOperand(g[k - 1], Order[k]) ELSE g[n]]
    <3>3. Steps(h, k)
      <4>1. ASSUME NEW n \in 0 .. k
            PROVE  h[n] = IF n = 0 THEN prog ELSE SpillOperand(h[n - 1], Order[n])
        <5>1. CASE n = k
          <6>1. k - 1 \in 0 .. k /\ k - 1 # k
            BY <2>3, <2>5
          <6>2. h[k - 1] = g[k - 1]
            BY <6>1
          <6> QED BY <2>5, <5>1, <6>2
        <5>2. CASE n # k
          <6>1. n \in 0 .. k - 1
            BY <2>3, <5>2
          <6>2. h[n] = g[n] /\ g[n] = IF n = 0 THEN prog ELSE SpillOperand(g[n - 1], Order[n])
            BY <3>2, <5>2, <6>1
          <6>3. n # 0 => n - 1 \in 0 .. k /\ n - 1 # k
            BY <2>3, <6>1
          <6>4. n # 0 => h[n - 1] = g[n - 1]
            BY <6>3
          <6> QED BY <6>2, <6>4
        <5> QED BY <5>1, <5>2
      <4>2. h = [n \in 0 .. k |-> h[n]]
        OBVIOUS
      <4> HIDE DEF h
      <4> QED BY <4>1, <4>2
    <3> HIDE DEF h, Steps
    <3> QED BY <2>3, <3>3
  <2> QED BY <2>4, <2>5
<1>2. Steps(after, N)
  <2>1. \E f : Steps(f, N)
    <3>1. N \in 0 .. N
      OBVIOUS
    <3> QED BY <1>1, <3>1
  <2> HIDE DEF Steps
  <2> QED BY <2>1
<1>3. SpillCode = after[N]
  BY DEF SpillCode, Order
<1>4. /\ after[0] = prog
      /\ \A n \in 1 .. N : after[n] = SpillOperand(after[n - 1], Order[n])
  <2>1. 0 \in 0 .. N /\ \A n \in 1 .. N : n \in 0 .. N /\ n # 0
    OBVIOUS
  <2> HIDE DEF after
  <2> QED BY <1>2, <2>1
<1> HIDE DEF after
<1> QED BY <1>3, <1>4

(***************************************************************************)
(* Sequences of a known length, put together and cut.                      *)
(***************************************************************************)
Sized(s, T, n) == s \in Seq(T) /\ Len(s) = n /\ n \in Nat

\* SizedFacts: the places and the elements of such a sequence.
LEMMA SizedFacts ==
  ASSUME NEW T, NEW s, NEW n
  PROVE  /\ Sized(s, T, n) => n \in Nat /\ DOMAIN s = 1 .. n /\ \A i \in 1 .. n : s[i] \in T
         /\ n \in Nat /\ s \in [1 .. n -> T] => Sized(s, T, n)
<1>1. ASSUME Sized(s, T, n) PROVE n \in Nat /\ DOMAIN s = 1 .. n /\ \A i \in 1 .. n : s[i] \in T
  BY <1>1, LenProperties, ElementOfSeq DEF Sized
<1>2. ASSUME n \in Nat, s \in [1 .. n -> T] PROVE Sized(s, T, n)
  <2>1. s \in Seq(T)
    BY <1>2, SeqDef
  <2>2. DOMAIN s = 1 .. Len(s) /\ Len(s) \in Nat /\ DOMAIN s = 1 .. n
    BY <1>2, <2>1, LenProperties
  <2> QED BY <1>2, <2>1, <2>2 DEF Sized
<1> QED BY <1>1, <1>2

Cat(q, s) == q \o s

\* Joined: two sequences in a row.
LEMMA Joined ==
  ASSUME NEW T, NEW q, NEW s, NEW l \in Nat, NEW k \in Nat, Sized(q, T, l), Sized(s, T, k)
  PROVE  /\ Sized(Cat(q, s), T, l + k)
         /\ \A i \in 1 .. l : Cat(q, s)[i] = q[i]
         /\ \A i \in 1 .. k : Cat(q, s)[l + i] = s[i]
<1>1. l \in Nat /\ k \in Nat /\ q \in Seq(T) /\ s \in Seq(T) /\ Len(q) = l /\ Len(s) = k
  BY DEF Sized
<1>2. Cat(q, s) \in Seq(T) /\ Len(Cat(q, s)) = l + k
      /\ \A i \in 1 .. l + k : Cat(q, s)[i] = IF i <= l THEN q[i] ELSE s[i - l]
  BY <1>1, ConcatProperties DEF Cat
<1>3. Sized(Cat(q, s), T, l + k)
  BY <1>1, <1>2 DEF Sized
<1> QED BY <1>1, <1>2, <1>3

Spliced(s, new, n) == SubSeq(s, 1, n) \o new \o SubSeq(s, n + 1, Len(s))

IsCut(t, T, s, l, new, k, n) ==
  /\ Sized(t, T, l + k)
  /\ \A i \in 1 .. n : t[i] = s[i]
  /\ \A i \in 1 .. k : t[n + i] = new[i]
  /\ \A i \in n + 1 .. l : t[i + k] = s[i]

\* Cutting: a sequence with another one put into it.
LEMMA Cutting ==
  ASSUME NEW T, NEW s, NEW new, NEW l \in Nat, NEW k \in Nat, Sized(s, T, l), Sized(new, T, k),
         NEW n \in Nat, n <= l
  PROVE  IsCut(Spliced(s, new, n), T, s, l, new, k, n)
<1>0. PICK t : t = Spliced(s, new, n)
  OBVIOUS
<1> DEFINE u == SubSeq(s, 1, n)
           v == SubSeq(s, n + 1, l)
<1>1. l \in Nat /\ k \in Nat /\ n \in Nat /\ n <= l
  BY DEF Sized
<1>2. \A i \in 1 .. l : s[i] \in T
  BY SizedFacts
<1>3. Sized(u, T, n) /\ \A i \in 1 .. n : u[i] = s[i]
  <2>1. \A i \in 1 .. n : s[i] \in T
    BY <1>1, <1>2
  <2>2. /\ u \in Seq(T) /\ Len(u) = IF 1 <= n THEN n - 1 + 1 ELSE 0
        /\ \A i \in 1 .. n - 1 + 1 : u[i] = s[1 + i - 1]
    BY <1>1, <2>1, SubSeqProperties
  <2> HIDE DEF u
  <2> QED BY <1>1, <2>2 DEF Sized
<1>4. Sized(v, T, l - n) /\ \A i \in 1 .. l - n : v[i] = s[n + i]
  <2>1. \A i \in n + 1 .. l : s[i] \in T
    BY <1>1, <1>2
  <2>2. /\ v \in Seq(T) /\ Len(v) = IF n + 1 <= l THEN l - (n + 1) + 1 ELSE 0
        /\ \A i \in 1 .. l - (n + 1) + 1 : v[i] = s[(n + 1) + i - 1]
    BY <1>1, <2>1, SubSeqProperties
  <2> HIDE DEF v
  <2> QED BY <1>1, <2>2 DEF Sized
<1>5. t = Cat(Cat(u, new), v)
  BY <1>0 DEF Spliced, Sized, Cat
<1> HIDE DEF u, v
<1>6. PICK w : w = Cat(u, new)
  OBVIOUS
<1>7. /\ Sized(w, T, n + k)
      /\ \A i \in 1 .. n : w[i] = u[i]
      /\ \A i \in 1 .. k : w[n + i] = new[i]
  BY <1>1, <1>3, <1>6, Joined
<1>8. /\ Sized(t, T, (n + k) + (l - n))
      /\ \A i \in 1 .. n + k : t[i] = w[i]
      /\ \A i \in 1 .. l - n : t[(n + k) + i] = v[i]
  BY <1>1, <1>4, <1>5, <1>6, <1>7, Joined
<1>9. ASSUME NEW i \in 1 .. k PROVE t[n + i] = new[i]
  <2>1. n + i \in 1 .. n + k
    BY <1>1
  <2> QED BY <1>7, <1>8, <2>1
<1>10. ASSUME NEW i \in n + 1 .. l PROVE t[i + k] = s[i]
  <2>1. i - n \in 1 .. l - n /\ (n + k) + (i - n) = i + k /\ n + (i - n) = i
    BY <1>1
  <2>2. t[(n + k) + (i - n)] = v[i - n] /\ v[i - n] = s[n + (i - n)]
    BY <1>4, <1>8, <2>1
  <2> QED BY <2>1, <2>2
<1>11. \A i \in 1 .. n : t[i] = s[i]
  <2>1. \A i \in 1 .. n : i \in 1 .. n + k
    BY <1>1
  <2> QED BY <1>3, <1>7, <1>8, <2>1
<1>12. Sized(t, T, l + k)
  <2>1. (n + k) + (l - n) = l + k
    BY <1>1
  <2> QED BY <1>8, <2>1
<1> QED BY <1>0, <1>9, <1>10, <1>11, <1>12 DEF IsCut

\* Halves, RegistersAdded, ParentsAdded: the operand objects of an access, in
\* order of their creation.
LEMMA Halves ==
  /\ 1 \div 2 = 0 /\ 2 \div 2 = 1 /\ 3 \div 2 = 1 /\ 4 \div 2 = 2 /\ 5 \div 2 = 2 /\ 6 \div 2 = 3
OBVIOUS

NewRegs(m, l, r) ==
  [i \in 1 .. 2 * m + 1 |-> IF i = 2 * m + 1 THEN r ELSE l + (i + 1) \div 2]
NewParents(m, l) == [i \in 1 .. 2 * m + 1 |-> l + 1 + i \div 2]

\* RegistersAdded: the registers of the operands an access creates.
LEMMA RegistersAdded ==
  ASSUME NEW m \in 0 .. 2, NEW l \in Nat, NEW r \in Nat
  PROVE  /\ Sized(NewRegs(m, l, r), Nat, 2 * m + 1) /\ NewRegs(m, l, r)[2 * m + 1] = r
         /\ \A k \in 1 .. m : NewRegs(m, l, r)[2 * k - 1] = l + k /\ NewRegs(m, l, r)[2 * k] = l + k
<1>0. PICK s : s = NewRegs(m, l, r)
  OBVIOUS
<1> DEFINE n == 2 * m + 1
<1>1. DOMAIN s = 1 .. n /\ s = [i \in 1 .. n |-> s[i]]
      /\ \A i \in 1 .. n : s[i] = IF i = n THEN r ELSE l + (i + 1) \div 2
  BY <1>0 DEF NewRegs
<1>2. \A i \in 1 .. n : (i + 1) \div 2 \in Nat
  <2>1. \A i \in 1 .. n : i \in {1, 2, 3, 4, 5}
    OBVIOUS
  <2> QED BY <2>1, Halves
<1>3. \A i \in 1 .. n : s[i] \in Nat
  BY <1>1, <1>2
<1>4. s \in [1 .. n -> Nat] /\ n \in Nat
  BY <1>1, <1>3
<1>5. Sized(s, Nat, n)
  <2> HIDE DEF n
  <2> QED BY <1>4, SizedFacts
<1>6. \A k \in 1 .. m : /\ k \in {1, 2} /\ 2 * k - 1 \in 1 .. n /\ 2 * k \in 1 .. n
                        /\ 2 * k - 1 # n /\ 2 * k # n
  OBVIOUS
<1>7. \A k \in {1, 2} : ((2 * k - 1) + 1) \div 2 = k /\ (2 * k + 1) \div 2 = k
  BY Halves
<1>8. n \in 1 .. n
  OBVIOUS
<1>9. \A k \in 1 .. m : s[2 * k - 1] = l + k /\ s[2 * k] = l + k
  BY <1>1, <1>6, <1>7
<1> QED BY <1>0, <1>1, <1>5, <1>8, <1>9

\* ParentsAdded: and their parents.
LEMMA ParentsAdded ==
  ASSUME NEW m \in 0 .. 2, NEW l \in Nat
  PROVE  /\ Sized(NewParents(m, l), Nat, 2 * m + 1) /\ NewParents(m, l)[2 * m + 1] = l + m + 1
         /\ \A k \in 1 .. m : NewParents(m, l)[2 * k - 1] = l + k /\ NewParents(m, l)[2 * k] = l + k + 1
<1>0. PICK t : t = NewParents(m, l)
  OBVIOUS
<1> DEFINE n == 2 * m + 1
<1>1. DOMAIN t = 1 .. n /\ t = [i \in 1 .. n |-> t[i]]
      /\ \A i \in 1 .. n : t[i] = l + 1 + i \div 2
  BY <1>0 DEF NewParents
<1>2. \A i \in 1 .. n : i \div 2 \in Nat
  <2>1. \A i \in 1 .. n : i \in {1, 2, 3, 4, 5}
    OBVIOUS
  <2> QED BY <2>1, Halves
<1>3. \A i \in 1 .. n : t[i] \in Nat
  BY <1>1, <1>2
<1>4. t \in [1 .. n -> Nat] /\ n \in Nat
  BY <1>1, <1>3
<1>5. Sized(t, Nat, n)
  <2> HIDE DEF n
  <2> QED BY <1>4, SizedFacts
<1>6. \A k \in 1 .. m : k \in {1, 2} /\ 2 * k - 1 \in 1 .. n /\ 2 * k \in 1 .. n
  OBVIOUS
<1>7. \A k \in {1, 2} : (2 * k - 1) \div 2 = k - 1 /\ (2 * k) \div 2 = k
  BY Halves
<1>8. n \in 1 .. n /\ n \div 2 = m
  BY Halves
<1>9. t[n] = l + m + 1
  BY <1>1, <1>8
<1>10. ASSUME NEW k \in 1 .. m PROVE t[2 * k - 1] = l + k /\ t[2 * k] = l + k + 1
  <2>1. t[2 * k - 1] = l + 1 + (k - 1) /\ t[2 * k] = l + 1 + k
    BY <1>1, <1>6, <1>7
  <2> QED BY <1>6, <2>1
<1> QED BY <1>0, <1>5, <1>9, <1>10

(***************************************************************************)
(* One access to a slot: the instructions it consists of.                  *)
(***************************************************************************)
Owner(q, a) == q.parent[a.op]
RegOf(q, a) == q.reg[a.op]
Steps(q, a) == AddressSteps(q, RegOf(q, a), a.slot)
Code(q, a) == Access(q, a.kind, RegOf(q, a), a.slot)
Count(q) == Len(q.reg)

Legal(q, a) ==
  /\ a.op \in DOMAIN q.reg /\ a.kind \in {"load", "store"} /\ a.slot \in Nat
  /\ Owner(q, a) \in Ids(q)

\* StepCount: at most two instructions make the address.
LEMMA StepCount ==
  ASSUME NEW q, NEW a PROVE Steps(q, a) \in 0 .. 2
BY DEF Steps, AddressSteps

IsAccess(c, a, m, o, e) ==
  /\ Sized(c, Instruction, m + 1)
  /\ \A k \in 1 .. m + 1 : c[k].id = e + k
  /\ \A k \in 1 .. m : /\ c[k].kind = "op" /\ c[k].def = {o + 2 * k - 1}
                       /\ c[k].use = IF k = 1 THEN {} ELSE {o + 2 * k - 2}
  /\ c[m + 1].kind = a.kind /\ c[m + 1].slot = a.slot
  /\ a.kind = "load" => /\ c[m + 1].def = {o + 2 * m + 1}
                        /\ c[m + 1].use = IF m = 0 THEN {} ELSE {o + 2 * m}
  /\ a.kind = "store" => /\ c[m + 1].def = {}
                         /\ c[m + 1].use = {o + 2 * m + 1} \cup IF m = 0 THEN {} ELSE {o + 2 * m}

\* CodeFacts: address steps, each with a register of its own, then the load or
\* the store.
LEMMA CodeFacts ==
  ASSUME NEW q, WellFormed(q), NEW a, Legal(q, a),
         NEW m \in 0 .. 2, m = Steps(q, a), NEW o \in Nat, o = Count(q),
         NEW c, c = Code(q, a)
  PROVE  IsAccess(c, a, m, o, q.ids)
<1> DEFINE Step(j) == [id |-> q.ids + j, kind |-> "op", slot |-> 0, def |-> {o + 2 * j - 1},
                       use |-> IF j = 1 THEN {} ELSE {o + 2 * j - 2}]
           value == {o + 2 * m + 1}
           last == [id |-> q.ids + m + 1, kind |-> a.kind, slot |-> a.slot,
                    def |-> IF a.kind = "load" THEN value ELSE {},
                    use |-> (IF m = 0 THEN {} ELSE {o + 2 * m})
                            \cup (IF a.kind = "load" THEN {} ELSE value)]
           s == [j \in 1 .. m |-> Step(j)]
<1>1. q.ids \in Nat
  BY OperandFacts
<1>2. c = Cat(s, <<last>>)
  <2>1. o = Len(q.reg)
    BY DEF Count
  <2> QED BY <2>1 DEF Code, Access, Steps, Cat
<1>3. ASSUME NEW j \in 1 .. m PROVE Step(j) \in Instruction
  <2>1. q.ids + j \in Nat /\ o + 2 * j - 1 \in Nat /\ o + 2 * j - 2 \in Nat /\ 0 \in Nat
    BY <1>1
  <2>2. {o + 2 * j - 1} \in SUBSET Nat /\ (IF j = 1 THEN {} ELSE {o + 2 * j - 2}) \in SUBSET Nat
    BY <2>1
  <2> QED BY <2>1, <2>2 DEF Instruction
<1>4. last \in Instruction
  <2>1. q.ids + m + 1 \in Nat /\ value \in SUBSET Nat /\ (IF m = 0 THEN {} ELSE {o + 2 * m}) \in SUBSET Nat
    BY <1>1
  <2> HIDE DEF value
  <2> QED BY <2>1 DEF Instruction, Legal
<1>5. \A j \in 1 .. m : s[j] = Step(j)
  OBVIOUS
<1>6. Sized(s, Instruction, m) /\ Sized(<<last>>, Instruction, 1) /\ <<last>>[1] = last
  <2>1. s \in [1 .. m -> Instruction] /\ m \in Nat
    <3> HIDE DEF Step
    <3> QED BY <1>3
  <2>2. <<last>> \in Seq(Instruction) /\ Len(<<last>>) = 1 /\ <<last>>[1] = last
    <3> HIDE DEF last
    <3> QED BY <1>4
  <2> HIDE DEF last, s
  <2> QED BY <2>1, <2>2, SizedFacts DEF Sized
<1> HIDE DEF last, s
<1>7. Sized(c, Instruction, m + 1) /\ c[m + 1] = last /\ \A j \in 1 .. m : c[j] = s[j]
  <2>1. 1 \in 1 .. 1 /\ m \in Nat /\ 1 \in Nat
    OBVIOUS
  <2>2. /\ Sized(c, Instruction, m + 1)
        /\ \A j \in 1 .. m : c[j] = s[j]
        /\ \A j \in 1 .. 1 : c[m + j] = <<last>>[j]
    BY <1>2, <1>6, <2>1, Joined
  <2> QED BY <1>6, <2>1, <2>2
<1>8. ASSUME NEW j \in 1 .. m
      PROVE  /\ c[j].id = q.ids + j /\ c[j].kind = "op" /\ c[j].def = {o + 2 * j - 1}
             /\ c[j].use = IF j = 1 THEN {} ELSE {o + 2 * j - 2}
  <2>1. c[j] = Step(j)
    BY <1>5, <1>7
  <2> QED BY <2>1
<1> HIDE DEF Step
<1>9. \A k \in 1 .. m + 1 : c[k].id = q.ids + k
  <2>1. c[m + 1].id = q.ids + (m + 1)
    BY <1>1, <1>7 DEF last
  <2>2. \A k \in 1 .. m + 1 : k \in 1 .. m \/ k = m + 1
    OBVIOUS
  <2> QED BY <1>8, <2>1, <2>2
<1>10. c[m + 1].kind = a.kind /\ c[m + 1].slot = a.slot
  BY <1>7 DEF last
<1>11. a.kind = "load" => /\ c[m + 1].def = {o + 2 * m + 1}
                          /\ c[m + 1].use = IF m = 0 THEN {} ELSE {o + 2 * m}
  BY <1>7 DEF last
<1>12. a.kind = "store" => /\ c[m + 1].def = {}
                           /\ c[m + 1].use = {o + 2 * m + 1} \cup IF m = 0 THEN {} ELSE {o + 2 * m}
  BY <1>7 DEF last
<1>13. Sized(c, Instruction, m + 1)
  BY <1>7
<1> QED BY <1>8, <1>9, <1>10, <1>11, <1>12, <1>13 DEF IsAccess

Place(q, a) == PointOf(q, Owner(q, a))
Cut(q, a) == IF a.kind = "load" THEN Place(q, a)[2] - 1 ELSE Place(q, a)[2]
NewCode(q, a) == [q.code EXCEPT ![Place(q, a)[1]] = Spliced(@, Code(q, a), Cut(q, a))]

\* WithFields: which fields the new operands change.
LEMMA WithFields ==
  ASSUME NEW q, q \in Function, NEW r, NEW m, NEW z, z = WithOperands(q, r, m)
  PROVE  /\ z = [code |-> z.code, succ |-> z.succ, reg |-> z.reg, parent |-> z.parent,
                 ids |-> z.ids, labels |-> z.labels, fp |-> z.fp]
         /\ z.code = q.code /\ z.succ = q.succ /\ z.fp = q.fp
         /\ z.reg = Cat(q.reg, NewRegs(m, q.labels, r))
         /\ z.parent = Cat(q.parent, NewParents(m, q.ids))
         /\ z.ids = q.ids + m + 1 /\ z.labels = q.labels + m
<1>1. z = [q EXCEPT !.reg = Cat(@, NewRegs(m, q.labels, r)), !.parent = Cat(@, NewParents(m, q.ids)),
                    !.ids = @ + m + 1, !.labels = @ + m]
  BY DEF WithOperands, NewRegs, NewParents, Cat
<1> QED BY <1>1 DEF Function

\* InsertFields: and which the new instructions change.
LEMMA InsertFields ==
  ASSUME NEW q, q \in Function, NEW a, NEW z, z = InsertInsts(q, Code(q, a), Owner(q, a), a.kind)
  PROVE  /\ z = [code |-> z.code, succ |-> z.succ, reg |-> z.reg, parent |-> z.parent,
                 ids |-> z.ids, labels |-> z.labels, fp |-> z.fp]
         /\ z.code = NewCode(q, a)
         /\ z.succ = q.succ /\ z.fp = q.fp /\ z.reg = q.reg /\ z.parent = q.parent
         /\ z.ids = q.ids /\ z.labels = q.labels
<1>1. z = [q EXCEPT !.code[Place(q, a)[1]] = Spliced(@, Code(q, a), Cut(q, a))]
  BY DEF InsertInsts, Place, Cut, Spliced
<1> QED BY <1>1 DEF Function, NewCode

\* CodeInserted: the code of the function with the access in it.
LEMMA CodeInserted ==
  ASSUME NEW q, WellFormed(q), NEW a, Legal(q, a),
         NEW C, C = NewCode(q, a),
         NEW b, b = Place(q, a)[1], NEW n \in Int, n = Cut(q, a), NEW k \in Nat, k = Steps(q, a) + 1,
         NEW l \in Nat, Insts(q, b) = 1 .. l
  PROVE  /\ C \in Seq(Seq(Instruction)) /\ DOMAIN C = Blocks(q)
         /\ b \in Blocks(q) /\ n \in 0 .. l
         /\ \A d \in Blocks(q) : d # b => C[d] = q.code[d]
         /\ IsCut(C[b], Instruction, q.code[b], l, Code(q, a), k, n)
<1>1. Blocks(q) = 1 .. Len(q.code) /\ q.code \in Seq(Seq(Instruction)) /\ DOMAIN q.code = Blocks(q)
  BY Shape DEF WellFormed, Function, Blocks
<1>2. b \in Blocks(q) /\ Place(q, a)[2] \in 1 .. l
  BY NodeFacts DEF Legal, Place
<1>3. Sized(q.code[b], Instruction, l)
  <2>1. q.code[b] \in Seq(Instruction) /\ Len(q.code[b]) \in Nat /\ 1 .. l = 1 .. Len(q.code[b])
    BY <1>2, Shape
  <2> QED BY <2>1 DEF Sized
<1>4. n \in 0 .. l
  BY <1>2 DEF Cut
<1>5. Sized(Code(q, a), Instruction, k)
  <2>1. PICK m \in 0 .. 2 : m = Steps(q, a)
    BY StepCount
  <2>2. PICK o \in Nat : o = Count(q)
    BY OperandFacts DEF Count
  <2>3. Sized(Code(q, a), Instruction, m + 1)
    BY <2>1, <2>2, CodeFacts DEF IsAccess
  <2> QED BY <2>1, <2>3
<1>6. PICK t, s, c : t = Spliced(s, c, n) /\ s = q.code[b] /\ c = Code(q, a)
  OBVIOUS
<1>7. IsCut(t, Instruction, s, l, c, k, n)
  <2>1. n \in Nat /\ n <= l
    BY <1>4
  <2> QED BY <1>3, <1>5, <1>6, <2>1, Cutting
<1>8. C = [q.code EXCEPT ![b] = t]
  BY <1>6 DEF NewCode
<1>9. C \in Seq(Seq(Instruction)) /\ C[b] = t /\ \A d \in Blocks(q) : d # b => C[d] = q.code[d]
  <2>1. t \in Seq(Instruction)
    BY <1>7 DEF IsCut, Sized
  <2>2. C \in Seq(Seq(Instruction))
    BY <1>1, <1>2, <1>8, <2>1, ExceptSeq
  <2> QED BY <1>1, <1>2, <1>8, <2>2
<1>10. DOMAIN C = Blocks(q)
  BY <1>1, <1>8
<1> QED BY <1>2, <1>4, <1>6, <1>7, <1>9, <1>10

\* RecordFacts: the function with the access in it.
LEMMA RecordFacts ==
  ASSUME NEW q, WellFormed(q), NEW a, Legal(q, a), NEW Q, Q = SpillOperand(q, a)
  PROVE  /\ Q = [code |-> Q.code, succ |-> Q.succ, reg |-> Q.reg, parent |-> Q.parent,
                 ids |-> Q.ids, labels |-> Q.labels, fp |-> Q.fp]
         /\ Q.code = NewCode(q, a)
         /\ Q.succ = q.succ /\ Q.fp = q.fp
         /\ Q.reg = Cat(q.reg, NewRegs(Steps(q, a), q.labels, RegOf(q, a)))
         /\ Q.parent = Cat(q.parent, NewParents(Steps(q, a), q.ids))
         /\ Q.ids = q.ids + Steps(q, a) + 1 /\ Q.labels = q.labels + Steps(q, a)
<1>1. PICK z : z = InsertInsts(q, Code(q, a), Owner(q, a), a.kind)
  OBVIOUS
<1>2. q \in Function
  BY DEF WellFormed
<1>3. /\ z = [code |-> z.code, succ |-> z.succ, reg |-> z.reg, parent |-> z.parent,
              ids |-> z.ids, labels |-> z.labels, fp |-> z.fp]
      /\ z.code = NewCode(q, a)
      /\ z.succ = q.succ /\ z.fp = q.fp /\ z.reg = q.reg /\ z.parent = q.parent
      /\ z.ids = q.ids /\ z.labels = q.labels
  BY <1>1, <1>2, InsertFields
<1>4. z \in Function
  <2>1. PICK l \in Nat : Insts(q, Place(q, a)[1]) = 1 .. l
    BY NodeFacts, Shape DEF Legal, Place
  <2>2. PICK k \in Nat : k = Steps(q, a) + 1
    BY StepCount
  <2>3. PICK n \in Int : n = Cut(q, a)
    BY NodeFacts, Shape DEF Legal, Place, Cut
  <2>4. z.code \in Seq(Seq(Instruction))
    BY <1>3, <2>1, <2>2, <2>3, CodeInserted
  <2> QED BY <1>2, <1>3, <2>4 DEF Function
<1>5. Q = WithOperands(z, RegOf(q, a), Steps(q, a))
  BY <1>1 DEF SpillOperand, Code, RegOf, Owner, Steps
<1>6. /\ Q = [code |-> Q.code, succ |-> Q.succ, reg |-> Q.reg, parent |-> Q.parent,
              ids |-> Q.ids, labels |-> Q.labels, fp |-> Q.fp]
      /\ Q.code = z.code /\ Q.succ = z.succ /\ Q.fp = z.fp
      /\ Q.reg = Cat(z.reg, NewRegs(Steps(q, a), z.labels, RegOf(q, a)))
      /\ Q.parent = Cat(z.parent, NewParents(Steps(q, a), z.ids))
      /\ Q.ids = z.ids + Steps(q, a) + 1 /\ Q.labels = z.labels + Steps(q, a)
  BY <1>4, <1>5, WithFields
<1> QED BY <1>3, <1>6

IsLonger(Q, q, m, o, e, g, r) ==
  /\ Sized(Q.reg, Nat, o + 2 * m + 1) /\ Sized(Q.parent, Nat, o + 2 * m + 1)
  /\ DOMAIN q.reg = 1 .. o
  /\ \A i \in 1 .. o : Q.reg[i] = q.reg[i] /\ Q.parent[i] = q.parent[i]
  /\ \A k \in 1 .. m : /\ Q.reg[o + 2 * k - 1] = g + k /\ Q.parent[o + 2 * k - 1] = e + k
                       /\ Q.reg[o + 2 * k] = g + k /\ Q.parent[o + 2 * k] = e + k + 1
  /\ Q.reg[o + 2 * m + 1] = r /\ Q.parent[o + 2 * m + 1] = e + m + 1
  /\ Q.ids = e + m + 1 /\ Q.labels = g + m

\* OperandsAdded: the operand objects the access adds.
LEMMA OperandsAdded ==
  ASSUME NEW q, WellFormed(q), NEW a, Legal(q, a), NEW Q, Q = SpillOperand(q, a),
         NEW m \in 0 .. 2, m = Steps(q, a), NEW o \in Nat, o = Count(q)
  PROVE  IsLonger(Q, q, m, o, q.ids, q.labels, RegOf(q, a))
<1>1. Sized(q.reg, Nat, o) /\ Sized(q.parent, Nat, o) /\ DOMAIN q.reg = 1 .. o
  <2>1. /\ q.reg \in Seq(Nat) /\ q.parent \in Seq(Nat) /\ Len(q.parent) = o /\ Len(q.reg) = o
        /\ DOMAIN q.reg = 1 .. o
    BY OperandFacts DEF Count
  <2> QED BY <2>1 DEF Sized
<1>2. PICK e \in Nat, g \in Nat, r \in Nat : e = q.ids /\ g = q.labels /\ r = RegOf(q, a)
  BY <1>1, OperandFacts, SizedFacts DEF RegOf, Legal
<1>3. PICK s : s = NewRegs(m, g, r)
  OBVIOUS
<1>4. PICK t : t = NewParents(m, e)
  OBVIOUS
<1>5. PICK n \in Nat : n = 2 * m + 1
  OBVIOUS
<1>6. Q.reg = Cat(q.reg, s) /\ Q.parent = Cat(q.parent, t)
      /\ Q.ids = e + m + 1 /\ Q.labels = g + m
  BY <1>2, <1>3, <1>4, RecordFacts
<1>7. /\ Sized(s, Nat, n) /\ s[n] = r
      /\ \A k \in 1 .. m : s[2 * k - 1] = g + k /\ s[2 * k] = g + k
  <2>1. /\ Sized(NewRegs(m, g, r), Nat, 2 * m + 1) /\ NewRegs(m, g, r)[2 * m + 1] = r
        /\ \A k \in 1 .. m : NewRegs(m, g, r)[2 * k - 1] = g + k /\ NewRegs(m, g, r)[2 * k] = g + k
    BY RegistersAdded
  <2> QED BY <1>3, <1>5, <2>1
<1>8. /\ Sized(t, Nat, n) /\ t[n] = e + m + 1
      /\ \A k \in 1 .. m : t[2 * k - 1] = e + k /\ t[2 * k] = e + k + 1
  <2>1. /\ Sized(NewParents(m, e), Nat, 2 * m + 1) /\ NewParents(m, e)[2 * m + 1] = e + m + 1
        /\ \A k \in 1 .. m : NewParents(m, e)[2 * k - 1] = e + k /\ NewParents(m, e)[2 * k] = e + k + 1
    BY ParentsAdded
  <2> QED BY <1>4, <1>5, <2>1
<1>9. /\ Sized(Q.reg, Nat, o + n)
      /\ \A i \in 1 .. o : Q.reg[i] = q.reg[i]
      /\ \A i \in 1 .. n : Q.reg[o + i] = s[i]
  BY <1>1, <1>6, <1>7, Joined
<1>10. /\ Sized(Q.parent, Nat, o + n)
       /\ \A i \in 1 .. o : Q.parent[i] = q.parent[i]
       /\ \A i \in 1 .. n : Q.parent[o + i] = t[i]
  BY <1>1, <1>6, <1>8, Joined
<1>11. ASSUME NEW k \in 1 .. m
       PROVE  /\ Q.reg[o + 2 * k - 1] = g + k /\ Q.parent[o + 2 * k - 1] = e + k
              /\ Q.reg[o + 2 * k] = g + k /\ Q.parent[o + 2 * k] = e + k + 1
  <2>1. PICK i \in 1 .. n : i = 2 * k - 1
    BY <1>5
  <2>2. PICK j \in 1 .. n : j = 2 * k
    BY <1>5
  <2>3. o + 2 * k - 1 = o + i /\ o + 2 * k = o + j
    BY <2>1, <2>2
  <2>4. Q.reg[o + i] = s[i] /\ Q.parent[o + i] = t[i] /\ Q.reg[o + j] = s[j] /\ Q.parent[o + j] = t[j]
    BY <1>9, <1>10
  <2>5. /\ s[i] = g + k /\ s[j] = g + k
        /\ t[i] = e + k /\ t[j] = e + k + 1
    BY <1>7, <1>8, <2>1, <2>2
  <2> QED BY <2>3, <2>4, <2>5
<1>12. n \in 1 .. n /\ o + 2 * m + 1 = o + n
  BY <1>5
<1>13. Q.reg[o + n] = r /\ Q.parent[o + n] = e + m + 1
  BY <1>7, <1>8, <1>9, <1>10, <1>12
<1>14. IsLonger(Q, q, m, o, e, g, r)
  BY <1>1, <1>6, <1>9, <1>10, <1>11, <1>12, <1>13 DEF IsLonger
<1> QED BY <1>2, <1>14

(***************************************************************************)
(* The function with the access in it, Q, beside the one without, q.       *)
(* Shift tells where an instruction of q stands in Q.                      *)
(***************************************************************************)
Size(q, a) == Steps(q, a) + 1
Shift(q, a, y) ==
  IF y[1] = Place(q, a)[1] /\ y[2] > Cut(q, a) THEN <<y[1], y[2] + Size(q, a)>> ELSE y

\* Measures: the numbers the proofs below are about.
LEMMA Measures ==
  ASSUME NEW q, WellFormed(q), NEW a, Legal(q, a)
  PROVE  /\ Size(q, a) \in 1 .. 3 /\ q.ids \in Nat
         /\ Place(q, a) \in Points(q) /\ InstAt(q, Place(q, a)).id = Owner(q, a)
         /\ \E b \in Blocks(q), n \in Nat, l \in Nat, z \in Nat :
              /\ Place(q, a) = <<b, z>> /\ n = Cut(q, a) /\ Insts(q, b) = 1 .. l
              /\ Len(q.code[b]) = l
              /\ 1 <= z /\ z <= l /\ n <= l
              /\ a.kind = "load" => z = n + 1
              /\ a.kind = "store" => z = n
<1>1. Size(q, a) \in 1 .. 3 /\ q.ids \in Nat
  <2>1. PICK m \in 0 .. 2 : m = Steps(q, a)
    BY StepCount
  <2>2. m + 1 \in 1 .. 3
    OBVIOUS
  <2> QED BY <2>1, <2>2, OperandFacts DEF Size
<1>2. /\ Place(q, a) \in Points(q) /\ InstAt(q, Place(q, a)).id = Owner(q, a)
      /\ Place(q, a) = <<Place(q, a)[1], Place(q, a)[2]>>
      /\ Place(q, a)[1] \in Blocks(q) /\ Place(q, a)[2] \in Insts(q, Place(q, a)[1])
  BY NodeFacts DEF Legal, Place
<1>3. PICK b \in Blocks(q) : b = Place(q, a)[1]
  BY <1>2
<1>4. PICK l \in Nat : Insts(q, b) = 1 .. l /\ Len(q.code[b]) = l
  BY Shape
<1>5. PICK z \in 1 .. l : z = Place(q, a)[2]
  BY <1>2, <1>3, <1>4
<1>6. a.kind \in {"load", "store"}
  BY DEF Legal
<1>7. PICK n \in Nat : n = IF a.kind = "load" THEN z - 1 ELSE z
  BY <1>5
<1>8. n = Cut(q, a)
  BY <1>5, <1>7 DEF Cut
<1>9. 1 <= z /\ z <= l /\ n <= l /\ (a.kind = "load" => z = n + 1) /\ (a.kind = "store" => z = n)
  BY <1>6, <1>7
<1>10. Place(q, a) = <<b, z>>
  BY <1>2, <1>3, <1>5
<1>11. z \in Nat
  BY <1>5
<1> QED BY <1>1, <1>2, <1>4, <1>8, <1>9, <1>10, <1>11

\* Around: what stands where in the block that grows.
LEMMA Around ==
  ASSUME NEW q, WellFormed(q), NEW a, Legal(q, a), NEW Q, Q = SpillOperand(q, a),
         NEW b, b = Place(q, a)[1], NEW n \in Nat, n = Cut(q, a), NEW k \in Nat, k = Size(q, a),
         NEW l \in Nat, Insts(q, b) = 1 .. l
  PROVE  /\ Q.code \in Seq(Seq(Instruction)) /\ DOMAIN Q.code = Blocks(q)
         /\ b \in Blocks(q) /\ n <= l
         /\ \A d \in Blocks(q) : d # b => Q.code[d] = q.code[d]
         /\ IsCut(Q.code[b], Instruction, q.code[b], l, Code(q, a), k, n)
<1>1. Q.code = NewCode(q, a)
  BY RecordFacts
<1>2. k = Steps(q, a) + 1 /\ n \in Int
  BY DEF Size
<1>3. /\ Q.code \in Seq(Seq(Instruction)) /\ DOMAIN Q.code = Blocks(q)
      /\ b \in Blocks(q) /\ n \in 0 .. l
      /\ \A d \in Blocks(q) : d # b => Q.code[d] = q.code[d]
      /\ IsCut(Q.code[b], Instruction, q.code[b], l, Code(q, a), k, n)
  BY <1>1, <1>2, CodeInserted
<1> QED BY <1>3

IsOrigin(q, a, Q, b, n, k) ==
  /\ \A y \in Points(q) : /\ Shift(q, a, y) \in Points(Q)
                          /\ InstAt(Q, Shift(q, a, y)) = InstAt(q, y)
  /\ \A i \in 1 .. k : <<b, n + i>> \in Points(Q) /\ InstAt(Q, <<b, n + i>>) = Code(q, a)[i]
  /\ \A x \in Points(Q) : \/ \E y \in Points(q) : x = Shift(q, a, y)
                          \/ \E i \in 1 .. k : x = <<b, n + i>>
  /\ Q.code \in Seq(Seq(Instruction)) /\ Blocks(Q) = Blocks(q)
  /\ \A d \in Blocks(Q) : Q.code[d] # << >>

\* Origins: each instruction of Q is one of q or a new one.
LEMMA Origins ==
  ASSUME NEW q, WellFormed(q), NEW a, Legal(q, a), NEW Q, Q = SpillOperand(q, a),
         NEW b, b = Place(q, a)[1], NEW n \in Nat, n = Cut(q, a), NEW k \in Nat, k = Size(q, a)
  PROVE  IsOrigin(q, a, Q, b, n, k)
<1>1. PICK l \in Nat : Insts(q, b) = 1 .. l /\ Len(q.code[b]) = l /\ 1 <= l
  <2>1. b \in Blocks(q)
    BY NodeFacts DEF Legal, Place
  <2> QED BY <2>1, Shape
<1>2. /\ Q.code \in Seq(Seq(Instruction)) /\ DOMAIN Q.code = Blocks(q)
      /\ b \in Blocks(q) /\ n <= l
      /\ \A d \in Blocks(q) : d # b => Q.code[d] = q.code[d]
      /\ IsCut(Q.code[b], Instruction, q.code[b], l, Code(q, a), k, n)
  BY <1>1, Around
<1>3. Blocks(Q) = Blocks(q)
  BY <1>2 DEF Blocks
<1>4. /\ Sized(Q.code[b], Instruction, l + k)
      /\ \A i \in 1 .. n : Q.code[b][i] = q.code[b][i]
      /\ \A i \in 1 .. k : Q.code[b][n + i] = Code(q, a)[i]
      /\ \A i \in n + 1 .. l : Q.code[b][i + k] = q.code[b][i]
  BY <1>2 DEF IsCut
<1>5. Insts(Q, b) = 1 .. l + k
  BY <1>4, SizedFacts DEF Insts
<1>6. \A d \in Blocks(q) : d # b => Insts(Q, d) = Insts(q, d)
  BY <1>2 DEF Insts
<1>7. ASSUME NEW y \in Points(q)
      PROVE  Shift(q, a, y) \in Points(Q) /\ InstAt(Q, Shift(q, a, y)) = InstAt(q, y)
  <2>1. y = <<y[1], y[2]>> /\ y[1] \in Blocks(q) /\ y[2] \in Insts(q, y[1])
    BY PointFacts
  <2>2. CASE y[1] # b
    <3>1. Shift(q, a, y) = y
      BY <2>2 DEF Shift
    <3>2. y \in Points(Q)
      BY <1>3, <1>6, <2>1, <2>2 DEF Points
    <3> QED BY <1>2, <2>1, <2>2, <3>1, <3>2 DEF InstAt
  <2>3. CASE y[1] = b
    <3>1. PICK j \in 1 .. l : j = y[2]
      BY <1>1, <2>1, <2>3
    <3>2. CASE j > n
      <4>1. Shift(q, a, y) = <<b, j + k>>
        BY <2>3, <3>1, <3>2 DEF Shift
      <4>2. j \in n + 1 .. l /\ j + k \in 1 .. l + k
        BY <3>2
      <4>3. <<b, j + k>> \in Points(Q)
        BY <1>2, <1>3, <1>5, <4>2 DEF Points
      <4>4. Q.code[b][j + k] = q.code[b][j]
        BY <1>4, <4>2
      <4> QED BY <2>3, <3>1, <4>1, <4>3, <4>4 DEF InstAt
    <3>3. CASE ~ (j > n)
      <4>1. Shift(q, a, y) = y
        BY <2>3, <3>1, <3>3 DEF Shift
      <4>2. j \in 1 .. n /\ j \in 1 .. l + k
        BY <3>3
      <4>3. y \in Points(Q)
        BY <1>2, <1>3, <1>5, <2>1, <2>3, <3>1, <4>2 DEF Points
      <4>4. Q.code[b][j] = q.code[b][j]
        BY <1>4, <4>2
      <4> QED BY <2>3, <3>1, <4>1, <4>3, <4>4 DEF InstAt
    <3> QED BY <3>2, <3>3
  <2> QED BY <2>2, <2>3
<1>8. ASSUME NEW i \in 1 .. k
      PROVE  <<b, n + i>> \in Points(Q) /\ InstAt(Q, <<b, n + i>>) = Code(q, a)[i]
  <2>1. n + i \in 1 .. l + k
    BY <1>2
  <2>2. Q.code[b][n + i] = Code(q, a)[i]
    BY <1>4
  <2> QED BY <1>2, <1>3, <1>5, <2>1, <2>2 DEF Points, InstAt
<1>9. ASSUME NEW x \in Points(Q)
      PROVE  \/ \E y \in Points(q) : x = Shift(q, a, y)
             \/ \E i \in 1 .. k : x = <<b, n + i>>
  <2>1. PICK d \in Blocks(q) : \E j \in Insts(Q, d) : x = <<d, j>>
    BY <1>3 DEF Points
  <2>2. PICK j \in Insts(Q, d) : x = <<d, j>>
    BY <2>1
  <2>3. x[1] = d /\ x[2] = j
    BY <2>2
  <2>4. CASE d # b
    <3>1. x \in Points(q)
      BY <1>6, <2>2, <2>4 DEF Points
    <3>2. Shift(q, a, x) = x
      BY <2>3, <2>4 DEF Shift
    <3> QED BY <3>1, <3>2
  <2>5. CASE d = b
    <3>0. PICK c \in 1 .. l + k : c = j
      BY <1>5, <2>5
    <3>1. CASE c <= n
      <4>1. c \in 1 .. l
        BY <1>2, <3>1
      <4>2. x \in Points(q)
        BY <1>1, <2>2, <2>5, <3>0, <4>1 DEF Points
      <4>3. Shift(q, a, x) = x
        BY <2>3, <2>5, <3>0, <3>1 DEF Shift
      <4> QED BY <4>2, <4>3
    <3>2. CASE c > n /\ c <= n + k
      <4>1. c - n \in 1 .. k /\ n + (c - n) = c
        BY <3>2
      <4> QED BY <2>2, <2>5, <3>0, <4>1
    <3>3. CASE c > n + k
      <4>1. PICK e \in 1 .. l : e = c - k /\ e > n /\ e + k = c
        BY <3>3
      <4> DEFINE y == <<b, e>>
      <4>2. y \in Points(q) /\ y[1] = b /\ y[2] = e
        BY <1>1, <1>2, <4>1 DEF Points
      <4>3. Shift(q, a, y) = <<b, e + k>>
        BY <4>1, <4>2 DEF Shift
      <4> QED BY <2>2, <2>5, <3>0, <4>1, <4>2, <4>3
    <3> QED BY <3>1, <3>2, <3>3
  <2> QED BY <2>4, <2>5
<1>10. ASSUME NEW d \in Blocks(Q) PROVE Q.code[d] # << >>
  <2>1. \A f : f = << >> => DOMAIN f = {}
    OBVIOUS
  <2>2. Insts(q, d) # {}
    BY <1>3, Shape
  <2>3. 1 \in 1 .. l + k
    BY <1>1
  <2>4. Insts(Q, d) # {}
    BY <1>3, <1>5, <1>6, <2>2, <2>3
  <2> QED BY <2>1, <2>4 DEF Insts
<1> QED BY <1>2, <1>3, <1>7, <1>8, <1>9, <1>10 DEF IsOrigin

(***************************************************************************)
(* The new instructions, in terms of the function that holds them.         *)
(***************************************************************************)
AddressNode(q, Q, a, i) ==
  LET c == Code(q, a)[i]
  IN  c.kind = "op" /\ \A d \in c.def : Q.reg[d] = q.labels + i

AccessNode(q, Q, a) ==
  LET c == Code(q, a)[Size(q, a)]
  IN  /\ c.kind = a.kind /\ c.slot = a.slot
      /\ a.kind = "load" => c.def # {} /\ \A d \in c.def : Q.reg[d] = RegOf(q, a)
      /\ a.kind = "store" => /\ c.def = {} /\ Max(c.use) \in c.use
                             /\ Q.reg[Max(c.use)] = RegOf(q, a)

\* A use is an address, defined one step before, or the value that is stored.
UseNode(q, Q, a, i) ==
  \A u \in Code(q, a)[i].use :
    \/ /\ i - 1 \in 1 .. Size(q, a) - 1
       /\ \E d \in Code(q, a)[i - 1].def : Q.reg[d] = Q.reg[u]
    \/ i = Size(q, a) /\ a.kind = "store" /\ Q.reg[u] = RegOf(q, a)

OperandNode(q, Q, a, i) ==
  LET c == Code(q, a)[i]
  IN  /\ c \in Instruction /\ c.id = q.ids + i
      /\ c.def \cap c.use = {} /\ \A d, e \in c.def : d = e
      /\ \A o \in c.def \cup c.use : /\ o \in DOMAIN Q.reg /\ o \notin DOMAIN q.reg
                                     /\ Q.parent[o] = q.ids + i

\* AccessFacts: the operands of the new instructions.
LEMMA AccessFacts ==
  ASSUME NEW q, WellFormed(q), NEW a, Legal(q, a), NEW Q, Q = SpillOperand(q, a)
  PROVE  /\ \A i \in 1 .. Size(q, a) : OperandNode(q, Q, a, i) /\ UseNode(q, Q, a, i)
         /\ \A i \in 1 .. Size(q, a) - 1 : AddressNode(q, Q, a, i)
         /\ AccessNode(q, Q, a)
<1>1. PICK m \in 0 .. 2 : m = Steps(q, a)
  BY StepCount
<1>2. PICK o \in Nat : o = Count(q)
  BY OperandFacts DEF Count
<1>3. PICK e \in Nat, g \in Nat, r \in Nat : e = q.ids /\ g = q.labels /\ r = RegOf(q, a)
  BY OperandFacts DEF Legal, RegOf
<1>4. PICK c : c = Code(q, a)
  OBVIOUS
<1>5. /\ Sized(c, Instruction, m + 1)
      /\ \A k \in 1 .. m + 1 : c[k].id = e + k
      /\ \A k \in 1 .. m : /\ c[k].kind = "op" /\ c[k].def = {o + 2 * k - 1}
                           /\ c[k].use = IF k = 1 THEN {} ELSE {o + 2 * k - 2}
      /\ c[m + 1].kind = a.kind /\ c[m + 1].slot = a.slot
      /\ a.kind = "load" => /\ c[m + 1].def = {o + 2 * m + 1}
                            /\ c[m + 1].use = IF m = 0 THEN {} ELSE {o + 2 * m}
      /\ a.kind = "store" => /\ c[m + 1].def = {}
                             /\ c[m + 1].use = {o + 2 * m + 1} \cup IF m = 0 THEN {} ELSE {o + 2 * m}
  <2>1. IsAccess(c, a, m, o, q.ids)
    BY <1>1, <1>2, <1>4, CodeFacts
  <2>2. IsAccess(c, a, m, o, e)
    BY <1>3, <2>1
  <2> QED BY <2>2 DEF IsAccess
<1>6. /\ DOMAIN Q.reg = 1 .. o + 2 * m + 1 /\ DOMAIN q.reg = 1 .. o
      /\ \A k \in 1 .. m : /\ Q.reg[o + 2 * k - 1] = g + k /\ Q.parent[o + 2 * k - 1] = e + k
                           /\ Q.reg[o + 2 * k] = g + k /\ Q.parent[o + 2 * k] = e + k + 1
      /\ Q.reg[o + 2 * m + 1] = r /\ Q.parent[o + 2 * m + 1] = e + m + 1
  <2>1. /\ Sized(Q.reg, Nat, o + 2 * m + 1) /\ DOMAIN q.reg = 1 .. o
        /\ \A k \in 1 .. m : /\ Q.reg[o + 2 * k - 1] = g + k /\ Q.parent[o + 2 * k - 1] = e + k
                             /\ Q.reg[o + 2 * k] = g + k /\ Q.parent[o + 2 * k] = e + k + 1
        /\ Q.reg[o + 2 * m + 1] = r /\ Q.parent[o + 2 * m + 1] = e + m + 1
    <3>1. IsLonger(Q, q, m, o, q.ids, q.labels, RegOf(q, a))
      BY <1>1, <1>2, OperandsAdded
    <3>2. IsLonger(Q, q, m, o, e, g, r)
      BY <1>3, <3>1
    <3> QED BY <3>2 DEF IsLonger
  <2> QED BY <2>1, SizedFacts
<1>7. Size(q, a) = m + 1 /\ a.kind \in {"load", "store"}
  BY <1>1 DEF Size, Legal
<1> DEFINE v == o + 2 * m + 1
           w == o + 2 * m
<1>8. \A i \in 1 .. m + 1 : c[i] \in Instruction /\ c[i].id = e + i
  BY <1>5, SizedFacts
<1>9. m # 0 => m \in 1 .. m
  OBVIOUS
<1>10. /\ Q.parent[v] = e + (m + 1) /\ v \in 1 .. v /\ v \notin 1 .. o
       /\ m # 0 => /\ w \in 1 .. v /\ w \notin 1 .. o /\ w # v
                   /\ Q.parent[w] = e + (m + 1) /\ Q.reg[w] = g + m
  BY <1>6, <1>9
<1>11. ASSUME NEW i \in 1 .. m
       PROVE  /\ Q.parent[o + 2 * i - 1] = e + i /\ Q.reg[o + 2 * i - 1] = g + i
              /\ o + 2 * i - 1 \in 1 .. v /\ o + 2 * i - 1 \notin 1 .. o
              /\ i # 1 => /\ Q.parent[o + 2 * i - 2] = e + i /\ Q.reg[o + 2 * i - 2] = g + (i - 1)
                          /\ o + 2 * i - 2 \in 1 .. v /\ o + 2 * i - 2 \notin 1 .. o
                          /\ o + 2 * i - 2 # o + 2 * i - 1
  <2>1. CASE i = 1
    BY <1>6, <2>1
  <2>2. CASE i # 1
    <3>1. PICK j \in 1 .. m : j = i - 1
      BY <2>2
    <3>2. o + 2 * i - 2 = o + 2 * j /\ e + i = e + j + 1
      BY <3>1
    <3>3. Q.reg[o + 2 * j] = g + j /\ Q.parent[o + 2 * j] = e + j + 1
      BY <1>6
    <3> QED BY <1>6, <3>1, <3>2, <3>3
  <2> QED BY <2>1, <2>2
<1>12. ASSUME NEW i \in 1 .. m + 1, i # m + 1 PROVE i \in 1 .. m
  BY <1>12
<1>13. ASSUME NEW i \in 1 .. m PROVE OperandNode(q, Q, a, i)
  <2>1. i \in 1 .. m + 1
    OBVIOUS
  <2>2. c[i] \in Instruction /\ c[i].id = e + i
    BY <1>8, <2>1
  <2>3. c[i].def = {o + 2 * i - 1} /\ c[i].use = IF i = 1 THEN {} ELSE {o + 2 * i - 2}
    BY <1>5
  <2>4. c[i].def \cap c[i].use = {} /\ \A d, f \in c[i].def : d = f
    BY <1>11, <2>3
  <2>5. ASSUME NEW p \in c[i].def \cup c[i].use
        PROVE  p \in DOMAIN Q.reg /\ p \notin DOMAIN q.reg /\ Q.parent[p] = e + i
    BY <1>6, <1>11, <2>3
  <2> QED BY <1>3, <1>4, <2>2, <2>4, <2>5 DEF OperandNode
<1>14. OperandNode(q, Q, a, m + 1)
  <2>1. c[m + 1] \in Instruction /\ c[m + 1].id = e + (m + 1)
    <3>1. m + 1 \in 1 .. m + 1
      OBVIOUS
    <3> QED BY <1>8, <3>1
  <2>2. c[m + 1].def \cap c[m + 1].use = {} /\ \A d, f \in c[m + 1].def : d = f
    BY <1>5, <1>7, <1>10
  <2>3. ASSUME NEW p \in c[m + 1].def \cup c[m + 1].use
        PROVE  p \in DOMAIN Q.reg /\ p \notin DOMAIN q.reg /\ Q.parent[p] = e + (m + 1)
    <3>1. p = v \/ (p = w /\ m # 0)
      BY <1>5, <1>7
    <3> HIDE DEF v, w
    <3>2. DOMAIN Q.reg = 1 .. v
      BY <1>6 DEF v
    <3> QED BY <1>6, <1>10, <3>1, <3>2
  <2> QED BY <1>3, <1>4, <2>1, <2>2, <2>3 DEF OperandNode
<1>15. ASSUME NEW i \in 1 .. m PROVE UseNode(q, Q, a, i)
  <2>1. ASSUME NEW u \in c[i].use
        PROVE  i - 1 \in 1 .. m /\ \E d \in c[i - 1].def : Q.reg[d] = Q.reg[u]
    <3>0. c[i].use = IF i = 1 THEN {} ELSE {o + 2 * i - 2}
      BY <1>5
    <3>1. i # 1 /\ u = o + 2 * i - 2
      <4>1. CASE i = 1
        BY <2>1, <3>0, <4>1
      <4>2. CASE i # 1
        <5>1. PICK y : y = o + 2 * i - 2
          OBVIOUS
        <5> QED BY <2>1, <3>0, <4>2, <5>1
      <4> QED BY <4>1, <4>2
    <3>2. PICK j \in 1 .. m : j = i - 1
      BY <3>1
    <3>3. Q.reg[u] = g + j
      BY <1>11, <3>1, <3>2
    <3>4. c[j].def = {o + 2 * j - 1} /\ Q.reg[o + 2 * j - 1] = g + j
      BY <1>5, <1>11
    <3> QED BY <3>2, <3>3, <3>4
  <2>2. m + 1 - 1 = m
    OBVIOUS
  <2> QED BY <1>4, <1>7, <2>1, <2>2 DEF UseNode
<1>16. UseNode(q, Q, a, m + 1)
  <2>1. ASSUME NEW u \in c[m + 1].use
        PROVE  \/ m \in 1 .. m /\ \E d \in c[m].def : Q.reg[d] = Q.reg[u]
               \/ a.kind = "store" /\ Q.reg[u] = r
    <3>1. (u = v /\ a.kind = "store") \/ (u = w /\ m # 0)
      BY <1>5, <1>7
    <3>2. CASE u = v /\ a.kind = "store"
      BY <1>6, <3>2
    <3>3. CASE u = w /\ m # 0
      <4>1. Q.reg[u] = g + m
        BY <1>10, <3>3
      <4>2. c[m].def = {o + 2 * m - 1} /\ Q.reg[o + 2 * m - 1] = g + m
        BY <1>5, <1>9, <1>11, <3>3
      <4> QED BY <1>9, <3>3, <4>1, <4>2
    <3> QED BY <3>1, <3>2, <3>3
  <2>2. m + 1 - 1 = m
    OBVIOUS
  <2> QED BY <1>3, <1>4, <1>7, <2>1, <2>2 DEF UseNode
<1>17. ASSUME NEW i \in 1 .. m PROVE AddressNode(q, Q, a, i)
  <2>1. c[i].kind = "op" /\ c[i].def = {o + 2 * i - 1} /\ Q.reg[o + 2 * i - 1] = g + i
    BY <1>5, <1>11
  <2> QED BY <1>3, <1>4, <2>1 DEF AddressNode
<1>18. AccessNode(q, Q, a)
  <2>1. c[m + 1].kind = a.kind /\ c[m + 1].slot = a.slot
    BY <1>5
  <2>2. a.kind = "load" => c[m + 1].def # {} /\ \A d \in c[m + 1].def : Q.reg[d] = r
    BY <1>5, <1>6
  <2>3. ASSUME a.kind = "store"
        PROVE  /\ c[m + 1].def = {} /\ Max(c[m + 1].use) \in c[m + 1].use
               /\ Q.reg[Max(c[m + 1].use)] = r
    <3>1. c[m + 1].def = {} /\ c[m + 1].use = {v} \cup IF m = 0 THEN {} ELSE {w}
      BY <1>5, <2>3
    <3>2. PICK S : S = c[m + 1].use
      OBVIOUS
    <3>3. S \in SUBSET (0 .. v) /\ S # {} /\ v \in S /\ \A x \in S : x <= v
      BY <3>1, <3>2
    <3>4. 0 \in Int /\ v \in Int /\ \A x \in 0 .. v : v <= x /\ x <= v => x = v
      OBVIOUS
    <3> HIDE DEF v
    <3>5. Max(S) \in S /\ v <= Max(S) /\ Max(S) <= v
      BY <3>3, <3>4, Extremes
    <3>6. Max(S) = v
      BY <3>3, <3>4, <3>5
    <3>7. Q.reg[v] = r
      BY <1>6 DEF v
    <3> QED BY <3>1, <3>2, <3>5, <3>6, <3>7
  <2> QED BY <1>3, <1>4, <1>7, <2>1, <2>2, <2>3 DEF AccessNode
<1>19. m + 1 - 1 = m
  OBVIOUS
<1> QED BY <1>7, <1>12, <1>13, <1>14, <1>15, <1>16, <1>17, <1>18, <1>19

\* NewFunction: an access leaves the function well formed, the old operand
\* objects as they are, and each use an object of its own.
LEMMA NewFunction ==
  ASSUME NEW q, WellFormed(q), NEW a, Legal(q, a), NEW Q, Q = SpillOperand(q, a)
  PROVE  /\ WellFormed(Q) /\ (UsesOwned(q) => UsesOwned(Q))
         /\ DOMAIN q.reg \subseteq DOMAIN Q.reg
         /\ \A i \in DOMAIN q.reg : Q.reg[i] = q.reg[i] /\ Q.parent[i] = q.parent[i]
         /\ Q.ids = q.ids + Size(q, a)
         /\ Q.succ = q.succ /\ Blocks(Q) = Blocks(q)
<1>1. PICK m \in 0 .. 2 : m = Steps(q, a)
  BY StepCount
<1>2. PICK o \in Nat : o = Count(q)
  BY OperandFacts DEF Count
<1>3. PICK e \in Nat, g \in Nat : e = q.ids /\ g = q.labels
  BY OperandFacts
<1>4. PICK r \in 0 .. g : r = RegOf(q, a)
  BY <1>3, OperandFacts DEF Legal, RegOf
<1>5. PICK k \in 1 .. 3 : k = Size(q, a)
  BY Measures
<1>6. k = m + 1
  BY <1>1, <1>5 DEF Size
<1>7. IsLonger(Q, q, m, o, e, g, r)
  <2>1. IsLonger(Q, q, m, o, q.ids, q.labels, RegOf(q, a))
    BY <1>1, <1>2, OperandsAdded
  <2> QED BY <1>3, <1>4, <2>1
<1>8. /\ Q.reg \in Seq(Nat) /\ Q.parent \in Seq(Nat) /\ Len(Q.parent) = Len(Q.reg)
      /\ DOMAIN Q.reg = 1 .. o + 2 * m + 1 /\ DOMAIN q.reg = 1 .. o
  <2>1. /\ Sized(Q.reg, Nat, o + 2 * m + 1) /\ Sized(Q.parent, Nat, o + 2 * m + 1)
        /\ DOMAIN q.reg = 1 .. o
    BY <1>7 DEF IsLonger
  <2> QED BY <2>1, SizedFacts DEF Sized
<1>9. \A i \in 1 .. o : Q.reg[i] = q.reg[i] /\ Q.parent[i] = q.parent[i]
  BY <1>7 DEF IsLonger
<1>10. Q.ids = e + k /\ Q.labels = g + m
  <2>1. Q.ids = e + m + 1 /\ Q.labels = g + m
    BY <1>7 DEF IsLonger
  <2> QED BY <1>6, <2>1
<1>11. ASSUME NEW i \in 1 .. o + 2 * m + 1
       PROVE  Q.reg[i] <= g + m /\ Q.parent[i] \in 0 .. e + k
  <2>1. CASE i <= o
    <3>1. q.reg[i] \in 0 .. g /\ q.parent[i] \in 0 .. e
      BY <1>3, <1>8, <2>1, OperandFacts
    <3>2. Q.reg[i] = q.reg[i] /\ Q.parent[i] = q.parent[i]
      BY <1>9, <2>1
    <3> QED BY <3>1, <3>2
  <2>2. CASE i = o + 2 * m + 1
    <3>1. Q.reg[i] = r /\ Q.parent[i] = e + m + 1
      BY <1>7, <2>2 DEF IsLonger
    <3> QED BY <1>6, <3>1
  <2>3. CASE \E j \in 1 .. m : i = o + 2 * j - 1 \/ i = o + 2 * j
    <3>1. PICK j \in 1 .. m : i = o + 2 * j - 1 \/ i = o + 2 * j
      BY <2>3
    <3>2. Q.reg[i] = g + j /\ Q.parent[i] \in {e + j, e + j + 1}
      BY <1>7, <3>1 DEF IsLonger
    <3> QED BY <1>6, <3>2
  <2>4. i <= o \/ i = o + 2 * m + 1 \/ \E j \in 1 .. m : i = o + 2 * j - 1 \/ i = o + 2 * j
    <3>1. CASE i > o /\ i # o + 2 * m + 1
      <4>1. i \in {o + 1, o + 2, o + 3, o + 4} /\ (i \in {o + 3, o + 4} => m = 2) /\ m # 0
        BY <3>1
      <4>2. (1 \in 1 .. m) /\ (i \in {o + 3, o + 4} => 2 \in 1 .. m)
        BY <4>1
      <4>3. i = o + 2 * 1 - 1 \/ i = o + 2 * 1 \/ i = o + 2 * 2 - 1 \/ i = o + 2 * 2
        BY <4>1
      <4>4. (i = o + 2 * 2 - 1 \/ i = o + 2 * 2) => i \in {o + 3, o + 4}
        OBVIOUS
      <4> QED BY <4>2, <4>3, <4>4
    <3> QED BY <3>1
  <2> QED BY <2>1, <2>2, <2>3, <2>4
<1>12. PICK b \in Blocks(q) : b = Place(q, a)[1]
  BY Measures
<1>13. PICK n \in Nat : n = Cut(q, a)
  BY Measures
<1>14. /\ \A y \in Points(q) : /\ Shift(q, a, y) \in Points(Q)
                               /\ InstAt(Q, Shift(q, a, y)) = InstAt(q, y)
       /\ \A i \in 1 .. k : <<b, n + i>> \in Points(Q) /\ InstAt(Q, <<b, n + i>>) = Code(q, a)[i]
       /\ \A x \in Points(Q) : \/ \E y \in Points(q) : x = Shift(q, a, y)
                               \/ \E i \in 1 .. k : x = <<b, n + i>>
       /\ Q.code \in Seq(Seq(Instruction)) /\ Blocks(Q) = Blocks(q)
       /\ \A d \in Blocks(Q) : Q.code[d] # << >>
  <2>1. IsOrigin(q, a, Q, b, n, k)
    BY <1>5, <1>12, <1>13, Origins
  <2> QED BY <2>1 DEF IsOrigin
<1>15. \A i \in 1 .. k : OperandNode(q, Q, a, i)
  BY <1>5, AccessFacts
<1>16. \A x \in Points(Q) : \/ \E y \in Points(q) : x = Shift(q, a, y) /\ InstAt(Q, x) = InstAt(q, y)
                            \/ \E i \in 1 .. k : x = <<b, n + i>> /\ InstAt(Q, x) = Code(q, a)[i]
  BY <1>14
<1>17. \A y \in Points(q) : /\ InstAt(q, y).id \in 1 .. e
                            /\ InstAt(q, y).def \cup InstAt(q, y).use \subseteq DOMAIN q.reg
                            /\ \A d, f \in InstAt(q, y).def : d = f
  BY <1>3 DEF WellFormed
<1>18. \A i \in 1 .. k : /\ Code(q, a)[i].id = e + i
                         /\ Code(q, a)[i].def \cup Code(q, a)[i].use \subseteq DOMAIN Q.reg
                         /\ \A d, f \in Code(q, a)[i].def : d = f
  BY <1>3, <1>15 DEF OperandNode
<1>19. ASSUME NEW x \in Points(Q), NEW y \in Points(Q), InstAt(Q, x).id = InstAt(Q, y).id
       PROVE  x = y
  <2>1. ASSUME NEW s \in Points(q), NEW t \in Points(q), InstAt(q, s).id = InstAt(q, t).id
        PROVE  s = t
    BY <2>1 DEF WellFormed
  <2>2. ASSUME NEW s \in Points(q), NEW i \in 1 .. k PROVE InstAt(q, s).id # Code(q, a)[i].id
    <3>1. InstAt(q, s).id \in 1 .. e /\ Code(q, a)[i].id = e + i
      BY <1>17, <1>18
    <3> QED BY <3>1
  <2>3. ASSUME NEW i \in 1 .. k, NEW j \in 1 .. k, Code(q, a)[i].id = Code(q, a)[j].id PROVE i = j
    <3>1. e + i = e + j
      BY <1>18, <2>3
    <3> QED BY <3>1
  <2>4. CASE \E s \in Points(q) : x = Shift(q, a, s) /\ InstAt(Q, x) = InstAt(q, s)
    BY <1>16, <1>19, <2>1, <2>2, <2>4
  <2>5. CASE \E i \in 1 .. k : x = <<b, n + i>> /\ InstAt(Q, x) = Code(q, a)[i]
    BY <1>16, <1>19, <2>2, <2>3, <2>5
  <2> QED BY <1>16, <2>4, <2>5
<1>20. ASSUME NEW x \in Points(Q)
       PROVE  /\ InstAt(Q, x).id \in 1 .. e + k
              /\ InstAt(Q, x).def \cup InstAt(Q, x).use \subseteq DOMAIN Q.reg
              /\ \A d, f \in InstAt(Q, x).def : d = f
  <2>1. CASE \E y \in Points(q) : InstAt(Q, x) = InstAt(q, y)
    <3>1. DOMAIN q.reg \subseteq DOMAIN Q.reg
      BY <1>8
    <3> QED BY <1>17, <2>1, <3>1
  <2>2. CASE \E i \in 1 .. k : InstAt(Q, x) = Code(q, a)[i]
    BY <1>18, <2>2
  <2> QED BY <1>16, <2>1, <2>2
<1>21. Q.succ = q.succ /\ Q.fp = q.fp
       /\ Q = [code |-> Q.code, succ |-> Q.succ, reg |-> Q.reg, parent |-> Q.parent,
               ids |-> Q.ids, labels |-> Q.labels, fp |-> Q.fp]
  BY RecordFacts
<1>22. Q \in Function
  <2>1. q.succ \in Seq(SUBSET Nat) /\ q.fp \in SUBSET Nat
    BY DEF WellFormed, Function
  <2>2. Q.ids \in Nat /\ Q.labels \in Nat
    BY <1>10
  <2> QED BY <1>8, <1>14, <1>21, <2>1, <2>2 DEF Function
<1>23. WellFormed(Q)
  <2>1. Q.code # << >> /\ Q.succ \in [Blocks(Q) -> SUBSET Blocks(Q)]
    <3>1. \A f : f = << >> => DOMAIN f = {}
      OBVIOUS
    <3>2. 1 \in DOMAIN Q.code
      BY <1>14, Shape DEF Blocks
    <3>3. q.succ \in [Blocks(q) -> SUBSET Blocks(q)]
      BY DEF WellFormed
    <3> QED BY <1>14, <1>21, <3>1, <3>2, <3>3
  <2> QED BY <1>8, <1>10, <1>11, <1>14, <1>19, <1>20, <1>22, <2>1 DEF WellFormed
<1>24. ASSUME UsesOwned(q) PROVE UsesOwned(Q)
  <2> SUFFICES ASSUME NEW j \in Ids(Q), NEW u \in Node(Q, j).use PROVE Q.parent[u] = j
    BY DEF UsesOwned
  <2>0. PICK x \in Points(Q) : InstAt(Q, x).id = j /\ Node(Q, j) = InstAt(Q, x)
    BY <1>23, NodeFacts
  <2>1. CASE \E y \in Points(q) : InstAt(Q, x) = InstAt(q, y)
    <3>1. PICK y \in Points(q) : InstAt(Q, x) = InstAt(q, y)
      BY <2>1
    <3>2. j \in Ids(q) /\ u \in Node(q, j).use
      BY <2>0, <3>1, PointFacts
    <3>3. u \in DOMAIN q.reg /\ q.parent[u] = j
      BY <1>24, <3>2, NodeFacts DEF UsesOwned
    <3> QED BY <1>8, <1>9, <3>3
  <2>2. CASE \E i \in 1 .. k : InstAt(Q, x) = Code(q, a)[i]
    BY <1>3, <1>15, <1>18, <2>0, <2>2 DEF OperandNode
  <2> QED BY <1>16, <2>1, <2>2
<1>25. DOMAIN q.reg \subseteq DOMAIN Q.reg
  BY <1>8
<1> QED BY <1>3, <1>5, <1>8, <1>9, <1>10, <1>14, <1>21, <1>23, <1>24, <1>25

(***************************************************************************)
(* The flow of control through the new instructions: a load stands in      *)
(* front of the instruction it is for, a store behind it.                  *)
(***************************************************************************)
NewIds(q, a) == {q.ids + i : i \in 1 .. Size(q, a)}
Redirect(q, a, j) == IF a.kind = "load" /\ j = Owner(q, a) THEN q.ids + 1 ELSE j

\* NodesKept: the instructions of the function with the access in it.
LEMMA NodesKept ==
  ASSUME NEW q, WellFormed(q), NEW a, Legal(q, a), NEW Q, Q = SpillOperand(q, a)
  PROVE  /\ Ids(Q) = Ids(q) \cup NewIds(q, a) /\ Ids(q) \cap NewIds(q, a) = {}
         /\ Owner(q, a) \in Ids(q)
         /\ \A i \in Ids(q) : /\ Node(Q, i) = Node(q, i)
                              /\ PointOf(Q, i) = Shift(q, a, PointOf(q, i))
                              /\ PointOf(Q, i)[1] = PointOf(q, i)[1]
         /\ \A i \in 1 .. Size(q, a) :
              /\ q.ids + i \in Ids(Q) /\ Node(Q, q.ids + i) = Code(q, a)[i]
              /\ PointOf(Q, q.ids + i) = <<Place(q, a)[1], Cut(q, a) + i>>
<1>1. PICK k \in 1 .. 3 : k = Size(q, a)
  BY Measures
<1>2. PICK b \in Blocks(q) : b = Place(q, a)[1]
  BY Measures
<1>3. PICK n \in Nat : n = Cut(q, a)
  BY Measures
<1>4. PICK e \in Nat : e = q.ids
  BY Measures
<1>5. /\ \A y \in Points(q) : /\ Shift(q, a, y) \in Points(Q)
                              /\ InstAt(Q, Shift(q, a, y)) = InstAt(q, y)
      /\ \A i \in 1 .. k : <<b, n + i>> \in Points(Q) /\ InstAt(Q, <<b, n + i>>) = Code(q, a)[i]
      /\ \A x \in Points(Q) : \/ \E y \in Points(q) : x = Shift(q, a, y)
                              \/ \E i \in 1 .. k : x = <<b, n + i>>
  <2>1. IsOrigin(q, a, Q, b, n, k)
    BY <1>1, <1>2, <1>3, Origins
  <2> QED BY <2>1 DEF IsOrigin
<1>6. WellFormed(Q)
  BY NewFunction
<1>7. \A i \in 1 .. k : Code(q, a)[i].id = e + i
  BY <1>1, <1>4, AccessFacts DEF OperandNode
<1>8. ASSUME NEW i \in Ids(q)
      PROVE  /\ i \in Ids(Q) /\ Node(Q, i) = Node(q, i)
             /\ PointOf(Q, i) = Shift(q, a, PointOf(q, i))
             /\ PointOf(Q, i)[1] = PointOf(q, i)[1] /\ i \in 1 .. e
  <2>1. PICK y : y = PointOf(q, i) /\ y \in Points(q) /\ InstAt(q, y) = Node(q, i) /\ InstAt(q, y).id = i
    BY NodeFacts
  <2>2. PICK x \in Points(Q) : x = Shift(q, a, y) /\ InstAt(Q, x) = InstAt(q, y)
    BY <1>5, <2>1
  <2>3. i \in Ids(Q) /\ PointOf(Q, i) = x /\ Node(Q, i) = InstAt(Q, x)
    BY <1>6, <2>1, <2>2, PointFacts
  <2>4. x[1] = y[1]
    BY <2>2 DEF Shift
  <2> QED BY <1>4, <2>1, <2>2, <2>3, <2>4, NodeFacts
<1>9. ASSUME NEW i \in 1 .. k
      PROVE  /\ e + i \in Ids(Q) /\ Node(Q, e + i) = Code(q, a)[i]
             /\ PointOf(Q, e + i) = <<b, n + i>>
  <2>1. PICK x \in Points(Q) : x = <<b, n + i>> /\ InstAt(Q, x) = Code(q, a)[i]
    BY <1>5
  <2> QED BY <1>6, <1>7, <2>1, PointFacts
<1>10. ASSUME NEW j \in Ids(Q) PROVE j \in Ids(q) \/ \E i \in 1 .. k : j = e + i
  <2>1. PICK x \in Points(Q) : InstAt(Q, x).id = j
    BY DEF Ids
  <2>2. CASE \E y \in Points(q) : x = Shift(q, a, y)
    BY <1>5, <2>1, <2>2 DEF Ids
  <2>3. CASE \E i \in 1 .. k : x = <<b, n + i>>
    BY <1>5, <1>7, <2>1, <2>3
  <2> QED BY <1>5, <2>2, <2>3
<1>11. NewIds(q, a) = {e + i : i \in 1 .. k}
  BY <1>1, <1>4 DEF NewIds
<1>12. ASSUME NEW i \in 1 .. k PROVE e + i \notin Ids(q)
  <2>1. ~ (e + i <= e)
    OBVIOUS
  <2> QED BY <1>8, <2>1
<1>13. Ids(Q) = Ids(q) \cup NewIds(q, a) /\ Ids(q) \cap NewIds(q, a) = {}
  BY <1>8, <1>9, <1>10, <1>11, <1>12
<1>14. Owner(q, a) \in Ids(q)
  BY DEF Legal
<1> QED BY <1>1, <1>2, <1>3, <1>4, <1>8, <1>9, <1>13, <1>14

IsFlow(q, a, Q, e, k, i0) ==
  /\ \A d \in Blocks(q) : First(Q, d) = Redirect(q, a, First(q, d))
  /\ \A i \in Ids(q) : ~ (a.kind = "store" /\ i = i0) =>
                       Flow(Q, i) = {Redirect(q, a, j) : j \in Flow(q, i)}
  /\ a.kind = "store" => Flow(Q, i0) = {e + 1}
  /\ \A i \in 1 .. k - 1 : Flow(Q, e + i) = {e + (i + 1)}
  /\ a.kind = "load" => Flow(Q, e + k) = {i0}
  /\ a.kind = "store" => Flow(Q, e + k) = Flow(q, i0)

\* FlowKept: control passes through the new instructions and is otherwise as
\* before.
LEMMA FlowKept ==
  ASSUME NEW q, WellFormed(q), NEW a, Legal(q, a), NEW Q, Q = SpillOperand(q, a)
  PROVE  IsFlow(q, a, Q, q.ids, Size(q, a), Owner(q, a))
<1>1. PICK k \in 1 .. 3 : k = Size(q, a)
  BY Measures
<1>2. PICK b \in Blocks(q), n \in Nat, l \in Nat, z \in Nat :
        /\ Place(q, a) = <<b, z>> /\ n = Cut(q, a) /\ Insts(q, b) = 1 .. l
        /\ Len(q.code[b]) = l
        /\ 1 <= z /\ z <= l /\ n <= l
        /\ a.kind = "load" => z = n + 1
        /\ a.kind = "store" => z = n
  BY Measures
<1>3. PICK e, i0 : e \in Nat /\ e = q.ids /\ i0 = Owner(q, a)
  BY Measures
<1> e \in Nat
  BY <1>3
<1>4. a.kind \in {"load", "store"} /\ i0 \in Ids(q) /\ PointOf(q, i0) = <<b, z>>
      /\ q.code[b][z].id = i0
  <2>1. InstAt(q, <<b, z>>).id = i0
    BY <1>2, <1>3, Measures
  <2> QED BY <1>2, <1>3, <2>1 DEF Legal, Place, InstAt
<1>5. WellFormed(Q) /\ Q.succ = q.succ /\ Blocks(Q) = Blocks(q)
  BY NewFunction
<1>6. /\ \A d \in Blocks(q) : d # b => Q.code[d] = q.code[d]
      /\ IsCut(Q.code[b], Instruction, q.code[b], l, Code(q, a), k, n)
  <2>1. b = Place(q, a)[1] /\ k \in Nat
    BY <1>2
  <2> QED BY <1>1, <1>2, <2>1, Around
<1>7. /\ Sized(Q.code[b], Instruction, l + k)
      /\ \A i \in 1 .. n : Q.code[b][i] = q.code[b][i]
      /\ \A i \in 1 .. k : Q.code[b][n + i] = Code(q, a)[i]
      /\ \A i \in n + 1 .. l : Q.code[b][i + k] = q.code[b][i]
  BY <1>6 DEF IsCut
<1>8. Insts(Q, b) = 1 .. l + k /\ Len(Q.code[b]) = l + k
  BY <1>7, SizedFacts DEF Insts, Sized
<1>9. \A d \in Blocks(q) : d # b => Insts(Q, d) = Insts(q, d)
  BY <1>6 DEF Insts
<1>10. \A i \in 1 .. k : Code(q, a)[i].id = e + i
  BY <1>1, <1>3, AccessFacts DEF OperandNode
<1> DEFINE R(j) == Redirect(q, a, j)
<1>11. \A j : R(j) = IF a.kind = "load" /\ j = i0 THEN e + 1 ELSE j
  BY <1>3 DEF Redirect
<1> HIDE DEF R
<1>12. ASSUME NEW d \in Blocks(q), NEW j \in Insts(q, d), <<d, j>> # <<b, z>>
       PROVE  R(q.code[d][j].id) = q.code[d][j].id
  <2>1. <<d, j>> \in Points(q) /\ InstAt(q, <<d, j>>) = q.code[d][j]
    BY PointFacts DEF InstAt
  <2>2. PointOf(q, q.code[d][j].id) = <<d, j>>
    BY <2>1, PointFacts
  <2> QED BY <1>4, <1>11, <1>12, <2>2
<1>13. ASSUME NEW d \in Blocks(q) PROVE First(Q, d) = R(First(q, d))
  <2>1. 1 \in Insts(q, d)
    BY Shape
  <2>2. CASE d # b
    <3>1. <<d, 1>> # <<b, z>>
      BY <2>2
    <3>2. R(q.code[d][1].id) = q.code[d][1].id
      BY <1>12, <2>1, <3>1
    <3> QED BY <1>6, <2>2, <3>2 DEF First
  <2>3. CASE d = b /\ n = 0
    <3>1. a.kind = "load" /\ z = 1
      BY <1>2, <1>4, <2>3
    <3>2. Q.code[b][1] = Code(q, a)[1] /\ Code(q, a)[1].id = e + 1
      <4>1. 1 \in 1 .. k /\ n + 1 = 1
        BY <2>3
      <4> QED BY <1>7, <1>10, <4>1
    <3> QED BY <1>4, <1>11, <2>3, <3>1, <3>2 DEF First
  <2>4. CASE d = b /\ n # 0
    <3>1. 1 \in 1 .. n
      BY <2>4
    <3>2. CASE a.kind = "load"
      <4>1. z # 1
        BY <1>2, <2>4, <3>2
      <4>2. R(q.code[b][1].id) = q.code[b][1].id
        BY <1>12, <2>1, <2>4, <4>1
      <4> QED BY <1>7, <2>4, <3>1, <4>2 DEF First
    <3>3. CASE a.kind # "load"
      BY <1>7, <1>11, <2>4, <3>1, <3>3 DEF First
    <3> QED BY <3>2, <3>3
  <2> QED BY <2>2, <2>3, <2>4
<1> DEFINE Firsts(p, d) == {First(p, s) : s \in p.succ[d]}
<1>14. ASSUME NEW d \in Blocks(q) PROVE Firsts(Q, d) = {R(j) : j \in Firsts(q, d)}
  <2>1. q.succ[d] \subseteq Blocks(q)
    BY Shape
  <2> QED BY <1>5, <1>13, <2>1
<1> HIDE DEF Firsts
<1>15. /\ \A d \in Blocks(q) : \A j \in Insts(q, d) :
            Flow(q, q.code[d][j].id) = IF j < Len(q.code[d]) THEN {q.code[d][j + 1].id}
                                       ELSE Firsts(q, d)
       /\ \A d \in Blocks(q) : \A j \in Insts(Q, d) :
            Flow(Q, Q.code[d][j].id) = IF j < Len(Q.code[d]) THEN {Q.code[d][j + 1].id}
                                       ELSE Firsts(Q, d)
  <2>1. ASSUME NEW p, WellFormed(p), NEW d \in Blocks(p), NEW j \in Insts(p, d)
        PROVE  Flow(p, p.code[d][j].id) = IF j < Len(p.code[d]) THEN {p.code[d][j + 1].id}
                                          ELSE Firsts(p, d)
    <3>1. Flow(p, p.code[d][j].id) = IF j < Len(p.code[d]) THEN {p.code[d][j + 1].id}
                                     ELSE {First(p, s) : s \in p.succ[d]}
      BY <2>1, FlowFacts
    <3> QED BY <3>1 DEF Firsts
  <2>2. \A d \in Blocks(q) : \A j \in Insts(q, d) :
            Flow(q, q.code[d][j].id) = IF j < Len(q.code[d]) THEN {q.code[d][j + 1].id}
                                       ELSE Firsts(q, d)
    BY <2>1
  <2>3. \A d \in Blocks(Q) : \A j \in Insts(Q, d) :
            Flow(Q, Q.code[d][j].id) = IF j < Len(Q.code[d]) THEN {Q.code[d][j + 1].id}
                                       ELSE Firsts(Q, d)
    BY <1>5, <2>1
  <2> QED BY <1>5, <2>2, <2>3
<1>16. ASSUME NEW d \in Blocks(q), d # b, NEW j \in Insts(q, d)
       PROVE  Flow(Q, q.code[d][j].id) = {R(i) : i \in Flow(q, q.code[d][j].id)}
  <2>1. Q.code[d] = q.code[d] /\ j \in Insts(Q, d)
    BY <1>6, <1>9, <1>16
  <2>2. Len(q.code[d]) \in Nat /\ Insts(q, d) = 1 .. Len(q.code[d])
    BY Shape
  <2>3. CASE j < Len(q.code[d])
    <3>1. j + 1 \in Insts(q, d) /\ <<d, j + 1>> # <<b, z>>
      BY <1>16, <2>2, <2>3
    <3>2. R(q.code[d][j + 1].id) = q.code[d][j + 1].id
      BY <1>12, <3>1
    <3>3. Flow(q, q.code[d][j].id) = {q.code[d][j + 1].id} /\ Flow(Q, q.code[d][j].id) = {q.code[d][j + 1].id}
      BY <1>15, <2>1, <2>3
    <3> QED BY <3>2, <3>3
  <2>4. CASE ~ (j < Len(q.code[d]))
    <3>1. Flow(q, q.code[d][j].id) = Firsts(q, d) /\ Flow(Q, q.code[d][j].id) = Firsts(Q, d)
      BY <1>15, <2>1, <2>4
    <3> QED BY <1>14, <3>1
  <2> QED BY <2>3, <2>4
<1>17. ASSUME NEW j \in 1 .. l
       PROVE  Flow(q, q.code[b][j].id) = IF j < l THEN {q.code[b][j + 1].id} ELSE Firsts(q, b)
  BY <1>2, <1>15
<1>18. ASSUME NEW j \in 1 .. l + k
       PROVE  Flow(Q, Q.code[b][j].id) = IF j < l + k THEN {Q.code[b][j + 1].id} ELSE Firsts(Q, b)
  BY <1>8, <1>15
<1>19. ASSUME NEW j \in 1 .. l, j < n
       PROVE  Flow(Q, q.code[b][j].id) = {R(i) : i \in Flow(q, q.code[b][j].id)}
  <2>1. j \in 1 .. n /\ j + 1 \in 1 .. n /\ j < l /\ j < l + k /\ j \in 1 .. l + k /\ j + 1 \in 1 .. l
    BY <1>2, <1>19
  <2>2. Flow(Q, q.code[b][j].id) = {q.code[b][j + 1].id}
    BY <1>7, <1>18, <2>1
  <2>3. Flow(q, q.code[b][j].id) = {q.code[b][j + 1].id}
    BY <1>17, <2>1
  <2>4. R(q.code[b][j + 1].id) = q.code[b][j + 1].id
    <3>1. CASE a.kind = "load"
      <4>1. j + 1 # z /\ j + 1 \in Insts(q, b)
        BY <1>2, <1>19, <2>1, <3>1
      <4> QED BY <1>12, <4>1
    <3>2. CASE a.kind # "load"
      BY <1>11, <3>2
    <3> QED BY <3>1, <3>2
  <2> QED BY <2>2, <2>3, <2>4
<1>20. ASSUME NEW j \in 1 .. l, j = n
       PROVE  Flow(Q, q.code[b][j].id) = IF a.kind = "store" THEN {e + 1}
                                         ELSE {R(i) : i \in Flow(q, q.code[b][j].id)}
  <2>1. j \in 1 .. n /\ j < l + k /\ j \in 1 .. l + k /\ 1 \in 1 .. k
    BY <1>20
  <2>2. Q.code[b][j + 1] = Code(q, a)[1] /\ Code(q, a)[1].id = e + 1
    BY <1>7, <1>10, <1>20, <2>1
  <2>3. Flow(Q, q.code[b][j].id) = {e + 1}
    BY <1>7, <1>18, <2>1, <2>2
  <2>4. CASE a.kind = "load"
    <3>1. j < l /\ j + 1 = z
      BY <1>2, <1>20, <2>4
    <3>2. Flow(q, q.code[b][j].id) = {i0}
      BY <1>4, <1>17, <3>1
    <3>3. R(i0) = e + 1
      BY <1>11, <2>4
    <3> QED BY <2>3, <2>4, <3>2, <3>3
  <2> QED BY <1>4, <2>3, <2>4
<1>21. ASSUME NEW j \in 1 .. l, j > n
       PROVE  Flow(Q, q.code[b][j].id) = {R(i) : i \in Flow(q, q.code[b][j].id)}
  <2>1. j + k \in 1 .. l + k /\ j \in n + 1 .. l /\ (j + k < l + k <=> j < l)
    BY <1>2, <1>21
  <2>2. Q.code[b][j + k] = q.code[b][j]
    BY <1>7, <2>1
  <2>3. CASE j < l
    <3>1. j + 1 \in n + 1 .. l /\ (j + 1) + k = (j + k) + 1
      BY <1>2, <1>21, <2>3
    <3>2. Q.code[b][(j + k) + 1] = q.code[b][j + 1]
      BY <1>7, <3>1
    <3>3. Flow(Q, q.code[b][j].id) = {q.code[b][j + 1].id}
      BY <1>18, <2>1, <2>2, <2>3, <3>2
    <3>4. Flow(q, q.code[b][j].id) = {q.code[b][j + 1].id}
      BY <1>17, <2>3
    <3>5. R(q.code[b][j + 1].id) = q.code[b][j + 1].id
      <4>1. CASE a.kind = "load"
        <5>1. j + 1 # z /\ j + 1 \in Insts(q, b)
          BY <1>2, <1>21, <2>3, <4>1
        <5> QED BY <1>12, <5>1
      <4>2. CASE a.kind # "load"
        BY <1>11, <4>2
      <4> QED BY <4>1, <4>2
    <3> QED BY <3>3, <3>4, <3>5
  <2>4. CASE ~ (j < l)
    <3>1. Flow(Q, q.code[b][j].id) = Firsts(Q, b)
      BY <1>18, <2>1, <2>2, <2>4
    <3>2. Flow(q, q.code[b][j].id) = Firsts(q, b)
      BY <1>17, <2>4
    <3> QED BY <1>14, <3>1, <3>2
  <2> QED BY <2>3, <2>4
<1>22. ASSUME NEW i \in Ids(q)
       PROVE  Flow(Q, i) = IF a.kind = "store" /\ i = i0 THEN {e + 1}
                           ELSE {R(j) : j \in Flow(q, i)}
  <2>1. PICK d \in Blocks(q) : \E j \in Insts(q, d) : i = q.code[d][j].id /\ PointOf(q, i) = <<d, j>>
    BY NodeFacts DEF InstAt
  <2>2. PICK j \in Insts(q, d) : i = q.code[d][j].id /\ PointOf(q, i) = <<d, j>>
    BY <2>1
  <2>3. i = i0 <=> <<d, j>> = <<b, z>>
    BY <1>4, <2>2
  <2>4. CASE d # b
    BY <1>16, <2>2, <2>3, <2>4
  <2>5. CASE d = b
    <3>1. PICK c \in 1 .. l : c = j
      BY <1>2, <2>5
    <3>2. a.kind = "store" => (i = i0 <=> c = n)
      BY <1>2, <2>3, <2>5, <3>1
    <3>2a. i = q.code[b][c].id
      BY <2>2, <2>5, <3>1
    <3>3. CASE c < n
      <4>1. Flow(Q, i) = {R(x) : x \in Flow(q, i)}
        BY <1>19, <3>2a, <3>3
      <4>2. ~ (a.kind = "store" /\ i = i0)
        BY <3>2, <3>3
      <4> QED BY <4>1, <4>2
    <3>4. CASE c = n
      BY <1>20, <2>2, <2>5, <3>1, <3>2, <3>4
    <3>5. CASE c > n
      <4>1. Flow(Q, i) = {R(x) : x \in Flow(q, i)}
        BY <1>21, <3>2a, <3>5
      <4>2. ~ (a.kind = "store" /\ i = i0)
        BY <3>2, <3>5
      <4> QED BY <4>1, <4>2
    <3> QED BY <3>3, <3>4, <3>5
  <2> QED BY <2>4, <2>5
<1>23. ASSUME NEW i \in 1 .. k - 1 PROVE Flow(Q, e + i) = {e + (i + 1)}
  <2>1. /\ i \in 1 .. k /\ i + 1 \in 1 .. k /\ n + i \in 1 .. l + k /\ n + i < l + k
        /\ n + (i + 1) = (n + i) + 1
    BY <1>2
  <2>2. Q.code[b][n + i].id = e + i /\ Q.code[b][(n + i) + 1].id = e + (i + 1)
    BY <1>7, <1>10, <2>1
  <2> QED BY <1>18, <2>1, <2>2
<1>24. Flow(Q, e + k) = IF a.kind = "load" THEN {i0} ELSE Flow(q, i0)
  <2>1. k \in 1 .. k /\ n + k \in 1 .. l + k /\ (n + k < l + k <=> n < l)
    BY <1>2
  <2>2. Q.code[b][n + k].id = e + k
    BY <1>7, <1>10, <2>1
  <2>3. CASE n < l
    <3>1. n + 1 \in n + 1 .. l /\ (n + 1) + k = (n + k) + 1
      BY <2>3
    <3>2. Q.code[b][(n + k) + 1] = q.code[b][n + 1]
      BY <1>7, <3>1
    <3>3. Flow(Q, e + k) = {q.code[b][n + 1].id}
      BY <1>18, <2>1, <2>2, <2>3, <3>2
    <3>4. CASE a.kind = "load"
      BY <1>2, <1>4, <3>3, <3>4
    <3>5. CASE a.kind = "store"
      <4>1. z = n /\ z \in 1 .. l
        BY <1>2, <3>5
      <4>2. Flow(q, i0) = {q.code[b][n + 1].id}
        BY <1>4, <1>17, <2>3, <4>1
      <4> QED BY <3>3, <3>5, <4>2
    <3> QED BY <1>4, <3>4, <3>5
  <2>4. CASE ~ (n < l)
    <3>1. a.kind = "store" /\ z = n /\ z \in 1 .. l
      BY <1>2, <1>4, <2>4
    <3>2. Flow(q, i0) = Firsts(q, b)
      BY <1>4, <1>17, <2>4, <3>1
    <3>3. Flow(Q, e + k) = Firsts(Q, b)
      BY <1>18, <2>1, <2>2, <2>4
    <3>4. Firsts(Q, b) = Firsts(q, b)
      BY <1>11, <1>14, <3>1
    <3> QED BY <3>1, <3>2, <3>3, <3>4
  <2> QED BY <2>3, <2>4
<1>25. \A i \in Ids(q) : ~ (a.kind = "store" /\ i = i0) =>
                          Flow(Q, i) = {Redirect(q, a, j) : j \in Flow(q, i)}
  <2>1. ASSUME NEW i \in Ids(q), ~ (a.kind = "store" /\ i = i0) PROVE Flow(Q, i) = {R(j) : j \in Flow(q, i)}
    BY <1>22, <2>1
  <2> QED BY <2>1 DEF R
<1>26. a.kind = "store" => Flow(Q, i0) = {e + 1}
  BY <1>4, <1>22
<1>27. \A d \in Blocks(q) : First(Q, d) = Redirect(q, a, First(q, d))
  BY <1>13 DEF R
<1>28. (a.kind = "load" => Flow(Q, e + k) = {i0}) /\ (a.kind = "store" => Flow(Q, e + k) = Flow(q, i0))
  BY <1>24
<1>29. IsFlow(q, a, Q, e, k, i0)
  BY <1>23, <1>25, <1>26, <1>27, <1>28 DEF IsFlow
<1> QED BY <1>1, <1>3, <1>29

(***************************************************************************)
(* Liveness with the access in the function.                               *)
(***************************************************************************)
Apt(q, a) ==
  /\ WellFormed(q) /\ UsesOwned(q) /\ Legal(q, a)
  /\ a.kind = "load" => a.op \in Node(q, Owner(q, a)).use
  /\ a.kind = "store" => a.op \in Node(q, Owner(q, a)).def

IsWriting(q, a, Q, e, k) ==
  /\ \A i \in 1 .. k : \A o \in Node(Q, e + i).def \cup Node(Q, e + i).use :
       o \in DOMAIN Q.reg /\ o \notin DOMAIN q.reg /\ Q.parent[o] = e + i
  /\ \A i \in 1 .. k - 1 : \A u \in DOMAIN q.reg : ~Writes(Q, e + i, q.reg[u])
  /\ \A r : Writes(Q, e + k, r) => a.kind = "load" /\ r = RegOf(q, a)
  /\ a.kind = "load" => Writes(Q, e + k, RegOf(q, a))
  /\ \A i \in Ids(q) : \A r : Writes(Q, i, r) <=> Writes(q, i, r)

\* NewNodes: what the new instructions write and where their operands are.
LEMMA NewNodes ==
  ASSUME NEW q, NEW a, Apt(q, a), NEW Q, Q = SpillOperand(q, a)
  PROVE  IsWriting(q, a, Q, q.ids, Size(q, a))
<1>0. WellFormed(q) /\ Legal(q, a) /\ a.kind \in {"load", "store"}
  BY DEF Apt, Legal
<1>1. PICK k \in 1 .. 3 : k = Size(q, a)
  BY <1>0, Measures
<1>2. PICK e \in Nat, g \in Nat : e = q.ids /\ g = q.labels
  BY <1>0, OperandFacts
<1>3. \A i \in 1 .. k : Node(Q, e + i) = Code(q, a)[i]
  BY <1>0, <1>1, <1>2, NodesKept
<1>4. /\ \A i \in 1 .. k : OperandNode(q, Q, a, i)
      /\ \A i \in 1 .. k - 1 : AddressNode(q, Q, a, i)
      /\ AccessNode(q, Q, a)
  BY <1>0, <1>1, AccessFacts
<1>5. \A i \in 1 .. k : \A o \in Node(Q, e + i).def \cup Node(Q, e + i).use :
        o \in DOMAIN Q.reg /\ o \notin DOMAIN q.reg /\ Q.parent[o] = e + i
  BY <1>2, <1>3, <1>4 DEF OperandNode
<1>6. ASSUME NEW i \in 1 .. k - 1, NEW u \in DOMAIN q.reg PROVE ~Writes(Q, e + i, q.reg[u])
  <2>1. q.reg[u] \in 0 .. g
    BY <1>0, <1>2, OperandFacts
  <2>2. \A d \in Code(q, a)[i].def : Q.reg[d] = g + i
    BY <1>2, <1>4 DEF AddressNode
  <2>3. i \in 1 .. k /\ g + i # q.reg[u]
    BY <2>1
  <2> QED BY <1>3, <2>2, <2>3 DEF Writes
<1>7. Node(Q, e + k) = Code(q, a)[k]
  <2>1. k \in 1 .. k
    OBVIOUS
  <2> QED BY <1>3, <2>1
<1>8. /\ a.kind = "load" => Code(q, a)[k].def # {} /\ \A d \in Code(q, a)[k].def : Q.reg[d] = RegOf(q, a)
      /\ a.kind = "store" => Code(q, a)[k].def = {}
  BY <1>1, <1>4 DEF AccessNode
<1>9. /\ \A r : Writes(Q, e + k, r) => a.kind = "load" /\ r = RegOf(q, a)
      /\ a.kind = "load" => Writes(Q, e + k, RegOf(q, a))
  BY <1>0, <1>7, <1>8 DEF Writes
<1>10. ASSUME NEW i \in Ids(q), NEW r PROVE Writes(Q, i, r) <=> Writes(q, i, r)
  <2>1. Node(Q, i) = Node(q, i) /\ Node(q, i).def \subseteq DOMAIN q.reg
    BY <1>0, NodesKept, NodeFacts
  <2>2. \A d \in DOMAIN q.reg : Q.reg[d] = q.reg[d]
    BY <1>0, NewFunction
  <2> QED BY <2>1, <2>2 DEF Writes
<1>11. IsWriting(q, a, Q, e, k)
  BY <1>5, <1>6, <1>9, <1>10 DEF IsWriting
<1> QED BY <1>1, <1>2, <1>11

\* At the new instructions an old use is live when it is behind them.
Beyond(q, a, u) ==
  IF a.kind = "load" THEN LiveAt(q, u, Owner(q, a)) ELSE LiveAfter(q, u, Owner(q, a))

\* LiveBefore: an access makes no old use live where it was not.
LEMMA LiveBefore ==
  ASSUME NEW q, NEW a, Apt(q, a), NEW Q, Q = SpillOperand(q, a), NEW u \in DOMAIN q.reg
  PROVE  /\ \A i \in Ids(q) : LiveAt(Q, u, i) => LiveAt(q, u, i)
         /\ \A d \in Blocks(q) : LiveAt(Q, u, First(Q, d)) => LiveAt(q, u, First(q, d))
<1> DEFINE S == {i \in Ids(q) : LiveAt(q, u, i)} \cup {i \in NewIds(q, a) : Beyond(q, a, u)}
<1>0. WellFormed(q) /\ Legal(q, a) /\ a.kind \in {"load", "store"} /\ WellFormed(Q)
  BY NewFunction DEF Apt, Legal
<1>1. PICK k \in 1 .. 3 : k = Size(q, a)
  BY <1>0, Measures
<1>2. PICK e, i0 : e \in Nat /\ e = q.ids /\ i0 = Owner(q, a)
  BY <1>0, OperandFacts
<1> e \in Nat
  BY <1>2
<1>f. /\ \A d \in Blocks(q) : First(Q, d) = Redirect(q, a, First(q, d))
      /\ \A i \in Ids(q) : ~ (a.kind = "store" /\ i = i0) =>
                           Flow(Q, i) = {Redirect(q, a, j) : j \in Flow(q, i)}
      /\ a.kind = "store" => Flow(Q, i0) = {e + 1}
      /\ \A i \in 1 .. k - 1 : Flow(Q, e + i) = {e + (i + 1)}
      /\ a.kind = "load" => Flow(Q, e + k) = {i0}
      /\ a.kind = "store" => Flow(Q, e + k) = Flow(q, i0)
  <2>1. IsFlow(q, a, Q, e, k, i0)
    BY <1>0, <1>1, <1>2, FlowKept
  <2> QED BY <2>1 DEF IsFlow
<1>n. /\ \A i \in 1 .. k : \A o \in Node(Q, e + i).def \cup Node(Q, e + i).use :
           o \in DOMAIN Q.reg /\ o \notin DOMAIN q.reg /\ Q.parent[o] = e + i
      /\ \A i \in 1 .. k - 1 : \A x \in DOMAIN q.reg : ~Writes(Q, e + i, q.reg[x])
      /\ \A r : Writes(Q, e + k, r) => a.kind = "load" /\ r = RegOf(q, a)
      /\ a.kind = "load" => Writes(Q, e + k, RegOf(q, a))
      /\ \A i \in Ids(q) : \A r : Writes(Q, i, r) <=> Writes(q, i, r)
  <2>1. IsWriting(q, a, Q, e, k)
    BY <1>0, <1>1, <1>2, NewNodes
  <2> QED BY <2>1 DEF IsWriting
<1>3. Ids(Q) = Ids(q) \cup NewIds(q, a) /\ Ids(q) \cap NewIds(q, a) = {} /\ i0 \in Ids(q)
      /\ NewIds(q, a) = {e + i : i \in 1 .. k}
  BY <1>0, <1>1, <1>2, NodesKept DEF NewIds
<1>4. Q.reg[u] = q.reg[u]
  BY <1>0, NewFunction
<1>5. e + 1 \in NewIds(q, a)
  <2>1. 1 \in 1 .. k
    OBVIOUS
  <2> QED BY <1>3, <2>1
<1>6. \A j \in Ids(q) : Redirect(q, a, j) \in S => LiveAt(q, u, j)
  BY <1>2, <1>3, <1>5 DEF Redirect, Beyond
<1>7. ASSUME NEW i \in Ids(q),
             \/ u \in Node(Q, i).use
             \/ ~Writes(Q, i, Q.reg[u]) /\ Flow(Q, i) \cap S # {}
      PROVE  LiveAt(q, u, i)
  <2>1. CASE u \in Node(Q, i).use
    <3>1. Node(Q, i) = Node(q, i)
      BY <1>0, NodesKept
    <3> QED BY <1>0, <2>1, <3>1, LiveClosed
  <2>2. CASE ~Writes(Q, i, Q.reg[u]) /\ Flow(Q, i) \cap S # {}
    <3>1. ~Writes(q, i, q.reg[u])
      BY <1>4, <2>2, <1>n
    <3>2. LiveAfter(q, u, i)
      <4>1. CASE a.kind = "store" /\ i = i0
        <5>1. Flow(Q, i) = {e + 1}
          BY <1>0, <1>2, <4>1, <1>f
        <5>2. e + 1 \in S
          BY <2>2, <5>1
        <5> QED BY <1>2, <1>3, <1>5, <4>1, <5>2 DEF Beyond
      <4>2. CASE ~ (a.kind = "store" /\ i = i0)
        <5>1. Flow(Q, i) = {Redirect(q, a, j) : j \in Flow(q, i)}
          BY <1>0, <1>2, <4>2, <1>f
        <5>2. PICK j \in Flow(q, i) : Redirect(q, a, j) \in S
          BY <2>2, <5>1
        <5>3. j \in Ids(q)
          BY <1>0, FlowFacts
        <5> QED BY <1>6, <5>2, <5>3 DEF LiveAfter, LiveAt
      <4> QED BY <4>1, <4>2
    <3> QED BY <1>0, <3>1, <3>2, LiveClosed
  <2> QED BY <1>7, <2>1, <2>2
<1>8. ASSUME NEW i \in 1 .. k,
             \/ u \in Node(Q, e + i).use
             \/ ~Writes(Q, e + i, Q.reg[u]) /\ Flow(Q, e + i) \cap S # {}
      PROVE  Beyond(q, a, u)
  <2>1. u \notin Node(Q, e + i).use
    BY <1>1, <1>2, <1>n
  <2>2. CASE i # k
    <3>1. i \in 1 .. k - 1 /\ i + 1 \in 1 .. k
      BY <2>2
    <3>2. Flow(Q, e + i) = {e + (i + 1)}
      BY <1>0, <1>1, <1>2, <3>1, <1>f
    <3>3. e + (i + 1) \in NewIds(q, a)
      BY <1>3, <3>1
    <3> QED BY <1>3, <1>8, <2>1, <3>2, <3>3
  <2>3. CASE i = k
    <3>1. Flow(Q, e + k) = IF a.kind = "load" THEN {i0} ELSE Flow(q, i0)
      BY <1>0, <1>1, <1>2, <1>f
    <3>2. Flow(q, i0) \subseteq Ids(q)
      BY <1>0, <1>3, FlowFacts
    <3>3. PICK j \in Flow(Q, e + k) : j \in S
      BY <1>8, <2>1, <2>3
    <3>4. j \in Ids(q) /\ LiveAt(q, u, j)
      BY <1>3, <3>1, <3>2, <3>3
    <3> QED BY <1>2, <3>1, <3>4 DEF Beyond, LiveAfter, LiveAt
  <2> QED BY <2>2, <2>3
<1>9. Needs(Q, u, S)
  <2> SUFFICES ASSUME NEW i \in Ids(Q),
                      \/ u \in Node(Q, i).use
                      \/ ~Writes(Q, i, Q.reg[u]) /\ Flow(Q, i) \cap S # {}
               PROVE  i \in S
    BY DEF Needs
  <2>1. CASE i \in Ids(q)
    <3>1. LiveAt(q, u, i)
      BY <1>7, <2>1
    <3> QED BY <2>1, <3>1
  <2>2. CASE i \in NewIds(q, a)
    <3>1. PICK j \in 1 .. k : i = e + j
      BY <1>3, <2>2
    <3>2. Beyond(q, a, u)
      BY <1>8, <3>1
    <3> QED BY <2>2, <3>2
  <2> QED BY <1>3, <2>1, <2>2
<1>10. \A i : LiveAt(Q, u, i) => i \in S
  <2> HIDE DEF S
  <2> QED BY <1>0, <1>9, LiveLeast
<1>11. ASSUME NEW d \in Blocks(q), LiveAt(Q, u, First(Q, d)) PROVE LiveAt(q, u, First(q, d))
  <2>1. First(Q, d) = Redirect(q, a, First(q, d)) /\ First(q, d) \in Ids(q)
    BY <1>0, <1>f, FlowFacts
  <2> QED BY <1>6, <1>10, <1>11, <2>1
<1> QED BY <1>3, <1>10, <1>11

\* LiveReloaded: the use that is loaded is live only in front of its instruction.
LEMMA LiveReloaded ==
  ASSUME NEW q, NEW a, Apt(q, a), NEW Q, Q = SpillOperand(q, a), a.kind = "load"
  PROVE  \A d \in Blocks(q) : ~LiveAt(Q, a.op, First(Q, d))
<1>0. /\ WellFormed(q) /\ Legal(q, a) /\ WellFormed(Q) /\ UsesOwned(Q) /\ a.op \in DOMAIN q.reg
      /\ Q.reg[a.op] = RegOf(q, a) /\ Q.parent[a.op] = Owner(q, a)
  BY NewFunction DEF Apt, Legal, RegOf, Owner
<1>1. PICK k \in 1 .. 3 : k = Size(q, a)
  BY <1>0, Measures
<1>2. PICK e, i0 : e \in Nat /\ e = q.ids /\ i0 = Owner(q, a)
  BY <1>0, OperandFacts
<1> e \in Nat
  BY <1>2
<1>f. /\ \A d \in Blocks(q) : First(Q, d) = Redirect(q, a, First(q, d))
      /\ \A i \in Ids(q) : ~ (a.kind = "store" /\ i = i0) =>
                           Flow(Q, i) = {Redirect(q, a, j) : j \in Flow(q, i)}
      /\ a.kind = "store" => Flow(Q, i0) = {e + 1}
      /\ \A i \in 1 .. k - 1 : Flow(Q, e + i) = {e + (i + 1)}
      /\ a.kind = "load" => Flow(Q, e + k) = {i0}
      /\ a.kind = "store" => Flow(Q, e + k) = Flow(q, i0)
  <2>1. IsFlow(q, a, Q, e, k, i0)
    BY <1>0, <1>1, <1>2, FlowKept
  <2> QED BY <2>1 DEF IsFlow
<1>n. /\ \A i \in 1 .. k : \A o \in Node(Q, e + i).def \cup Node(Q, e + i).use :
           o \in DOMAIN Q.reg /\ o \notin DOMAIN q.reg /\ Q.parent[o] = e + i
      /\ \A i \in 1 .. k - 1 : \A x \in DOMAIN q.reg : ~Writes(Q, e + i, q.reg[x])
      /\ \A r : Writes(Q, e + k, r) => a.kind = "load" /\ r = RegOf(q, a)
      /\ a.kind = "load" => Writes(Q, e + k, RegOf(q, a))
      /\ \A i \in Ids(q) : \A r : Writes(Q, i, r) <=> Writes(q, i, r)
  <2>1. IsWriting(q, a, Q, e, k)
    BY <1>0, <1>1, <1>2, NewNodes
  <2> QED BY <2>1 DEF IsWriting
<1>3. Ids(Q) = Ids(q) \cup NewIds(q, a) /\ Ids(q) \cap NewIds(q, a) = {} /\ i0 \in Ids(q)
      /\ NewIds(q, a) = {e + i : i \in 1 .. k}
  BY <1>0, <1>1, <1>2, NodesKept DEF NewIds
<1>4. e + 1 \in NewIds(q, a)
  <2>1. 1 \in 1 .. k
    OBVIOUS
  <2> QED BY <1>3, <2>1
<1>5. \A j : Redirect(q, a, j) # i0
  BY <1>2, <1>3, <1>4 DEF Redirect
<1>6. Needs(Q, a.op, {i0})
  <2> SUFFICES ASSUME NEW i \in Ids(Q),
                      \/ a.op \in Node(Q, i).use
                      \/ ~Writes(Q, i, Q.reg[a.op]) /\ Flow(Q, i) \cap {i0} # {}
               PROVE  i = i0
    BY DEF Needs
  <2>1. CASE a.op \in Node(Q, i).use
    BY <1>0, <1>2, <2>1 DEF UsesOwned
  <2>2. CASE ~Writes(Q, i, Q.reg[a.op]) /\ i0 \in Flow(Q, i)
    <3>1. CASE i \in Ids(q)
      <4>1. Flow(Q, i) = {Redirect(q, a, j) : j \in Flow(q, i)}
        BY <1>0, <3>1, <1>f
      <4> QED BY <1>5, <2>2, <4>1
    <3>2. CASE i \in NewIds(q, a)
      <4>1. PICK j \in 1 .. k : i = e + j
        BY <1>3, <3>2
      <4>2. CASE j = k
        <5>1. Writes(Q, e + k, RegOf(q, a))
          BY <1>1, <1>2, <1>n
        <5> QED BY <1>0, <2>2, <4>1, <4>2, <5>1
      <4>3. CASE j # k
        <5>1. j \in 1 .. k - 1 /\ j + 1 \in 1 .. k
          BY <4>3
        <5>2. Flow(Q, e + j) = {e + (j + 1)}
          BY <1>0, <1>1, <1>2, <5>1, <1>f
        <5>3. e + (j + 1) \in NewIds(q, a)
          BY <1>3, <5>1
        <5> QED BY <1>3, <2>2, <4>1, <5>2, <5>3
      <4> QED BY <4>2, <4>3
    <3> QED BY <1>3, <3>1, <3>2
  <2> QED BY <2>1, <2>2
<1>7. ASSUME NEW d \in Blocks(q) PROVE ~LiveAt(Q, a.op, First(Q, d))
  <2>1. First(Q, d) # i0
    BY <1>0, <1>5, <1>f
  <2> QED BY <1>0, <1>6, <2>1, LiveLeast
<1> QED BY <1>7

\* LiveInside: no operand of the new instructions is live into a block.
LEMMA LiveInside ==
  ASSUME NEW q, NEW a, Apt(q, a), NEW Q, Q = SpillOperand(q, a), NEW u, u \notin DOMAIN q.reg
  PROVE  \A d \in Blocks(q) : ~LiveAt(Q, u, First(Q, d))
<1>0. WellFormed(q) /\ Legal(q, a) /\ WellFormed(Q) /\ UsesOwned(Q) /\ a.kind \in {"load", "store"}
  BY NewFunction DEF Apt, Legal
<1>1. PICK k \in 1 .. 3 : k = Size(q, a)
  BY <1>0, Measures
<1>2. PICK e, i0 : e \in Nat /\ e = q.ids /\ i0 = Owner(q, a)
  BY <1>0, OperandFacts
<1> e \in Nat
  BY <1>2
<1>f. /\ \A d \in Blocks(q) : First(Q, d) = Redirect(q, a, First(q, d))
      /\ \A i \in Ids(q) : ~ (a.kind = "store" /\ i = i0) =>
                           Flow(Q, i) = {Redirect(q, a, j) : j \in Flow(q, i)}
      /\ a.kind = "store" => Flow(Q, i0) = {e + 1}
      /\ \A i \in 1 .. k - 1 : Flow(Q, e + i) = {e + (i + 1)}
      /\ a.kind = "load" => Flow(Q, e + k) = {i0}
      /\ a.kind = "store" => Flow(Q, e + k) = Flow(q, i0)
  <2>1. IsFlow(q, a, Q, e, k, i0)
    BY <1>0, <1>1, <1>2, FlowKept
  <2> QED BY <2>1 DEF IsFlow
<1>n. /\ \A i \in 1 .. k : \A o \in Node(Q, e + i).def \cup Node(Q, e + i).use :
           o \in DOMAIN Q.reg /\ o \notin DOMAIN q.reg /\ Q.parent[o] = e + i
      /\ \A i \in 1 .. k - 1 : \A x \in DOMAIN q.reg : ~Writes(Q, e + i, q.reg[x])
      /\ \A r : Writes(Q, e + k, r) => a.kind = "load" /\ r = RegOf(q, a)
      /\ a.kind = "load" => Writes(Q, e + k, RegOf(q, a))
      /\ \A i \in Ids(q) : \A r : Writes(Q, i, r) <=> Writes(q, i, r)
  <2>1. IsWriting(q, a, Q, e, k)
    BY <1>0, <1>1, <1>2, NewNodes
  <2> QED BY <2>1 DEF IsWriting
<1>3. Ids(Q) = Ids(q) \cup NewIds(q, a) /\ Ids(q) \cap NewIds(q, a) = {} /\ i0 \in Ids(q)
      /\ NewIds(q, a) = {e + i : i \in 1 .. k}
  BY <1>0, <1>1, <1>2, NodesKept DEF NewIds
<1>4. \A i \in 1 .. k : /\ Node(Q, e + i) = Code(q, a)[i] /\ UseNode(q, Q, a, i)
                        /\ e + i \in NewIds(q, a)
  BY <1>0, <1>1, <1>2, <1>3, NodesKept, AccessFacts
<1>5. \A i \in Ids(q) : u \notin Node(Q, i).use
  BY <1>0, NodesKept, NodeFacts
<1>6. ASSUME NEW i \in Ids(Q), u \in Node(Q, i).use PROVE Q.parent[u] = i
  BY <1>0, <1>6 DEF UsesOwned
<1>7. ASSUME NEW d \in Blocks(q), LiveAt(Q, u, First(Q, d)) PROVE FALSE
  <2>1. PICK i \in 1 .. k : u \in Node(Q, e + i).use
    <3>1. u \in AllUses(Q)
      BY <1>0, <1>7, LiveOfUse
    <3>2. PICK j \in Ids(Q) : u \in Node(Q, j).use
      BY <1>0, <3>1, UseFacts
    <3> QED BY <1>3, <1>5, <3>2
  <2>2. First(Q, d) = Redirect(q, a, First(q, d)) /\ First(q, d) \in Ids(q)
    BY <1>0, <1>f, FlowFacts
  <2>3. CASE i - 1 \in 1 .. k - 1 /\ \E f \in Code(q, a)[i - 1].def : Q.reg[f] = Q.reg[u]
    <3>1. PICK h \in 1 .. k - 1 : h = i - 1
      BY <2>3
    <3>2. h \in 1 .. k /\ e + (h + 1) = e + i /\ e + i # e + 1
      BY <3>1
    <3>3. Writes(Q, e + h, Q.reg[u])
      BY <1>4, <2>3, <3>1, <3>2 DEF Writes
    <3>4. \A j : Redirect(q, a, j) = e + i => j = e + i
      BY <1>2, <3>2 DEF Redirect
    <3>5. Needs(Q, u, {e + i})
      <4> SUFFICES ASSUME NEW j \in Ids(Q),
                          \/ u \in Node(Q, j).use
                          \/ ~Writes(Q, j, Q.reg[u]) /\ e + i \in Flow(Q, j)
                   PROVE  j = e + i
        BY DEF Needs
      <4>1. CASE u \in Node(Q, j).use
        BY <1>3, <1>4, <1>6, <2>1, <4>1
      <4>2. CASE ~Writes(Q, j, Q.reg[u]) /\ e + i \in Flow(Q, j)
        <5>1. e + i \in NewIds(q, a) /\ e + i \notin Ids(q) /\ Flow(q, i0) \subseteq Ids(q)
          BY <1>0, <1>3, <1>4, FlowFacts
        <5>2. CASE j \in Ids(q)
          <6>1. \/ Flow(Q, j) = {e + 1}
                \/ Flow(Q, j) = {Redirect(q, a, x) : x \in Flow(q, j)}
            BY <1>0, <1>2, <5>2, <1>f
          <6>2. Flow(q, j) \subseteq Ids(q)
            BY <1>0, <5>2, FlowFacts
          <6> QED BY <3>2, <3>4, <4>2, <5>1, <6>1, <6>2
        <5>3. CASE j \in NewIds(q, a)
          <6>1. PICK x \in 1 .. k : j = e + x
            BY <1>3, <5>3
          <6>2. CASE x = k
            <7>1. Flow(Q, e + k) = IF a.kind = "load" THEN {i0} ELSE Flow(q, i0)
              BY <1>0, <1>1, <1>2, <1>f
            <7> QED BY <1>3, <4>2, <5>1, <6>1, <6>2, <7>1
          <6>3. CASE x # k
            <7>1. x \in 1 .. k - 1
              BY <6>3
            <7>2. Flow(Q, e + x) = {e + (x + 1)}
              BY <1>0, <1>1, <1>2, <7>1, <1>f
            <7>3. e + i = e + (x + 1)
              BY <4>2, <6>1, <7>2
            <7>4. x = h
              BY <3>1, <7>3
            <7> QED BY <3>3, <4>2, <6>1, <7>4
          <6> QED BY <6>2, <6>3
        <5> QED BY <1>3, <5>2, <5>3
      <4> QED BY <4>1, <4>2
    <3>6. First(Q, d) = e + i
      BY <1>0, <1>7, <3>5, LiveLeast
    <3>7. e + i \notin Ids(q)
      BY <1>3, <1>4
    <3> QED BY <2>2, <3>4, <3>6, <3>7
  <2>4. CASE i = k /\ a.kind = "store" /\ Q.reg[u] = RegOf(q, a)
    <3>1. \A j : Redirect(q, a, j) = j
      BY <2>4 DEF Redirect
    <3>2. Writes(Q, i0, Q.reg[u])
      <4>1. a.op \in Node(q, i0).def
        BY <1>2, <2>4 DEF Apt
      <4>2. Writes(q, i0, RegOf(q, a))
        BY <4>1 DEF Writes, RegOf
      <4> QED BY <1>3, <2>4, <4>2, <1>n
    <3>3. Needs(Q, u, NewIds(q, a))
      <4> SUFFICES ASSUME NEW j \in Ids(q),
                          \/ u \in Node(Q, j).use
                          \/ ~Writes(Q, j, Q.reg[u]) /\ Flow(Q, j) \cap NewIds(q, a) # {}
                   PROVE  FALSE
        BY <1>3 DEF Needs
      <4>1. ~Writes(Q, j, Q.reg[u]) /\ Flow(Q, j) \cap NewIds(q, a) # {}
        BY <1>5
      <4>2. j # i0
        BY <3>2, <4>1
      <4>3. Flow(Q, j) = {Redirect(q, a, x) : x \in Flow(q, j)}
        BY <1>0, <1>2, <4>2, <1>f
      <4>4. Flow(q, j) \subseteq Ids(q)
        BY <1>0, FlowFacts
      <4> QED BY <1>3, <3>1, <4>1, <4>3, <4>4
    <3>4. First(Q, d) \in NewIds(q, a)
      BY <1>0, <1>7, <3>3, LiveLeast
    <3> QED BY <1>3, <2>2, <3>1, <3>4
  <2>5. \/ i - 1 \in 1 .. k - 1 /\ \E f \in Code(q, a)[i - 1].def : Q.reg[f] = Q.reg[u]
        \/ i = k /\ a.kind = "store" /\ Q.reg[u] = RegOf(q, a)
    BY <1>1, <1>4, <2>1 DEF UseNode
  <2> QED BY <2>3, <2>4, <2>5
<1> QED BY <1>7

\* LiveThrough: a use of another register stays live through the access.
LEMMA LiveThrough ==
  ASSUME NEW q, NEW a, Apt(q, a), NEW Q, Q = SpillOperand(q, a), NEW u \in DOMAIN q.reg,
         a.kind = "load" => q.reg[u] # RegOf(q, a),
         LiveAfter(Q, u, q.ids + Size(q, a))
  PROVE  LiveAt(Q, u, q.ids + 1)
<1>0. WellFormed(q) /\ Legal(q, a) /\ WellFormed(Q) /\ Q.reg[u] = q.reg[u]
  BY NewFunction DEF Apt
<1>1. PICK k \in 1 .. 3 : k = Size(q, a)
  BY <1>0, Measures
<1>2. PICK e, i0 : e \in Nat /\ e = q.ids /\ i0 = Owner(q, a)
  BY <1>0, OperandFacts
<1> e \in Nat
  BY <1>2
<1>f. /\ \A d \in Blocks(q) : First(Q, d) = Redirect(q, a, First(q, d))
      /\ \A i \in Ids(q) : ~ (a.kind = "store" /\ i = i0) =>
                           Flow(Q, i) = {Redirect(q, a, j) : j \in Flow(q, i)}
      /\ a.kind = "store" => Flow(Q, i0) = {e + 1}
      /\ \A i \in 1 .. k - 1 : Flow(Q, e + i) = {e + (i + 1)}
      /\ a.kind = "load" => Flow(Q, e + k) = {i0}
      /\ a.kind = "store" => Flow(Q, e + k) = Flow(q, i0)
  <2>1. IsFlow(q, a, Q, e, k, i0)
    BY <1>0, <1>1, <1>2, FlowKept
  <2> QED BY <2>1 DEF IsFlow
<1>n. /\ \A i \in 1 .. k : \A o \in Node(Q, e + i).def \cup Node(Q, e + i).use :
           o \in DOMAIN Q.reg /\ o \notin DOMAIN q.reg /\ Q.parent[o] = e + i
      /\ \A i \in 1 .. k - 1 : \A x \in DOMAIN q.reg : ~Writes(Q, e + i, q.reg[x])
      /\ \A r : Writes(Q, e + k, r) => a.kind = "load" /\ r = RegOf(q, a)
      /\ a.kind = "load" => Writes(Q, e + k, RegOf(q, a))
      /\ \A i \in Ids(q) : \A r : Writes(Q, i, r) <=> Writes(q, i, r)
  <2>1. IsWriting(q, a, Q, e, k)
    BY <1>0, <1>1, <1>2, NewNodes
  <2> QED BY <2>1 DEF IsWriting
<1>3. \A i \in 1 .. k : e + i \in Ids(Q)
  BY <1>0, <1>1, <1>2, NodesKept
<1>4. LiveAt(Q, u, e + k)
  <2>1. k \in 1 .. k
    OBVIOUS
  <2>2. ~Writes(Q, e + k, Q.reg[u])
    BY <1>0, <1>1, <1>2, <1>n
  <2> QED BY <1>0, <1>1, <1>2, <1>3, <2>1, <2>2, LiveClosed
<1>5. ASSUME NEW i \in 1 .. k - 1, LiveAt(Q, u, e + (i + 1)) PROVE LiveAt(Q, u, e + i)
  <2>1. Flow(Q, e + i) = {e + (i + 1)}
    BY <1>0, <1>1, <1>2, <1>f
  <2>2. ~Writes(Q, e + i, Q.reg[u])
    BY <1>0, <1>1, <1>2, <1>n
  <2>3. e + i \in Ids(Q)
    BY <1>3
  <2>4. LiveAfter(Q, u, e + i)
    BY <1>5, <2>1 DEF LiveAfter, LiveAt
  <2> QED BY <1>0, <2>2, <2>3, <2>4, LiveClosed
<1>6. CASE k = 1
  BY <1>2, <1>4, <1>6
<1>7. CASE k = 2
  <2>1. 1 \in 1 .. k - 1 /\ e + k = e + (1 + 1)
    BY <1>7
  <2> QED BY <1>2, <1>4, <1>5, <2>1
<1>8. CASE k = 3
  <2>1. 1 \in 1 .. k - 1 /\ 2 \in 1 .. k - 1 /\ e + k = e + (2 + 1) /\ e + 2 = e + (1 + 1)
    BY <1>8
  <2>2. LiveAt(Q, u, e + 2)
    BY <1>4, <1>5, <2>1
  <2> QED BY <1>2, <1>5, <2>1, <2>2
<1> QED BY <1>6, <1>7, <1>8

\* LiveStill: a use the load has nothing to do with stays live.
LEMMA LiveStill ==
  ASSUME NEW q, NEW a, Apt(q, a), NEW Q, Q = SpillOperand(q, a), NEW u \in DOMAIN q.reg,
         a.kind = "load" /\ q.reg[u] = RegOf(q, a) => ~LiveAt(q, u, Owner(q, a))
  PROVE  \A i \in Ids(q) : LiveAfter(q, u, i) => LiveAfter(Q, u, i)
<1>0. /\ WellFormed(q) /\ Legal(q, a) /\ WellFormed(Q) /\ Q.reg[u] = q.reg[u]
      /\ a.kind \in {"load", "store"}
  BY NewFunction DEF Apt, Legal
<1>1. PICK k \in 1 .. 3 : k = Size(q, a)
  BY <1>0, Measures
<1>2. PICK e, i0 : e \in Nat /\ e = q.ids /\ i0 = Owner(q, a)
  BY <1>0, OperandFacts
<1> e \in Nat
  BY <1>2
<1>f. /\ \A d \in Blocks(q) : First(Q, d) = Redirect(q, a, First(q, d))
      /\ \A i \in Ids(q) : ~ (a.kind = "store" /\ i = i0) =>
                           Flow(Q, i) = {Redirect(q, a, j) : j \in Flow(q, i)}
      /\ a.kind = "store" => Flow(Q, i0) = {e + 1}
      /\ \A i \in 1 .. k - 1 : Flow(Q, e + i) = {e + (i + 1)}
      /\ a.kind = "load" => Flow(Q, e + k) = {i0}
      /\ a.kind = "store" => Flow(Q, e + k) = Flow(q, i0)
  <2>1. IsFlow(q, a, Q, e, k, i0)
    BY <1>0, <1>1, <1>2, FlowKept
  <2> QED BY <2>1 DEF IsFlow
<1>n. /\ \A i \in 1 .. k : \A o \in Node(Q, e + i).def \cup Node(Q, e + i).use :
           o \in DOMAIN Q.reg /\ o \notin DOMAIN q.reg /\ Q.parent[o] = e + i
      /\ \A i \in 1 .. k - 1 : \A x \in DOMAIN q.reg : ~Writes(Q, e + i, q.reg[x])
      /\ \A r : Writes(Q, e + k, r) => a.kind = "load" /\ r = RegOf(q, a)
      /\ a.kind = "load" => Writes(Q, e + k, RegOf(q, a))
      /\ \A i \in Ids(q) : \A r : Writes(Q, i, r) <=> Writes(q, i, r)
  <2>1. IsWriting(q, a, Q, e, k)
    BY <1>0, <1>1, <1>2, NewNodes
  <2> QED BY <2>1 DEF IsWriting
<1>3. i0 \in Ids(q)
  BY <1>0, <1>2 DEF Legal
<1>4. ASSUME NEW i \in Ids(q), NEW j \in Flow(q, i), LiveAt(q, u, j), LiveAt(Q, u, j)
      PROVE  LiveAfter(Q, u, i)
  <2>1. CASE a.kind = "load"
    <3>1. Flow(Q, i) = {Redirect(q, a, x) : x \in Flow(q, i)}
      BY <1>0, <2>1, <1>f
    <3>2. CASE j = i0
      <4>1. Flow(Q, q.ids + Size(q, a)) = {i0}
        BY <1>0, <1>1, <1>2, <1>3, <2>1, <1>f
      <4>2. LiveAfter(Q, u, q.ids + Size(q, a))
        BY <1>4, <3>2, <4>1 DEF LiveAfter, LiveAt
      <4>3. q.reg[u] # RegOf(q, a)
        BY <1>2, <1>3, <1>4, <2>1, <3>2
      <4>4. LiveAt(Q, u, q.ids + 1)
        BY <4>2, <4>3, LiveThrough
      <4>5. Redirect(q, a, j) = q.ids + 1
        BY <1>2, <1>3, <2>1, <3>2 DEF Redirect
      <4> QED BY <3>1, <4>4, <4>5 DEF LiveAfter, LiveAt
    <3>3. CASE j # i0
      <4>1. Redirect(q, a, j) = j
        BY <1>2, <1>3, <3>3 DEF Redirect
      <4> QED BY <1>4, <3>1, <4>1 DEF LiveAfter, LiveAt
    <3> QED BY <3>2, <3>3
  <2>2. CASE a.kind = "store"
    <3>1. Redirect(q, a, j) = j
      BY <2>2 DEF Redirect
    <3>2. CASE i = i0
      <4>1. Flow(Q, q.ids + Size(q, a)) = Flow(q, i0)
        BY <1>0, <1>1, <1>2, <1>3, <2>2, <1>f
      <4>2. LiveAfter(Q, u, q.ids + Size(q, a))
        BY <1>4, <3>2, <4>1 DEF LiveAfter, LiveAt
      <4>3. LiveAt(Q, u, q.ids + 1)
        BY <2>2, <4>2, LiveThrough
      <4>4. Flow(Q, i) = {q.ids + 1}
        BY <1>0, <1>2, <1>3, <2>2, <3>2, <1>f
      <4> QED BY <4>3, <4>4 DEF LiveAfter, LiveAt
    <3>3. CASE i # i0
      <4>1. Flow(Q, i) = {Redirect(q, a, x) : x \in Flow(q, i)}
        BY <1>0, <1>2, <1>3, <3>3, <1>f
      <4> QED BY <1>4, <3>1, <4>1 DEF LiveAfter, LiveAt
    <3> QED BY <3>2, <3>3
  <2> QED BY <1>0, <2>1, <2>2
<1> DEFINE S == {j \in Ids(q) : LiveAt(q, u, j) /\ LiveAt(Q, u, j)}
<1>5. Needs(q, u, S)
  <2> SUFFICES ASSUME NEW i \in Ids(q),
                      \/ u \in Node(q, i).use
                      \/ ~Writes(q, i, q.reg[u]) /\ Flow(q, i) \cap S # {}
               PROVE  LiveAt(q, u, i) /\ LiveAt(Q, u, i)
    BY DEF Needs
  <2>0. i \in Ids(Q)
    BY <1>0, NodesKept
  <2>1. CASE u \in Node(q, i).use
    <3>1. Node(Q, i) = Node(q, i)
      BY <1>0, NodesKept
    <3> QED BY <1>0, <2>0, <2>1, <3>1, LiveClosed
  <2>2. CASE ~Writes(q, i, q.reg[u]) /\ Flow(q, i) \cap S # {}
    <3>1. ~Writes(Q, i, Q.reg[u])
      BY <1>0, <2>2, <1>n
    <3>2. PICK j \in Flow(q, i) : LiveAt(q, u, j) /\ LiveAt(Q, u, j)
      BY <2>2
    <3>3. LiveAfter(Q, u, i) /\ LiveAfter(q, u, i)
      BY <1>4, <3>2 DEF LiveAfter, LiveAt
    <3> QED BY <1>0, <2>0, <2>2, <3>1, <3>3, LiveClosed
  <2> QED BY <2>1, <2>2
<1>6. \A j : LiveAt(q, u, j) => j \in S
  <2> HIDE DEF S
  <2> QED BY <1>0, <1>5, LiveLeast
<1>7. ASSUME NEW i \in Ids(q), LiveAfter(q, u, i) PROVE LiveAfter(Q, u, i)
  <2>1. PICK j \in Flow(q, i) : LiveAt(q, u, j)
    BY <1>7 DEF LiveAfter, LiveAt
  <2> QED BY <1>4, <1>6, <2>1
<1> QED BY <1>7

(***************************************************************************)
(* Slots while accesses are still to be made: P holds those.               *)
(***************************************************************************)
SavedBut(p, n, Rg, O, P) ==
  /\ Rg \in [1 .. n -> ToSet(p.reg)]
  /\ \A i \in Ids(p) :
       /\ Node(p, i).kind = "load" =>
            /\ Node(p, i).slot \in 1 .. n /\ <<Node(p, i).slot, i>> \in O
            /\ \A d \in Node(p, i).def : p.reg[d] = Rg[Node(p, i).slot]
       /\ Node(p, i).kind = "store" =>
            /\ Node(p, i).slot \in 1 .. n /\ Node(p, i).def = {}
            /\ Max(Node(p, i).use) \in Node(p, i).use
            /\ p.reg[Max(Node(p, i).use)] = Rg[Node(p, i).slot]
       /\ \A j \in Flow(p, i) : \A s \in 1 .. n : <<s, j>> \in O =>
            \/ Node(p, i).kind = "store" /\ Node(p, i).slot = s
            \/ <<s, i>> \in O /\ ~ (Node(p, i).kind = "op" /\ Writes(p, i, Rg[s]))
            \/ \E x \in P : x.kind = "store" /\ x.slot = s /\ p.parent[x.op] = i
  /\ \A x \in P : /\ x.slot \in 1 .. n /\ Rg[x.slot] = p.reg[x.op]
                  /\ x.kind = "load" => <<x.slot, p.parent[x.op]>> \in O

\* The certificate with the access in the function.
NewSaved(q, a, Q, n, O) ==
  {x \in (1 .. n) \X Ids(Q) :
     IF x[2] \in Ids(q) THEN x \in O
     ELSE IF a.kind = "load" THEN <<x[1], Owner(q, a)>> \in O
     ELSE x[1] # a.slot /\ \E j \in Flow(q, Owner(q, a)) : <<x[1], j>> \in O}

\* SavedStep: making an access keeps the slots right.
LEMMA SavedStep ==
  ASSUME NEW q, NEW a, Apt(q, a), NEW Q, Q = SpillOperand(q, a),
         NEW n \in Nat, NEW Rg, NEW O, NEW P, SavedBut(q, n, Rg, O, P), a \in P,
         \A x \in P : Apt(q, x),
         NEW R \in SUBSET P, P \ {a} \subseteq R
  PROVE  SavedBut(Q, n, Rg, NewSaved(q, a, Q, n, O), R)
<1>0. /\ WellFormed(q) /\ Legal(q, a) /\ WellFormed(Q) /\ a.kind \in {"load", "store"}
      /\ a.slot \in 1 .. n /\ a.op \in DOMAIN q.reg
  BY NewFunction DEF Apt, Legal, SavedBut
<1>1. PICK k \in 1 .. 3 : k = Size(q, a)
  BY <1>0, Measures
<1>2. PICK e, i0 : e \in Nat /\ e = q.ids /\ i0 = Owner(q, a)
  BY <1>0, OperandFacts
<1> e \in Nat
  BY <1>2
<1>3. /\ Ids(Q) = Ids(q) \cup NewIds(q, a) /\ Ids(q) \cap NewIds(q, a) = {} /\ i0 \in Ids(q)
      /\ NewIds(q, a) = {e + i : i \in 1 .. k}
      /\ \A i \in Ids(q) : Node(Q, i) = Node(q, i)
      /\ \A i \in 1 .. k : Node(Q, e + i) = Code(q, a)[i]
  BY <1>0, <1>1, <1>2, NodesKept DEF NewIds
<1>4. /\ \A i \in Ids(q) : ~ (a.kind = "store" /\ i = i0) =>
                           Flow(Q, i) = {Redirect(q, a, j) : j \in Flow(q, i)}
      /\ a.kind = "store" => Flow(Q, i0) = {e + 1}
      /\ \A i \in 1 .. k - 1 : Flow(Q, e + i) = {e + (i + 1)}
      /\ a.kind = "load" => Flow(Q, e + k) = {i0}
      /\ a.kind = "store" => Flow(Q, e + k) = Flow(q, i0)
  <2>1. IsFlow(q, a, Q, e, k, i0)
    BY <1>0, <1>1, <1>2, FlowKept
  <2> QED BY <2>1 DEF IsFlow
<1>5. /\ \A i \in 1 .. k - 1 : \A x \in DOMAIN q.reg : ~Writes(Q, e + i, q.reg[x])
      /\ \A i \in Ids(q) : \A r : Writes(Q, i, r) <=> Writes(q, i, r)
  <2>1. IsWriting(q, a, Q, e, k)
    BY <1>0, <1>1, <1>2, NewNodes
  <2> QED BY <2>1 DEF IsWriting
<1>6. DOMAIN q.reg \subseteq DOMAIN Q.reg
      /\ \A o \in DOMAIN q.reg : Q.reg[o] = q.reg[o] /\ Q.parent[o] = q.parent[o]
  BY <1>0, NewFunction
<1>7. Rg \in [1 .. n -> ToSet(q.reg)]
  BY DEF SavedBut
<1>8. \A s \in 1 .. n : \E o \in DOMAIN q.reg : Rg[s] = q.reg[o]
  BY <1>7 DEF ToSet
<1>9. Rg \in [1 .. n -> ToSet(Q.reg)]
  <2>1. ToSet(q.reg) \subseteq ToSet(Q.reg)
    BY <1>6 DEF ToSet
  <2> QED BY <1>7, <2>1
<1> DEFINE N == NewSaved(q, a, Q, n, O)
           In(s) == IF a.kind = "load" THEN <<s, i0>> \in O
                    ELSE s # a.slot /\ \E j \in Flow(q, i0) : <<s, j>> \in O
<1>10. \A s \in 1 .. n : /\ \A i \in Ids(q) : <<s, i>> \in N <=> <<s, i>> \in O
                         /\ \A i \in NewIds(q, a) : <<s, i>> \in N <=> In(s)
  <2>1. ASSUME NEW s \in 1 .. n, NEW i \in Ids(Q)
        PROVE  <<s, i>> \in N <=> IF i \in Ids(q) THEN <<s, i>> \in O ELSE In(s)
    <3>1. PICK x : x = <<s, i>>
      OBVIOUS
    <3>2. x \in (1 .. n) \X Ids(Q) /\ x[1] = s /\ x[2] = i
      BY <3>1
    <3>3. x \in N <=> IF x[2] \in Ids(q) THEN x \in O
                      ELSE IF a.kind = "load" THEN <<x[1], i0>> \in O
                      ELSE x[1] # a.slot /\ \E j \in Flow(q, i0) : <<x[1], j>> \in O
      BY <1>2, <3>2 DEF NewSaved
    <3> QED BY <3>1, <3>2, <3>3
  <2> HIDE DEF N, In
  <2> QED BY <1>3, <2>1
<1>11. q.parent[a.op] = i0 /\ \A x \in P : Q.parent[x.op] = q.parent[x.op]
  BY <1>2, <1>6 DEF Owner, Apt, Legal
<1>12. \A i \in 1 .. k : e + i \in NewIds(q, a)
  BY <1>3
<1>13. e + 1 \in NewIds(q, a)
  <2>1. 1 \in 1 .. k
    OBVIOUS
  <2> QED BY <1>12, <2>1
<1> HIDE DEF N, In
\* the old clauses
<1>14. ASSUME NEW i \in Ids(q), NEW j \in Flow(q, i), NEW s \in 1 .. n, <<s, j>> \in O
       PROVE  \/ Node(q, i).kind = "store" /\ Node(q, i).slot = s
              \/ <<s, i>> \in O /\ ~ (Node(q, i).kind = "op" /\ Writes(q, i, Rg[s]))
              \/ \E x \in P : x.kind = "store" /\ x.slot = s /\ q.parent[x.op] = i
  <2>1. \A h \in Flow(q, i) : \A t \in 1 .. n : <<t, h>> \in O =>
          \/ Node(q, i).kind = "store" /\ Node(q, i).slot = t
          \/ <<t, i>> \in O /\ ~ (Node(q, i).kind = "op" /\ Writes(q, i, Rg[t]))
          \/ \E x \in P : x.kind = "store" /\ x.slot = t /\ q.parent[x.op] = i
    BY Zenon DEF SavedBut
  <2> QED BY <1>14, <2>1, Zenon
\* the old instructions
<1>15. ASSUME NEW i \in Ids(q), NEW j \in Flow(Q, i), NEW s \in 1 .. n, <<s, j>> \in N
       PROVE  \/ Node(Q, i).kind = "store" /\ Node(Q, i).slot = s
              \/ <<s, i>> \in N /\ ~ (Node(Q, i).kind = "op" /\ Writes(Q, i, Rg[s]))
              \/ \E x \in R : x.kind = "store" /\ x.slot = s /\ Q.parent[x.op] = i
  <2>1. ASSUME NEW h \in Flow(q, i), <<s, h>> \in O, a.kind = "store" /\ i = i0 => s # a.slot
        PROVE  \/ Node(Q, i).kind = "store" /\ Node(Q, i).slot = s
               \/ <<s, i>> \in N /\ ~ (Node(Q, i).kind = "op" /\ Writes(Q, i, Rg[s]))
               \/ \E x \in R : x.kind = "store" /\ x.slot = s /\ Q.parent[x.op] = i
    <3>1. CASE \/ Node(q, i).kind = "store" /\ Node(q, i).slot = s
               \/ <<s, i>> \in O /\ ~ (Node(q, i).kind = "op" /\ Writes(q, i, Rg[s]))
      BY <1>3, <1>5, <1>10, <3>1
    <3>2. CASE \E x \in P : x.kind = "store" /\ x.slot = s /\ q.parent[x.op] = i
      <4>1. PICK x \in P : x.kind = "store" /\ x.slot = s /\ q.parent[x.op] = i
        BY <3>2
      <4>2. x # a
        BY <1>11, <2>1, <4>1
      <4> QED BY <1>11, <4>1, <4>2
    <3> QED BY <1>14, <2>1, <3>1, <3>2
  <2>2. CASE a.kind = "store" /\ i = i0
    <3>1. j = e + 1
      BY <1>4, <2>2
    <3>2. In(s)
      BY <1>10, <1>13, <1>15, <3>1
    <3>3. s # a.slot /\ \E h \in Flow(q, i) : <<s, h>> \in O
      BY <2>2, <3>2 DEF In
    <3> QED BY <2>1, <3>3
  <2>3. CASE ~ (a.kind = "store" /\ i = i0)
    <3>1. PICK h \in Flow(q, i) : j = Redirect(q, a, h)
      BY <1>4, <2>3
    <3>2. h \in Ids(q)
      BY <1>0, FlowFacts
    <3>3. <<s, h>> \in O
      <4>1. CASE a.kind = "load" /\ h = i0
        <5>1. j = e + 1
          BY <1>2, <3>1, <4>1 DEF Redirect
        <5>2. In(s)
          BY <1>10, <1>13, <1>15, <5>1
        <5> QED BY <4>1, <5>2 DEF In
      <4>2. CASE ~ (a.kind = "load" /\ h = i0)
        <5>1. j = h
          BY <1>2, <3>1, <4>2 DEF Redirect
        <5> QED BY <1>10, <1>15, <3>2, <5>1
      <4> QED BY <4>1, <4>2
    <3> QED BY <2>1, <2>3, <3>3
  <2> QED BY <2>2, <2>3
<1>16. ASSUME NEW i \in Ids(q)
       PROVE  /\ Node(Q, i).kind = "load" =>
                   /\ Node(Q, i).slot \in 1 .. n /\ <<Node(Q, i).slot, i>> \in N
                   /\ \A d \in Node(Q, i).def : Q.reg[d] = Rg[Node(Q, i).slot]
              /\ Node(Q, i).kind = "store" =>
                   /\ Node(Q, i).slot \in 1 .. n /\ Node(Q, i).def = {}
                   /\ Max(Node(Q, i).use) \in Node(Q, i).use
                   /\ Q.reg[Max(Node(Q, i).use)] = Rg[Node(Q, i).slot]
  <2>1. Node(Q, i) = Node(q, i)
    BY <1>3
  <2>2. Node(q, i).def \subseteq DOMAIN q.reg /\ Node(q, i).use \subseteq DOMAIN q.reg
    BY <1>0, NodeFacts
  <2>3. /\ Node(q, i).kind = "load" =>
             /\ Node(q, i).slot \in 1 .. n /\ <<Node(q, i).slot, i>> \in O
             /\ \A d \in Node(q, i).def : q.reg[d] = Rg[Node(q, i).slot]
        /\ Node(q, i).kind = "store" =>
             /\ Node(q, i).slot \in 1 .. n /\ Node(q, i).def = {}
             /\ Max(Node(q, i).use) \in Node(q, i).use
             /\ q.reg[Max(Node(q, i).use)] = Rg[Node(q, i).slot]
    BY DEF SavedBut
  <2>4. Node(q, i).kind = "load" => <<Node(q, i).slot, i>> \in N
    BY <1>10, <2>3
  <2> QED BY <1>6, <2>1, <2>2, <2>3, <2>4
\* the address steps
<1>17. ASSUME NEW i \in 1 .. k - 1
       PROVE  /\ Node(Q, e + i).kind = "op"
              /\ \A j \in Flow(Q, e + i) : \A s \in 1 .. n : <<s, j>> \in N =>
                   <<s, e + i>> \in N /\ ~Writes(Q, e + i, Rg[s])
  <2>1. i \in 1 .. k /\ i + 1 \in 1 .. k
    OBVIOUS
  <2>2. Node(Q, e + i).kind = "op"
    BY <1>0, <1>1, <1>3, <2>1, AccessFacts DEF AddressNode
  <2>3. Flow(Q, e + i) = {e + (i + 1)}
    BY <1>4
  <2>4. e + i \in NewIds(q, a) /\ e + (i + 1) \in NewIds(q, a)
    BY <1>12, <2>1
  <2>5. \A s \in 1 .. n : ~Writes(Q, e + i, Rg[s])
    BY <1>5, <1>8
  <2> QED BY <1>10, <2>2, <2>3, <2>4, <2>5
\* the access itself
<1>18. k \in 1 .. k /\ e + k \in NewIds(q, a) /\ Node(Q, e + k) = Code(q, a)[k]
  <2>1. k \in 1 .. k
    OBVIOUS
  <2> QED BY <1>3, <1>12, <2>1
<1>19. /\ Node(Q, e + k).kind = a.kind /\ Node(Q, e + k).slot = a.slot
       /\ a.kind = "load" => \A d \in Node(Q, e + k).def : Q.reg[d] = Rg[a.slot]
       /\ a.kind = "store" => /\ Node(Q, e + k).def = {}
                              /\ Max(Node(Q, e + k).use) \in Node(Q, e + k).use
                              /\ Q.reg[Max(Node(Q, e + k).use)] = Rg[a.slot]
  <2>1. AccessNode(q, Q, a)
    BY <1>0, AccessFacts
  <2>2. RegOf(q, a) = Rg[a.slot]
    BY DEF SavedBut, RegOf
  <2> QED BY <1>1, <1>18, <2>1, <2>2 DEF AccessNode
<1>20. a.kind = "load" => <<a.slot, e + k>> \in N
  <2>1. a.kind = "load" => <<a.slot, i0>> \in O
    BY <1>2 DEF SavedBut, Owner
  <2> QED BY <1>0, <1>10, <1>18, <2>1 DEF In
<1>21. ASSUME NEW j \in Flow(Q, e + k), NEW s \in 1 .. n, <<s, j>> \in N
       PROVE  \/ a.kind = "store" /\ a.slot = s
              \/ <<s, e + k>> \in N
  <2>1. CASE a.kind = "load"
    <3>1. j = i0
      BY <1>4, <2>1
    <3>2. <<s, i0>> \in O
      BY <1>3, <1>10, <1>21, <3>1
    <3> QED BY <1>10, <1>18, <2>1, <3>2 DEF In
  <2>2. CASE a.kind = "store"
    <3>1. j \in Flow(q, i0) /\ j \in Ids(q)
      BY <1>0, <1>3, <1>4, <2>2, FlowFacts
    <3>2. <<s, j>> \in O
      BY <1>10, <1>21, <3>1
    <3> QED BY <1>10, <1>18, <2>2, <3>1, <3>2 DEF In
  <2> QED BY <1>0, <2>1, <2>2
<1> DEFINE Good(i) ==
             /\ Node(Q, i).kind = "load" =>
                  /\ Node(Q, i).slot \in 1 .. n /\ <<Node(Q, i).slot, i>> \in N
                  /\ \A d \in Node(Q, i).def : Q.reg[d] = Rg[Node(Q, i).slot]
             /\ Node(Q, i).kind = "store" =>
                  /\ Node(Q, i).slot \in 1 .. n /\ Node(Q, i).def = {}
                  /\ Max(Node(Q, i).use) \in Node(Q, i).use
                  /\ Q.reg[Max(Node(Q, i).use)] = Rg[Node(Q, i).slot]
             /\ \A j \in Flow(Q, i) : \A s \in 1 .. n : <<s, j>> \in N =>
                  \/ Node(Q, i).kind = "store" /\ Node(Q, i).slot = s
                  \/ <<s, i>> \in N /\ ~ (Node(Q, i).kind = "op" /\ Writes(Q, i, Rg[s]))
                  \/ \E x \in R : x.kind = "store" /\ x.slot = s /\ Q.parent[x.op] = i
<1>22. \A i \in Ids(q) : Good(i)
  BY <1>15, <1>16
<1>23. \A i \in 1 .. k - 1 : Good(e + i)
  BY <1>17
<1>24. Good(e + k)
  BY <1>0, <1>19, <1>20, <1>21
<1> HIDE DEF Good
<1>25. \A i \in Ids(Q) : Good(i)
  <2>1. \A i \in 1 .. k : i \in 1 .. k - 1 \/ i = k
    OBVIOUS
  <2> QED BY <1>3, <1>22, <1>23, <1>24, <2>1
<1>26. ASSUME NEW x \in R
       PROVE  /\ x.slot \in 1 .. n /\ Rg[x.slot] = Q.reg[x.op]
              /\ x.kind = "load" => <<x.slot, Q.parent[x.op]>> \in N
  <2>1. x \in P /\ x.op \in DOMAIN q.reg /\ q.parent[x.op] \in Ids(q)
    BY DEF Apt, Legal, Owner
  <2>2. /\ x.slot \in 1 .. n /\ Rg[x.slot] = q.reg[x.op]
        /\ x.kind = "load" => <<x.slot, q.parent[x.op]>> \in O
    BY <2>1 DEF SavedBut
  <2> QED BY <1>6, <1>10, <2>1, <2>2
<1> QED BY <1>9, <1>25, <1>26 DEF SavedBut, Good, N

(***************************************************************************)
(* The accesses a round makes.                                             *)
(***************************************************************************)
Spilled == {i \in DOMAIN webs : spill[i]}
AllSlots == slots + Cardinality(Spilled)

\* SlotFacts: each spilled interval has a slot of its own.
LEMMA SlotFacts ==
  ASSUME slots \in Nat, Len(webs) \in Nat, DOMAIN webs = 1 .. Len(webs),
         spill \in [DOMAIN webs -> BOOLEAN]
  PROVE  /\ AllSlots \in Nat /\ slots <= AllSlots
         /\ AllSlots # slots => Spilled # {}
         /\ \A k \in Spilled : Slot(k) \in slots + 1 .. AllSlots
         /\ \A k, l \in Spilled : Slot(k) = Slot(l) => k = l
<1>1. PICK n \in Nat : n = Len(webs) /\ DOMAIN webs = 1 .. n
  OBVIOUS
<1> DEFINE To(k) == {j \in 1 .. k : spill[j]}
<1>2. IsFiniteSet(Spilled) /\ Cardinality(Spilled) \in Nat
  <2>1. IsFiniteSet(1 .. n)
    BY FS_Interval
  <2>2. Spilled \in SUBSET (1 .. n)
    BY <1>1 DEF Spilled
  <2> QED BY <2>1, <2>2, FS_Subset, FS_CardinalityType
<1>3. Cardinality(Spilled) # 0 => Spilled # {}
  BY FS_EmptySet
<1>4. ASSUME NEW k \in Spilled
      PROVE  /\ k \in 1 .. n /\ To(k) \in SUBSET Spilled /\ k \in To(k)
             /\ IsFiniteSet(To(k)) /\ Cardinality(To(k)) \in 1 .. Cardinality(Spilled)
  <2>1. k \in 1 .. n /\ spill[k]
    BY <1>1 DEF Spilled
  <2>2. To(k) \in SUBSET Spilled /\ k \in To(k)
    BY <1>1, <2>1 DEF Spilled
  <2> HIDE DEF To
  <2>3. IsFiniteSet(To(k)) /\ Cardinality(To(k)) <= Cardinality(Spilled) /\ Cardinality(To(k)) \in Nat
    BY <1>2, <2>2, FS_Subset, FS_CardinalityType
  <2>4. Cardinality(To(k)) # 0
    BY <2>2, <2>3, FS_EmptySet
  <2> QED BY <1>2, <2>1, <2>2, <2>3, <2>4
<1>5. \A k : Slot(k) = slots + Cardinality(To(k))
  BY DEF Slot
<1>6. ASSUME NEW k \in Spilled, NEW l \in Spilled, k < l PROVE Slot(k) # Slot(l)
  <2>1. To(k) \in SUBSET To(l) /\ l \notin To(k) /\ l \in To(l)
    <3>1. k \in 1 .. n /\ l \in 1 .. n /\ l \in To(l)
      BY <1>4
    <3>2. 1 .. k \subseteq 1 .. l /\ l \notin 1 .. k
      BY <1>6, <3>1
    <3> QED BY <3>1, <3>2
  <2>2. IsFiniteSet(To(l)) /\ Cardinality(To(k)) \in Nat /\ Cardinality(To(l)) \in Nat
    <3>1. PICK c \in Nat : c = Cardinality(Spilled)
      BY <1>2
    <3> HIDE DEF To
    <3>2. IsFiniteSet(To(l)) /\ Cardinality(To(k)) \in 1 .. c /\ Cardinality(To(l)) \in 1 .. c
      BY <1>4, <3>1
    <3> QED BY <3>2
  <2> HIDE DEF To
  <2>3. Cardinality(To(l)) # Cardinality(To(k))
    BY <2>1, <2>2, FS_Subset
  <2> QED BY <1>5, <2>2, <2>3
<1> HIDE DEF To
<1>7. \A k \in Spilled : Slot(k) \in slots + 1 .. AllSlots
  <2>1. ASSUME NEW c \in 1 .. Cardinality(Spilled)
        PROVE  slots + c \in slots + 1 .. slots + Cardinality(Spilled)
    BY <1>2
  <2> QED BY <1>4, <1>5, <2>1 DEF AllSlots
<1>8. \A k, l \in Spilled : Slot(k) = Slot(l) => k = l
  <2>1. \A k, l \in 1 .. n : k = l \/ k < l \/ l < k
    OBVIOUS
  <2> QED BY <1>4, <1>6, <2>1
<1>9. AllSlots \in Nat /\ slots <= AllSlots /\ (AllSlots # slots => Cardinality(Spilled) # 0)
  BY <1>2 DEF AllSlots
<1> QED BY <1>3, <1>7, <1>8, <1>9

\* AccessesAre: the accesses, from the webs.
LEMMA AccessesAre ==
  /\ \A x \in Accesses : \E k \in Spilled :
       /\ x = [op |-> x.op, kind |-> x.kind, slot |-> x.slot] /\ x.slot = Slot(k)
       /\ \/ x.kind = "load" /\ x.op \in webs[k].uses
          \/ x.kind = "store" /\ x.op \in webs[k].defs
  /\ \A k \in Spilled : \A u \in webs[k].uses :
       \E x \in Accesses : x.op = u /\ x.kind = "load" /\ x.slot = Slot(k)
  /\ \A k \in Spilled : \A d \in webs[k].defs :
       \E x \in Accesses : x.op = d /\ x.kind = "store" /\ x.slot = Slot(k)
<1>1. \A x : x \in Accesses <=> \E k \in Spilled : x \in Loads(k) \/ x \in Stores(k)
  BY DEF Accesses, Spilled
<1>2. ASSUME NEW x \in Accesses
      PROVE  \E k \in Spilled :
               /\ x = [op |-> x.op, kind |-> x.kind, slot |-> x.slot] /\ x.slot = Slot(k)
               /\ \/ x.kind = "load" /\ x.op \in webs[k].uses
                  \/ x.kind = "store" /\ x.op \in webs[k].defs
  <2>1. PICK k \in Spilled : x \in Loads(k) \/ x \in Stores(k)
    BY <1>1
  <2>2. CASE x \in Loads(k)
    <3>1. PICK u \in webs[k].uses : x = [op |-> u, kind |-> "load", slot |-> Slot(k)]
      BY <2>2 DEF Loads
    <3> QED BY <3>1
  <2>3. CASE x \in Stores(k)
    <3>1. PICK d \in webs[k].defs : x = [op |-> d, kind |-> "store", slot |-> Slot(k)]
      BY <2>3 DEF Stores
    <3> QED BY <3>1
  <2> QED BY <2>1, <2>2, <2>3
<1>3. ASSUME NEW k \in Spilled, NEW u \in webs[k].uses
      PROVE  \E x \in Accesses : x.op = u /\ x.kind = "load" /\ x.slot = Slot(k)
  <2>1. PICK x : x = [op |-> u, kind |-> "load", slot |-> Slot(k)]
    OBVIOUS
  <2>2. x \in Loads(k)
    BY <2>1 DEF Loads
  <2> QED BY <1>1, <2>1, <2>2
<1>4. ASSUME NEW k \in Spilled, NEW d \in webs[k].defs
      PROVE  \E x \in Accesses : x.op = d /\ x.kind = "store" /\ x.slot = Slot(k)
  <2>1. PICK x : x = [op |-> d, kind |-> "store", slot |-> Slot(k)]
    OBVIOUS
  <2>2. x \in Stores(k)
    BY <2>1 DEF Stores
  <2> QED BY <1>1, <2>1, <2>2
<1> QED BY <1>2, <1>3, <1>4

AccessesRight ==
  /\ \A x \in Accesses :
       /\ x.op \in DOMAIN prog.reg /\ x.kind \in {"load", "store"}
       /\ x.slot \in slots + 1 .. AllSlots
       /\ prog.parent[x.op] \in Ids(prog)
       /\ x.kind = "load" => x.op \in Node(prog, prog.parent[x.op]).use
       /\ x.kind = "store" => x.op \in Node(prog, prog.parent[x.op]).def /\ x.op \notin AllUses(prog)
  /\ \A x, y \in Accesses : x.slot = y.slot => prog.reg[x.op] = prog.reg[y.op]
  /\ \A x, y \in Accesses : x.op = y.op => x = y
  \* every write that reaches a use that is loaded is stored
  /\ \A x \in Accesses : x.kind = "load" =>
       \A i \in Ids(prog) : Writes(prog, i, prog.reg[x.op]) /\ LiveAfter(prog, x.op, i) =>
         \E y \in Accesses : y.kind = "store" /\ y.slot = x.slot /\ prog.parent[y.op] = i
  \* every use of the same register that is live there is loaded too
  /\ \A x \in Accesses : x.kind = "load" =>
       \A u : prog.reg[u] = prog.reg[x.op] /\ LiveAt(prog, u, prog.parent[x.op]) =>
         \E y \in Accesses : y.op = u

\* What is handed on from one instruction to another is not spilled.
Stay ==
  \A k \in DOMAIN webs : spill[k] => NoneCarried(webs[k].defs)

\* WebsGiveAccesses: this follows from what the webs are.
LEMMA WebsGiveAccesses ==
  ASSUME FunctionRight(prog, slots), WebsRight, spill \in [DOMAIN webs -> BOOLEAN], Stay
  PROVE  AccessesRight
<1>0. WellFormed(prog) /\ Tidy(prog) /\ UsesOwned(prog) /\ DefinedAbove(prog) /\ slots \in Nat
  BY TidyFacts DEF FunctionRight
<1>1. /\ \A k \in Spilled : Slot(k) \in slots + 1 .. AllSlots
      /\ \A k, l \in Spilled : Slot(k) = Slot(l) => k = l
  BY <1>0, SlotFacts DEF WebsRight
<1>2. \A k \in Spilled : k \in DOMAIN webs
  BY DEF Spilled
<1>3. \A k \in DOMAIN webs :
        /\ \A d \in webs[k].defs : d \in Defs
        /\ webs[k].uses \subseteq AllUses(prog)
        /\ \A o, q \in Operands(webs[k]) : prog.reg[o] = prog.reg[q]
  BY <1>0, DefsAre DEF WebsRight
<1>4. \A k, l \in DOMAIN webs : Operands(webs[k]) \cap Operands(webs[l]) # {} => k = l
  BY DEF WebsRight
\* a definition that is spilled belongs to its instruction, or is written again
<1>5. ASSUME NEW k \in Spilled, NEW d \in webs[k].defs
      PROVE  /\ \A i \in Ids(prog) : d \in Node(prog, i).def =>
                  /\ d \in Node(prog, prog.parent[d]).def
                  /\ \/ prog.parent[d] = i
                     \/ \A u : prog.reg[u] = prog.reg[d] => ~LiveAfter(prog, u, i)
             /\ d \in DOMAIN prog.reg /\ prog.parent[d] \in Ids(prog)
             /\ d \in Node(prog, prog.parent[d]).def /\ d \notin AllUses(prog)
  <2>1. PICK i0 \in Ids(prog) : d \in Node(prog, i0).def
    BY <1>2, <1>0 DEF WebsRight
  <2>2. ASSUME NEW i \in Ids(prog), d \in Node(prog, i).def
        PROVE  /\ prog.parent[d] \in Ids(prog) /\ d \in Node(prog, prog.parent[d]).def
               /\ d \notin Node(prog, prog.parent[d]).use
               /\ \/ prog.parent[d] = i
                  \/ \A u : prog.reg[u] = prog.reg[d] => ~LiveAfter(prog, u, i)
    <3>1. /\ prog.parent[d] \in Ids(prog)
          /\ \/ prog.parent[d] = i /\ d \notin Node(prog, i).use
             \/ Redone(prog, i, d)
      BY <1>0, <2>2, TidyFacts DEF Stay, NoneCarried, Spilled
    <3>2. CASE Redone(prog, i, d)
      BY <1>0, <2>2, <3>1, <3>2, RedoneFacts
    <3> QED BY <2>2, <3>1, <3>2
  <2>3. d \notin AllUses(prog)
    <3>1. ASSUME NEW j \in Ids(prog), d \in Node(prog, j).use PROVE FALSE
      <4>1. prog.parent[d] = j
        BY <1>0, <3>1 DEF UsesOwned
      <4> QED BY <2>1, <2>2, <3>1, <4>1
    <3> QED BY <1>0, <3>1, UseFacts
  <2>4. d \in DOMAIN prog.reg
    BY <1>0, <2>1, NodeFacts
  <2> QED BY <2>1, <2>2, <2>3, <2>4
<1>6. ASSUME NEW u \in AllUses(prog)
      PROVE  /\ u \in DOMAIN prog.reg /\ prog.parent[u] \in Ids(prog)
             /\ u \in Node(prog, prog.parent[u]).use
  <2>1. PICK i \in Ids(prog) : u \in Node(prog, i).use
    BY <1>0, UseFacts
  <2> QED BY <1>0, <2>1, NodeFacts DEF UsesOwned
<1>8. ASSUME NEW x \in Accesses
      PROVE  /\ \E k \in Spilled : x.slot = Slot(k) /\ x.op \in Operands(webs[k])
             /\ x.kind = "load" => x.op \in AllUses(prog)
             /\ x.kind = "store" => \E k \in Spilled : x.op \in webs[k].defs
             /\ x.kind \in {"load", "store"}
             /\ x = [op |-> x.op, kind |-> x.kind, slot |-> x.slot]
  <2>1. PICK k \in Spilled :
          /\ x = [op |-> x.op, kind |-> x.kind, slot |-> x.slot] /\ x.slot = Slot(k)
          /\ \/ x.kind = "load" /\ x.op \in webs[k].uses
             \/ x.kind = "store" /\ x.op \in webs[k].defs
    BY AccessesAre
  <2>2. x.op \in Operands(webs[k])
    BY <2>1 DEF Operands
  <2>3. /\ x.kind = "load" => x.op \in AllUses(prog)
        /\ x.kind = "store" => x.op \in webs[k].defs
    BY <1>2, <1>3, <2>1
  <2> QED BY <2>1, <2>2, <2>3
<1>9. ASSUME NEW x \in Accesses
      PROVE  /\ x.op \in DOMAIN prog.reg /\ x.kind \in {"load", "store"}
             /\ x.slot \in slots + 1 .. AllSlots
             /\ prog.parent[x.op] \in Ids(prog)
             /\ x.kind = "load" => x.op \in Node(prog, prog.parent[x.op]).use
             /\ x.kind = "store" => /\ x.op \in Node(prog, prog.parent[x.op]).def
                                    /\ x.op \notin AllUses(prog)
  BY <1>1, <1>5, <1>6, <1>8
<1>10. ASSUME NEW x \in Accesses, NEW y \in Accesses, x.slot = y.slot
       PROVE  prog.reg[x.op] = prog.reg[y.op]
  <2>1. PICK k \in Spilled : x.slot = Slot(k) /\ x.op \in Operands(webs[k])
    BY <1>8
  <2>2. PICK l \in Spilled : y.slot = Slot(l) /\ y.op \in Operands(webs[l])
    BY <1>8
  <2>3. k = l
    BY <1>1, <1>10, <2>1, <2>2
  <2> QED BY <1>2, <1>3, <2>1, <2>2, <2>3
<1>11. ASSUME NEW x \in Accesses, NEW y \in Accesses, x.op = y.op PROVE x = y
  <2>1. PICK k \in Spilled : x.slot = Slot(k) /\ x.op \in Operands(webs[k])
    BY <1>8
  <2>2. PICK l \in Spilled : y.slot = Slot(l) /\ y.op \in Operands(webs[l])
    BY <1>8
  <2>3. k = l
    BY <1>2, <1>4, <1>11, <2>1, <2>2
  <2>4. x.kind = y.kind
    BY <1>5, <1>8, <1>11
  <2> QED BY <1>8, <1>11, <2>1, <2>2, <2>3, <2>4
\* a use that an instruction's write reaches is in the web of that definition
<1>12. ASSUME NEW i \in Ids(prog), NEW u, Writes(prog, i, prog.reg[u]), LiveAfter(prog, u, i)
       PROVE  \E k \in DOMAIN webs : \E d \in Node(prog, i).def :
                /\ prog.reg[d] = prog.reg[u] /\ d \in webs[k].defs
                /\ Reached(i, d) \subseteq webs[k].uses /\ u \in webs[k].uses
  <2>1. PICK d \in Node(prog, i).def : prog.reg[d] = prog.reg[u]
    BY <1>12 DEF Writes
  <2>2. PICK k \in DOMAIN webs : d \in webs[k].defs /\ Reached(i, d) \subseteq webs[k].uses
    BY DEF WebsRight
  <2>3. u \in AllUses(prog)
    BY <1>0, <1>12, LiveOfUse DEF LiveAfter, LiveAt
  <2>4. u \in Reached(i, d)
    BY <1>12, <2>1, <2>3 DEF Reached
  <2> QED BY <2>1, <2>2, <2>4
<1>13. ASSUME NEW x \in Accesses, NEW k \in DOMAIN webs, x.op \in Operands(webs[k])
       PROVE  k \in Spilled /\ x.slot = Slot(k)
  <2>1. PICK l \in Spilled : x.slot = Slot(l) /\ x.op \in Operands(webs[l])
    BY <1>8
  <2>2. k = l
    BY <1>2, <1>4, <1>13, <2>1
  <2> QED BY <2>1, <2>2
<1>14. ASSUME NEW x \in Accesses, x.kind = "load", NEW i \in Ids(prog),
              Writes(prog, i, prog.reg[x.op]), LiveAfter(prog, x.op, i)
       PROVE  \E y \in Accesses : y.kind = "store" /\ y.slot = x.slot /\ prog.parent[y.op] = i
  <2>1. PICK k \in DOMAIN webs, d \in Node(prog, i).def :
          d \in webs[k].defs /\ x.op \in webs[k].uses /\ prog.reg[d] = prog.reg[x.op]
    BY <1>12, <1>14
  <2>2. k \in Spilled /\ x.slot = Slot(k)
    BY <1>13, <2>1 DEF Operands
  <2>3. prog.parent[d] = i
    BY <1>5, <1>14, <2>1, <2>2
  <2> QED BY <2>1, <2>2, <2>3, AccessesAre
<1>15. ASSUME NEW x \in Accesses, x.kind = "load", NEW u, prog.reg[u] = prog.reg[x.op],
              LiveAt(prog, u, prog.parent[x.op])
       PROVE  \E y \in Accesses : y.op = u
  <2>1. PICK i \in Ids(prog) : i = prog.parent[x.op] /\ x.op \in Node(prog, i).use
    BY <1>9, <1>15
  <2>2. LiveAt(prog, x.op, i)
    BY <1>0, <2>1, LiveClosed
  <2>3. PICK e \in Ids(prog) : Writes(prog, e, prog.reg[x.op]) /\ LiveAfter(prog, x.op, e)
    BY <1>0, <2>2, DefinedBefore
  <2>4. \A j \in Ids(prog) : x.op \in Node(prog, j).use => j = i
    BY <1>0, <2>1 DEF UsesOwned
  <2>5. LiveAfter(prog, u, e)
    <3>1. PICK j \in Flow(prog, e) : LiveAt(prog, x.op, j)
      BY <2>3 DEF LiveAfter, LiveAt
    <3>2. LiveAt(prog, u, j)
      BY <1>0, <1>15, <2>1, <2>4, <3>1, LiveWith
    <3> QED BY <3>2 DEF LiveAfter, LiveAt
  <2>6. PICK k \in DOMAIN webs, d \in Node(prog, e).def :
          /\ prog.reg[d] = prog.reg[x.op]
          /\ Reached(e, d) \subseteq webs[k].uses /\ x.op \in webs[k].uses
    BY <1>12, <2>3
  <2>7. u \in AllUses(prog)
    BY <1>0, <1>15, LiveOfUse
  <2>8. u \in Reached(e, d)
    BY <1>15, <2>5, <2>6, <2>7 DEF Reached
  <2>9. k \in Spilled
    BY <1>13, <2>6 DEF Operands
  <2> QED BY <2>6, <2>8, <2>9, AccessesAre
<1> QED BY <1>9, <1>10, <1>11, <1>14, <1>15 DEF AccessesRight

\* OrderFacts: genSpillCode makes each of them.
LEMMA OrderFacts ==
  ASSUME WellFormed(prog), slots \in Nat, AllSlots \in Nat, AccessesRight
  PROVE  /\ Len(Order) \in Nat /\ \A i \in 1 .. Len(Order) : Order[i] \in Accesses
         /\ \A x \in Accesses : \E i \in 1 .. Len(Order) : Order[i] = x
<1>1. IsFiniteSet(Accesses)
  <2>1. PICK l \in Nat : DOMAIN prog.reg = 1 .. l
    BY OperandFacts
  <2> DEFINE f == [x \in Accesses |-> x.op]
  <2>2. f \in Injection(Accesses, 1 .. l)
    BY <2>1 DEF AccessesRight, Injection, IsInjective
  <2>3. IsFiniteSet(1 .. l)
    BY FS_Interval
  <2> HIDE DEF f
  <2> QED BY <2>2, <2>3, FS_Injection
<1> DEFINE R == {x \in Accesses \X Accesses : InOrder(x[1], x[2])}
<1>2. \A x, y \in Accesses : <<x, y>> \in R <=> InOrder(x, y)
  OBVIOUS
<1>3. \A x \in Accesses : x.op \in Nat /\ x.slot \in Nat /\ x.kind \in {"load", "store"}
  BY OperandFacts DEF AccessesRight
<1>4. \A x \in Accesses : ~InOrder(x, x)
  BY <1>3 DEF InOrder
<1>5. ASSUME NEW x \in Accesses, NEW y \in Accesses, x # y PROVE InOrder(x, y) \/ InOrder(y, x)
  <2>1. x.op # y.op
    BY <1>5 DEF AccessesRight
  <2>2. x.op < y.op \/ y.op < x.op
    BY <1>3, <2>1
  <2>3. x.slot < y.slot \/ y.slot < x.slot \/ x.slot = y.slot
    BY <1>3
  <2> QED BY <1>3, <2>2, <2>3 DEF InOrder
<1>6. ASSUME NEW x \in Accesses, NEW y \in Accesses, NEW z \in Accesses, InOrder(x, y), InOrder(y, z)
      PROVE  InOrder(x, z)
  <2>1. \A a, b, c \in Nat : a < b /\ b < c => a < c
    OBVIOUS
  <2> QED BY <1>3, <1>6, <2>1 DEF InOrder
<1>7. Orders(R, Accesses)
  <2> HIDE DEF R
  <2> QED BY <1>2, <1>4, <1>5, <1>6 DEF Orders
<1>8. Order = Ascending(Accesses, R)
  BY DEF Order
<1> HIDE DEF R
<1>9. PICK n \in Nat : /\ n = Cardinality(Accesses)
                       /\ Order \in [1 .. n -> Accesses] /\ Len(Order) = n
                       /\ \A x \in Accesses : \E i \in 1 .. n : Order[i] = x
  BY <1>1, <1>7, <1>8, AscendingFacts
<1> QED BY <1>9

(***************************************************************************)
(* From prog to SpillCode, access by access.                               *)
(***************************************************************************)
Kept(p, q) ==
  /\ WellFormed(q) /\ UsesOwned(q) /\ Blocks(q) = Blocks(p)
  /\ DOMAIN p.reg \subseteq DOMAIN q.reg
  /\ \A o \in DOMAIN p.reg : q.reg[o] = p.reg[o] /\ q.parent[o] = p.parent[o]
  /\ Ids(p) \subseteq Ids(q)
  /\ \A i \in Ids(p) : Node(q, i) = Node(p, i) /\ PointOf(q, i)[1] = PointOf(p, i)[1]

\* q has every access but those of P; L holds the uses that are loaded already.
Partial(q, P, L) ==
  /\ Kept(prog, q)
  /\ \E Rg, O : SavedBut(q, AllSlots, Rg, O, P)
  /\ \A u \in AllUses(prog), i \in Ids(prog) : LiveAt(q, u, i) => LiveAt(prog, u, i)
  /\ \A b \in Blocks(prog) : \A u : LiveAt(q, u, First(q, b)) =>
       u \in AllUses(prog) /\ u \notin L /\ LiveAt(prog, u, First(prog, b))
  /\ \A u \in AllUses(prog) : (\A x \in Accesses : x.op # u) =>
       \A i \in Ids(prog) : LiveAfter(prog, u, i) => LiveAfter(q, u, i)

\* AptOf: every access can be made at every stage.
LEMMA AptOf ==
  ASSUME AccessesRight, slots \in Nat, WellFormed(prog), NEW q, Kept(prog, q), NEW x \in Accesses
  PROVE  Apt(q, x)
<1>1. /\ x.op \in DOMAIN prog.reg /\ x.kind \in {"load", "store"}
      /\ x.slot \in slots + 1 .. AllSlots
      /\ prog.parent[x.op] \in Ids(prog)
      /\ x.kind = "load" => x.op \in Node(prog, prog.parent[x.op]).use
      /\ x.kind = "store" => x.op \in Node(prog, prog.parent[x.op]).def
  BY DEF AccessesRight
<1>2. x.slot \in Nat
  BY <1>1
<1>3. /\ q.parent[x.op] = prog.parent[x.op] /\ x.op \in DOMAIN q.reg
      /\ q.parent[x.op] \in Ids(q)
      /\ Node(q, q.parent[x.op]) = Node(prog, prog.parent[x.op])
      /\ WellFormed(q) /\ UsesOwned(q)
  BY <1>1 DEF Kept
<1> QED BY <1>1, <1>2, <1>3 DEF Apt, Legal, Owner

\* KeptStep: an access leaves the instructions there are.
LEMMA KeptStep ==
  ASSUME NEW p, WellFormed(p), NEW q, Kept(p, q), NEW a, Apt(q, a), NEW Q, Q = SpillOperand(q, a)
  PROVE  Kept(p, Q)
<1>1. /\ WellFormed(q) /\ Legal(q, a)
  BY DEF Apt
<1>2. /\ WellFormed(Q) /\ UsesOwned(Q) /\ DOMAIN q.reg \subseteq DOMAIN Q.reg /\ Blocks(Q) = Blocks(q)
      /\ \A o \in DOMAIN q.reg : Q.reg[o] = q.reg[o] /\ Q.parent[o] = q.parent[o]
  BY <1>1, NewFunction DEF Apt
<1>3. /\ Ids(q) \subseteq Ids(Q)
      /\ \A i \in Ids(q) : Node(Q, i) = Node(q, i) /\ PointOf(Q, i)[1] = PointOf(q, i)[1]
  BY <1>1, NodesKept
<1>4. /\ DOMAIN p.reg \subseteq DOMAIN q.reg /\ Blocks(q) = Blocks(p)
      /\ \A o \in DOMAIN p.reg : q.reg[o] = p.reg[o] /\ q.parent[o] = p.parent[o]
      /\ Ids(p) \subseteq Ids(q)
      /\ \A i \in Ids(p) : Node(q, i) = Node(p, i) /\ PointOf(q, i)[1] = PointOf(p, i)[1]
  BY DEF Kept
<1>5. \A o \in DOMAIN p.reg : Q.reg[o] = p.reg[o] /\ Q.parent[o] = p.parent[o]
  BY <1>2, <1>4
<1>6. \A i \in Ids(p) : Node(Q, i) = Node(p, i) /\ PointOf(Q, i)[1] = PointOf(p, i)[1]
  BY <1>3, <1>4
<1>7. Ids(p) \subseteq Ids(Q) /\ DOMAIN p.reg \subseteq DOMAIN Q.reg /\ Blocks(Q) = Blocks(p)
  BY <1>2, <1>3, <1>4
<1> QED BY <1>2, <1>5, <1>6, <1>7 DEF Kept

\* PartialStep: one more access.
LEMMA PartialStep ==
  ASSUME AccessesRight, slots \in Nat, AllSlots \in Nat, WellFormed(prog),
         NEW P \in SUBSET Accesses, NEW L, NEW q, Partial(q, P, L),
         NEW a \in P, NEW Q, Q = SpillOperand(q, a), NEW R \in SUBSET P, P \ {a} \subseteq R,
         NEW M, M \subseteq L \cup (IF a.kind = "load" THEN {a.op} ELSE {})
  PROVE  Partial(Q, R, M)
<1>1. Kept(prog, q) /\ \A x \in Accesses : Apt(q, x)
  BY AptOf DEF Partial
<1>2. Apt(q, a) /\ WellFormed(q) /\ \A x \in P : Apt(q, x)
  BY <1>1 DEF Apt
<1>3. Kept(prog, Q) /\ WellFormed(Q)
  BY <1>1, <1>2, KeptStep DEF Kept
<1>4. \E Rg, O : SavedBut(Q, AllSlots, Rg, O, R)
  <2>1. PICK Rg, O : SavedBut(q, AllSlots, Rg, O, P)
    BY DEF Partial
  <2>2. SavedBut(Q, AllSlots, Rg, NewSaved(q, a, Q, AllSlots, O), R)
    BY <1>2, <2>1, SavedStep
  <2> QED BY <2>2
<1>5. AllUses(prog) \subseteq DOMAIN prog.reg /\ DOMAIN prog.reg \subseteq DOMAIN q.reg
      /\ Ids(prog) \subseteq Ids(q) /\ Blocks(q) = Blocks(prog)
      /\ \A o \in DOMAIN prog.reg : q.reg[o] = prog.reg[o] /\ q.parent[o] = prog.parent[o]
  BY <1>1, UseFacts DEF Kept
<1>6. ASSUME NEW u \in AllUses(prog), NEW i \in Ids(prog), LiveAt(Q, u, i) PROVE LiveAt(prog, u, i)
  <2>1. u \in DOMAIN q.reg /\ i \in Ids(q)
    BY <1>5
  <2>2. LiveAt(q, u, i)
    BY <1>2, <1>6, <2>1, LiveBefore
  <2> QED BY <2>2 DEF Partial
<1>7. ASSUME NEW b \in Blocks(prog), NEW u, LiveAt(Q, u, First(Q, b))
      PROVE  u \in AllUses(prog) /\ u \notin M /\ LiveAt(prog, u, First(prog, b))
  <2>0. b \in Blocks(q)
    BY <1>5
  <2>1. u \in DOMAIN q.reg
    BY <1>2, <1>7, <2>0, LiveInside
  <2>2. LiveAt(q, u, First(q, b))
    BY <1>2, <1>7, <2>0, <2>1, LiveBefore
  <2>3. u \in AllUses(prog) /\ u \notin L /\ LiveAt(prog, u, First(prog, b))
    BY <2>2 DEF Partial
  <2>4. a.kind = "load" => u # a.op
    BY <1>2, <1>7, <2>0, LiveReloaded
  <2> QED BY <2>3, <2>4
<1>8. ASSUME NEW u \in AllUses(prog), \A x \in Accesses : x.op # u,
             NEW i \in Ids(prog), LiveAfter(prog, u, i)
      PROVE  LiveAfter(Q, u, i)
  <2>1. u \in DOMAIN q.reg /\ i \in Ids(q) /\ u \in DOMAIN prog.reg
    BY <1>5
  <2>2. LiveAfter(q, u, i)
    BY <1>8 DEF Partial
  <2>3. ASSUME a.kind = "load", q.reg[u] = RegOf(q, a), LiveAt(q, u, Owner(q, a)) PROVE FALSE
    <3>1. /\ a \in Accesses /\ a.op \in DOMAIN prog.reg /\ prog.parent[a.op] \in Ids(prog)
      BY DEF AccessesRight
    <3>2. Owner(q, a) = prog.parent[a.op] /\ RegOf(q, a) = prog.reg[a.op] /\ q.reg[u] = prog.reg[u]
      BY <1>5, <2>1, <3>1 DEF Owner, RegOf
    <3>3. LiveAt(prog, u, prog.parent[a.op])
      BY <2>3, <3>1, <3>2 DEF Partial
    <3>4. prog.reg[u] = prog.reg[a.op]
      BY <2>3, <3>2
    <3> QED BY <1>8, <2>3, <3>1, <3>3, <3>4 DEF AccessesRight
  <2> QED BY <1>2, <2>1, <2>2, <2>3, LiveStill
<1> QED BY <1>3, <1>4, <1>6, <1>7, <1>8 DEF Partial

\* PartialInit: no access made yet.
LEMMA PartialInit ==
  ASSUME AccessesRight, FunctionRight(prog, slots), AllSlots \in Nat, slots <= AllSlots,
         AllSlots # slots => ToSet(prog.reg) # {}
  PROVE  Partial(prog, Accesses, {})
<1>1. WellFormed(prog) /\ UsesOwned(prog) /\ slots \in Nat
  BY TidyFacts DEF FunctionRight
<1>2. PICK Sg, V : Saved(prog, slots, Sg, V)
  BY DEF FunctionRight
<1>3. PICK m \in Nat, n \in Nat : m = slots /\ n = AllSlots /\ m <= n
  BY <1>1
<1>4. \A s \in 1 .. n : s \in 1 .. m \/ s \in m + 1 .. n
  OBVIOUS
<1>5. 1 .. m \subseteq 1 .. n /\ \A s \in m + 1 .. n : s \in 1 .. n /\ s \notin 1 .. m
  BY <1>3
<1> DEFINE Holds(s) == {x \in Accesses : x.slot = s}
           Rg == [s \in 1 .. n |->
                    IF s \in 1 .. m THEN Sg[s]
                    ELSE IF Holds(s) # {} THEN prog.reg[(CHOOSE x \in Holds(s) : TRUE).op]
                    ELSE CHOOSE r \in ToSet(prog.reg) : TRUE]
           In(s, i) == IF s \in 1 .. m THEN <<s, i>> \in V
                       ELSE \E x \in Accesses : /\ x.slot = s /\ x.kind = "load"
                                                /\ LiveAt(prog, x.op, i)
           O == {y \in (1 .. n) \X Ids(prog) : In(y[1], y[2])}
<1>6. \A s \in 1 .. n, i \in Ids(prog) : <<s, i>> \in O <=> In(s, i)
  <2> HIDE DEF In
  <2> QED OBVIOUS
<1>7. /\ Sg \in [1 .. m -> ToSet(prog.reg)]
      /\ \A i \in Ids(prog) :
           /\ Node(prog, i).kind = "load" =>
                /\ Node(prog, i).slot \in 1 .. m /\ <<Node(prog, i).slot, i>> \in V
                /\ \A d \in Node(prog, i).def : prog.reg[d] = Sg[Node(prog, i).slot]
           /\ Node(prog, i).kind = "store" =>
                /\ Node(prog, i).slot \in 1 .. m /\ Node(prog, i).def = {}
                /\ Max(Node(prog, i).use) \in Node(prog, i).use
                /\ prog.reg[Max(Node(prog, i).use)] = Sg[Node(prog, i).slot]
           /\ \A j \in Flow(prog, i) : \A s \in 1 .. m : <<s, j>> \in V =>
                \/ Node(prog, i).kind = "store" /\ Node(prog, i).slot = s
                \/ <<s, i>> \in V /\ ~ (Node(prog, i).kind = "op" /\ Writes(prog, i, Sg[s]))
  BY <1>2, <1>3, Zenon DEF Saved
<1>8. ASSUME NEW x \in Accesses
      PROVE  /\ x.slot \in m + 1 .. n /\ Rg[x.slot] = prog.reg[x.op] /\ x.slot \in 1 .. n
  <2>1. x.slot \in m + 1 .. n
    BY <1>3 DEF AccessesRight
  <2>2. PICK z : z = CHOOSE y \in Holds(x.slot) : TRUE
    OBVIOUS
  <2>3. z \in Accesses /\ z.slot = x.slot
    BY <2>2
  <2>4. Holds(x.slot) # {}
    OBVIOUS
  <2> HIDE DEF Holds
  <2>5. Rg[x.slot] = prog.reg[z.op]
    BY <1>5, <2>1, <2>2, <2>4
  <2>6. prog.reg[z.op] = prog.reg[x.op]
    BY <2>3 DEF AccessesRight
  <2> QED BY <1>5, <2>1, <2>5, <2>6
<1>9. Rg \in [1 .. n -> ToSet(prog.reg)] /\ \A s \in 1 .. m : Rg[s] = Sg[s]
  <2>1. ASSUME NEW s \in 1 .. n
        PROVE  Rg[s] \in ToSet(prog.reg) /\ (s \in 1 .. m => Rg[s] = Sg[s])
    <3>1. CASE s \in 1 .. m
      <4> HIDE DEF Holds
      <4>1. Rg[s] = Sg[s]
        BY <3>1
      <4> QED BY <1>7, <3>1, <4>1
    <3>2. CASE s \in m + 1 .. n /\ Holds(s) # {}
      <4>1. PICK x \in Accesses : x.slot = s
        BY <3>2
      <4>2. Rg[s] = prog.reg[x.op] /\ x.op \in DOMAIN prog.reg
        BY <1>8, <4>1 DEF AccessesRight
      <4>3. prog.reg[x.op] \in ToSet(prog.reg)
        BY <4>2 DEF ToSet
      <4> HIDE DEF Holds, Rg
      <4> QED BY <1>5, <3>2, <4>2, <4>3
    <3>3. CASE s \in m + 1 .. n /\ Holds(s) = {}
      <4> HIDE DEF Holds
      <4>1. Rg[s] = CHOOSE r \in ToSet(prog.reg) : TRUE
        BY <1>5, <3>3
      <4>2. ToSet(prog.reg) # {}
        BY <1>3, <3>3
      <4> QED BY <1>5, <3>3, <4>1, <4>2
    <3> QED BY <1>4, <3>1, <3>2, <3>3
  <2>2. Rg = [s \in 1 .. n |-> Rg[s]]
    OBVIOUS
  <2> HIDE DEF Rg
  <2> QED BY <1>5, <2>1, <2>2
<1> HIDE DEF Rg, Holds, O
<1>10. ASSUME NEW i \in Ids(prog)
       PROVE  /\ Node(prog, i).kind = "load" =>
                   /\ Node(prog, i).slot \in 1 .. n /\ <<Node(prog, i).slot, i>> \in O
                   /\ \A d \in Node(prog, i).def : prog.reg[d] = Rg[Node(prog, i).slot]
              /\ Node(prog, i).kind = "store" =>
                   /\ Node(prog, i).slot \in 1 .. n /\ Node(prog, i).def = {}
                   /\ Max(Node(prog, i).use) \in Node(prog, i).use
                   /\ prog.reg[Max(Node(prog, i).use)] = Rg[Node(prog, i).slot]
  BY <1>5, <1>6, <1>7, <1>9
<1>11. ASSUME NEW i \in Ids(prog), NEW j \in Flow(prog, i), NEW s \in 1 .. n, <<s, j>> \in O
       PROVE  \/ Node(prog, i).kind = "store" /\ Node(prog, i).slot = s
              \/ <<s, i>> \in O /\ ~ (Node(prog, i).kind = "op" /\ Writes(prog, i, Rg[s]))
              \/ \E x \in Accesses : x.kind = "store" /\ x.slot = s /\ prog.parent[x.op] = i
  <2>0. j \in Ids(prog)
    BY <1>1, FlowFacts
  <2>1. In(s, j)
    <3> HIDE DEF In
    <3> QED BY <1>6, <1>11, <2>0
  <2>2. CASE s \in 1 .. m
    <3>1. <<s, j>> \in V
      BY <2>1, <2>2
    <3>2. \/ Node(prog, i).kind = "store" /\ Node(prog, i).slot = s
          \/ <<s, i>> \in V /\ ~ (Node(prog, i).kind = "op" /\ Writes(prog, i, Sg[s]))
      BY <1>7, <2>2, <3>1, Zenon
    <3>3. <<s, i>> \in V => <<s, i>> \in O
      BY <1>6, <2>2
    <3> QED BY <1>9, <2>2, <3>2, <3>3
  <2>3. CASE s \notin 1 .. m
    <3>1. PICK x \in Accesses : x.slot = s /\ x.kind = "load" /\ LiveAt(prog, x.op, j)
      BY <2>1, <2>3
    <3>2. LiveAfter(prog, x.op, i) /\ Rg[s] = prog.reg[x.op]
      BY <1>8, <3>1 DEF LiveAfter, LiveAt
    <3>3. CASE Writes(prog, i, prog.reg[x.op])
      BY <3>1, <3>2, <3>3 DEF AccessesRight
    <3>4. CASE ~Writes(prog, i, prog.reg[x.op])
      <4>1. LiveAt(prog, x.op, i)
        BY <3>2, <3>4, LiveClosed DEF FunctionRight
      <4>2. In(s, i)
        BY <2>3, <3>1, <4>1
      <4>3. <<s, i>> \in O
        <5> HIDE DEF In
        <5> QED BY <1>6, <4>2
      <4> QED BY <3>2, <3>4, <4>3
    <3> QED BY <3>3, <3>4
  <2> QED BY <2>2, <2>3
<1>12. ASSUME NEW x \in Accesses
       PROVE  /\ x.slot \in 1 .. n /\ Rg[x.slot] = prog.reg[x.op]
              /\ x.kind = "load" => <<x.slot, prog.parent[x.op]>> \in O
  <2>1. ASSUME x.kind = "load" PROVE <<x.slot, prog.parent[x.op]>> \in O
    <3>1. PICK i \in Ids(prog) : i = prog.parent[x.op] /\ x.op \in Node(prog, i).use
      BY <2>1 DEF AccessesRight
    <3>2. LiveAt(prog, x.op, i)
      BY <3>1, LiveClosed DEF FunctionRight
    <3>3. In(x.slot, i)
      BY <1>5, <1>8, <2>1, <3>2
    <3> HIDE DEF In
    <3> QED BY <1>6, <1>8, <3>1, <3>3
  <2> QED BY <1>8, <2>1
<1>13. SavedBut(prog, n, Rg, O, Accesses)
  BY <1>9, <1>10, <1>11, <1>12 DEF SavedBut
<1>14. Kept(prog, prog)
  BY <1>1 DEF Kept
<1>15. \A b \in Blocks(prog) : \A u : LiveAt(prog, u, First(prog, b)) => u \in AllUses(prog)
  BY <1>1, LiveOfUse
<1> QED BY <1>3, <1>13, <1>14, <1>15 DEF Partial

\* PartialEnd: all of them made.
LEMMA PartialEnd ==
  ASSUME AccessesRight, FunctionRight(prog, slots), WebsRight, spill \in [DOMAIN webs -> BOOLEAN]
  PROVE  \E P, L : /\ P = {} /\ Partial(SpillCode, P, L)
                   /\ \A x \in Accesses : x.kind = "load" => x.op \in L
<1>0. WellFormed(prog) /\ slots \in Nat
  BY DEF FunctionRight
<1>1. AllSlots \in Nat /\ slots <= AllSlots /\ (AllSlots # slots => Spilled # {})
  BY <1>0, SlotFacts DEF WebsRight
<1>2. AllSlots # slots => ToSet(prog.reg) # {}
  <2>1. ASSUME NEW k \in Spilled PROVE ToSet(prog.reg) # {}
    <3>1. k \in DOMAIN webs
      BY DEF Spilled
    <3>2. PICK i \in Ids(prog) : \E d : d \in Node(prog, i).def
      BY <3>1 DEF WebsRight
    <3>3. PICK d : d \in Node(prog, i).def
      BY <3>2
    <3>4. d \in DOMAIN prog.reg
      BY <1>0, <3>3, NodeFacts
    <3> QED BY <3>4 DEF ToSet
  <2> QED BY <1>1, <2>1
<1>3. PICK N \in Nat : /\ N = Len(Order)
                       /\ \A i \in 1 .. N : Order[i] \in Accesses
                       /\ \A x \in Accesses : \E i \in 1 .. N : Order[i] = x
  BY <1>0, <1>1, OrderFacts
<1>4. PICK f : /\ f[0] = prog /\ f[N] = SpillCode
               /\ \A n \in 1 .. N : f[n] = SpillOperand(f[n - 1], Order[n])
  BY <1>3, SpillSteps
<1> DEFINE Rest(n) == {Order[i] : i \in n + 1 .. N}
           Done(n) == {Order[i].op : i \in {j \in 1 .. n : Order[j].kind = "load"}}
           Good(n) == Partial(f[n], Rest(n), Done(n))
<1>5. Good(0)
  <2>1. Rest(0) = Accesses
    BY <1>3
  <2>2. Done(0) = {}
    OBVIOUS
  <2>3. Partial(prog, Accesses, {})
    BY <1>1, <1>2, PartialInit
  <2> QED BY <1>4, <2>1, <2>2, <2>3
<1>6. ASSUME NEW n \in 1 .. N, Good(n - 1) PROVE Good(n)
  <2>1. PICK a : a = Order[n]
    OBVIOUS
  <2>2. a \in Rest(n - 1) /\ a \in Accesses
    <3>1. n \in (n - 1) + 1 .. N
      OBVIOUS
    <3> QED BY <1>3, <2>1, <3>1
  <2>3. Rest(n - 1) \in SUBSET Accesses
    <3>1. \A i \in (n - 1) + 1 .. N : i \in 1 .. N
      OBVIOUS
    <3> QED BY <1>3, <3>1
  <2>4. Rest(n) \in SUBSET Rest(n - 1) /\ Rest(n - 1) \ {a} \subseteq Rest(n)
    <3>1. n + 1 .. N \subseteq (n - 1) + 1 .. N /\ \A i \in (n - 1) + 1 .. N : i = n \/ i \in n + 1 .. N
      OBVIOUS
    <3> QED BY <2>1, <3>1
  <2>5. Done(n) \subseteq Done(n - 1) \cup (IF a.kind = "load" THEN {a.op} ELSE {})
    <3>1. \A i \in 1 .. n : i = n \/ i \in 1 .. n - 1
      OBVIOUS
    <3> QED BY <2>1, <3>1
  <2>6. f[n] = SpillOperand(f[n - 1], a)
    BY <1>4, <2>1
  <2> HIDE DEF Rest, Done
  <2> QED BY <1>0, <1>1, <1>6, <2>2, <2>3, <2>4, <2>5, <2>6, PartialStep
<1>7. Good(N)
  <2> DEFINE Bad == {n \in 0 .. N : ~Good(n)}
  <2>1. ASSUME Bad # {} PROVE FALSE
    <3>1. Bad \in SUBSET Nat
      OBVIOUS
    <3> HIDE DEF Bad, Good
    <3>2. PICK n \in Bad : \A l \in Bad : n <= l
      BY <2>1, <3>1, NatMinimum
    <3>3. n \in 0 .. N /\ ~Good(n)
      BY <3>2 DEF Bad
    <3>4. n # 0
      BY <1>5, <3>3
    <3>5. n \in 1 .. N /\ n - 1 \in 0 .. N /\ ~ (n <= n - 1)
      BY <3>3, <3>4
    <3>6. Good(n - 1)
      BY <3>2, <3>5 DEF Bad
    <3> QED BY <1>6, <3>3, <3>5, <3>6
  <2>2. N \in 0 .. N
    OBVIOUS
  <2> HIDE DEF Good
  <2> QED BY <2>1, <2>2
<1>8. Rest(N) = {}
  <2>1. N + 1 .. N = {}
    OBVIOUS
  <2> QED BY <2>1
<1>9. \A x \in Accesses : x.kind = "load" => x.op \in Done(N)
  BY <1>3
<1>10. Partial(SpillCode, Rest(N), Done(N))
  BY <1>4, <1>7
<1> HIDE DEF Rest, Done
<1> QED BY <1>8, <1>9, <1>10

\* SpillRight: the function with the spill code can be allocated again.
LEMMA SpillRight ==
  ASSUME FunctionRight(prog, slots), WebsRight, spill \in [DOMAIN webs -> BOOLEAN], Stay,
         Tidy(SpillCode)
  PROVE  /\ FunctionRight(SpillCode, slots + Cardinality({i \in DOMAIN webs : spill[i]}))
         /\ Blocks(SpillCode) = Blocks(prog) /\ AllUses(prog) \subseteq AllUses(SpillCode)
<1>0. WellFormed(prog) /\ DefinedAbove(prog) /\ slots \in Nat
  BY DEF FunctionRight
<1>1. AccessesRight
  BY WebsGiveAccesses
<1>2. AllSlots \in Nat /\ AllSlots = slots + Cardinality({i \in DOMAIN webs : spill[i]})
  BY <1>0, SlotFacts DEF WebsRight, AllSlots, Spilled
<1>3. PICK q : q = SpillCode
  OBVIOUS
<1>4. PICK L : /\ Partial(q, {}, L)
               /\ \A x \in Accesses : x.kind = "load" => x.op \in L
  BY <1>1, <1>3, PartialEnd
<1>5. /\ WellFormed(q) /\ Blocks(q) = Blocks(prog)
      /\ DOMAIN prog.reg \subseteq DOMAIN q.reg
      /\ \A o \in DOMAIN prog.reg : q.reg[o] = prog.reg[o]
      /\ Ids(prog) \subseteq Ids(q)
      /\ \A i \in Ids(prog) : Node(q, i) = Node(prog, i) /\ PointOf(q, i)[1] = PointOf(prog, i)[1]
  BY <1>4 DEF Partial, Kept
<1>6. \E Rg, O : Saved(q, AllSlots, Rg, O)
  <2>1. PICK Rg, O : SavedBut(q, AllSlots, Rg, O, {})
    BY <1>4 DEF Partial
  <2>2. Saved(q, AllSlots, Rg, O)
    BY <2>1, Zenon DEF Saved, SavedBut
  <2> QED BY <2>2
<1>7. AllUses(prog) \subseteq AllUses(q)
  BY <1>0, <1>5, UseFacts
<1>8. DefinedAbove(q)
  <2> SUFFICES ASSUME NEW b \in Blocks(q), NEW u \in AllUses(q), LiveAt(q, u, First(q, b))
               PROVE  \E i \in Ids(q) : /\ PointOf(q, i)[1] < b
                                        /\ Writes(q, i, q.reg[u])
                                        /\ LiveAfter(q, u, i)
    BY DEF DefinedAbove
  <2>1. b \in Blocks(prog) /\ u \in AllUses(prog) /\ u \notin L /\ LiveAt(prog, u, First(prog, b))
    BY <1>4, <1>5 DEF Partial
  <2>2. PICK i \in Ids(prog) : /\ PointOf(prog, i)[1] < b
                               /\ Writes(prog, i, prog.reg[u])
                               /\ LiveAfter(prog, u, i)
    BY <1>0, <2>1 DEF DefinedAbove
  <2>3. ASSUME NEW x \in Accesses PROVE x.op # u
    <3>1. CASE x.kind = "load"
      BY <1>4, <2>1, <3>1
    <3>2. CASE x.kind = "store"
      BY <1>1, <2>1, <3>2 DEF AccessesRight
    <3> QED BY <1>1, <3>1, <3>2 DEF AccessesRight
  <2>4. LiveAfter(q, u, i)
    BY <1>4, <2>1, <2>2, <2>3 DEF Partial
  <2>5. Writes(q, i, q.reg[u])
    <3>1. u \in DOMAIN prog.reg /\ Node(prog, i).def \subseteq DOMAIN prog.reg
      BY <1>0, <2>1, UseFacts, NodeFacts
    <3> QED BY <1>5, <2>2, <3>1 DEF Writes
  <2> QED BY <1>5, <2>2, <2>4, <2>5
<1> QED BY <1>2, <1>3, <1>5, <1>6, <1>7, <1>8 DEF FunctionRight

\* InitRight: the invariant holds of a function as genMachineCode leaves it.
LEMMA InitRight ==
  ASSUME \A p \in Programs : Tidy(p) /\ DefinedAbove(p), Init PROVE IInv
<1>1. /\ WellFormed(prog) /\ Tidy(prog) /\ DefinedAbove(prog)
      /\ \A x \in Points(prog) : InstAt(prog, x).kind = "op"
  BY ProgramsAssumption DEF Init
<1>2. \A i \in Ids(prog) : Node(prog, i).kind = "op"
  BY <1>1, NodeFacts
<1>3. Saved(prog, 0, << >>, {})
  <2>1. << >> \in [1 .. 0 -> ToSet(prog.reg)]
    OBVIOUS
  <2> QED BY <1>2, <2>1 DEF Saved
<1>4. FunctionRight(prog, slots)
  BY <1>1, <1>3 DEF FunctionRight, Init
<1>5. LVP!IInv
  <2>1. prog.code \in Seq(Seq(Instruction)) /\ prog.succ \in [Blocks(prog) -> SUBSET Blocks(prog)]
    BY <1>1 DEF WellFormed, Function
  <2>2. LVP!WellFormed
    BY <2>1, SameNames DEF LVP!WellFormed
  <2>3. Len(prog.code) \in Nat
    BY <1>1, Shape
  <2>4. LVP!TypeOK
    BY <2>3, SameNames DEF Init, LVP!TypeOK, LVP!LiveSets
  <2> QED BY <2>2, <2>4 DEF Init, LVP!IInv, LVP!OnlyLive, LVP!SolvedSoFar
<1> QED BY <1>4, <1>5 DEF IInv, Init

\* LivenessKeeps: a step of the analysis.
LEMMA LivenessKeeps ==
  ASSUME IInv, ComputeLiveness PROVE IInv'
<1>1. LVP!IInv /\ FunctionRight(prog, slots) /\ Len(webs) = Len(intervals) /\ phase = "liveness"
  BY DEF IInv, ComputeLiveness
<1>2. UNCHANGED <<prog, slots, webs, intervals, phase>>
  BY DEF ComputeLiveness, lsVars
<1>3. LVP!Analyse
  BY SameNames
     DEF ComputeLiveness, LV!Analyse, LVP!Analyse, LV!ClearLiveIn, LVP!ClearLiveIn,
         LV!VisitBlock, LVP!VisitBlock, LV!EndPass, LVP!EndPass, LV!BeginPass, LVP!BeginPass,
         LV!PastLastBlock, LVP!PastLastBlock, LV!Use, LVP!Use, LV!Def, LVP!Def,
         LV!Blocks, LVP!Blocks, LV!AllUses, LVP!AllUses, LV!Insts, LVP!Insts, LV!UsesIn, LVP!UsesIn,
         LV!Defines, LVP!Defines, LV!Transparent, LVP!Transparent
<1>4. LVP!IInv'
  <2>1. LVP!Next
    BY <1>2, <1>3 DEF LVP!Next
  <2> QED BY <1>1, <2>1, LVP!IInvStep
<1>5. FunctionRight(prog, slots)'
  BY <1>1, <1>2
<1> QED BY <1>1, <1>2, <1>4, <1>5 DEF IInv

\* ChainsKeep: makeDuChains.
LEMMA ChainsKeep ==
  ASSUME IInv, MakeDuChains PROVE IInv'
<1>1. /\ LVP!IInv /\ FunctionRight(prog, slots) /\ Len(webs) = Len(intervals)
      /\ WellFormed(prog) /\ Analysed
  BY DEF IInv, MakeDuChains, FunctionRight, Analysed
<1>2. UNCHANGED <<prog, slots, webs, intervals, lvVars, lvpc>> /\ phase' = "intervals"
      /\ du_chains' = [d \in Defs |-> Chain(d)] /\ lvpc = "done"
  BY DEF MakeDuChains, lsVars, lvVars
<1>3. LVP!IInv'
  BY <1>1, <1>2, AnalysisKept
<1>4. ASSUME NEW d \in Defs PROVE du_chains'[d] = Chained(d)
  BY <1>1, <1>2, ChainIsRight
<1>5. ChainsRight'
  <2>1. Defs' = Defs
    BY <1>2 DEF Defs
  <2>2. \A d : (Chained(d))' = Chained(d)
    BY <1>2 DEF Chained, Reached
  <2>3. DOMAIN (du_chains') = Defs'
    BY <1>2, <2>1
  <2>4. \A d \in Defs' : du_chains'[d] = (Chained(d))'
    BY <1>4, <2>1, <2>2
  <2> QED BY <2>3, <2>4 DEF ChainsRight
<1>6. FunctionRight(prog, slots)'
  BY <1>1, <1>2
<1> QED BY <1>1, <1>2, <1>3, <1>5, <1>6 DEF IInv

\* ScanStarts: the scan starts with its invariant.
LEMMA ScanStarts == LSP!Init => LSP!IInv
BY ScanAssumptions, LSP!InitIInv DEF LSP!FirstFpReg

\* BeginKeeps: computeLiveIntervals and the head of the scan.
LEMMA BeginKeeps ==
  ASSUME IInv, BeginScan PROVE IInv'
<1>1. /\ LVP!IInv /\ FunctionRight(prog, slots) /\ lvpc = "done" /\ ChainsRight
      /\ WellFormed(prog) /\ Tidy(prog) /\ DefinedAbove(prog) /\ Analysed
  BY DEF IInv, BeginScan, FunctionRight, Analysed
<1>2. PICK newestFirst \in BOOLEAN :
        LET sorted == SortedWebs(newestFirst)
        IN  /\ webs' = sorted
            /\ intervals' = [i \in DOMAIN sorted |-> AsInterval(sorted[i])]
            /\ rreg' = [i \in DOMAIN sorted |-> 0]
            /\ spill' = [i \in DOMAIN sorted |-> FALSE]
            /\ pc' = IF sorted = << >> THEN "done" ELSE "expire"
  BY DEF BeginScan
<1>3. PICK s : s = SortedWebs(newestFirst)
  OBVIOUS
<1>4. PICK t : t = [k \in DOMAIN s |-> AsInterval(s[k])]
  OBVIOUS
<1>5. /\ webs' = s /\ intervals' = t /\ rreg' = [i \in DOMAIN s |-> 0]
      /\ spill' = [i \in DOMAIN s |-> FALSE]
      /\ pc' = IF s = << >> THEN "done" ELSE "expire"
  BY <1>2, <1>3, <1>4
<1>6. /\ activelist' = << >> /\ regs' = IntRegs /\ fpregs' = FpRegs /\ success' = TRUE
      /\ cur' = 1 /\ phase' = "scan" /\ UNCHANGED <<prog, lvVars, slots>>
  BY DEF BeginScan
<1>7. /\ t \in Seq(LS!Interval) /\ LS!SortedByStart(t)
      /\ Len(s) \in Nat /\ DOMAIN s = 1 .. Len(s) /\ Len(s) = Len(t)
  BY <1>1, <1>3, <1>4, SortedRight
<1>8. WebsRight'
  <2>1. /\ \A k \in DOMAIN s :
              /\ s[k].defs # {}
              /\ \A d \in s[k].defs : \E i \in Ids(prog) : d \in Node(prog, i).def
              /\ s[k].uses \subseteq AllUses(prog)
              /\ \A o, q \in Operands(s[k]) : prog.reg[o] = prog.reg[q]
        /\ \A k, l \in DOMAIN s : Operands(s[k]) \cap Operands(s[l]) # {} => k = l
    BY <1>1, <1>3, <1>4, SortedRight
  <2>2. \A u, i : LiveAt(prog, u, i) =>
              \E k \in DOMAIN s : /\ u \in s[k].uses
                                  /\ \/ t[k].start < NumberOf(i)
                                     \/ Awaited(u) /\ t[k].start <= NumberOf(prog.parent[u])
                                  /\ NumberOf(i) <= t[k].end
    BY <1>1, <1>3, <1>4, SortedRight
  <2>3. \A i \in Ids(prog) : \A d \in Node(prog, i).def :
              \E k \in DOMAIN s :
                /\ d \in s[k].defs
                /\ t[k].start <= NumberOf(prog.parent[d])
                /\ \/ NumberOf(prog.parent[d]) <= t[k].end
                   \/ t[k].start = NumberOf(prog.parent[d])
                /\ Reached(i, d) \subseteq s[k].uses
    BY <1>1, <1>3, <1>4, SortedRight
  <2>4. prog' = prog
    BY <1>6
  <2>5. \A i : (NumberOf(i))' = NumberOf(i)
    BY <2>4 DEF NumberOf, Number
  <2>6. \A i, d : (Reached(i, d))' = Reached(i, d)
    BY <2>4 DEF Reached
  <2>11. \A u : /\ (Awaited(u))' <=> Awaited(u)
                /\ (NumberOf(prog.parent[u]))' = NumberOf(prog.parent[u])
    BY <2>4 DEF Awaited, NumberOf, Number
  <2>7. webs' = s /\ intervals' = t
    BY <1>5
  <2>8. /\ Len(webs') \in Nat /\ DOMAIN (webs') = 1 .. Len(webs') /\ Len(webs') = Len(intervals')
        /\ \A k \in DOMAIN (webs') :
              /\ webs'[k].defs # {}
              /\ \A d \in webs'[k].defs : \E i \in Ids(prog') : d \in Node(prog', i).def
              /\ webs'[k].uses \subseteq AllUses(prog')
              /\ \A o, q \in Operands(webs'[k]) : prog'.reg[o] = prog'.reg[q]
        /\ \A k, l \in DOMAIN (webs') : Operands(webs'[k]) \cap Operands(webs'[l]) # {} => k = l
    BY <1>7, <2>1, <2>4, <2>7
  <2>9. /\ \A u, i : LiveAt(prog', u, i) =>
              \E k \in DOMAIN (webs') : /\ u \in webs'[k].uses
                                  /\ \/ intervals'[k].start < (NumberOf(i))'
                                     \/ /\ Awaited(u)'
                                        /\ intervals'[k].start <= (NumberOf(prog.parent[u]))'
                                  /\ (NumberOf(i))' <= intervals'[k].end
    BY <2>2, <2>4, <2>5, <2>7, <2>11
  <2>10. \A i \in Ids(prog') : \A d \in Node(prog', i).def :
              \E k \in DOMAIN (webs') :
                /\ d \in webs'[k].defs
                /\ intervals'[k].start <= (NumberOf(prog.parent[d]))'
                /\ \/ (NumberOf(prog.parent[d]))' <= intervals'[k].end
                   \/ intervals'[k].start = (NumberOf(prog.parent[d]))'
                /\ (Reached(i, d))' \subseteq webs'[k].uses
    BY <2>3, <2>4, <2>5, <2>6, <2>7, <2>11
  <2> QED BY <2>8, <2>9, <2>10 DEF WebsRight, Operands
<1>9. LSP!IInv'
  <2>1. LSP!Init'
    <3>1. DOMAIN s = 1 .. Len(t) /\ (s = << >> <=> Len(t) = 0)
      BY <1>7
    <3> QED BY <1>5, <1>6, <1>7, <3>1 DEF LSP!Init, LSP!N
  <2> QED BY <2>1, ScanStarts, PTL
<1>10. LVP!IInv' /\ FunctionRight(prog, slots)' /\ lvpc' = "done"
  <2>1. LVP!IInv'
    BY <1>1, <1>6, AnalysisKept
  <2>2. FunctionRight(prog, slots)'
    BY <1>1, <1>6
  <2> QED BY <1>1, <1>6, <2>1, <2>2 DEF lvVars
<1> QED BY <1>5, <1>6, <1>7, <1>8, <1>9, <1>10 DEF IInv

\* ScanKeeps: a step of the scan.
LEMMA ScanKeeps ==
  ASSUME IInv, ScanStep PROVE IInv'
<1>1. /\ LVP!IInv /\ FunctionRight(prog, slots) /\ lvpc = "done" /\ WebsRight /\ LSP!IInv
      /\ Len(webs) = Len(intervals)
  BY DEF IInv, ScanStep
<1>2. phase' = "scan" /\ UNCHANGED <<prog, lvVars, webs, slots>> /\ LS!Scan
  BY DEF ScanStep
<1>3. /\ \A i : LS!End(i) = LSP!End(i) /\ LS!Start(i) = LSP!Start(i)
      /\ \A i : LS!Expired(i) <=> LSP!Expired(i)
      /\ \A r : LS!IsGeneral(r) <=> LSP!IsGeneral(r)
      /\ \A fp : LS!FreeList(fp) = LSP!FreeList(fp)
      /\ \A f : LS!Taken(f) = LSP!Taken(f)
      /\ LS!BankExhausted <=> LSP!BankExhausted
      /\ LS!LastActive = LSP!LastActive /\ LS!N = LSP!N
      /\ \A i : LS!Activate(i) <=> LSP!Activate(i)
      /\ LS!NextInterval <=> LSP!NextInterval
  <2>1. /\ \A i : LS!End(i) = LSP!End(i) /\ LS!Start(i) = LSP!Start(i)
        /\ \A fp : LS!FreeList(fp) = LSP!FreeList(fp)
        /\ LS!LastActive = LSP!LastActive /\ LS!N = LSP!N
        /\ \A f : LS!Taken(f) = LSP!Taken(f)
        /\ \A r : LS!IsGeneral(r) <=> LSP!IsGeneral(r)
    BY DEF LS!End, LSP!End, LS!Start, LSP!Start, LS!FreeList, LSP!FreeList, LS!LastActive,
           LSP!LastActive, LS!N, LSP!N, LS!Taken, LSP!Taken, LS!IsGeneral, LSP!IsGeneral,
           LS!FirstFpReg, LSP!FirstFpReg
  <2>2. \A S, T : LS!Bijection(S, T) = LSP!Bijection(S, T)
    BY DEF LS!Bijection, LSP!Bijection, LS!Injection, LSP!Injection, LS!Surjection, LSP!Surjection,
           LS!IsInjective, LSP!IsInjective
  <2>3. \A n : LS!Permutation(n) = LSP!Permutation(n)
    BY <2>2 DEF LS!Permutation, LSP!Permutation
  <2>4. \A q : LS!SortedByEnd(q) = LSP!SortedByEnd(q)
    BY <2>1, <2>3 DEF LS!SortedByEnd, LSP!SortedByEnd
  <2>5. \A i : LS!Activate(i) <=> LSP!Activate(i)
    BY <2>4 DEF LS!Activate, LSP!Activate
  <2> QED BY <2>1, <2>5 DEF LS!Expired, LSP!Expired, LS!BankExhausted, LSP!BankExhausted,
                            LS!NextInterval, LSP!NextInterval
<1>4. LSP!Scan /\ intervals' = intervals
  <2>1. CASE LS!ExpireOldInterval
    BY <2>1, <1>3 DEF LS!ExpireOldInterval, LSP!ExpireOldInterval, LSP!Scan
  <2>2. CASE LS!ExpireReturns
    BY <2>2, <1>3 DEF LS!ExpireReturns, LSP!ExpireReturns, LSP!Scan
  <2>3. CASE LS!AssignRegister
    BY <2>3, <1>3 DEF LS!AssignRegister, LSP!AssignRegister, LSP!Scan
  <2>4. CASE LS!SpillLast
    BY <2>4, <1>3 DEF LS!SpillLast, LSP!SpillLast, LSP!Scan
  <2>5. CASE LS!SpillCurrent
    BY <2>5, <1>3 DEF LS!SpillCurrent, LSP!SpillCurrent, LSP!Scan
  <2> QED BY <1>2, <2>1, <2>2, <2>3, <2>4, <2>5 DEF LS!Scan
<1>5. LSP!IInv'
  BY <1>1, <1>4, ScanAssumptions, LSP!NextKeepsIInv DEF LSP!Next, LSP!FirstFpReg
<1>6. WebsRight' /\ LVP!IInv' /\ FunctionRight(prog, slots)' /\ lvpc' = "done"
  <2>1. WebsRight'
    BY <1>1, <1>2, <1>4, WebsKept
  <2>2. LVP!IInv'
    BY <1>1, <1>2, AnalysisKept
  <2>3. FunctionRight(prog, slots)'
    BY <1>1, <1>2
  <2> QED BY <1>1, <1>2, <2>1, <2>2, <2>3 DEF lvVars
<1> QED BY <1>1, <1>2, <1>4, <1>5, <1>6 DEF IInv

\* ModifyKeeps: modifyCode, and the state the finished code starts in.
LEMMA ModifyKeeps ==
  ASSUME IInv, ModifyCode PROVE IInv'
<1>1. /\ LVP!IInv /\ FunctionRight(prog, slots) /\ lvpc = "done" /\ WebsRight /\ LSP!IInv
      /\ Len(webs) = Len(intervals) /\ WellFormed(prog) /\ slots \in Nat
  BY DEF IInv, ModifyCode, FunctionRight
<1>2. /\ Succeeded /\ phase' = "run" /\ at' = <<1, 1>>
      /\ mreg' = [o \in DOMAIN prog.reg |-> RegisterOf(o)]
      /\ env' = [r \in ToSet(prog.reg) |-> <<0, 0>>]
      /\ machine' = [r \in Banks |-> <<0, 0>>]
      /\ frame' = [s \in 1 .. slots |-> <<0, 0>>]
      /\ UNCHANGED <<prog, lvVars, lsVars, du_chains, webs, slots>>
  BY DEF ModifyCode, Succeeded, Banks
<1>3. UNCHANGED <<prog, webs, intervals>> /\ UNCHANGED lsVars /\ UNCHANGED <<prog, lvVars>>
      /\ UNCHANGED <<lvpc, rreg, success, pc>>
  BY <1>2 DEF lsVars, lvVars
<1>4. WebsRight' /\ LSP!IInv' /\ LVP!IInv' /\ FunctionRight(prog, slots)'
  <2>1. FunctionRight(prog, slots)'
    BY <1>1, <1>2
  <2> QED BY <1>1, <1>3, <2>1, WebsKept, ScanKept, AnalysisKept
<1>5. Mapped' /\ Succeeded'
  BY <1>2, <1>3 DEF Mapped, Succeeded, RegisterOf
<1>6. Typed'
  <2>1. (Points(prog))' = Points(prog) /\ (ToSet(prog.reg))' = ToSet(prog.reg)
        /\ Values' = Values /\ Banks' = Banks /\ slots' = slots
    BY <1>2 DEF Values, Banks
  <2>2. <<1, 1>> \in Points(prog)
    BY <1>1, Shape, PointFacts
  <2>3. prog.ids \in Nat
    BY <1>1, OperandFacts
  <2>4. <<0, 0>> \in Values
    BY <2>3 DEF Values
  <2> QED BY <1>2, <2>1, <2>2, <2>4 DEF Typed
<1>7. Agree'
  <2> DEFINE i == InstAt(prog, <<1, 1>>).id
  <2>1. Here'.id = i /\ i \in Ids(prog)
    <3>1. <<1, 1>> \in Points(prog)
      BY <1>1, Shape, PointFacts
    <3> QED BY <1>1, <1>2, <3>1, PointFacts DEF Here
  <2>2. ASSUME NEW u, LiveAt(prog, u, i) PROVE machine'[mreg'[u]] = env'[prog'.reg[u]]
    <3>1. mreg'[u] \in Banks
      BY <1>1, <1>2, <2>1, <2>2, MappedFacts DEF FunctionRight
    <3>2. u \in DOMAIN prog.reg
      BY <1>1, <2>2, LiveOfUse, UseFacts
    <3>3. prog.reg[u] \in ToSet(prog.reg)
      BY <3>2 DEF ToSet
    <3> QED BY <1>2, <3>1, <3>3
  <2>3. (LiveAgree(Here.id))'
    BY <1>2, <2>1, <2>2 DEF LiveAgree
  <2>4. PICK Rg, O : Saved(prog, slots, Rg, O)
    BY <1>1 DEF FunctionRight
  <2>5. \A s \in 1 .. slots : Rg[s] \in ToSet(prog.reg)
    BY <2>4 DEF Saved
  <2>6. (Saved(prog, slots, Rg, O))' /\ (SlotsAgree(Here.id, Rg, O))'
    BY <1>2, <2>4, <2>5 DEF SlotsAgree
  <2> QED BY <2>3, <2>6 DEF Agree
<1> QED BY <1>1, <1>2, <1>3, <1>4, <1>5, <1>6, <1>7 DEF IInv

\* SpillKeeps: genSpillCode.
LEMMA SpillKeeps ==
  ASSUME IInv, GenSpillCode, Stay, Tidy(prog') PROVE IInv'
<1>1. /\ LVP!IInv /\ FunctionRight(prog, slots) /\ WebsRight /\ LSP!IInv
      /\ Len(webs) = Len(intervals)
  BY DEF IInv, GenSpillCode
<1>2. /\ prog' = SpillCode /\ slots' = slots + Cardinality({i \in DOMAIN webs : spill[i]})
      /\ phase' = "liveness" /\ lvpc' = "clear"
      /\ UNCHANGED <<liveIn, liveOut, blk, change, webs, intervals>>
  BY DEF GenSpillCode, lsVars
<1>3. spill \in [DOMAIN webs -> BOOLEAN]
  BY <1>1 DEF LSP!IInv, LSP!TypeOK, LSP!N, WebsRight
<1>4. /\ FunctionRight(SpillCode, slots')
      /\ Blocks(SpillCode) = Blocks(prog) /\ AllUses(prog) \subseteq AllUses(SpillCode)
  BY <1>1, <1>2, <1>3, SpillRight
<1>5. LVP!IInv'
  <2>1. WellFormed(prog') /\ WellFormed(prog)
    BY <1>1, <1>2, <1>4 DEF FunctionRight
  <2>2. prog'.code \in Seq(Seq(Instruction)) /\ prog'.succ \in [Blocks(prog') -> SUBSET Blocks(prog')]
    BY <2>1 DEF WellFormed, Function
  <2>3. LVP!WellFormed'
    BY <2>2, SameNames DEF LVP!WellFormed
  <2>4. Len(prog'.code) = Len(prog.code)
    <3>1. 1 .. Len(prog'.code) = 1 .. Len(prog.code) /\ Len(prog.code) \in Nat /\ Len(prog'.code) \in Nat
      BY <1>2, <1>4, <2>1, Shape
    <3> QED BY <3>1
  <2>5. /\ liveIn \in [Blocks(prog) -> SUBSET AllUses(prog)]
        /\ liveOut \in [Blocks(prog) -> SUBSET AllUses(prog)]
        /\ blk \in 1 .. Len(prog.code) + 1 /\ change \in BOOLEAN
    BY <1>1, SameNames DEF LVP!IInv, LVP!TypeOK, LVP!LiveSets
  <2>6. /\ liveIn' \in [Blocks(prog') -> SUBSET AllUses(prog')]
        /\ liveOut' \in [Blocks(prog') -> SUBSET AllUses(prog')]
    BY <1>2, <1>4, <2>5
  <2>7. LVP!TypeOK'
    BY <1>2, <2>4, <2>5, <2>6, SameNames DEF LVP!TypeOK, LVP!LiveSets
  <2> QED BY <1>2, <2>3, <2>7 DEF LVP!IInv, LVP!OnlyLive, LVP!SolvedSoFar
<1>6. FunctionRight(prog, slots)'
  BY <1>2, <1>4
<1> QED BY <1>1, <1>2, <1>5, <1>6 DEF IInv

\* StutterKeeps: the invariant is about the variables.
LEMMA StutterKeeps ==
  ASSUME IInv, UNCHANGED vars PROVE IInv'
<1>1. /\ UNCHANGED <<prog, webs, intervals>> /\ UNCHANGED lsVars /\ UNCHANGED <<prog, lvVars>>
      /\ UNCHANGED <<lvpc, rreg, success, pc, du_chains, slots, mreg, phase>>
      /\ UNCHANGED <<at, env, machine, frame>>
  BY DEF vars, lsVars, lvVars, runVars
<1>2. LVP!IInv'
  BY <1>1, AnalysisKept DEF IInv
<1>3. WebsRight /\ LSP!IInv => WebsRight' /\ LSP!IInv'
  BY <1>1, WebsKept, ScanKept
<1>4. ChainsRight => ChainsRight'
  <2>1. Defs' = Defs /\ (Ids(prog))' = Ids(prog)
    BY <1>1 DEF Defs
  <2>2. \A i, d : (Reached(i, d))' = Reached(i, d) /\ (Node(prog, i).def)' = Node(prog, i).def
    BY <1>1 DEF Reached
  <2> QED BY <1>1, <2>1, <2>2 DEF ChainsRight, Chained
<1>5. FunctionRight(prog, slots)'
  BY <1>1 DEF IInv
<1>6. Succeeded /\ Mapped /\ Typed => (Succeeded /\ Mapped /\ Typed)'
  BY <1>1 DEF Succeeded, Mapped, RegisterOf, Typed, Values, Banks
<1>7. Agree => Agree'
  BY <1>1 DEF Agree, LiveAgree, SlotsAgree, Here
<1> QED BY <1>1, <1>2, <1>3, <1>4, <1>5, <1>6, <1>7 DEF IInv

\* Orderly: what a round of spilling may not do to the sharing of objects.
Orderly == GenSpillCode => Stay /\ Tidy(prog')

\* NextKeeps: every step keeps the invariant.
LEMMA NextKeeps == IInv /\ [Next]_vars /\ [Orderly]_vars => IInv'
BY LivenessKeeps, ChainsKeep, BeginKeeps, ScanKeeps, ModifyKeeps, SpillKeeps, RunKeeps,
   StutterKeeps DEF Next, Allocate, Halted, Orderly

\* Plain: functions whose operand objects are shared as Tidy says, and whose
\* blocks use only what is defined above them.
Plain == \A p \in Programs : Tidy(p) /\ DefinedAbove(p)

\* Ordered: the two properties together.
LEMMA Ordered == SharingKept /\ CarriedKept => [][Orderly]_vars
<1>1. /\ [GenSpillCode => Tidy(prog')]_vars
      /\ [GenSpillCode => \A k \in DOMAIN webs : spill[k] => NoneCarried(webs[k].defs)]_vars
      => [Orderly]_vars
  BY DEF Orderly, Stay
<1> QED BY <1>1, PTL DEF SharingKept, CarriedKept

\* Invariance: allocateRegisters and the code it leaves keep IInv throughout.
LEMMA Invariance == ASSUME Plain PROVE Spec /\ SharingKept /\ CarriedKept => []IInv
<1>1. Init => IInv
  BY InitRight DEF Plain
<1> QED BY <1>1, Ordered, NextKeeps, PTL DEF Spec

\* TypeCorrect: of a Tidy function, when its rounds of spilling keep it so,
\* every operand has a parent instruction in every round, every interval
\* belongs to one web, and the registers of the finished code hold values its
\* instructions gave them.
THEOREM TypeCorrect == Plain => (Spec /\ SharingKept /\ CarriedKept => []TypeOK)
<1> SUFFICES ASSUME Plain PROVE Spec /\ SharingKept /\ CarriedKept => []TypeOK
  OBVIOUS
<1>1. IInv => TypeOK
  <2> SUFFICES ASSUME IInv PROVE TypeOK
    OBVIOUS
  <2>1. /\ phase \in {"liveness", "intervals", "scan", "run", "halt"} /\ slots \in Nat
        /\ Len(webs) = Len(intervals) /\ WellFormed(prog)
    BY DEF IInv, FunctionRight
  <2>2. Len(prog.reg) = Len(prog.parent) /\ \A o \in DOMAIN prog.reg : prog.parent[o] \in 0 .. prog.ids
    BY <2>1 DEF WellFormed
  <2>3. phase \in {"run", "halt"} => \A r \in DOMAIN machine : machine[r] \in (0 .. prog.ids) \X {0, 1}
    BY DEF IInv, Typed, Values
  <2> QED BY <2>1, <2>2, <2>3 DEF TypeOK
<1>2. Spec /\ SharingKept /\ CarriedKept => []IInv
  BY Invariance
<1> QED BY <1>1, <1>2, PTL

(***************************************************************************)
(* RunsLikeVirtualHolds: whatever such a function does, and with however   *)
(* many registers and rounds of spilling: each register the allocated code *)
(* reads holds the value last given to the virtual register it replaces,   *)
(* although the interval of an object that is handed on from a load to its *)
(* user starts only there (LinearScan.cpp:82).                             *)
(***************************************************************************)
THEOREM RunsLikeVirtualHolds == Plain => (Spec /\ SharingKept /\ CarriedKept => []RunsLikeVirtual)
<1> SUFFICES ASSUME Plain PROVE Spec /\ SharingKept /\ CarriedKept => []RunsLikeVirtual
  OBVIOUS
<1>1. IInv => RunsLikeVirtual
  <2> SUFFICES ASSUME IInv, phase = "run", NEW u \in Here.use
               PROVE  mreg[u] # 0 /\ machine[mreg[u]] = env[prog.reg[u]]
    BY DEF RunsLikeVirtual
  <2>1. /\ WellFormed(prog) /\ WebsRight /\ LSP!IInv /\ Succeeded /\ Mapped /\ Typed
        /\ LiveAgree(Here.id)
    BY DEF IInv, FunctionRight, Agree
  <2>2. Here.id \in Ids(prog) /\ Node(prog, Here.id) = Here
    BY <2>1, HereFacts DEF Typed
  <2>3. LiveAt(prog, u, Here.id)
    BY <2>1, <2>2, LiveClosed
  <2>4. mreg[u] \in Banks
    BY <2>1, <2>2, <2>3, MappedFacts DEF Mapped, IInv, FunctionRight
  <2>5. 0 \notin Banks
    <3>1. \A r \in ToSet(IntRegs) : r \in 1 .. 10
      <4>1. IntRegs \in Seq(1 .. 10)
        BY BanksAssumption DEF LS!FirstFpReg
      <4> QED BY <4>1, LenProperties, ElementOfSeq DEF ToSet
    <3>2. \A r \in ToSet(FpRegs) : r \in Nat \ (0 .. 10)
      <4>1. FpRegs \in Seq(Nat \ (0 .. 10))
        BY BanksAssumption DEF LS!FirstFpReg
      <4> QED BY <4>1, LenProperties, ElementOfSeq DEF ToSet
    <3> QED BY <3>1, <3>2 DEF Banks
  <2> QED BY <2>1, <2>3, <2>4, <2>5 DEF LiveAgree
<1>2. Spec /\ SharingKept /\ CarriedKept => []IInv
  BY Invariance
<1> QED BY <1>1, <1>2, PTL

-----------------------------------------------------------------------------
(***************************************************************************)
(* Every use of a spilled web is preceded by its load.                     *)
(***************************************************************************)

\* Instruction l loads register r in front of instruction i: between them are
\* only instructions newer than e.
LoadedBy(q, l, i, r, e) ==
  /\ l \in Ids(q) /\ i \in Ids(q)
  /\ PointOf(q, l)[1] = PointOf(q, i)[1] /\ PointOf(q, l)[2] < PointOf(q, i)[2]
  /\ Node(q, l).kind = "load" /\ \E d \in Node(q, l).def : q.reg[d] = r
  /\ \A j \in Ids(q) : /\ PointOf(q, j)[1] = PointOf(q, i)[1]
                       /\ PointOf(q, l)[2] <= PointOf(q, j)[2]
                       /\ PointOf(q, j)[2] < PointOf(q, i)[2]
                       => j > e

\* ShiftKeepsOrder: an access leaves the others in their order.
LEMMA ShiftKeepsOrder ==
  ASSUME NEW q, WellFormed(q), NEW a, Legal(q, a), NEW i \in Ids(q), NEW j \in Ids(q),
         PointOf(q, i)[1] = PointOf(q, j)[1]
  PROVE  Shift(q, a, PointOf(q, i))[2] < Shift(q, a, PointOf(q, j))[2]
           <=> PointOf(q, i)[2] < PointOf(q, j)[2]
<1>1. PICK b, n, k : /\ b = Place(q, a)[1] /\ n = Cut(q, a) /\ k = Size(q, a)
                     /\ n \in Nat /\ k \in 1 .. 3
  BY Measures
<1>2. PICK s \in Nat, t \in Nat :
        s = PointOf(q, i)[2] /\ t = PointOf(q, j)[2]
  BY NodeFacts, Shape
<1> QED BY <1>1, <1>2 DEF Shift

\* LoadedStays: a further access puts nothing but new instructions between.
LEMMA LoadedStays ==
  ASSUME NEW q, WellFormed(q), NEW a, Legal(q, a), NEW Q, Q = SpillOperand(q, a),
         NEW e \in Nat, e <= q.ids, NEW l, NEW i, NEW r, LoadedBy(q, l, i, r, e)
  PROVE  LoadedBy(Q, l, i, r, e)
<1>1. /\ Ids(Q) = Ids(q) \cup NewIds(q, a)
      /\ \A j \in Ids(q) : /\ Node(Q, j) = Node(q, j)
                           /\ PointOf(Q, j) = Shift(q, a, PointOf(q, j))
                           /\ PointOf(Q, j)[1] = PointOf(q, j)[1]
  BY NodesKept
<1>2. l \in Ids(q) /\ i \in Ids(q) /\ PointOf(q, l)[1] = PointOf(q, i)[1]
  BY DEF LoadedBy
<1>3. /\ \A j \in Ids(q) : PointOf(q, j)[2] \in Nat
      /\ \A j \in Ids(Q) : PointOf(Q, j)[2] \in Nat
  BY NewFunction, NodeFacts, Shape
<1>4. \A j, m \in Ids(q) : PointOf(q, j)[1] = PointOf(q, m)[1] =>
        (PointOf(Q, j)[2] < PointOf(Q, m)[2] <=> PointOf(q, j)[2] < PointOf(q, m)[2])
  BY <1>1, ShiftKeepsOrder
<1>5. PointOf(Q, l)[1] = PointOf(Q, i)[1] /\ PointOf(Q, l)[2] < PointOf(Q, i)[2]
  BY <1>1, <1>2, <1>4 DEF LoadedBy
<1>6. Node(Q, l).kind = "load" /\ \E d \in Node(Q, l).def : Q.reg[d] = r
  <2>1. PICK d \in Node(q, l).def : q.reg[d] = r
    BY DEF LoadedBy
  <2>2. d \in DOMAIN q.reg
    BY <1>2, <2>1, NodeFacts
  <2>3. Q.reg[d] = q.reg[d]
    BY <2>2, NewFunction
  <2> QED BY <1>1, <1>2, <2>1, <2>3 DEF LoadedBy
<1>7. ASSUME NEW j \in Ids(Q), PointOf(Q, j)[1] = PointOf(Q, i)[1],
             PointOf(Q, l)[2] <= PointOf(Q, j)[2], PointOf(Q, j)[2] < PointOf(Q, i)[2]
      PROVE  j > e
  <2>1. CASE j \in Ids(q)
    <3>1. /\ PointOf(q, j)[1] = PointOf(q, i)[1] /\ PointOf(q, j)[2] < PointOf(q, i)[2]
          /\ ~ (PointOf(q, j)[2] < PointOf(q, l)[2])
      BY <1>1, <1>2, <1>3, <1>4, <1>7, <2>1
    <3> QED BY <1>2, <1>3, <2>1, <3>1 DEF LoadedBy
  <2>2. CASE j \in NewIds(q, a)
    <3>1. PICK n \in 1 .. Size(q, a) : j = q.ids + n
      BY <2>2 DEF NewIds
    <3>2. q.ids \in Nat /\ Size(q, a) \in 1 .. 3
      BY Measures
    <3> QED BY <3>1, <3>2
  <2> QED BY <1>1, <2>1, <2>2
<1>8. l \in Ids(Q) /\ i \in Ids(Q)
  BY <1>1, <1>2
<1> QED BY <1>5, <1>6, <1>7, <1>8 DEF LoadedBy

\* LoadMade: the access to a use loads its register.
LEMMA LoadMade ==
  ASSUME NEW q, WellFormed(q), NEW a, Legal(q, a), a.kind = "load",
         NEW Q, Q = SpillOperand(q, a), NEW e \in Nat, e <= q.ids
  PROVE  \E l : LoadedBy(Q, l, Owner(q, a), RegOf(q, a), e)
<1>1. PICK k \in 1 .. 3 : k = Size(q, a)
  BY Measures
<1>2. PICK n \in Nat : n = Cut(q, a) /\ Place(q, a)[2] = n + 1
  BY Measures
<1>3. PICK c \in Nat : c = q.ids
  BY Measures
<1>4. /\ Ids(Q) = Ids(q) \cup NewIds(q, a) /\ Owner(q, a) \in Ids(q)
      /\ \A j \in Ids(q) : /\ PointOf(Q, j) = Shift(q, a, PointOf(q, j))
                           /\ PointOf(Q, j)[1] = PointOf(q, j)[1]
      /\ c + k \in Ids(Q) /\ Node(Q, c + k) = Code(q, a)[k]
      /\ PointOf(Q, c + k) = <<Place(q, a)[1], n + k>>
  <2>1. k \in 1 .. k
    OBVIOUS
  <2> QED BY <1>1, <1>2, <1>3, <2>1, NodesKept
<1>5. Node(Q, c + k).kind = "load" /\ \E d \in Node(Q, c + k).def : Q.reg[d] = RegOf(q, a)
  BY <1>1, <1>4, AccessFacts DEF AccessNode
<1>6. PointOf(Q, Owner(q, a)) = <<Place(q, a)[1], n + 1 + k>>
  <2>1. PointOf(Q, Owner(q, a)) = Shift(q, a, Place(q, a))
    BY <1>4 DEF Place
  <2> QED BY <1>1, <1>2, <2>1 DEF Shift
<1>7. ASSUME NEW j \in Ids(Q), PointOf(Q, j)[1] = Place(q, a)[1],
             n + k <= PointOf(Q, j)[2], PointOf(Q, j)[2] < n + 1 + k
      PROVE  j > e
  <2>1. CASE j \in Ids(q)
    <3>1. PICK s \in Nat : s = PointOf(q, j)[2]
      BY <2>1, NodeFacts, Shape
    <3>2. PointOf(Q, j)[2] = IF s > n THEN s + k ELSE s
      BY <1>1, <1>2, <1>4, <1>7, <2>1, <3>1 DEF Shift
    <3> QED BY <1>7, <3>2
  <2>2. CASE j \in NewIds(q, a)
    <3>1. PICK m \in 1 .. k : j = c + m
      BY <1>1, <1>3, <2>2 DEF NewIds
    <3> QED BY <1>3, <3>1
  <2> QED BY <1>4, <2>1, <2>2
<1>8. LoadedBy(Q, c + k, Owner(q, a), RegOf(q, a), e)
  <2>1. n + k < n + 1 + k
    OBVIOUS
  <2> QED BY <1>4, <1>5, <1>6, <1>7, <2>1 DEF LoadedBy
<1> QED BY <1>8

\* AllLoaded: so it is of every load, when all the accesses are made.
LEMMA AllLoaded ==
  ASSUME FunctionRight(prog, slots), WebsRight, spill \in [DOMAIN webs -> BOOLEAN], Stay
  PROVE  /\ WellFormed(SpillCode)
         /\ \A x \in Accesses : x.kind = "load" =>
              \E l : LoadedBy(SpillCode, l, prog.parent[x.op], prog.reg[x.op], prog.ids)
<1>0. WellFormed(prog) /\ UsesOwned(prog) /\ slots \in Nat /\ AccessesRight
  BY WebsGiveAccesses, TidyFacts DEF FunctionRight
<1>1. AllSlots \in Nat
  BY <1>0, SlotFacts DEF WebsRight
<1>2. PICK N \in Nat : /\ N = Len(Order)
                       /\ \A i \in 1 .. N : Order[i] \in Accesses
                       /\ \A x \in Accesses : \E i \in 1 .. N : Order[i] = x
  BY <1>0, <1>1, OrderFacts
<1>3. PICK f : /\ f[0] = prog /\ f[N] = SpillCode
               /\ \A n \in 1 .. N : f[n] = SpillOperand(f[n - 1], Order[n])
  BY <1>2, SpillSteps
<1>4. PICK e \in Nat : e = prog.ids
  BY <1>0, OperandFacts
<1> DEFINE Loaded(q, x) == \E l : LoadedBy(q, l, prog.parent[x.op], prog.reg[x.op], e)
           Good(n) == /\ Kept(prog, f[n]) /\ e <= f[n].ids
                      /\ \A m \in 1 .. n : Order[m].kind = "load" => Loaded(f[n], Order[m])
<1>5. Good(0)
  BY <1>0, <1>3, <1>4 DEF Kept
<1>6. ASSUME NEW n \in 1 .. N, Good(n - 1) PROVE Good(n)
  <2>1. PICK a \in Accesses : a = Order[n]
    BY <1>2
  <2>2. PICK q, Q : q = f[n - 1] /\ Q = f[n] /\ Q = SpillOperand(q, a)
    BY <1>3, <2>1
  <2>3. Kept(prog, q) /\ e <= q.ids /\ WellFormed(q)
    BY <1>6, <2>2 DEF Kept
  <2>4. Apt(q, a) /\ Legal(q, a)
    BY <1>0, <2>3, AptOf DEF Apt
  <2>5. Kept(prog, Q)
    BY <1>0, <2>2, <2>3, <2>4, KeptStep
  <2>6. e <= Q.ids
    <3>1. Q.ids = q.ids + Size(q, a) /\ q.ids \in Nat /\ Size(q, a) \in 1 .. 3
      BY <2>2, <2>3, <2>4, NewFunction, Measures
    <3> QED BY <2>3, <3>1
  <2>7. ASSUME NEW m \in 1 .. n, Order[m].kind = "load" PROVE Loaded(Q, Order[m])
    <3>1. CASE m = n
      <4>1. \E l : LoadedBy(Q, l, Owner(q, a), RegOf(q, a), e)
        BY <2>1, <2>2, <2>3, <2>4, <2>7, <3>1, LoadMade
      <4>2. Owner(q, a) = prog.parent[a.op] /\ RegOf(q, a) = prog.reg[a.op]
        BY <1>0, <2>3 DEF Kept, AccessesRight, Owner, RegOf
      <4> QED BY <2>1, <3>1, <4>1, <4>2
    <3>2. CASE m # n
      <4>1. m \in 1 .. n - 1
        BY <3>2
      <4>2. PICK l : LoadedBy(q, l, prog.parent[Order[m].op], prog.reg[Order[m].op], e)
        BY <1>6, <2>2, <2>7, <4>1
      <4>3. LoadedBy(Q, l, prog.parent[Order[m].op], prog.reg[Order[m].op], e)
        BY <2>2, <2>3, <2>4, <4>2, LoadedStays
      <4> QED BY <4>3
    <3> QED BY <3>1, <3>2
  <2> QED BY <2>2, <2>5, <2>6, <2>7
<1>7. Good(N)
  <2> DEFINE Bad == {n \in 0 .. N : ~Good(n)}
  <2>1. ASSUME Bad # {} PROVE FALSE
    <3>1. Bad \in SUBSET Nat
      OBVIOUS
    <3> HIDE DEF Bad, Good
    <3>2. PICK n \in Bad : \A l \in Bad : n <= l
      BY <2>1, <3>1, NatMinimum
    <3>3. n \in 0 .. N /\ ~Good(n)
      BY <3>2 DEF Bad
    <3>4. n # 0
      BY <1>5, <3>3
    <3>5. n \in 1 .. N /\ n - 1 \in 0 .. N /\ ~ (n <= n - 1)
      BY <3>3, <3>4
    <3>6. Good(n - 1)
      BY <3>2, <3>5 DEF Bad
    <3> QED BY <1>6, <3>3, <3>5, <3>6
  <2>2. N \in 0 .. N
    OBVIOUS
  <2> HIDE DEF Good
  <2> QED BY <2>1, <2>2
<1>8. \A x \in Accesses : x.kind = "load" => Loaded(SpillCode, x)
  BY <1>2, <1>3, <1>7
<1> QED BY <1>3, <1>4, <1>7, <1>8 DEF Kept

(***************************************************************************)
(* UsesReloadedHolds: in every round that spills, each instruction that    *)
(* used a spilled web gets the value from the slot right before it runs.   *)
(***************************************************************************)
THEOREM UsesReloadedHolds == Plain => (Spec /\ SharingKept /\ CarriedKept => UsesReloaded)
<1> SUFFICES ASSUME Plain PROVE Spec /\ SharingKept /\ CarriedKept => UsesReloaded
  OBVIOUS
<1>1. IInv /\ [Orderly]_vars /\ [Next]_vars =>
        [GenSpillCode =>
           \A i \in DOMAIN webs : spill[i] =>
             \A x \in Points(prog) : \A u \in InstAt(prog, x).use \cap webs[i].uses :
               Reloaded(prog', InstAt(prog, x).id, prog.reg[u])]_vars
  <2> SUFFICES ASSUME IInv, Orderly, GenSpillCode, NEW i \in DOMAIN webs, spill[i], NEW x \in Points(prog),
                      NEW u \in InstAt(prog, x).use, u \in webs[i].uses
               PROVE  Reloaded(prog', InstAt(prog, x).id, prog.reg[u])
    OBVIOUS
  <2>1. /\ FunctionRight(prog, slots) /\ WebsRight /\ LSP!IInv /\ Len(webs) = Len(intervals)
        /\ prog' = SpillCode
    BY DEF IInv, GenSpillCode
  <2>2. spill \in [DOMAIN webs -> BOOLEAN]
    BY <2>1 DEF LSP!IInv, LSP!TypeOK, LSP!N, WebsRight
  <2>3. PICK a \in Accesses : a.op = u /\ a.kind = "load"
    BY AccessesAre DEF Spilled
  <2>4. PICK id : id = InstAt(prog, x).id /\ id = prog.parent[u]
    <3>1. PICK id \in Ids(prog) : id = InstAt(prog, x).id /\ Node(prog, id) = InstAt(prog, x)
      BY <2>1, PointFacts DEF FunctionRight
    <3>2. prog.parent[u] = id
      BY <2>1, <3>1, TidyFacts DEF FunctionRight, UsesOwned
    <3> QED BY <3>1, <3>2
  <2>5. PICK q : q = SpillCode
    OBVIOUS
  <2>16. Stay
    BY DEF Orderly
  <2>6. WellFormed(q) /\ \E l : LoadedBy(q, l, id, prog.reg[u], prog.ids)
    BY <2>16, <2>1, <2>2, <2>3, <2>4, <2>5, AllLoaded
  <2>7. PICK l : LoadedBy(q, l, id, prog.reg[u], prog.ids)
    BY <2>6
  <2>8. l \in Ids(q) /\ id \in Ids(q)
    BY <2>7 DEF LoadedBy
  <2>9. PICK b \in Blocks(q) : \E j, k \in Insts(q, b) :
          /\ PointOf(q, l) = <<b, j>> /\ PointOf(q, id) = <<b, k>> /\ j < k
    BY <2>6, <2>7, <2>8, NodeFacts DEF LoadedBy
  <2>10. PICK j, k \in Insts(q, b) :
           /\ PointOf(q, l) = <<b, j>> /\ PointOf(q, id) = <<b, k>> /\ j < k
    BY <2>9
  <2>11. PICK n \in Nat : Insts(q, b) = 1 .. n
    BY <2>6, Shape
  <2>12. \A m \in Insts(q, b) : <<b, m>> \in Points(q) /\ InstAt(q, <<b, m>>) = q.code[b][m]
    BY DEF Points, InstAt
  <2>13. q.code[b][k].id = id /\ q.code[b][j] = Node(q, l)
    BY <2>6, <2>8, <2>10, <2>12, NodeFacts
  <2>14. ASSUME NEW m \in j .. k - 1 PROVE q.code[b][m].id > prog.ids
    <3>1. m \in Insts(q, b) /\ j <= m /\ m < k
      BY <2>10, <2>11
    <3>2. q.code[b][m].id \in Ids(q) /\ PointOf(q, q.code[b][m].id) = <<b, m>>
      <4>1. PICK y \in Points(q) : y = <<b, m>> /\ InstAt(q, y) = q.code[b][m]
        BY <2>12, <3>1
      <4>2. InstAt(q, y).id \in Ids(q) /\ PointOf(q, InstAt(q, y).id) = y
        BY <2>6, PointFacts
      <4> QED BY <4>1, <4>2
    <3> QED BY <2>7, <2>10, <3>1, <3>2 DEF LoadedBy
  <2>15. /\ q.code[b][j].kind = "load"
         /\ \E d \in q.code[b][j].def : q.reg[d] = prog.reg[u]
    BY <2>7, <2>13 DEF LoadedBy
  <2> QED BY <2>1, <2>4, <2>5, <2>9, <2>10, <2>13, <2>14, <2>15 DEF Reloaded
<1>2. Spec /\ SharingKept /\ CarriedKept => []IInv
  BY Invariance
<1>3. Spec => [][Next]_vars
  BY PTL DEF Spec
<1> QED BY <1>1, <1>2, <1>3, Ordered, PTL DEF UsesReloaded

(***************************************************************************)
(* The webs of RegAlloc are what the loop of WebMerge computes.  The loop  *)
(* works on a list, so the chains are put in one, in any order.            *)
(***************************************************************************)
Listing ==
  CHOOSE f \in Bijection(1 .. Cardinality(DOMAIN du_chains), DOMAIN du_chains) : TRUE

Chains ==
  [k \in 1 .. Cardinality(DOMAIN du_chains) |->
     [reg |-> prog.reg[Listing[k]], start |-> Stretched(Listing[k]).start,
      end |-> Stretched(Listing[k]).end, uses |-> du_chains[Listing[k]]]]

WM == INSTANCE WebMerge
        WITH chains <- Chains, Inputs <- {}, intervals <- << >>, body <- << >>,
             t <- << >>, i <- 1, j <- 2, change <- TRUE, mpc <- "while"

\* WebsMerged: a component of RegAlloc is, definition by definition, the one
\* that MergedIntoComponents (WebMergeProofs) says the merging loop leaves as
\* one interval when it is given the chains as its list.
THEOREM WebsMerged ==
  ASSUME IsFiniteSet(DOMAIN du_chains), NEW k \in DOMAIN Chains
  PROVE  {Listing[j] : j \in WM!Component(k)} = Component(Listing[k])
<1> DEFINE D == DOMAIN du_chains
           N == 1 .. Cardinality(D)
           L == Listing
<1>1. L \in Bijection(N, D)
  BY FS_CardinalityType DEF ExistsBijection, Listing
<1>2. /\ DOMAIN Chains = N /\ k \in N
      /\ \A m \in N : /\ L[m] \in D
                      /\ Chains[m].reg = prog.reg[L[m]]
                      /\ Chains[m].uses = du_chains[L[m]]
  BY <1>1 DEF Chains, Bijection, Injection, Surjection
<1> HIDE DEF N, D
<1>3. /\ \A m, n \in N : L[m] = L[n] => m = n
      /\ \A e \in D : \E m \in N : L[m] = e
  <2> HIDE DEF L
  <2> QED
    BY <1>1 DEF Bijection, Injection, Surjection, IsInjective
<1>4. ASSUME NEW m \in N, NEW n \in N
      PROVE  WM!Linked(m, n) <=> Linked(L[m], L[n])
  BY <1>2, <1>3 DEF WM!Linked, Linked
<1> HIDE DEF L
<1>5. ASSUME NEW x \in WM!Component(k)
      PROVE  x \in N /\ L[x] \in Component(L[k])
  <2>1. x \in N /\ \A S \in SUBSET N : k \in S /\ WM!Closed(S) => x \in S
    BY <1>2 DEF WM!Component
  <2>2. L[x] \in SameRegister(L[k])
    <3> DEFINE S == {m \in N : prog.reg[L[m]] = prog.reg[L[k]]}
    <3>1. WM!Closed(S)
      BY <1>2, <1>4 DEF WM!Closed, Linked
    <3>2. x \in S
      BY <2>1, <3>1, <1>2
    <3> QED
      BY <2>1, <3>2, <1>2 DEF SameRegister, D
  <2>3. ASSUME NEW S \in SUBSET SameRegister(L[k]), L[k] \in S, Closed(S)
        PROVE  L[x] \in S
    <3> DEFINE T == {m \in N : L[m] \in S}
    <3>1. ASSUME NEW m \in T, NEW n \in N, WM!Linked(m, n)
          PROVE  n \in T
      BY <2>3, <3>1, <1>2, <1>4 DEF Closed, D
    <3>2. WM!Closed(T)
      BY <3>1, <1>2 DEF WM!Closed
    <3> QED
      BY <2>1, <2>3, <3>2, <1>2
  <2> QED
    BY <2>1, <2>2, <2>3 DEF Component
<1>6. ASSUME NEW e \in Component(L[k])
      PROVE  \E x \in WM!Component(k) : e = L[x]
  <2>1. /\ e \in D
        /\ \A S \in SUBSET SameRegister(L[k]) : L[k] \in S /\ Closed(S) => e \in S
    BY DEF Component, SameRegister, D
  <2>2. PICK x \in N : L[x] = e
    BY <2>1, <1>3
  <2>3. ASSUME NEW S \in SUBSET N, k \in S, WM!Closed(S)
        PROVE  x \in S
    <3> DEFINE T == {f \in SameRegister(L[k]) : \E m \in S : f = L[m]}
    <3>1. ASSUME NEW f \in T, NEW g \in D, Linked(f, g)
          PROVE  g \in T
      <4>1. PICK m \in S : f = L[m]
        OBVIOUS
      <4>2. PICK n \in N : L[n] = g
        BY <1>3
      <4>3. n \in S
        BY <2>3, <3>1, <4>1, <4>2, <1>2, <1>4 DEF WM!Closed
      <4>4. g \in SameRegister(L[k])
        BY <3>1 DEF SameRegister, Linked, D
      <4> QED
        BY <4>2, <4>3, <4>4
    <3>2. Closed(T)
      BY <3>1 DEF Closed, D
    <3>3. L[k] \in T
      BY <2>3, <1>2 DEF SameRegister, D
    <3>4. e \in T
      BY <2>1, <3>2, <3>3
    <3> QED
      BY <3>4, <2>2, <2>3, <1>3
  <2>4. x \in WM!Component(k)
    BY <2>2, <2>3, <1>2 DEF WM!Component
  <2> QED
    BY <2>2, <2>4
<1> QED
  BY <1>5, <1>6 DEF L

=============================================================================
