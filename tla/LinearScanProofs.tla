-------------------------- MODULE LinearScanProofs --------------------------
(***************************************************************************)
(* Theorems about one round of the linear scan, for every pair of banks    *)
(* and every list of intervals.                                            *)
(***************************************************************************)
EXTENDS LinearScan, TLAPS, SequenceTheorems

Banks == Range(IntRegs) \cup Range(FpRegs)

(***************************************************************************)
(* The inductive invariant.  The first group holds in every round.         *)
(***************************************************************************)
\* An active interval has been placed and was given a register.
ActivePlaced == \A i \in Range(activelist) : i < cur /\ rreg[i] \in Banks

ActiveOnce == IsInjective(activelist)

ActiveSorted ==
  \A i, j \in 1 .. Len(activelist) :
    i < j => End(activelist[i]) <= End(activelist[j])

\* When the current interval is placed, the finished intervals are gone.
Swept == pc = "place" => \A i \in Range(activelist) : End(i) >= Start(cur)

\* No register is lost: it is in the free list of its bank or held.
Conserved ==
  /\ \A r \in Range(IntRegs) :
       r \in Range(regs) \/ \E i \in Range(activelist) : rreg[i] = r
  /\ \A r \in Range(FpRegs) :
       r \in Range(fpregs) \/ \E i \in Range(activelist) : rreg[i] = r

(***************************************************************************)
(* The second group holds until the first spill.                           *)
(***************************************************************************)
\* An interval that has left the active list ends before all that follow.
Finished ==
  \A i \in 1 .. N : i < cur /\ i \notin Range(activelist)
    => \A j \in 1 .. N : cur <= j => End(i) < Start(j)

\* A register is free at most once, and not while an active interval holds it.
FreeOnce ==
  /\ IsInjective(regs) /\ IsInjective(fpregs)
  /\ \A i \in Range(activelist) : rreg[i] \notin Range(regs) \cup Range(fpregs)

HeldOnce == \A i, j \in Range(activelist) : rreg[i] = rreg[j] => i = j

Exclusive == success => Finished /\ FreeOnce /\ HeldOnce

\* Of bank B the first n registers have been handed out at some time (G),
\* and the free list F still starts with the others, in their order.
RestInOrder(F, B, G) ==
  \E n \in 0 .. Len(B) :
    /\ Len(B) - n <= Len(F)
    /\ \A k \in 1 .. Len(B) - n : F[k] = B[n + k]
    /\ G \cap Range(B) = FirstOnes(B, n)

Orderly ==
  success => RestInOrder(regs, IntRegs, Given) /\ RestInOrder(fpregs, FpRegs, Given)

IInv ==
  /\ TypeOK /\ ActivePlaced /\ ActiveOnce /\ ActiveSorted /\ Swept /\ Conserved
  /\ Exclusive /\ OwnBank /\ NoClash /\ Orderly
-----------------------------------------------------------------------------
(***************************************************************************)
(* The two ways the code changes its lists: push_back and erasing the      *)
(* front; and what std::sort keeps.                                        *)
(***************************************************************************)

\* AppendFacts: push_back adds one element, and a new one keeps the list
\* free of duplicates.
LEMMA AppendFacts ==
  ASSUME NEW S, NEW s \in Seq(S), NEW e \in S
  PROVE  /\ Append(s, e) \in Seq(S)
         /\ Range(Append(s, e)) = Range(s) \cup {e}
         /\ IsInjective(s) /\ e \notin Range(s) => IsInjective(Append(s, e))
<1>1. /\ Append(s, e) \in Seq(S)
      /\ Len(Append(s, e)) = Len(s) + 1
      /\ \A i \in 1 .. Len(s) : Append(s, e)[i] = s[i]
      /\ Append(s, e)[Len(s) + 1] = e
  BY AppendProperties
<1>2. Len(s) \in Nat /\ DOMAIN s = 1 .. Len(s)
  BY LenProperties
<1>3. DOMAIN Append(s, e) = 1 .. Len(s) + 1
  BY <1>1, LenProperties
<1>4. 1 .. Len(s) + 1 = 1 .. Len(s) \cup {Len(s) + 1}
  BY <1>2
<1>5. Range(Append(s, e)) = Range(s) \cup {e}
  BY <1>1, <1>2, <1>3, <1>4 DEF Range
<1>6. IsInjective(s) /\ e \notin Range(s) => IsInjective(Append(s, e))
  BY <1>1, <1>2, <1>3, <1>4 DEF Range, IsInjective
<1> QED BY <1>1, <1>5, <1>6

\* TailFacts: erasing the front of a list takes away that element only.
LEMMA TailFacts ==
  ASSUME NEW S, NEW s \in Seq(S), s # << >>
  PROVE  /\ Head(s) \in S /\ Tail(s) \in Seq(S)
         /\ Head(s) = s[1] /\ Len(s) >= 1
         /\ Len(Tail(s)) = Len(s) - 1
         /\ \A i \in 1 .. Len(s) - 1 : Tail(s)[i] = s[i + 1]
         /\ Range(s) = {Head(s)} \cup Range(Tail(s))
         /\ IsInjective(s) =>
              IsInjective(Tail(s)) /\ Range(Tail(s)) = Range(s) \ {Head(s)}
<1>1. /\ Head(s) \in S /\ Tail(s) \in Seq(S)
      /\ Len(Tail(s)) = Len(s) - 1
      /\ \A i \in 1 .. Len(Tail(s)) : Tail(s)[i] = s[i + 1]
  BY HeadTailProperties
<1>2. Len(s) \in Nat \ {0} /\ DOMAIN s = 1 .. Len(s) /\ Head(s) = s[1]
  BY LenProperties, EmptySeq
<1>3. DOMAIN Tail(s) = 1 .. Len(s) - 1
  BY <1>1, LenProperties
<1>4. Range(s) = {Head(s)} \cup Range(Tail(s))
  <2>1. ASSUME NEW i \in 1 .. Len(s) PROVE s[i] = Head(s) \/ s[i] \in Range(Tail(s))
    <3>1. CASE i = 1
      BY <3>1, <1>2
    <3>2. CASE i # 1
      <4>1. i - 1 \in 1 .. Len(s) - 1 /\ Tail(s)[i - 1] = s[i]
        BY <3>2, <1>1, <1>2
      <4> QED BY <4>1, <1>3 DEF Range
    <3> QED BY <3>1, <3>2
  <2>2. ASSUME NEW i \in 1 .. Len(s) - 1 PROVE Tail(s)[i] \in Range(s)
    <3>1. i + 1 \in 1 .. Len(s) /\ Tail(s)[i] = s[i + 1]
      BY <1>1, <1>2
    <3> QED BY <3>1, <1>2 DEF Range
  <2>3. Head(s) \in Range(s)
    BY <1>2 DEF Range
  <2>4. \A x \in Range(s) : x = Head(s) \/ x \in Range(Tail(s))
    BY <2>1, <1>2 DEF Range
  <2>5. \A x \in Range(Tail(s)) : x \in Range(s)
    BY <2>2, <1>3 DEF Range
  <2> QED BY <2>3, <2>4, <2>5
<1>5. ASSUME IsInjective(s) PROVE IsInjective(Tail(s)) /\ Head(s) \notin Range(Tail(s))
  <2>1. \A i \in 1 .. Len(s) - 1 : i + 1 \in 1 .. Len(s) /\ i + 1 # 1 /\ Tail(s)[i] = s[i + 1]
    BY <1>1, <1>2
  <2>2. \A i, j \in 1 .. Len(s) - 1 : Tail(s)[i] = Tail(s)[j] => i = j
    BY <2>1, <1>5, <1>2 DEF IsInjective
  <2>3. \A i \in 1 .. Len(s) - 1 : Tail(s)[i] # Head(s)
    BY <2>1, <1>5, <1>2 DEF IsInjective
  <2> QED BY <2>2, <2>3, <1>3 DEF IsInjective, Range
<1> QED BY <1>1, <1>2, <1>4, <1>5

\* SortFacts: sorting a list by end keeps its elements, each as often as
\* it was there, and leaves the ends ascending.
LEMMA SortFacts ==
  ASSUME NEW S, NEW s \in Seq(S), NEW t \in SortedByEnd(s)
  PROVE  /\ t \in Seq(S)
         /\ Len(t) = Len(s)
         /\ Range(t) = Range(s)
         /\ IsInjective(s) => IsInjective(t)
         /\ \A i, j \in 1 .. Len(t) : i < j => End(t[i]) <= End(t[j])
<1>1. PICK p \in Permutation(Len(s)) : t = [i \in 1 .. Len(s) |-> s[p[i]]]
  BY DEF SortedByEnd
<1>2. \A i, j \in 1 .. Len(s) : i < j => End(t[i]) <= End(t[j])
  BY DEF SortedByEnd
<1>3. Len(s) \in Nat /\ s \in [1 .. Len(s) -> S]
  BY LenProperties
<1>4. /\ p \in [1 .. Len(s) -> 1 .. Len(s)]
      /\ \A a, b \in 1 .. Len(s) : p[a] = p[b] => a = b
      /\ \A j \in 1 .. Len(s) : \E i \in 1 .. Len(s) : p[i] = j
  BY <1>1 DEF Permutation, Bijection, Injection, Surjection, IsInjective
<1>5. t \in [1 .. Len(s) -> S] /\ \A i \in 1 .. Len(s) : t[i] = s[p[i]]
  BY <1>1, <1>3, <1>4
<1>6. t \in Seq(S) /\ Len(t) = Len(s) /\ DOMAIN t = 1 .. Len(s)
  BY <1>3, <1>5, SeqDef, LenProperties
<1>7. Range(t) = Range(s)
  <2>1. DOMAIN s = 1 .. Len(s)
    BY <1>3
  <2>2. \A x \in Range(t) : x \in Range(s)
    BY <2>1, <1>4, <1>5, <1>6 DEF Range
  <2>3. ASSUME NEW j \in 1 .. Len(s) PROVE \E i \in 1 .. Len(s) : t[i] = s[j]
    <3>1. PICK i \in 1 .. Len(s) : p[i] = j
      BY <1>4
    <3>2. t[i] = s[j]
      BY <3>1, <1>5
    <3> QED BY <3>2
  <2>4. \A x \in Range(s) : x \in Range(t)
    BY <2>1, <2>3, <1>6 DEF Range
  <2> QED BY <2>2, <2>4
<1>8. ASSUME IsInjective(s) PROVE IsInjective(t)
  BY <1>3, <1>4, <1>5, <1>6, <1>8 DEF IsInjective
<1> QED BY <1>2, <1>6, <1>7, <1>8

\* BanksFacts: the banks are disjoint and told apart by the number 11.
LEMMA BanksFacts ==
  /\ \A r \in Range(IntRegs) : r \in Nat /\ r # 0 /\ r < FirstFpReg
  /\ \A r \in Range(FpRegs) : r \in Nat /\ r # 0 /\ ~(r < FirstFpReg)
  /\ IntRegs \in Seq(Range(IntRegs)) /\ FpRegs \in Seq(Range(FpRegs))
<1>1. Range(IntRegs) \subseteq 1 .. FirstFpReg - 1
  BY BanksAssumption, RangeOfSeq
<1>2. Range(FpRegs) \subseteq Nat \ (0 .. FirstFpReg - 1)
  BY BanksAssumption, RangeOfSeq
<1>3. IntRegs \in Seq(Range(IntRegs)) /\ FpRegs \in Seq(Range(FpRegs))
  BY BanksAssumption, SeqOfRange
<1>4. \A r \in Range(IntRegs) : r \in 1 .. FirstFpReg - 1
  BY <1>1
<1>5. \A r \in Range(FpRegs) : r \in Nat /\ r \notin 0 .. FirstFpReg - 1
  BY <1>2
<1>6. \A r \in 1 .. FirstFpReg - 1 : r \in Nat /\ r # 0 /\ r < FirstFpReg
  BY DEF FirstFpReg
<1>7. \A r \in Nat : r \notin 0 .. FirstFpReg - 1 => r # 0 /\ ~(r < FirstFpReg)
  BY DEF FirstFpReg
<1> QED BY <1>3, <1>4, <1>5, <1>6, <1>7

\* IntervalFacts: the intervals of a well-typed state.
LEMMA IntervalFacts ==
  ASSUME TypeOK
  PROVE  /\ N \in Nat
         /\ DOMAIN intervals = 1 .. N
         /\ \A i \in 1 .. N : intervals[i] \in Interval /\ Start(i) \in Int /\ End(i) \in Int
         /\ \A i, j \in 1 .. N : i < j => Start(i) <= Start(j)
<1>1. intervals \in Seq(Interval) /\ SortedByStart(intervals)
  BY DEF TypeOK
<1>2. N \in Nat /\ DOMAIN intervals = 1 .. N /\ \A i \in 1 .. N : intervals[i] \in Interval
  BY <1>1, LenProperties, ElementOfSeq DEF N
<1>3. \A i \in 1 .. N : Start(i) \in Int /\ End(i) \in Int
  BY <1>2 DEF Interval, Start, End
<1>4. \A i, j \in 1 .. N : i < j => Start(i) <= Start(j)
  BY <1>1, <1>2 DEF SortedByStart, Start
<1> QED BY <1>2, <1>3, <1>4

\* CurFacts: until it returns, the loop has an interval in hand.
LEMMA CurFacts == TypeOK /\ pc # "done" => cur \in 1 .. N
<1> SUFFICES ASSUME TypeOK, pc # "done" PROVE cur \in 1 .. N
  OBVIOUS
<1>1. N \in Nat
  BY IntervalFacts
<1>2. cur \in 1 .. N + 1 /\ cur # N + 1
  BY DEF TypeOK
<1> QED BY <1>1, <1>2

\* ActivateFacts: the active list after the current interval joins it.
LEMMA ActivateFacts ==
  ASSUME TypeOK, ActiveOnce, ActivePlaced, cur \in 1 .. N, Activate(cur)
  PROVE  /\ activelist' \in Seq(1 .. N)
         /\ Range(activelist') = Range(activelist) \cup {cur}
         /\ IsInjective(activelist')
         /\ \A i, j \in 1 .. Len(activelist') :
              i < j => End(activelist'[i]) <= End(activelist'[j])
<1>1. activelist \in Seq(1 .. N)
  BY DEF TypeOK
<1>2. cur \notin Range(activelist)
  BY IntervalFacts DEF ActivePlaced
<1>3. /\ Append(activelist, cur) \in Seq(1 .. N)
      /\ Range(Append(activelist, cur)) = Range(activelist) \cup {cur}
      /\ IsInjective(Append(activelist, cur))
  BY <1>1, <1>2, AppendFacts, ZenonT(30) DEF ActiveOnce
<1>4. activelist' \in SortedByEnd(Append(activelist, cur))
  BY DEF Activate
<1>5. /\ activelist' \in Seq(1 .. N)
      /\ Range(activelist') = Range(Append(activelist, cur))
      /\ IsInjective(Append(activelist, cur)) => IsInjective(activelist')
      /\ \A i, j \in 1 .. Len(activelist') :
           i < j => End(activelist'[i]) <= End(activelist'[j])
  BY <1>3, <1>4, SortFacts
<1> QED BY <1>3, <1>5
-----------------------------------------------------------------------------
(***************************************************************************)
(* What the changes of a free list do to the registers nobody had yet.     *)
(***************************************************************************)

\* FullList: a full free list holds its bank in order.
LEMMA FullList ==
  ASSUME NEW S, NEW B \in Seq(S)
  PROVE  RestInOrder(B, B, {})
<1>1. Len(B) \in Nat /\ 0 \in 0 .. Len(B) /\ FirstOnes(B, 0) = {}
  BY LenProperties DEF FirstOnes
<1> QED BY <1>1 DEF RestInOrder

\* ReturnedBehind: a register that is returned goes behind them.
LEMMA ReturnedBehind ==
  ASSUME NEW S, NEW F \in Seq(S), NEW e \in S, NEW T, NEW B \in Seq(T), NEW G,
         RestInOrder(F, B, G)
  PROVE  RestInOrder(Append(F, e), B, G)
<1>1. PICK n \in 0 .. Len(B) :
        /\ Len(B) - n <= Len(F)
        /\ \A k \in 1 .. Len(B) - n : F[k] = B[n + k]
        /\ G \cap Range(B) = FirstOnes(B, n)
  BY DEF RestInOrder
<1>2. Len(F) \in Nat /\ Len(B) \in Nat
  BY LenProperties
<1>3. /\ Len(Append(F, e)) = Len(F) + 1
      /\ \A k \in 1 .. Len(F) : Append(F, e)[k] = F[k]
  BY AppendProperties
<1>4. \A k \in 1 .. Len(B) - n : Append(F, e)[k] = B[n + k]
  BY <1>1, <1>2, <1>3
<1>5. Len(B) - n <= Len(Append(F, e))
  BY <1>1, <1>2, <1>3
<1> QED BY <1>1, <1>4, <1>5 DEF RestInOrder

\* FirstTaken: the front of the list is the next of them, or all have
\* been handed out already.
LEMMA FirstTaken ==
  ASSUME NEW T, NEW B \in Seq(T), NEW F \in Seq(Range(B)), F # << >>, NEW G,
         RestInOrder(F, B, G)
  PROVE  RestInOrder(Tail(F), B, G \cup {Head(F)})
<1>1. PICK n \in 0 .. Len(B) :
        /\ Len(B) - n <= Len(F)
        /\ \A k \in 1 .. Len(B) - n : F[k] = B[n + k]
        /\ G \cap Range(B) = FirstOnes(B, n)
  BY DEF RestInOrder
<1>2. Len(F) \in Nat /\ Len(B) \in Nat /\ DOMAIN B = 1 .. Len(B)
  BY LenProperties
<1>3. /\ Head(F) \in Range(B) /\ Head(F) = F[1]
      /\ Len(Tail(F)) = Len(F) - 1
      /\ \A k \in 1 .. Len(F) - 1 : Tail(F)[k] = F[k + 1]
  BY TailFacts
<1>4. CASE n = Len(B)
  <2>1. FirstOnes(B, n) = Range(B)
    BY <1>2, <1>4 DEF FirstOnes, Range
  <2>2. (G \cup {Head(F)}) \cap Range(B) = FirstOnes(B, n)
    BY <1>1, <1>3, <2>1
  <2>3. 1 .. Len(B) - n = {} /\ Len(B) - n <= Len(Tail(F))
    BY <1>2, <1>3, <1>4, LenProperties, TailFacts
  <2> QED BY <2>2, <2>3 DEF RestInOrder
<1>5. CASE n # Len(B)
  <2>1. n + 1 \in 0 .. Len(B) /\ 1 \in 1 .. Len(B) - n
    <3>1. \A l \in Nat : n \in 0 .. l /\ n # l => n + 1 \in 0 .. l /\ 1 \in 1 .. l - n
      OBVIOUS
    <3> QED BY <3>1, <1>2, <1>5
  <2>2. Head(F) = B[n + 1]
    BY <1>1, <1>3, <2>1
  <2>3. 1 .. n + 1 = 1 .. n \cup {n + 1}
    BY <1>2
  <2>4. FirstOnes(B, n + 1) = FirstOnes(B, n) \cup {B[n + 1]}
    BY <2>3 DEF FirstOnes
  <2>5. (G \cup {Head(F)}) \cap Range(B) = FirstOnes(B, n + 1)
    BY <1>1, <1>3, <2>2, <2>4
  <2>6. Len(B) - (n + 1) <= Len(Tail(F))
    BY <1>1, <1>2, <1>3
  <2>7. ASSUME NEW k \in 1 .. Len(B) - (n + 1) PROVE Tail(F)[k] = B[(n + 1) + k]
    <3>1. k \in 1 .. Len(F) - 1 /\ k + 1 \in 1 .. Len(B) - n /\ n + (k + 1) = (n + 1) + k
      BY <1>1, <1>2
    <3> QED BY <3>1, <1>1, <1>3
  <2> QED BY <2>1, <2>5, <2>6, <2>7 DEF RestInOrder
<1> QED BY <1>4, <1>5

\* OtherBank: a register of the other bank does not count.
LEMMA OtherBank ==
  ASSUME NEW F, NEW B, NEW G, NEW e, e \notin Range(B), RestInOrder(F, B, G)
  PROVE  RestInOrder(F, B, G \cup {e})
<1>1. (G \cup {e}) \cap Range(B) = G \cap Range(B)
  OBVIOUS
<1> QED BY <1>1 DEF RestInOrder

\* GivenFacts: the registers given, when the current interval gets r.
LEMMA GivenFacts ==
  ASSUME TypeOK, cur \in 1 .. N, cur' = cur + 1, NEW r,
         rreg'[cur] = r, \A i \in 1 .. N : i # cur => rreg'[i] = rreg[i]
  PROVE  Given' = Given \cup {r}
<1>1. N \in Nat
  BY IntervalFacts
<1>2. 1 .. cur' - 1 = 1 .. cur - 1 \cup {cur}
  BY <1>1
<1>3. \A i \in 1 .. cur - 1 : i \in 1 .. N /\ i # cur
  BY <1>1
<1> QED BY <1>2, <1>3 DEF Given
-----------------------------------------------------------------------------
(***************************************************************************)
(* The inductive invariant holds initially and is kept by every action.    *)
(***************************************************************************)

\* InitIInv: the head of the function establishes the invariant.
LEMMA InitIInv == Init => IInv
<1> SUFFICES ASSUME Init PROVE IInv
  OBVIOUS
<1> USE DEF Init
<1>1. intervals \in Seq(Interval) /\ SortedByStart(intervals) /\ N \in Nat
  BY InputsAssumption, LenProperties DEF N
<1>2. Range(activelist) = {} /\ Len(activelist) = 0 /\ activelist \in Seq(1 .. N)
  BY EmptySeq DEF Range
<1>3. TypeOK
  BY <1>1, <1>2, BanksFacts DEF TypeOK
<1>4. ActivePlaced /\ ActiveOnce /\ ActiveSorted /\ Swept /\ Conserved
  BY <1>2 DEF ActivePlaced, ActiveOnce, ActiveSorted, Swept, Conserved, IsInjective
<1>5. Exclusive
  <2>1. Finished
    BY <1>1 DEF Finished
  <2>2. IsInjective(fpregs) /\ IsInjective(regs)
    BY BanksAssumption
  <2>3. FreeOnce /\ HeldOnce
    BY <1>2, <2>2 DEF FreeOnce, HeldOnce
  <2> QED BY <2>1, <2>3 DEF Exclusive
<1>6. OwnBank /\ NoClash
  BY <1>1 DEF OwnBank, NoClash, Placed
<1>7. Given = {}
  BY DEF Given
<1>8. Orderly
  BY <1>7, BanksAssumption, FullList DEF Orderly
<1> QED BY <1>3, <1>4, <1>5, <1>6, <1>8 DEF IInv

\* ExpireKeepsIInv: a register that is returned was held once, by an
\* interval that ends before everything that is still to be placed.
LEMMA ExpireKeepsIInv == IInv /\ ExpireOldInterval => IInv'
<1> SUFFICES ASSUME IInv, ExpireOldInterval PROVE IInv'
  OBVIOUS
<1> DEFINE h == Head(activelist)
           r == rreg[h]
<1>1. TypeOK /\ ActivePlaced /\ ActiveOnce /\ ActiveSorted /\ Conserved
  BY DEF IInv
<1>2. /\ intervals' = intervals /\ rreg' = rreg /\ success' = success
      /\ cur' = cur /\ pc' = pc /\ spill' = spill /\ pc = "expire"
      /\ activelist # << >> /\ activelist' = Tail(activelist)
      /\ End(h) < Start(cur)
  BY DEF ExpireOldInterval, Expired
<1>3. /\ h \in 1 .. N /\ activelist' \in Seq(1 .. N)
      /\ h = activelist[1] /\ Len(activelist) >= 1
      /\ Len(activelist') = Len(activelist) - 1
      /\ \A i \in 1 .. Len(activelist) - 1 : activelist'[i] = activelist[i + 1]
      /\ Range(activelist) = {h} \cup Range(activelist')
      /\ IsInjective(activelist') /\ Range(activelist') = Range(activelist) \ {h}
  BY <1>1, <1>2, TailFacts DEF TypeOK, ActiveOnce
<1>4. h < cur /\ r \in Banks
  BY <1>1, <1>3 DEF ActivePlaced
<1>5. /\ r \in Range(IntRegs) => regs' = Append(regs, r) /\ fpregs' = fpregs
      /\ r \in Range(FpRegs) => fpregs' = Append(fpregs, r) /\ regs' = regs
  BY BanksFacts DEF ExpireOldInterval, IsGeneral
<1>6. regs \in Seq(Range(IntRegs)) /\ fpregs \in Seq(Range(FpRegs))
  BY <1>1 DEF TypeOK
<1>7. /\ regs' \in Seq(Range(IntRegs)) /\ fpregs' \in Seq(Range(FpRegs))
      /\ Range(regs') \cup Range(fpregs') = Range(regs) \cup Range(fpregs) \cup {r}
      /\ Range(regs) \subseteq Range(regs') /\ Range(fpregs) \subseteq Range(fpregs')
      /\ r \in Range(IntRegs) => r \in Range(regs')
      /\ r \in Range(FpRegs) => r \in Range(fpregs')
  <2>1. CASE r \in Range(IntRegs)
    <3>1. /\ Append(regs, r) \in Seq(Range(IntRegs))
          /\ Range(Append(regs, r)) = Range(regs) \cup {r}
      BY <2>1, <1>6, AppendFacts
    <3>2. r \notin Range(FpRegs)
      BY <2>1, BanksFacts
    <3> HIDE DEF r
    <3> QED BY <2>1, <3>1, <3>2, <1>5, <1>6
  <2>2. CASE r \in Range(FpRegs)
    <3>1. /\ Append(fpregs, r) \in Seq(Range(FpRegs))
          /\ Range(Append(fpregs, r)) = Range(fpregs) \cup {r}
      BY <2>2, <1>6, AppendFacts
    <3>2. r \notin Range(IntRegs)
      BY <2>2, BanksFacts
    <3> HIDE DEF r
    <3> QED BY <2>2, <3>1, <3>2, <1>5, <1>6
  <2> QED BY <2>1, <2>2, <1>4 DEF Banks
<1>8. N' = N /\ \A i : End(i)' = End(i) /\ Start(i)' = Start(i)
  BY <1>2 DEF N, End, Start
<1>9. TypeOK'
  BY <1>1, <1>2, <1>3, <1>7, <1>8 DEF TypeOK
<1>10. ActivePlaced' /\ ActiveOnce'
  BY <1>1, <1>2, <1>3 DEF ActivePlaced, ActiveOnce
<1>11. ActiveSorted'
  <2> SUFFICES ASSUME NEW i \in 1 .. Len(activelist'), NEW j \in 1 .. Len(activelist'), i < j
               PROVE  End(activelist'[i]) <= End(activelist'[j])
    BY <1>8 DEF ActiveSorted
  <2>1. Len(activelist) \in Nat
    BY <1>1, LenProperties DEF TypeOK
  <2>2. i + 1 \in 1 .. Len(activelist) /\ j + 1 \in 1 .. Len(activelist) /\ i + 1 < j + 1
    BY <1>3, <2>1
  <2>3. activelist'[i] = activelist[i + 1] /\ activelist'[j] = activelist[j + 1]
    BY <1>3, <2>1
  <2> QED BY <2>2, <2>3, <1>1 DEF ActiveSorted
<1>12. Swept'
  BY <1>2 DEF Swept
<1>13. Conserved'
  BY <1>1, <1>2, <1>3, <1>4, <1>7 DEF Conserved, Banks
<1>14. Exclusive'
  <2> SUFFICES ASSUME success PROVE Finished' /\ FreeOnce' /\ HeldOnce'
    BY <1>2 DEF Exclusive
  <2>1. Finished /\ FreeOnce /\ HeldOnce
    BY DEF IInv, Exclusive
  <2>2. \A j \in 1 .. N : cur <= j => End(h) < Start(j)
    <3>1. cur \in 1 .. N
      BY <1>1, <1>2, CurFacts
    <3>2. \A j \in 1 .. N : cur <= j => Start(cur) <= Start(j)
      BY <1>1, <3>1, IntervalFacts
    <3>3. End(h) \in Int /\ \A j \in 1 .. N : Start(j) \in Int
      BY <1>1, <1>3, IntervalFacts
    <3> HIDE DEF h
    <3> QED BY <1>2, <3>1, <3>2, <3>3
  <2>3. Finished'
    BY <2>1, <2>2, <1>2, <1>3, <1>8 DEF Finished
  <2>4. IsInjective(regs') /\ IsInjective(fpregs')
    <3>1. r \notin Range(regs) \cup Range(fpregs)
      BY <2>1, <1>3 DEF FreeOnce
    <3>2. CASE r \in Range(IntRegs)
      <4>1. IsInjective(regs) => IsInjective(Append(regs, r))
        BY <3>1, <3>2, <1>6, AppendFacts
      <4> QED BY <3>2, <4>1, <2>1, <1>5 DEF FreeOnce
    <3>3. CASE r \in Range(FpRegs)
      <4>1. IsInjective(fpregs) => IsInjective(Append(fpregs, r))
        BY <3>1, <3>3, <1>6, AppendFacts
      <4> QED BY <3>3, <4>1, <2>1, <1>5 DEF FreeOnce
    <3> QED BY <3>2, <3>3, <1>4 DEF Banks
  <2>5. \A i \in Range(activelist') : rreg'[i] \notin Range(regs') \cup Range(fpregs')
    BY <2>1, <1>2, <1>3, <1>7 DEF FreeOnce, HeldOnce
  <2>6. HeldOnce'
    BY <2>1, <1>2, <1>3 DEF HeldOnce
  <2> QED BY <2>3, <2>4, <2>5, <2>6 DEF FreeOnce
<1>15. OwnBank' /\ NoClash'
  <2>1. \A i, j : LiveTogether(i, j)' <=> LiveTogether(i, j)
    BY <1>8 DEF LiveTogether
  <2> QED BY <2>1, <1>2, <1>8 DEF IInv, OwnBank, NoClash, Placed, Bank
<1>16. Orderly'
  <2> SUFFICES ASSUME success
               PROVE  /\ RestInOrder(regs', IntRegs, Given')
                      /\ RestInOrder(fpregs', FpRegs, Given')
    BY <1>2 DEF Orderly
  <2>1. Given' = Given
    BY <1>2 DEF Given
  <2>2. RestInOrder(regs, IntRegs, Given) /\ RestInOrder(fpregs, FpRegs, Given)
    BY DEF IInv, Orderly
  <2>3. CASE r \in Range(IntRegs)
    <3>1. RestInOrder(Append(regs, r), IntRegs, Given)
      BY <2>2, <2>3, <1>6, BanksAssumption, ReturnedBehind
    <3> QED BY <3>1, <2>1, <2>2, <2>3, <1>5
  <2>4. CASE r \in Range(FpRegs)
    <3>1. RestInOrder(Append(fpregs, r), FpRegs, Given)
      BY <2>2, <2>4, <1>6, BanksFacts, ReturnedBehind
    <3> QED BY <3>1, <2>1, <2>2, <2>4, <1>5
  <2> QED BY <2>3, <2>4, <1>4 DEF Banks
<1> QED BY <1>9, <1>10, <1>11, <1>12, <1>13, <1>14, <1>15, <1>16 DEF IInv

\* ReturnKeepsIInv: the loop stops at an interval that is still alive, and
\* the list is ascending by end, so all that stay are.
LEMMA ReturnKeepsIInv == IInv /\ ExpireReturns => IInv'
<1> SUFFICES ASSUME IInv, ExpireReturns PROVE IInv'
  OBVIOUS
<1>1. /\ intervals' = intervals /\ rreg' = rreg /\ success' = success /\ cur' = cur
      /\ pc' = "place" /\ pc = "expire" /\ spill' = spill /\ regs' = regs
      /\ fpregs' = fpregs /\ activelist' = activelist
  BY DEF ExpireReturns
<1>2. N' = N /\ \A i : End(i)' = End(i) /\ Start(i)' = Start(i)
  BY <1>1 DEF N, End, Start
<1>3. TypeOK
  BY DEF IInv
<1>4. TypeOK'
  BY <1>1, <1>2, <1>3 DEF TypeOK
<1>5. Swept'
  <2>1. CASE activelist = << >>
    BY <2>1, <1>1, <1>2 DEF Swept, Range
  <2>2. CASE activelist # << >>
    <3>1. activelist \in Seq(1 .. N) /\ DOMAIN activelist = 1 .. Len(activelist)
      BY <1>3, LenProperties DEF TypeOK
    <3>2. Head(activelist) = activelist[1] /\ Len(activelist) >= 1 /\ Len(activelist) \in Nat
      BY <2>2, <3>1, TailFacts, LenProperties
    <3>3. ~(End(activelist[1]) < Start(cur))
      BY <2>2, <3>2 DEF ExpireReturns, Expired
    <3>4. \A i \in 1 .. Len(activelist) : End(activelist[1]) <= End(activelist[i])
      <4> SUFFICES ASSUME NEW i \in 1 .. Len(activelist)
                   PROVE  End(activelist[1]) <= End(activelist[i])
        OBVIOUS
      <4>1. activelist[i] \in 1 .. N /\ End(activelist[i]) \in Int
        BY <3>1, <1>3, ElementOfSeq, IntervalFacts
      <4>2. 1 \in 1 .. Len(activelist) /\ (i = 1 \/ 1 < i)
        BY <3>2
      <4> QED BY <4>1, <4>2 DEF IInv, ActiveSorted
    <3>5. \A i \in 1 .. Len(activelist) : End(activelist[i]) \in Int
      BY <3>1, <1>3, ElementOfSeq, IntervalFacts
    <3>6. Start(cur) \in Int /\ 1 \in 1 .. Len(activelist)
      BY <1>1, <1>3, <3>2, CurFacts, IntervalFacts
    <3>7. \A i \in 1 .. Len(activelist) : End(activelist[i]) >= Start(cur)
      BY <3>3, <3>4, <3>5, <3>6
    <3> QED BY <3>1, <3>7, <1>1, <1>2 DEF Swept, Range
  <2> QED BY <2>1, <2>2
<1>6. ActivePlaced' /\ ActiveOnce' /\ ActiveSorted' /\ Conserved' /\ Exclusive'
  BY <1>1, <1>2 DEF IInv, ActivePlaced, ActiveOnce, ActiveSorted, Conserved,
                    Exclusive, Finished, FreeOnce, HeldOnce
<1>7. OwnBank' /\ NoClash'
  <2>1. \A i, j : LiveTogether(i, j)' <=> LiveTogether(i, j)
    BY <1>2 DEF LiveTogether
  <2> QED BY <2>1, <1>1, <1>2 DEF IInv, OwnBank, NoClash, Placed, Bank
<1>8. Orderly'
  BY <1>1 DEF IInv, Orderly, Given
<1> QED BY <1>4, <1>5, <1>6, <1>7, <1>8 DEF IInv

\* MoveOnFacts: what all three ways to place the current interval share.
LEMMA MoveOnFacts ==
  ASSUME TypeOK, pc = "place", NextInterval, intervals' = intervals
  PROVE  /\ cur \in 1 .. N /\ N \in Nat /\ N' = N
         /\ cur' = cur + 1 /\ cur' \in 1 .. N' + 1
         /\ pc' \in {"done", "expire"} /\ (pc' = "done" <=> cur' = N' + 1)
         /\ \A i : End(i)' = End(i) /\ Start(i)' = Start(i)
<1>1. cur \in 1 .. N /\ N \in Nat
  BY CurFacts, IntervalFacts
<1>2. N' = N /\ \A i : End(i)' = End(i) /\ Start(i)' = Start(i)
  BY DEF N, End, Start
<1>3. cur' = cur + 1 /\ pc' = IF cur = N THEN "done" ELSE "expire"
  BY DEF NextInterval
<1> QED BY <1>1, <1>2, <1>3

\* JoinFacts: the part of the invariant about the active list, when the
\* current interval joins it with a register r.
LEMMA JoinFacts ==
  ASSUME IInv, pc = "place", NextInterval, intervals' = intervals, Activate(cur),
         NEW r \in Banks, rreg' = [rreg EXCEPT ![cur] = r]
  PROVE  /\ activelist' \in Seq(1 .. N)
         /\ Range(activelist') = Range(activelist) \cup {cur}
         /\ rreg' \in [1 .. N -> {0} \cup Range(IntRegs) \cup Range(FpRegs)]
         /\ rreg'[cur] = r
         /\ cur \notin Range(activelist)
         /\ \A i \in 1 .. N : i # cur => rreg'[i] = rreg[i]
         /\ \A i \in Range(activelist) : i \in 1 .. N
         /\ ActivePlaced' /\ ActiveOnce' /\ ActiveSorted' /\ Swept'
<1>1. TypeOK /\ ActivePlaced /\ ActiveOnce
  BY DEF IInv
<1>2. /\ cur \in 1 .. N /\ N \in Nat /\ N' = N /\ cur' = cur + 1
      /\ pc' \in {"done", "expire"}
      /\ \A i : End(i)' = End(i) /\ Start(i)' = Start(i)
  BY <1>1, MoveOnFacts
<1>3. /\ activelist' \in Seq(1 .. N)
      /\ Range(activelist') = Range(activelist) \cup {cur}
      /\ IsInjective(activelist')
      /\ \A i, j \in 1 .. Len(activelist') :
           i < j => End(activelist'[i]) <= End(activelist'[j])
  BY <1>1, <1>2, ActivateFacts
<1>4. rreg \in [1 .. N -> {0} \cup Range(IntRegs) \cup Range(FpRegs)]
  BY <1>1 DEF TypeOK
<1>5. /\ rreg' \in [1 .. N -> {0} \cup Range(IntRegs) \cup Range(FpRegs)]
      /\ rreg'[cur] = r /\ \A i \in 1 .. N : i # cur => rreg'[i] = rreg[i]
  BY <1>2, <1>4 DEF Banks
<1>6. \A i \in Range(activelist) : i \in 1 .. N /\ i < cur
  BY <1>1, RangeOfSeq DEF TypeOK, ActivePlaced
<1>7. cur \notin Range(activelist)
  BY <1>2, <1>6
<1>8. ActivePlaced'
  BY <1>1, <1>2, <1>3, <1>5, <1>6 DEF ActivePlaced
<1>9. ActiveOnce' /\ ActiveSorted' /\ Swept'
  BY <1>2, <1>3 DEF ActiveOnce, ActiveSorted, Swept
<1> QED BY <1>3, <1>5, <1>6, <1>7, <1>8, <1>9

\* TakeFacts: the register taken comes from the bank of the current interval
\* and leaves the free lists, which keep all others.
LEMMA TakeFacts ==
  ASSUME TypeOK, AssignRegister,
         NEW r, r = Taken(FreeList(intervals[cur].fp))
  PROVE  /\ r \in Bank(intervals[cur].fp)
         /\ regs' \in Seq(Range(IntRegs)) /\ fpregs' \in Seq(Range(FpRegs))
         /\ Range(regs') \subseteq Range(regs) /\ Range(fpregs') \subseteq Range(fpregs)
         /\ r \in Range(regs) \cup Range(fpregs)
         /\ \A q \in Range(regs) : q = r \/ q \in Range(regs')
         /\ \A q \in Range(fpregs) : q = r \/ q \in Range(fpregs')
         /\ IsInjective(regs) /\ IsInjective(fpregs)
              => /\ IsInjective(regs') /\ IsInjective(fpregs')
                 /\ r \notin Range(regs') \cup Range(fpregs')
<1>1. regs \in Seq(Range(IntRegs)) /\ fpregs \in Seq(Range(FpRegs))
  BY DEF TypeOK
<1>2. Range(regs) \subseteq Range(IntRegs) /\ Range(fpregs) \subseteq Range(FpRegs)
  BY <1>1, RangeOfSeq
<1>3. \A q \in Range(IntRegs) : q \notin Range(FpRegs)
  BY BanksFacts
<1>4. CASE intervals[cur].fp
  <2>1. fpregs # << >> /\ r = Head(fpregs) /\ fpregs' = Tail(fpregs) /\ regs' = regs
    BY <1>4 DEF AssignRegister, BankExhausted, FreeList, Taken
  <2>2. /\ r \in Range(FpRegs) /\ fpregs' \in Seq(Range(FpRegs))
        /\ Range(fpregs) = {r} \cup Range(fpregs')
        /\ IsInjective(fpregs) => IsInjective(fpregs') /\ r \notin Range(fpregs')
    BY <2>1, <1>1, TailFacts
  <2> QED BY <2>1, <2>2, <1>1, <1>2, <1>3, <1>4 DEF Bank
<1>5. CASE ~intervals[cur].fp
  <2>1. regs # << >> /\ r = Head(regs) /\ regs' = Tail(regs) /\ fpregs' = fpregs
    BY <1>5 DEF AssignRegister, BankExhausted, FreeList, Taken
  <2>2. /\ r \in Range(IntRegs) /\ regs' \in Seq(Range(IntRegs))
        /\ Range(regs) = {r} \cup Range(regs')
        /\ IsInjective(regs) => IsInjective(regs') /\ r \notin Range(regs')
    BY <2>1, <1>1, TailFacts
  <2> QED BY <2>1, <2>2, <1>1, <1>2, <1>3, <1>5 DEF Bank
<1> QED BY <1>4, <1>5

\* AssignKeepsIInv: the register at the front of the free list is nobody's,
\* and an interval that is live with the current one is still active.
LEMMA AssignKeepsIInv == IInv /\ AssignRegister => IInv'
<1> SUFFICES ASSUME IInv, AssignRegister PROVE IInv'
  OBVIOUS
<1>1. TypeOK /\ ActivePlaced /\ Conserved
  BY DEF IInv
<1>2. /\ pc = "place" /\ intervals' = intervals /\ spill' = spill /\ success' = success
      /\ Activate(cur) /\ NextInterval
  BY DEF AssignRegister
<1>3. PICK r : /\ r = Taken(FreeList(intervals[cur].fp))
               /\ rreg' = [rreg EXCEPT ![cur] = r]
  BY DEF AssignRegister
<1>4. /\ r \in Bank(intervals[cur].fp)
      /\ regs' \in Seq(Range(IntRegs)) /\ fpregs' \in Seq(Range(FpRegs))
      /\ Range(regs') \subseteq Range(regs) /\ Range(fpregs') \subseteq Range(fpregs)
      /\ r \in Range(regs) \cup Range(fpregs)
      /\ \A q \in Range(regs) : q = r \/ q \in Range(regs')
      /\ \A q \in Range(fpregs) : q = r \/ q \in Range(fpregs')
      /\ IsInjective(regs) /\ IsInjective(fpregs)
           => /\ IsInjective(regs') /\ IsInjective(fpregs')
              /\ r \notin Range(regs') \cup Range(fpregs')
  BY <1>1, <1>3, TakeFacts
<1>5. r \in Banks
  BY <1>4 DEF Bank, Banks
<1>6. /\ cur \in 1 .. N /\ N \in Nat /\ N' = N /\ cur' = cur + 1 /\ cur' \in 1 .. N' + 1
      /\ pc' \in {"done", "expire"} /\ (pc' = "done" <=> cur' = N' + 1)
      /\ \A i : End(i)' = End(i) /\ Start(i)' = Start(i)
  BY <1>1, <1>2, MoveOnFacts
<1>7. /\ activelist' \in Seq(1 .. N)
      /\ Range(activelist') = Range(activelist) \cup {cur}
      /\ rreg' \in [1 .. N -> {0} \cup Range(IntRegs) \cup Range(FpRegs)]
      /\ rreg'[cur] = r /\ cur \notin Range(activelist)
      /\ \A i \in 1 .. N : i # cur => rreg'[i] = rreg[i]
      /\ \A i \in Range(activelist) : i \in 1 .. N
      /\ ActivePlaced' /\ ActiveOnce' /\ ActiveSorted' /\ Swept'
  BY <1>2, <1>3, <1>5, JoinFacts
<1>8. TypeOK'
  BY <1>1, <1>2, <1>4, <1>6, <1>7 DEF TypeOK
<1>9. Conserved'
  BY <1>1, <1>4, <1>7 DEF Conserved
<1>10. ASSUME success PROVE Finished' /\ FreeOnce' /\ HeldOnce'
  <2>1. Finished /\ FreeOnce /\ HeldOnce
    BY <1>10 DEF IInv, Exclusive
  <2>2. Finished'
    <3> SUFFICES ASSUME NEW i \in 1 .. N, i < cur', i \notin Range(activelist'),
                        NEW j \in 1 .. N, cur' <= j
                 PROVE  End(i) < Start(j)
      BY <1>6 DEF Finished
    <3>1. i < cur /\ i \notin Range(activelist) /\ cur <= j
      BY <1>6, <1>7
    <3> QED BY <3>1, <2>1 DEF Finished
  <2>3. FreeOnce'
    BY <2>1, <1>4, <1>7 DEF FreeOnce
  <2>4. HeldOnce'
    BY <2>1, <1>4, <1>7 DEF FreeOnce, HeldOnce
  <2> QED BY <2>2, <2>3, <2>4
<1>11. OwnBank'
  <2> SUFFICES ASSUME success, NEW i \in 1 .. N, i < cur + 1
               PROVE  rreg'[i] \in Bank(intervals[i].fp)
    BY <1>2, <1>6 DEF OwnBank, Placed, Bank
  <2>1. i = cur \/ i < cur
    BY <1>6
  <2> QED BY <2>1, <1>4, <1>6, <1>7 DEF IInv, OwnBank, Placed
<1>12. NoClash'
  <2> SUFFICES ASSUME success, NEW i \in 1 .. N, NEW j \in 1 .. N,
                      i < cur + 1, j < cur + 1, i < j, Start(j) <= End(i)
               PROVE  rreg'[i] # rreg'[j]
    BY <1>2, <1>6 DEF NoClash, Placed, LiveTogether
  <2>1. i < cur /\ (j = cur \/ j < cur)
    BY <1>6
  <2>2. CASE j < cur
    BY <2>1, <2>2, <1>7 DEF IInv, NoClash, Placed, LiveTogether
  <2>3. CASE j = cur
    <3>1. End(i) \in Int /\ Start(cur) \in Int
      BY <1>1, <1>6, IntervalFacts
    <3>2. i \in Range(activelist)
      <4> SUFFICES ASSUME i \notin Range(activelist) PROVE FALSE
        OBVIOUS
      <4>1. End(i) < Start(cur)
        BY <2>1, <1>6 DEF IInv, Exclusive, Finished
      <4> QED BY <4>1, <3>1, <2>3
    <3>3. rreg[i] \notin Range(regs) \cup Range(fpregs)
      BY <3>2 DEF IInv, Exclusive, FreeOnce
    <3> QED BY <3>3, <2>1, <2>3, <1>4, <1>7
  <2> QED BY <2>1, <2>2, <2>3
<1>13. ASSUME success
       PROVE  RestInOrder(regs', IntRegs, Given') /\ RestInOrder(fpregs', FpRegs, Given')
  <2>1. RestInOrder(regs, IntRegs, Given) /\ RestInOrder(fpregs, FpRegs, Given)
    BY <1>13 DEF IInv, Orderly
  <2>2. Given' = Given \cup {r}
    BY <1>1, <1>6, <1>7, GivenFacts
  <2>3. regs \in Seq(Range(IntRegs)) /\ fpregs \in Seq(Range(FpRegs))
    BY <1>1 DEF TypeOK
  <2>4. IntRegs \in Seq(Range(IntRegs)) /\ FpRegs \in Seq(Range(FpRegs))
    BY BanksFacts
  <2>5. CASE intervals[cur].fp
    <3>1. fpregs # << >> /\ r = Head(fpregs) /\ fpregs' = Tail(fpregs) /\ regs' = regs
      BY <2>5, <1>3 DEF AssignRegister, BankExhausted, FreeList, Taken
    <3>2. r \notin Range(IntRegs)
      BY <2>5, <1>4, BanksFacts DEF Bank
    <3>3. RestInOrder(regs, IntRegs, Given \cup {r})
      BY <2>1, <3>2, OtherBank
    <3>4. RestInOrder(Tail(fpregs), FpRegs, Given \cup {Head(fpregs)})
      BY <2>1, <2>3, <2>4, <3>1, FirstTaken
    <3> QED BY <2>2, <3>1, <3>3, <3>4
  <2>6. CASE ~intervals[cur].fp
    <3>1. regs # << >> /\ r = Head(regs) /\ regs' = Tail(regs) /\ fpregs' = fpregs
      BY <2>6, <1>3 DEF AssignRegister, BankExhausted, FreeList, Taken
    <3>2. r \notin Range(FpRegs)
      BY <2>6, <1>4, BanksFacts DEF Bank
    <3>3. RestInOrder(fpregs, FpRegs, Given \cup {r})
      BY <2>1, <3>2, OtherBank
    <3>4. RestInOrder(Tail(regs), IntRegs, Given \cup {Head(regs)})
      BY <2>1, <2>3, <2>4, <3>1, FirstTaken
    <3> QED BY <2>2, <3>1, <3>3, <3>4
  <2> QED BY <2>5, <2>6
<1>14. Orderly'
  BY <1>2, <1>13 DEF Orderly
<1> QED BY <1>2, <1>7, <1>8, <1>9, <1>10, <1>11, <1>12, <1>14 DEF IInv, Exclusive

\* LastFacts: the back of the active list ends last of all active intervals.
LEMMA LastFacts ==
  ASSUME IInv, activelist # << >>
  PROVE  /\ LastActive \in Range(activelist) /\ LastActive \in 1 .. N
         /\ \A j \in Range(activelist) : End(j) <= End(LastActive)
<1>1. TypeOK /\ ActiveSorted
  BY DEF IInv
<1>2. activelist \in Seq(1 .. N) /\ DOMAIN activelist = 1 .. Len(activelist)
  BY <1>1, LenProperties DEF TypeOK
<1>3. Len(activelist) \in 1 .. Len(activelist)
  BY <1>2, EmptySeq
<1>4. LastActive \in Range(activelist)
  BY <1>2, <1>3 DEF LastActive, Range
<1>5. \A i \in 1 .. Len(activelist) : activelist[i] \in 1 .. N
  BY <1>2, ElementOfSeq
<1>6. ASSUME NEW i \in 1 .. Len(activelist)
      PROVE  End(activelist[i]) <= End(LastActive)
  <2>1. CASE i = Len(activelist)
    BY <2>1, <1>1, <1>3, <1>5, IntervalFacts DEF LastActive
  <2>2. CASE i # Len(activelist)
    <3>1. i < Len(activelist)
      BY <2>2, <1>3
    <3> QED BY <3>1, <1>1, <1>3 DEF ActiveSorted, LastActive
  <2> QED BY <2>1, <2>2
<1>7. \A j \in Range(activelist) : End(j) <= End(LastActive)
  BY <1>2, <1>6 DEF Range
<1> QED BY <1>3, <1>4, <1>5, <1>7 DEF LastActive

\* SpillLastKeepsIInv: the register changes hands, so none is lost; the
\* round has failed, so nothing more is claimed of it.
LEMMA SpillLastKeepsIInv == IInv /\ SpillLast => IInv'
<1> SUFFICES ASSUME IInv, SpillLast PROVE IInv'
  OBVIOUS
<1>1. TypeOK /\ ActivePlaced /\ Conserved
  BY DEF IInv
<1>2. /\ pc = "place" /\ intervals' = intervals /\ activelist # << >>
      /\ spill' = [spill EXCEPT ![LastActive] = TRUE] /\ success' = FALSE
      /\ regs' = regs /\ fpregs' = fpregs
      /\ Activate(cur) /\ NextInterval
  BY DEF SpillLast
<1>3. LastActive \in Range(activelist) /\ LastActive \in 1 .. N
  BY <1>2, LastFacts
<1>4. PICK r \in Banks : rreg' = [rreg EXCEPT ![cur] = r]
  BY <1>1, <1>3 DEF SpillLast, ActivePlaced
<1>5. /\ cur \in 1 .. N /\ N \in Nat /\ N' = N /\ cur' = cur + 1 /\ cur' \in 1 .. N' + 1
      /\ pc' \in {"done", "expire"} /\ (pc' = "done" <=> cur' = N' + 1)
  BY <1>1, <1>2, MoveOnFacts
<1>6. /\ activelist' \in Seq(1 .. N)
      /\ Range(activelist') = Range(activelist) \cup {cur}
      /\ rreg' \in [1 .. N -> {0} \cup Range(IntRegs) \cup Range(FpRegs)]
      /\ cur \notin Range(activelist)
      /\ \A i \in 1 .. N : i # cur => rreg'[i] = rreg[i]
      /\ \A i \in Range(activelist) : i \in 1 .. N
      /\ ActivePlaced' /\ ActiveOnce' /\ ActiveSorted' /\ Swept'
  BY <1>2, <1>4, JoinFacts
<1>7. spill' \in [1 .. N -> BOOLEAN]
  BY <1>1, <1>2 DEF TypeOK
<1>8. TypeOK'
  BY <1>1, <1>2, <1>5, <1>6, <1>7 DEF TypeOK
<1>9. Conserved'
  BY <1>1, <1>2, <1>6 DEF Conserved
<1> QED BY <1>2, <1>6, <1>8, <1>9 DEF IInv, Exclusive, OwnBank, NoClash, Orderly

\* SpillCurrentKeepsIInv: nothing but the mark and the loop changes.
LEMMA SpillCurrentKeepsIInv == IInv /\ SpillCurrent => IInv'
<1> SUFFICES ASSUME IInv, SpillCurrent PROVE IInv'
  OBVIOUS
<1>1. TypeOK /\ ActivePlaced /\ ActiveOnce /\ ActiveSorted /\ Conserved
  BY DEF IInv
<1>2. /\ pc = "place" /\ intervals' = intervals /\ activelist' = activelist
      /\ spill' = [spill EXCEPT ![cur] = TRUE] /\ success' = FALSE
      /\ regs' = regs /\ fpregs' = fpregs /\ rreg' = rreg /\ NextInterval
  BY DEF SpillCurrent
<1>3. /\ cur \in 1 .. N /\ N \in Nat /\ N' = N /\ cur' = cur + 1 /\ cur' \in 1 .. N' + 1
      /\ pc' \in {"done", "expire"} /\ (pc' = "done" <=> cur' = N' + 1)
      /\ \A i : End(i)' = End(i)
  BY <1>1, <1>2, MoveOnFacts
<1>4. spill' \in [1 .. N -> BOOLEAN]
  BY <1>1, <1>2 DEF TypeOK
<1>5. TypeOK'
  BY <1>1, <1>2, <1>3, <1>4 DEF TypeOK
<1>6. ActivePlaced'
  <2>1. \A i \in Range(activelist) : i \in 1 .. N
    BY <1>1, RangeOfSeq DEF TypeOK
  <2> QED BY <2>1, <1>1, <1>2, <1>3 DEF ActivePlaced
<1>7. ActiveOnce' /\ ActiveSorted' /\ Swept' /\ Conserved'
  BY <1>1, <1>2, <1>3 DEF ActiveOnce, ActiveSorted, Swept, Conserved
<1> QED BY <1>2, <1>5, <1>6, <1>7 DEF IInv, Exclusive, OwnBank, NoClash, Orderly

\* StutterKeepsIInv: a returned round stays as it is.
LEMMA StutterKeepsIInv == IInv /\ UNCHANGED vars => IInv'
<1> SUFFICES ASSUME IInv, UNCHANGED vars PROVE IInv'
  OBVIOUS
<1>1. N' = N /\ \A i : End(i)' = End(i) /\ Start(i)' = Start(i)
  BY DEF vars, N, End, Start
<1>2. \A i, j : LiveTogether(i, j)' <=> LiveTogether(i, j)
  BY <1>1 DEF LiveTogether
<1> QED BY <1>1, <1>2
        DEF vars, IInv, TypeOK, ActivePlaced, ActiveOnce, ActiveSorted, Swept, Conserved,
            Exclusive, Finished, FreeOnce, HeldOnce, OwnBank, NoClash, Placed, Bank,
            Orderly, Given

\* NextKeepsIInv: the invariant is inductive.
LEMMA NextKeepsIInv == IInv /\ [Next]_vars => IInv'
BY ExpireKeepsIInv, ReturnKeepsIInv, AssignKeepsIInv, SpillLastKeepsIInv,
   SpillCurrentKeepsIInv, StutterKeepsIInv DEF Next, Scan, Returned

LEMMA Invariance == Spec => []IInv
BY InitIInv, NextKeepsIInv, PTL DEF Spec
-----------------------------------------------------------------------------
\* TypeCorrect: the variables of the scan keep their types.
THEOREM TypeCorrect == Spec => []TypeOK
<1>1. IInv => TypeOK
  BY DEF IInv
<1> QED BY <1>1, Invariance, PTL

\* NoClashHolds: two intervals that are live together never share a
\* register in a round that spills nothing, whatever the banks.
THEOREM NoClashHolds == Spec => []NoClash
<1>1. IInv => NoClash
  BY DEF IInv
<1> QED BY <1>1, Invariance, PTL

\* OwnBankHolds: an interval gets a register of its own bank in a round
\* that spills nothing.
THEOREM OwnBankHolds == Spec => []OwnBank
<1>1. IInv => OwnBank
  BY DEF IInv
<1> QED BY <1>1, Invariance, PTL

\* VictimExistsHolds: spillAtInterval never reads the back of an empty list.
THEOREM VictimExistsHolds == Spec => []VictimExists
<1>1. IInv => VictimExists
  <2> SUFFICES ASSUME IInv, BankExhausted, activelist = << >> PROVE FALSE
    BY DEF VictimExists
  <2>1. Range(activelist) = {}
    BY DEF Range
  <2>2. Range(IntRegs) = {Head(IntRegs)} \cup Range(Tail(IntRegs))
    BY BanksAssumption, BanksFacts, TailFacts
  <2>3. Range(FpRegs) = {Head(FpRegs)} \cup Range(Tail(FpRegs))
    BY BanksAssumption, BanksFacts, TailFacts
  <2>4. regs = << >> \/ fpregs = << >>
    BY DEF BankExhausted, FreeList
  <2>5. CASE regs = << >>
    BY <2>1, <2>2, <2>5 DEF IInv, Conserved, Range
  <2>6. CASE fpregs = << >>
    BY <2>1, <2>3, <2>6 DEF IInv, Conserved, Range
  <2> QED BY <2>4, <2>5, <2>6
<1> QED BY <1>1, Invariance, PTL

\* NoNeedlessSpillHolds: the first spill of a round means that every
\* register of the bank is held by a live interval of that bank.
THEOREM NoNeedlessSpillHolds == Spec => []NoNeedlessSpill
<1>1. IInv => NoNeedlessSpill
  <2> SUFFICES ASSUME IInv, success, pc = "place", BankExhausted,
                      NEW r \in Bank(intervals[cur].fp)
               PROVE  \E i \in 1 .. cur - 1 :
                        rreg[i] = r /\ intervals[i].fp = intervals[cur].fp
                        /\ End(i) >= Start(cur)
    BY DEF NoNeedlessSpill
  <2>1. TypeOK /\ cur \in 1 .. N
    BY CurFacts DEF IInv
  <2>2. PICK i \in Range(activelist) : rreg[i] = r
    BY DEF IInv, Conserved, BankExhausted, FreeList, Bank, Range
  <2>3. i \in 1 .. N /\ i < cur
    BY <2>1, RangeOfSeq DEF IInv, ActivePlaced, TypeOK
  <2>4. End(i) >= Start(cur)
    BY DEF IInv, Swept
  <2>5. intervals[i].fp = intervals[cur].fp
    <3>1. intervals[i].fp \in BOOLEAN /\ intervals[cur].fp \in BOOLEAN
      BY <2>1, <2>3, IntervalFacts DEF Interval
    <3>2. r \in Bank(intervals[i].fp)
      BY <2>2, <2>3 DEF IInv, OwnBank, Placed
    <3> QED BY <3>1, <3>2, BanksFacts DEF Bank
  <2>6. i \in 1 .. cur - 1
    BY <2>1, <2>3
  <2> QED BY <2>2, <2>4, <2>5, <2>6
<1> QED BY <1>1, Invariance, PTL

\* SavedConsecutiveHolds: the registers a successful round hands out are
\* the first ones of their bank, so the vpush of the prologue can save them.
THEOREM SavedConsecutiveHolds == Spec => []SavedConsecutive
<1>1. IInv => SavedConsecutive
  BY DEF IInv, Orderly, RestInOrder, SavedConsecutive
<1> QED BY <1>1, Invariance, PTL

\* LatestEndSpilledHolds: what is spilled ends last of the active
\* intervals and the current one.
THEOREM LatestEndSpilledHolds == Spec => LatestEndSpilled
<1> DEFINE A == \A i \in 1 .. N : spill'[i] /\ ~spill[i]
                  => \A j \in Range(activelist) \cup {cur} : End(j) <= End(i)
<1>1. IInv /\ [Next]_vars => [A]_vars
  <2> SUFFICES ASSUME IInv, Next, NEW i \in 1 .. N, spill'[i], ~spill[i],
                      NEW j \in Range(activelist) \cup {cur}
               PROVE  End(j) <= End(i)
    OBVIOUS
  <2>1. spill \in [1 .. N -> BOOLEAN] /\ TypeOK
    BY DEF IInv, TypeOK
  <2>2. pc = "place" /\ activelist # << >> /\ (SpillLast \/ SpillCurrent)
    BY DEF Next, Scan, Returned, vars, ExpireOldInterval, ExpireReturns, AssignRegister,
           SpillLast, SpillCurrent
  <2>3. cur \in 1 .. N
    BY <2>1, <2>2, CurFacts
  <2>4. /\ LastActive \in 1 .. N
        /\ \A k \in Range(activelist) : End(k) <= End(LastActive)
    BY <2>2, LastFacts
  <2>5. \A k \in 1 .. N : End(k) \in Int
    BY <2>1, IntervalFacts
  <2>6. j \in 1 .. N
    BY <2>1, <2>3, RangeOfSeq DEF TypeOK
  <2>7. CASE SpillLast
    <3>1. i = LastActive /\ End(LastActive) > End(cur)
      BY <2>1, <2>4, <2>7 DEF SpillLast
    <3> QED BY <3>1, <2>3, <2>4, <2>5, <2>6
  <2>8. CASE SpillCurrent
    <3>1. i = cur /\ End(LastActive) <= End(cur)
      BY <2>1, <2>3, <2>8 DEF SpillCurrent
    <3> QED BY <3>1, <2>3, <2>4, <2>5, <2>6
  <2> QED BY <2>2, <2>7, <2>8
<1> QED BY <1>1, Invariance, PTL DEF Spec, LatestEndSpilled
=============================================================================
