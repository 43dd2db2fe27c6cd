---------------------------- MODULE WebMergeProofs ----------------------------
(***************************************************************************)
(* Theorems about the merging loop, for every list of chains: no           *)
(* definition is lost on the way, and at the end there is one interval for *)
(* each connected component.                                               *)
(***************************************************************************)
EXTENDS WebMerge, MinMaxLemmas, TLAPS, FiniteSetTheorems, SequenceTheorems

Objects == DOMAIN chains

Interval == [start : Int, end : Int, defs : SUBSET Objects, uses : SUBSET Nat]

(***************************************************************************)
(* The inductive invariant.                                                *)
(***************************************************************************)
\* The list and its copy name objects, each at most once.
Typed ==
  /\ chains \in Seq(Chain)
  /\ intervals \in Seq(Objects) /\ IsInjective(intervals)
  /\ t \in Seq(Objects) /\ IsInjective(t)
  /\ body \in [Objects -> Interval]
  /\ i \in Nat \ {0} /\ j \in Nat \ {0} /\ i < j
  /\ change \in BOOLEAN
  /\ mpc \in {"while", "pair", "done"}
  /\ mpc = "pair" => ToSet(intervals) \subseteq ToSet(t)

\* An interval holds definitions of one register, its own among them, and
\* exactly their uses.
OneRegister(w) ==
  /\ w \in body[w].defs
  /\ \A d \in body[w].defs : chains[d].reg = chains[w].reg

OwnUses(w) == body[w].uses = UNION {chains[d].uses : d \in body[w].defs}

\* It never holds more than a component: a closed set that has one of its
\* definitions has them all.
Connected(w) ==
  \A S \in SUBSET Objects :
    Closed(S) /\ S \cap body[w].defs # {} => body[w].defs \subseteq S

\* A definition without uses stays alone.
Used(w) == body[w].defs # {w} => \A d \in body[w].defs : chains[d].uses # {}

\* Its ends are points of its definitions and all of them lie between; only
\* an interval that has absorbed nothing may end before it starts.
Points(w) == UNION {{chains[d].start, chains[d].end} : d \in body[w].defs}

Spans(w) ==
  /\ body[w].start \in Points(w) /\ body[w].end \in Points(w)
  /\ \A p \in Points(w) : \/ body[w].start <= p /\ p <= body[w].end
                          \/ body[w].end <= p /\ p <= body[w].start
  /\ body[w].defs # {w} => body[w].start <= body[w].end

Sound(w) == OneRegister(w) /\ OwnUses(w) /\ Connected(w) /\ Used(w) /\ Spans(w)

AllSound == \A w \in Objects : Sound(w)

(***************************************************************************)
(* Why nothing gets lost in an interval that has been erased.  Swept(p, q) *)
(* is the situation before pair (p, q) of the copy: what an erased         *)
(* interval behind p could still absorb is erased too, or is behind q and  *)
(* the interval at p has all the uses of the erased one and gets there     *)
(* first; an interval that is itself erased meets only erased ones.        *)
(***************************************************************************)
Erased(m) == t[m] \notin ToSet(intervals)

Swept(p, q) ==
  /\ \A m, k \in 1 .. Len(t) :
       p < m /\ m < k /\ Erased(m) /\ Together(t[m], t[k]) =>
         \/ Erased(k)
         \/ /\ q <= k
            /\ chains[t[m]].reg = chains[t[p]].reg
            /\ body[t[m]].uses \subseteq body[t[p]].uses
  /\ \A k \in 1 .. Len(t) :
       p <= Len(t) /\ q <= k /\ Erased(p) /\ Together(t[p], t[k]) => Erased(k)

Sweeping == mpc = "pair" => Swept(i, j)

(***************************************************************************)
(* A pass that has changed nothing so far has the list in its copy and has *)
(* met no pair to merge; the last pass ends so.                            *)
(***************************************************************************)
Apart(s, p, q) ==
  \A m, k \in 1 .. Len(s) :
    m < k /\ (m < p \/ (m = p /\ k < q)) => ~Together(s[m], s[k])

Unchanged ==
  /\ mpc = "pair" /\ ~change => intervals = t /\ Apart(t, i, j)
  /\ mpc = "while" /\ ~change => Apart(intervals, Len(intervals), 0)
  /\ mpc = "done" => Apart(intervals, Len(intervals), 0)

IInv == Typed /\ AllSound /\ NothingLost /\ Sweeping /\ Unchanged
-----------------------------------------------------------------------------
(***************************************************************************)
(* Erasing an element of a list.                                           *)
(***************************************************************************)

\* ErasePosition: what remains of a list without its p-th element.
LEMMA ErasePosition ==
  ASSUME NEW S, NEW s \in Seq(S), NEW p \in 1 .. Len(s)
  PROVE  /\ RemoveAt(s, p) \in Seq(S)
         /\ Len(RemoveAt(s, p)) = Len(s) - 1
         /\ \A k \in 1 .. Len(s) - 1 :
              RemoveAt(s, p)[k] = IF k < p THEN s[k] ELSE s[k + 1]
<1> DEFINE front == SubSeq(s, 1, p - 1)
           back  == SubSeq(s, p + 1, Len(s))
<1>1. Len(s) \in Nat /\ \A k \in 1 .. Len(s) : s[k] \in S
  BY LenProperties
<1>2. /\ front \in Seq(S) /\ Len(front) = p - 1
      /\ \A k \in 1 .. p - 1 : front[k] = s[k]
  <2>1. \A k \in 1 .. p - 1 : s[k] \in S
    BY <1>1
  <2>2. /\ front \in Seq(S)
        /\ Len(front) = IF 1 <= p - 1 THEN (p - 1) - 1 + 1 ELSE 0
        /\ \A k \in 1 .. (p - 1) - 1 + 1 : front[k] = s[1 + k - 1]
    BY <2>1, <1>1, SubSeqProperties
  <2> QED BY <2>2, <1>1
<1>3. /\ back \in Seq(S) /\ Len(back) = Len(s) - p
      /\ \A k \in 1 .. Len(s) - p : back[k] = s[p + k]
  <2>1. \A k \in p + 1 .. Len(s) : s[k] \in S
    BY <1>1
  <2>2. /\ back \in Seq(S)
        /\ Len(back) = IF p + 1 <= Len(s) THEN Len(s) - (p + 1) + 1 ELSE 0
        /\ \A k \in 1 .. Len(s) - (p + 1) + 1 : back[k] = s[p + 1 + k - 1]
    BY <2>1, <1>1, SubSeqProperties
  <2> QED BY <2>2, <1>1
<1>4. RemoveAt(s, p) = front \o back
  BY DEF RemoveAt
<1> HIDE DEF front, back
<1>5. /\ front \o back \in Seq(S)
      /\ Len(front \o back) = Len(front) + Len(back)
      /\ \A k \in 1 .. Len(front) + Len(back) : (front \o back)[k] =
           IF k <= Len(front) THEN front[k] ELSE back[k - Len(front)]
  BY <1>2, <1>3, ConcatProperties
<1>6. ASSUME NEW k \in 1 .. Len(s) - 1
      PROVE  (front \o back)[k] = IF k < p THEN s[k] ELSE s[k + 1]
  <2>1. CASE k < p
    BY <2>1, <1>1, <1>2, <1>3, <1>5
  <2>2. CASE ~(k < p)
    <3>1. (front \o back)[k] = back[k - (p - 1)]
      BY <2>2, <1>1, <1>2, <1>3, <1>5
    <3>2. back[k - (p - 1)] = s[p + (k - (p - 1))]
      BY <2>2, <1>1, <1>3
    <3>3. p + (k - (p - 1)) = k + 1
      BY <1>1
    <3> QED BY <2>2, <3>1, <3>2, <3>3
  <2> QED BY <2>1, <2>2
<1> QED BY <1>1, <1>2, <1>3, <1>4, <1>5, <1>6

\* RemoveFacts: erasing an interval takes it, and only it, from a list
\* that has each interval once.
LEMMA RemoveFacts ==
  ASSUME NEW S, NEW s \in Seq(S), IsInjective(s), NEW e
  PROVE  /\ RemoveFirst(s, e) \in Seq(S)
         /\ IsInjective(RemoveFirst(s, e))
         /\ ToSet(RemoveFirst(s, e)) = ToSet(s) \ {e}
<1>0. Len(s) \in Nat /\ DOMAIN s = 1 .. Len(s)
  BY LenProperties
<1>1. CASE ~ \E k \in 1 .. Len(s) : s[k] = e
  BY <1>1, <1>0 DEF RemoveFirst, ToSet
<1>2. CASE \E k \in 1 .. Len(s) : s[k] = e
  <2> DEFINE I == {k \in 1 .. Len(s) : s[k] = e}
             p == Min(I)
             r == RemoveAt(s, p)
  <2>1. p \in 1 .. Len(s) /\ s[p] = e
    <3>1. I \in SUBSET Nat /\ I # {}
      BY <1>2
    <3> HIDE DEF I
    <3>2. p \in I
      BY <3>1, MinFacts
    <3> QED BY <3>2 DEF I
  <2>2. RemoveFirst(s, e) = r
    BY <1>2 DEF RemoveFirst, SelectInSeq
  <2> HIDE DEF p, r
  <2>3. /\ r \in Seq(S) /\ Len(r) = Len(s) - 1
        /\ \A k \in 1 .. Len(s) - 1 : r[k] = IF k < p THEN s[k] ELSE s[k + 1]
    BY <2>1, ErasePosition DEF r
  <2>4. DOMAIN r = 1 .. Len(s) - 1
    BY <2>3, LenProperties
  <2>5. \A a, b \in 1 .. Len(s) : s[a] = s[b] => a = b
    BY <1>0 DEF IsInjective
  <2>6. IsInjective(r)
    <3> SUFFICES ASSUME NEW a \in 1 .. Len(s) - 1, NEW b \in 1 .. Len(s) - 1,
                        r[a] = r[b]
                 PROVE  a = b
      BY <2>4 DEF IsInjective
    <3> QED BY <2>1, <2>3, <2>5, <1>0
  <2>7. ASSUME NEW a \in 1 .. Len(s) - 1 PROVE r[a] \in ToSet(s) \ {e}
    BY <2>1, <2>3, <2>5, <1>0 DEF ToSet
  <2>8. ASSUME NEW a \in 1 .. Len(s), s[a] # e PROVE s[a] \in ToSet(r)
    <3>1. CASE a < p
      BY <3>1, <2>1, <2>3, <2>4, <1>0 DEF ToSet
    <3>2. CASE p < a
      <4>1. a - 1 \in 1 .. Len(s) - 1 /\ r[a - 1] = s[a]
        BY <3>2, <2>1, <2>3, <1>0
      <4> QED BY <4>1, <2>4 DEF ToSet
    <3> QED BY <3>1, <3>2, <2>1, <2>8, <1>0
  <2>9. ToSet(r) = ToSet(s) \ {e}
    BY <2>4, <2>7, <2>8, <1>0 DEF ToSet
  <2> QED BY <2>2, <2>3, <2>6, <2>9
<1> QED BY <1>1, <1>2
-----------------------------------------------------------------------------
(***************************************************************************)
(* Pairs of intervals.                                                     *)
(***************************************************************************)

\* ChainTypes: what the lists of the input hold.
LEMMA ChainTypes ==
  ASSUME Typed
  PROVE  /\ Len(chains) \in Nat /\ Objects = 1 .. Len(chains)
         /\ \A d \in Objects : /\ chains[d] \in Chain
                               /\ chains[d].start \in Int /\ chains[d].end \in Int
                               /\ chains[d].uses \in SUBSET Nat
         /\ \A w \in Objects : /\ body[w].start \in Int /\ body[w].end \in Int
                               /\ body[w].defs \in SUBSET Objects
                               /\ body[w].uses \in SUBSET Nat
<1>1. Len(chains) \in Nat /\ Objects = 1 .. Len(chains)
      /\ chains \in [1 .. Len(chains) -> Chain]
  BY LenProperties DEF Typed, Objects
<1>2. \A d \in Objects : chains[d] \in Chain
  BY <1>1
<1>3. \A w \in Objects : body[w] \in Interval
  BY DEF Typed
<1> QED BY <1>1, <1>2, <1>3 DEF Chain, Interval

\* ListTypes: positions of the list and of the copy lead to objects.
LEMMA ListTypes ==
  ASSUME Typed
  PROVE  /\ Len(t) \in Nat /\ DOMAIN t = 1 .. Len(t)
         /\ \A m \in 1 .. Len(t) : t[m] \in Objects
         /\ \A m, k \in 1 .. Len(t) : t[m] = t[k] => m = k
         /\ Len(intervals) \in Nat /\ DOMAIN intervals = 1 .. Len(intervals)
         /\ \A m \in 1 .. Len(intervals) : intervals[m] \in Objects
         /\ \A m, k \in 1 .. Len(intervals) : intervals[m] = intervals[k] => m = k
         /\ ToSet(intervals) \subseteq Objects
<1>1. Len(t) \in Nat /\ DOMAIN t = 1 .. Len(t) /\ t \in [1 .. Len(t) -> Objects]
  BY LenProperties DEF Typed
<1>2. /\ Len(intervals) \in Nat /\ DOMAIN intervals = 1 .. Len(intervals)
      /\ intervals \in [1 .. Len(intervals) -> Objects]
  BY LenProperties DEF Typed
<1>3. \A m, k \in 1 .. Len(t) : t[m] = t[k] => m = k
  BY <1>1 DEF Typed, IsInjective
<1>4. \A m, k \in 1 .. Len(intervals) : intervals[m] = intervals[k] => m = k
  BY <1>2 DEF Typed, IsInjective
<1>5. ToSet(intervals) \subseteq Objects
  BY <1>2 DEF ToSet
<1> QED BY <1>1, <1>2, <1>3, <1>4, <1>5

\* FirstDefinition: the register of the first definition stands for all.
LEMMA FirstDefinition ==
  ASSUME NEW D \in SUBSET Nat, NEW w \in D, NEW f,
         \A d \in D : f[d].reg = f[w].reg
  PROVE  f[Min(D)].reg = f[w].reg
<1>1. Min(D) \in D
  BY MinFacts
<1> QED BY <1>1

\* TogetherFacts: the register the code compares is the one of all
\* definitions of an interval.
LEMMA TogetherFacts ==
  ASSUME Typed, AllSound
  PROVE  \A v, w \in Objects :
           Together(v, w) <=> /\ chains[v].reg = chains[w].reg
                              /\ body[v].uses \cap body[w].uses # {}
<1>1. ASSUME NEW v \in Objects
      PROVE  chains[Min(body[v].defs)].reg = chains[v].reg
  <2>1. OneRegister(v)
    BY DEF AllSound, Sound
  <2>2. body[v].defs \in SUBSET Nat
    BY ChainTypes
  <2> QED BY <2>1, <2>2, FirstDefinition DEF OneRegister
<1> QED BY <1>1 DEF Together

\* CommonUse: two intervals that go together have a use in common, of a
\* definition in each.
LEMMA CommonUse ==
  ASSUME Typed, AllSound, NEW v \in Objects, NEW w \in Objects, Together(v, w)
  PROVE  \E d \in body[v].defs, e \in body[w].defs : Linked(d, e) /\ Linked(e, d)
<1>1. chains[v].reg = chains[w].reg /\ \E u : u \in body[v].uses /\ u \in body[w].uses
  BY TogetherFacts
<1>2. PICK u : u \in body[v].uses /\ u \in body[w].uses
  BY <1>1
<1>3. /\ OwnUses(v) /\ OwnUses(w) /\ OneRegister(v) /\ OneRegister(w)
  BY DEF AllSound, Sound
<1>4. PICK d \in body[v].defs : u \in chains[d].uses
  BY <1>2, <1>3 DEF OwnUses
<1>5. PICK e \in body[w].defs : u \in chains[e].uses
  BY <1>2, <1>3 DEF OwnUses
<1>6. chains[d].reg = chains[e].reg
  BY <1>1, <1>3 DEF OneRegister
<1> QED BY <1>4, <1>5, <1>6 DEF Linked
-----------------------------------------------------------------------------
(***************************************************************************)
(* The steps.                                                              *)
(***************************************************************************)

\* MergeFacts: what a merge changes.
LEMMA MergeFacts ==
  ASSUME Typed, Merge
  PROVE  /\ chains' = chains /\ t' = t /\ change' = TRUE
         /\ i \in 1 .. Len(t) /\ j \in 1 .. Len(t)
         /\ t[i] \in Objects /\ t[j] \in Objects /\ t[i] # t[j]
         /\ Together(t[i], t[j])
         /\ intervals' \in Seq(Objects) /\ IsInjective(intervals')
         /\ ToSet(intervals') = ToSet(intervals) \ {t[j]}
         /\ body' \in [Objects -> Interval]
         /\ body'[t[i]] = Union(t[i], t[j])
         /\ \A w \in Objects : w # t[i] => body'[w] = body[w]
<1>1. /\ chains' = chains /\ t' = t /\ change' = TRUE /\ Together(t[i], t[j])
      /\ j <= Len(t) /\ intervals' = RemoveFirst(intervals, t[j])
      /\ body' = [body EXCEPT ![t[i]] = Union(t[i], t[j])]
  BY DEF Merge
<1>2. i \in 1 .. Len(t) /\ j \in 1 .. Len(t) /\ i # j
  BY <1>1, ListTypes DEF Typed
<1>3. t[i] \in Objects /\ t[j] \in Objects /\ t[i] # t[j]
  BY <1>2, ListTypes
<1>4. /\ intervals' \in Seq(Objects) /\ IsInjective(intervals')
      /\ ToSet(intervals') = ToSet(intervals) \ {t[j]}
  BY <1>1, RemoveFacts DEF Typed
<1>5. Union(t[i], t[j]) \in Interval
  <2> DEFINE v == t[i]
             w == t[j]
  <2>1. /\ body[v].start \in Int /\ body[v].end \in Int
        /\ body[w].start \in Int /\ body[w].end \in Int
        /\ body[v].defs \in SUBSET Objects /\ body[w].defs \in SUBSET Objects
        /\ body[v].uses \in SUBSET Nat /\ body[w].uses \in SUBSET Nat
    BY <1>3, ChainTypes
  <2> HIDE DEF v, w
  <2> DEFINE ends == {body[v].start, body[v].end, body[w].start, body[w].end}
  <2>2. Min(ends) \in ends /\ Max(ends) \in ends
    BY <2>1, FourFacts
  <2>3. ends \subseteq Int
    BY <2>1
  <2> HIDE DEF ends
  <2>4. Min(ends) \in Int /\ Max(ends) \in Int
    BY <2>2, <2>3
  <2>5. Union(v, w) \in Interval
    BY <2>1, <2>4 DEF Union, Interval, ends
  <2> QED BY <2>5 DEF v, w
<1>6. /\ body' \in [Objects -> Interval]
      /\ body'[t[i]] = Union(t[i], t[j])
      /\ \A w \in Objects : w # t[i] => body'[w] = body[w]
  BY <1>1, <1>3, <1>5 DEF Typed
<1> QED BY <1>1, <1>2, <1>3, <1>4, <1>6

\* PairFacts: the pair that is compared next.
LEMMA PairFacts ==
  ASSUME Typed, mpc = "pair", NextPair
  PROVE  /\ i' \in Nat \ {0} /\ j' \in Nat \ {0} /\ i' < j'
         /\ mpc' \in {"pair", "while"}
         /\ mpc' = "pair" => \/ j < Len(t) /\ i' = i /\ j' = j + 1
                             \/ Len(t) <= j /\ i' = i + 1 /\ j' = i + 2
         /\ mpc' = "while" => Len(t) <= j /\ Len(t) <= i + 1
<1>1. i \in Nat \ {0} /\ j \in Nat \ {0} /\ i < j /\ Len(t) \in Nat
  BY ListTypes DEF Typed
<1> QED BY <1>1 DEF NextPair

LEMMA TypedInit == ASSUME Init PROVE Typed
<1>1. chains \in Seq(Chain)
  BY InputsAssumption DEF Init
<1>2. Len(chains) \in Nat /\ Objects = 1 .. Len(chains)
  BY <1>1, LenProperties DEF Objects
<1>3. intervals \in Seq(Objects) /\ IsInjective(intervals)
  <2>1. intervals = [k \in 1 .. Len(chains) |-> k]
    BY DEF Init, Identity
  <2>2. intervals \in Seq(Objects)
    BY <1>2, <2>1
  <2> QED BY <2>1, <2>2 DEF IsInjective
<1>4. t \in Seq(Objects) /\ IsInjective(t)
  BY EmptySeq DEF Init, IsInjective
<1>5. body \in [Objects -> Interval]
  <2>1. chains \in [1 .. Len(chains) -> Chain]
    BY <1>1, LenProperties
  <2>2. \A k \in Objects :
          [start |-> chains[k].start, end |-> chains[k].end,
           defs |-> {k}, uses |-> chains[k].uses] \in Interval
    BY <1>2, <2>1 DEF Chain, Interval
  <2> QED BY <2>2 DEF Init, Objects
<1> QED BY <1>1, <1>3, <1>4, <1>5 DEF Init, Typed

LEMMA TypedStep == ASSUME Typed, [Next]_vars PROVE Typed'
<1>1. CASE BeginPass
  <2>1. /\ t' = intervals /\ i' = 1 /\ j' = 2 /\ mpc' = "pair" /\ change' = FALSE
        /\ UNCHANGED <<chains, intervals, body>>
    BY <1>1 DEF BeginPass
  <2>2. ToSet(intervals') \subseteq ToSet(t')
    BY <2>1
  <2>3. t' \in Seq(Objects) /\ IsInjective(t')
    BY <2>1 DEF Typed
  <2>4. intervals' \in Seq(Objects) /\ IsInjective(intervals')
    BY <2>1 DEF Typed
  <2>5. i' \in Nat \ {0} /\ j' \in Nat \ {0} /\ i' < j'
    BY <2>1
  <2>6. Objects' = Objects /\ Interval' = Interval
    BY <2>1 DEF Objects, Interval
  <2> QED BY <2>1, <2>2, <2>3, <2>4, <2>5, <2>6 DEF Typed
<1>2. CASE EndLoop
  BY <1>2 DEF EndLoop, Typed, Objects, Interval
<1>3. CASE Merge
  <2>1. mpc = "pair" /\ NextPair
    BY <1>3 DEF Merge
  <2>2. Objects' = Objects /\ Interval' = Interval
    BY <1>3, MergeFacts DEF Objects, Interval
  <2>3. ToSet(intervals') \subseteq ToSet(t')
    BY <1>3, <2>1, MergeFacts DEF Typed
  <2>4. chains' \in Seq(Chain) /\ t' \in Seq(Objects) /\ IsInjective(t')
    BY <1>3, MergeFacts DEF Typed
  <2>5. /\ intervals' \in Seq(Objects) /\ IsInjective(intervals')
        /\ body' \in [Objects -> Interval] /\ change' \in BOOLEAN
    BY <1>3, MergeFacts
  <2> QED BY <2>1, <2>2, <2>3, <2>4, <2>5, PairFacts DEF Typed
<1>4. CASE Skip
  <2>1. mpc = "pair" /\ NextPair /\ UNCHANGED <<chains, intervals, body, t, change>>
    BY <1>4 DEF Skip
  <2> QED BY <2>1, PairFacts DEF Typed, Objects, Interval
<1>5. CASE UNCHANGED vars
  BY <1>5 DEF vars, Typed, Objects, Interval
<1> QED BY <1>1, <1>2, <1>3, <1>4, <1>5 DEF Next, Step, Ended
-----------------------------------------------------------------------------
\* ClosedKept: the links between definitions never change.
LEMMA ClosedKept ==
  ASSUME chains' = chains, NEW S
  PROVE  Closed(S)' <=> Closed(S)
BY DEF Closed, Linked

\* SoundKept: an object that is not written stays sound.
LEMMA SoundKept ==
  ASSUME chains' = chains, NEW w \in Objects, body'[w] = body[w], Sound(w)
  PROVE  Sound(w)'
<1>1. OneRegister(w)' /\ OwnUses(w)' /\ Used(w)'
  BY DEF Sound, OneRegister, OwnUses, Used
<1>2. Connected(w)'
  <2>1. \A S : Closed(S)' <=> Closed(S)
    BY ClosedKept
  <2> QED BY <2>1 DEF Sound, Connected, Objects
<1>3. Points(w)' = Points(w)
  BY DEF Points
<1>4. Spans(w)'
  BY <1>3 DEF Sound, Spans
<1> QED BY <1>1, <1>2, <1>4 DEF Sound

\* AbsorberSound: so does the interval that absorbs another one.
LEMMA AbsorberSound ==
  ASSUME Typed, AllSound, Merge, NEW v, NEW w, v = t[i], w = t[j]
  PROVE  Sound(v)'
<1> DEFINE B == body[v].defs \cup body[w].defs
<1>0. /\ chains' = chains /\ v \in Objects /\ w \in Objects /\ v # w
      /\ Together(v, w) /\ body'[v] = Union(v, w) 
  BY MergeFacts
<1>1. /\ body'[v].defs = B /\ body'[v].uses = body[v].uses \cup body[w].uses
      /\ body'[v].start = Min({body[v].start, body[v].end, body[w].start, body[w].end})
      /\ body'[v].end = Max({body[v].start, body[v].end, body[w].start, body[w].end})
  BY <1>0 DEF Union
<1>2. Sound(v) /\ Sound(w)
  BY <1>0 DEF AllSound
<1>3. /\ chains[v].reg = chains[w].reg /\ body[v].uses \cap body[w].uses # {}
  BY <1>0, TogetherFacts
<1>4. v \in B /\ w \in B /\ v # w
  BY <1>0, <1>2 DEF Sound, OneRegister
<1> USE <1>0
<1>5. ASSUME NEW d \in B PROVE chains[d].reg = chains[v].reg
  BY <1>2, <1>3 DEF Sound, OneRegister
<1>6. body'[v].uses = UNION {chains[d].uses : d \in B}
  BY <1>1, <1>2 DEF Sound, OwnUses
<1>7. ASSUME NEW S \in SUBSET Objects, Closed(S), S \cap B # {} PROVE B \subseteq S
  <2>1. PICK d \in body[v].defs, e \in body[w].defs : Linked(d, e) /\ Linked(e, d)
    BY CommonUse
  <2>2. d \in Objects /\ e \in Objects
    BY ChainTypes
  <2>3. d \in S <=> e \in S
    BY <1>7, <2>1, <2>2 DEF Closed, Objects
  <2>4. S \cap body[v].defs # {} => body[v].defs \subseteq S
    BY <1>2, <1>7 DEF Sound, Connected
  <2>5. S \cap body[w].defs # {} => body[w].defs \subseteq S
    BY <1>2, <1>7 DEF Sound, Connected
  <2> QED BY <1>7, <2>1, <2>3, <2>4, <2>5
<1>8. ASSUME NEW d \in B PROVE chains[d].uses # {}
  <2>1. body[v].defs = {v} => body[v].uses = chains[v].uses
    BY <1>2 DEF Sound, OwnUses
  <2>2. body[w].defs = {w} => body[w].uses = chains[w].uses
    BY <1>2 DEF Sound, OwnUses
  <2>3. \A x \in body[v].defs : chains[x].uses # {}
    BY <1>2, <1>3, <2>1 DEF Sound, Used
  <2>4. \A x \in body[w].defs : chains[x].uses # {}
    BY <1>2, <1>3, <2>2 DEF Sound, Used
  <2> QED BY <2>3, <2>4
<1>9. Points(v)' = Points(v) \cup Points(w)
  BY <1>1 DEF Points
<1>10. Spans(v)'
  <2> DEFINE a == body[v].start
             b == body[v].end
             c == body[w].start
             d == body[w].end
             lo == Min({a, b, c, d})
             hi == Max({a, b, c, d})
  <2>1. a \in Int /\ b \in Int /\ c \in Int /\ d \in Int
    BY ChainTypes
  <2>2. /\ lo \in {a, b, c, d} /\ hi \in {a, b, c, d}
        /\ lo <= a /\ lo <= b /\ lo <= c /\ lo <= d
        /\ a <= hi /\ b <= hi /\ c <= hi /\ d <= hi
    <3> HIDE DEF a, b, c, d
    <3>1. /\ lo \in {a, b, c, d} /\ hi \in {a, b, c, d}
          /\ \A p \in {a, b, c, d} : lo <= p /\ p <= hi
      BY <2>1, FourFacts
    <3> QED BY <3>1
  <2>3. body'[v].start = lo /\ body'[v].end = hi
    BY <1>1
  <2>4. {a, b, c, d} \subseteq Points(v) \cup Points(w)
    BY <1>2 DEF Sound, Spans
  <2>5. Points(v) \subseteq Int /\ Points(w) \subseteq Int
    BY ChainTypes DEF Points
  <2>6. ASSUME NEW p \in Points(v) PROVE (a <= p /\ p <= b) \/ (b <= p /\ p <= a)
    BY <1>2 DEF Sound, Spans
  <2>7. ASSUME NEW p \in Points(w) PROVE (c <= p /\ p <= d) \/ (d <= p /\ p <= c)
    BY <1>2 DEF Sound, Spans
  <2> HIDE DEF a, b, c, d
  <2>8. lo \in Int /\ hi \in Int /\ lo <= hi
    BY <2>1, <2>2
  <2> HIDE DEF lo, hi
  <2>9. ASSUME NEW p \in Points(v) \cup Points(w) PROVE lo <= p /\ p <= hi
    <3>1. p \in Int
      BY <2>5
    <3>2. CASE p \in Points(v)
      BY <3>1, <3>2, <2>1, <2>2, <2>6, <2>8
    <3>3. CASE p \in Points(w)
      BY <3>1, <3>3, <2>1, <2>2, <2>7, <2>8
    <3> QED BY <3>2, <3>3
  <2>10. lo \in Points(v)' /\ hi \in Points(v)'
    BY <2>2, <2>4, <1>9
  <2>11. \A p \in Points(v)' : lo <= p /\ p <= hi
    BY <2>9, <1>9
  <2> QED BY <2>3, <2>8, <2>10, <2>11 DEF Spans
<1>11. OneRegister(v)' /\ OwnUses(v)' /\ Used(v)'
  BY <1>1, <1>4, <1>5, <1>6, <1>8 DEF OneRegister, OwnUses, Used
<1>12. Connected(v)'
  <2>1. \A S : Closed(S)' <=> Closed(S)
    BY ClosedKept
  <2> QED BY <2>1, <1>1, <1>7 DEF Connected, Objects
<1> QED BY <1>10, <1>11, <1>12 DEF Sound

LEMMA AllSoundStep ==
  ASSUME Typed, AllSound, [Next]_vars
  PROVE  AllSound'
<1>1. CASE Merge
  <2>1. chains' = chains /\ Objects' = Objects
    BY <1>1, MergeFacts DEF Objects
  <2>2. ASSUME NEW w \in Objects PROVE Sound(w)'
    <3>1. CASE w = t[i]
      <4>1. PICK x : x = t[j]
        OBVIOUS
      <4> QED BY <3>1, <4>1, <1>1, AbsorberSound
    <3>2. CASE w # t[i]
      <4>1. body'[w] = body[w]
        BY <3>2, <1>1, MergeFacts
      <4> QED BY <4>1, <2>1, SoundKept DEF AllSound
    <3> QED BY <3>1, <3>2
  <2> QED BY <2>1, <2>2 DEF AllSound
<1>2. CASE ~Merge
  <2>1. chains' = chains /\ body' = body
    BY <1>2 DEF Next, Step, BeginPass, EndLoop, Skip, Ended, vars
  <2>2. ASSUME NEW w \in Objects PROVE Sound(w)'
    BY <2>1, SoundKept DEF AllSound
  <2> QED BY <2>1, <2>2 DEF AllSound, Objects
<1> QED BY <1>1, <1>2

\* Lost: how NothingLost reads for single definitions.
LEMMA Lost ==
  ASSUME Typed
  PROVE  NothingLost <=>
           \A d \in Objects : \E w \in ToSet(intervals) : d \in body[w].defs
<1>1. \A w \in ToSet(intervals) : body[w].defs \subseteq Objects
  BY ListTypes, ChainTypes
<1> QED BY <1>1 DEF NothingLost, Listed, Objects

\* LostNext: the same in the next state.
LEMMA LostNext ==
  ASSUME Typed'
  PROVE  NothingLost' <=>
           \A d \in Objects' : \E w \in ToSet(intervals') : d \in body'[w].defs
<1>1. intervals' \in [1 .. Len(intervals') -> Objects']
      /\ DOMAIN intervals' = 1 .. Len(intervals')
  BY LenProperties DEF Typed
<1>2. \A w \in ToSet(intervals') : w \in Objects'
  BY <1>1 DEF ToSet
<1>3. \A w \in Objects' : body'[w] \in Interval'
  BY DEF Typed
<1>4. \A w \in ToSet(intervals') : body'[w].defs \subseteq Objects'
  BY <1>2, <1>3 DEF Interval
<1> QED BY <1>4 DEF NothingLost, Listed, Objects

LEMMA NothingLostStep ==
  ASSUME Typed, AllSound, NothingLost, Sweeping, [Next]_vars
  PROVE  NothingLost'
<1>1. CASE Merge
  <2>0. Typed'
    BY TypedStep
  <2>1. /\ chains' = chains /\ Objects' = Objects
        /\ i \in 1 .. Len(t) /\ j \in 1 .. Len(t) /\ Together(t[i], t[j])
        /\ t[i] \in Objects /\ t[j] \in Objects /\ t[i] # t[j]
        /\ ToSet(intervals') = ToSet(intervals) \ {t[j]}
        /\ body'[t[i]].defs = body[t[i]].defs \cup body[t[j]].defs
        /\ \A w \in Objects : w # t[i] => body'[w] = body[w]
    BY <1>1, MergeFacts DEF Objects, Union
  <2>2. ASSUME NEW d \in Objects
        PROVE  \E w \in ToSet(intervals') : d \in body'[w].defs
    <3>1. PICK w \in ToSet(intervals) : d \in body[w].defs
      BY Lost
    <3>2. w \in Objects
      BY <3>1, ListTypes
    <3>3. d \in body'[w].defs
      BY <3>1, <3>2, <2>1
    <3>4. CASE w # t[j]
      BY <3>1, <3>3, <3>4, <2>1
    <3>5. CASE w = t[j]
      <4>1. t[i] \in ToSet(intervals)
        <5>1. ASSUME Erased(i) PROVE Erased(j)
          <6>1. Swept(i, j)
            BY <1>1 DEF Merge, Sweeping
          <6>2. i <= Len(t) /\ j <= j
            BY <2>1, ListTypes
          <6> QED BY <6>1, <6>2, <5>1, <2>1 DEF Swept
        <5> QED BY <5>1, <3>1, <3>5 DEF Erased
      <4>2. t[i] \in ToSet(intervals') /\ d \in body'[t[i]].defs
        BY <4>1, <3>1, <3>5, <2>1
      <4> QED BY <4>2
    <3> QED BY <3>4, <3>5
  <2> QED BY <2>0, <2>1, <2>2, LostNext
<1>2. CASE ~Merge
  BY <1>2 DEF Next, Step, BeginPass, EndLoop, Skip, Ended, vars, NothingLost, Listed
<1> QED BY <1>1, <1>2
-----------------------------------------------------------------------------
\* TogetherKept: an interval that is not written goes with the same others.
LEMMA TogetherKept ==
  ASSUME chains' = chains, NEW v, NEW w, body'[v] = body[v], body'[w] = body[w]
  PROVE  Together(v, w)' <=> Together(v, w)
BY DEF Together

\* MergeSweeps: a merge leaves behind it what Swept says of the next column.
LEMMA MergeSweeps ==
  ASSUME Typed, AllSound, Merge, Swept(i, j),
         NEW p, NEW q, p = i, q = j
  PROVE  Swept(p, q + 1)'
<1> DEFINE L == Len(t)
<1>1. /\ chains' = chains /\ t' = t /\ L \in Nat
      /\ p \in 1 .. L /\ q \in 1 .. L /\ p < q
      /\ Together(t[p], t[q])
      /\ ToSet(intervals') = ToSet(intervals) \ {t[q]}
      /\ body'[t[p]].uses = body[t[p]].uses \cup body[t[q]].uses
      /\ \A m \in 1 .. L : t[m] \in Objects
      /\ \A m \in 1 .. L : m # p => body'[t[m]] = body[t[m]]
      /\ \A m \in 1 .. L : t[m] = t[q] => m = q
  <2>1. /\ L \in Nat /\ \A m \in 1 .. L : t[m] \in Objects
        /\ \A m, k \in 1 .. L : t[m] = t[k] => m = k
    BY ListTypes
  <2>2. /\ chains' = chains /\ t' = t /\ p \in 1 .. L /\ q \in 1 .. L
        /\ Together(t[p], t[q]) /\ ToSet(intervals') = ToSet(intervals) \ {t[q]}
    BY MergeFacts
  <2>3. \A w \in Objects : w # t[p] => body'[w] = body[w]
    BY MergeFacts
  <2>4. body'[t[p]] = Union(t[p], t[q])
    BY MergeFacts
  <2>5. body'[t[p]].uses = body[t[p]].uses \cup body[t[q]].uses
    BY <2>4 DEF Union
  <2>6. p < q
    BY DEF Typed
  <2> QED BY <2>1, <2>2, <2>3, <2>5, <2>6
<1>2. \A m \in 1 .. L : Erased(m)' <=> Erased(m) \/ m = q
  BY <1>1 DEF Erased
<1>3. \A m, k \in 1 .. L : m # p /\ k # p =>
        (Together(t[m], t[k])' <=> Together(t[m], t[k]))
  BY <1>1, TogetherKept
<1>4. \A m, k \in 1 .. L :
        Together(t[m], t[k]) <=> /\ chains[t[m]].reg = chains[t[k]].reg
                                 /\ body[t[m]].uses \cap body[t[k]].uses # {}
  BY <1>1, TogetherFacts
<1>5. /\ chains[Min(body'[t[p]].defs)].reg = chains[t[p]].reg
       /\ \A k \in 1 .. L : chains[Min(body[t[k]].defs)].reg = chains[t[k]].reg
  <2>1. ASSUME NEW w \in Objects PROVE chains[Min(body[w].defs)].reg = chains[w].reg
    <3>1. OneRegister(w) /\ body[w].defs \in SUBSET Nat
      BY ChainTypes DEF AllSound, Sound
    <3> QED BY <3>1, FirstDefinition DEF OneRegister
  <2>2. PICK v, w : v = t[p] /\ w = t[q]
    OBVIOUS
  <2>3. OneRegister(v)'
    BY <2>2, AbsorberSound DEF Sound
  <2>4. body'[v].defs = body[v].defs \cup body[w].defs
    BY <2>2, MergeFacts DEF Union
  <2>5. body'[v].defs \in SUBSET Nat
    BY <2>2, <2>4, <1>1, ChainTypes
  <2>6. chains[Min(body'[v].defs)].reg = chains[v].reg
    BY <1>1, <2>3, <2>5, FirstDefinition DEF OneRegister
  <2> QED BY <2>1, <2>2, <2>6, <1>1
<1>6. ASSUME NEW m \in 1 .. L, NEW k \in 1 .. L, p < m, m < k,
             Erased(m)', Together(t[m], t[k])'
      PROVE  \/ Erased(k)'
             \/ /\ q + 1 <= k
                /\ chains[t[m]].reg = chains[t[p]].reg
                /\ body'[t[m]].uses \subseteq body'[t[p]].uses
  <2>1. m # p /\ k # p /\ body'[t[m]] = body[t[m]] /\ Together(t[m], t[k])
    BY <1>1, <1>3, <1>6
  <2>2. CASE k = q
    BY <2>2, <1>2
  <2>3. CASE k # q /\ Erased(m)
    <3>1. \/ Erased(k)
          \/ /\ q <= k
             /\ chains[t[m]].reg = chains[t[p]].reg
             /\ body[t[m]].uses \subseteq body[t[p]].uses
      BY <2>1, <2>3, <1>6 DEF Swept
    <3> QED BY <3>1, <2>1, <2>3, <1>1, <1>2
  <2>4. CASE k # q /\ m = q
    BY <2>4, <2>1, <1>1, <1>4, <1>6
  <2> QED BY <2>2, <2>3, <2>4, <1>2, <1>6
<1>7. ASSUME NEW k \in 1 .. L, q + 1 <= k, Erased(p)', Together(t[p], t[k])'
      PROVE  Erased(k)'
  <2>1. Erased(p) /\ Erased(q)
    <3>1. Erased(p)
      BY <1>1, <1>2, <1>7
    <3> QED BY <3>1, <1>1 DEF Swept
  <2>2. p < k /\ k # p /\ q < k
    BY <1>1, <1>7
  <2>3. chains[t[p]].reg = chains[t[k]].reg
        /\ (body[t[p]].uses \cup body[t[q]].uses) \cap body[t[k]].uses # {}
    <3>1. /\ chains[Min(body'[t[p]].defs)].reg = chains[t[p]].reg
          /\ chains[Min(body[t[k]].defs)].reg = chains[t[k]].reg
      BY <1>1, <1>5
    <3> QED BY <3>1, <2>2, <1>1, <1>7 DEF Together
  <2>4. CASE Together(t[p], t[k])
    BY <2>1, <2>2, <2>4, <1>1, <1>2 DEF Swept
  <2>5. CASE ~Together(t[p], t[k])
    <3>1. Together(t[q], t[k])
      BY <2>3, <2>5, <1>1, <1>4
    <3>2. ~ (body[t[q]].uses \subseteq body[t[p]].uses)
      BY <2>3, <2>5, <1>1, <1>4
    <3>3. Erased(k)
      BY <3>1, <3>2, <2>1, <2>2, <1>1 DEF Swept
    <3> QED BY <3>3, <1>2
  <2> QED BY <2>4, <2>5
<1> QED BY <1>1, <1>6, <1>7 DEF Swept

\* SkipSweeps: so does a pair that is not merged, or the end of a row.
LEMMA SkipSweeps ==
  ASSUME Typed, AllSound, Skip, Swept(i, j),
         NEW p, NEW q, p = i, q = j
  PROVE  Swept(p, q + 1)'
<1>1. /\ UNCHANGED <<chains, intervals, body, t>>
      /\ q <= Len(t) => ~Together(t[p], t[q])
      /\ p \in Nat \ {0} /\ q \in Nat \ {0} /\ p < q
  BY DEF Skip, Typed
<1>2. Len(t) \in Nat /\ \A m \in 1 .. Len(t) : t[m] \in Objects
  BY ListTypes
<1>3. ASSUME NEW m \in 1 .. Len(t), NEW k \in 1 .. Len(t), p < m, m < k,
             Erased(m), Together(t[m], t[k])
      PROVE  \/ Erased(k)
             \/ /\ q + 1 <= k
                /\ chains[t[m]].reg = chains[t[p]].reg
                /\ body[t[m]].uses \subseteq body[t[p]].uses
  <2>1. \/ Erased(k)
        \/ /\ q <= k
           /\ chains[t[m]].reg = chains[t[p]].reg
           /\ body[t[m]].uses \subseteq body[t[p]].uses
    BY <1>3 DEF Swept
  <2>2. ASSUME k = q, chains[t[m]].reg = chains[t[p]].reg,
               body[t[m]].uses \subseteq body[t[p]].uses
        PROVE  FALSE
    <3>1. p \in 1 .. Len(t)
      BY <1>1, <1>2, <1>3
    <3>2. /\ chains[t[m]].reg = chains[t[k]].reg
          /\ body[t[m]].uses \cap body[t[k]].uses # {}
      BY <1>2, <1>3, TogetherFacts
    <3>3. Together(t[p], t[k])
      BY <1>2, <2>2, <3>1, <3>2, TogetherFacts
    <3> QED BY <2>2, <3>3, <1>1, <1>2
  <2> QED BY <1>1, <1>2, <2>1, <2>2
<1>4. ASSUME NEW k \in 1 .. Len(t), p <= Len(t), q + 1 <= k, Erased(p),
             Together(t[p], t[k])
      PROVE  Erased(k)
  BY <1>1, <1>2, <1>4 DEF Swept
<1>5. \A m, k \in 1 .. Len(t) : /\ Erased(m)' <=> Erased(m)
                                /\ Together(t[m], t[k])' <=> Together(t[m], t[k])
  BY <1>1 DEF Erased, Together
<1> QED BY <1>1, <1>3, <1>4, <1>5 DEF Swept, Erased, Together

LEMMA SweepingStep ==
  ASSUME Typed, AllSound, Sweeping, [Next]_vars
  PROVE  Sweeping'
<1>1. CASE BeginPass
  <2>1. t' = intervals /\ intervals' = intervals /\ i' = 1 /\ j' = 2
    BY <1>1 DEF BeginPass
  <2>2. Len(t') \in Nat /\ DOMAIN intervals = 1 .. Len(t')
    BY <2>1, ListTypes
  <2>3. \A m \in 1 .. Len(t') : ~ Erased(m)'
    BY <2>1, <2>2 DEF Erased, ToSet
  <2> QED BY <2>1, <2>2, <2>3 DEF Sweeping, Swept
<1>2. CASE Merge \/ Skip
  <2> SUFFICES ASSUME mpc' = "pair" PROVE Swept(i, j)'
    BY DEF Sweeping
  <2>1. mpc = "pair" /\ NextPair /\ t' = t /\ chains' = chains
    BY <1>2 DEF Merge, Skip
  <2>2. Swept(i, j)
    BY <2>1 DEF Sweeping
  <2>3. PICK p, q : p = i /\ q = j
    OBVIOUS
  <2>4. Swept(p, q + 1)'
    BY <1>2, <2>2, <2>3, MergeSweeps, SkipSweeps
  <2>5. p \in Nat \ {0} /\ q \in Nat \ {0} /\ Len(t) \in Nat /\ p < q
    BY <2>3, ListTypes DEF Typed
  <2>6. CASE i' = i /\ j' = j + 1
    BY <2>3, <2>4, <2>6 DEF Swept
  <2>7. CASE Len(t) <= j /\ i' = i + 1 /\ j' = i + 2
    <3>1. i' = p + 1 /\ j' = p + 2 /\ Len(t') <= q /\ Len(t') \in Nat
      BY <2>1, <2>3, <2>5, <2>7
    <3>2. ASSUME NEW m \in 1 .. Len(t'), NEW k \in 1 .. Len(t'), p < m, m < k,
                 Erased(m)', Together(t[m], t[k])'
          PROVE  Erased(k)'
      <4>1. ~ (q + 1 <= k)
        BY <3>1, <2>5
      <4> QED BY <4>1, <3>2, <2>4 DEF Swept
    <3> QED BY <3>1, <3>2, <2>5 DEF Swept
  <2> QED BY <2>1, <2>6, <2>7, PairFacts
<1>3. CASE EndLoop \/ UNCHANGED vars
  BY <1>3 DEF EndLoop, vars, Sweeping, Swept, Erased, Together
<1> QED BY <1>1, <1>2, <1>3 DEF Next, Step, Ended
-----------------------------------------------------------------------------
LEMMA UnchangedStep ==
  ASSUME Typed, Unchanged, [Next]_vars
  PROVE  Unchanged'
<1>1. CASE BeginPass
  <2>1. Apart(t, i, j)'
    BY <1>1 DEF BeginPass, Apart
  <2> QED BY <2>1, <1>1 DEF BeginPass, Unchanged
<1>2. CASE Merge
  BY <1>2, MergeFacts, PairFacts DEF Merge, Unchanged
<1>3. CASE Skip
  <2>1. /\ mpc = "pair" /\ NextPair /\ UNCHANGED <<chains, intervals, body, t, change>>
        /\ j <= Len(t) => ~Together(t[i], t[j])
    BY <1>3 DEF Skip
  <2>2. mpc' \in {"pair", "while"}
    BY <2>1, PairFacts
  <2> SUFFICES ASSUME ~change
               PROVE  /\ mpc' = "pair" => Apart(t, i, j)'
                      /\ mpc' = "while" => Apart(intervals, Len(intervals), 0)'
    BY <2>1, <2>2 DEF Unchanged
  <2>3. intervals = t /\ Apart(t, i, j)
    BY <2>1 DEF Unchanged
  <2>4. Len(t) \in Nat /\ i \in Nat \ {0} /\ j \in Nat \ {0} /\ i < j
    BY ListTypes DEF Typed
  <2>5. ASSUME NEW m \in 1 .. Len(t), NEW k \in 1 .. Len(t), m < k,
               m < i \/ (m = i /\ k <= j)
        PROVE  ~Together(t[m], t[k])'
    <3>1. ~Together(t[m], t[k])
      BY <2>1, <2>3, <2>4, <2>5 DEF Apart
    <3> QED BY <3>1, <2>1 DEF Together
  <2>6. ASSUME mpc' = "pair" PROVE Apart(t, i, j)'
    <3>1. \/ i' = i /\ j' = j + 1
          \/ Len(t) <= j /\ i' = i + 1 /\ j' = i + 2
      BY <2>1, <2>6, PairFacts
    <3>2. ASSUME NEW m \in 1 .. Len(t), NEW k \in 1 .. Len(t), m < k,
                 m < i' \/ (m = i' /\ k < j')
          PROVE  ~Together(t[m], t[k])'
      <4>1. m < i \/ (m = i /\ k <= j)
        BY <3>1, <3>2, <2>4
      <4> QED BY <4>1, <3>2, <2>5
    <3> QED BY <3>2, <2>1 DEF Apart
  <2>7. ASSUME mpc' = "while" PROVE Apart(intervals, Len(intervals), 0)'
    <3>1. Len(t) <= j /\ Len(t) <= i + 1
      BY <2>1, <2>7, PairFacts
    <3>2. ASSUME NEW m \in 1 .. Len(t), NEW k \in 1 .. Len(t), m < k
          PROVE  ~Together(t[m], t[k])'
      <4>1. m < i \/ (m = i /\ k <= j)
        BY <3>1, <3>2, <2>4
      <4> QED BY <4>1, <3>2, <2>5
    <3> QED BY <3>2, <2>1, <2>3 DEF Apart
  <2> QED BY <2>6, <2>7
<1>4. CASE EndLoop \/ UNCHANGED vars
  BY <1>4 DEF EndLoop, vars, Unchanged, Apart, Together
<1> QED BY <1>1, <1>2, <1>3, <1>4 DEF Next, Step, Ended

LEMMA IInvInit == ASSUME Init PROVE IInv
<1>1. Typed
  BY TypedInit
<1>2. Objects = 1 .. Len(chains) /\ Len(chains) \in Nat
  BY <1>1, ChainTypes
<1>3. ASSUME NEW w \in Objects
      PROVE  /\ body[w].start = chains[w].start /\ body[w].end = chains[w].end
             /\ body[w].defs = {w} /\ body[w].uses = chains[w].uses
  BY DEF Init, Objects
<1>4. ASSUME NEW w \in Objects PROVE Sound(w)
  <2>1. OneRegister(w) /\ OwnUses(w) /\ Connected(w) /\ Used(w)
    BY <1>3 DEF OneRegister, OwnUses, Connected, Used
  <2>2. Points(w) = {chains[w].start, chains[w].end}
    BY <1>3 DEF Points
  <2>3. chains[w].start \in Int /\ chains[w].end \in Int
    BY <1>1, ChainTypes
  <2>4. Spans(w)
    BY <1>3, <2>2, <2>3 DEF Spans
  <2> QED BY <2>1, <2>4 DEF Sound
<1>5. NothingLost
  <2>1. intervals = [k \in 1 .. Len(chains) |-> k]
    BY DEF Init, Identity
  <2>2. ASSUME NEW d \in Objects
        PROVE  \E w \in ToSet(intervals) : d \in body[w].defs
    <3>1. d \in ToSet(intervals)
      BY <2>1, <1>2 DEF ToSet
    <3> QED BY <3>1, <1>3
  <2> QED BY <1>1, <2>2, Lost
<1>6. Sweeping /\ Unchanged
  BY DEF Init, Sweeping, Unchanged
<1> QED BY <1>1, <1>4, <1>5, <1>6 DEF IInv, AllSound

LEMMA IInvStep == ASSUME IInv, [Next]_vars PROVE IInv'
BY TypedStep, AllSoundStep, NothingLostStep, SweepingStep, UnchangedStep DEF IInv

THEOREM Invariance == Spec => []IInv
BY IInvInit, IInvStep, PTL DEF Spec

(***************************************************************************)
(* NothingNeverLost: whatever the order in which a pass meets the          *)
(* intervals, at every moment of the loop (src/src/LinearScan.cpp:130-161) *)
(* each definition of the function is in an interval of the list.          *)
(***************************************************************************)
THEOREM NothingNeverLost == Spec => []NothingLost
<1>1. IInv => NothingLost
  BY DEF IInv
<1> QED BY <1>1, Invariance, PTL
-----------------------------------------------------------------------------
(***************************************************************************)
(* The end of the loop.                                                    *)
(***************************************************************************)

\* LastApart: two intervals left in the list do not go together.
LEMMA LastApart ==
  ASSUME IInv, mpc = "done", NEW v \in ToSet(intervals), NEW w \in ToSet(intervals),
         v # w
  PROVE  ~ (/\ chains[v].reg = chains[w].reg
            /\ body[v].uses \cap body[w].uses # {})
<1>1. Typed /\ AllSound /\ Apart(intervals, Len(intervals), 0)
  BY DEF IInv, Unchanged
<1>2. /\ Len(intervals) \in Nat /\ DOMAIN intervals = 1 .. Len(intervals)
      /\ \A m \in 1 .. Len(intervals) : intervals[m] \in Objects
  BY <1>1, ListTypes
<1>3. ASSUME NEW m \in 1 .. Len(intervals), NEW k \in 1 .. Len(intervals), m < k
      PROVE  ~ (/\ chains[intervals[m]].reg = chains[intervals[k]].reg
                /\ body[intervals[m]].uses \cap body[intervals[k]].uses # {})
  <2>1. m < Len(intervals)
    BY <1>2, <1>3
  <2>2. ~Together(intervals[m], intervals[k])
    BY <1>1, <1>3, <2>1 DEF Apart
  <2> QED BY <2>2, <1>1, <1>2, TogetherFacts
<1>4. PICK m \in 1 .. Len(intervals), k \in 1 .. Len(intervals) :
        v = intervals[m] /\ w = intervals[k]
  BY <1>2 DEF ToSet
<1> QED BY <1>2, <1>3, <1>4

\* LastDistinct: they have no definition in common.
LEMMA LastDistinct ==
  ASSUME IInv, mpc = "done", NEW v \in ToSet(intervals), NEW w \in ToSet(intervals),
         NEW d \in body[v].defs, d \in body[w].defs
  PROVE  v = w
<1>1. v \in Objects /\ w \in Objects /\ Sound(v) /\ Sound(w)
  BY ListTypes DEF IInv, AllSound
<1>2. chains[v].reg = chains[w].reg
  BY <1>1 DEF Sound, OneRegister
<1>3. CASE chains[d].uses = {}
  BY <1>1, <1>3 DEF Sound, Used
<1>4. CASE chains[d].uses # {}
  <2>1. body[v].uses \cap body[w].uses # {}
    BY <1>1, <1>4 DEF Sound, OwnUses
  <2> QED BY <1>2, <2>1, LastApart
<1> QED BY <1>3, <1>4

\* LastClosed: the definitions of an interval that is left are a component.
LEMMA LastClosed ==
  ASSUME IInv, mpc = "done", NEW w \in ToSet(intervals), NEW d \in body[w].defs
  PROVE  Component(d) = body[w].defs
<1>1. /\ Typed /\ w \in Objects /\ Sound(w) /\ body[w].defs \in SUBSET Objects
  BY ListTypes, ChainTypes DEF IInv, AllSound
<1>2. Closed(body[w].defs)
  <2> SUFFICES ASSUME NEW a \in body[w].defs, NEW e \in Objects, Linked(a, e), a # e
               PROVE  e \in body[w].defs
    BY DEF Closed, Objects
  <2>1. chains[a].reg = chains[e].reg /\ chains[a].uses \cap chains[e].uses # {}
    BY DEF Linked
  <2>2. PICK v \in ToSet(intervals) : e \in body[v].defs
    BY <1>1, Lost DEF IInv
  <2>3. v \in Objects /\ Sound(v)
    BY <1>1, ListTypes DEF IInv, AllSound
  <2>4. chains[v].reg = chains[w].reg
    BY <1>1, <2>1, <2>2, <2>3 DEF Sound, OneRegister
  <2>5. body[v].uses \cap body[w].uses # {}
    BY <1>1, <2>1, <2>2, <2>3 DEF Sound, OwnUses
  <2>6. v = w
    BY <2>4, <2>5, LastApart
  <2> QED BY <2>2, <2>6
<1>3. Component(d) \subseteq body[w].defs
  BY <1>1, <1>2 DEF Component, Objects
<1>4. ASSUME NEW e \in body[w].defs PROVE e \in Component(d)
  <2>1. ASSUME NEW S \in SUBSET Objects, d \in S, Closed(S) PROVE e \in S
    BY <1>1, <2>1 DEF Sound, Connected
  <2> QED BY <1>1, <2>1 DEF Component, Objects
<1> QED BY <1>3, <1>4

(***************************************************************************)
(* MergedIntoComponents: the list the allocator gets has one interval for  *)
(* each connected component of definitions, with exactly its definitions   *)
(* and uses and its first and last point, for every function               *)
(* (src/src/LinearScan.cpp:128-162).                                       *)
(***************************************************************************)
THEOREM MergedIntoComponents == Spec => []ComponentsMerged
<1>1. ASSUME IInv, mpc = "done"
      PROVE  /\ {b.defs : b \in Listed} = Components
             /\ Len(intervals) = Cardinality(Components)
             /\ \A b \in Listed : b.uses = UNION {chains[d].uses : d \in b.defs}
             /\ \A b \in Listed : Cardinality(b.defs) > 1 =>
                  LET points == UNION {{chains[d].start, chains[d].end} : d \in b.defs}
                  IN  b.start = Min(points) /\ b.end = Max(points)
  <2> DEFINE f == [m \in 1 .. Len(intervals) |-> body[intervals[m]].defs]
  <2>1. /\ Typed /\ AllSound /\ Len(intervals) \in Nat
        /\ DOMAIN intervals = 1 .. Len(intervals)
        /\ \A m, k \in 1 .. Len(intervals) : intervals[m] = intervals[k] => m = k
        /\ \A w \in ToSet(intervals) : w \in Objects /\ Sound(w) /\ w \in body[w].defs
    BY <1>1, ListTypes DEF IInv, AllSound, Sound, OneRegister
  <2>2. ASSUME NEW w \in ToSet(intervals) PROVE body[w].defs \in Components
    BY <1>1, <2>1, LastClosed DEF Components, Objects
  <2>3. ASSUME NEW d \in Objects
        PROVE  \E w \in ToSet(intervals) : Component(d) = body[w].defs
    <3>1. PICK w \in ToSet(intervals) : d \in body[w].defs
      BY <1>1, <2>1, Lost DEF IInv
    <3> QED BY <3>1, <1>1, LastClosed
  <2>4. {b.defs : b \in Listed} = Components
    BY <2>2, <2>3 DEF Listed, Components, Objects
  <2>5. f \in [1 .. Len(intervals) -> Components]
    BY <2>1, <2>2 DEF ToSet
  <2>6. ASSUME NEW m \in 1 .. Len(intervals), NEW k \in 1 .. Len(intervals),
               f[m] = f[k]
        PROVE  m = k
    <3>1. intervals[m] \in ToSet(intervals) /\ intervals[k] \in ToSet(intervals)
      BY <2>1 DEF ToSet
    <3>2. intervals[m] = intervals[k]
      BY <1>1, <2>1, <2>6, <3>1, LastDistinct
    <3> QED BY <2>1, <3>2
  <2>7. ASSUME NEW C \in Components PROVE \E m \in 1 .. Len(intervals) : f[m] = C
    <3>1. PICK d \in Objects : C = Component(d)
      BY DEF Components, Objects
    <3>2. PICK w \in ToSet(intervals) : Component(d) = body[w].defs
      BY <2>3
    <3> QED BY <2>1, <3>1, <3>2 DEF ToSet
  <2>8. f \in Bijection(1 .. Len(intervals), Components)
    <3>1. f \in Injection(1 .. Len(intervals), Components)
      BY <2>5, <2>6 DEF Injection, IsInjective
    <3>2. f \in Surjection(1 .. Len(intervals), Components)
      BY <2>5, <2>7 DEF Surjection
    <3> QED BY <3>1, <3>2 DEF Bijection
  <2>9. Len(intervals) = Cardinality(Components)
    BY <2>1, <2>8, FS_CountingElements DEF ExistsBijection
  <2>10. \A b \in Listed : b.uses = UNION {chains[d].uses : d \in b.defs}
    BY <2>1 DEF Listed, Sound, OwnUses
  <2>11. ASSUME NEW w \in ToSet(intervals), Cardinality(body[w].defs) > 1
         PROVE  body[w].start = Min(Points(w)) /\ body[w].end = Max(Points(w))
    <3>1. body[w].defs # {w}
      BY <2>11, FS_Singleton, SMTT(30)
    <3>2. /\ body[w].start \in Points(w) /\ body[w].end \in Points(w)
          /\ \A p \in Points(w) : \/ body[w].start <= p /\ p <= body[w].end
                                  \/ body[w].end <= p /\ p <= body[w].start
          /\ body[w].start <= body[w].end
      BY <2>1, <3>1 DEF Sound, Spans
    <3>3. Points(w) \in SUBSET Int
      BY <2>1, ChainTypes DEF Points
    <3>4. \A p \in Points(w) : body[w].start <= p /\ p <= body[w].end
      BY <3>2, <3>3
    <3> QED BY <3>2, <3>3, <3>4, ExtremesAre
  <2>12. ASSUME NEW b \in Listed, Cardinality(b.defs) > 1
         PROVE  LET points == UNION {{chains[d].start, chains[d].end} : d \in b.defs}
                IN  b.start = Min(points) /\ b.end = Max(points)
    <3>1. PICK w \in ToSet(intervals) : b = body[w]
      BY DEF Listed
    <3> QED BY <3>1, <2>11, <2>12 DEF Points
  <2> QED BY <2>4, <2>9, <2>10, <2>12
<1>2. IInv => ComponentsMerged
  BY <1>1 DEF ComponentsMerged
<1> QED BY <1>2, Invariance, PTL
=============================================================================
