---------------------------- MODULE MinMaxLemmas ----------------------------
(***************************************************************************)
(* Lemmas about least and greatest numbers that the proofs share: the      *)
(* first and the last position with a property, and the Min and Max the    *)
(* models use for std::min and std::max over more than two numbers.        *)
(***************************************************************************)
EXTENDS Integers, FiniteSetsExt, WellFoundedInduction, TLAPS

\* NatMinimum: a set of positions has a first one.
LEMMA NatMinimum ==
  ASSUME NEW S \in SUBSET Nat, S # {}
  PROVE  \E m \in S : \A k \in S : m <= k
<1>1. PICK m \in S : \A k \in S : ~ (<<k, m>> \in OpToRel(<, Nat))
  BY NatLessThanWellFounded, WFMin
<1>2. ASSUME NEW k \in S PROVE m <= k
  <2>1. <<k, m>> \notin OpToRel(<, Nat)
    BY <1>1
  <2>2. ~ (k < m)
    BY <2>1 DEF OpToRel
  <2> QED BY <2>2
<1> QED BY <1>2

\* NatMaximum: a bounded one has a last one.
LEMMA NatMaximum ==
  ASSUME NEW S \in SUBSET Nat, S # {}, NEW n \in Nat, \A k \in S : k <= n
  PROVE  \E m \in S : \A k \in S : k <= m
<1> DEFINE Left == {n - k : k \in S}
<1>1. Left \in SUBSET Nat /\ Left # {}
  <2>1. \A k \in S : n - k \in Nat
    OBVIOUS
  <2>2. Left \subseteq Nat
    BY <2>1
  <2> QED BY <2>2
<1>2. PICK l \in Left : \A x \in Left : l <= x
  BY <1>1, NatMinimum
<1>3. PICK m \in S : l = n - m
  BY <1>2
<1>4. ASSUME NEW k \in S PROVE k <= m
  <2>1. l <= n - k
    BY <1>2
  <2> QED BY <2>1, <1>3
<1> QED BY <1>4

\* MinFacts: Min of a set of positions is its first one.
LEMMA MinFacts ==
  ASSUME NEW S \in SUBSET Nat, S # {}
  PROVE  Min(S) \in S /\ \A k \in S : Min(S) <= k
<1>1. PICK m \in S : \A k \in S : m <= k
  BY NatMinimum
<1> QED BY <1>1 DEF Min

\* FourFacts: the ends of a merged interval are the least and the greatest
\* of the four ends it is made from.
LEMMA FourFacts ==
  ASSUME NEW a \in Int, NEW b \in Int, NEW c \in Int, NEW d \in Int
  PROVE  /\ Min({a, b, c, d}) \in {a, b, c, d}
         /\ Max({a, b, c, d}) \in {a, b, c, d}
         /\ \A p \in {a, b, c, d} : Min({a, b, c, d}) <= p /\ p <= Max({a, b, c, d})
<1>1. \E x \in {a, b, c, d} : \A y \in {a, b, c, d} : x <= y
  OBVIOUS
<1>2. \E x \in {a, b, c, d} : \A y \in {a, b, c, d} : x >= y
  OBVIOUS
<1> QED BY <1>1, <1>2 DEF Min, Max

\* ExtremesAre: an element that bounds a set of numbers is its Min or Max.
LEMMA ExtremesAre ==
  ASSUME NEW S \in SUBSET Int, NEW a \in S
  PROVE  /\ (\A p \in S : a <= p) => Min(S) = a
         /\ (\A p \in S : p <= a) => Max(S) = a
<1>1. ASSUME \A p \in S : a <= p PROVE Min(S) = a
  <2>1. Min(S) \in S /\ \A p \in S : Min(S) <= p
    BY <1>1 DEF Min
  <2>2. Min(S) \in Int /\ a \in Int /\ Min(S) <= a /\ a <= Min(S)
    BY <1>1, <2>1
  <2> QED BY <2>2
<1>2. ASSUME \A p \in S : p <= a PROVE Max(S) = a
  <2>1. Max(S) \in S /\ \A p \in S : Max(S) >= p
    BY <1>2 DEF Max
  <2>2. Max(S) \in Int /\ a \in Int /\ Max(S) >= a /\ Max(S) <= a
    BY <1>2, <2>1
  <2> QED BY <2>2
<1> QED BY <1>1, <1>2
=============================================================================
