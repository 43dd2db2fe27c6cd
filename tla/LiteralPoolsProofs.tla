------------------------- MODULE LiteralPoolsProofs -------------------------
(***************************************************************************)
(* Whatever the sizes of the functions, the globals and the three limits   *)
(* are: no branch over a pool of literals leads to another pool, and every *)
(* load finds its word, in the next pool.                                  *)
(***************************************************************************)
EXTENDS LiteralPools, MinMaxLemmas, TLAPS, FiniteSetTheorems, SequenceTheorems

-----------------------------------------------------------------------------
(* The inductive invariant *)

\* The labels behind pools, among the labels of the text.
IsMark(l) == \E m \in Nat : l = BlockLabel(m) \/ l = FunctionLabel(m)

\* Such a label was made with a number that its counter has passed: the next
\* one is new.
Passed(l) == \A m \in Nat : /\ l = BlockLabel(m) => m < label
                            /\ l = FunctionLabel(m) => m < n

NumbersPassed == \A d \in defined : Passed(d.label)

MarksUnique ==
  \A d, e \in defined : IsMark(d.label) /\ d.label = e.label => d.at = e.at

MarkBehind ==
  \A p \in pools : IsMark(p.over) /\ \E d \in defined : d.label = p.over /\ d.at = p.to

CountersOK == n \in Nat /\ label \in Nat

IInv == CountersOK /\ NumbersPassed /\ MarksUnique /\ MarkBehind

-----------------------------------------------------------------------------
(* Where the words are *)

\* The loads R and the constants L that are still to be placed, the labels
\* and the pools are among the first `at` words.
Places(R, L, at) ==
  /\ at \in Nat /\ L \subseteq 0 .. at - 1
  /\ \A r \in R : r.at \in 0 .. at - 1
  /\ \A d \in defined : d.at \in 0 .. at
  /\ \A p \in pools : p.from \in 1 .. at /\ p.to \in p.from .. at

\* The label of a global's address in the pool number m.
IsAddress(l, m) == \E k \in DOMAIN unit.globals : l = AddressLabel(unit.globals[k], m)

\* The word of the load is in the next pool.
Awaits(r, L) == (r.to = ConstantAt(r.at) /\ r.at \in L) \/ IsAddress(r.to, n)

\* A load of a constant or, with the number of a pool, of an address.
LoadsKnown(R) ==
  \A r \in R : r.to = ConstantAt(r.at) \/ \E m \in 0 .. n : IsAddress(r.to, m)

\* A load waits for the next pool or has its word.
LoadsAnswered(R, L) ==
  \A r \in R : Awaits(r, L) \/ \E d \in Found(r) : d.at > r.at

\* The words there are: no constant that is still to be placed, and no
\* address of the next pool.
WordsKnown(L, at) ==
  \A d \in defined : \/ IsMark(d.label)
                     \/ \E p \in (0 .. at - 1) \ L : d.label = ConstantAt(p)
                     \/ \E m \in 0 .. n - 1 : IsAddress(d.label, m)

\* No pool has come since the load.
NextPoolNear(R, L) ==
  \A r \in R : Awaits(r, L) => \A p \in pools : p.from <= r.at

\* No label comes twice.
WordsUnique == \A d, e \in defined : d.label = e.label => d = e

\* A load is before its word, and no pool is between them.
WordsNear(R) ==
  \A r \in R : \A d \in Found(r) :
     d.at > r.at /\ ~ \E p \in pools : r.at < p.from /\ p.to <= d.at

\* The first `at` words of the text.
Text(R, L, at) ==
  /\ Places(R, L, at) /\ LoadsKnown(R) /\ LoadsAnswered(R, L) /\ WordsKnown(L, at)
  /\ NamesApart(unit.globals) => NextPoolNear(R, L) /\ WordsUnique /\ WordsNear(R)

\* Where the printing stands.
Progress ==
  /\ pc \in {"function", "block"} =>
       fn \in 1 .. Len(unit.functions) /\ block \in 0 .. Len(Function.blocks)
  /\ pc = "block" => block # 0 /\ inst \in 0 .. Current.size

\* Every load has its word behind it.
AllAnswered == \A r \in refs : \E d \in Found(r) : d.at > r.at

\* The inductive invariant behind TypeOK and AddressesFound.
TextInv ==
  /\ IInv /\ TypeOK /\ Progress /\ Text(refs, literals, pos)
  /\ pc = "done" => AllAnswered


-----------------------------------------------------------------------------
(* Labels *)

\* A label behind a pool has letters of its own.
LEMMA MarkLetters ==
  ASSUME NEW l, IsMark(l)
  PROVE  l[1] = ".B" \/ l[1] = ".F"
<1>1. PICK m \in Nat : l = BlockLabel(m) \/ l = FunctionLabel(m)
  BY DEF IsMark
<1>2. BlockLabel(m)[1] = ".B" /\ FunctionLabel(m)[1] = ".F"
  BY DEF BlockLabel, FunctionLabel
<1>. QED
  BY <1>1, <1>2

\* The words of a pool have names of another kind than the labels behind it.
LEMMA WordsAreNoMarks ==
  ASSUME NEW L, NEW at
  PROVE  \A d \in Constants(L, at) \cup GlobalEnd(at) : ~IsMark(d.label)
<1>1. ASSUME NEW d \in Constants(L, at) PROVE d.label[1] = "constant"
  <2>1. PICK p \in L : d = Label(ConstantAt(p), at + Cardinality({q \in L : q < p}))
    BY <1>1 DEF Constants
  <2>2. d.label = ConstantAt(p)
    BY <2>1 DEF Label
  <2>3. ConstantAt(p)[1] = "constant"
    BY DEF ConstantAt
  <2>. QED
    BY <2>2, <2>3
<1>2. ASSUME NEW d \in GlobalEnd(at) PROVE d.label[1] = "addr"
  <2>1. PICK i \in DOMAIN unit.globals :
          d = Label(AddressLabel(unit.globals[i], n), at + i - 1)
    BY <1>2 DEF GlobalEnd
  <2>2. d.label = AddressLabel(unit.globals[i], n)
    BY <2>1 DEF Label
  <2>3. AddressLabel(unit.globals[i], n)[1] = "addr"
    BY DEF AddressLabel
  <2>. QED
    BY <2>2, <2>3
<1>. QED
  BY <1>1, <1>2, MarkLetters

\* Two labels behind pools are the same only if they are of the same counter
\* and number.
LEMMA MarksDiffer ==
  ASSUME NEW m \in Nat, NEW k \in Nat
  PROVE  /\ BlockLabel(m) # FunctionLabel(k)
         /\ BlockLabel(m) = BlockLabel(k) => m = k
         /\ FunctionLabel(m) = FunctionLabel(k) => m = k
<1>1. \A i \in Nat : /\ BlockLabel(i)[1] = ".B" /\ BlockLabel(i)[3][1] = i
                     /\ FunctionLabel(i)[1] = ".F" /\ FunctionLabel(i)[3][1] = i
  BY DEF BlockLabel, FunctionLabel
<1>. QED
  BY <1>1

\* A pool with a new label behind it, whose counter goes on, keeps the
\* invariant.
LEMMA PoolKeeps ==
  ASSUME NEW L, NEW at, NEW mark,
         IInv, Pool(mark, mark, L, at), IsMark(mark),
         \A d \in defined : d.label # mark,
         label' \in Nat, label' >= label,
         \A m \in Nat : /\ mark = BlockLabel(m) => m < label'
                        /\ mark = FunctionLabel(m) => m < n'
  PROVE  IInv'
<1>. DEFINE words == Constants(L, at + 1) \cup GlobalEnd(at + 1 + Cardinality(L))
            end == at + 1 + Cardinality(L) + Len(unit.globals)
            behind == Label(mark, end)
<1>1. /\ defined' = (defined \cup words) \cup {behind}
      /\ pools' = pools \cup {[over |-> mark, from |-> at + 1, to |-> end]}
      /\ n' = n + 1
  BY DEF Pool, NextNumber
<1>2. \A d \in words : ~IsMark(d.label)
  BY WordsAreNoMarks
<1>3. behind.label = mark /\ behind.at = end
  BY DEF Label
<1>4. CountersOK'
  BY <1>1 DEF IInv, CountersOK
<1>. HIDE DEF words, end, behind
<1>5. NumbersPassed'
  <2>. SUFFICES ASSUME NEW d \in defined', NEW m \in Nat
                PROVE  /\ d.label = BlockLabel(m) => m < label'
                       /\ d.label = FunctionLabel(m) => m < n'
    BY DEF NumbersPassed, Passed
  <2>1. CASE d \in defined
    BY <2>1, <1>1 DEF IInv, NumbersPassed, Passed, CountersOK
  <2>2. CASE d \in words
    BY <2>2, <1>2 DEF IsMark
  <2>3. CASE d = behind
    BY <2>3, <1>3
  <2>. QED
    BY <2>1, <2>2, <2>3, <1>1
<1>6. MarksUnique'
  <2>. SUFFICES ASSUME NEW d \in defined', NEW e \in defined',
                       IsMark(d.label), d.label = e.label
                PROVE  d.at = e.at
    BY DEF MarksUnique, IsMark
  <2>1. /\ d \in defined \/ d = behind
        /\ e \in defined \/ e = behind
    BY <1>1, <1>2
  <2>. QED
    BY <2>1, <1>3 DEF IInv, MarksUnique
<1>7. MarkBehind'
  <2>. SUFFICES ASSUME NEW p \in pools'
                PROVE  IsMark(p.over) /\ \E d \in defined' : d.label = p.over /\ d.at = p.to
    BY DEF MarkBehind, IsMark
  <2>1. CASE p \in pools
    BY <2>1, <1>1 DEF IInv, MarkBehind
  <2>2. CASE p = [over |-> mark, from |-> at + 1, to |-> end]
    BY <2>2, <1>1, <1>3
  <2>. QED
    BY <2>1, <2>2, <1>1
<1>. QED
  BY <1>4, <1>5, <1>6, <1>7 DEF IInv

\* The pool of a function or of the unit.
LEMMA FunctionPoolKeeps ==
  ASSUME NEW L, NEW at, IInv, FunctionPool(L, at), label' = label
  PROVE  IInv'
<1>. DEFINE mark == FunctionLabel(n)
<1>1. n \in Nat /\ label \in Nat
  BY DEF IInv, CountersOK
<1>2. NextNumber - 1 = n
  BY <1>1 DEF NextNumber
<1>3. Pool(mark, mark, L, at) /\ n' = n + 1
  BY <1>2 DEF FunctionPool, Pool, NextNumber
<1>4. IsMark(mark)
  BY <1>1 DEF IsMark
<1>5. \A d \in defined : d.label # mark
  BY <1>1 DEF IInv, NumbersPassed, Passed
<1>6. \A m \in Nat : mark # BlockLabel(m) /\ (mark = FunctionLabel(m) => m < n')
  BY <1>1, <1>3, MarksDiffer
<1>. QED
  BY <1>1, <1>3, <1>4, <1>5, <1>6, PoolKeeps

\* A step without a pool.
LEMMA QuietKeeps ==
  ASSUME IInv, UNCHANGED <<n, label, defined, pools>>
  PROVE  IInv'
  BY DEF IInv, CountersOK, NumbersPassed, Passed, MarksUnique, MarkBehind, IsMark

-----------------------------------------------------------------------------
\* Nothing is printed at first.
LEMMA InitialIInv == Init => IInv
  BY DEF Init, IInv, CountersOK, NumbersPassed, MarksUnique, MarkBehind

\* Every step keeps the invariant.
LEMMA StepIInv == IInv /\ [Next]_vars => IInv'
<1>. SUFFICES ASSUME IInv, [Next]_vars PROVE IInv'
  OBVIOUS
<1>1. n \in Nat /\ label \in Nat
  BY DEF IInv, CountersOK
<1>2. CASE BeginFunction
  BY <1>2, QuietKeeps DEF BeginFunction
<1>3. CASE BeginBlock
  BY <1>3, QuietKeeps DEF BeginBlock
<1>4. CASE PrintInstruction
  <2>. DEFINE what == Current.loads[inst']
              L == literals \cup (IF inst' \in DOMAIN Current.loads /\ what = 0 THEN {pos} ELSE {})
              mark == BlockLabel(label)
  <2>1. CASE PoolInBlock
    <3>1. Pool(mark, mark, L, pos + 1) /\ label' = label + 1 /\ n' = n + 1
      BY <1>4, <2>1 DEF PrintInstruction, Pool, NextNumber
    <3>2. IsMark(mark)
      BY <1>1 DEF IsMark
    <3>3. \A d \in defined : d.label # mark
      BY <1>1 DEF IInv, NumbersPassed, Passed
    <3>4. \A m \in Nat : mark # FunctionLabel(m) /\ (mark = BlockLabel(m) => m < label')
      BY <1>1, <3>1, MarksDiffer
    <3>. QED
      BY <1>1, <3>1, <3>2, <3>3, <3>4, PoolKeeps
  <2>2. CASE ~PoolInBlock
    BY <1>4, <2>2, QuietKeeps DEF PrintInstruction, NoPool
  <2>. QED
    BY <2>1, <2>2
<1>5. CASE EndBlock
  <2>1. \/ FunctionPool(literals, pos)
        \/ NoPool(literals, pos)
    BY <1>5 DEF EndBlock
  <2>2. label' = label
    BY <1>5 DEF EndBlock
  <2>. QED
    BY <2>1, <2>2, FunctionPoolKeeps, QuietKeeps DEF NoPool
<1>6. CASE EndFunction
  <2>1. \/ FunctionPool(literals, pos)
        \/ NoPool(literals, pos)
    BY <1>6 DEF EndFunction
  <2>2. label' = label
    BY <1>6 DEF EndFunction
  <2>. QED
    BY <2>1, <2>2, FunctionPoolKeeps, QuietKeeps DEF NoPool
<1>7. CASE Finish
  <2>. DEFINE words == GlobalEnd(pos) \cup Constants(literals, pos + Len(unit.globals))
  <2>1. defined' = defined \cup words /\ n' = n + 1 /\ UNCHANGED <<label, pools>>
    BY <1>7 DEF Finish, NextNumber
  <2>2. \A d \in words : ~IsMark(d.label)
    BY WordsAreNoMarks
  <2>. HIDE DEF words
  <2>3. NumbersPassed'
    BY <1>1, <2>1, <2>2 DEF IInv, NumbersPassed, Passed, IsMark
  <2>4. MarksUnique'
    BY <2>1, <2>2 DEF IInv, MarksUnique, IsMark
  <2>5. MarkBehind'
    BY <2>1 DEF IInv, MarkBehind, IsMark
  <2>. QED
    BY <1>1, <2>1, <2>3, <2>4, <2>5 DEF IInv, CountersOK
<1>8. CASE Finished \/ UNCHANGED vars
  BY <1>8, QuietKeeps DEF Finished, vars
<1>. QED
  BY <1>2, <1>3, <1>4, <1>5, <1>6, <1>7, <1>8 DEF Next

\* A label behind a pool is found once, at the end of its pool.
LEMMA IInvSkips == IInv => PoolsSkipped
<1>. SUFFICES ASSUME IInv, NEW p \in pools
              PROVE  {d.at : d \in {e \in defined : e.label = p.over}} = {p.to}
  BY DEF PoolsSkipped
<1>1. PICK d \in defined : d.label = p.over /\ d.at = p.to
  BY DEF IInv, MarkBehind
<1>2. IsMark(p.over)
  BY DEF IInv, MarkBehind
<1>3. \A e \in defined : e.label = p.over => e.at = p.to
  BY <1>1, <1>2 DEF IInv, MarksUnique
<1>. QED
  BY <1>1, <1>3

(***************************************************************************)
(* The branch in front of a pool of literals leads behind it.  The counter *)
(* MachineUnit::n names the labels of functions and is raised by the pools *)
(* of blocks, too, and MachineBlock::label goes on over all functions, so  *)
(* no label comes twice.                                                   *)
(***************************************************************************)
THEOREM PoolsSkippedHolds == Spec => []PoolsSkipped
<1>1. Init => IInv
  BY InitialIInv
<1>2. IInv /\ [Next]_vars => IInv'
  BY StepIInv
<1>3. IInv => PoolsSkipped
  BY IInvSkips
<1>. QED
  BY <1>1, <1>2, <1>3, PTL DEF Spec

-----------------------------------------------------------------------------
(* The digits of a number                                                  *)
(* Digits is recursive: what it says of every number is shown on the least *)
(* number for which it would be wrong.                                     *)

\* The equation of Digits, and the functions that satisfy it up to k.
Printed(f, m) == IF m < 10 THEN <<m>> ELSE Append(f[m \div 10], m % 10)
PrintsTo(f, k) ==
  /\ f \in [0 .. k -> Seq(Nat)]
  /\ \A m \in 0 .. k : f[m] = Printed(f, m)

\* The equation gives a sequence, and depends on the smaller number alone.
LEMMA PrintedFacts ==
  ASSUME NEW m \in Nat, NEW f
  PROVE  /\ (m >= 10 => f[m \div 10] \in Seq(Nat)) => Printed(f, m) \in Seq(Nat)
         /\ \A g : (m >= 10 => f[m \div 10] = g[m \div 10]) => Printed(f, m) = Printed(g, m)
<1>1. ASSUME m >= 10 => f[m \div 10] \in Seq(Nat) PROVE Printed(f, m) \in Seq(Nat)
  <2>1. CASE m < 10
    BY <2>1 DEF Printed
  <2>2. CASE m >= 10
    <3>1. m % 10 \in Nat
      OBVIOUS
    <3>2. Append(f[m \div 10], m % 10) \in Seq(Nat)
      BY <1>1, <2>2, <3>1, AppendProperties
    <3>3. ~ (m < 10)
      BY <2>2
    <3> QED BY <3>2, <3>3 DEF Printed
  <2> QED BY <2>1, <2>2
<1>2. ASSUME NEW g, m >= 10 => f[m \div 10] = g[m \div 10]
      PROVE  Printed(f, m) = Printed(g, m)
  BY <1>2 DEF Printed
<1> QED BY <1>1, <1>2

\* There is such a function for every k ...
LEMMA PrintsExist ==
  ASSUME NEW k \in Nat
  PROVE  \E f : PrintsTo(f, k)
<1> DEFINE Bad == {l \in Nat : ~ \E f : PrintsTo(f, l)}
<1>1. ASSUME Bad # {} PROVE FALSE
  <2>0. Bad \in SUBSET Nat
    OBVIOUS
  <2> HIDE DEF Bad
  <2>1. PICK b \in Bad : \A l \in Bad : b <= l
    BY <1>1, <2>0, NatMinimum
  <2>2. b \in Nat /\ ~ \E f : PrintsTo(f, b)
    BY <2>1 DEF Bad
  <2>3. \E g : \A m \in 0 .. b - 1 : g[m] \in Seq(Nat) /\ g[m] = Printed(g, m)
    <3>1. CASE b = 0
      BY <3>1
    <3>2. CASE b # 0
      <4>1. b - 1 \in Nat /\ b - 1 \notin Bad
        BY <2>1, <2>2, <3>2
      <4>2. PICK g : PrintsTo(g, b - 1)
        BY <4>1 DEF Bad
      <4> QED BY <4>2 DEF PrintsTo
    <3> QED BY <3>1, <3>2
  <2>4. PICK g : \A m \in 0 .. b - 1 : g[m] \in Seq(Nat) /\ g[m] = Printed(g, m)
    BY <2>3
  <2> DEFINE f == [m \in 0 .. b |-> IF m < b THEN g[m] ELSE Printed(g, b)]
  <2>5. ASSUME NEW m \in 0 .. b PROVE f[m] = Printed(f, m) /\ f[m] \in Seq(Nat)
    <3>1. m >= 10 => m \div 10 \in 0 .. b - 1
      BY <2>2
    <3>2. Printed(f, m) = Printed(g, m)
      BY <3>1, <2>2 DEF Printed
    <3>3. Printed(g, m) \in Seq(Nat)
      BY <3>1, <2>2, <2>4, PrintedFacts
    <3> QED BY <3>2, <3>3, <2>2, <2>4
  <2>6. PrintsTo(f, b)
    BY <2>5 DEF PrintsTo
  <2> QED BY <2>2, <2>6
<1> QED BY <1>1

\* ... and two of them agree where both are defined.
LEMMA PrintsAgree ==
  ASSUME NEW k \in Nat, NEW l \in Nat, NEW f, NEW g, PrintsTo(f, k), PrintsTo(g, l),
         NEW m \in Nat, m <= k, m <= l
  PROVE  f[m] = g[m]
<1> DEFINE Bad == {q \in 0 .. m : f[q] # g[q]}
<1>1. ASSUME Bad # {} PROVE FALSE
  <2>0. Bad \in SUBSET Nat
    OBVIOUS
  <2> HIDE DEF Bad
  <2>1. PICK b \in Bad : \A q \in Bad : b <= q
    BY <1>1, <2>0, NatMinimum
  <2>2. b \in 0 .. m /\ f[b] # g[b]
    BY <2>1 DEF Bad
  <2>3. b >= 10 => b \div 10 \in 0 .. m /\ b \div 10 < b
    BY <2>2
  <2>4. b >= 10 => f[b \div 10] = g[b \div 10]
    BY <2>1, <2>3, <2>2 DEF Bad
  <2>5. f[b] = Printed(f, b) /\ g[b] = Printed(g, b)
    BY <2>2 DEF PrintsTo
  <2> QED BY <2>2, <2>4, <2>5 DEF Printed
<1> QED BY <1>1

\* So Digits satisfies its equation.
LEMMA DigitsDefined ==
  /\ Digits \in [Nat -> Seq(Nat)]
  /\ \A m \in Nat : Digits[m] = Printed(Digits, m)
<1> DEFINE f == [m \in Nat |-> (CHOOSE g : PrintsTo(g, m))[m]]
<1>1. ASSUME NEW m \in Nat
      PROVE  /\ f[m] \in Seq(Nat) /\ f[m] = Printed(f, m)
  <2>1. \A l \in Nat : PrintsTo(CHOOSE g : PrintsTo(g, l), l)
    BY PrintsExist
  <2>2. PICK g : g = CHOOSE h : PrintsTo(h, m)
    OBVIOUS
  <2>3. PrintsTo(g, m) /\ f[m] = g[m]
    BY <2>1, <2>2
  <2>4. g[m] = Printed(g, m) /\ g[m] \in Seq(Nat)
    BY <2>3 DEF PrintsTo
  <2>5. ASSUME m >= 10 PROVE f[m \div 10] = g[m \div 10]
    <3>1. m \div 10 \in Nat /\ m \div 10 <= m
      BY <2>5
    <3>2. PICK h : h = CHOOSE e : PrintsTo(e, m \div 10)
      OBVIOUS
    <3>3. PrintsTo(h, m \div 10) /\ f[m \div 10] = h[m \div 10]
      BY <3>1, <3>2, <2>1
    <3> QED BY <3>1, <3>3, <2>3, PrintsAgree
  <2> HIDE DEF f
  <2>6. Printed(f, m) = Printed(g, m)
    BY <2>5, PrintedFacts
  <2> QED BY <2>3, <2>4, <2>6
<1>2. f = [m \in Nat |-> Printed(f, m)]
  BY <1>1
<1> HIDE DEF f
<1>4. f = [m \in Nat |-> IF m < 10 THEN <<m>> ELSE Append(f[m \div 10], m % 10)]
  BY <1>2 DEF Printed
<1>5. Digits = [m \in Nat |-> IF m < 10 THEN <<m>> ELSE Append(Digits[m \div 10], m % 10)]
  BY <1>4 DEF Digits
<1>6. \A m \in Nat : Digits[m] = Printed(Digits, m)
  BY <1>5 DEF Printed
<1> DEFINE Bad == {m \in Nat : Digits[m] \notin Seq(Nat)}
<1>7. ASSUME Bad # {} PROVE FALSE
  <2>1. Bad \in SUBSET Nat
    OBVIOUS
  <2> HIDE DEF Bad
  <2>2. PICK b \in Bad : \A m \in Bad : b <= m
    BY <1>7, <2>1, NatMinimum
  <2>3. b \in Nat /\ Digits[b] \notin Seq(Nat)
    BY <2>2 DEF Bad
  <2>4. b >= 10 => b \div 10 \in Nat /\ b \div 10 < b
    BY <2>3
  <2>5. b >= 10 => Digits[b \div 10] \in Seq(Nat)
    BY <2>2, <2>3, <2>4 DEF Bad
  <2>6. Printed(Digits, b) \in Seq(Nat)
    BY <2>3, <2>5, PrintedFacts
  <2> QED BY <1>6, <2>3, <2>6
<1> QED BY <1>5, <1>6, <1>7

\* The digits of l are those of h and then c, where l is 10 * h + c.
SplitInto(l, h, c) ==
  /\ h \in Nat /\ c \in Nat /\ l = 10 * h + c
  /\ l < 10 => /\ Len(Digits[l]) = 1 /\ Digits[l][1] = l
  /\ l >= 10 => /\ h < l
                /\ Digits[h] \in Seq(Nat) /\ Len(Digits[h]) \in Nat \ {0}
                /\ Len(Digits[l]) = Len(Digits[h]) + 1
                /\ Digits[l][Len(Digits[h]) + 1] = c
                /\ \A x \in 1 .. Len(Digits[h]) : Digits[l][x] = Digits[h][x]

\* Every number is split so.
LEMMA DigitsSplit ==
  ASSUME NEW l \in Nat
  PROVE  \E h, c : SplitInto(l, h, c)
<1>0. PICK h, c : h = l \div 10 /\ c = l % 10
  OBVIOUS
<1>1. h \in Nat /\ c \in Nat /\ l = 10 * h + c /\ (l >= 10 => h < l)
  BY <1>0
<1>2. ASSUME l < 10 PROVE Len(Digits[l]) = 1 /\ Digits[l][1] = l
  <2>1. Digits[l] = <<l>>
    BY <1>2, DigitsDefined DEF Printed
  <2> QED BY <2>1
<1>3. ASSUME l >= 10
      PROVE  /\ Digits[h] \in Seq(Nat) /\ Len(Digits[h]) \in Nat \ {0}
             /\ Len(Digits[l]) = Len(Digits[h]) + 1
             /\ Digits[l][Len(Digits[h]) + 1] = c
             /\ \A x \in 1 .. Len(Digits[h]) : Digits[l][x] = Digits[h][x]
  <2>1. ASSUME NEW q \in Nat PROVE Digits[q] \in Seq(Nat) /\ Digits[q] # << >>
    <3>1. Digits[q] \in Seq(Nat) /\ Digits[q] = Printed(Digits, q)
      BY DigitsDefined
    <3>2. CASE q < 10
      BY <3>1, <3>2 DEF Printed
    <3>3. CASE q >= 10
      <4>1. PICK g \in Nat, e \in Nat : g = q \div 10 /\ e = q % 10
        OBVIOUS
      <4>2. Digits[q] = Append(Digits[g], e)
        <5>1. ~ (q < 10)
          BY <3>3
        <5> QED BY <3>1, <4>1, <5>1 DEF Printed
      <4>3. Digits[g] \in Seq(Nat)
        BY DigitsDefined
      <4>4. Len(Append(Digits[g], e)) = Len(Digits[g]) + 1 /\ Len(Digits[g]) \in Nat
        BY <4>3, AppendProperties, LenProperties
      <4> QED BY <3>1, <4>2, <4>4, EmptySeq
    <3> QED BY <3>2, <3>3
  <2>2. Digits[l] = Append(Digits[h], c)
    <3>1. ~ (l < 10) /\ Digits[l] = Printed(Digits, l)
      BY <1>3, DigitsDefined
    <3> QED BY <3>1, <1>0 DEF Printed
  <2>3. Digits[h] \in Seq(Nat) /\ Len(Digits[h]) \in Nat \ {0}
    BY <1>1, <2>1, EmptySeq
  <2>4. /\ Len(Append(Digits[h], c)) = Len(Digits[h]) + 1
        /\ \A x \in 1 .. Len(Digits[h]) : Append(Digits[h], c)[x] = Digits[h][x]
        /\ Append(Digits[h], c)[Len(Digits[h]) + 1] = c
    BY <1>1, <2>3, AppendProperties
  <2> QED BY <2>2, <2>3, <2>4
<1> QED BY <1>1, <1>2, <1>3 DEF SplitInto

\* Two numbers are never printed alike.
LEMMA DigitsApart ==
  ASSUME NEW m \in Nat, NEW k \in Nat, Digits[m] = Digits[k]
  PROVE  m = k
<1> DEFINE Bad == {l \in Nat : \E q \in Nat : q # l /\ Digits[l] = Digits[q]}
<1>1. ASSUME Bad # {} PROVE FALSE
  <2>1. Bad \in SUBSET Nat
    OBVIOUS
  <2> HIDE DEF Bad
  <2>2. PICK b \in Bad : \A l \in Bad : b <= l
    BY <1>1, <2>1, NatMinimum
  <2>3. PICK q \in Nat : b \in Nat /\ q # b /\ Digits[b] = Digits[q]
    BY <2>2 DEF Bad
  <2>4. PICK h, c : SplitInto(b, h, c)
    BY <2>3, DigitsSplit
  <2>5. PICK g, e : SplitInto(q, g, e)
    BY <2>3, DigitsSplit
  <2>6. /\ h \in Nat /\ c \in Nat /\ b = 10 * h + c
        /\ g \in Nat /\ e \in Nat /\ q = 10 * g + e
    BY <2>4, <2>5 DEF SplitInto
  <2>7. CASE b < 10 \/ q < 10
    BY <2>3, <2>4, <2>5, <2>6, <2>7 DEF SplitInto
  <2>8. CASE b >= 10 /\ q >= 10
    <3>1. /\ h < b
          /\ Digits[h] \in Seq(Nat) /\ Len(Digits[h]) \in Nat \ {0}
          /\ Digits[g] \in Seq(Nat) /\ Len(Digits[g]) \in Nat \ {0}
          /\ Len(Digits[b]) = Len(Digits[h]) + 1 /\ Len(Digits[q]) = Len(Digits[g]) + 1
          /\ Digits[b][Len(Digits[h]) + 1] = c /\ Digits[q][Len(Digits[g]) + 1] = e
      BY <2>4, <2>5, <2>8 DEF SplitInto
    <3>2. Len(Digits[h]) = Len(Digits[g]) /\ c = e
      BY <2>3, <3>1, SMTT(30)
    <3>3. \A x \in 1 .. Len(Digits[h]) : Digits[h][x] = Digits[g][x]
      BY <2>3, <2>4, <2>5, <2>8, <3>2 DEF SplitInto
    <3>4. Digits[h] = Digits[g]
      BY <3>1, <3>2, <3>3, SeqEqual
    <3>5. h \notin Bad
      BY <2>2, <2>3, <2>6, <3>1
    <3>6. h = g
      BY <2>6, <3>4, <3>5 DEF Bad
    <3> QED BY <2>3, <2>6, <3>2, <3>6
  <2> QED BY <2>3, <2>7, <2>8
<1> QED BY <1>1

\* The names of the globals are letters and digits.
LEMMA NamesFacts ==
  ASSUME unit \in Units
  PROVE  /\ Len(unit.globals) \in Nat /\ DOMAIN unit.globals = 1 .. Len(unit.globals)
         /\ \A k \in DOMAIN unit.globals : unit.globals[k][2] \in Seq(Nat)
<1>1. unit.globals \in Seq(Name)
  BY UnitsAssumption
<1>2. /\ Len(unit.globals) \in Nat /\ DOMAIN unit.globals = 1 .. Len(unit.globals)
      /\ \A k \in DOMAIN unit.globals : unit.globals[k] \in Name
  BY <1>1, LenProperties
<1>3. \A x \in Name : x[2] \in Seq(0 .. 9)
  BY DEF Name
<1>4. \A x \in Seq(0 .. 9) : x \in Seq(Nat)
  BY SeqMonotonic
<1> QED BY <1>2, <1>3, <1>4

\* When no global is called like another one followed by digits, the label
\* addr_<name><number> says which global and which number it is made from.
LEMMA AddressApart ==
  ASSUME unit \in Units, NamesApart(unit.globals),
         NEW k \in DOMAIN unit.globals, NEW l \in DOMAIN unit.globals,
         NEW m \in Nat, NEW q \in Nat,
         AddressLabel(unit.globals[k], m) = AddressLabel(unit.globals[l], q)
  PROVE  k = l /\ m = q
<1> DEFINE G == unit.globals
<1>1. G[k][1] = G[l][1] /\ G[k][2] \o Digits[m] = G[l][2] \o Digits[q]
  BY DEF AddressLabel
<1>2. \A x \in DOMAIN G : G[x][2] \in Seq(Nat) /\ Len(G[x][2]) \in Nat
  BY NamesFacts, LenProperties
<1>3. \A x \in Nat : Digits[x] \in Seq(Nat) /\ Len(Digits[x]) \in Nat
  BY DigitsDefined, LenProperties
<1> HIDE DEF G
<1>4. ASSUME NEW x \in DOMAIN G, NEW y \in DOMAIN G, NEW v \in Nat, NEW w \in Nat,
             G[x][1] = G[y][1], G[x][2] \o Digits[v] = G[y][2] \o Digits[w],
             Len(G[x][2]) <= Len(G[y][2])
      PROVE  x = y
  <2> DEFINE s == G[x][2]
             r == G[y][2]
  <2>1. s \in Seq(Nat) /\ r \in Seq(Nat) /\ Len(s) \in Nat /\ Len(r) \in Nat
    BY <1>2
  <2>2. /\ \A z \in 1 .. Len(s) + Len(Digits[v]) : (s \o Digits[v])[z] =
              IF z <= Len(s) THEN s[z] ELSE Digits[v][z - Len(s)]
        /\ \A z \in 1 .. Len(r) + Len(Digits[w]) : (r \o Digits[w])[z] =
              IF z <= Len(r) THEN r[z] ELSE Digits[w][z - Len(r)]
    BY <1>3, <2>1, ConcatProperties, ZenonT(30)
  <2> HIDE DEF s, r
  <2>3. \A z \in 1 .. Len(s) : s[z] = r[z]
    <3> SUFFICES ASSUME NEW z \in 1 .. Len(s) PROVE s[z] = r[z]
      OBVIOUS
    <3>1. s \o Digits[v] = r \o Digits[w] /\ Len(s) <= Len(r)
      BY <1>4 DEF s, r
    <3>2. (s \o Digits[v])[z] = s[z]
      BY <1>3, <2>1, <2>2
    <3>3. (r \o Digits[w])[z] = r[z]
      BY <1>3, <2>1, <2>2, <3>1
    <3> QED BY <3>1, <3>2, <3>3
  <2>4. s = SubSeq(r, 1, Len(s))
    <3>1. Len(s) <= Len(r)
      BY <1>4 DEF s, r
    <3>2. \A z \in 1 .. Len(s) : r[z] \in Nat
      BY <2>1, <3>1, ElementOfSeq
    <3>3. /\ SubSeq(r, 1, Len(s)) \in Seq(Nat)
          /\ Len(SubSeq(r, 1, Len(s))) = Len(s)
          /\ \A z \in 1 .. Len(s) : SubSeq(r, 1, Len(s))[z] = r[z]
      <4>1. /\ SubSeq(r, 1, Len(s)) \in Seq(Nat)
            /\ Len(SubSeq(r, 1, Len(s))) = IF 1 <= Len(s) THEN Len(s) - 1 + 1 ELSE 0
            /\ \A z \in 1 .. Len(s) - 1 + 1 : SubSeq(r, 1, Len(s))[z] = r[1 + z - 1]
        BY <2>1, <3>2, SubSeqProperties
      <4> QED BY <4>1, <2>1
    <3> QED BY <2>1, <2>3, <3>3, SeqEqual
  <2>5. Len(s) \in 0 .. Len(G[y][2])
    BY <1>4, <2>1 DEF s, r
  <2>6. NamesApart(G)
    BY DEF G
  <2> QED BY <1>4, <2>4, <2>5, <2>6 DEF NamesApart, s, r
<1>5. k = l
  <2>1. CASE Len(G[k][2]) <= Len(G[l][2])
    BY <2>1, <1>1, <1>4 DEF G
  <2>2. CASE Len(G[l][2]) <= Len(G[k][2])
    BY <2>2, <1>1, <1>4 DEF G
  <2> QED BY <2>1, <2>2, <1>2 DEF G
<1>6. Digits[m] = Digits[q]
  <2>1. G[k][2] \o Digits[m] = G[k][2] \o Digits[q]
    BY <1>1, <1>5 DEF G
  <2>2. G[k][2] \in Seq(Nat)
    BY <1>2 DEF G
  <2> QED BY <1>3, <2>1, <2>2, ConcatSimplifications
<1> QED BY <1>5, <1>6, DigitsApart

-----------------------------------------------------------------------------
(* Text *)

\* Labels of the three kinds differ, and constants at two places.
LEMMA KindsDiffer ==
  ASSUME NEW p, NEW l, NEW m
  PROVE  /\ ~IsMark(ConstantAt(p)) /\ ~IsAddress(ConstantAt(p), m)
         /\ IsAddress(l, m) => ~IsMark(l)
         /\ \A q : ConstantAt(p) = ConstantAt(q) => p = q
<1>1. ConstantAt(p)[1] = "constant" /\ \A q : ConstantAt(q)[3][1] = q
  BY DEF ConstantAt
<1>2. ASSUME IsAddress(l, m) PROVE l[1] = "addr"
  BY <1>2 DEF IsAddress, AddressLabel
<1>3. IsAddress(ConstantAt(p), m) => ConstantAt(p)[1] = "addr"
  BY DEF IsAddress, AddressLabel
<1> QED BY <1>1, <1>2, <1>3, MarkLetters

\* The address of a global has one number, under NamesApart.
LEMMA NumbersApart ==
  ASSUME unit \in Units, NamesApart(unit.globals), NEW l,
         NEW m \in Nat, NEW q \in Nat, IsAddress(l, m), IsAddress(l, q)
  PROVE  m = q
  BY AddressApart DEF IsAddress

\* More words that are neither loads nor labels.
LEMMA TextGrows ==
  ASSUME NEW R, NEW L, NEW at, Text(R, L, at), NEW next \in Nat, next >= at
  PROVE  Text(R, L, next)
<1>1. Places(R, L, next) /\ at \in Nat
  BY DEF Text, Places
<1>2. WordsKnown(L, next)
  BY <1>1 DEF Text, WordsKnown
<1> QED BY <1>1, <1>2 DEF Text

\* One more load, of a constant or of an address with the number of the next
\* pool.
LEMMA LoadAdded ==
  ASSUME unit \in Units, n \in Nat, NEW R, NEW L, NEW at, Text(R, L, at),
         NEW r, NEW M, r.at \in Nat, r.at >= at, NEW next \in Nat, next > r.at,
         \/ r.to = ConstantAt(r.at) /\ M = L \cup {r.at}
         \/ IsAddress(r.to, n) /\ M = L
  PROVE  Text(R \cup {r}, M, next)
<1>1. /\ at \in Nat /\ L \subseteq 0 .. at - 1 /\ \A s \in R : s.at \in 0 .. at - 1
      /\ M \subseteq L \cup {r.at} /\ L \subseteq M
  BY DEF Text, Places
<1>2. Places(R \cup {r}, M, next)
  <2>1. M \subseteq 0 .. next - 1
    BY <1>1
  <2> QED BY <1>1, <2>1 DEF Text, Places
<1>3. LoadsKnown(R \cup {r})
  BY DEF Text, LoadsKnown
<1>4. Awaits(r, M) /\ \A s \in R : Awaits(s, M) => Awaits(s, L)
  BY <1>1 DEF Awaits
<1>5. \A s \in R : Awaits(s, L) => Awaits(s, M)
  BY <1>1 DEF Awaits
<1>6. LoadsAnswered(R \cup {r}, M)
  BY <1>4, <1>5 DEF Text, LoadsAnswered
<1>7. WordsKnown(M, next)
  <2>1. \A p \in (0 .. at - 1) \ L : p \in (0 .. next - 1) \ M
    BY <1>1
  <2> QED BY <2>1 DEF Text, WordsKnown
<1>8. ASSUME NamesApart(unit.globals)
      PROVE  NextPoolNear(R \cup {r}, M) /\ WordsUnique /\ WordsNear(R \cup {r})
  <2>1. NextPoolNear(R, L) /\ WordsUnique /\ WordsNear(R)
    BY <1>8 DEF Text
  <2>2. \A p \in pools : p.from <= r.at
    BY <1>1 DEF Text, Places
  <2>3. NextPoolNear(R \cup {r}, M)
    BY <1>4, <2>1, <2>2 DEF NextPoolNear
  <2>4. ASSUME NEW d \in defined, d.label = r.to PROVE FALSE
    <3>1. \/ IsMark(d.label)
          \/ \E p \in (0 .. at - 1) \ L : d.label = ConstantAt(p)
          \/ \E m \in 0 .. n - 1 : IsAddress(d.label, m)
      BY DEF Text, WordsKnown
    <3>2. CASE r.to = ConstantAt(r.at)
      BY <1>1, <2>4, <3>1, <3>2, KindsDiffer
    <3>3. CASE IsAddress(r.to, n)
      <4>1. PICK m \in 0 .. n - 1 : IsAddress(d.label, m)
        BY <2>4, <3>1, <3>3, KindsDiffer
      <4>2. m \in Nat /\ m # n
        BY <4>1
      <4> QED BY <1>8, <2>4, <3>3, <4>1, <4>2, NumbersApart
    <3> QED BY <3>2, <3>3
  <2>5. WordsNear(R \cup {r})
    BY <2>1, <2>4 DEF WordsNear, Found
  <2> QED BY <2>1, <2>3, <2>5
<1> QED BY <1>2, <1>3, <1>6, <1>7, <1>8 DEF Text

\* The constants of a pool take one word each, in the order of their loads.
LEMMA ConstantPlaces ==
  ASSUME NEW at \in Nat, NEW L \in SUBSET (0 .. at - 1), NEW c \in Nat
  PROVE  /\ Cardinality(L) \in Nat
         /\ \A d \in Constants(L, c) : d.at \in c .. c + Cardinality(L) - 1
<1>1. IsFiniteSet(0 .. at - 1)
  BY FS_Interval
<1>2. IsFiniteSet(L) /\ Cardinality(L) \in Nat
  BY <1>1, FS_Subset, FS_CardinalityType
<1>3. ASSUME NEW p \in L
      PROVE  /\ Cardinality({q \in L : q < p}) \in Nat
             /\ Cardinality({q \in L : q < p}) < Cardinality(L)
  <2>1. {q \in L : q < p} \subseteq L /\ {q \in L : q < p} # L
    OBVIOUS
  <2>2. /\ IsFiniteSet({q \in L : q < p})
        /\ Cardinality({q \in L : q < p}) <= Cardinality(L)
        /\ Cardinality({q \in L : q < p}) = Cardinality(L) => {q \in L : q < p} = L
    BY <1>2, <2>1, FS_Subset
  <2>3. Cardinality({q \in L : q < p}) \in Nat
    BY <2>2, FS_CardinalityType
  <2> QED BY <1>2, <2>1, <2>2, <2>3
<1>4. ASSUME NEW d \in Constants(L, c) PROVE d.at \in c .. c + Cardinality(L) - 1
  <2>1. PICK p \in L : d = Label(ConstantAt(p), c + Cardinality({q \in L : q < p}))
    BY <1>4 DEF Constants
  <2>2. d.at = c + Cardinality({q \in L : q < p})
    BY <2>1 DEF Label
  <2> QED BY <1>2, <1>3, <2>2
<1> QED BY <1>2, <1>4

\* The addresses of a pool take the words from g on.
LEMMA AddressPlaces ==
  ASSUME unit \in Units, NEW g \in Nat
  PROVE  \A d \in GlobalEnd(g) : d.at \in g .. g + Len(unit.globals) - 1
<1>1. Len(unit.globals) \in Nat /\ DOMAIN unit.globals = 1 .. Len(unit.globals)
  BY NamesFacts
<1>2. ASSUME NEW d \in GlobalEnd(g) PROVE d.at \in g .. g + Len(unit.globals) - 1
  <2>1. PICK i \in DOMAIN unit.globals : d = Label(AddressLabel(unit.globals[i], n), g + i - 1)
    BY <1>2 DEF GlobalEnd
  <2>2. d.at = g + i - 1
    BY <2>1 DEF Label
  <2> QED BY <1>1, <2>2
<1> QED BY <1>2

\* What the labels of a pool are, and that every load that waits has one.
LEMMA PoolLabels ==
  ASSUME unit \in Units, n \in Nat, NEW L, NEW c, NEW g
  PROVE  /\ \A d \in Constants(L, c) : \E p \in L : d.label = ConstantAt(p)
         /\ \A p \in L : \E d \in Constants(L, c) : d.label = ConstantAt(p)
         /\ \A d \in GlobalEnd(g) : IsAddress(d.label, n)
         /\ \A l : IsAddress(l, n) => \E d \in GlobalEnd(g) : d.label = l
         /\ \A d, e \in Constants(L, c) : d.label = e.label => d = e
         /\ NamesApart(unit.globals) =>
              \A d, e \in GlobalEnd(g) : d.label = e.label => d = e
<1>1. \A l, x : Label(l, x).label = l
  BY DEF Label
<1>2. \A d \in Constants(L, c) : \E p \in L : d.label = ConstantAt(p)
  BY <1>1 DEF Constants
<1>3. ASSUME NEW p \in L PROVE \E d \in Constants(L, c) : d.label = ConstantAt(p)
  <2>1. Label(ConstantAt(p), c + Cardinality({q \in L : q < p})) \in Constants(L, c)
    BY DEF Constants
  <2> QED BY <1>1, <2>1
<1>4. \A d \in GlobalEnd(g) : IsAddress(d.label, n)
  BY <1>1 DEF GlobalEnd, IsAddress
<1>5. ASSUME NEW l, IsAddress(l, n) PROVE \E d \in GlobalEnd(g) : d.label = l
  <2>1. PICK k \in DOMAIN unit.globals : l = AddressLabel(unit.globals[k], n)
    BY <1>5 DEF IsAddress
  <2>2. Label(l, g + k - 1) \in GlobalEnd(g)
    BY <2>1 DEF GlobalEnd
  <2> QED BY <1>1, <2>2
<1>6. ASSUME NEW d \in Constants(L, c), NEW e \in Constants(L, c), d.label = e.label
      PROVE  d = e
  <2>1. PICK p \in L : d = Label(ConstantAt(p), c + Cardinality({q \in L : q < p}))
    BY DEF Constants
  <2>2. PICK p2 \in L : e = Label(ConstantAt(p2), c + Cardinality({q \in L : q < p2}))
    BY DEF Constants
  <2>3. ConstantAt(p) = ConstantAt(p2)
    BY <1>1, <1>6, <2>1, <2>2
  <2>4. p = p2
    BY <2>3, KindsDiffer
  <2> QED BY <2>1, <2>2, <2>4
<1>7. ASSUME NamesApart(unit.globals),
             NEW d \in GlobalEnd(g), NEW e \in GlobalEnd(g), d.label = e.label
      PROVE  d = e
  <2>1. PICK k \in DOMAIN unit.globals :
          d = Label(AddressLabel(unit.globals[k], n), g + k - 1)
    BY DEF GlobalEnd
  <2>2. PICK l \in DOMAIN unit.globals :
          e = Label(AddressLabel(unit.globals[l], n), g + l - 1)
    BY DEF GlobalEnd
  <2>3. AddressLabel(unit.globals[k], n) = AddressLabel(unit.globals[l], n)
    BY <1>1, <1>7, <2>1, <2>2
  <2>4. k = l
    BY <1>7, <2>3, AddressApart
  <2> QED BY <2>1, <2>2, <2>4
<1> QED BY <1>2, <1>3, <1>4, <1>5, <1>6, <1>7

\* A place is among more words, too.
LEMMA Wider ==
  ASSUME NEW a \in Nat, NEW b \in Nat, a <= b, NEW p \in 0 .. a - 1
  PROVE  p \in 0 .. b - 1
<1>1. p \in Int /\ 0 <= p /\ p <= a - 1
  OBVIOUS
<1> QED BY <1>1

\* A pool that takes the words from `at` on, with the constants from c and
\* the addresses from g on, and the labels behind it.
PoolOf(R, L, at, c, g, marks, new) ==
  LET end == pos' IN
  /\ unit' = unit /\ refs' = R /\ literals' = {} /\ n' = n + 1
  /\ defined' = (defined \cup Constants(L, c)) \cup GlobalEnd(g) \cup marks
  /\ pools' = pools \cup new
  /\ end \in Nat /\ c + Cardinality(L) <= end /\ g + Len(unit.globals) <= end
  /\ \A d \in marks : d.at \in 0 .. end /\ IsMark(d.label)
  /\ \A d \in marks : \A e \in defined : d.label # e.label
  /\ \A d, e \in marks : d = e
  /\ \A p \in new : p.from = at + 1 /\ p.to = end /\ at < end

\* Every load has its word then.
LEMMA PoolAnswers ==
  ASSUME unit \in Units, n \in Nat, NEW R, NEW L, NEW at, Text(R, L, at),
         NEW c \in Nat, NEW g \in Nat, c >= at, g >= at,
         NEW marks, NEW new, PoolOf(R, L, at, c, g, marks, new)
  PROVE  \A r \in R : \E d \in defined' : d.label = r.to /\ d.at > r.at
<1>1. at \in Nat /\ L \in SUBSET (0 .. at - 1) /\ \A r \in R : r.at \in 0 .. at - 1
  BY DEF Text, Places
<1>2. defined' = (defined \cup Constants(L, c)) \cup GlobalEnd(g) \cup marks
  BY DEF PoolOf
<1>3. /\ \A d \in Constants(L, c) : d.at \in c .. c + Cardinality(L) - 1
      /\ Cardinality(L) \in Nat
  BY <1>1, ConstantPlaces
<1>4. \A d \in GlobalEnd(g) : d.at \in g .. g + Len(unit.globals) - 1
  BY AddressPlaces
<1>5. ASSUME NEW r \in R PROVE \E d \in defined' : d.label = r.to /\ d.at > r.at
  <2>1. Awaits(r, L) \/ \E d \in Found(r) : d.at > r.at
    BY DEF Text, LoadsAnswered
  <2>2. CASE \E d \in Found(r) : d.at > r.at
    BY <1>2, <2>2 DEF Found
  <2>3. CASE r.to = ConstantAt(r.at) /\ r.at \in L
    <3>1. PICK d \in Constants(L, c) : d.label = ConstantAt(r.at)
      BY <2>3, PoolLabels
    <3> QED BY <1>1, <1>2, <1>3, <2>3, <3>1
  <2>4. CASE IsAddress(r.to, n)
    <3>1. PICK d \in GlobalEnd(g) : d.label = r.to
      BY <2>4, PoolLabels
    <3> QED BY <1>1, <1>2, <1>4, <3>1, NamesFacts
  <2> QED BY <2>1, <2>2, <2>3, <2>4 DEF Awaits
<1> QED BY <1>5

\* The text with the pool.
LEMMA PoolAdded ==
  ASSUME unit \in Units, n \in Nat, NEW R, NEW L, NEW at, Text(R, L, at),
         NEW c \in Nat, NEW g \in Nat, c >= at, g >= at,
         NEW marks, NEW new, PoolOf(R, L, at, c, g, marks, new)
  PROVE  Text(refs, literals, pos)' /\ AllAnswered'
<1> DEFINE words == Constants(L, c) \cup GlobalEnd(g) \cup marks
<1>1. /\ at \in Nat /\ L \in SUBSET (0 .. at - 1) /\ \A r \in R : r.at \in 0 .. at - 1
      /\ \A d \in defined : d.at \in 0 .. at
      /\ \A p \in pools : p.from \in 1 .. at /\ p.to \in p.from .. at
  BY DEF Text, Places
<1>2. /\ unit' = unit /\ refs' = R /\ literals' = {} /\ n' = n + 1
      /\ defined' = defined \cup words /\ pools' = pools \cup new
      /\ pos' \in Nat
      /\ c + Cardinality(L) <= pos' /\ g + Len(unit.globals) <= pos'
      /\ \A d \in marks : d.at \in 0 .. pos' /\ IsMark(d.label)
      /\ \A d \in marks : \A e \in defined : d.label # e.label
      /\ \A d, e \in marks : d = e
      /\ \A p \in new : p.from = at + 1 /\ p.to = pos' /\ at < pos'
  BY DEF PoolOf
<1>3. /\ \A d \in Constants(L, c) : d.at \in at .. pos' - 1
      /\ \A d \in GlobalEnd(g) : d.at \in at .. pos' - 1
      /\ at <= pos'
  <2>1. /\ \A d \in Constants(L, c) : d.at \in c .. c + Cardinality(L) - 1
        /\ Cardinality(L) \in Nat
    BY <1>1, ConstantPlaces
  <2>2. \A d \in GlobalEnd(g) : d.at \in g .. g + Len(unit.globals) - 1
    BY AddressPlaces
  <2>3. Len(unit.globals) \in Nat
    BY NamesFacts
  <2> QED BY <1>1, <1>2, <2>1, <2>2, <2>3
<1>4. /\ \A d \in Constants(L, c) : \E p \in L : d.label = ConstantAt(p)
      /\ \A d \in GlobalEnd(g) : IsAddress(d.label, n)
  BY PoolLabels
<1>5. AllAnswered'
  <2>1. \A r \in R : \E d \in defined' : d.label = r.to /\ d.at > r.at
    BY PoolAnswers
  <2> QED BY <1>2, <2>1 DEF AllAnswered, Found
<1>6. \A l, m : IsAddress(l, m)' <=> IsAddress(l, m)
  BY <1>2 DEF IsAddress
<1>7. \A l : IsMark(l)' <=> IsMark(l)
  BY DEF IsMark
<1>8. \A d \in words : \/ IsMark(d.label) \/ IsAddress(d.label, n)
                       \/ \E p \in L : d.label = ConstantAt(p)
  BY <1>2, <1>4
<1>9. \A d \in words : d.at \in 0 .. pos'
  BY <1>1, <1>2, <1>3
<1> HIDE DEF words
<1>10. Places(refs, literals, pos)'
  <2>1. pos' \in Nat /\ literals' \subseteq 0 .. pos' - 1
    BY <1>2
  <2>2. \A r \in refs' : r.at \in 0 .. pos' - 1
    BY <1>1, <1>2, <1>3
  <2>3. \A d \in defined' : d.at \in 0 .. pos'
    BY <1>1, <1>2, <1>3, <1>9
  <2>4. ASSUME NEW p \in pools' PROVE p.from \in 1 .. pos' /\ p.to \in p.from .. pos'
    <3>1. CASE p \in pools
      BY <1>1, <1>2, <1>3, <3>1
    <3>2. CASE p \in new
      BY <1>1, <1>2, <3>2
    <3> QED BY <1>2, <3>1, <3>2
  <2> QED BY <2>1, <2>2, <2>3, <2>4 DEF Places
<1>11. LoadsKnown(refs)'
  <2>1. \A m \in 0 .. n : m \in 0 .. n'
    BY <1>2
  <2> QED BY <1>2, <1>6, <2>1 DEF Text, LoadsKnown
<1>12. LoadsAnswered(refs, literals)'
  BY <1>5 DEF AllAnswered, LoadsAnswered
<1>13. WordsKnown(literals, pos)'
  <2> SUFFICES ASSUME NEW d \in defined'
               PROVE  \/ IsMark(d.label)
                      \/ \E p \in (0 .. pos' - 1) \ {} : d.label = ConstantAt(p)
                      \/ \E m \in 0 .. n' - 1 : IsAddress(d.label, m)
    BY <1>2, <1>6, <1>7 DEF WordsKnown
  <2>1. /\ \A m \in 0 .. n : m \in 0 .. n' - 1
        /\ n \in 0 .. n
        /\ \A p \in 0 .. at - 1 : p \in 0 .. pos' - 1
    <3>1. at <= pos' /\ pos' \in Nat /\ at \in Nat /\ n' = n + 1
      BY <1>1, <1>2, <1>3
    <3>2. \A m \in 0 .. n : m \in 0 .. n' - 1
      BY <3>1
    <3>3. \A p \in 0 .. at - 1 : p \in 0 .. pos' - 1
      BY <3>1, Wider
    <3> QED BY <3>2, <3>3
  <2>2. CASE d \in defined
    <3>1. \/ IsMark(d.label)
          \/ \E p \in (0 .. at - 1) \ L : d.label = ConstantAt(p)
          \/ \E m \in 0 .. n - 1 : IsAddress(d.label, m)
      BY <2>2 DEF Text, WordsKnown
    <3>2. \A m \in 0 .. n - 1 : m \in 0 .. n
      OBVIOUS
    <3> QED BY <2>1, <3>1, <3>2
  <2>3. CASE d \in words
    BY <1>1, <1>8, <2>1, <2>3
  <2> QED BY <1>2, <2>2, <2>3
<1>14. ASSUME NamesApart(unit.globals)
       PROVE  NextPoolNear(refs, literals)' /\ WordsUnique' /\ WordsNear(refs)'
  <2>1. NextPoolNear(R, L) /\ WordsUnique /\ WordsNear(R)
    BY <1>14 DEF Text
  <2>2. ASSUME NEW r \in R PROVE ~ Awaits(r, {})'
    <3>1. r.to = ConstantAt(r.at) \/ \E m \in 0 .. n : IsAddress(r.to, m)
      BY DEF Text, LoadsKnown
    <3>2. ASSUME IsAddress(r.to, n + 1) PROVE FALSE
      <4>1. PICK m \in 0 .. n : IsAddress(r.to, m)
        BY <3>1, <3>2, KindsDiffer
      <4>2. m \in Nat /\ n + 1 \in Nat /\ m # n + 1
        BY <4>1
      <4> QED BY <1>14, <3>2, <4>1, <4>2, NumbersApart
    <3> QED BY <1>2, <1>6, <3>2 DEF Awaits
  <2>3. NextPoolNear(refs, literals)'
    BY <1>2, <2>2 DEF NextPoolNear
  <2>4. ASSUME NEW d \in defined, NEW e \in words PROVE d.label # e.label
    <3>1. \/ IsMark(d.label)
          \/ \E p \in (0 .. at - 1) \ L : d.label = ConstantAt(p)
          \/ \E m \in 0 .. n - 1 : IsAddress(d.label, m)
      BY DEF Text, WordsKnown
    <3>2. CASE e \in marks
      BY <1>2, <3>2
    <3>3. CASE \E p \in L : e.label = ConstantAt(p)
      BY <3>1, <3>3, KindsDiffer
    <3>4. CASE IsAddress(e.label, n)
      <4>1. ASSUME NEW m \in 0 .. n - 1 PROVE ~ (IsAddress(e.label, m))
        <5>1. m \in Nat /\ m # n
          OBVIOUS
        <5> QED BY <1>14, <3>4, <5>1, NumbersApart
      <4> QED BY <3>1, <3>4, <4>1, KindsDiffer
    <3> QED BY <1>4, <3>2, <3>3, <3>4 DEF words
  <2>5. ASSUME NEW d \in words, NEW e \in words, d.label = e.label PROVE d = e
    <3>1. CASE d \in marks
      <4>1. IsMark(e.label)
        BY <1>2, <2>5, <3>1
      <4>2. e \in marks
        BY <1>4, <4>1, KindsDiffer DEF words
      <4> QED BY <1>2, <3>1, <4>2
    <3>2. CASE d \in Constants(L, c)
      <4>1. PICK p \in L : e.label = ConstantAt(p)
        BY <1>4, <2>5, <3>2
      <4>2. e \in Constants(L, c)
        <5>1. ~ IsMark(e.label) /\ ~ IsAddress(e.label, n)
          BY <4>1, KindsDiffer
        <5> QED BY <1>2, <1>4, <5>1 DEF words
      <4> QED BY <2>5, <3>2, <4>2, PoolLabels
    <3>3. CASE d \in GlobalEnd(g)
      <4>1. IsAddress(e.label, n)
        BY <1>4, <2>5, <3>3
      <4>2. e \in GlobalEnd(g)
        <5>1. ~ IsMark(e.label) /\ \A p : e.label # ConstantAt(p)
          BY <4>1, KindsDiffer
        <5> QED BY <1>2, <1>4, <5>1 DEF words
      <4> QED BY <1>14, <2>5, <3>3, <4>2, PoolLabels
    <3> QED BY <3>1, <3>2, <3>3 DEF words
  <2>6. WordsUnique'
    BY <1>2, <2>1, <2>4, <2>5 DEF WordsUnique
  <2>7. ASSUME NEW r \in R, NEW d \in defined', d.label = r.to
        PROVE  d.at > r.at /\ ~ \E p \in pools' : r.at < p.from /\ p.to <= d.at
    <3>1. CASE d \in defined
      <4>1. d.at > r.at /\ ~ \E p \in pools : r.at < p.from /\ p.to <= d.at
        BY <2>1, <2>7, <3>1 DEF WordsNear, Found
      <4>2. \A p \in new : ~ (p.to <= d.at)
        BY <1>1, <1>2, <3>1
      <4> QED BY <1>2, <4>1, <4>2
    <3>2. CASE d \in words
      <4>1. ~ IsMark(r.to)
        <5>1. r.to = ConstantAt(r.at) \/ \E m \in 0 .. n : IsAddress(r.to, m)
          BY DEF Text, LoadsKnown
        <5> QED BY <5>1, KindsDiffer
      <4>2. d.at \in at .. pos' - 1
        BY <1>2, <1>3, <2>7, <3>2, <4>1 DEF words
      <4>3. Awaits(r, L)
        <5>1. r.to = ConstantAt(r.at) \/ \E m \in 0 .. n : IsAddress(r.to, m)
          BY DEF Text, LoadsKnown
        <5>2. CASE \E p \in L : d.label = ConstantAt(p)
          BY <2>7, <5>1, <5>2, KindsDiffer DEF Awaits
        <5> QED BY <1>8, <2>7, <3>2, <4>1, <5>2 DEF Awaits
      <4>4. \A p \in pools : p.from <= r.at
        BY <2>1, <4>3 DEF NextPoolNear
      <4>5. \A p \in pools : ~ (r.at < p.from)
        BY <1>1, <4>4
      <4>6. \A p \in new : ~ (p.to <= d.at)
        BY <1>1, <1>2, <4>2
      <4> QED BY <1>1, <1>2, <4>2, <4>5, <4>6
    <3> QED BY <1>2, <3>1, <3>2
  <2>8. WordsNear(refs)'
    BY <1>2, <2>7 DEF WordsNear, Found
  <2> QED BY <2>3, <2>6, <2>8
<1>15. NamesApart(unit.globals)' <=> NamesApart(unit.globals)
  BY <1>2 DEF NamesApart
<1> QED BY <1>5, <1>10, <1>11, <1>12, <1>13, <1>14, <1>15 DEF Text

-----------------------------------------------------------------------------
(* Steps *)

\* TypeOK but for the places.
CountersTyped ==
  /\ unit \in Units
  /\ fn \in 0 .. Len(unit.functions)
  /\ block \in Nat /\ inst \in Nat /\ size \in Nat
  /\ count \in 0 .. FunctionEvery /\ total \in 0 .. UnitEvery
  /\ n \in Nat /\ label \in Nat
  /\ pc \in {"unit", "function", "block", "done"}

\* What the constants say of the function and the block that is printed.
LEMMA UnitFacts ==
  ASSUME unit \in Units
  PROVE  /\ Len(unit.globals) \in Nat /\ Len(unit.functions) \in Nat
         /\ \A k \in 1 .. Len(unit.functions) :
              LET f == unit.functions[k] IN
                /\ f.vpushes \in Nat /\ Prologue(f) \in Nat \ {0, 1}
                /\ f.frame => Prologue(f) >= 4
                /\ Len(f.blocks) \in Nat
                /\ \A l \in 1 .. Len(f.blocks) :
                     /\ f.blocks[l].size \in Nat
                     /\ \A i \in DOMAIN f.blocks[l].loads :
                          f.blocks[l].loads[i] \in 0 .. Len(unit.globals)
<1>1. Len(unit.globals) \in Nat
  BY NamesFacts
<1>2. /\ DOMAIN unit.functions = 1 .. Len(unit.functions) /\ Len(unit.functions) \in Nat
      /\ \A k \in DOMAIN unit.functions :
         LET f == unit.functions[k] IN
           /\ f.frame \in BOOLEAN /\ f.vpushes \in Nat
           /\ DOMAIN f.blocks = 1 .. Len(f.blocks) /\ Len(f.blocks) \in Nat
           /\ \A l \in DOMAIN f.blocks :
                LET B == f.blocks[l] IN
                  /\ B.size \in Nat /\ DOMAIN B.loads \subseteq 1 .. B.size
                  /\ Range(B.loads) \subseteq 0 .. Len(unit.globals)
  BY UnitsAssumption
<1>3. ASSUME NEW k \in 1 .. Len(unit.functions),
             NEW f, f = unit.functions[k]
      PROVE  /\ f.vpushes \in Nat /\ Prologue(f) \in Nat \ {0, 1}
             /\ f.frame => Prologue(f) >= 4
             /\ Len(f.blocks) \in Nat
             /\ \A l \in 1 .. Len(f.blocks) :
                  /\ f.blocks[l].size \in Nat
                  /\ \A i \in DOMAIN f.blocks[l].loads :
                       f.blocks[l].loads[i] \in 0 .. Len(unit.globals)
  <2>1. f.vpushes \in Nat /\ Len(f.blocks) \in Nat /\ DOMAIN f.blocks = 1 .. Len(f.blocks)
    BY <1>2, <1>3
  <2>2. Prologue(f) \in Nat \ {0, 1} /\ (f.frame => Prologue(f) >= 4)
    BY <2>1 DEF Prologue
  <2>3. ASSUME NEW l \in 1 .. Len(f.blocks)
        PROVE  /\ f.blocks[l].size \in Nat
               /\ \A i \in DOMAIN f.blocks[l].loads :
                    f.blocks[l].loads[i] \in 0 .. Len(unit.globals)
    <3>1. f.blocks[l].size \in Nat /\ Range(f.blocks[l].loads) \subseteq 0 .. Len(unit.globals)
      BY <1>2, <1>3, <2>1
    <3>2. \A i \in DOMAIN f.blocks[l].loads : f.blocks[l].loads[i] \in Range(f.blocks[l].loads)
      BY DEF Range
    <3> QED BY <3>1, <3>2
  <2> QED BY <2>1, <2>2, <2>3
<1> QED BY <1>1, <1>2, <1>3

\* A pool of a block, a function or the unit takes the next words.
LEMMA PoolTaken ==
  ASSUME unit \in Units, n \in Nat, unit' = unit, NEW R, refs' = R, NEW L, NEW at,
         Text(R, L, at), NEW mark, Pool(mark, mark, L, at), IsMark(mark),
         \A d \in defined : d.label # mark
  PROVE  \E c, g \in Nat : \E marks, new :
           /\ c >= at /\ g >= at /\ PoolOf(R, L, at, c, g, marks, new)
           /\ pos' = at + 1 + Cardinality(L) + Len(unit.globals)
<1> DEFINE c == at + 1
           g == at + 1 + Cardinality(L)
           end == g + Len(unit.globals)
           new == {[over |-> mark, from |-> at + 1, to |-> end]}
<1>1. at \in Nat /\ L \in SUBSET (0 .. at - 1)
  BY DEF Text, Places
<1>2. Cardinality(L) \in Nat /\ Len(unit.globals) \in Nat
  BY <1>1, ConstantPlaces, NamesFacts
<1>3. c \in Nat /\ g \in Nat /\ c >= at /\ g >= at /\ end \in Nat /\ at < end
      /\ c + Cardinality(L) <= end
  BY <1>1, <1>2
<1>4. /\ defined' = (defined \cup Constants(L, c)) \cup GlobalEnd(g) \cup {Label(mark, end)}
      /\ pools' = pools \cup new /\ n' = n + 1 /\ pos' = end /\ literals' = {}
  BY DEF Pool, NextNumber
<1>5. Label(mark, end).label = mark /\ Label(mark, end).at = end
  BY DEF Label
<1>6. \A p \in new : p.from = at + 1 /\ p.to = end
  OBVIOUS
<1>7. /\ \A d \in {Label(mark, end)} : d.at \in 0 .. end /\ IsMark(d.label)
      /\ \A d \in {Label(mark, end)} : \A e \in defined : d.label # e.label
  BY <1>3, <1>5
<1> HIDE DEF c, g, new
<1>8. PoolOf(R, L, at, c, g, {Label(mark, end)}, new)
  BY <1>3, <1>4, <1>6, <1>7 DEF PoolOf
<1>9. pos' = at + 1 + Cardinality(L) + Len(unit.globals)
  BY <1>4 DEF g
<1> QED BY <1>3, <1>8, <1>9

\* It is a pool of the text.
LEMMA TextPool ==
  ASSUME unit \in Units, n \in Nat, unit' = unit, NEW R, refs' = R, NEW L, NEW at,
         Text(R, L, at), NEW mark, Pool(mark, mark, L, at), IsMark(mark),
         \A d \in defined : d.label # mark
  PROVE  Text(refs, literals, pos)' /\ AllAnswered'
<1>1. PICK c \in Nat, g \in Nat : \E marks, new :
        c >= at /\ g >= at /\ PoolOf(R, L, at, c, g, marks, new)
  BY PoolTaken
<1>2. PICK marks, new : c >= at /\ g >= at /\ PoolOf(R, L, at, c, g, marks, new)
  BY <1>1
<1> QED BY <1>2, PoolAdded

\* The pool of a function or of the unit, or none.
LEMMA TextFunctionPool ==
  ASSUME unit \in Units, n \in Nat, unit' = unit, refs' = refs, IInv, NEW at,
         Text(refs, literals, at), FunctionPool(literals, at) \/ NoPool(literals, at)
  PROVE  Text(refs, literals, pos)' /\ n' \in Nat
<1>1. CASE FunctionPool(literals, at)
  <2>1. NextNumber - 1 = n
    BY DEF NextNumber
  <2>2. Pool(FunctionLabel(n), FunctionLabel(n), literals, at)
    BY <1>1, <2>1 DEF FunctionPool
  <2>3. IsMark(FunctionLabel(n))
    BY DEF IsMark
  <2>4. \A d \in defined : d.label # FunctionLabel(n)
    BY DEF IInv, NumbersPassed, Passed
  <2>5. n' \in Nat
    BY <2>2 DEF Pool, NextNumber
  <2> QED BY <2>2, <2>3, <2>4, <2>5, TextPool
<1>2. CASE NoPool(literals, at)
  <2>1. UNCHANGED <<unit, refs, n, defined, pools>> /\ pos' = at /\ literals' = literals
    BY <1>2 DEF NoPool
  <2> QED
    BY <2>1 DEF Text, Places, LoadsKnown, LoadsAnswered, WordsKnown, NextPoolNear, WordsUnique,
                WordsNear, Awaits, IsAddress, IsMark, Found, NamesApart
<1> QED BY <1>1, <1>2

\* TypeOK follows from the counters and the places.
LEMMA TypeFromText ==
  ASSUME CountersTyped, Text(refs, literals, pos)
  PROVE  TypeOK
  BY DEF CountersTyped, Text, Places, TypeOK

\* The same after a step.
LEMMA TypeFromTextNext ==
  ASSUME CountersTyped', Text(refs, literals, pos)'
  PROVE  TypeOK'
  BY DEF CountersTyped, Text, Places, TypeOK

\* The empty text.
LEMMA InitialText == Init => TextInv
<1> SUFFICES ASSUME Init PROVE TextInv
  OBVIOUS
<1>1. Len(unit.functions) \in Nat
  BY UnitFacts DEF Init
<1>2. CountersTyped
  BY <1>1, EveryAssumption DEF Init, CountersTyped
<1>3. Text(refs, literals, pos)
  BY DEF Init, Text, Places, LoadsKnown, LoadsAnswered, WordsKnown, NextPoolNear, WordsUnique,
         WordsNear, Found
<1> QED BY <1>2, <1>3, InitialIInv, TypeFromText DEF Init, TextInv, Progress

\* A function begins: its prologue may load the size of its frame.
LEMMA BeginFunctionText ==
  ASSUME TextInv, BeginFunction
  PROVE  CountersTyped' /\ Progress' /\ Text(refs, literals, pos)'
<1> DEFINE f == unit.functions[fn + 1]
           p == pos + Prologue(f) - 2
<1>1. /\ unit \in Units /\ fn \in 0 .. Len(unit.functions) /\ fn < Len(unit.functions)
      /\ pos \in Nat /\ n \in Nat /\ Text(refs, literals, pos)
  BY DEF BeginFunction, TextInv, TypeOK
<1>2. fn + 1 \in 1 .. Len(unit.functions)
  BY <1>1, UnitFacts
<1>3. /\ Prologue(f) \in Nat \ {0, 1} /\ (f.frame => Prologue(f) >= 4)
      /\ Len(f.blocks) \in Nat
  BY <1>1, <1>2, UnitFacts
<1>4. CountersTyped'
  BY <1>1, <1>2, EveryAssumption DEF BeginFunction, TextInv, TypeOK, CountersTyped
<1>5. Progress'
  <2>1. Function' = f /\ block' = 0 /\ fn' = fn + 1 /\ pc' = "function" /\ unit' = unit
    BY DEF BeginFunction, Function
  <2>2. 0 \in 0 .. Len(f.blocks)
    BY <1>3
  <2> HIDE DEF f
  <2> QED BY <1>2, <2>1, <2>2 DEF Progress
<1>6. PICK R, L : R = refs' /\ L = literals' /\ Text(R, L, pos')
  <2>1. pos' = pos + Prologue(f)
    BY DEF BeginFunction
  <2>2. CASE f.frame
    <3>1. refs' = refs \cup {[to |-> ConstantAt(p), at |-> p]} /\ literals' = literals \cup {p}
      BY <2>2 DEF BeginFunction
    <3> DEFINE r == [to |-> ConstantAt(p), at |-> p]
    <3>2. r.to = ConstantAt(p) /\ r.at = p
      OBVIOUS
    <3>3. p \in Nat /\ p >= pos /\ pos' \in Nat /\ pos' > p
      BY <1>1, <1>3, <2>1
    <3> HIDE DEF p, r
    <3>4. Text(refs \cup {r}, literals \cup {p}, pos')
      BY <1>1, <3>2, <3>3, LoadAdded
    <3> QED BY <3>1, <3>4 DEF r
  <2>3. CASE ~ f.frame
    <3>1. refs' = refs /\ literals' = literals
      BY <2>3 DEF BeginFunction
    <3>2. pos' \in Nat /\ pos' >= pos
      BY <1>1, <1>3, <2>1
    <3>3. Text(refs, literals, pos')
      BY <1>1, <3>2, TextGrows
    <3> QED BY <3>1, <3>3
  <2> QED BY <2>2, <2>3
<1>7. Text(refs, literals, pos)'
  <2>1. UNCHANGED <<unit, n, defined, pools>>
    BY DEF BeginFunction
  <2> QED
    BY <1>6, <2>1 DEF Text, Places, LoadsKnown, LoadsAnswered, WordsKnown, NextPoolNear, WordsUnique,
                WordsNear, Awaits, IsAddress, IsMark, Found, NamesApart
<1> QED BY <1>4, <1>5, <1>7

\* An instruction and what it loads, in front of the pool of the block.
LEMMA InstructionText ==
  ASSUME TextInv, PrintInstruction
  PROVE  \E L :
    /\ Text(refs', L, pos + 1)
    /\ \A r \in refs' : r \in refs \/ (r.at = pos /\ Awaits(r, L))
    /\ literals \subseteq L /\ L \subseteq literals \cup {pos}
    /\ L # literals =>
         inst + 1 \in DOMAIN Current.loads /\ Current.loads[inst + 1] = 0
    /\ PoolInBlock => Pool(BlockLabel(label), BlockLabel(label), L, pos + 1) /\ label' = label + 1
    /\ ~ PoolInBlock => NoPool(L, pos + 1) /\ label' = label
<1> DEFINE loads == inst' \in DOMAIN Current.loads
           what == Current.loads[inst']
           L == literals \cup (IF loads /\ what = 0 THEN {pos} ELSE {})
           r == [at |-> pos, to |-> IF what = 0 THEN ConstantAt(pos)
                                    ELSE AddressLabel(unit.globals[what], n)]
           R == IF ~loads THEN refs ELSE refs \cup {r}
           mark == BlockLabel(label)
<1>1. /\ unit \in Units /\ unit' = unit /\ pos \in Nat /\ n \in Nat /\ label \in Nat
      /\ Text(refs, literals, pos) /\ IInv
      /\ UNCHANGED <<fn, block, pc>> /\ pc = "block"
      /\ fn \in 1 .. Len(unit.functions)
      /\ inst < Current.size /\ inst \in 0 .. Current.size /\ inst' = inst + 1
  BY DEF PrintInstruction, TextInv, TypeOK, Progress
<1>2. block \in 1 .. Len(Function.blocks)
  <2>1. Len(Function.blocks) \in Nat /\ block \in 0 .. Len(Function.blocks) /\ block # 0
    BY <1>1, UnitFacts DEF TextInv, Progress, Function
  <2> QED BY <2>1
<1>3. /\ Current.size \in Nat
      /\ \A i \in DOMAIN Current.loads : Current.loads[i] \in 0 .. Len(unit.globals)
  BY <1>1, <1>2, UnitFacts DEF Function, Current
<1>4. Text(R, L, pos + 1)
  <2>1. CASE ~ loads
    <3>1. Text(refs, literals, pos + 1)
      BY <1>1, TextGrows
    <3> QED BY <2>1, <3>1
  <2>2. CASE loads
    <3>1. r.at = pos /\ pos + 1 \in Nat /\ pos + 1 > r.at /\ r.at >= pos
      BY <1>1
    <3>2. CASE what = 0
      <4>1. r.to = ConstantAt(r.at) /\ L = literals \cup {r.at}
        BY <2>2, <3>2
      <4> HIDE DEF r, L, loads, what
      <4>2. Text(refs \cup {r}, L, pos + 1)
        BY <1>1, <3>1, <4>1, LoadAdded
      <4> QED BY <2>2, <4>2
    <3>3. CASE what # 0
      <4>1. L = literals
        BY <3>3
      <4>2. what \in DOMAIN unit.globals
        BY <1>1, <1>3, <2>2, <3>3, NamesFacts
      <4>3. IsAddress(r.to, n)
        BY <3>3, <4>2 DEF IsAddress
      <4> HIDE DEF r, L, loads, what
      <4>4. Text(refs \cup {r}, L, pos + 1)
        BY <1>1, <3>1, <4>1, <4>3, LoadAdded
      <4> QED BY <2>2, <4>4
    <3> QED BY <3>2, <3>3
  <2> QED BY <2>1, <2>2
<1>5. refs' = R
  BY DEF PrintInstruction
<1>6. \A x \in R : x \in refs \/ (x.at = pos /\ Awaits(x, L))
  <2>1. CASE loads
    <3>1. r.at = pos
      OBVIOUS
    <3>2. CASE what = 0
      <4>1. r.to = ConstantAt(pos) /\ pos \in L
        BY <2>1, <3>2
      <4> QED BY <3>1, <4>1 DEF Awaits
    <3>3. CASE what # 0
      <4>1. what \in DOMAIN unit.globals
        BY <1>1, <1>3, <2>1, <3>3, NamesFacts
      <4>2. IsAddress(r.to, n)
        BY <3>3, <4>1 DEF IsAddress
      <4> QED BY <3>1, <4>2 DEF Awaits
    <3> QED BY <2>1, <3>1, <3>2, <3>3
  <2>2. CASE ~ loads
    BY <2>2
  <2> QED BY <2>1, <2>2
<1>7. /\ literals \subseteq L /\ L \subseteq literals \cup {pos}
      /\ L # literals => inst + 1 \in DOMAIN Current.loads /\ Current.loads[inst + 1] = 0
  BY <1>1
<1>8. /\ PoolInBlock => Pool(mark, mark, L, pos + 1) /\ label' = label + 1
      /\ ~ PoolInBlock => NoPool(L, pos + 1) /\ label' = label
  BY DEF PrintInstruction
<1> HIDE DEF L, R
<1>9. PICK M : M = L
  OBVIOUS
<1> QED BY <1>4, <1>5, <1>6, <1>7, <1>8, <1>9 DEF mark

\* The instruction and the pool of the block.
LEMMA PrintInstructionText ==
  ASSUME TextInv, PrintInstruction
  PROVE  CountersTyped' /\ Progress' /\ Text(refs, literals, pos)'
<1> DEFINE mark == BlockLabel(label)
<1>1. /\ unit \in Units /\ unit' = unit /\ pos \in Nat /\ n \in Nat /\ label \in Nat
      /\ Text(refs, literals, pos) /\ IInv
      /\ UNCHANGED <<fn, block, pc>> /\ pc = "block"
      /\ fn \in 1 .. Len(unit.functions)
      /\ inst < Current.size /\ inst \in 0 .. Current.size /\ inst' = inst + 1
  BY DEF PrintInstruction, TextInv, TypeOK, Progress
<1>2. block \in 1 .. Len(Function.blocks)
  <2>1. Len(Function.blocks) \in Nat /\ block \in 0 .. Len(Function.blocks) /\ block # 0
    BY <1>1, UnitFacts DEF TextInv, Progress, Function
  <2> QED BY <2>1
<1>3. Current.size \in Nat
  BY <1>1, <1>2, UnitFacts DEF Function, Current
<1>4. Progress'
  <2>1. Current' = Current /\ Function' = Function
    BY <1>1 DEF Current, Function
  <2>2. inst' \in 0 .. Current.size
    BY <1>1, <1>3
  <2> QED BY <1>1, <2>1, <2>2 DEF TextInv, Progress
<1>5. PICK L :
        /\ Text(refs', L, pos + 1)
        /\ PoolInBlock => Pool(mark, mark, L, pos + 1) /\ label' = label + 1
        /\ ~ PoolInBlock => NoPool(L, pos + 1) /\ label' = label
  BY InstructionText
<1>7. CASE PoolInBlock
  <2>1. Pool(mark, mark, L, pos + 1) /\ label' = label + 1
    BY <1>5, <1>7 DEF mark
  <2>2. n' \in Nat /\ label' \in Nat
    BY <1>1, <2>1 DEF Pool, NextNumber
  <2>3. IsMark(mark)
    BY <1>1 DEF IsMark
  <2>4. \A d \in defined : d.label # mark
    BY <1>1 DEF IInv, NumbersPassed, Passed
  <2> HIDE DEF mark
  <2>5. Text(refs, literals, pos)'
    BY <1>1, <1>5, <2>1, <2>3, <2>4, TextPool
  <2>6. CountersTyped'
    BY <1>1, <1>3, <2>2 DEF PrintInstruction, TextInv, TypeOK, CountersTyped
  <2> QED BY <1>4, <2>5, <2>6
<1>8. CASE ~ PoolInBlock
  <2>1. NoPool(L, pos + 1) /\ label' = label
    BY <1>5, <1>8
  <2>2. UNCHANGED <<unit, n, defined, pools>> /\ pos' = pos + 1 /\ literals' = L
    BY <1>1, <2>1 DEF NoPool
  <2>3. Text(refs, literals, pos)'
    BY <1>5, <2>2
       DEF Text, Places, LoadsKnown, LoadsAnswered, WordsKnown, NextPoolNear, WordsUnique,
           WordsNear, Awaits, IsAddress, IsMark, Found, NamesApart
  <2>4. CountersTyped'
    BY <1>1, <1>3, <2>1, <2>2 DEF PrintInstruction, TextInv, TypeOK, CountersTyped
  <2> QED BY <1>4, <2>3, <2>4
<1> QED BY <1>7, <1>8

\* The end of a block, and the pool of its function.
LEMMA EndBlockText ==
  ASSUME TextInv, EndBlock
  PROVE  CountersTyped' /\ Progress' /\ Text(refs, literals, pos)'
<1>1. /\ unit \in Units /\ unit' = unit /\ n \in Nat /\ refs' = refs /\ IInv
      /\ Text(refs, literals, pos) /\ fn \in 1 .. Len(unit.functions)
      /\ UNCHANGED <<fn, block, inst, total, label>> /\ pc' = "function"
      /\ block \in 0 .. Len(Function.blocks) /\ block # 0
  BY DEF EndBlock, TextInv, TypeOK, Progress
<1>2. Current.size \in Nat
  <2>1. block \in 1 .. Len(Function.blocks)
    BY <1>1, UnitFacts DEF Function
  <2> QED BY <1>1, <2>1, UnitFacts DEF Function, Current
<1>3. Text(refs, literals, pos)' /\ n' \in Nat
  BY <1>1, TextFunctionPool DEF EndBlock
<1>4. Progress'
  BY <1>1 DEF Progress, Function
<1>5. count' \in 0 .. FunctionEvery /\ size' \in Nat
  BY <1>2, EveryAssumption, SMTT(30) DEF EndBlock, TextInv, TypeOK, Restarted
<1> QED BY <1>1, <1>3, <1>4, <1>5 DEF TextInv, TypeOK, CountersTyped

\* The end of a function, and the pool of the unit.
LEMMA EndFunctionText ==
  ASSUME TextInv, EndFunction
  PROVE  CountersTyped' /\ Progress' /\ Text(refs, literals, pos)'
<1>1. /\ unit \in Units /\ unit' = unit /\ n \in Nat /\ refs' = refs /\ IInv
      /\ Text(refs, literals, pos)
      /\ UNCHANGED <<fn, block, inst, count, size, label>> /\ pc' = "unit"
  BY DEF EndFunction, TextInv, TypeOK
<1>2. Text(refs, literals, pos)' /\ n' \in Nat
  BY <1>1, TextFunctionPool DEF EndFunction
<1>3. Progress'
  BY <1>1 DEF Progress
<1>4. total' \in 0 .. UnitEvery
  BY EveryAssumption DEF EndFunction, TextInv, TypeOK
<1> QED BY <1>1, <1>2, <1>3, <1>4 DEF TextInv, TypeOK, CountersTyped

\* The last words: the addresses, and the constants that are left.
LEMMA FinishText ==
  ASSUME TextInv, Finish
  PROVE  CountersTyped' /\ Progress' /\ Text(refs, literals, pos)' /\ AllAnswered'
<1> DEFINE g == pos
           c == pos + Len(unit.globals)
<1>1. /\ unit \in Units /\ n \in Nat /\ Text(refs, literals, pos) /\ pos \in Nat
      /\ literals \in SUBSET (0 .. pos - 1)
  BY DEF TextInv, TypeOK
<1>2. Cardinality(literals) \in Nat /\ Len(unit.globals) \in Nat
  BY <1>1, ConstantPlaces, NamesFacts
<1>3. /\ unit' = unit /\ refs' = refs /\ literals' = {} /\ n' = n + 1
      /\ defined' = (defined \cup Constants(literals, c)) \cup GlobalEnd(g) \cup {}
      /\ pools' = pools \cup {}
      /\ pos' = c + Cardinality(literals)
  BY DEF Finish, NextNumber
<1>4. c \in Nat /\ c >= pos /\ pos' \in Nat /\ g + Len(unit.globals) <= pos'
  BY <1>1, <1>2, <1>3
<1> HIDE DEF g, c
<1>5. PoolOf(refs, literals, pos, c, g, {}, {})
  BY <1>3, <1>4 DEF PoolOf
<1>6. g \in Nat /\ g >= pos
  BY <1>1 DEF g
<1>7. Text(refs, literals, pos)' /\ AllAnswered'
  BY <1>1, <1>4, <1>5, <1>6, PoolAdded
<1>8. Progress'
  BY DEF Finish, Progress
<1>9. CountersTyped'
  BY <1>1, <1>3 DEF Finish, TextInv, TypeOK, CountersTyped
<1> QED BY <1>7, <1>8, <1>9

\* Every step keeps the text in order.
LEMMA StepText == TextInv /\ [Next]_vars => TextInv'
<1> SUFFICES ASSUME TextInv, [Next]_vars PROVE TextInv'
  OBVIOUS
<1>1. IInv'
  BY StepIInv DEF TextInv
<1>2. CASE BeginFunction
  <2>1. pc' = "function"
    BY <1>2 DEF BeginFunction
  <2>2. CountersTyped' /\ Progress' /\ Text(refs, literals, pos)'
    BY <1>2, BeginFunctionText
  <2>3. TypeOK'
    BY <2>2, TypeFromTextNext
  <2> QED BY <1>1, <2>1, <2>2, <2>3 DEF TextInv
<1>3. CASE BeginBlock
  <2>1. /\ UNCHANGED <<unit, fn, count, size, total, n, label, pos, literals, refs, defined, pools>>
        /\ block' = block + 1 /\ inst' = 0 /\ pc' = "block" /\ pc = "function"
        /\ block < Len(Function.blocks)
    BY <1>3 DEF BeginBlock
  <2>2. /\ fn \in 1 .. Len(unit.functions) /\ block \in 0 .. Len(Function.blocks)
        /\ unit \in Units
    BY <2>1 DEF TextInv, Progress, TypeOK
  <2>3. Len(Function.blocks) \in Nat
    BY <2>2, UnitFacts DEF Function
  <2>4. Function' = Function /\ Current' = Function.blocks[block + 1]
    BY <2>1 DEF Function, Current
  <2>5. block + 1 \in 1 .. Len(Function.blocks)
    BY <2>1, <2>2, <2>3
  <2>6. Function.blocks[block + 1].size \in Nat
    BY <2>2, <2>5, UnitFacts DEF Function
  <2>7. Progress'
    <3>1. block' \in 0 .. Len(Function.blocks) /\ block' # 0
      BY <2>1, <2>5
    <3>2. inst' \in 0 .. Current'.size
      BY <2>1, <2>4, <2>6
    <3> QED BY <2>1, <2>2, <2>4, <3>1, <3>2 DEF Progress
  <2>8. Text(refs, literals, pos)'
    BY <2>1 DEF TextInv, Text, Places, LoadsKnown, LoadsAnswered, WordsKnown, NextPoolNear,
                WordsUnique, WordsNear, Awaits, IsAddress, IsMark, Found, NamesApart
  <2>9. TypeOK'
    BY <2>1 DEF TextInv, TypeOK
  <2> QED BY <1>1, <2>1, <2>7, <2>8, <2>9 DEF TextInv
<1>4. CASE PrintInstruction
  <2>1. pc' = "block"
    BY <1>4 DEF PrintInstruction
  <2>2. CountersTyped' /\ Progress' /\ Text(refs, literals, pos)'
    BY <1>4, PrintInstructionText
  <2>3. TypeOK'
    BY <2>2, TypeFromTextNext
  <2> QED BY <1>1, <2>1, <2>2, <2>3 DEF TextInv
<1>5. CASE EndBlock
  <2>1. pc' = "function"
    BY <1>5 DEF EndBlock
  <2>2. CountersTyped' /\ Progress' /\ Text(refs, literals, pos)'
    BY <1>5, EndBlockText
  <2>3. TypeOK'
    BY <2>2, TypeFromTextNext
  <2> QED BY <1>1, <2>1, <2>2, <2>3 DEF TextInv
<1>6. CASE EndFunction
  <2>1. pc' = "unit"
    BY <1>6 DEF EndFunction
  <2>2. CountersTyped' /\ Progress' /\ Text(refs, literals, pos)'
    BY <1>6, EndFunctionText
  <2>3. TypeOK'
    BY <2>2, TypeFromTextNext
  <2> QED BY <1>1, <2>1, <2>2, <2>3 DEF TextInv
<1>7. CASE Finish
  <2>1. CountersTyped' /\ Progress' /\ Text(refs, literals, pos)' /\ AllAnswered'
    BY <1>7, FinishText
  <2>2. TypeOK'
    BY <2>1, TypeFromTextNext
  <2> QED BY <1>1, <2>1, <2>2 DEF TextInv
<1>8. CASE Finished \/ UNCHANGED vars
  <2>1. UNCHANGED vars
    BY <1>8 DEF Finished
  <2>2. Text(refs, literals, pos)'
    BY <2>1 DEF vars, TextInv, Text, Places, LoadsKnown, LoadsAnswered, WordsKnown, NextPoolNear,
                WordsUnique, WordsNear, Awaits, IsAddress, IsMark, Found, NamesApart
  <2>3. TypeOK' /\ Progress' /\ (pc' = "done" => AllAnswered')
    BY <2>1 DEF vars, TextInv, TypeOK, Progress, Function, Current, AllAnswered, Found
  <2> QED BY <1>1, <2>2, <2>3 DEF TextInv
<1> QED BY <1>2, <1>3, <1>4, <1>5, <1>6, <1>7, <1>8 DEF Next

(***************************************************************************)
(* The counters stay below the sizes that call for a pool, and everything  *)
(* recorded of the text lies among its words.                              *)
(***************************************************************************)
THEOREM PoolsTyped == Spec => []TypeOK
<1>1. Init => TextInv
  BY InitialText
<1>2. TextInv /\ [Next]_vars => TextInv'
  BY StepText
<1>3. TextInv => TypeOK
  BY DEF TextInv
<1> QED BY <1>1, <1>2, <1>3, PTL DEF Spec

(***************************************************************************)
(* Every load of a constant or of a global's address finds its word behind *)
(* it once the section is printed.  When no global is called like another  *)
(* one followed by digits there is one such word, and it is in the next    *)
(* pool: no other pool lies between the load and it.                       *)
(***************************************************************************)
THEOREM AddressesAreFound == Spec => []AddressesFound
<1>1. Init => TextInv
  BY InitialText
<1>2. TextInv /\ [Next]_vars => TextInv'
  BY StepText
<1>3. TextInv => AddressesFound
  BY DEF TextInv, AllAnswered, Text, WordsUnique, WordsNear, AddressesFound
<1> QED BY <1>1, <1>2, <1>3, PTL DEF Spec
-----------------------------------------------------------------------------
(* Distances                                                               *)
(* What has been counted since the last pool, in the three counters, and   *)
(* what has been printed without being counted bound how far the next pool *)
(* can be.                                                                 *)

\* A number of a range is a number of every range around it.
LEMMA InsideTheRange ==
  ASSUME NEW a \in Nat, NEW e \in Nat, NEW c \in Nat, NEW l \in Nat, c >= a, c + l <= e,
         NEW x, x \in c .. c + l - 1
  PROVE  x \in a .. e - 1
OBVIOUS

\* There are n numbers from 1 to n.
LEMMA FirstNumbers ==
  ASSUME NEW m \in Nat
  PROVE  IsFiniteSet(1 .. m) /\ Cardinality(1 .. m) = m
<1>1. 1 \in Int /\ m \in Int
  OBVIOUS
<1>2. IsFiniteSet(1 .. m) /\ Cardinality(1 .. m) = IF 1 > m THEN 0 ELSE m - 1 + 1
  BY ONLY <1>1, FS_Interval
<1> QED BY <1>2

\* The union of m finite sets is finite.
LEMMA FamilyFinite ==
  ASSUME NEW m \in Nat, NEW f, \A i \in 1 .. m : IsFiniteSet(f[i])
  PROVE  IsFiniteSet(UNION {f[i] : i \in 1 .. m})
<1> DEFINE T == {f[i] : i \in 1 .. m}
           g == [i \in 1 .. m |-> f[i]]
<1>1. g \in Surjection(1 .. m, T)
  BY DEF Surjection
<1>2. IsFiniteSet(1 .. m)
  BY FirstNumbers
<1>3. IsFiniteSet(T)
  BY <1>1, <1>2, FS_Surjection
<1> QED BY <1>3, FS_UNION

\* A finite set of sizes is bounded.
LEMMA FiniteBounded ==
  ASSUME NEW S \in SUBSET Nat, IsFiniteSet(S)
  PROVE  \E m \in Nat : \A s \in S : s <= m
<1> DEFINE g == [s \in S |-> 1 .. s]
           T == {g[s] : s \in S}
<1>1. g \in Surjection(S, T)
  BY DEF Surjection
<1>2. IsFiniteSet(T)
  BY <1>1, FS_Surjection
<1>3. \A t \in T : IsFiniteSet(t)
  BY FirstNumbers
<1>4. IsFiniteSet(UNION T) /\ Cardinality(UNION T) \in Nat
  BY <1>2, <1>3, FS_UNION, FS_CardinalityType
<1>5. ASSUME NEW s \in S PROVE s <= Cardinality(UNION T)
  <2>1. 1 .. s \in SUBSET (UNION T)
    OBVIOUS
  <2>2. Cardinality(1 .. s) = s
    BY FirstNumbers
  <2> HIDE DEF T
  <2> QED BY <1>4, <2>1, <2>2, FS_Subset
<1> QED BY <1>4, <1>5

\* Every block is at most as long as the longest one.
LEMMA LongestFacts ==
  ASSUME unit \in Units
  PROVE  /\ Longest \in Nat
         /\ \A k \in 1 .. Len(unit.functions) :
              \A l \in 1 .. Len(unit.functions[k].blocks) :
                unit.functions[k].blocks[l].size <= Longest
<1> DEFINE F == unit.functions
           All == UNION {Blocks(f) : f \in Range(F)}
           Sizes == {B.size : B \in All}
<1>1. /\ Len(F) \in Nat /\ DOMAIN F = 1 .. Len(F)
      /\ \A k \in 1 .. Len(F) :
           /\ Len(F[k].blocks) \in Nat /\ DOMAIN F[k].blocks = 1 .. Len(F[k].blocks)
           /\ \A l \in 1 .. Len(F[k].blocks) : F[k].blocks[l].size \in Nat
  BY UnitsAssumption
<1>2. \A B : B \in All <=> \E k \in 1 .. Len(F) : \E l \in 1 .. Len(F[k].blocks) : B = F[k].blocks[l]
  <2>1. \A f : f \in Range(F) <=> \E k \in 1 .. Len(F) : f = F[k]
    BY <1>1 DEF Range
  <2>2. \A B : B \in All <=> \E f \in Range(F) : B \in Blocks(f)
    OBVIOUS
  <2>3. \A k \in 1 .. Len(F) : \A B :
          B \in Blocks(F[k]) <=> \E l \in 1 .. Len(F[k].blocks) : B = F[k].blocks[l]
    BY <1>1 DEF Blocks
  <2> HIDE DEF F, All
  <2>4. ASSUME NEW B \in All
        PROVE  \E k \in 1 .. Len(F) : \E l \in 1 .. Len(F[k].blocks) : B = F[k].blocks[l]
    <3>1. PICK f \in Range(F) : B \in Blocks(f)
      BY <2>2
    <3>2. PICK k \in 1 .. Len(F) : f = F[k]
      BY <2>1
    <3>3. PICK l \in 1 .. Len(F[k].blocks) : B = F[k].blocks[l]
      BY <2>3, <3>1, <3>2
    <3> QED BY <3>3
  <2>5. ASSUME NEW k \in 1 .. Len(F), NEW l \in 1 .. Len(F[k].blocks) PROVE F[k].blocks[l] \in All
    <3>1. F[k].blocks[l] \in Blocks(F[k])
      BY <2>3
    <3>2. F[k] \in Range(F)
      BY <2>1
    <3> QED BY <2>2, <3>1, <3>2
  <2> QED BY <2>4, <2>5
<1> HIDE DEF F
<1>3. ASSUME NEW k \in 1 .. Len(F) PROVE IsFiniteSet(Blocks(F[k]))
  <2> DEFINE g == [l \in 1 .. Len(F[k].blocks) |-> F[k].blocks[l]]
  <2>1. g \in Surjection(1 .. Len(F[k].blocks), Blocks(F[k]))
    BY <1>1 DEF Surjection, Blocks
  <2>2. IsFiniteSet(1 .. Len(F[k].blocks))
    BY <1>1, FirstNumbers
  <2> QED BY <2>1, <2>2, FS_Surjection
<1>4. IsFiniteSet(All)
  <2> DEFINE g == [k \in 1 .. Len(F) |-> Blocks(F[k])]
  <2>1. \A k \in 1 .. Len(F) : IsFiniteSet(g[k])
    BY <1>3
  <2>2. {Blocks(f) : f \in Range(F)} = {g[k] : k \in 1 .. Len(F)}
    BY <1>1 DEF Range
  <2> HIDE DEF g
  <2>3. IsFiniteSet(UNION {g[k] : k \in 1 .. Len(F)})
    BY <1>1, <2>1, FamilyFinite
  <2> QED BY <2>2, <2>3
<1> HIDE DEF All
<1>5. IsFiniteSet(Sizes)
  <2> DEFINE g == [B \in All |-> B.size]
  <2>1. g \in Surjection(All, Sizes)
    BY DEF Surjection
  <2> QED BY <1>4, <2>1, FS_Surjection
<1>6. Sizes \subseteq Nat
  BY <1>1, <1>2
<1> HIDE DEF Sizes
<1>7. {0} \cup Sizes \in SUBSET Nat
  BY <1>6
<1>8. PICK m \in Nat : \A s \in Sizes : s <= m
  BY <1>5, <1>6, FiniteBounded
<1>9. PICK a \in {0} \cup Sizes : \A s \in {0} \cup Sizes : s <= a
  <2>1. \A s \in {0} \cup Sizes : s <= m
    BY <1>8
  <2> QED BY <1>7, <2>1, NatMaximum
<1>10. {0} \cup Sizes \in SUBSET Int
  BY <1>7
<1>11. Max({0} \cup Sizes) = a
  BY <1>9, <1>10, ExtremesAre
<1>12. Longest = a
  BY <1>11 DEF Longest, Sizes, All, F
<1>13. ASSUME NEW k \in 1 .. Len(F), NEW l \in 1 .. Len(F[k].blocks)
       PROVE  F[k].blocks[l].size <= a
  <2>1. F[k].blocks[l].size \in Sizes
    BY <1>2 DEF Sizes
  <2> QED BY <1>9, <2>1
<1> QED BY <1>7, <1>9, <1>12, <1>13 DEF F

\* The prologues of the first m functions.
LEMMA PrologueFacts ==
  ASSUME unit \in Units, NEW m \in 0 .. Len(unit.functions)
  PROVE  /\ Cardinality(PrologueWords(m)) \in Nat
         /\ Cardinality(PrologueWords(m)) <= Cardinality(PrologueWords(Len(unit.functions)))
         /\ m < Len(unit.functions) =>
              Cardinality(PrologueWords(m + 1))
                = Cardinality(PrologueWords(m)) + Prologue(unit.functions[m + 1])
<1> DEFINE P(i) == Prologue(unit.functions[i])
           len == Len(unit.functions)
<1>1. len \in Nat /\ \A i \in 1 .. len : P(i) \in Nat
  BY UnitFacts
<1>2. \A k \in 0 .. len : PrologueWords(k) = UNION {{i} \X (1 .. P(i)) : i \in 1 .. k}
  BY DEF PrologueWords
<1> HIDE DEF P, len
<1>3. ASSUME NEW i \in 1 .. len
      PROVE  IsFiniteSet({i} \X (1 .. P(i))) /\ Cardinality({i} \X (1 .. P(i))) = P(i)
  <2>1. IsFiniteSet(1 .. P(i)) /\ Cardinality(1 .. P(i)) = P(i) /\ P(i) \in Nat
    BY <1>1, FirstNumbers
  <2>2. IsFiniteSet({i}) /\ Cardinality({i}) = 1
    BY FS_Singleton
  <2>3. /\ IsFiniteSet({i} \X (1 .. P(i)))
        /\ Cardinality({i} \X (1 .. P(i))) = Cardinality({i}) * Cardinality(1 .. P(i))
    BY <2>1, <2>2, FS_Product
  <2>4. 1 * P(i) = P(i)
    BY <2>1
  <2> QED BY <2>1, <2>2, <2>3, <2>4
<1>4. ASSUME NEW k \in 0 .. len PROVE IsFiniteSet(PrologueWords(k))
  <2> DEFINE g == [i \in 1 .. k |-> {i} \X (1 .. P(i))]
  <2>1. k \in Nat /\ \A i \in 1 .. k : i \in 1 .. len
    BY <1>1
  <2>2. \A i \in 1 .. k : g[i] = {i} \X (1 .. P(i))
    OBVIOUS
  <2>3. PrologueWords(k) = UNION {g[i] : i \in 1 .. k}
    BY <1>2, <2>2
  <2> HIDE DEF g
  <2>4. \A i \in 1 .. k : IsFiniteSet(g[i])
    BY <1>3, <2>1, <2>2
  <2>5. IsFiniteSet(UNION {g[i] : i \in 1 .. k})
    BY <2>1, <2>4, FamilyFinite
  <2> QED BY <2>3, <2>5
<1>5. m \in 0 .. len /\ len \in 0 .. len
  BY <1>1 DEF len
<1>6. PrologueWords(m) \in SUBSET PrologueWords(len)
  <2>1. \A i \in 1 .. m : i \in 1 .. len
    BY <1>1, <1>5
  <2> QED BY <1>2, <1>5, <2>1
<1>7. /\ Cardinality(PrologueWords(m)) \in Nat
      /\ Cardinality(PrologueWords(m)) <= Cardinality(PrologueWords(len))
  BY <1>4, <1>5, <1>6, FS_Subset, FS_CardinalityType
<1>8. ASSUME m < len
      PROVE  Cardinality(PrologueWords(m + 1)) = Cardinality(PrologueWords(m)) + P(m + 1)
  <2> DEFINE new == {m + 1} \X (1 .. P(m + 1))
  <2>1. m \in Nat /\ m + 1 \in 1 .. len /\ m + 1 \in 0 .. len
    BY <1>1, <1>5, <1>8
  <2>2. 1 .. m + 1 = (1 .. m) \cup {m + 1}
    BY <2>1
  <2>3. PrologueWords(m + 1) = PrologueWords(m) \cup new
    <3>1. PrologueWords(m + 1) = UNION {{i} \X (1 .. P(i)) : i \in (1 .. m) \cup {m + 1}}
      BY <1>2, <2>1, <2>2
    <3>2. PrologueWords(m) = UNION {{i} \X (1 .. P(i)) : i \in 1 .. m}
      BY <1>2, <1>5
    <3> QED BY <3>1, <3>2
  <2>4. PrologueWords(m) \cap new = {}
    <3>1. \A x \in PrologueWords(m) : x[1] \in 1 .. m
      <4>1. PrologueWords(m) = UNION {{i} \X (1 .. P(i)) : i \in 1 .. m}
        BY <1>2, <1>5
      <4> QED BY <4>1
    <3>2. \A x \in new : x[1] = m + 1
      OBVIOUS
    <3>3. m + 1 \notin 1 .. m
      BY <2>1
    <3> HIDE DEF new
    <3> QED BY <3>1, <3>2, <3>3
  <2>5. IsFiniteSet(new) /\ Cardinality(new) = P(m + 1)
    BY <1>3, <2>1
  <2> HIDE DEF new
  <2>6. /\ Cardinality(PrologueWords(m) \cup new)
             = Cardinality(PrologueWords(m)) + Cardinality(new) - Cardinality({})
        /\ Cardinality({}) = 0
    BY <1>4, <1>5, <2>4, <2>5, FS_Union, FS_EmptySet
  <2>7. P(m + 1) \in Nat
    BY <1>1, <2>1
  <2>8. Cardinality(PrologueWords(m + 1)) = Cardinality(PrologueWords(m)) + P(m + 1) - 0
    BY <2>3, <2>5, <2>6
  <2> QED BY <1>7, <2>7, <2>8
<1> QED BY <1>7, <1>8 DEF len, P

\* The constants of the unit: which they are, and that there are finitely many.
LEMMA ConstantFacts ==
  ASSUME unit \in Units
  PROVE  /\ IsFiniteSet(UnitConstants)
         /\ \A i \in 1 .. Len(unit.functions) :
              /\ unit.functions[i].frame => <<i, 0, 0>> \in UnitConstants
              /\ \A j \in 1 .. Len(unit.functions[i].blocks) :
                   LET loads == unit.functions[i].blocks[j].loads IN
                   \A k \in DOMAIN loads : loads[k] = 0 => <<i, j, k>> \in UnitConstants
         /\ \A x \in UnitConstants :
              \E i \in 1 .. Len(unit.functions) : \E j, k \in Nat : x = <<i, j, k>>
<1> DEFINE F == unit.functions
           Loads(i, j) == F[i].blocks[j].loads
<1>1. /\ Len(F) \in Nat /\ DOMAIN F = 1 .. Len(F)
      /\ \A i \in 1 .. Len(F) :
           /\ Len(F[i].blocks) \in Nat /\ DOMAIN F[i].blocks = 1 .. Len(F[i].blocks)
           /\ \A j \in 1 .. Len(F[i].blocks) :
                F[i].blocks[j].size \in Nat /\ DOMAIN Loads(i, j) \subseteq 1 .. F[i].blocks[j].size
  BY UnitsAssumption
<1>2. \A i, j, x : x \in BlockConstants(i, j) <=>
                     \E k \in DOMAIN Loads(i, j) : Loads(i, j)[k] = 0 /\ x = <<i, j, k>>
  BY DEF BlockConstants
<1>3. \A i \in 1 .. Len(F) :
        FunctionConstants(i)
          = FrameConstant(i) \cup UNION {BlockConstants(i, j) : j \in 1 .. Len(F[i].blocks)}
  BY <1>1 DEF FunctionConstants
<1>11. \A i, x : x \in FrameConstant(i) <=> F[i].frame /\ x = <<i, 0, 0>>
  BY DEF FrameConstant
<1>12. ASSUME NEW i PROVE IsFiniteSet(FrameConstant(i))
  <2>1. CASE F[i].frame
    <3>1. FrameConstant(i) = {<<i, 0, 0>>}
      BY <2>1 DEF FrameConstant
    <3> QED BY <3>1, FS_Singleton
  <2>2. CASE ~ F[i].frame
    <3>1. FrameConstant(i) = {}
      BY <2>2 DEF FrameConstant
    <3> QED BY <3>1, FS_EmptySet
  <2> QED BY <2>1, <2>2
<1>4. UnitConstants = UNION {FunctionConstants(i) : i \in 1 .. Len(F)}
  BY <1>1 DEF UnitConstants
<1> HIDE DEF Loads
<1>5. ASSUME NEW i \in 1 .. Len(F), NEW j \in 1 .. Len(F[i].blocks)
      PROVE  IsFiniteSet(BlockConstants(i, j))
  <2> DEFINE K == {k \in DOMAIN Loads(i, j) : Loads(i, j)[k] = 0}
             g == [k \in K |-> <<i, j, k>>]
  <2>1. K \in SUBSET (1 .. F[i].blocks[j].size) /\ F[i].blocks[j].size \in Nat
    BY <1>1
  <2>2. IsFiniteSet(1 .. F[i].blocks[j].size)
    BY <2>1, FirstNumbers
  <2>3. IsFiniteSet(K)
    BY <2>1, <2>2, FS_Subset
  <2>4. BlockConstants(i, j) = {g[k] : k \in K}
    BY <1>2
  <2>5. g \in Surjection(K, BlockConstants(i, j))
    BY <2>4 DEF Surjection
  <2> QED BY <2>3, <2>5, FS_Surjection
<1>6. ASSUME NEW i \in 1 .. Len(F) PROVE IsFiniteSet(FunctionConstants(i))
  <2> DEFINE g == [j \in 1 .. Len(F[i].blocks) |-> BlockConstants(i, j)]
             blocks == UNION {g[j] : j \in 1 .. Len(F[i].blocks)}
  <2>1. \A j \in 1 .. Len(F[i].blocks) : g[j] = BlockConstants(i, j)
    OBVIOUS
  <2>2. blocks = UNION {BlockConstants(i, j) : j \in 1 .. Len(F[i].blocks)}
    BY <2>1
  <2>3. FunctionConstants(i) = FrameConstant(i) \cup blocks
    BY <1>3, <2>2
  <2> HIDE DEF g
  <2>4. Len(F[i].blocks) \in Nat /\ \A j \in 1 .. Len(F[i].blocks) : IsFiniteSet(g[j])
    BY <1>1, <1>5, <2>1
  <2>5. IsFiniteSet(blocks)
    BY <2>4, FamilyFinite
  <2> QED BY <1>12, <2>3, <2>5, FS_Union
<1>7. IsFiniteSet(UnitConstants)
  <2> DEFINE g == [i \in 1 .. Len(F) |-> FunctionConstants(i)]
  <2>1. \A i \in 1 .. Len(F) : g[i] = FunctionConstants(i)
    OBVIOUS
  <2>2. UnitConstants = UNION {g[i] : i \in 1 .. Len(F)}
    BY <1>4, <2>1
  <2> HIDE DEF g
  <2>3. Len(F) \in Nat /\ \A i \in 1 .. Len(F) : IsFiniteSet(g[i])
    BY <1>1, <1>6, <2>1
  <2>4. IsFiniteSet(UNION {g[i] : i \in 1 .. Len(F)})
    BY <2>3, FamilyFinite
  <2> QED BY <2>2, <2>4
<1>8. ASSUME NEW i \in 1 .. Len(F), F[i].frame PROVE <<i, 0, 0>> \in UnitConstants
  <2>1. <<i, 0, 0>> \in FunctionConstants(i)
    BY <1>3, <1>8, <1>11
  <2> QED BY <1>4, <2>1
<1>9. ASSUME NEW i \in 1 .. Len(F), NEW j \in 1 .. Len(F[i].blocks),
             NEW k \in DOMAIN Loads(i, j), Loads(i, j)[k] = 0
      PROVE  <<i, j, k>> \in UnitConstants
  <2>1. <<i, j, k>> \in BlockConstants(i, j)
    BY <1>2, <1>9
  <2>2. <<i, j, k>> \in FunctionConstants(i)
    BY <1>3, <2>1
  <2> QED BY <1>4, <2>2
<1>10. ASSUME NEW x \in UnitConstants
       PROVE  \E i \in 1 .. Len(F) : \E j, k \in Nat : x = <<i, j, k>>
  <2>1. PICK i \in 1 .. Len(F) : x \in FunctionConstants(i)
    BY <1>4
  <2>2. CASE \E j \in 1 .. Len(F[i].blocks) : x \in BlockConstants(i, j)
    <3>1. PICK j \in 1 .. Len(F[i].blocks) : x \in BlockConstants(i, j)
      BY <2>2
    <3>2. PICK k \in DOMAIN Loads(i, j) : x = <<i, j, k>>
      BY <1>2, <3>1
    <3>3. j \in Nat /\ k \in Nat
      <4>1. DOMAIN Loads(i, j) \subseteq 1 .. F[i].blocks[j].size
        BY <1>1
      <4>2. k \in 1 .. F[i].blocks[j].size
        BY <4>1
      <4> QED BY <4>2
    <3> QED BY <3>2, <3>3
  <2>3. CASE x = <<i, 0, 0>>
    BY <2>3
  <2>4. \/ \E j \in 1 .. Len(F[i].blocks) : x \in BlockConstants(i, j)
        \/ x = <<i, 0, 0>>
    BY <1>3, <1>11, <2>1
  <2> QED BY <2>2, <2>3, <2>4
<1> QED BY <1>7, <1>8, <1>9, <1>10 DEF F, Loads

\* The constants loaded so far.
LoadedConstants ==
  {x \in UnitConstants :
     \/ x[1] < fn
     \/ x[1] = fn /\ (x[2] < block \/ (x[2] = block /\ x[3] <= inst))}

\* What the three counters say has been printed since the last pool.
Counted ==
  total + (IF pc \in {"function", "block"} THEN count ELSE 0)
        + (IF pc = "block" THEN inst % BlockEvery ELSE 0)

\* A load waits for the next pool and is no further back than `reach` words,
\* or has its word near it.
NearBy(R, L, at, reach) ==
  \A r \in R : \/ Awaits(r, L) /\ at <= r.at + reach
               \/ \E d \in Found(r) : d.at \in r.at + 1 .. r.at + Demand

\* The inductive invariant behind PoolsNear.
NearInv ==
  /\ TextInv
  /\ NearBy(refs, literals, pos, Counted + Cardinality(PrologueWords(fn)))
  /\ Cardinality(literals) <= Cardinality(LoadedConstants)
  /\ pc \in {"function", "block"} => count <= size

\* The remainder that MachineBlock::output compares with 0.
LEMMA Remainders ==
  ASSUME NEW a \in Nat, NEW b \in Nat \ {0}
  PROVE  /\ a % b \in 0 .. b - 1 /\ a % b <= a /\ 0 % b = 0
         /\ (a + 1) % b # 0 => (a + 1) % b = (a % b) + 1
<1>1. /\ a % b \in 0 .. b - 1 /\ a = b * (a \div b) + (a % b) /\ a \div b \in Nat
      /\ (a + 1) % b \in 0 .. b - 1 /\ a + 1 = b * ((a + 1) \div b) + ((a + 1) % b)
      /\ (a + 1) \div b \in Nat
  OBVIOUS
<1>2. PICK q \in Nat, p \in Nat, x \in Nat, y \in Nat :
        q = a \div b /\ p = (a + 1) \div b /\ x = a % b /\ y = (a + 1) % b
  BY <1>1
<1>3. a = b * q + x /\ a + 1 = b * p + y /\ x < b /\ y < b
  BY <1>1, <1>2
<1>4. x <= a
  <2>1. b * q >= 0 /\ b * q \in Nat
    OBVIOUS
  <2> QED BY <1>3, <2>1
<1>5. ASSUME y # 0 PROVE y = x + 1
  <2>1. ASSUME p > q PROVE FALSE
    <3>1. b * p >= b * q + b
      <4>1. PICK k \in Nat : p = q + 1 + k
        <5>1. p - q - 1 \in Nat /\ p = q + 1 + (p - q - 1)
          BY <2>1
        <5> QED BY <5>1
      <4>2. b * p = b * q + b + b * k /\ b * k \in Nat /\ b * q \in Nat
        BY <4>1
      <4> QED BY <4>2
    <3>2. b * p \in Nat /\ b * q \in Nat
      OBVIOUS
    <3> QED BY <1>3, <1>5, <3>1, <3>2
  <2>2. ASSUME q > p PROVE FALSE
    <3>1. b * q >= b * p + b
      <4>1. PICK k \in Nat : q = p + 1 + k
        <5>1. q - p - 1 \in Nat /\ q = p + 1 + (q - p - 1)
          BY <2>2
        <5> QED BY <5>1
      <4>2. b * q = b * p + b + b * k /\ b * k \in Nat /\ b * p \in Nat
        BY <4>1
      <4> QED BY <4>2
    <3>2. b * p \in Nat /\ b * q \in Nat
      OBVIOUS
    <3> QED BY <1>3, <3>1, <3>2
  <2>3. p = q
    BY <2>1, <2>2
  <2>4. b * q \in Nat
    OBVIOUS
  <2> QED BY <1>3, <2>3, <2>4
<1>6. 0 % b = 0
  OBVIOUS
<1> QED BY <1>1, <1>2, <1>4, <1>5, <1>6

\* Every load has its word near it.
AllNear == \A r \in refs : \E d \in Found(r) : d.at \in r.at + 1 .. r.at + Demand

\* What the bound of PoolsNear is made of.
LEMMA DemandFacts ==
  ASSUME unit \in Units
  PROVE  /\ Cardinality(UnitConstants) \in Nat /\ Len(unit.globals) \in Nat
         /\ Cardinality(PrologueWords(Len(unit.functions))) \in Nat
         /\ Min({Longest, BlockEvery}) \in Nat
         /\ \A k \in Nat : k <= Longest /\ k <= BlockEvery => k <= Min({Longest, BlockEvery})
         /\ Demand = UnitEvery + FunctionEvery + Min({Longest, BlockEvery})
                       + (Cardinality(PrologueWords(Len(unit.functions)))
                            + Cardinality(UnitConstants))
                       + 1 + Len(unit.globals)
         /\ Demand \in Nat
<1>1. Cardinality(UnitConstants) \in Nat
  BY ConstantFacts, FS_CardinalityType
<1>2. Len(unit.globals) \in Nat /\ Len(unit.functions) \in 0 .. Len(unit.functions)
  BY UnitFacts
<1>3. Cardinality(PrologueWords(Len(unit.functions))) \in Nat
  BY <1>2, PrologueFacts
<1>4. {Longest, BlockEvery} \in SUBSET Nat /\ {Longest, BlockEvery} # {}
  BY LongestFacts, EveryAssumption
<1>5. Min({Longest, BlockEvery}) \in {Longest, BlockEvery}
  BY <1>4, MinFacts
<1>6. \A k \in Nat : k <= Longest /\ k <= BlockEvery => k <= Min({Longest, BlockEvery})
  BY <1>5
<1>7. Min({Longest, BlockEvery}) \in Nat
  BY <1>4, <1>5
<1>8. Demand = UnitEvery + FunctionEvery + Min({Longest, BlockEvery})
                 + (Cardinality(PrologueWords(Len(unit.functions))) + Cardinality(UnitConstants))
                 + 1 + Len(unit.globals)
  BY DEF Demand, Uncounted
<1>9. Demand \in Nat
  BY <1>1, <1>2, <1>3, <1>7, <1>8, EveryAssumption
<1> QED BY <1>1, <1>2, <1>3, <1>6, <1>7, <1>8, <1>9

\* What has been counted and printed stays below the bound; in a block the
\* next instruction does, too.
LEMMA CountedFacts ==
  ASSUME TypeOK, Progress
  PROVE  /\ Counted \in Nat /\ Cardinality(PrologueWords(fn)) \in Nat
         /\ Counted + Cardinality(PrologueWords(fn)) + 1
              + Cardinality(UnitConstants) + Len(unit.globals) <= Demand
         /\ pc = "block" /\ inst < Current.size =>
              Counted + 1 + Cardinality(PrologueWords(fn)) + 1
                + Cardinality(UnitConstants) + Len(unit.globals) <= Demand
         /\ Cardinality(LoadedConstants) \in Nat
         /\ Cardinality(LoadedConstants) <= Cardinality(UnitConstants)
<1>1. /\ unit \in Units /\ total \in Nat /\ total <= UnitEvery
      /\ count \in Nat /\ count <= FunctionEvery /\ inst \in Nat
      /\ UnitEvery \in Nat /\ FunctionEvery \in Nat /\ BlockEvery \in Nat \ {0}
      /\ fn \in 0 .. Len(unit.functions)
  BY EveryAssumption DEF TypeOK
<1>2. PICK w \in Nat, all \in Nat :
        /\ w = Cardinality(PrologueWords(fn))
        /\ all = Cardinality(PrologueWords(Len(unit.functions)))
        /\ w <= all
  BY <1>1, PrologueFacts, DemandFacts
<1>3. PICK m \in Nat, k \in Nat, g \in Nat :
        m = Min({Longest, BlockEvery}) /\ k = Cardinality(UnitConstants) /\ g = Len(unit.globals)
  BY <1>1, DemandFacts
<1>4. Demand = UnitEvery + FunctionEvery + m + (all + k) + 1 + g
  BY <1>1, <1>2, <1>3, DemandFacts
<1>5. PICK c \in Nat : /\ c = (IF pc \in {"function", "block"} THEN count ELSE 0)
                       /\ c <= FunctionEvery
  BY <1>1
<1>6. PICK i \in Nat : /\ i = (IF pc = "block" THEN inst % BlockEvery ELSE 0)
                       /\ i <= m
                       /\ pc = "block" /\ inst < Current.size => i + 1 <= m
  <2>1. CASE pc = "block"
    <3>1. inst % BlockEvery \in 0 .. BlockEvery - 1 /\ inst % BlockEvery <= inst
      BY <1>1, Remainders
    <3>2. Current.size <= Longest /\ Current.size \in Nat /\ inst <= Current.size
      <4>1. fn \in 1 .. Len(unit.functions) /\ block \in 0 .. Len(Function.blocks) /\ block # 0
        BY <2>1 DEF Progress
      <4>2. block \in 1 .. Len(unit.functions[fn].blocks)
        BY <1>1, <4>1, UnitFacts DEF Function
      <4>3. Current.size = unit.functions[fn].blocks[block].size
        BY DEF Current, Function
      <4>4. inst \in 0 .. Current.size
        BY <2>1 DEF Progress
      <4> QED BY <1>1, <4>1, <4>2, <4>3, <4>4, LongestFacts, UnitFacts
    <3>3. Longest \in Nat
      BY <1>1, LongestFacts
    <3>4. PICK j \in Nat, s \in Nat, z \in Nat, b \in Nat :
            j = inst % BlockEvery /\ s = Current.size /\ z = Longest /\ b = BlockEvery
      BY <1>1, <3>1, <3>2, <3>3
    <3>5. j < b /\ j <= inst /\ s <= z /\ inst <= s
      BY <1>1, <3>1, <3>2, <3>4
    <3>6. j <= z /\ j <= b /\ (inst < s => j + 1 <= z /\ j + 1 <= b)
      BY <1>1, <3>5
    <3>7. \A x \in Nat : x <= z /\ x <= b => x <= m
      BY <1>1, <1>3, <3>4, DemandFacts
    <3>8. j <= m /\ (inst < s => j + 1 <= m)
      BY <3>6, <3>7
    <3> QED BY <2>1, <3>4, <3>8
  <2>2. CASE pc # "block"
    BY <2>2
  <2> QED BY <2>1, <2>2
<1>7. Counted = total + c + i
  BY <1>5, <1>6 DEF Counted
<1>8. /\ Counted \in Nat /\ Counted + w + 1 + k + g <= Demand
      /\ pc = "block" /\ inst < Current.size => Counted + 1 + w + 1 + k + g <= Demand
  <2>1. total + c <= UnitEvery + FunctionEvery
    BY <1>1, <1>5
  <2>2. ASSUME NEW x \in Nat, x <= m PROVE (total + c + x) + w + 1 + k + g <= Demand
    <3>1. total + c + x <= UnitEvery + FunctionEvery + m
      BY <1>1, <2>1, <2>2
    <3>2. total + c + x + w <= UnitEvery + FunctionEvery + m + all
      BY <1>1, <1>2, <3>1
    <3>3. total + c + x + w + 1 + k + g <= UnitEvery + FunctionEvery + m + all + 1 + k + g
      BY <1>1, <3>2
    <3> QED BY <1>1, <1>4, <3>3
  <2>3. total + c + i \in Nat /\ total + c + (i + 1) = total + c + i + 1
    BY <1>1
  <2>4. ASSUME pc = "block", inst < Current.size PROVE Counted + 1 + w + 1 + k + g <= Demand
    <3>1. i + 1 \in Nat /\ i + 1 <= m
      BY <1>6, <2>4
    <3>2. (total + c + (i + 1)) + w + 1 + k + g <= Demand
      BY <2>2, <3>1
    <3> QED BY <1>7, <2>3, <3>2
  <2> QED BY <1>6, <1>7, <2>2, <2>3, <2>4
<1>9. /\ Cardinality(LoadedConstants) \in Nat
      /\ Cardinality(LoadedConstants) <= Cardinality(UnitConstants)
  <2>1. LoadedConstants \in SUBSET UnitConstants
    BY DEF LoadedConstants
  <2> QED BY <1>1, <2>1, ConstantFacts, FS_Subset, FS_CardinalityType
<1> QED BY <1>2, <1>3, <1>8, <1>9

\* A pool that comes in time is near all that wait for it.
LEMMA PoolIsNear ==
  ASSUME unit \in Units, n \in Nat, NEW R, NEW L, NEW at, Text(R, L, at),
         NEW c \in Nat, NEW g \in Nat, c >= at, g >= at,
         NEW marks, NEW new, PoolOf(R, L, at, c, g, marks, new),
         pos' <= at + 1 + Cardinality(L) + Len(unit.globals),
         NEW reach \in Nat, NearBy(R, L, at, reach),
         reach + 1 + Cardinality(L) + Len(unit.globals) <= Demand
  PROVE  AllNear'
<1>1. at \in Nat /\ L \in SUBSET (0 .. at - 1) /\ \A r \in R : r.at \in 0 .. at - 1
  BY DEF Text, Places
<1>2. /\ defined' = (defined \cup Constants(L, c)) \cup GlobalEnd(g) \cup marks
      /\ unit' = unit /\ refs' = R /\ pos' \in Nat
      /\ c + Cardinality(L) <= pos' /\ g + Len(unit.globals) <= pos'
  BY DEF PoolOf
<1>3. /\ \A d \in Constants(L, c) : d.at \in c .. c + Cardinality(L) - 1
      /\ Cardinality(L) \in Nat
  BY <1>1, ConstantPlaces
<1>4. \A d \in GlobalEnd(g) : d.at \in g .. g + Len(unit.globals) - 1
  BY AddressPlaces
<1>5. Len(unit.globals) \in Nat /\ Demand \in Nat
  BY DemandFacts
<1>6. Demand' = Demand
  BY <1>2 DEF Demand, Longest, Uncounted, PrologueWords, UnitConstants, FunctionConstants,
              FrameConstant, BlockConstants
<1>7. ASSUME NEW d, d \in Constants(L, c) \/ d \in GlobalEnd(g) PROVE d.at \in at .. pos' - 1
  <2>0. PICK e \in Nat, a \in Nat, l \in Nat, k \in Nat :
          /\ e = pos' /\ a = at /\ l = Cardinality(L) /\ k = Len(unit.globals)
          /\ c >= a /\ g >= a /\ c + l <= e /\ g + k <= e
    BY <1>1, <1>2, <1>3, <1>5
  <2>1. CASE d \in Constants(L, c)
    <3>1. d.at \in c .. c + l - 1
      BY <1>3, <2>0, <2>1
    <3>2. c \in Nat /\ c >= a /\ c + l <= e
      BY <2>0
    <3>3. d.at \in a .. e - 1
      BY <3>1, <3>2, InsideTheRange
    <3> QED BY <2>0, <3>3
  <2>2. CASE d \in GlobalEnd(g)
    <3>1. d.at \in g .. g + k - 1
      BY <1>4, <2>0, <2>2
    <3>2. g \in Nat /\ g >= a /\ g + k <= e
      BY <2>0
    <3>3. d.at \in a .. e - 1
      BY <3>1, <3>2, InsideTheRange
    <3> QED BY <2>0, <3>3
  <2> QED BY <1>7, <2>1, <2>2
<1>9. /\ \A p \in L : \E d \in Constants(L, c) : d.label = ConstantAt(p)
      /\ \A l : IsAddress(l, n) => \E d \in GlobalEnd(g) : d.label = l
  BY PoolLabels
<1>8. ASSUME NEW r \in R PROVE \E d \in defined' : d.label = r.to /\ d.at \in r.at + 1 .. r.at + Demand
  <2>1. CASE \E d \in Found(r) : d.at \in r.at + 1 .. r.at + Demand
    BY <1>2, <2>1 DEF Found
  <2>2. CASE Awaits(r, L) /\ at <= r.at + reach
    <3>1. ASSUME NEW d, d.at \in at .. pos' - 1 PROVE d.at \in r.at + 1 .. r.at + Demand
      <4>0. r.at \in Nat /\ Cardinality(L) \in Nat /\ Len(unit.globals) \in Nat /\ pos' \in Nat
        BY <1>1, <1>2, <1>3, <1>5
      <4>1. PICK k \in Nat, l \in Nat, e \in Nat, a \in Nat :
              k = Cardinality(L) /\ l = Len(unit.globals) /\ e = pos' /\ a = r.at
        BY <4>0
      <4>2. a < at /\ at <= a + reach /\ e <= at + 1 + k + l /\ reach + 1 + k + l <= Demand
        BY <1>1, <2>2, <4>1
      <4>3. e <= a + Demand
        BY <1>1, <1>5, <4>2
      <4>7. d.at \in at .. e - 1
        BY <3>1, <4>1
      <4>4. PICK x \in Nat : x = d.at /\ at <= x /\ x <= e - 1
        BY <1>1, <4>7
      <4>5. a + 1 <= x /\ x <= a + Demand
        BY <1>1, <1>5, <4>2, <4>3, <4>4
      <4>6. x \in a + 1 .. a + Demand
        BY <1>5, <4>5
      <4> QED BY <4>1, <4>4, <4>6
    <3>2. CASE r.to = ConstantAt(r.at) /\ r.at \in L
      <4>1. PICK d \in Constants(L, c) : d.label = ConstantAt(r.at)
        BY <3>2, <1>9
      <4> QED BY <1>2, <1>7, <3>1, <3>2, <4>1
    <3>3. CASE IsAddress(r.to, n)
      <4>1. PICK d \in GlobalEnd(g) : d.label = r.to
        BY <3>3, <1>9
      <4> QED BY <1>2, <1>7, <3>1, <4>1
    <3> QED BY <2>2, <3>2, <3>3 DEF Awaits
  <2> QED BY <2>1, <2>2 DEF NearBy
<1> QED BY <1>2, <1>6, <1>8 DEF AllNear, Found

\* What NearInv says before a step.
LEMMA NearFacts ==
  ASSUME NearInv
  PROVE  /\ TextInv /\ TypeOK /\ Progress /\ unit \in Units /\ n \in Nat /\ pos \in Nat
         /\ Text(refs, literals, pos) /\ Demand \in Nat
         /\ \E reach \in Nat :
              /\ reach = Counted + Cardinality(PrologueWords(fn))
              /\ NearBy(refs, literals, pos, reach)
              /\ reach + 1 + Cardinality(literals) + Len(unit.globals) <= Demand
         /\ IsFiniteSet(literals) /\ Cardinality(literals) \in Nat
         /\ Cardinality(literals) <= Cardinality(LoadedConstants)
         /\ Cardinality(LoadedConstants) \in Nat
         /\ Counted \in Nat /\ Cardinality(PrologueWords(fn)) \in Nat
<1>1. /\ TextInv /\ TypeOK /\ Progress /\ unit \in Units /\ n \in Nat /\ pos \in Nat
      /\ Text(refs, literals, pos)
  BY DEF NearInv, TextInv, TypeOK
<1>2. literals \in SUBSET (0 .. pos - 1) /\ IsFiniteSet(0 .. pos - 1)
  BY <1>1, FS_Interval DEF TypeOK
<1>3. IsFiniteSet(literals) /\ Cardinality(literals) \in Nat
  BY <1>2, FS_Subset, FS_CardinalityType
<1>4. PICK reach \in Nat, l \in Nat, c \in Nat, k \in Nat, g \in Nat :
        /\ reach = Counted + Cardinality(PrologueWords(fn)) /\ l = Cardinality(literals)
        /\ c = Cardinality(LoadedConstants) /\ k = Cardinality(UnitConstants)
        /\ g = Len(unit.globals)
        /\ reach + 1 + k + g <= Demand /\ c <= k /\ l <= c
  <2>1. Counted + Cardinality(PrologueWords(fn)) \in Nat
    BY <1>1, CountedFacts
  <2>2. Cardinality(literals) <= Cardinality(LoadedConstants)
    BY DEF NearInv
  <2> QED BY <1>1, <1>3, <2>1, <2>2, CountedFacts, DemandFacts
<1>5. reach + 1 + l + g <= Demand
  <2>1. PICK d \in Nat : d = Demand
    BY <1>1, DemandFacts
  <2>2. c <= k /\ l <= c /\ reach + 1 + k + g <= d
    BY <1>4, <2>1
  <2>3. reach + 1 + l + g <= d
    BY <2>2
  <2> QED BY <2>1, <2>3
<1>6. NearBy(refs, literals, pos, reach)
  BY <1>4 DEF NearInv
<1> QED BY <1>1, <1>3, <1>4, <1>5, <1>6, DemandFacts, CountedFacts

\* The bounds do not change.
LEMMA DemandStays == unit' = unit => Demand' = Demand /\ UnitConstants' = UnitConstants
  BY DEF Demand, Longest, Uncounted, PrologueWords, UnitConstants, FunctionConstants,
         FrameConstant, BlockConstants

\* After a pool every load has its word near it, and no constant waits.
LEMMA NearAfterPool ==
  ASSUME unit \in Units, unit' = unit, AllNear', literals' = {}, TypeOK', Progress', TextInv',
         (pc \in {"function", "block"} => count <= size)'
  PROVE  NearInv'
<1>1. NearBy(refs, literals, pos, Counted + Cardinality(PrologueWords(fn)))'
  BY DEF AllNear, NearBy
<1>2. (TypeOK /\ Progress => Cardinality(LoadedConstants) \in Nat)'
  BY CountedFacts, PTL
<1>3. Cardinality(literals') = 0
  BY FS_EmptySet
<1> QED BY <1>1, <1>2, <1>3 DEF NearInv

\* The loads wait on, with more printed and counted.
LEMMA NearGoesOn ==
  ASSUME unit' = unit, NEW R, refs' = R, n' = n, defined' = defined,
         NEW L, literals' = L, NEW at, pos' = at,
         NEW reach \in Nat, NearBy(R, L, at, reach), at \in Nat, \A r \in R : r.at \in Nat,
         reach <= (Counted + Cardinality(PrologueWords(fn)))',
         (Counted + Cardinality(PrologueWords(fn)))' \in Nat
  PROVE  NearBy(refs, literals, pos, Counted + Cardinality(PrologueWords(fn)))'
<1>1. Demand' = Demand
  BY DemandStays
<1>2. PICK x \in Nat : x = (Counted + Cardinality(PrologueWords(fn)))'
  OBVIOUS
<1>3. \A r : Awaits(r, L)' <=> Awaits(r, L)
  BY DEF Awaits, IsAddress
<1>4. \A r : Found(r)' = Found(r)
  BY DEF Found
<1>5. \A r \in R : at <= r.at + reach => at <= r.at + x
  BY <1>2
<1> QED BY <1>1, <1>2, <1>3, <1>4, <1>5 DEF NearBy

\* More constants are loaded as the printing goes on.
LEMMA LoadedGrows ==
  ASSUME unit \in Units, unit' = unit, LoadedConstants \subseteq LoadedConstants'
  PROVE  /\ Cardinality(LoadedConstants) <= Cardinality(LoadedConstants')
         /\ \A x \in LoadedConstants' \ LoadedConstants :
              Cardinality(LoadedConstants) + 1 <= Cardinality(LoadedConstants')
<1>1. LoadedConstants' \in SUBSET UnitConstants /\ LoadedConstants \in SUBSET UnitConstants
  BY DemandStays DEF LoadedConstants
<1>2. /\ IsFiniteSet(LoadedConstants) /\ IsFiniteSet(LoadedConstants')
      /\ Cardinality(LoadedConstants) \in Nat /\ Cardinality(LoadedConstants') \in Nat
  BY <1>1, ConstantFacts, FS_Subset, FS_CardinalityType
<1>3. Cardinality(LoadedConstants) <= Cardinality(LoadedConstants')
  BY <1>2, FS_Subset
<1>4. ASSUME NEW x \in LoadedConstants' \ LoadedConstants
      PROVE  Cardinality(LoadedConstants) + 1 <= Cardinality(LoadedConstants')
  <2>1. LoadedConstants \cup {x} \in SUBSET LoadedConstants'
    OBVIOUS
  <2>2. /\ Cardinality(LoadedConstants \cup {x}) = Cardinality(LoadedConstants) + 1
        /\ Cardinality(LoadedConstants \cup {x}) <= Cardinality(LoadedConstants')
    BY <1>2, <2>1, FS_AddElement, FS_Subset
  <2> QED BY <2>2
<1> QED BY <1>3, <1>4

\* One more element is at most one more.
LEMMA AtMostOneMore ==
  ASSUME NEW S, IsFiniteSet(S), NEW x
  PROVE  /\ IsFiniteSet(S \cup {x}) /\ Cardinality(S \cup {x}) \in Nat
         /\ Cardinality(S \cup {x}) <= Cardinality(S) + 1
<1>1. /\ IsFiniteSet(S \cup {x}) /\ Cardinality(S \cup {x}) \in Nat /\ Cardinality(S) \in Nat
      /\ Cardinality(S \cup {x}) = IF x \in S THEN Cardinality(S) ELSE Cardinality(S) + 1
  BY FS_AddElement, FS_CardinalityType
<1> QED BY <1>1

\* The pool of a function or of the unit.
LEMMA FunctionPoolNear ==
  ASSUME NearInv, FunctionPool(literals, pos), unit' = unit, refs' = refs
  PROVE  AllNear' /\ literals' = {}
<1>1. PICK reach \in Nat :
        /\ NearBy(refs, literals, pos, reach)
        /\ reach + 1 + Cardinality(literals) + Len(unit.globals) <= Demand
  BY NearFacts
<1>2. /\ unit \in Units /\ n \in Nat /\ Text(refs, literals, pos) /\ IInv /\ pos \in Nat
      /\ Cardinality(literals) \in Nat
  BY NearFacts DEF TextInv
<1>3. Len(unit.globals) \in Nat
  BY <1>2, DemandFacts
<1>4. Pool(FunctionLabel(n), FunctionLabel(n), literals, pos) /\ IsMark(FunctionLabel(n))
      /\ \A d \in defined : d.label # FunctionLabel(n)
  <2>1. NextNumber - 1 = n
    BY <1>2 DEF NextNumber
  <2> QED BY <1>2, <2>1 DEF FunctionPool, IsMark, IInv, NumbersPassed, Passed
<1>5. PICK c \in Nat, g \in Nat : \E marks, new :
        /\ c >= pos /\ g >= pos /\ PoolOf(refs, literals, pos, c, g, marks, new)
        /\ pos' = pos + 1 + Cardinality(literals) + Len(unit.globals)
  BY <1>2, <1>4, PoolTaken
<1>6. PICK marks, new :
        /\ c >= pos /\ g >= pos /\ PoolOf(refs, literals, pos, c, g, marks, new)
        /\ pos' = pos + 1 + Cardinality(literals) + Len(unit.globals)
  BY <1>5
<1>7. pos' <= pos + 1 + Cardinality(literals) + Len(unit.globals)
  BY <1>2, <1>3, <1>6
<1>8. AllNear'
  BY <1>1, <1>2, <1>6, <1>7, PoolIsNear
<1> QED BY <1>6, <1>8 DEF PoolOf

\* No pool at the end of a block or a function: nothing is printed.
LEMMA NoPoolNear ==
  ASSUME NearInv, NoPool(literals, pos), UNCHANGED <<unit, refs, fn, block, inst>>,
         Counted' \in Nat, Counted <= Counted', TextInv',
         (pc \in {"function", "block"} => count <= size)'
  PROVE  NearInv'
<1>1. /\ unit' = unit /\ refs' = refs /\ n' = n /\ defined' = defined
      /\ literals' = literals /\ pos' = pos
  BY DEF NoPool
<1>2. PICK reach \in Nat :
        /\ reach = Counted + Cardinality(PrologueWords(fn))
        /\ NearBy(refs, literals, pos, reach)
  BY NearFacts
<1>3. LoadedConstants' = LoadedConstants
  BY <1>1, DemandStays DEF LoadedConstants
<1>4. Cardinality(PrologueWords(fn))' = Cardinality(PrologueWords(fn))
  BY <1>1 DEF PrologueWords
<1>5. /\ reach <= (Counted + Cardinality(PrologueWords(fn)))'
      /\ (Counted + Cardinality(PrologueWords(fn)))' \in Nat
  BY <1>2, <1>4, NearFacts
<1>6. pos \in Nat /\ \A r \in refs : r.at \in Nat
  BY NearFacts DEF TypeOK
<1>7. NearBy(refs, literals, pos, Counted + Cardinality(PrologueWords(fn)))'
  BY <1>1, <1>2, <1>5, <1>6, NearGoesOn
<1> QED BY <1>1, <1>3, <1>7, NearFacts DEF NearInv

\* A function begins.
LEMMA BeginFunctionNear ==
  ASSUME NearInv, BeginFunction, TextInv'
  PROVE  NearInv'
<1> DEFINE f == unit.functions[fn + 1]
           p == pos + Prologue(f) - 2
<1>1. /\ unit' = unit /\ fn' = fn + 1 /\ block' = 0 /\ count' = 0 /\ size' = 0 /\ pc' = "function"
      /\ total' = total /\ n' = n /\ defined' = defined /\ inst' = inst /\ pc = "unit"
      /\ pos' = pos + Prologue(f)
  BY DEF BeginFunction
<1>2. /\ unit \in Units /\ pos \in Nat /\ fn \in 0 .. Len(unit.functions)
      /\ fn < Len(unit.functions) /\ inst \in Nat /\ total \in Nat
      /\ \A r \in refs : r.at \in 0 .. pos - 1
  <2>1. TypeOK /\ fn < Len(unit.functions)
    BY NearFacts DEF BeginFunction
  <2>2. unit \in Units /\ fn \in 0 .. Len(unit.functions) /\ inst \in Nat /\ pos \in Nat
    BY <2>1 DEF TypeOK
  <2>3. total \in Nat
    BY <2>1, EveryAssumption DEF TypeOK
  <2>4. \A r \in refs : r.at \in 0 .. pos - 1
    BY <2>1 DEF TypeOK
  <2> QED BY <2>1, <2>2, <2>3, <2>4
<1>3. fn + 1 \in 1 .. Len(unit.functions) /\ fn \in Nat
  BY <1>2, UnitFacts
<1>4. Prologue(f) \in Nat \ {0, 1} /\ (f.frame => Prologue(f) >= 4)
  BY <1>2, <1>3, UnitFacts
<1>5. Counted = total /\ Counted' = total
  BY <1>1, <1>2 DEF Counted
<1>6. PICK w \in Nat, v \in Nat :
        /\ w = Cardinality(PrologueWords(fn)) /\ v = Cardinality(PrologueWords(fn))'
        /\ v = w + Prologue(f)
  <2>1. Cardinality(PrologueWords(fn))' = Cardinality(PrologueWords(fn + 1))
    BY <1>1 DEF PrologueWords
  <2>2. /\ Cardinality(PrologueWords(fn)) \in Nat
        /\ Cardinality(PrologueWords(fn + 1)) = Cardinality(PrologueWords(fn)) + Prologue(f)
    BY <1>2, PrologueFacts
  <2> QED BY <1>4, <2>1, <2>2
<1>7. PICK reach \in Nat : reach = total + w /\ NearBy(refs, literals, pos, reach)
  BY <1>5, <1>6, NearFacts
<1>8. PICK R, L :
        /\ R = refs' /\ L = literals'
        /\ NearBy(R, L, pos', total + v) /\ \A r \in R : r.at \in Nat
        /\ Cardinality(L) <= Cardinality(LoadedConstants')
  <2>1. LoadedConstants \subseteq LoadedConstants' /\ \A x \in LoadedConstants : x[1] <= fn
    <3>1. \A x \in UnitConstants : x[1] \in Nat
      BY <1>2, ConstantFacts
    <3>2. ASSUME NEW x \in LoadedConstants PROVE x[1] <= fn
      BY <1>3, <3>1 DEF LoadedConstants
    <3>3. ASSUME NEW x \in LoadedConstants PROVE x[1] < fn'
      BY <1>1, <1>3, <3>1, <3>2 DEF LoadedConstants
    <3> QED BY <1>1, <3>2, <3>3, DemandStays DEF LoadedConstants
  <2>2. ASSUME NEW r \in refs, NEW M, literals \subseteq M
        PROVE  \/ Awaits(r, M) /\ pos' <= r.at + (total + v)
               \/ \E d \in Found(r) : d.at \in r.at + 1 .. r.at + Demand
    <3>1. CASE Awaits(r, literals) /\ pos <= r.at + reach
      <4>1. Awaits(r, M)
        BY <2>2, <3>1 DEF Awaits
      <4>2. PICK a \in Nat, q \in Nat : a = r.at /\ q = Prologue(f)
        BY <1>2, <1>4
      <4>3. pos + q <= a + (total + w) + q
        BY <1>2, <1>7, <3>1, <4>2
      <4>4. pos' <= a + (total + v)
        <5>1. pos' = pos + q /\ v = w + q
          BY <1>1, <1>6, <4>2
        <5>2. (total + w) + q = total + v
          BY <1>2, <5>1
        <5>3. pos + q <= a + ((total + w) + q)
          BY <1>2, <4>3
        <5> QED BY <5>1, <5>2, <5>3
      <4> QED BY <4>1, <4>2, <4>4
    <3> QED BY <1>7, <3>1 DEF NearBy
  <2>3. CASE f.frame
    <3> DEFINE r == [to |-> ConstantAt(p), at |-> p]
    <3>1. refs' = refs \cup {r} /\ literals' = literals \cup {p}
      BY <2>3 DEF BeginFunction
    <3>2. r.to = ConstantAt(p) /\ r.at = p
      OBVIOUS
    <3>3. p \in Nat /\ pos' = p + 2 /\ total + v >= 2 /\ total + v \in Nat
      <4>1. PICK q \in Nat : q = Prologue(f) /\ q >= 4
        BY <1>4, <2>3
      <4>2. p = pos + q - 2 /\ pos' = pos + q /\ v = w + q
        BY <1>1, <1>6, <4>1
      <4>3. PICK x \in Nat, t \in Nat : x = pos /\ t = total
        BY <1>2
      <4>4. PICK y, z : y = p /\ z = pos'
        OBVIOUS
      <4>5. y = x + q - 2 /\ z = x + q
        BY <4>2, <4>3, <4>4
      <4>6. y \in Nat /\ z = y + 2
        BY <4>1, <4>5
      <4>7. t + v >= 2 /\ t + v \in Nat
        BY <4>1, <4>2
      <4> QED BY <4>3, <4>6, <4>7, <4>4
    <3> HIDE DEF p, r
    <3>4. Awaits(r, literals \cup {p}) /\ pos' <= r.at + (total + v)
      <4>1. pos' <= p + (total + v)
        BY <3>3
      <4> QED BY <3>2, <4>1 DEF Awaits
    <3>5. NearBy(refs \cup {r}, literals \cup {p}, pos', total + v)
      BY <2>2, <3>4 DEF NearBy
    <3>6. Cardinality(literals \cup {p}) <= Cardinality(LoadedConstants')
      <4>1. Cardinality(literals \cup {p}) <= Cardinality(literals) + 1
        BY NearFacts, AtMostOneMore
      <4>2. <<fn + 1, 0, 0>> \in LoadedConstants' \ LoadedConstants
        <5>1. <<fn + 1, 0, 0>> \in UnitConstants
          BY <1>2, <1>3, <2>3, ConstantFacts
        <5>2. <<fn + 1, 0, 0>> \in LoadedConstants'
          BY <1>1, <1>2, <5>1, DemandStays DEF LoadedConstants
        <5>3. <<fn + 1, 0, 0>> \notin LoadedConstants
          BY <1>3 DEF LoadedConstants
        <5> QED BY <5>2, <5>3
      <4>3. Cardinality(LoadedConstants) + 1 <= Cardinality(LoadedConstants')
        BY <1>1, <1>2, <2>1, <4>2, LoadedGrows
      <4>4. Cardinality(literals \cup {p}) \in Nat /\ Cardinality(LoadedConstants') \in Nat
        <5>1. IsFiniteSet(literals \cup {p})
          BY NearFacts, FS_AddElement
        <5>2. LoadedConstants' \in SUBSET UnitConstants
          BY <1>1, DemandStays DEF LoadedConstants
        <5> QED BY <1>2, <5>1, <5>2, ConstantFacts, FS_Subset, FS_CardinalityType
      <4> QED BY <4>1, <4>3, <4>4, NearFacts
    <3>7. \A x \in refs \cup {r} : x.at \in Nat
      BY <1>2, <3>2, <3>3
    <3> QED BY <3>1, <3>5, <3>6, <3>7
  <2>4. CASE ~ f.frame
    <3>1. refs' = refs /\ literals' = literals
      BY <2>4 DEF BeginFunction
    <3>2. NearBy(refs, literals, pos', total + v)
      BY <2>2 DEF NearBy
    <3>3. Cardinality(literals) <= Cardinality(LoadedConstants')
      <4>1. Cardinality(LoadedConstants) <= Cardinality(LoadedConstants')
        BY <1>1, <1>2, <2>1, LoadedGrows
      <4>2. Cardinality(LoadedConstants') \in Nat
        <5>2. LoadedConstants' \in SUBSET UnitConstants
          BY <1>1, DemandStays DEF LoadedConstants
        <5> QED BY <1>2, <5>2, ConstantFacts, FS_Subset, FS_CardinalityType
      <4> QED BY <4>1, <4>2, NearFacts
    <3>4. \A x \in refs : x.at \in Nat
      BY <1>2
    <3> QED BY <3>1, <3>2, <3>3, <3>4
  <2> QED BY <2>3, <2>4
<1>9. (Counted + Cardinality(PrologueWords(fn)))' = total + v
  BY <1>5, <1>6
<1>10. NearBy(refs, literals, pos, Counted + Cardinality(PrologueWords(fn)))'
  <2>1. total + v \in Nat /\ total + v <= total + v /\ pos' \in Nat
    BY <1>1, <1>2, <1>4
  <2> QED BY <1>1, <1>8, <1>9, <2>1, NearGoesOn
<1>11. 0 <= 0
  OBVIOUS
<1> QED BY <1>1, <1>8, <1>10, <1>11 DEF NearInv

\* An instruction is printed, and perhaps the pool of its block.
LEMMA PrintInstructionNear ==
  ASSUME NearInv, PrintInstruction, TextInv'
  PROVE  NearInv'
<1> DEFINE mark == BlockLabel(label)
           x == <<fn, block, inst + 1>>
<1>1. /\ unit' = unit /\ fn' = fn /\ block' = block /\ inst' = inst + 1 /\ pc' = "block"
      /\ count' = count /\ size' = size /\ total' = total /\ pc = "block" /\ inst < Current.size
  BY DEF PrintInstruction
<1>2. /\ unit \in Units /\ pos \in Nat /\ inst \in Nat /\ total \in Nat /\ count \in Nat
      /\ n \in Nat /\ label \in Nat /\ IInv /\ TypeOK /\ Progress
      /\ \A r \in refs : r.at \in 0 .. pos - 1
  <2>1. TypeOK /\ Progress /\ IInv
    BY NearFacts DEF TextInv
  <2>2. unit \in Units /\ inst \in Nat /\ pos \in Nat /\ n \in Nat /\ label \in Nat
    BY <2>1 DEF TypeOK
  <2>3. total \in Nat /\ count \in Nat
    BY <2>1, EveryAssumption DEF TypeOK
  <2>4. \A r \in refs : r.at \in 0 .. pos - 1
    BY <2>1 DEF TypeOK
  <2> QED BY <2>1, <2>2, <2>3, <2>4
<1>3. PICK L :
        /\ Text(refs', L, pos + 1)
        /\ \A r \in refs' : r \in refs \/ (r.at = pos /\ Awaits(r, L))
        /\ literals \subseteq L /\ L \subseteq literals \cup {pos}
        /\ L # literals => inst + 1 \in DOMAIN Current.loads /\ Current.loads[inst + 1] = 0
        /\ PoolInBlock => Pool(mark, mark, L, pos + 1) /\ label' = label + 1
        /\ ~ PoolInBlock => NoPool(L, pos + 1) /\ label' = label
  BY InstructionText DEF NearInv
<1>4. PICK reach \in Nat :
        /\ reach = Counted + Cardinality(PrologueWords(fn))
        /\ NearBy(refs, literals, pos, reach)
  BY NearFacts
<1>5. NearBy(refs', L, pos + 1, reach + 1)
  <2> SUFFICES ASSUME NEW r \in refs'
               PROVE  \/ Awaits(r, L) /\ pos + 1 <= r.at + (reach + 1)
                      \/ \E d \in Found(r) : d.at \in r.at + 1 .. r.at + Demand
    BY DEF NearBy
  <2>1. CASE r \in refs /\ Awaits(r, literals) /\ pos <= r.at + reach
    <3>1. Awaits(r, L)
      BY <1>3, <2>1 DEF Awaits
    <3>2. pos + 1 <= r.at + (reach + 1)
      BY <1>2, <2>1
    <3> QED BY <3>1, <3>2
  <2>2. CASE r.at = pos /\ Awaits(r, L)
    <3>1. pos + 1 <= r.at + (reach + 1)
      BY <1>2, <2>2
    <3> QED BY <2>2, <3>1
  <2> QED BY <1>3, <1>4, <2>1, <2>2 DEF NearBy
<1>6. LoadedConstants \subseteq LoadedConstants' /\ x \notin LoadedConstants
  <2>1. \A y \in UnitConstants : y[3] \in Nat
    BY <1>2, ConstantFacts
  <2>2. \A y \in LoadedConstants : y[1] = fn /\ y[2] = block => y[3] <= inst
    <3>1. fn \in Int /\ block \in Int
      BY <1>2 DEF TypeOK
    <3> QED BY <3>1 DEF LoadedConstants
  <2>3. \A y \in UnitConstants : y[3] <= inst => y[3] <= inst + 1
    BY <1>2, <2>1
  <2>4. x \notin LoadedConstants
    <3>1. ~ (inst + 1 <= inst)
      BY <1>2
    <3> QED BY <2>2, <3>1
  <2> QED BY <1>1, <2>3, <2>4, DemandStays DEF LoadedConstants
<1>7. /\ Cardinality(L) \in Nat /\ Cardinality(L) <= Cardinality(LoadedConstants')
      /\ Cardinality(LoadedConstants') \in Nat
  <2>1. LoadedConstants' \in SUBSET UnitConstants
    BY <1>1, DemandStays DEF LoadedConstants
  <2>2. Cardinality(LoadedConstants') \in Nat
    BY <1>2, <2>1, ConstantFacts, FS_Subset, FS_CardinalityType
  <2>3. CASE L = literals
    <3>1. Cardinality(LoadedConstants) <= Cardinality(LoadedConstants')
      BY <1>1, <1>2, <1>6, LoadedGrows
    <3> QED BY <2>2, <2>3, <3>1, NearFacts
  <2>4. CASE L # literals
    <3>1. L = literals \cup {pos}
      BY <1>3, <2>4
    <3>2. /\ Cardinality(L) <= Cardinality(literals) + 1 /\ Cardinality(L) \in Nat
      BY <3>1, NearFacts, AtMostOneMore
    <3>3. x \in LoadedConstants' \ LoadedConstants
      <4>1. fn \in 1 .. Len(unit.functions) /\ block \in 1 .. Len(unit.functions[fn].blocks)
        <5>1. fn \in 1 .. Len(unit.functions) /\ block \in 0 .. Len(Function.blocks) /\ block # 0
          BY <1>1, <1>2 DEF Progress
        <5> QED BY <1>2, <5>1, UnitFacts DEF Function
      <4>2. x \in UnitConstants
        BY <1>2, <1>3, <2>4, <4>1, ConstantFacts DEF Current, Function
      <4>3. inst + 1 <= inst + 1
        BY <1>2
      <4>4. x \in LoadedConstants'
        BY <1>1, <4>2, <4>3, DemandStays DEF LoadedConstants
      <4> QED BY <1>6, <4>4
    <3>4. Cardinality(LoadedConstants) + 1 <= Cardinality(LoadedConstants')
      BY <1>1, <1>2, <1>6, <3>3, LoadedGrows
    <3> QED BY <2>2, <3>2, <3>4, NearFacts
  <2> QED BY <2>3, <2>4
<1>8. BlockEvery \in Nat \ {0}
  BY EveryAssumption
<1>9. (pc \in {"function", "block"} => count <= size)'
  BY <1>1 DEF NearInv
<1>10. TypeOK' /\ Progress'
  BY DEF TextInv
<1>11. CASE PoolInBlock
  <2>1. Pool(mark, mark, L, pos + 1) /\ IsMark(mark) /\ \A d \in defined : d.label # mark
    BY <1>2, <1>3, <1>11 DEF IsMark, IInv, NumbersPassed, Passed
  <2>2. PICK c \in Nat, g \in Nat : \E marks, new :
          /\ c >= pos + 1 /\ g >= pos + 1 /\ PoolOf(refs', L, pos + 1, c, g, marks, new)
          /\ pos' = pos + 1 + 1 + Cardinality(L) + Len(unit.globals)
    BY <1>1, <1>2, <1>3, <2>1, PoolTaken
  <2>3. PICK marks, new :
          /\ c >= pos + 1 /\ g >= pos + 1 /\ PoolOf(refs', L, pos + 1, c, g, marks, new)
          /\ pos' = pos + 1 + 1 + Cardinality(L) + Len(unit.globals)
    BY <2>2
  <2>4. reach + 1 + 1 + Cardinality(L) + Len(unit.globals) <= Demand
    <3>1. PICK l \in Nat, k \in Nat, h \in Nat, e \in Nat :
            /\ l = Cardinality(L) /\ k = Cardinality(UnitConstants) /\ h = Len(unit.globals)
            /\ e = Demand
      BY <1>2, <1>7, DemandFacts
    <3>2. Counted + 1 + Cardinality(PrologueWords(fn)) + 1
            + Cardinality(UnitConstants) + Len(unit.globals) <= Demand
      BY <1>1, <1>2, CountedFacts
    <3>3. Counted \in Nat /\ Cardinality(PrologueWords(fn)) \in Nat
      BY NearFacts
    <3>4. reach + 1 + 1 + k + h <= e
      BY <1>4, <3>1, <3>2, <3>3
    <3>5. l <= k
      <4>1. LoadedConstants' \in SUBSET UnitConstants
        BY <1>1, DemandStays DEF LoadedConstants
      <4>2. Cardinality(LoadedConstants') <= Cardinality(UnitConstants)
        BY <1>2, <4>1, ConstantFacts, FS_Subset
      <4>3. Cardinality(L) <= Cardinality(LoadedConstants')
        BY <1>7
      <4> QED BY <1>7, <3>1, <4>2, <4>3
    <3>6. reach + 1 + 1 + l + h <= e
      BY <3>4, <3>5
    <3> QED BY <3>1, <3>6
  <2>5. pos' <= (pos + 1) + 1 + Cardinality(L) + Len(unit.globals)
    BY <1>2, <1>7, <2>3, DemandFacts
  <2>6. AllNear'
    <3>1. reach + 1 \in Nat
      OBVIOUS
    <3> QED BY <1>2, <1>3, <1>5, <2>3, <2>4, <2>5, <3>1, PoolIsNear
  <2>7. literals' = {}
    BY <2>3 DEF PoolOf
  <2> QED BY <1>1, <1>2, <1>9, <1>10, <2>6, <2>7, NearAfterPool
<1>12. CASE ~ PoolInBlock
  <2>1. n' = n /\ defined' = defined /\ pos' = pos + 1 /\ literals' = L
    BY <1>3, <1>12 DEF NoPool
  <2>2. (inst + 1) % BlockEvery = (inst % BlockEvery) + 1 /\ inst % BlockEvery \in Nat
    <3>1. (inst + 1) % BlockEvery # 0
      BY <1>1, <1>12 DEF PoolInBlock
    <3>2. /\ inst % BlockEvery \in 0 .. BlockEvery - 1
          /\ (inst + 1) % BlockEvery # 0 => (inst + 1) % BlockEvery = (inst % BlockEvery) + 1
      BY <1>2, <1>8, Remainders
    <3> QED BY <1>8, <3>1, <3>2
  <2>3. (Counted + Cardinality(PrologueWords(fn)))' = reach + 1
    <3>1. Counted = total + count + (inst % BlockEvery)
      BY <1>1, <1>2, <2>2 DEF Counted
    <3>2. Counted' = total + count + ((inst % BlockEvery) + 1)
      BY <1>1, <1>2, <2>2 DEF Counted
    <3>3. Cardinality(PrologueWords(fn))' = Cardinality(PrologueWords(fn))
      BY <1>1 DEF PrologueWords
    <3>4. Cardinality(PrologueWords(fn)) \in Nat
      BY NearFacts
    <3>5. Counted' = Counted + 1 /\ Counted \in Nat
      BY <1>2, <2>2, <3>1, <3>2
    <3> QED BY <1>4, <3>3, <3>4, <3>5
  <2>4. \A r \in refs' : r.at \in Nat
    BY <1>2, <1>3
  <2>5. reach + 1 \in Nat /\ reach + 1 <= reach + 1 /\ pos + 1 \in Nat
    BY <1>2
  <2>6. NearBy(refs, literals, pos, Counted + Cardinality(PrologueWords(fn)))'
    BY <1>1, <1>5, <2>1, <2>3, <2>4, <2>5, NearGoesOn
  <2> QED BY <1>7, <1>9, <2>1, <2>6 DEF NearInv
<1> QED BY <1>11, <1>12

\* A block begins.
LEMMA BeginBlockNear ==
  ASSUME NearInv, BeginBlock, TextInv'
  PROVE  NearInv'
<1>1. /\ UNCHANGED <<unit, fn, count, size, total, n, pos, literals, refs, defined>>
      /\ block' = block + 1 /\ inst' = 0 /\ pc' = "block" /\ pc = "function"
  BY DEF BeginBlock
<1>2. /\ unit \in Units /\ pos \in Nat /\ inst \in Nat /\ total \in Nat /\ count \in Nat
      /\ block \in Nat /\ fn \in Int /\ \A r \in refs : r.at \in Nat
  <2>1. TypeOK
    BY NearFacts
  <2>2. unit \in Units /\ inst \in Nat /\ pos \in Nat /\ block \in Nat /\ fn \in Int
    BY <2>1 DEF TypeOK
  <2>3. total \in Nat /\ count \in Nat
    BY <2>1, EveryAssumption DEF TypeOK
  <2>4. \A r \in refs : r.at \in Nat
    BY <2>1 DEF TypeOK
  <2> QED BY <2>2, <2>3, <2>4
<1>3. PICK reach \in Nat :
        /\ reach = Counted + Cardinality(PrologueWords(fn))
        /\ NearBy(refs, literals, pos, reach)
  BY NearFacts
<1>4. Counted' = Counted
  <2>1. 0 % BlockEvery = 0
    BY EveryAssumption, Remainders
  <2>2. Counted = total + count + 0
    BY <1>1 DEF Counted
  <2>3. Counted' = total + count + 0
    BY <1>1, <2>1 DEF Counted
  <2> QED BY <2>2, <2>3
<1>5. Cardinality(PrologueWords(fn))' = Cardinality(PrologueWords(fn))
  BY <1>1 DEF PrologueWords
<1>6. NearBy(refs, literals, pos, Counted + Cardinality(PrologueWords(fn)))'
  <2>1. (Counted + Cardinality(PrologueWords(fn)))' = reach /\ reach <= reach
    BY <1>3, <1>4, <1>5
  <2> QED BY <1>1, <1>2, <1>3, <2>1, NearGoesOn
<1>7. Cardinality(literals') <= Cardinality(LoadedConstants')
  <2>1. \A y \in UnitConstants : y[2] \in Nat
    BY <1>2, ConstantFacts
  <2>2. LoadedConstants \subseteq LoadedConstants'
    <3>1. \A y \in UnitConstants : y[2] < block \/ y[2] = block => y[2] < block + 1
      BY <1>2, <2>1
    <3> QED BY <1>1, <3>1, DemandStays DEF LoadedConstants
  <2>3. Cardinality(LoadedConstants) <= Cardinality(LoadedConstants')
    BY <1>1, <1>2, <2>2, LoadedGrows
  <2>4. LoadedConstants' \in SUBSET UnitConstants
    BY <1>1, DemandStays DEF LoadedConstants
  <2>5. Cardinality(LoadedConstants') \in Nat
    BY <1>2, <2>4, ConstantFacts, FS_Subset, FS_CardinalityType
  <2> QED BY <1>1, <2>3, <2>5, NearFacts
<1> QED BY <1>1, <1>6, <1>7 DEF NearInv

\* A block ends, perhaps with the pool of its function.
LEMMA EndBlockNear ==
  ASSUME NearInv, EndBlock, TextInv'
  PROVE  NearInv'
<1>1. /\ UNCHANGED <<unit, fn, block, inst, total, refs>> /\ pc = "block" /\ pc' = "function"
      /\ inst = Current.size /\ size' = size + Current.size
      /\ \/ FunctionPool(literals, pos) /\ count' = 0
         \/ NoPool(literals, pos) /\ count' = count + Current.size
  BY DEF EndBlock, Restarted
<1>2. /\ unit \in Units /\ inst \in Nat /\ total \in Nat /\ count \in Nat /\ size \in Nat
      /\ count <= size
  <2>1. TypeOK
    BY NearFacts
  <2>2. unit \in Units /\ inst \in Nat /\ size \in Nat
    BY <2>1 DEF TypeOK
  <2>3. total \in Nat /\ count \in Nat
    BY <2>1, EveryAssumption DEF TypeOK
  <2> QED BY <1>1, <2>2, <2>3 DEF NearInv
<1>3. count' <= size'
  BY <1>1, <1>2
<1>4. CASE FunctionPool(literals, pos)
  <2>1. AllNear' /\ literals' = {}
    BY <1>1, <1>4, FunctionPoolNear
  <2>2. TypeOK' /\ Progress'
    BY DEF TextInv
  <2> QED BY <1>1, <1>2, <1>3, <2>1, <2>2, NearAfterPool
<1>5. CASE NoPool(literals, pos) /\ count' = count + Current.size
  <2>1. inst % BlockEvery <= inst /\ inst % BlockEvery \in 0 .. BlockEvery - 1
    BY <1>2, EveryAssumption, Remainders
  <2>2. inst % BlockEvery \in Nat
    BY <2>1, EveryAssumption
  <2>3. Counted = total + count + (inst % BlockEvery)
    BY <1>1, <1>2, <2>2 DEF Counted
  <2>4. Counted' = total + (count + inst) + 0
    BY <1>1, <1>5 DEF Counted
  <2>5. Counted <= Counted' /\ Counted' \in Nat
    BY <1>2, <2>1, <2>2, <2>3, <2>4
  <2> QED BY <1>1, <1>3, <1>5, <2>5, NoPoolNear
<1> QED BY <1>1, <1>4, <1>5

\* A function ends, perhaps with the pool of the unit.
LEMMA EndFunctionNear ==
  ASSUME NearInv, EndFunction, TextInv'
  PROVE  NearInv'
<1>1. /\ UNCHANGED <<unit, fn, block, inst, count, size, refs>> /\ pc = "function" /\ pc' = "unit"
      /\ \/ FunctionPool(literals, pos) /\ total' = 0
         \/ NoPool(literals, pos) /\ total' = total + size
  BY DEF EndFunction
<1>2. /\ unit \in Units /\ total \in Nat /\ count \in Nat /\ size \in Nat /\ count <= size
  <2>1. TypeOK
    BY NearFacts
  <2>2. unit \in Units /\ size \in Nat
    BY <2>1 DEF TypeOK
  <2>3. total \in Nat /\ count \in Nat
    BY <2>1, EveryAssumption DEF TypeOK
  <2> QED BY <1>1, <2>2, <2>3 DEF NearInv
<1>3. CASE FunctionPool(literals, pos)
  <2>1. AllNear' /\ literals' = {}
    BY <1>1, <1>3, FunctionPoolNear
  <2>2. TypeOK' /\ Progress'
    BY DEF TextInv
  <2> QED BY <1>1, <1>2, <2>1, <2>2, NearAfterPool
<1>4. CASE NoPool(literals, pos) /\ total' = total + size
  <2>1. Counted = total + count + 0 /\ Counted' = total + size + 0 + 0
    BY <1>1, <1>4 DEF Counted
  <2>2. Counted <= Counted' /\ Counted' \in Nat
    BY <1>2, <2>1
  <2> QED BY <1>1, <1>4, <2>2, NoPoolNear
<1> QED BY <1>1, <1>3, <1>4

\* The last words are printed.
LEMMA FinishNear ==
  ASSUME NearInv, Finish, TextInv'
  PROVE  NearInv'
<1> DEFINE g == pos
           c == pos + Len(unit.globals)
<1>1. /\ unit \in Units /\ n \in Nat /\ pos \in Nat /\ Text(refs, literals, pos)
      /\ Cardinality(literals) \in Nat /\ Len(unit.globals) \in Nat
  BY NearFacts, DemandFacts
<1>2. /\ unit' = unit /\ refs' = refs /\ literals' = {} /\ n' = n + 1
      /\ defined' = (defined \cup Constants(literals, c)) \cup GlobalEnd(g) \cup {}
      /\ pools' = pools \cup {}
      /\ pos' = c + Cardinality(literals) /\ pc' = "done"
  BY DEF Finish, NextNumber
<1>3. c \in Nat /\ c >= pos /\ pos' \in Nat /\ g + Len(unit.globals) <= pos'
  BY <1>1, <1>2
<1>4. pos' <= pos + 1 + Cardinality(literals) + Len(unit.globals)
  BY <1>1, <1>2
<1> HIDE DEF g, c
<1>5. PoolOf(refs, literals, pos, c, g, {}, {})
  BY <1>2, <1>3 DEF PoolOf
<1>6. g \in Nat /\ g >= pos
  BY <1>1 DEF g
<1>7. PICK reach \in Nat :
        /\ NearBy(refs, literals, pos, reach)
        /\ reach + 1 + Cardinality(literals) + Len(unit.globals) <= Demand
  BY NearFacts
<1>8. AllNear'
  BY <1>1, <1>3, <1>4, <1>5, <1>6, <1>7, PoolIsNear
<1>9. TypeOK' /\ Progress'
  BY DEF TextInv
<1>10. (pc \in {"function", "block"} => count <= size)'
  BY <1>2
<1> QED BY <1>1, <1>2, <1>8, <1>9, <1>10, NearAfterPool

\* Nothing is far at first ...
LEMMA InitialNear == Init => NearInv
<1> SUFFICES ASSUME Init PROVE NearInv
  OBVIOUS
<1>1. TextInv
  BY InitialText
<1>2. NearBy(refs, literals, pos, Counted + Cardinality(PrologueWords(fn)))
  BY DEF Init, NearBy
<1>3. literals = {} /\ pc = "unit"
  BY DEF Init
<1>4. Cardinality(LoadedConstants) \in Nat
  BY <1>1, CountedFacts DEF TextInv
<1>5. Cardinality(literals) = 0
  BY <1>3, FS_EmptySet
<1> QED BY <1>1, <1>2, <1>3, <1>4, <1>5 DEF NearInv

\* ... and no step leaves a load behind.
LEMMA StepNear == NearInv /\ [Next]_vars => NearInv'
<1> SUFFICES ASSUME NearInv, [Next]_vars PROVE NearInv'
  OBVIOUS
<1>1. TextInv'
  BY StepText DEF NearInv
<1>2. CASE BeginFunction
  BY <1>1, <1>2, BeginFunctionNear
<1>3. CASE BeginBlock
  BY <1>1, <1>3, BeginBlockNear
<1>4. CASE PrintInstruction
  BY <1>1, <1>4, PrintInstructionNear
<1>5. CASE EndBlock
  BY <1>1, <1>5, EndBlockNear
<1>6. CASE EndFunction
  BY <1>1, <1>6, EndFunctionNear
<1>7. CASE Finish
  BY <1>1, <1>7, FinishNear
<1>8. CASE Finished \/ UNCHANGED vars
  <2>1. UNCHANGED vars
    BY <1>8 DEF Finished
  <2>2. /\ Demand' = Demand /\ LoadedConstants' = LoadedConstants /\ Counted' = Counted
        /\ PrologueWords(fn)' = PrologueWords(fn)
    BY <2>1, DemandStays DEF vars, LoadedConstants, Counted, PrologueWords
  <2>3. NearBy(refs, literals, pos, Counted + Cardinality(PrologueWords(fn)))'
    BY <2>1, <2>2 DEF vars, NearInv, NearBy, Awaits, IsAddress, Found
  <2> QED BY <1>1, <2>1, <2>2, <2>3 DEF vars, NearInv
<1> QED BY <1>2, <1>3, <1>4, <1>5, <1>6, <1>7, <1>8 DEF Next

(***************************************************************************)
(* No load is further from its word than the three counters allow          *)
(* together.  Each counter knows a part of the way only, is restarted by   *)
(* its own pool and not by the others, and does not see the prologues and  *)
(* the pools; the bound holds for the sum.                                 *)
(***************************************************************************)
THEOREM PoolsAreNear == Spec => []PoolsNear
<1>1. Init => NearInv
  BY InitialNear
<1>2. NearInv /\ [Next]_vars => NearInv'
  BY StepNear
<1>3. NearInv => PoolsNear
  <2> SUFFICES ASSUME NearInv, NEW r \in refs
               PROVE  \/ pos <= r.at + Demand
                      \/ \E d \in Found(r) : d.at \in r.at + 1 .. r.at + Demand
    BY DEF PoolsNear
  <2>1. PICK reach \in Nat :
          /\ NearBy(refs, literals, pos, reach)
          /\ reach + 1 + Cardinality(literals) + Len(unit.globals) <= Demand
    BY NearFacts
  <2>2. CASE pos <= r.at + reach
    <3>0. /\ Cardinality(literals) \in Nat /\ Demand \in Nat
          /\ Len(unit.globals) \in Nat /\ pos \in Nat /\ r.at \in Nat
      <4>1. TypeOK /\ Cardinality(literals) \in Nat /\ Demand \in Nat /\ unit \in Units
        BY NearFacts
      <4>2. Len(unit.globals) \in Nat
        BY <4>1, DemandFacts
      <4>3. pos \in Nat /\ r.at \in Nat
        BY <4>1 DEF TypeOK
      <4> QED BY <4>1, <4>2, <4>3
    <3>1. PICK l \in Nat, g \in Nat, e \in Nat, a \in Nat, p \in Nat :
            /\ l = Cardinality(literals) /\ g = Len(unit.globals) /\ e = Demand
            /\ a = r.at /\ p = pos
      BY <3>0
    <3>2. reach + 1 + l + g <= e /\ p <= a + reach
      BY <2>1, <2>2, <3>1
    <3>3. p <= a + e
      BY <3>2
    <3> QED BY <3>1, <3>3
  <2> QED BY <2>1, <2>2 DEF NearBy
<1> QED BY <1>1, <1>2, <1>3, PTL DEF Spec
=============================================================================
