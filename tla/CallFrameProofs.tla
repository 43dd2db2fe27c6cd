--------------------------- MODULE CallFrameProofs --------------------------
(***************************************************************************)
(* Whatever the functions, their saved registers and their frames are: a   *)
(* register a function computes in survives the calls it makes, and the    *)
(* stack pointer is where the body and the epilogue expect it.             *)
(***************************************************************************)
EXTENDS CallFrame, MinMaxLemmas, TLAPS, FiniteSetTheorems, SequenceTheorems

-----------------------------------------------------------------------------
(* The activations the stack holds *)

Least(m, n) == IF m <= n THEN m ELSE n

\* The two parts of saved_regs.
GeneralOf(g) == SubSeq(Functions[g].saved, 1, GeneralCount(Functions[g].saved))
FloatOf(g) ==
  SubSeq(Functions[g].saved, GeneralCount(Functions[g].saved) + 1, Len(Functions[g].saved))

\* The float registers the first k chunks hold.
InChunks(g, k) == Least(k * ChunkSize, Len(FloatOf(g)))

\* Words of the stack the arguments of a call to g take, and all its parameters.
StackArgs(g) == Extras(Functions[g].sig, Len(Functions[g].sig))

\* An activation is [fn, base, rest, own]: its function, its frame pointer,
\* sp in its body, and whose word a register has in its body.
EntrySp(x, g) == x.rest - StackArgs(g)
BaseOf(x, g) == EntrySp(x, g) - 2 - Len(Functions[g].saved)

\* Below main: the program that called it.
Ground == [fn |-> 0, base |-> Bottom, rest |-> Bottom, own |-> [r \in Allocatable |-> 0]]
ReturnTo(x, g) == IF x.fn = 0 THEN Site(0, 0) ELSE Site(x.fn, g)

\* What a function g called by x saves in a memory M above b, its base.
LinkSaved(M, x, g, b) ==
  /\ M[b + Len(Functions[g].saved)] = Pointer(x.base)
  /\ M[b + Len(Functions[g].saved) + 1] = ReturnTo(x, g)
GeneralSaved(M, x, g, b) ==
  \A k \in 1 .. Len(GeneralOf(g)) :
    M[b + Len(FloatOf(g)) + k - 1] = Scratch(x.own[GeneralOf(g)[k]], GeneralOf(g)[k])
FloatSaved(M, x, g, b, k) ==
  \A c \in 1 .. k : \A j \in 1 .. Len(Chunk(FloatOf(g), c)) :
    M[b + Len(FloatOf(g)) - InChunks(g, c) + j - 1]
      = Scratch(x.own[Chunk(FloatOf(g), c)[j]], Chunk(FloatOf(g), c)[j])
AllSaved(M, x, g, b) ==
  LinkSaved(M, x, g, b) /\ GeneralSaved(M, x, g, b) /\ FloatSaved(M, x, g, b, Chunks(FloatOf(g)))

\* The activation number d of the function g that x called.
Activated(x, g, d) ==
  [fn   |-> g,
   base |-> BaseOf(x, g),
   rest |-> BaseOf(x, g) - FrameSize(Functions[g]),
   own  |-> [r \in Allocatable |-> IF r \in ToSet(Functions[g].saved) THEN d ELSE x.own[r]]]

\* The activations ch[1], ..., ch[d] that the memory M holds.
Chain(M, ch, d) ==
  /\ ch[0] = Ground
  /\ \A e \in 1 .. d : /\ ch[e].fn \in DOMAIN Functions /\ (e = 1 => ch[e].fn = 1)
                       /\ ch[e] = Activated(ch[e - 1], ch[e].fn, e)
                       /\ AllSaved(M, ch[e - 1], ch[e].fn, ch[e].base)
  /\ \A c, e \in 0 .. d : c < e => ch[e].base < ch[c].rest

-----------------------------------------------------------------------------
(* The inductive invariant *)

\* The registers outside S have the words of the activations that own says.
Kept(own, S) == \A r \in Allocatable \ S : reg[r] = Scratch(own[r], r)

\* The last k arguments of a call of g, for the activation number d, from a on.
ArgumentsAt(g, d, k, a) ==
  \A j \in 0 .. k - 1 : mem[a + j] = Argument(d, Len(Functions[g].sig) - k + 1 + j)

Saves(k) == ToSet(GeneralOf(fun)) \cup {FloatOf(fun)[m] : m \in 1 .. InChunks(fun, k)}

\* Between two bodies: x is the activation that called.
Opening(x) ==
  LET b == BaseOf(x, fun) IN
  /\ depth = 1 => fun = 1
  /\ pc = "push" =>
       i = 1 /\ fp = x.base /\ sp = EntrySp(x, fun) /\ lr = ReturnTo(x, fun) /\ Kept(x.own, {})
  /\ pc = "vpush" =>
       /\ fp = x.base /\ lr = ReturnTo(x, fun) /\ i \in 1 .. Chunks(FloatOf(fun)) + 1
       /\ sp = b + Len(FloatOf(fun)) - InChunks(fun, i - 1)
       /\ Kept(x.own, {})
       /\ LinkSaved(mem, x, fun, b) /\ GeneralSaved(mem, x, fun, b)
       /\ FloatSaved(mem, x, fun, b, i - 1)
  /\ pc = "params" =>
       /\ fp = b /\ sp = b - FrameSize(Fn) /\ i \in 1 .. Len(Fn.sig) + 1
       /\ Kept(x.own, ToSet(Saved)) /\ AllSaved(mem, x, fun, b)
  /\ pc \in {"push", "vpush", "params"} =>
       ArgumentsAt(fun, depth, StackArgs(fun), EntrySp(x, fun))
  /\ pc = "vpop" =>
       /\ fp = b /\ i \in 0 .. Chunks(FloatOf(fun))
       /\ sp = b + Len(FloatOf(fun)) - InChunks(fun, i)
       /\ Kept(x.own, Saves(i))
       /\ LinkSaved(mem, x, fun, b) /\ GeneralSaved(mem, x, fun, b)
       /\ FloatSaved(mem, x, fun, b, i)
  /\ pc = "bx" =>
       fp = x.base /\ sp = EntrySp(x, fun) /\ lr = ReturnTo(x, fun) /\ Kept(x.own, {})

\* In a body, or behind the end: x is the activation.
Running(x) ==
  /\ fun = x.fn /\ fp = x.base /\ Kept(x.own, {})
  /\ pc \in {"body", "exit"} => sp = x.rest
  /\ pc = "args" =>
       /\ callee \in DOMAIN Functions /\ depth < MaxDepth
       /\ i \in 1 .. Len(Sig) + 1 /\ cr = Len(Sig) - Extras(Sig, i - 1)
       /\ sp = x.rest - Extras(Sig, i - 1)
       /\ ArgumentsAt(callee, depth + 1, Extras(Sig, i - 1), sp)
  /\ pc = "return" =>
       callee \in DOMAIN Functions /\ depth < MaxDepth /\ sp = EntrySp(x, callee)

Between == pc \in {"push", "vpush", "params", "vpop", "bx"}

Bounds ==
  /\ pc \in {"body", "args", "push", "vpush", "params", "vpop", "bx", "return", "exit"}
  /\ IF pc = "exit" THEN depth = 0 /\ fun = 0 /\ callee = 0
     ELSE depth \in 1 .. MaxDepth /\ fun \in DOMAIN Functions /\ callee \in DOMAIN Functions
  /\ lr[1] = "site"
  /\ DOMAIN reg = 0 .. 47 /\ \A r \in 0 .. 47 : reg[r] \in DataWords
  /\ DOMAIN mem = 1 .. Bottom

\* ch are the activations; the last of them is x, number d.
Good(ch, d, x) ==
  /\ d = Entered /\ x = ch[d] /\ Bounds /\ Chain(mem, ch, d)
  /\ IF Between THEN Opening(x) ELSE Running(x)

IInv == \E ch, d, x : Good(ch, d, x)

-----------------------------------------------------------------------------
(* Functions *)

\* The registers of arguments are not handed out.
LEMMA AllocatableFacts ==
  ASSUME NEW r \in Allocatable
  PROVE  r \in Nat /\ r \in 0 .. 47 /\ r \notin 0 .. 3 \cup 16 .. 20
  BY DEF Allocatable

\* Counting the parameters on the stack, one at a time.
LEMMA ExtrasFacts ==
  ASSUME NEW sig, NEW m \in Nat
  PROVE  /\ Extras(sig, 0) = 0
         /\ Extras(sig, m) \in 0 .. m
         /\ Extras(sig, m + 1) = Extras(sig, m) + IF InRegister(sig, m + 1) THEN 0 ELSE 1
<1> DEFINE S(k) == {l \in 1 .. k : ~InRegister(sig, l)}
<1>1. \A k \in Nat : IsFiniteSet(S(k)) /\ Cardinality(S(k)) \in 0 .. k
  <2> SUFFICES ASSUME NEW k \in Nat PROVE IsFiniteSet(S(k)) /\ Cardinality(S(k)) \in 0 .. k
    OBVIOUS
  <2>1. IsFiniteSet(1 .. k) /\ Cardinality(1 .. k) = k
    BY FS_Interval
  <2>2. S(k) \subseteq 1 .. k
    OBVIOUS
  <2> HIDE DEF S
  <2>3. IsFiniteSet(S(k)) /\ Cardinality(S(k)) <= k
    BY <2>1, <2>2, FS_Subset
  <2> QED BY <2>3, FS_CardinalityType
<1>2. \A k \in Nat : Extras(sig, k) = Cardinality(S(k))
  BY DEF Extras
<1>3. S(0) = {}
  OBVIOUS
<1>4. CASE InRegister(sig, m + 1)
  <2>1. S(m + 1) = S(m)
    BY <1>4
  <2> HIDE DEF S
  <2>2. Extras(sig, m + 1) = Extras(sig, m)
    BY <1>2, <2>1
  <2> QED BY <1>1, <1>2, <1>3, <1>4, <2>2, FS_EmptySet
<1>5. CASE ~InRegister(sig, m + 1)
  <2>1. S(m + 1) = S(m) \cup {m + 1} /\ m + 1 \notin S(m)
    BY <1>5
  <2> HIDE DEF S
  <2>2. Cardinality(S(m + 1)) = Cardinality(S(m)) + 1
    BY <1>1, <2>1, FS_AddElement
  <2> QED BY <1>1, <1>2, <1>3, <1>5, <2>2, FS_EmptySet
<1> QED BY <1>4, <1>5

\* The registers of arguments.
LEMMA ArgRegisters ==
  ASSUME NEW sig, NEW k \in Nat, InRegister(sig, k)
  PROVE  ArgRegister(sig, k) \in 0 .. 3 \cup 16 .. 20
<1> DEFINE S == {l \in 1 .. k - 1 : sig[l] = sig[k]}
<1>1. IsFiniteSet(1 .. k - 1)
  BY FS_Interval
<1>2. Cardinality(S) \in Nat
  BY <1>1, FS_Subset, FS_CardinalityType
<1>3. RankInBank(sig, k) = Cardinality(S)
  BY DEF RankInBank
<1> HIDE DEF S
<1> QED BY <1>2, <1>3 DEF InRegister, ArgRegister, IntArgs, FpArgs, FirstFp

\* What the assumptions say of a function.
LEMMA FunctionFacts ==
  ASSUME NEW g \in DOMAIN Functions, NEW f, f = Functions[g]
  PROVE  /\ g \in Nat \ {0} /\ g <= Len(Functions)
         /\ Len(f.sig) \in Nat /\ DOMAIN f.sig = 1 .. Len(f.sig)
         /\ Len(f.saved) \in Nat /\ DOMAIN f.saved = 1 .. Len(f.saved)
         /\ \A k \in 1 .. Len(f.saved) : f.saved[k] \in Allocatable
         /\ \A k, l \in 1 .. Len(f.saved) : k < l => f.saved[k] < f.saved[l]
         /\ 4 \in ToSet(f.saved) /\ ToSet(f.saved) \subseteq Allocatable
         /\ FrameSize(f) \in Nat /\ FrameSize(f) > f.locals + Len(f.sig) /\ f.locals >= 1
         /\ f.locals \in Nat
         /\ StackArgs(g) \in Nat
         /\ StackArgs(g) + Len(f.saved) + 2 + FrameSize(f) <= Share
<1>1. /\ DOMAIN Functions = 1 .. Len(Functions) /\ Len(Functions) \in Nat
      /\ f.sig \in Seq({"int", "float"}) /\ f.saved \in Seq(Allocatable) /\ 4 \in ToSet(f.saved)
      /\ \A m, n \in DOMAIN f.saved : m < n => f.saved[m] < f.saved[n]
      /\ f.locals \in Nat \ {0} /\ f.spills \in Nat
      /\ Extras(f.sig, Len(f.sig)) + Len(f.saved) + 2 + FrameSize(f) <= Share
  BY FunctionsAssumption, StackAssumption DEF IsFunction, Footprint
<1>2. /\ Len(f.sig) \in Nat /\ DOMAIN f.sig = 1 .. Len(f.sig)
      /\ Len(f.saved) \in Nat /\ DOMAIN f.saved = 1 .. Len(f.saved)
      /\ \A k \in 1 .. Len(f.saved) : f.saved[k] \in Allocatable
  BY <1>1, LenProperties, ElementOfSeq
<1>3. ToSet(f.saved) \subseteq Allocatable
  BY <1>2 DEF ToSet
<1>4. StackSize(f) \in Nat /\ StackSize(f) > f.locals + Len(f.sig)
  <2>1. PICK a \in Nat, b \in Nat, c \in Nat :
          a = f.locals /\ b = f.spills /\ c = Len(f.sig)
    BY <1>1, <1>2
  <2> QED BY <2>1 DEF StackSize
<1>5. FrameSize(f) \in Nat /\ FrameSize(f) >= StackSize(f)
  BY <1>4 DEF FrameSize
<1>6. StackArgs(g) \in Nat /\ StackArgs(g) = Extras(f.sig, Len(f.sig))
  BY <1>2, ExtrasFacts DEF StackArgs
<1>7. FrameSize(f) > f.locals + Len(f.sig)
  <2>1. PICK a \in Nat, b \in Nat : a = f.locals + Len(f.sig) /\ b = StackSize(f)
    BY <1>1, <1>2, <1>4
  <2> QED BY <1>4, <1>5, <2>1
<1>8. g \in Nat \ {0} /\ g <= Len(Functions)
  BY <1>1
<1>9. StackArgs(g) + Len(f.saved) + 2 + FrameSize(f) <= Share
  BY <1>1, <1>6
<1>10. f.locals \in Nat /\ f.locals >= 1
  BY <1>1
<1> QED BY <1>1, <1>2, <1>3, <1>5, <1>6, <1>7, <1>8, <1>9, <1>10

\* saved_regs is its general registers and then its float registers.
LEMMA SavedSplit ==
  ASSUME NEW g \in DOMAIN Functions, NEW s, s = Functions[g].saved
  PROVE  /\ Len(GeneralOf(g)) \in Nat /\ Len(FloatOf(g)) \in Nat
         /\ DOMAIN GeneralOf(g) = 1 .. Len(GeneralOf(g))
         /\ DOMAIN FloatOf(g) = 1 .. Len(FloatOf(g))
         /\ Len(GeneralOf(g)) + Len(FloatOf(g)) = Len(s)
         /\ \A k \in 1 .. Len(GeneralOf(g)) : GeneralOf(g)[k] = s[k]
         /\ \A k \in 1 .. Len(FloatOf(g)) : FloatOf(g)[k] = s[Len(GeneralOf(g)) + k]
         /\ ToSet(s) = ToSet(GeneralOf(g)) \cup ToSet(FloatOf(g))
<1>1. /\ Len(s) \in Nat /\ DOMAIN s = 1 .. Len(s)
      /\ \A k \in 1 .. Len(s) : s[k] \in Allocatable
      /\ s \in Seq(Allocatable)
  BY FunctionFacts, FunctionsAssumption DEF IsFunction
<1> DEFINE S == {n \in DOMAIN s : s[n] < FirstFp}
<1>2. IsFiniteSet(1 .. Len(s)) /\ Cardinality(1 .. Len(s)) = Len(s) /\ S \subseteq 1 .. Len(s)
  BY <1>1, FS_Interval
<1>3. Cardinality(S) \in 0 .. Len(s)
  <2>1. IsFiniteSet(S) /\ Cardinality(S) <= Len(s)
    BY <1>2, FS_Subset
  <2> QED BY <1>1, <2>1, FS_CardinalityType
<1>4. GeneralCount(s) = Cardinality(S)
  BY DEF GeneralCount
<1> DEFINE c == GeneralCount(s)
<1> HIDE DEF S
<1>5. c \in 0 .. Len(s) /\ c \in Nat
  BY <1>1, <1>3, <1>4
<1> HIDE DEF c
<1>6. GeneralOf(g) = SubSeq(s, 1, c) /\ FloatOf(g) = SubSeq(s, c + 1, Len(s))
  BY DEF GeneralOf, FloatOf, c
<1>7. /\ Len(GeneralOf(g)) = c /\ DOMAIN GeneralOf(g) = 1 .. c
      /\ \A k \in 1 .. c : GeneralOf(g)[k] = s[k]
  BY <1>1, <1>5, <1>6
<1>8. /\ Len(FloatOf(g)) = Len(s) - c /\ DOMAIN FloatOf(g) = 1 .. Len(s) - c
      /\ \A k \in 1 .. Len(s) - c : FloatOf(g)[k] = s[c + k]
  BY <1>1, <1>5, <1>6
<1>9. ToSet(s) = ToSet(GeneralOf(g)) \cup ToSet(FloatOf(g))
  <2>1. ASSUME NEW k \in 1 .. Len(s)
        PROVE  s[k] \in ToSet(GeneralOf(g)) \cup ToSet(FloatOf(g))
    <3>1. CASE k <= c
      BY <1>1, <1>5, <1>7, <3>1 DEF ToSet
    <3>2. CASE k > c
      <4>1. k - c \in 1 .. Len(s) - c /\ c + (k - c) = k
        BY <1>1, <1>5, <3>2
      <4> QED BY <1>8, <4>1 DEF ToSet
    <3> QED BY <1>1, <1>5, <3>1, <3>2
  <2>2. ASSUME NEW r \in ToSet(GeneralOf(g)) \cup ToSet(FloatOf(g)) PROVE r \in ToSet(s)
    <3>1. CASE r \in ToSet(GeneralOf(g))
      <4>1. PICK k \in 1 .. c : r = GeneralOf(g)[k]
        BY <1>7, <3>1 DEF ToSet
      <4>2. k \in DOMAIN s /\ r = s[k]
        BY <1>1, <1>5, <1>7, <4>1
      <4> QED BY <4>2 DEF ToSet
    <3>2. CASE r \in ToSet(FloatOf(g))
      <4>1. PICK k \in 1 .. Len(s) - c : r = FloatOf(g)[k]
        BY <1>8, <3>2 DEF ToSet
      <4>2. c + k \in DOMAIN s /\ r = s[c + k]
        BY <1>1, <1>5, <1>8, <4>1
      <4> QED BY <4>2 DEF ToSet
    <3> QED BY <2>2, <3>1, <3>2
  <2> QED BY <1>1, <2>1, <2>2 DEF ToSet
<1> QED BY <1>1, <1>5, <1>7, <1>8, <1>9

\* Both parts hold numbers of registers, each once.
LEMMA PartsAscend ==
  ASSUME NEW g \in DOMAIN Functions
  PROVE  /\ \A k \in 1 .. Len(GeneralOf(g)) : GeneralOf(g)[k] \in Allocatable
         /\ \A k \in 1 .. Len(FloatOf(g)) : FloatOf(g)[k] \in Allocatable
         /\ \A k, l \in 1 .. Len(GeneralOf(g)) : GeneralOf(g)[k] = GeneralOf(g)[l] => k = l
         /\ \A k, l \in 1 .. Len(FloatOf(g)) : FloatOf(g)[k] = FloatOf(g)[l] => k = l
<1> DEFINE s == Functions[g].saved
           c == Len(GeneralOf(g))
           e == Len(FloatOf(g))
<1>1. /\ Len(s) \in Nat
      /\ \A k \in 1 .. Len(s) : s[k] \in Allocatable
      /\ \A k, l \in 1 .. Len(s) : k < l => s[k] < s[l]
  BY FunctionFacts
<1>2. /\ c \in Nat /\ e \in Nat /\ c + e = Len(s)
      /\ \A k \in 1 .. c : GeneralOf(g)[k] = s[k]
      /\ \A k \in 1 .. e : FloatOf(g)[k] = s[c + k]
  BY SavedSplit
<1> HIDE DEF s, c, e
<1>3. \A k, l \in 1 .. Len(s) : s[k] = s[l] => k = l
  <2> SUFFICES ASSUME NEW k \in 1 .. Len(s), NEW l \in 1 .. Len(s), s[k] = s[l] PROVE k = l
    OBVIOUS
  <2>1. s[k] \in Nat /\ s[l] \in Nat
    <3>1. s[k] \in Allocatable /\ s[l] \in Allocatable
      BY <1>1
    <3> QED BY <3>1, AllocatableFacts
  <2>2. ~ (k < l) /\ ~ (l < k)
    BY <1>1, <2>1
  <2> QED BY <1>1, <2>2
<1>4. \A k \in 1 .. c : k \in 1 .. Len(s)
  BY <1>2
<1>5. \A k \in 1 .. e : c + k \in 1 .. Len(s)
  BY <1>2
<1>6. ASSUME NEW k \in 1 .. e, NEW l \in 1 .. e, FloatOf(g)[k] = FloatOf(g)[l] PROVE k = l
  <2>1. c + k = c + l
    BY <1>2, <1>3, <1>5, <1>6
  <2> QED BY <1>2, <2>1
<1> QED BY <1>1, <1>2, <1>3, <1>4, <1>5, <1>6 DEF c, e

\* The lesser of two numbers.
LEMMA LeastFacts ==
  ASSUME NEW a \in Int, NEW b \in Int
  PROVE  /\ Least(a, b) \in Int /\ Least(a, b) <= a /\ Least(a, b) <= b
         /\ a <= b => Least(a, b) = a
         /\ b <= a => Least(a, b) = b
  BY DEF Least

\* The chunks of float registers.
LEMMA ChunkFacts ==
  ASSUME NEW g \in DOMAIN Functions
  PROVE  /\ Chunks(FloatOf(g)) \in Nat
         /\ InChunks(g, 0) = 0 /\ InChunks(g, Chunks(FloatOf(g))) = Len(FloatOf(g))
         /\ \A c \in 0 .. Chunks(FloatOf(g)) : InChunks(g, c) \in 0 .. Len(FloatOf(g))
         /\ \A c, e \in 0 .. Chunks(FloatOf(g)) : c <= e => InChunks(g, c) <= InChunks(g, e)
         /\ \A c \in 1 .. Chunks(FloatOf(g)) :
              LET s == Chunk(FloatOf(g), c) IN
                /\ Len(s) \in Nat /\ DOMAIN s = 1 .. Len(s)
                /\ InChunks(g, c) = InChunks(g, c - 1) + Len(s)
                /\ \A j \in 1 .. Len(s) : s[j] = FloatOf(g)[InChunks(g, c - 1) + j]
<1>1. PICK f : f = FloatOf(g)
  OBVIOUS
<1>2. DOMAIN f = 1 .. Len(f) /\ Len(f) \in Nat
  BY <1>1, SavedSplit
<1>3. PICK len \in Nat : len = Len(f)
  BY <1>2
<1> DEFINE chunks == Chunks(f)
<1>4. chunks \in Nat /\ chunks * 16 >= len /\ (chunks > 0 => (chunks - 1) * 16 < len)
  <2>1. chunks = (len + 15) \div 16
    BY <1>3 DEF Chunks, ChunkSize
  <2> QED BY <2>1
<1> HIDE DEF chunks
<1>5. \A c : InChunks(g, c) = Least(c * 16, len)
  BY <1>1, <1>3 DEF InChunks, ChunkSize
<1>6. InChunks(g, 0) = 0
  <2>1. Least(0, len) = 0
    BY LeastFacts
  <2> QED BY <1>5, <2>1
<1>7. InChunks(g, chunks) = len
  <2>1. Least(chunks * 16, len) = len
    BY <1>4, LeastFacts
  <2> QED BY <1>5, <2>1
<1>8. ASSUME NEW c \in 0 .. chunks PROVE InChunks(g, c) \in 0 .. len
  <2>1. c * 16 \in Nat
    BY <1>4
  <2>2. Least(c * 16, len) \in 0 .. len
    BY <2>1 DEF Least
  <2> QED BY <1>5, <2>2
<1>9. ASSUME NEW c \in 1 .. chunks, NEW s, s = Chunk(f, c)
      PROVE  /\ Len(s) \in Nat /\ DOMAIN s = 1 .. Len(s)
             /\ InChunks(g, c) = InChunks(g, c - 1) + Len(s)
             /\ \A j \in 1 .. Len(s) : s[j] = f[InChunks(g, c - 1) + j]
  <2>1. PICK b \in Nat, e \in Int : b = (c - 1) * 16 /\ e = InChunks(g, c)
    <3>1. c \in 0 .. chunks /\ (c - 1) * 16 \in Nat
      BY <1>4
    <3>2. InChunks(g, c) \in Int
      BY <1>8, <3>1
    <3> QED BY <3>1, <3>2
  <2>2. b < len /\ c * 16 = b + 16
    BY <1>4, <2>1
  <2>3. e = Least(b + 16, len)
    BY <1>5, <2>1, <2>2
  <2>4. e > b /\ e <= len
    BY <2>2, <2>3 DEF Least
  <2>5. InChunks(g, c - 1) = b
    <3>1. Least(b, len) = b
      BY <2>2, LeastFacts
    <3> QED BY <1>5, <2>1, <3>1
  <2>6. s = SubSeq(f, b + 1, e)
    <3>1. e = IF b + 16 > len THEN len ELSE b + 16
      BY <2>3 DEF Least
    <3> QED BY <1>3, <1>9, <2>1, <2>2, <3>1 DEF Chunk, ChunkSize
  <2>7. Len(s) = e - b /\ DOMAIN s = 1 .. e - b /\ \A j \in 1 .. e - b : s[j] = f[b + j]
    BY <1>2, <1>3, <2>4, <2>6
  <2>8. e - b \in Nat /\ e = b + (e - b)
    BY <2>4
  <2> QED BY <2>1, <2>5, <2>7, <2>8
<1>10. ASSUME NEW c \in 0 .. chunks, NEW e \in 0 .. chunks, c <= e
       PROVE  InChunks(g, c) <= InChunks(g, e)
  <2>1. c * 16 \in Nat /\ e * 16 \in Nat /\ c * 16 <= e * 16
    BY <1>4, <1>10
  <2>2. Least(c * 16, len) <= Least(e * 16, len)
    BY <2>1 DEF Least
  <2> QED BY <1>5, <2>2
<1> QED BY <1>1, <1>3, <1>4, <1>6, <1>7, <1>8, <1>9, <1>10 DEF chunks

-----------------------------------------------------------------------------
(* Activations *)

\* Where the words of d activations end at the latest.
Low(d) == Bottom - d * Share

LEMMA LowFacts ==
  ASSUME NEW d \in 0 .. MaxDepth
  PROVE  /\ Low(d) \in Int /\ Low(d) >= 1
         /\ Low(0) = Bottom /\ Low(d + 1) = Low(d) - Share
<1>1. /\ d \in Nat /\ Share \in Nat /\ Bottom \in Nat /\ MaxDepth \in Nat
      /\ MaxDepth * Share < Bottom
  BY StackAssumption DEF StackNeeded
<1>2. PICK k \in Nat : MaxDepth = d + k
  <2>1. MaxDepth - d \in Nat /\ MaxDepth = d + (MaxDepth - d)
    BY <1>1
  <2> QED BY <2>1
<1>3. MaxDepth * Share = d * Share + k * Share
  BY <1>1, <1>2
<1>4. d * Share \in Nat /\ k * Share \in Nat
  BY <1>1
<1>5. d * Share < Bottom
  BY <1>1, <1>3, <1>4
<1>6. (d + 1) * Share = d * Share + Share
  BY <1>1
<1>7. 0 * Share = 0
  BY <1>1
<1> QED BY <1>1, <1>4, <1>5, <1>6, <1>7 DEF Low

\* An activation as far as the next one depends on it.
Placed(x, d) ==
  /\ x.base \in Int /\ x.rest \in Int /\ x.rest <= x.base /\ x.base <= Bottom
  /\ x.rest >= Low(d) /\ x.own \in [Allocatable -> 0 .. d]

LEMMA GroundPlaced == Placed(Ground, 0)
<1>1. Bottom \in Int /\ 0 \in 0 .. MaxDepth
  BY StackAssumption
<1>2. Low(0) = Bottom
  BY <1>1, LowFacts
<1> QED BY <1>1, <1>2 DEF Placed, Ground

\* The words of the next activation, from its arguments down.
LEMMA NextPlaced ==
  ASSUME NEW x, NEW d \in Nat, d < MaxDepth, Placed(x, d), NEW g \in DOMAIN Functions
  PROVE  /\ Placed(Activated(x, g, d + 1), d + 1)
         /\ EntrySp(x, g) \in Int /\ BaseOf(x, g) \in Int
         /\ EntrySp(x, g) = x.rest - StackArgs(g)
         /\ BaseOf(x, g) = EntrySp(x, g) - 2 - Len(Functions[g].saved)
         /\ BaseOf(x, g) < x.rest /\ BaseOf(x, g) - FrameSize(Functions[g]) >= 1
         /\ x.rest >= 1
<1> DEFINE f == Functions[g]
           y == Activated(x, g, d + 1)
<1>1. /\ StackArgs(g) \in Nat /\ Len(f.saved) \in Nat /\ FrameSize(f) \in Nat
      /\ StackArgs(g) + Len(f.saved) + 2 + FrameSize(f) <= Share
  BY FunctionFacts
<1>2. MaxDepth \in Nat /\ Share \in Nat
  BY StackAssumption
<1>3. /\ Low(d) \in Int /\ Low(d) >= 1 /\ Low(d + 1) = Low(d) - Share
      /\ Low(d + 1) \in Int /\ Low(d + 1) >= 1
  BY <1>2, LowFacts
<1>4. x.base \in Int /\ x.rest \in Int /\ x.rest <= x.base /\ x.base <= Bottom /\ x.rest >= Low(d)
      /\ Bottom \in Int
  BY StackAssumption DEF Placed
<1>5. PICK a \in Nat, s \in Nat, z \in Nat :
        a = StackArgs(g) /\ s = Len(f.saved) /\ z = FrameSize(f)
  BY <1>1
<1>6. EntrySp(x, g) = x.rest - a /\ BaseOf(x, g) = x.rest - a - 2 - s
  BY <1>5 DEF EntrySp, BaseOf
<1>7. y.base = x.rest - a - 2 - s /\ y.rest = x.rest - a - 2 - s - z
  BY <1>5, <1>6 DEF Activated
<1>8. y.own \in [Allocatable -> 0 .. d + 1]
  <2>1. y.own = [r \in Allocatable |-> IF r \in ToSet(f.saved) THEN d + 1 ELSE x.own[r]]
    BY DEF Activated
  <2>2. \A r \in Allocatable : x.own[r] \in 0 .. d + 1
    BY DEF Placed
  <2>3. d + 1 \in 0 .. d + 1
    OBVIOUS
  <2> QED BY <2>1, <2>2, <2>3
<1>9. a + s + 2 + z <= Share
  BY <1>1, <1>5
<1> HIDE DEF y
<1>10. Placed(y, d + 1)
  BY <1>2, <1>3, <1>4, <1>7, <1>8, <1>9, SMTT(30) DEF Placed
<1>11. x.rest - a - 2 - s - z >= 1 /\ x.rest >= 1
  BY <1>2, <1>3, <1>4, <1>9, SMTT(30)
<1>12. x.rest - a - 2 - s < x.rest
  BY <1>4, <1>5
<1>13. BaseOf(x, g) - FrameSize(Functions[g]) >= 1 /\ BaseOf(x, g) < x.rest
  BY <1>5, <1>6, <1>11, <1>12
<1> QED BY <1>4, <1>5, <1>6, <1>10, <1>11, <1>13 DEF y

\* All activations of a chain are placed so.
LEMMA ChainPlaced ==
  ASSUME NEW M, NEW ch, NEW d \in Nat, d <= MaxDepth, Chain(M, ch, d), NEW e \in 0 .. d
  PROVE  Placed(ch[e], e)
<1> DEFINE Bad == {k \in 0 .. d : ~ Placed(ch[k], k)}
<1>0. MaxDepth \in Nat
  BY StackAssumption
<1>1. ASSUME Bad # {} PROVE FALSE
  <2>1. Bad \in SUBSET Nat
    OBVIOUS
  <2> HIDE DEF Bad
  <2>2. PICK b \in Bad : \A k \in Bad : b <= k
    BY <1>1, <2>1, NatMinimum
  <2>3. b \in 0 .. d /\ ~ Placed(ch[b], b)
    BY <2>2 DEF Bad
  <2>4. b # 0
    BY <2>3, GroundPlaced DEF Chain
  <2>5. b - 1 \in 0 .. d /\ b - 1 \in Nat /\ b - 1 < MaxDepth /\ (b - 1) + 1 = b /\ b \in 1 .. d
    BY <1>0, <2>3, <2>4
  <2>6. b - 1 \notin Bad
    BY <2>2, <2>5
  <2>7. Placed(ch[b - 1], b - 1)
    BY <2>5, <2>6 DEF Bad
  <2>8. ch[b].fn \in DOMAIN Functions /\ ch[b] = Activated(ch[b - 1], ch[b].fn, b)
    BY <2>5 DEF Chain
  <2> QED BY <2>3, <2>5, <2>7, <2>8, NextPlaced
<1> QED BY <1>1

\* The j-th word of a chunk of l registers lies among the words saved down to
\* the float registers z.
LEMMA WordOfChunk ==
  ASSUME NEW b \in Int, NEW fl \in Nat, NEW gl \in Nat, NEW len \in Nat, gl + fl = len,
         NEW p \in Nat, NEW q \in Nat, NEW l \in Nat, NEW z \in Nat, p = q + l, p <= z,
         NEW j \in 1 .. l
  PROVE  b + fl - p + j - 1 \in b + fl - z .. b + len + 1
<1>1. b + fl - z <= b + fl - p
  OBVIOUS
<1>2. b + fl - p + j - 1 <= b + fl - q
  OBVIOUS
<1>3. b + fl - q <= b + len + 1
  OBVIOUS
<1>4. b + fl - p <= b + fl - p + j - 1
  OBVIOUS
<1> QED BY <1>1, <1>2, <1>3, <1>4

\* What is saved, down to the float registers of chunk k, stays when the
\* memory from there on does.
LEMMA SavedKept ==
  ASSUME NEW M, NEW N, NEW x, NEW g \in DOMAIN Functions, NEW b \in Int,
         NEW k \in 0 .. Chunks(FloatOf(g)),
         \A a \in b + Len(FloatOf(g)) - InChunks(g, k) .. b + Len(Functions[g].saved) + 1 :
           N[a] = M[a]
  PROVE  /\ LinkSaved(M, x, g, b) => LinkSaved(N, x, g, b)
         /\ GeneralSaved(M, x, g, b) => GeneralSaved(N, x, g, b)
         /\ FloatSaved(M, x, g, b, k) => FloatSaved(N, x, g, b, k)
<1> DEFINE s == Functions[g].saved
<1>1. PICK len \in Nat, fl \in Nat, gl \in Nat :
        len = Len(s) /\ fl = Len(FloatOf(g)) /\ gl = Len(GeneralOf(g)) /\ gl + fl = len
  BY SavedSplit, FunctionFacts
<1>2. PICK z \in 0 .. fl : z = InChunks(g, k)
  BY <1>1, ChunkFacts
<1>3. \A a \in b + fl - z .. b + len + 1 : N[a] = M[a]
  BY <1>1, <1>2
<1>4. LinkSaved(M, x, g, b) => LinkSaved(N, x, g, b)
  <2>1. N[b + len] = M[b + len] /\ N[b + len + 1] = M[b + len + 1]
    <3>1. b + len \in b + fl - z .. b + len + 1 /\ b + len + 1 \in b + fl - z .. b + len + 1
      <4>1. b + fl - z <= b + len /\ b + fl - z \in Int /\ b + len \in Int
        BY <1>1, <1>2
      <4> QED BY <4>1
    <3> QED BY <1>3, <3>1
  <2> QED BY <1>1, <2>1 DEF LinkSaved
<1>5. GeneralSaved(M, x, g, b) => GeneralSaved(N, x, g, b)
  <2>1. ASSUME NEW m \in 1 .. gl PROVE N[b + fl + m - 1] = M[b + fl + m - 1]
    <3>1. b + fl + m - 1 \in b + fl - z .. b + len + 1
      BY <1>1, <1>2
    <3> QED BY <1>3, <3>1
  <2> QED BY <1>1, <2>1 DEF GeneralSaved
<1>6. ASSUME FloatSaved(M, x, g, b, k) PROVE FloatSaved(N, x, g, b, k)
  <2> SUFFICES ASSUME NEW c \in 1 .. k, NEW j \in 1 .. Len(Chunk(FloatOf(g), c))
               PROVE  N[b + Len(FloatOf(g)) - InChunks(g, c) + j - 1]
                        = M[b + Len(FloatOf(g)) - InChunks(g, c) + j - 1]
    BY <1>6 DEF FloatSaved
  <2>1. /\ c \in 1 .. Chunks(FloatOf(g)) /\ c \in 0 .. Chunks(FloatOf(g))
        /\ c - 1 \in 0 .. Chunks(FloatOf(g)) /\ c <= k
    BY ChunkFacts
  <2>2. PICK l \in Nat, p \in Nat, q \in Nat :
          l = Len(Chunk(FloatOf(g), c)) /\ p = InChunks(g, c) /\ q = InChunks(g, c - 1)
    BY <2>1, ChunkFacts
  <2>3. p = q + l /\ p <= z
    BY <1>2, <2>1, <2>2, ChunkFacts
  <2>4. j \in 1 .. l
    BY <2>2
  <2>5. b + fl - p + j - 1 \in b + fl - z .. b + len + 1
    BY <1>1, <2>3, <2>4, WordOfChunk, SMTT(30)
  <2> QED BY <1>1, <1>3, <2>2, <2>5
<1> QED BY <1>4, <1>5, <1>6

LEMMA AllSavedKept ==
  ASSUME NEW M, NEW N, NEW x, NEW g \in DOMAIN Functions, NEW b \in Int, AllSaved(M, x, g, b),
         \A a \in b .. b + Len(Functions[g].saved) + 1 : N[a] = M[a]
  PROVE  AllSaved(N, x, g, b)
<1>1. Chunks(FloatOf(g)) \in 0 .. Chunks(FloatOf(g))
  BY ChunkFacts
<1>2. b + Len(FloatOf(g)) - InChunks(g, Chunks(FloatOf(g))) = b
  BY ChunkFacts, SavedSplit
<1> QED BY <1>1, <1>2, SavedKept DEF AllSaved

\* A chain stays when the memory from its last frame pointer on does.
LEMMA ChainKept ==
  ASSUME NEW M, NEW N, NEW ch, NEW d \in Nat, d <= MaxDepth, Chain(M, ch, d),
         \A a \in ch[d].base .. Bottom : N[a] = M[a]
  PROVE  Chain(N, ch, d)
<1> SUFFICES ASSUME NEW e \in 1 .. d
             PROVE  AllSaved(N, ch[e - 1], ch[e].fn, ch[e].base)
  BY DEF Chain
<1> DEFINE g == ch[e].fn
           x == ch[e - 1]
           b == ch[e].base
<1>1. g \in DOMAIN Functions /\ ch[e] = Activated(x, g, e) /\ AllSaved(M, x, g, b)
  BY DEF Chain
<1>2. e - 1 \in 0 .. d /\ e \in 0 .. d /\ d \in 0 .. d /\ e - 1 \in Nat /\ e - 1 < MaxDepth
  BY StackAssumption
<1>3. Placed(x, e - 1) /\ Placed(ch[e], e) /\ Placed(ch[d], d)
  BY <1>2, ChainPlaced
<1>4. /\ EntrySp(x, g) \in Int /\ EntrySp(x, g) = x.rest - StackArgs(g)
      /\ BaseOf(x, g) = EntrySp(x, g) - 2 - Len(Functions[g].saved)
  BY <1>1, <1>2, <1>3, NextPlaced
<1>5. b = BaseOf(x, g)
  BY <1>1 DEF Activated
<1>6. StackArgs(g) \in Nat /\ Len(Functions[g].saved) \in Nat
  BY <1>1, FunctionFacts
<1>7. x.rest \in Int /\ x.rest <= Bottom /\ b \in Int /\ Bottom \in Int /\ ch[d].base \in Int
  BY <1>3, StackAssumption DEF Placed
<1>8. b + Len(Functions[g].saved) + 1 <= Bottom
  <2>1. PICK t \in Int, n \in Nat, m \in Nat :
          t = x.rest /\ n = StackArgs(g) /\ m = Len(Functions[g].saved)
    BY <1>6, <1>7
  <2>2. b = t - n - 2 - m
    BY <1>4, <1>5, <2>1
  <2>3. b + m + 1 <= Bottom
    <3>1. t <= Bottom
      BY <1>7, <2>1
    <3>2. t - n - 2 - m + m + 1 <= Bottom
      BY <1>7, <3>1
    <3> QED BY <2>2, <3>2
  <2> QED BY <2>1, <2>3
<1>9. b >= ch[d].base
  <2>1. CASE e = d
    BY <1>3, <2>1 DEF Placed
  <2>2. CASE e < d
    <3>1. ch[d].base < ch[e].rest
      BY <1>2, <2>2 DEF Chain
    <3> QED BY <1>3, <3>1 DEF Placed
  <2> QED BY <2>1, <2>2
<1>10. \A a \in b .. b + Len(Functions[g].saved) + 1 : a \in ch[d].base .. Bottom
  BY <1>6, <1>7, <1>8, <1>9, SMTT(30)
<1>11. \A a \in b .. b + Len(Functions[g].saved) + 1 : N[a] = M[a]
  BY <1>10
<1> HIDE DEF b, x, g
<1>12. AllSaved(N, x, g, b)
  BY <1>1, <1>7, <1>11, AllSavedKept
<1> QED BY <1>12 DEF b, x, g

\* One more activation.
LEMMA ChainGrows ==
  ASSUME NEW M, NEW ch, NEW d \in Nat, d < MaxDepth, Chain(M, ch, d),
         NEW g \in DOMAIN Functions, AllSaved(M, ch[d], g, BaseOf(ch[d], g)), d = 0 => g = 1
  PROVE  \E h : /\ Chain(M, h, d + 1) /\ h[d + 1] = Activated(ch[d], g, d + 1)
                /\ \A e \in 0 .. d : h[e] = ch[e]
<1> DEFINE y == Activated(ch[d], g, d + 1)
           h == [e \in 0 .. d + 1 |-> IF e = d + 1 THEN y ELSE ch[e]]
<1>1. h[d + 1] = y /\ \A e \in 0 .. d : h[e] = ch[e]
  OBVIOUS
<1>2. y.fn = g /\ y.base = BaseOf(ch[d], g)
  BY DEF Activated
<1>3. MaxDepth \in Nat /\ d <= MaxDepth
  BY StackAssumption
<1>4. \A e \in 0 .. d : Placed(ch[e], e)
  BY <1>3, ChainPlaced
<1>5. y.base \in Int /\ y.base < ch[d].rest
  BY <1>2, <1>4, NextPlaced
<1> HIDE DEF h, y
<1>6. h[0] = Ground
  BY <1>1 DEF Chain
<1>7. ASSUME NEW e \in 1 .. d + 1
      PROVE  /\ h[e].fn \in DOMAIN Functions /\ (e = 1 => h[e].fn = 1)
             /\ h[e] = Activated(h[e - 1], h[e].fn, e)
             /\ AllSaved(M, h[e - 1], h[e].fn, h[e].base)
  <2>1. CASE e = d + 1
    <3>1. h[e] = y /\ h[e - 1] = ch[d]
      BY <1>1, <2>1
    <3> QED BY <1>2, <2>1, <3>1 DEF y
  <2>2. CASE e # d + 1
    <3>1. e \in 1 .. d /\ e \in 0 .. d /\ e - 1 \in 0 .. d
      BY <2>2
    <3>2. h[e] = ch[e] /\ h[e - 1] = ch[e - 1]
      BY <1>1, <3>1
    <3> QED BY <3>1, <3>2 DEF Chain
  <2> QED BY <2>1, <2>2
<1>8. ASSUME NEW c \in 0 .. d + 1, NEW e \in 0 .. d + 1, c < e
      PROVE  h[e].base < h[c].rest
  <2>1. c \in 0 .. d /\ h[c] = ch[c]
    BY <1>1, <1>8
  <2>2. CASE e = d + 1
    <3>1. h[e] = y
      BY <1>1, <2>2
    <3>2. CASE c = d
      BY <1>5, <2>1, <3>1, <3>2
    <3>3. CASE c < d
      <4>1. ch[d].base < ch[c].rest
        BY <2>1, <3>3 DEF Chain
      <4> QED BY <1>4, <1>5, <2>1, <3>1, <4>1 DEF Placed
    <3> QED BY <2>1, <3>2, <3>3
  <2>3. CASE e # d + 1
    <3>1. e \in 0 .. d /\ h[e] = ch[e]
      BY <1>1, <2>3
    <3> QED BY <1>8, <2>1, <3>1 DEF Chain
  <2> QED BY <2>2, <2>3
<1>9. Chain(M, h, d + 1)
  BY <1>6, <1>7, <1>8 DEF Chain
<1> QED BY <1>1, <1>9 DEF y

\* One less.
LEMMA ChainShrinks ==
  ASSUME NEW M, NEW ch, NEW d \in Nat, Chain(M, ch, d + 1)
  PROVE  Chain(M, ch, d)
  BY DEF Chain

\* Where the parts of the frame of g, called by x, are: b is its base, e and
\* r are those of x, s is sp at its entry.
Parts(x, g, b, len, gl, fl, z, a, r, e, s) ==
  /\ b = BaseOf(x, g) /\ len = Len(Functions[g].saved)
  /\ gl = Len(GeneralOf(g)) /\ fl = Len(FloatOf(g)) /\ z = FrameSize(Functions[g])
  /\ a = StackArgs(g) /\ r = x.rest /\ e = x.base /\ s = EntrySp(x, g)
Apart(b, len, gl, fl, z, a, r, e, s) ==
  /\ gl + fl = len /\ b - z >= 1 /\ s = b + len + 2 /\ r = b + len + 2 + a
  /\ r <= e /\ e <= Bottom
Laid(x, g) ==
  \E b \in Int, len \in Nat, gl \in Nat, fl \in Nat, z \in Nat, a \in Nat,
     r \in Int, e \in Int, s \in Int :
    Parts(x, g, b, len, gl, fl, z, a, r, e, s) /\ Apart(b, len, gl, fl, z, a, r, e, s)

LEMMA FramePlaces ==
  ASSUME NEW x, NEW d \in Nat, d < MaxDepth, Placed(x, d), NEW g \in DOMAIN Functions
  PROVE  Laid(x, g)
<1>1. /\ EntrySp(x, g) \in Int /\ BaseOf(x, g) \in Int
      /\ EntrySp(x, g) = x.rest - StackArgs(g)
      /\ BaseOf(x, g) = EntrySp(x, g) - 2 - Len(Functions[g].saved)
      /\ BaseOf(x, g) - FrameSize(Functions[g]) >= 1
  BY NextPlaced
<1>2. /\ Len(GeneralOf(g)) \in Nat /\ Len(FloatOf(g)) \in Nat
      /\ Len(GeneralOf(g)) + Len(FloatOf(g)) = Len(Functions[g].saved)
  BY SavedSplit
<1>3. Len(Functions[g].saved) \in Nat /\ FrameSize(Functions[g]) \in Nat /\ StackArgs(g) \in Nat
  BY FunctionFacts
<1>6. /\ x.rest \in Int /\ x.base \in Int /\ x.rest <= x.base /\ x.base <= Bottom
  BY DEF Placed
<1>4. PICK b \in Int, len \in Nat, gl \in Nat, fl \in Nat, z \in Nat, a \in Nat,
           r \in Int, e \in Int, s \in Int :
        Parts(x, g, b, len, gl, fl, z, a, r, e, s)
  <2> USE <1>1, <1>2, <1>3, <1>6
  <2> WITNESS BaseOf(x, g) \in Int, Len(Functions[g].saved) \in Nat, Len(GeneralOf(g)) \in Nat,
              Len(FloatOf(g)) \in Nat, FrameSize(Functions[g]) \in Nat, StackArgs(g) \in Nat,
              x.rest \in Int, x.base \in Int, EntrySp(x, g) \in Int
  <2> QED BY DEF Parts
<1>5. gl + fl = len /\ b - z >= 1 /\ r <= e /\ e <= Bottom
  BY <1>1, <1>2, <1>4, <1>6 DEF Parts
<1>8. s = r - a /\ b = s - 2 - len
  BY <1>1, <1>4 DEF Parts
<1>9. s = b + len + 2 /\ r = b + len + 2 + a
  BY <1>8
<1>10. Apart(b, len, gl, fl, z, a, r, e, s)
  BY <1>5, <1>9 DEF Apart
<1> QED BY <1>4, <1>10 DEF Laid


-----------------------------------------------------------------------------
(* Steps of a call *)

\* What every state of the invariant says.
LEMMA Here ==
  ASSUME NEW ch, NEW d, NEW x, Good(ch, d, x)
  PROVE  /\ d \in Nat /\ d <= MaxDepth /\ Placed(x, d) /\ Chain(mem, ch, d)
         /\ d = Entered /\ x = ch[d]
         /\ x.base \in Int /\ x.rest \in Int /\ x.rest <= x.base /\ x.base <= Bottom /\ x.rest >= 1
         /\ d = 0 => x = Ground
         /\ d # 0 => x.fn \in DOMAIN Functions /\ (d = 1 => x.fn = 1)
         /\ Between => depth = d + 1 /\ d < MaxDepth /\ fun \in DOMAIN Functions /\ Opening(x) /\ Laid(x, fun)
         /\ ~Between => depth = d /\ Running(x)
         /\ pc # "exit" => callee \in DOMAIN Functions
         /\ depth \in 0 .. MaxDepth /\ Bounds
         /\ MaxDepth \in Nat /\ Bottom \in Nat
<1>12. d = Entered /\ x = ch[d]
  BY DEF Good
<1>1. Bounds /\ Chain(mem, ch, d) /\ IF Between THEN Opening(x) ELSE Running(x)
  BY DEF Good
<1>2. MaxDepth \in Nat \ {0} /\ Bottom \in Nat
  BY StackAssumption
<1>3. depth \in 0 .. MaxDepth
  <2>1. CASE pc = "exit"
    BY <1>1, <1>2, <2>1 DEF Bounds
  <2>2. CASE pc # "exit"
    <3>1. depth \in 1 .. MaxDepth
      BY <1>1, <2>2 DEF Bounds
    <3> QED BY <1>2, <3>1
  <2> QED BY <2>1, <2>2
<1>4. /\ d = depth - IF Between THEN 1 ELSE 0
      /\ Between => pc # "exit"
  BY DEF Good, Entered, Between
<1>5. Between => depth \in 1 .. MaxDepth /\ fun \in DOMAIN Functions
  BY <1>1, <1>4 DEF Bounds
<1>6. pc # "exit" => callee \in DOMAIN Functions
  BY <1>1 DEF Bounds
<1>7. d \in Nat /\ d <= MaxDepth /\ (Between => depth = d + 1 /\ d < MaxDepth) /\ (~Between => depth = d)
  BY <1>2, <1>3, <1>4, <1>5
<1>8. Placed(x, d)
  <2>1. d \in 0 .. d
    BY <1>7
  <2> QED BY <1>1, <1>12, <1>7, <2>1, ChainPlaced
<1>9. x.rest >= 1
  <2>1. Low(d) \in Int /\ Low(d) >= 1
    BY <1>2, <1>7, LowFacts
  <2> QED BY <1>8, <2>1 DEF Placed
<1>10. d = 0 => x = Ground
  BY <1>1, <1>12 DEF Chain
<1>11. d # 0 => x.fn \in DOMAIN Functions /\ (d = 1 => x.fn = 1)
  <2>1. d # 0 => d \in 1 .. d
    BY <1>7
  <2> QED BY <1>1, <1>12, <2>1 DEF Chain
<1>13. Between => Laid(x, fun)
  BY <1>5, <1>7, <1>8, FramePlaces
<1> QED BY <1>1, <1>2, <1>3, <1>5, <1>6, <1>7, <1>8, <1>9, <1>10, <1>11, <1>12, <1>13 DEF Placed

\* Words of the program.
LEMMA WordsOfDepth ==
  ASSUME NEW d \in 0 .. MaxDepth, NEW k \in Nat
  PROVE  /\ Argument(d, k) \in DataWords /\ Scratch(d, k) \in DataWords
         /\ Initial(d) \in DataWords /\ Result(d) \in DataWords
  BY DEF Argument, Scratch, Initial, Result, DataWords, Words

\* More arguments never take less of the stack.
LEMMA ExtrasGrow ==
  ASSUME NEW sig, NEW m \in Nat, NEW k \in Nat, m <= k
  PROVE  Extras(sig, m) <= Extras(sig, k)
<1> DEFINE S == {l \in 1 .. m : ~InRegister(sig, l)}
           T == {l \in 1 .. k : ~InRegister(sig, l)}
<1>1. IsFiniteSet(1 .. k)
  BY FS_Interval
<1>2. T \subseteq 1 .. k /\ S \subseteq T
  OBVIOUS
<1>3. Extras(sig, m) = Cardinality(S) /\ Extras(sig, k) = Cardinality(T)
  BY DEF Extras
<1> HIDE DEF S, T
<1>4. IsFiniteSet(T)
  BY <1>1, <1>2, FS_Subset
<1> QED BY <1>2, <1>3, <1>4, FS_Subset

LEMMA InitialGood == Init => IInv
<1> SUFFICES ASSUME Init PROVE IInv
  OBVIOUS
<1> DEFINE ch == [d \in {0} |-> Ground]
<1>1. 1 \in DOMAIN Functions /\ Len(Functions[1].sig) = 0 /\ Functions[1].sig = << >>
  BY FunctionsAssumption
<1>2. StackArgs(1) = 0
  BY <1>1, ExtrasFacts DEF StackArgs
<1>3. MaxDepth \in Nat \ {0} /\ Bottom \in Nat
  BY StackAssumption
<1>4. Between /\ Entered = 0 /\ pc = "push" /\ fun = 1 /\ depth = 1 /\ ch[0] = Ground
  BY DEF Init, Between, Entered
<1>5. Chain(mem, ch, 0)
  BY <1>4 DEF Chain
<1>6. Bounds
  <2>1. \A r \in 0 .. 47 : reg[r] \in DataWords
    <3>1. 0 \in 0 .. MaxDepth
      BY <1>3
    <3>2. SUFFICES ASSUME NEW r \in 0 .. 47 PROVE reg[r] \in DataWords
      OBVIOUS
    <3>3. reg = [q \in 0 .. 47 |-> Scratch(0, q)]
      BY DEF Init
    <3>4. r \in Nat
      OBVIOUS
    <3>5. reg[r] = Scratch(0, r)
      BY <3>3
    <3> QED BY <3>1, <3>4, <3>5, WordsOfDepth
  <2>2. 1 \in 1 .. MaxDepth
    BY <1>3
  <2> QED BY <1>1, <2>1, <2>2 DEF Init, Bounds, Site
<1>7. Opening(Ground)
  <2>1. Kept(Ground.own, {})
    BY AllocatableFacts DEF Kept, Ground, Init
  <2>2. EntrySp(Ground, 1) = Bottom
    BY <1>2, <1>3 DEF EntrySp, Ground
  <2>3. ReturnTo(Ground, 1) = Site(0, 0) /\ Ground.base = Bottom
    BY DEF ReturnTo, Ground
  <2>4. ArgumentsAt(1, 1, StackArgs(1), EntrySp(Ground, 1))
    BY <1>2 DEF ArgumentsAt
  <2> QED BY <1>4, <2>1, <2>2, <2>3, <2>4 DEF Opening, Init
<1> HIDE DEF ch
<1>8. Good(ch, 0, Ground)
  BY <1>4, <1>5, <1>6, <1>7 DEF Good
<1> QED BY <1>8 DEF IInv

LEMMA BeginCallGood ==
  ASSUME NEW ch, NEW d, NEW x, Good(ch, d, x), BeginCall
  PROVE  Good(ch, d, x)'
<1>1. PICK g \in 2 .. Len(Functions) : callee' = g /\ cr' = Len(Functions[g].sig)
  BY DEF BeginCall
<1>2. /\ pc = "body" /\ depth < MaxDepth /\ pc' = "args" /\ i' = 1
      /\ UNCHANGED <<fun, depth, reg, sp, fp, lr, mem>>
  BY DEF BeginCall
<1>3. /\ ~Between /\ ~Between' /\ Entered' = Entered
  BY <1>2 DEF Between, Entered
<1>4. Chain(mem, ch, d) /\ Running(x) /\ Bounds /\ x.rest \in Int /\ d = Entered /\ x = ch[d]
  BY <1>3, Here
<1>5. g \in DOMAIN Functions /\ Len(Functions[g].sig) \in Nat
  BY FunctionsAssumption, FunctionFacts
<1>6. Bounds'
  BY <1>1, <1>2, <1>4, <1>5 DEF Bounds
<1>7. Sig' = Functions[g].sig
  BY <1>1 DEF Sig
<1>8. Extras(Functions[g].sig, 0) = 0
  BY ExtrasFacts
<1>9. Running(x)'
  <2>2. Kept(x.own, {})' /\ fun' = x.fn /\ fp' = x.base /\ sp' = x.rest
    BY <1>2, <1>4 DEF Running, Kept
  <2>3. i' - 1 = 0 /\ Extras(Sig', i' - 1) = 0
    BY <1>2, <1>7, <1>8
  <2>4. /\ callee' \in DOMAIN Functions /\ depth' < MaxDepth
        /\ i' \in 1 .. Len(Sig') + 1 /\ cr' = Len(Sig') - Extras(Sig', i' - 1)
        /\ sp' = x.rest - Extras(Sig', i' - 1)
    BY <1>1, <1>2, <1>4, <1>5, <1>7, <2>2, <2>3
  <2>5. ArgumentsAt(callee, depth + 1, Extras(Sig, i - 1), sp)'
    BY <2>3 DEF ArgumentsAt
  <2> QED BY <1>2, <2>2, <2>4, <2>5 DEF Running
<1> QED BY <1>2, <1>3, <1>4, <1>6, <1>9 DEF Good

\* One register gets a word.
LEMMA RegisterSet ==
  ASSUME Bounds, NEW r \in 0 .. 47, NEW w \in DataWords, reg' = [reg EXCEPT ![r] = w]
  PROVE  /\ DOMAIN reg' = 0 .. 47 /\ \A q \in 0 .. 47 : reg'[q] \in DataWords
         /\ \A q \in 0 .. 47 : q # r => reg'[q] = reg[q]
<1>1. DOMAIN reg = 0 .. 47 /\ \A q \in 0 .. 47 : reg[q] \in DataWords
  BY DEF Bounds
<1> QED BY <1>1

LEMMA MoveArgumentGood ==
  ASSUME NEW ch, NEW d, NEW x, Good(ch, d, x), MoveArgument
  PROVE  Good(ch, d, x)'
<1>2. /\ pc = "args" /\ i \in DOMAIN Sig /\ InRegister(Sig, i) /\ i' = i + 1
      /\ reg' = [reg EXCEPT ![ArgRegister(Sig, i)] = Argument(depth + 1, i)]
      /\ UNCHANGED <<code, pc, cr, sp, fp, lr, mem>>
  BY DEF MoveArgument
<1>3. /\ ~Between /\ ~Between' /\ Entered' = Entered
  BY <1>2 DEF Between, Entered, code
<1>4. /\ Chain(mem, ch, d) /\ Running(x) /\ Bounds /\ d = Entered /\ x = ch[d]
      /\ callee \in DOMAIN Functions /\ depth \in 0 .. MaxDepth /\ MaxDepth \in Nat
  BY <1>2, <1>3, Here
<1>5. /\ depth < MaxDepth /\ i \in 1 .. Len(Sig) + 1 /\ cr = Len(Sig) - Extras(Sig, i - 1)
      /\ sp = x.rest - Extras(Sig, i - 1)
      /\ ArgumentsAt(callee, depth + 1, Extras(Sig, i - 1), sp)
      /\ fun = x.fn /\ fp = x.base /\ Kept(x.own, {})
  BY <1>2, <1>4 DEF Running
<1>6. Len(Sig) \in Nat /\ DOMAIN Sig = 1 .. Len(Sig)
  BY <1>4, FunctionFacts DEF Sig
<1>7. i \in Nat /\ i - 1 \in Nat /\ (i - 1) + 1 = i
  BY <1>2, <1>6
<1>8. Extras(Sig, i) = Extras(Sig, i - 1)
  <2>1. Extras(Sig, (i - 1) + 1) = Extras(Sig, i - 1) + IF InRegister(Sig, (i - 1) + 1) THEN 0 ELSE 1
    BY <1>7, ExtrasFacts
  <2>2. Extras(Sig, i - 1) \in 0 .. i - 1
    BY <1>7, ExtrasFacts
  <2> QED BY <1>2, <1>7, <2>1, <2>2
<1>9. ArgRegister(Sig, i) \in 0 .. 3 \cup 16 .. 20
  BY <1>2, <1>7, ArgRegisters
<1>10. Argument(depth + 1, i) \in DataWords
  <2>1. depth + 1 \in 0 .. MaxDepth
    BY <1>4, <1>5
  <2> QED BY <1>7, <2>1, WordsOfDepth
<1>11. /\ DOMAIN reg' = 0 .. 47 /\ \A q \in 0 .. 47 : reg'[q] \in DataWords
       /\ \A q \in 0 .. 47 : q # ArgRegister(Sig, i) => reg'[q] = reg[q]
  <2>1. ArgRegister(Sig, i) \in 0 .. 47
    BY <1>9
  <2> QED BY <1>2, <1>4, <1>10, <2>1, RegisterSet
<1>12. Kept(x.own, {})'
  BY <1>5, <1>9, <1>11, AllocatableFacts DEF Kept
<1>13. Bounds'
  BY <1>2, <1>4, <1>11 DEF Bounds, code
<1>14. Sig' = Sig
  BY <1>2 DEF Sig, code
<1>15. Running(x)'
  <2>1. i' - 1 = i /\ i' \in 1 .. Len(Sig) + 1
    BY <1>2, <1>6
  <2>2. ArgumentsAt(callee, depth + 1, Extras(Sig, i - 1), sp)'
    BY <1>2, <1>5, <1>8, <1>14, <2>1 DEF ArgumentsAt, code
  <2>3. /\ cr' = Len(Sig') - Extras(Sig', i' - 1) /\ sp' = x.rest - Extras(Sig', i' - 1)
        /\ i' \in 1 .. Len(Sig') + 1
    BY <1>2, <1>5, <1>8, <1>14, <2>1
  <2>4. callee' \in DOMAIN Functions /\ depth' < MaxDepth /\ fun' = x.fn /\ fp' = x.base /\ pc' = "args"
    BY <1>2, <1>4, <1>5 DEF code
  <2> QED BY <1>12, <2>2, <2>3, <2>4 DEF Running
<1>16. mem' = mem
  BY <1>2
<1> QED BY <1>3, <1>4, <1>13, <1>15, <1>16 DEF Good

LEMMA PushArgumentGood ==
  ASSUME NEW ch, NEW d, NEW x, Good(ch, d, x), PushArgument
  PROVE  Good(ch, d, x)'
<1>2. /\ pc = "args" /\ i \in DOMAIN Sig /\ ~InRegister(Sig, i) /\ i' = i + 1
      /\ sp' = sp - 1 /\ mem' = [mem EXCEPT ![sp - 1] = Argument(depth + 1, cr)] /\ cr' = cr - 1
      /\ UNCHANGED <<code, pc, reg, fp, lr>>
  BY DEF PushArgument
<1>3. /\ ~Between /\ ~Between' /\ Entered' = Entered
  BY <1>2 DEF Between, Entered, code
<1>4. /\ Chain(mem, ch, d) /\ Running(x) /\ Bounds /\ d = Entered /\ x = ch[d]
      /\ callee \in DOMAIN Functions /\ depth \in 0 .. MaxDepth /\ MaxDepth \in Nat /\ Bottom \in Nat
      /\ depth = d /\ d \in Nat /\ d <= MaxDepth
      /\ Placed(x, d) /\ x.base \in Int /\ x.rest \in Int /\ x.rest <= x.base /\ x.base <= Bottom
  BY <1>2, <1>3, Here
<1>5. /\ depth < MaxDepth /\ i \in 1 .. Len(Sig) + 1 /\ cr = Len(Sig) - Extras(Sig, i - 1)
      /\ sp = x.rest - Extras(Sig, i - 1)
      /\ ArgumentsAt(callee, depth + 1, Extras(Sig, i - 1), sp)
      /\ fun = x.fn /\ fp = x.base /\ Kept(x.own, {})
  BY <1>2, <1>4 DEF Running
<1>6. Len(Sig) \in Nat /\ DOMAIN Sig = 1 .. Len(Sig)
  BY <1>4, FunctionFacts DEF Sig
<1>7. i \in Nat /\ i - 1 \in Nat /\ (i - 1) + 1 = i /\ i <= Len(Sig)
  BY <1>2, <1>6
<1>8. PICK e \in Nat : e = Extras(Sig, i - 1) /\ Extras(Sig, i) = e + 1
  <2>1. Extras(Sig, (i - 1) + 1) = Extras(Sig, i - 1) + IF InRegister(Sig, (i - 1) + 1) THEN 0 ELSE 1
    BY <1>7, ExtrasFacts
  <2>2. Extras(Sig, i - 1) \in 0 .. i - 1
    BY <1>7, ExtrasFacts
  <2> QED BY <1>2, <1>7, <2>1, <2>2
<1>9. PICK n \in Nat, t \in Int, s \in Nat, z \in Nat :
        n = Len(Sig) /\ t = x.rest /\ s = StackArgs(callee) /\ z = Len(Functions[callee].saved)
  BY <1>4, <1>6, FunctionFacts
<1>10. e + 1 <= s
  <2>1. s = Extras(Sig, Len(Sig))
    BY <1>9 DEF StackArgs, Sig
  <2> QED BY <1>6, <1>7, <1>8, <2>1, ExtrasGrow
<1>11. t - s >= 1
  <2>1. /\ EntrySp(x, callee) = x.rest - StackArgs(callee)
        /\ BaseOf(x, callee) = EntrySp(x, callee) - 2 - Len(Functions[callee].saved)
        /\ BaseOf(x, callee) - FrameSize(Functions[callee]) >= 1
    BY <1>4, <1>5, NextPlaced
  <2>2. PICK q \in Nat : q = FrameSize(Functions[callee])
    BY <1>4, FunctionFacts
  <2>3. t - s - 2 - z - q >= 1
    BY <1>9, <2>1, <2>2
  <2> QED BY <2>3
<1>12. sp = t - e /\ sp - 1 \in 1 .. Bottom /\ sp - 1 < t /\ t <= Bottom
  <2>1. sp = t - e
    BY <1>5, <1>8, <1>9
  <2>2. t <= x.base /\ x.base <= Bottom /\ x.base \in Int /\ Bottom \in Int
    BY <1>4, <1>9
  <2>3. t <= Bottom
    BY <2>2
  <2>4. t - e - 1 >= 1 /\ t - e - 1 <= Bottom
    BY <1>10, <1>11, <2>2, <2>3
  <2>5. t - e - 1 \in 1 .. Bottom
    BY <2>2, <2>4
  <2> QED BY <2>1, <2>3, <2>5
<1>13. /\ DOMAIN mem' = 1 .. Bottom /\ mem'[sp - 1] = Argument(depth + 1, cr)
       /\ \A a \in 1 .. Bottom : a # sp - 1 => mem'[a] = mem[a]
  BY <1>2, <1>4, <1>12 DEF Bounds
<1>14. Bounds'
  BY <1>2, <1>4, <1>13 DEF Bounds, code
<1>15. Chain(mem', ch, d)
  <2>1. \A a \in ch[d].base .. Bottom : a \in 1 .. Bottom /\ a # sp - 1
    <3>1. x.base >= t /\ sp - 1 < t /\ sp - 1 >= 1 /\ sp - 1 \in Int
      BY <1>4, <1>9, <1>12
    <3>2. x.base > sp - 1 /\ x.base >= 1
      BY <1>4, <3>1
    <3>3. ch[d].base = x.base /\ x.base \in Int /\ Bottom \in Nat
      BY <1>4
    <3> QED BY <3>1, <3>2, <3>3
  <2>2. \A a \in ch[d].base .. Bottom : mem'[a] = mem[a]
    BY <1>13, <2>1
  <2> QED BY <1>4, <2>2, ChainKept
<1>16. Sig' = Sig /\ callee' = callee /\ depth' = depth /\ fun' = fun
  BY <1>2 DEF Sig, code
<1>17. i' - 1 = i /\ i' \in 1 .. Len(Sig) + 1
  BY <1>2, <1>6
<1>18. ArgumentsAt(callee, depth + 1, Extras(Sig, i - 1), sp)'
  <2>1. Len(Functions[callee].sig) = n
    BY <1>9 DEF Sig
  <2>2. \A j \in 0 .. e - 1 : mem[sp + j] = Argument(depth + 1, n - e + 1 + j)
    BY <1>5, <1>8, <2>1 DEF ArgumentsAt
  <2>3. ASSUME NEW j \in 0 .. e PROVE mem'[sp - 1 + j] = Argument(depth + 1, n - (e + 1) + 1 + j)
    <3>1. CASE j = 0
      <4>1. sp - 1 + j = sp - 1 /\ n - (e + 1) + 1 + j = cr
        BY <1>5, <1>8, <1>9, <1>12, <3>1, SMTT(30)
      <4> QED BY <1>13, <4>1
    <3>2. CASE j # 0
      <4>1. j - 1 \in 0 .. e - 1 /\ sp + (j - 1) = sp - 1 + j
            /\ n - e + 1 + (j - 1) = n - (e + 1) + 1 + j
        BY <1>12, <3>2
      <4>2. sp - 1 + j \in 1 .. Bottom /\ sp - 1 + j # sp - 1
        BY <1>4, <1>12, <3>2
      <4>3. mem[sp + (j - 1)] = Argument(depth + 1, n - e + 1 + (j - 1))
        BY <2>2, <4>1
      <4> QED BY <1>13, <4>1, <4>2, <4>3
    <3> QED BY <3>1, <3>2
  <2>4. Extras(Sig, i)= e + 1 /\ (e + 1) - 1 = e
    BY <1>8
  <2>5. \A j \in 0 .. (e + 1) - 1 : mem'[sp' + j] = Argument(depth' + 1, Len(Functions[callee'].sig) - (e + 1) + 1 + j)
    BY <1>2, <1>16, <2>1, <2>3, <2>4
  <2> QED BY <1>16, <1>17, <2>4, <2>5 DEF ArgumentsAt
<1>19. Running(x)'
  <2>1. /\ cr' = Len(Sig') - Extras(Sig', i' - 1) /\ sp' = x.rest - Extras(Sig', i' - 1)
    <3>1. cr' = n - (e + 1) /\ sp' = t - (e + 1)
      <4>1. cr = n - e /\ sp = t - e /\ cr' = cr - 1 /\ sp' = sp - 1
        BY <1>2, <1>5, <1>8, <1>9, <1>12
      <4> QED BY <4>1
    <3> QED BY <1>8, <1>9, <1>16, <1>17, <3>1
  <2>2. /\ callee' \in DOMAIN Functions /\ depth' < MaxDepth /\ fun' = x.fn /\ fp' = x.base
        /\ pc' = "args" /\ i' \in 1 .. Len(Sig') + 1
    BY <1>2, <1>4, <1>5, <1>16, <1>17
  <2>3. Kept(x.own, {})'
    BY <1>2, <1>5 DEF Kept
  <2> QED BY <1>18, <2>1, <2>2, <2>3 DEF Running
<1> QED BY <1>3, <1>4, <1>14, <1>15, <1>19 DEF Good

LEMMA BranchLinkGood ==
  ASSUME NEW ch, NEW d, NEW x, Good(ch, d, x), BranchLink
  PROVE  Good(ch, d, x)'
<1>2. /\ pc = "args" /\ i \notin DOMAIN Sig /\ lr' = Site(fun, callee) /\ fun' = callee
      /\ depth' = depth + 1 /\ pc' = "push" /\ i' = 1
      /\ UNCHANGED <<callee, cr, reg, sp, fp, mem>>
  BY DEF BranchLink
<1>3. /\ ~Between /\ Between'
  BY <1>2 DEF Between
<1>4. /\ Chain(mem, ch, d) /\ Running(x) /\ Bounds /\ d = Entered /\ x = ch[d]
      /\ callee \in DOMAIN Functions /\ MaxDepth \in Nat
      /\ depth = d /\ d \in Nat /\ d <= MaxDepth
  BY <1>2, <1>3, Here
<1>5. /\ depth < MaxDepth /\ i \in 1 .. Len(Sig) + 1
      /\ sp = x.rest - Extras(Sig, i - 1)
      /\ ArgumentsAt(callee, depth + 1, Extras(Sig, i - 1), sp)
      /\ fun = x.fn /\ fp = x.base /\ Kept(x.own, {})
  BY <1>2, <1>4 DEF Running
<1>6. Len(Sig) \in Nat /\ DOMAIN Sig = 1 .. Len(Sig)
  BY <1>4, FunctionFacts DEF Sig
<1>7. i - 1 = Len(Sig)
  BY <1>2, <1>5, <1>6
<1>8. fun \in DOMAIN Functions /\ depth \in 1 .. MaxDepth
  BY <1>2, <1>4 DEF Bounds
<1>9. fun # 0
  BY <1>8, FunctionFacts
<1>10. Entered' = d
  BY <1>2, <1>4 DEF Entered
<1>11. Extras(Sig, i - 1) = StackArgs(callee)
  BY <1>7 DEF StackArgs, Sig
<1>12. Bounds'
  <2>1. depth' \in 1 .. MaxDepth
    BY <1>2, <1>4, <1>5, <1>8
  <2> QED BY <1>2, <1>4, <2>1 DEF Bounds, Site
<1>13. Opening(x)'
  <2>1. depth' # 1
    BY <1>2, <1>8
  <2>2. sp' = EntrySp(x, fun') /\ lr' = ReturnTo(x, fun')
    BY <1>2, <1>5, <1>9, <1>11 DEF EntrySp, ReturnTo
  <2>3. Kept(x.own, {})'
    BY <1>2, <1>5 DEF Kept
  <2>4. ArgumentsAt(fun, depth, StackArgs(fun), EntrySp(x, fun))'
    <3>1. EntrySp(x, fun') = sp
      BY <1>2, <2>2
    <3> QED BY <1>2, <1>5, <1>11, <3>1 DEF ArgumentsAt
  <2> QED BY <1>2, <1>5, <2>1, <2>2, <2>3, <2>4 DEF Opening
<1> QED BY <1>2, <1>3, <1>4, <1>10, <1>12, <1>13 DEF Good

\* What a push does to the memory.
LEMMA PushFacts ==
  ASSUME NEW words, Pushed(words), Bounds, NEW n \in Nat, Len(words) = n,
         NEW s \in Int, s = sp, s - n >= 1, s <= Bottom + 1
  PROVE  /\ sp' = s - n /\ DOMAIN mem' = 1 .. Bottom
         /\ \A k \in 1 .. n : mem'[s - n + k - 1] = words[k]
         /\ \A a \in s .. Bottom : mem'[a] = mem[a]
<1>0. Bottom \in Nat
  BY StackAssumption
<1>1. sp' = s - n
  BY DEF Pushed
<1>2. mem' = [a \in 1 .. Bottom |-> IF a \in s - n .. s - 1 THEN words[a - (s - n) + 1] ELSE mem[a]]
  BY <1>1 DEF Pushed, Bounds
<1>3. ASSUME NEW k \in 1 .. n PROVE mem'[s - n + k - 1] = words[k]
  <2>1. PICK a \in Int : a = s - n + k - 1
    OBVIOUS
  <2>2. a \in 1 .. Bottom /\ a \in s - n .. s - 1 /\ a - (s - n) + 1 = k
    BY <1>0, <2>1
  <2> QED BY <1>2, <2>1, <2>2
<1>4. ASSUME NEW a \in s .. Bottom PROVE mem'[a] = mem[a]
  <2>1. a \in 1 .. Bottom /\ a \notin s - n .. s - 1
    <3>1. a >= s /\ a <= Bottom /\ s >= 1
      OBVIOUS
    <3> QED BY <1>0, <3>1
  <2> QED BY <1>2, <2>1
<1> QED BY <1>1, <1>2, <1>3, <1>4

\* A chain stays when the memory from b on does, b the base of the next activation.
LEMMA ChainAbove ==
  ASSUME NEW N, NEW ch, NEW d \in Nat, d <= MaxDepth, Chain(mem, ch, d),
         NEW b \in Int, NEW e \in Int, e = ch[d].base, b <= e,
         \A a \in b .. Bottom : N[a] = mem[a]
  PROVE  Chain(N, ch, d)
<1>1. Bottom \in Nat
  BY StackAssumption
<1>2. \A a \in e .. Bottom : a \in b .. Bottom
  BY <1>1
<1> QED BY <1>2, ChainKept

LEMMA PushGeneralGood ==
  ASSUME NEW ch, NEW d, NEW x, Good(ch, d, x), PushGeneral
  PROVE  Good(ch, d, x)'
<1> DEFINE gs == GeneralOf(fun)
           words == ValuesOf(General) \o <<Pointer(fp), lr>>
<1>2. /\ pc = "push" /\ Pushed(words) /\ pc' = "vpush" /\ UNCHANGED <<code, i, cr, reg, fp, lr>>
  BY DEF PushGeneral
<1>3. Between /\ Between' /\ Entered' = Entered
  BY <1>2 DEF Between, Entered, code
<1>4. /\ Chain(mem, ch, d) /\ Opening(x) /\ Bounds /\ d = Entered /\ x = ch[d]
      /\ fun \in DOMAIN Functions /\ d \in Nat /\ d < MaxDepth /\ d <= MaxDepth /\ Placed(x, d)
      /\ Bottom \in Nat /\ Laid(x, fun)
  BY <1>3, Here
<1>5. /\ i = 1 /\ fp = x.base /\ sp = EntrySp(x, fun) /\ lr = ReturnTo(x, fun) /\ Kept(x.own, {})
      /\ ArgumentsAt(fun, depth, StackArgs(fun), EntrySp(x, fun)) /\ (depth = 1 => fun = 1)
  BY <1>2, <1>4 DEF Opening
<1>20. PICK b \in Int, len \in Nat, gl \in Nat, fl \in Nat, z \in Nat, a \in Nat,
            r \in Int, e \in Int, s \in Int :
         Parts(x, fun, b, len, gl, fl, z, a, r, e, s) /\ Apart(b, len, gl, fl, z, a, r, e, s)
  BY <1>4 DEF Laid
<1>6. /\ b = BaseOf(x, fun) /\ len = Len(Functions[fun].saved)
      /\ gl = Len(GeneralOf(fun)) /\ fl = Len(FloatOf(fun))
      /\ a = StackArgs(fun) /\ e = x.base /\ s = EntrySp(x, fun)
  BY <1>20 DEF Parts
<1>7. /\ gl + fl = len /\ b - z >= 1 /\ s = b + len + 2 /\ r = b + len + 2 + a
      /\ r <= e /\ e <= Bottom
  BY <1>20 DEF Apart
<1>8. General = gs /\ DOMAIN gs = 1 .. gl
  BY <1>4, <1>6, SavedSplit DEF General, GeneralOf, Saved, Fn
<1>9. /\ Len(words) = gl + 2 /\ words[gl + 1] = Pointer(fp) /\ words[gl + 2] = lr
      /\ \A k \in 1 .. gl : words[k] = reg[gs[k]]
  <2> DEFINE v == ValuesOf(General)
  <2>1. v = [n \in 1 .. gl |-> reg[gs[n]]]
    BY <1>8 DEF ValuesOf
  <2> HIDE DEF v
  <2>2. v \in Seq({reg[gs[n]] : n \in 1 .. gl}) /\ Len(v) = gl /\ \A k \in 1 .. gl : v[k] = reg[gs[k]]
    BY <2>1
  <2>3. PICK w : w = v \o <<Pointer(fp), lr>>
    OBVIOUS
  <2>5. PICK S : v \in Seq(S) /\ <<Pointer(fp), lr>> \in Seq(S)
    <3>1. v \in Seq({reg[gs[n]] : n \in 1 .. gl} \cup {Pointer(fp), lr})
      BY <2>1
    <3> QED BY <3>1
  <2>6. PICK t : t = <<Pointer(fp), lr>>
    OBVIOUS
  <2>8. t \in Seq(S) /\ Len(t) = 2 /\ t[1] = Pointer(fp) /\ t[2] = lr
    BY <2>5, <2>6
  <2>7. /\ Len(w) = gl + 2
        /\ \A n \in 1 .. gl + 2 : w[n] = IF n <= gl THEN v[n] ELSE t[n - gl]
    BY <2>2, <2>3, <2>5, <2>6, <2>8, ConcatProperties
  <2>4. /\ Len(w) = gl + 2 /\ w[gl + 1] = Pointer(fp) /\ w[gl + 2] = lr
        /\ \A k \in 1 .. gl : w[k] = v[k]
    <3>1. gl + 1 \in 1 .. gl + 2 /\ gl + 2 \in 1 .. gl + 2 /\ ~(gl + 1 <= gl) /\ ~(gl + 2 <= gl)
          /\ (gl + 1) - gl = 1 /\ (gl + 2) - gl = 2
      OBVIOUS
    <3>2. \A k \in 1 .. gl : k \in 1 .. gl + 2 /\ k <= gl
      OBVIOUS
    <3> QED BY <2>8, <2>7, <3>1, <3>2
  <2> QED BY <2>2, <2>3, <2>4 DEF v
<1> HIDE DEF words, gs
<1>10. s - (gl + 2) = b + fl /\ s - (gl + 2) >= 1 /\ s <= Bottom + 1 /\ gl + 2 \in Nat
  <2>1. s - (gl + 2) = b + fl
    BY <1>7
  <2>2. b + fl >= 1
    BY <1>7
  <2>4. s <= r /\ r <= e /\ e <= Bottom
    BY <1>7
  <2> QED BY <1>4, <2>1, <2>2, <2>4
<1>11. /\ sp' = b + fl /\ DOMAIN mem' = 1 .. Bottom
       /\ \A k \in 1 .. gl + 2 : mem'[b + fl + k - 1] = words[k]
       /\ \A c \in s .. Bottom : mem'[c] = mem[c]
  <2>1. s = sp
    BY <1>5, <1>6
  <2>2. \A n \in Nat : n = gl + 2 => /\ sp' = s - n /\ DOMAIN mem' = 1 .. Bottom
                                    /\ \A k \in 1 .. n : mem'[s - n + k - 1] = words[k]
                                    /\ \A c \in s .. Bottom : mem'[c] = mem[c]
    BY <1>2, <1>4, <1>9, <1>10, <2>1, PushFacts
  <2> QED BY <1>10, <2>2
<1>12. GeneralSaved(mem', x, fun, b)
  <2>1. ASSUME NEW k \in 1 .. gl PROVE mem'[b + fl + k - 1] = Scratch(x.own[gs[k]], gs[k])
    <3>1. gs[k] \in Allocatable
      BY <1>4, <1>6, PartsAscend DEF gs
    <3>2. k \in 1 .. gl + 2
      OBVIOUS
    <3> QED BY <1>5, <1>9, <1>11, <3>1, <3>2 DEF Kept
  <2> QED BY <1>6, <2>1 DEF GeneralSaved, gs
<1>13. LinkSaved(mem', x, fun, b)
  <2>1. b + len = b + fl + (gl + 1) - 1 /\ b + len + 1 = b + fl + (gl + 2) - 1
    BY <1>7
  <2>2. gl + 1 \in 1 .. gl + 2 /\ gl + 2 \in 1 .. gl + 2
    OBVIOUS
  <2>3. mem'[b + len] = words[gl + 1] /\ mem'[b + len + 1] = words[gl + 2]
    BY <1>11, <2>1, <2>2
  <2> QED BY <1>5, <1>6, <1>9, <2>3 DEF LinkSaved
<1>14. InChunks(fun, 0) = 0 /\ Chunks(FloatOf(fun)) \in Nat /\ FloatSaved(mem', x, fun, b, 0)
  BY <1>4, ChunkFacts DEF FloatSaved
<1>15. Chain(mem', ch, d)
  <2>1. s <= e
    BY <1>7
  <2> QED BY <1>4, <1>6, <1>11, <2>1, ChainAbove
<1>16. Bounds'
  BY <1>2, <1>4, <1>11 DEF Bounds, code
<1>17. ArgumentsAt(fun, depth, StackArgs(fun), EntrySp(x, fun))'
  <2>1. \A j \in 0 .. a - 1 : s + j \in s .. Bottom
    <3> SUFFICES ASSUME NEW j \in 0 .. a - 1 PROVE s + j \in s .. Bottom
      OBVIOUS
    <3>1. s + a <= Bottom /\ j >= 0 /\ j < a
      BY <1>4, <1>7
    <3> QED BY <1>4, <3>1
  <2>2. \A j \in 0 .. a - 1 : mem'[s + j] = mem[s + j]
    BY <1>11, <2>1
  <2>3. fun' = fun /\ depth' = depth
    BY <1>2 DEF code
  <2> QED BY <1>5, <1>6, <1>7, <2>2, <2>3 DEF ArgumentsAt
<1>18. Opening(x)'
  <2>1. fun' = fun /\ depth' = depth /\ fp' = x.base /\ i' = 1 /\ lr' = lr
    BY <1>2, <1>5 DEF code
  <2>2. Kept(x.own, {})'
    BY <1>2, <1>5 DEF Kept
  <2>3. i' \in 1 .. Chunks(FloatOf(fun)) + 1 /\ i' - 1 = 0
    BY <1>14, <2>1
  <2>4. sp' = b + Len(FloatOf(fun)) - InChunks(fun, i' - 1)
    BY <1>6, <1>11, <1>14, <2>3
  <2> QED BY <1>2, <1>5, <1>6, <1>12, <1>13, <1>14, <1>17, <2>1, <2>2, <2>3, <2>4 DEF Opening
<1> QED BY <1>3, <1>4, <1>15, <1>16, <1>18 DEF Good

LEMMA PushFloatGood ==
  ASSUME NEW ch, NEW d, NEW x, Good(ch, d, x), PushFloat
  PROVE  Good(ch, d, x)'
<1> DEFINE f == FloatOf(fun)
           words == ValuesOf(Chunk(Float, i))
<1>2. /\ pc = "vpush" /\ i <= Chunks(Float) /\ Pushed(words) /\ i' = i + 1
      /\ UNCHANGED <<code, pc, cr, reg, fp, lr>>
  BY DEF PushFloat
<1>3. Between /\ Between' /\ Entered' = Entered
  BY <1>2 DEF Between, Entered, code
<1>4. /\ Chain(mem, ch, d) /\ Opening(x) /\ Bounds /\ d = Entered /\ x = ch[d]
      /\ fun \in DOMAIN Functions /\ d \in Nat /\ d <= MaxDepth /\ Placed(x, d)
      /\ Bottom \in Nat /\ Laid(x, fun)
  BY <1>3, Here
<1>5. PICK b \in Int, len \in Nat, gl \in Nat, fl \in Nat, z \in Nat, a \in Nat,
           r \in Int, e \in Int, s \in Int :
        Parts(x, fun, b, len, gl, fl, z, a, r, e, s) /\ Apart(b, len, gl, fl, z, a, r, e, s)
  BY <1>4 DEF Laid
<1>6. /\ b = BaseOf(x, fun) /\ len = Len(Functions[fun].saved) /\ fl = Len(f)
      /\ a = StackArgs(fun) /\ e = x.base /\ s = EntrySp(x, fun)
  BY <1>5 DEF Parts
<1>7. /\ gl + fl = len /\ b - z >= 1 /\ s = b + len + 2 /\ r = b + len + 2 + a
      /\ r <= e /\ e <= Bottom
  BY <1>5 DEF Apart
<1>8. Float = f
  BY <1>4, <1>6, SavedSplit DEF Float, FloatOf, Saved, Fn
<1>9. /\ fp = x.base /\ lr = ReturnTo(x, fun) /\ i \in 1 .. Chunks(f) + 1 /\ (depth = 1 => fun = 1)
      /\ sp = b + fl - InChunks(fun, i - 1)
      /\ Kept(x.own, {})
      /\ LinkSaved(mem, x, fun, b) /\ GeneralSaved(mem, x, fun, b)
      /\ FloatSaved(mem, x, fun, b, i - 1)
      /\ ArgumentsAt(fun, depth, StackArgs(fun), EntrySp(x, fun))
  BY <1>2, <1>4, <1>6 DEF Opening
<1> DEFINE c == Chunk(f, i)
<1>10. Chunks(f) \in Nat /\ i \in 1 .. Chunks(f) /\ i - 1 \in 0 .. Chunks(f) /\ i \in 0 .. Chunks(f)
       /\ i + 1 \in 1 .. Chunks(f) + 1 /\ (i + 1) - 1 = i
  <2>1. Chunks(f) \in Nat
    BY <1>4, ChunkFacts
  <2> HIDE DEF f
  <2> QED BY <1>2, <1>8, <1>9, <2>1
<1>11. /\ Len(c) \in Nat /\ DOMAIN c = 1 .. Len(c) /\ InChunks(fun, i) = InChunks(fun, i - 1) + Len(c)
       /\ \A j \in 1 .. Len(c) : c[j] = f[InChunks(fun, i - 1) + j]
       /\ InChunks(fun, i - 1) \in 0 .. Len(f) /\ InChunks(fun, i) \in 0 .. Len(f)
  BY <1>4, <1>10, ChunkFacts
<1>12. PICK n \in Nat, q \in Nat : n = Len(c) /\ q = InChunks(fun, i - 1)
  <2>1. InChunks(fun, i - 1) \in 0 .. fl
    BY <1>6, <1>11
  <2>2. InChunks(fun, i - 1) \in Nat
    BY <2>1
  <2> QED BY <1>11, <2>2
<1>13. InChunks(fun, i) = q + n /\ q + n <= fl /\ sp = b + fl - q
  BY <1>6, <1>9, <1>11, <1>12
<1>14. words = [k \in 1 .. n |-> reg[c[k]]]
  BY <1>8, <1>11, <1>12 DEF ValuesOf
<1>15. Len(words) = n /\ \A k \in 1 .. n : words[k] = reg[c[k]]
  BY <1>14
<1> HIDE DEF words, c, f
<1>16. PICK p \in Int : p = b + fl - q
  OBVIOUS
<1>17. p - n >= 1 /\ p <= Bottom + 1 /\ p <= s /\ p <= e /\ p - n = b + fl - (q + n)
  BY <1>4, <1>7, <1>13, <1>16
<1>18. /\ sp' = p - n /\ DOMAIN mem' = 1 .. Bottom
       /\ \A k \in 1 .. n : mem'[p - n + k - 1] = words[k]
       /\ \A m \in p .. Bottom : mem'[m] = mem[m]
  <2>1. p = sp
    BY <1>13, <1>16
  <2> QED BY <1>2, <1>4, <1>15, <1>17, <2>1, PushFacts
<1>19. /\ LinkSaved(mem', x, fun, b) /\ GeneralSaved(mem', x, fun, b)
       /\ FloatSaved(mem', x, fun, b, i - 1)
  <2>1. b + len + 1 <= Bottom
    BY <1>4, <1>7
  <2>2. \A m \in b + fl - q .. b + len + 1 : m \in p .. Bottom
    BY <1>4, <1>16, <2>1
  <2>3. \A m \in b + Len(f) - InChunks(fun, i - 1) .. b + Len(Functions[fun].saved) + 1 :
          mem'[m] = mem[m]
    BY <1>6, <1>12, <1>18, <2>2
  <2>4. i - 1 \in 0 .. Chunks(FloatOf(fun))
    BY <1>10 DEF f
  <2> QED BY <1>4, <1>9, <2>3, <2>4, SavedKept DEF f
<1>20. FloatSaved(mem', x, fun, b, i)
  <2> SUFFICES ASSUME NEW k \in 1 .. i, NEW j \in 1 .. Len(Chunk(f, k))
               PROVE  mem'[b + Len(f) - InChunks(fun, k) + j - 1]
                        = Scratch(x.own[Chunk(f, k)[j]], Chunk(f, k)[j])
    BY DEF FloatSaved, f
  <2>1. CASE k = i
    <3>1. Chunk(f, k) = c /\ j \in 1 .. n
      BY <1>12, <2>1 DEF c
    <3>2. b + Len(f) - InChunks(fun, k) + j - 1 = p - n + j - 1
      BY <1>6, <1>13, <1>17, <2>1
    <3>3. c[j] \in Allocatable
      <4>1. q + j \in 1 .. Len(FloatOf(fun))
        BY <1>6, <1>13, <3>1 DEF f
      <4> QED BY <1>4, <1>11, <1>12, <3>1, <4>1, PartsAscend DEF f
    <3>4. mem'[p - n + j - 1] = reg[c[j]]
      BY <1>15, <1>18, <3>1
    <3> QED BY <1>9, <3>1, <3>2, <3>3, <3>4 DEF Kept
  <2>2. CASE k # i
    <3>1. k \in 1 .. i - 1
      BY <1>10, <2>2
    <3> QED BY <1>19, <3>1 DEF FloatSaved, f
  <2> QED BY <2>1, <2>2
<1>21. Chain(mem', ch, d)
  BY <1>4, <1>6, <1>17, <1>18, ChainAbove
<1>22. Bounds'
  BY <1>2, <1>4, <1>18 DEF Bounds, code
<1>23. fun' = fun /\ depth' = depth
  BY <1>2 DEF code
<1>24. ArgumentsAt(fun, depth, StackArgs(fun), EntrySp(x, fun))'
  <2>1. \A j \in 0 .. a - 1 : s + j \in p .. Bottom
    <3> SUFFICES ASSUME NEW j \in 0 .. a - 1 PROVE s + j \in p .. Bottom
      OBVIOUS
    <3>1. s + a <= Bottom /\ j >= 0 /\ j < a
      BY <1>4, <1>7
    <3> QED BY <1>4, <1>17, <3>1
  <2>2. \A j \in 0 .. a - 1 : mem'[s + j] = mem[s + j]
    BY <1>18, <2>1
  <2> QED BY <1>6, <1>9, <1>23, <2>2 DEF ArgumentsAt
<1>25. Opening(x)'
  <2>1. fp' = x.base /\ lr' = ReturnTo(x, fun') /\ i' = i + 1 /\ pc' = "vpush"
    BY <1>2, <1>9, <1>23
  <2>2. Kept(x.own, {})'
    BY <1>2, <1>9 DEF Kept
  <2>3. i' \in 1 .. Chunks(FloatOf(fun)) + 1 /\ i' - 1 = i
    BY <1>10, <2>1 DEF f
  <2>4. sp' = b + Len(FloatOf(fun)) - InChunks(fun, i' - 1)
    BY <1>6, <1>13, <1>17, <1>18, <2>3 DEF f
  <2> QED BY <1>6, <1>9, <1>19, <1>20, <1>23, <1>24, <2>1, <2>2, <2>3, <2>4 DEF Opening
<1> QED BY <1>3, <1>4, <1>21, <1>22, <1>25 DEF Good

LEMMA OpenFrameGood ==
  ASSUME NEW ch, NEW d, NEW x, Good(ch, d, x), OpenFrame
  PROVE  Good(ch, d, x)'
<1>2. /\ pc = "vpush" /\ i > Chunks(Float) /\ fp' = sp /\ sp' = sp - FrameSize(Fn)
      /\ reg' = [reg EXCEPT ![4] = Scratch(depth, 4)] /\ pc' = "params" /\ i' = 1
      /\ UNCHANGED <<code, cr, lr, mem>>
  BY DEF OpenFrame
<1>3. Between /\ Between' /\ Entered' = Entered
  BY <1>2 DEF Between, Entered, code
<1>4. /\ Chain(mem, ch, d) /\ Opening(x) /\ Bounds /\ d = Entered /\ x = ch[d]
      /\ fun \in DOMAIN Functions /\ d \in Nat /\ depth \in 0 .. MaxDepth
  BY <1>3, Here
<1>5. Float = FloatOf(fun)
  BY <1>4, SavedSplit DEF Float, FloatOf, Saved, Fn
<1>6. /\ i \in 1 .. Chunks(FloatOf(fun)) + 1 /\ (depth = 1 => fun = 1)
      /\ sp = BaseOf(x, fun) + Len(FloatOf(fun)) - InChunks(fun, i - 1)
      /\ Kept(x.own, {})
      /\ LinkSaved(mem, x, fun, BaseOf(x, fun)) /\ GeneralSaved(mem, x, fun, BaseOf(x, fun))
      /\ FloatSaved(mem, x, fun, BaseOf(x, fun), i - 1)
      /\ ArgumentsAt(fun, depth, StackArgs(fun), EntrySp(x, fun))
  BY <1>2, <1>4 DEF Opening
<1>7. i - 1 = Chunks(FloatOf(fun))
  <2>1. Chunks(FloatOf(fun)) \in Nat
    BY <1>4, ChunkFacts
  <2> QED BY <1>2, <1>5, <1>6, <2>1
<1>8. sp = BaseOf(x, fun)
  <2>1. InChunks(fun, i - 1) = Len(FloatOf(fun)) /\ Len(FloatOf(fun)) \in Nat
    BY <1>4, <1>7, ChunkFacts, SavedSplit
  <2>2. BaseOf(x, fun) \in Int
    BY <1>3, Here DEF Laid, Parts
  <2> QED BY <1>6, <2>1, <2>2
<1>9. AllSaved(mem, x, fun, BaseOf(x, fun))
  BY <1>6, <1>7 DEF AllSaved
<1>10. /\ DOMAIN reg' = 0 .. 47 /\ \A q \in 0 .. 47 : reg'[q] \in DataWords
       /\ \A q \in 0 .. 47 : q # 4 => reg'[q] = reg[q]
  <2>1. Scratch(depth, 4) \in DataWords
    BY <1>4, WordsOfDepth
  <2>2. 4 \in 0 .. 47
    OBVIOUS
  <2> QED BY <1>2, <1>4, <2>1, <2>2, RegisterSet
<1>11. fun' = fun /\ depth' = depth /\ callee' = callee
  BY <1>2 DEF code
<1>12. Kept(x.own, ToSet(Saved))'
  <2>1. 4 \in ToSet(Saved')
    BY <1>4, <1>11, FunctionFacts DEF Saved, Fn
  <2> QED BY <1>6, <1>10, <2>1, AllocatableFacts DEF Kept
<1>13. Bounds'
  BY <1>2, <1>4, <1>10, <1>11 DEF Bounds
<1>14. Opening(x)'
  <2>1. Fn' = Fn /\ Len(Fn.sig) \in Nat
    BY <1>4, <1>11, FunctionFacts DEF Fn
  <2>3. fp' = BaseOf(x, fun') /\ sp' = BaseOf(x, fun') - FrameSize(Fn')
    BY <1>2, <1>8, <1>11, <2>1
  <2>4. i' \in 1 .. Len(Fn'.sig) + 1
    BY <1>2, <2>1
  <2>5. AllSaved(mem', x, fun', BaseOf(x, fun'))
    BY <1>2, <1>9, <1>11
  <2>6. ArgumentsAt(fun, depth, StackArgs(fun), EntrySp(x, fun))'
    BY <1>2, <1>6, <1>11 DEF ArgumentsAt
  <2> QED BY <1>2, <1>6, <1>11, <1>12, <2>3, <2>4, <2>5, <2>6 DEF Opening
<1> QED BY <1>2, <1>3, <1>4, <1>13, <1>14 DEF Good

\* A word below the base of the callee is written.
Written(p, w) == mem' = [mem EXCEPT ![p] = w]

LEMMA LocalSet ==
  ASSUME Bounds, NEW p \in 1 .. Bottom, NEW w, Written(p, w)
  PROVE  DOMAIN mem' = 1 .. Bottom /\ mem'[p] = w /\ \A a \in 1 .. Bottom : a # p => mem'[a] = mem[a]
<1>1. DOMAIN mem = 1 .. Bottom
  BY DEF Bounds
<1> QED BY <1>1 DEF Written

\* While the parameters are stored: all that stays when a word below fp is
\* written, and a register that is not Allocatable.
LEMMA ParamsGood ==
  ASSUME NEW ch, NEW d, NEW x, Good(ch, d, x), pc = "params", i \in DOMAIN Fn.sig,
         NEW p, p = fp - Home(Fn, i), NEW w, Written(p, w),
         DOMAIN reg' = 0 .. 47, \A q \in 0 .. 47 : reg'[q] \in DataWords,
         \A q \in Allocatable : reg'[q] = reg[q],
         i' = i + 1, UNCHANGED <<code, pc, cr, sp, fp, lr>>
  PROVE  Good(ch, d, x)'
<1>2. Between /\ Between' /\ Entered' = Entered
  BY DEF Between, Entered, code
<1>3. /\ Chain(mem, ch, d) /\ Opening(x) /\ Bounds /\ d = Entered /\ x = ch[d]
      /\ fun \in DOMAIN Functions /\ d \in Nat /\ d <= MaxDepth
      /\ Bottom \in Nat /\ Laid(x, fun)
  BY <1>2, Here
<1>4. PICK b \in Int, len \in Nat, gl \in Nat, fl \in Nat, z \in Nat, a \in Nat,
           r \in Int, e \in Int, s \in Int :
        Parts(x, fun, b, len, gl, fl, z, a, r, e, s) /\ Apart(b, len, gl, fl, z, a, r, e, s)
  BY <1>3 DEF Laid
<1>5. /\ b = BaseOf(x, fun) /\ len = Len(Functions[fun].saved) /\ z = FrameSize(Functions[fun])
      /\ a = StackArgs(fun) /\ e = x.base /\ s = EntrySp(x, fun)
  BY <1>4 DEF Parts
<1>6. /\ b - z >= 1 /\ s = b + len + 2 /\ r = b + len + 2 + a /\ r <= e /\ e <= Bottom
  BY <1>4 DEF Apart
<1>7. /\ (depth = 1 => fun = 1) /\ fp = b /\ sp = b - FrameSize(Fn) /\ i \in 1 .. Len(Fn.sig) + 1
      /\ Kept(x.own, ToSet(Saved)) /\ AllSaved(mem, x, fun, b)
      /\ ArgumentsAt(fun, depth, StackArgs(fun), EntrySp(x, fun))
  BY <1>3, <1>5 DEF Opening
<1>8. PICK l \in Nat, n \in Nat : l = Fn.locals /\ n = Len(Fn.sig)
  BY <1>3, FunctionFacts DEF Fn
<1>9. z > l + n /\ l >= 1 /\ DOMAIN Fn.sig = 1 .. n
  BY <1>3, <1>5, <1>8, FunctionFacts DEF Fn
<1>10. i \in 1 .. n /\ i \in Int /\ i >= 1 /\ i <= n
  BY <1>9
<1>11. PICK h \in Nat : h = Home(Fn, i) /\ h >= 1 /\ h < z
  <2>1. Home(Fn, i) = l + n - i + 1
    BY <1>8 DEF Home
  <2>3. PICK k \in Int : k = i /\ k >= 1 /\ k <= n
    BY <1>10
  <2>4. l + n - k + 1 \in Nat /\ l + n - k + 1 >= 1 /\ l + n - k + 1 < z
    <3>1. z > l + n
      BY <1>9
    <3> QED BY <2>3, <3>1
  <2>2. l + n - i + 1 \in Nat /\ l + n - i + 1 >= 1 /\ l + n - i + 1 < z
    BY <2>3, <2>4
  <2> QED BY <2>1, <2>2
<1>12. /\ DOMAIN mem' = 1 .. Bottom /\ \A m \in b .. Bottom : mem'[m] = mem[m]
  <2>1. b - h \in Int /\ b - h >= 1 /\ b - h < b /\ b <= Bottom
    BY <1>3, <1>6, <1>11
  <2>2. p = b - h
    BY <1>7, <1>11
  <2>3. p \in Int /\ p >= 1 /\ p < b /\ b <= Bottom
    BY <2>1, <2>2
  <2>4. p \in 1 .. Bottom /\ \A m \in b .. Bottom : m \in 1 .. Bottom /\ m # p
    BY <1>3, <2>3
  <2>5. DOMAIN mem' = 1 .. Bottom /\ \A m \in 1 .. Bottom : m # p => mem'[m] = mem[m]
    BY <1>3, <2>4, LocalSet
  <2> QED BY <2>4, <2>5
<1>13. Chain(mem', ch, d)
  <2>1. b <= e
    BY <1>6
  <2> QED BY <1>3, <1>5, <1>12, <2>1, ChainAbove
<1>14. AllSaved(mem', x, fun, b)
  <2>1. b + len + 1 <= Bottom
    BY <1>3, <1>6
  <2>2. \A m \in b .. b + len + 1 : m \in b .. Bottom
    BY <1>3, <2>1
  <2>3. PICK N : N = mem'
    OBVIOUS
  <2>4. \A m \in b .. b + Len(Functions[fun].saved) + 1 : N[m] = mem[m]
    BY <1>5, <1>12, <2>2, <2>3
  <2>5. AllSaved(N, x, fun, b)
    BY <1>3, <1>7, <2>4, AllSavedKept
  <2> QED BY <2>3, <2>5
<1>15. fun' = fun /\ depth' = depth /\ callee' = callee /\ Fn' = Fn /\ Saved' = Saved
  BY DEF code, Fn, Saved
<1>16. ArgumentsAt(fun, depth, StackArgs(fun), EntrySp(x, fun))'
  <2>1. \A j \in 0 .. a - 1 : s + j \in b .. Bottom
    <3> SUFFICES ASSUME NEW j \in 0 .. a - 1 PROVE s + j \in b .. Bottom
      OBVIOUS
    <3>1. s + a <= Bottom /\ j >= 0 /\ j < a /\ b <= s
      BY <1>3, <1>6
    <3> QED BY <1>3, <3>1
  <2>2. \A j \in 0 .. a - 1 : mem'[s + j] = mem[s + j]
    BY <1>12, <2>1
  <2> QED BY <1>5, <1>7, <1>15, <2>2 DEF ArgumentsAt
<1>17. Bounds'
  BY <1>3, <1>12, <1>15 DEF Bounds
<1>18. Opening(x)'
  <2>1. Kept(x.own, ToSet(Saved))'
    BY <1>7, <1>15 DEF Kept
  <2>2. i' \in 1 .. Len(Fn.sig) + 1
    <3>1. i + 1 \in 1 .. n + 1
      BY <1>10
    <3> QED BY <1>8, <3>1
  <2>3. /\ pc' = "params" /\ fp' = BaseOf(x, fun') /\ sp' = BaseOf(x, fun') - FrameSize(Fn')
        /\ i' \in 1 .. Len(Fn'.sig) + 1 /\ AllSaved(mem', x, fun', BaseOf(x, fun'))
    BY <1>5, <1>7, <1>14, <1>15, <2>2
  <2> QED BY <1>7, <1>15, <1>16, <2>1, <2>3 DEF Opening
<1> QED BY <1>2, <1>3, <1>13, <1>17, <1>18 DEF Good

LEMMA StoreRegisterParamGood ==
  ASSUME NEW ch, NEW d, NEW x, Good(ch, d, x), StoreRegisterParam
  PROVE  Good(ch, d, x)'
<1>1. /\ pc = "params" /\ i \in DOMAIN Fn.sig /\ i' = i + 1
      /\ UNCHANGED <<code, pc, cr, reg, sp, fp, lr>>
  BY DEF StoreRegisterParam
<1>2. PICK p, w : p = fp - Home(Fn, i) /\ Written(p, w)
  BY DEF StoreRegisterParam, Written
<1>3. DOMAIN reg = 0 .. 47 /\ \A q \in 0 .. 47 : reg[q] \in DataWords
  BY Here DEF Bounds
<1>4. DOMAIN reg' = 0 .. 47 /\ (\A q \in 0 .. 47 : reg'[q] \in DataWords)
      /\ (\A q \in Allocatable : reg'[q] = reg[q])
  BY <1>1, <1>3
<1>5. UNCHANGED <<code, pc, cr, sp, fp, lr>>
  BY <1>1
<1> QED BY <1>1, <1>2, <1>4, <1>5, ParamsGood

LEMMA StoreStackParamGood ==
  ASSUME NEW ch, NEW d, NEW x, Good(ch, d, x), StoreStackParam
  PROVE  Good(ch, d, x)'
<1>1. /\ pc = "params" /\ i \in DOMAIN Fn.sig /\ ~InRegister(Fn.sig, i) /\ i' = i + 1
      /\ UNCHANGED <<code, pc, cr, sp, fp, lr>>
  BY DEF StoreStackParam
<1>2. PICK q, w, p :
                  /\ q = (IF Fn.sig[i] = "float" THEN FirstFp + FpArgs - 1 ELSE IntArgs - 1)
                  /\ w = mem[fp + ParamBase(Fn) + Extras(Fn.sig, i - 1)]
                  /\ reg' = [reg EXCEPT ![q] = w]
                  /\ p = fp - Home(Fn, i) /\ Written(p, w)
  BY DEF StoreStackParam, Written
<1>3. q \in {3, 20}
  BY <1>2 DEF FirstFp, FpArgs, IntArgs
<1>4. Between /\ Bounds /\ Opening(x) /\ fun \in DOMAIN Functions /\ depth \in 0 .. MaxDepth
      /\ Laid(x, fun)
  BY <1>1, Here DEF Between
<1>5. /\ fp = BaseOf(x, fun) /\ i \in 1 .. Len(Fn.sig) + 1
      /\ ArgumentsAt(fun, depth, StackArgs(fun), EntrySp(x, fun))
  BY <1>1, <1>4 DEF Opening
<1>6. PICK n \in Nat, a \in Nat, len \in Nat, b \in Int :
        /\ n = Len(Fn.sig) /\ a = StackArgs(fun) /\ len = Len(Fn.saved) /\ b = BaseOf(x, fun)
        /\ EntrySp(x, fun) = b + len + 2 /\ DOMAIN Fn.sig = 1 .. n
  <2>1. Len(Fn.sig) \in Nat /\ DOMAIN Fn.sig = 1 .. Len(Fn.sig)
    BY <1>4, FunctionFacts DEF Fn
  <2>2. PICK b \in Int, len \in Nat, gl \in Nat, fl \in Nat, z \in Nat, a \in Nat,
           r \in Int, e \in Int, s \in Int :
        Parts(x, fun, b, len, gl, fl, z, a, r, e, s) /\ Apart(b, len, gl, fl, z, a, r, e, s)
    BY <1>4 DEF Laid
  <2>3. a = StackArgs(fun) /\ len = Len(Fn.saved) /\ b = BaseOf(x, fun) /\ EntrySp(x, fun) = b + len + 2
    BY <2>2 DEF Parts, Apart, Fn
  <2> QED BY <2>1, <2>3
<1>7. i \in 1 .. n /\ i \in Nat /\ i - 1 \in Nat /\ (i - 1) + 1 = i /\ i <= n
  BY <1>1, <1>6
<1>8. PICK u \in Nat : u = Extras(Fn.sig, i - 1) /\ Extras(Fn.sig, i) = u + 1
  <2>1. Extras(Fn.sig, (i - 1) + 1)
          = Extras(Fn.sig, i - 1) + IF InRegister(Fn.sig, (i - 1) + 1) THEN 0 ELSE 1
    BY <1>7, ExtrasFacts
  <2>2. Extras(Fn.sig, i - 1) \in 0 .. i - 1
    BY <1>7, ExtrasFacts
  <2> QED BY <1>1, <1>7, <2>1, <2>2
<1>9. u + 1 <= a /\ a <= n
  <2>1. a = Extras(Fn.sig, n)
    BY <1>6 DEF StackArgs, Fn
  <2>2. Extras(Fn.sig, n) \in 0 .. n
    BY ExtrasFacts
  <2> QED BY <1>7, <1>8, <2>1, <2>2, ExtrasGrow
<1>10. w \in DataWords
  <2>1. fp + ParamBase(Fn) + Extras(Fn.sig, i - 1) = EntrySp(x, fun) + u
    <3>1. ParamBase(Fn) = len + 2 /\ fp = b
      BY <1>5, <1>6 DEF ParamBase
    <3> QED BY <1>6, <1>8, <3>1
  <2>2. u \in 0 .. StackArgs(fun) - 1
    BY <1>6, <1>9
  <2>3. w = Argument(depth, Len(Functions[fun].sig) - StackArgs(fun) + 1 + u)
    BY <1>2, <1>5, <2>1, <2>2 DEF ArgumentsAt
  <2>4. Len(Functions[fun].sig) - StackArgs(fun) + 1 + u \in Nat
    <3>1. n - a + 1 + u \in Nat
      BY <1>9
    <3> QED BY <1>6, <3>1 DEF Fn
  <2> QED BY <1>4, <2>3, <2>4, WordsOfDepth
<1>11. /\ DOMAIN reg' = 0 .. 47 /\ (\A m \in 0 .. 47 : reg'[m] \in DataWords)
       /\ \A m \in 0 .. 47 : m # q => reg'[m] = reg[m]
  <2>1. q \in 0 .. 47
    BY <1>3
  <2> QED BY <1>2, <1>4, <1>10, <2>1, RegisterSet
<1>12. \A m \in Allocatable : reg'[m] = reg[m]
  BY <1>3, <1>11, AllocatableFacts
<1> QED BY <1>1, <1>2, <1>11, <1>12, ParamsGood

LEMMA WorkGood ==
  ASSUME NEW ch, NEW d, NEW x, Good(ch, d, x), Work
  PROVE  \E h : /\ Good(h, d + 1, h[d + 1])' /\ h[d + 1] = Activated(x, fun, d + 1)
                /\ \A e \in 0 .. d : h[e] = ch[e]
<1>1. /\ pc = "params" /\ pc' = "body" /\ UNCHANGED <<code, i, cr, sp, fp, lr>>
      /\ Written(LocalSlot, Initial(depth))
      /\ reg' = [r \in DOMAIN reg |->
                   IF r \in ToSet(Saved) \/ r \in 0 .. 3 \/ r \in 16 .. 20
                   THEN Scratch(depth, r) ELSE reg[r]]
  BY DEF Work, Written
<1>2. Between /\ ~Between'
  BY <1>1 DEF Between
<1>3. /\ Chain(mem, ch, d) /\ Opening(x) /\ Bounds /\ d = Entered /\ x = ch[d]
      /\ fun \in DOMAIN Functions /\ d \in Nat /\ d <= MaxDepth /\ d < MaxDepth /\ depth = d + 1
      /\ Bottom \in Nat /\ MaxDepth \in Nat /\ Laid(x, fun)
  BY <1>2, Here
<1>4. PICK b \in Int, len \in Nat, gl \in Nat, fl \in Nat, z \in Nat, a \in Nat,
           r \in Int, e \in Int, s \in Int :
        Parts(x, fun, b, len, gl, fl, z, a, r, e, s) /\ Apart(b, len, gl, fl, z, a, r, e, s)
  BY <1>3 DEF Laid
<1>5. /\ b = BaseOf(x, fun) /\ len = Len(Functions[fun].saved) /\ z = FrameSize(Functions[fun])
      /\ e = x.base
  BY <1>4 DEF Parts
<1>6. /\ b - z >= 1 /\ s = b + len + 2 /\ r = b + len + 2 + a /\ r <= e /\ e <= Bottom
  BY <1>4 DEF Apart
<1>7. /\ (depth = 1 => fun = 1) /\ fp = b /\ sp = b - FrameSize(Fn)
      /\ Kept(x.own, ToSet(Saved)) /\ AllSaved(mem, x, fun, b)
  BY <1>1, <1>3, <1>5 DEF Opening
<1>8. z >= 1
  <2>1. PICK l \in Nat, n \in Nat : l = Functions[fun].locals /\ n = Len(Functions[fun].sig)
    BY <1>3, FunctionFacts
  <2>2. z > l + n
    BY <1>3, <1>5, <2>1, FunctionFacts
  <2> QED BY <2>2
<1>9. \A m \in b .. Bottom : mem'[m] = mem[m]
  <2>1. LocalSlot = b - 1
    BY <1>7 DEF LocalSlot
  <2>2. b - 1 \in 1 .. Bottom /\ \A m \in b .. Bottom : m \in 1 .. Bottom /\ m # b - 1
    <3>1. b >= 2 /\ b <= Bottom
      <4>1. b >= 2
        <5>1. b - z >= 1
          BY <1>6
        <5> QED BY <1>8, <5>1
      <4>2. b <= r /\ r <= e /\ e <= Bottom
        BY <1>6
      <4> QED BY <1>3, <4>1, <4>2
    <3> QED BY <1>3, <3>1
  <2> QED BY <1>1, <1>3, <2>1, <2>2, LocalSet
<1>10. DOMAIN mem' = 1 .. Bottom
  BY <1>1, <1>3 DEF Written, Bounds
<1>11. PICK N : N = mem'
  OBVIOUS
<1>12. Chain(N, ch, d)
  <2>1. b <= e
    BY <1>6
  <2>2. \A m \in b .. Bottom : N[m] = mem[m]
    BY <1>9, <1>11
  <2> QED BY <1>3, <1>5, <2>1, <2>2, ChainAbove
<1>13. AllSaved(N, x, fun, b)
  <2>1. b + len + 1 <= Bottom
    BY <1>3, <1>6
  <2>2. \A m \in b .. b + len + 1 : m \in b .. Bottom
    BY <1>3, <2>1
  <2>3. \A m \in b .. b + Len(Functions[fun].saved) + 1 : N[m] = mem[m]
    BY <1>5, <1>9, <1>11, <2>2
  <2> QED BY <1>3, <1>7, <2>3, AllSavedKept
<1>14. PICK h : /\ Chain(N, h, d + 1) /\ h[d + 1] = Activated(x, fun, d + 1)
                /\ \A m \in 0 .. d : h[m] = ch[m]
  <2>1. d = 0 => fun = 1
    BY <1>3, <1>7
  <2>2. AllSaved(N, ch[d], fun, BaseOf(ch[d], fun))
    BY <1>3, <1>5, <1>13
  <2>3. \E h : /\ Chain(N, h, d + 1) /\ h[d + 1] = Activated(ch[d], fun, d + 1)
               /\ \A m \in 0 .. d : h[m] = ch[m]
    BY <1>3, <1>12, <2>1, <2>2, ChainGrows
  <2> QED BY <1>3, <2>3
<1>15. PICK y : y = h[d + 1]
  OBVIOUS
<1>16. /\ y.fn = fun /\ y.base = b /\ y.rest = b - FrameSize(Functions[fun])
       /\ y.own = [q \in Allocatable |-> IF q \in ToSet(Functions[fun].saved) THEN d + 1 ELSE x.own[q]]
  BY <1>5, <1>14, <1>15 DEF Activated
<1>17. fun' = fun /\ depth' = depth /\ callee' = callee /\ fp' = fp /\ sp' = sp /\ lr' = lr
  BY <1>1 DEF code
<1>18. DOMAIN reg = 0 .. 47 /\ \A q \in 0 .. 47 : reg[q] \in DataWords
  BY <1>3 DEF Bounds
<1>19. \A q \in 0 .. 47 : reg'[q] = IF q \in ToSet(Saved) \/ q \in 0 .. 3 \/ q \in 16 .. 20
                                   THEN Scratch(depth, q) ELSE reg[q]
  BY <1>1, <1>18
<1>20. \A q \in 0 .. 47 : reg'[q] \in DataWords
  <2> SUFFICES ASSUME NEW q \in 0 .. 47 PROVE reg'[q] \in DataWords
    OBVIOUS
  <2>1. q \in Nat /\ depth \in 0 .. MaxDepth
    BY <1>3
  <2>2. Scratch(depth, q) \in DataWords
    BY <2>1, WordsOfDepth
  <2> QED BY <1>18, <1>19, <2>2
<1>21. Bounds'
  <2>1. DOMAIN reg' = 0 .. 47
    BY <1>1, <1>18
  <2> QED BY <1>1, <1>3, <1>10, <1>17, <1>20, <2>1 DEF Bounds
<1>22. Kept(y.own, {})'
  <2> SUFFICES ASSUME NEW q \in Allocatable PROVE reg'[q] = Scratch(y.own[q], q)
    BY DEF Kept
  <2>1. q \in 0 .. 47 /\ ~(q \in 0 .. 3) /\ ~(q \in 16 .. 20)
    BY AllocatableFacts
  <2>2. Saved = Functions[fun].saved
    BY DEF Saved, Fn
  <2>3. CASE q \in ToSet(Saved)
    <3>1. reg'[q] = Scratch(depth, q)
      BY <1>19, <2>1, <2>3
    <3>2. y.own[q] = d + 1
      BY <1>16, <2>2, <2>3
    <3> QED BY <1>3, <3>1, <3>2
  <2>4. CASE q \notin ToSet(Saved)
    <3>1. reg'[q] = reg[q]
      BY <1>19, <2>1, <2>4
    <3>2. y.own[q] = x.own[q]
      BY <1>16, <2>2, <2>4
    <3> QED BY <1>7, <2>4, <3>1, <3>2 DEF Kept
  <2> QED BY <2>3, <2>4
<1>23. Running(y)'
  <2>1. fun' = y.fn /\ fp' = y.base /\ sp' = y.rest
    BY <1>7, <1>16, <1>17 DEF Fn
  <2> QED BY <1>1, <1>22, <2>1 DEF Running
<1>24. Entered' = d + 1
  <2>1. Entered' = depth'
    BY <1>1, <1>3, <1>17 DEF Entered
  <2> QED BY <1>3, <1>17, <2>1
<1>25. Good(h, d + 1, y)'
  BY <1>2, <1>11, <1>14, <1>15, <1>21, <1>23, <1>24 DEF Good
<1> QED BY <1>14, <1>15, <1>25

\* What freeing the stack below s leaves.
LEMMA ReleasedFacts ==
  ASSUME NEW n \in Nat, Released(n), Bounds, NEW s \in Int, s = sp + n
  PROVE  /\ sp' = s /\ DOMAIN mem' = 1 .. Bottom
         /\ \A a \in 1 .. Bottom : a >= s => mem'[a] = mem[a]
<1>1. sp' = s
  BY DEF Released
<1>2. mem' = [a \in 1 .. Bottom |-> IF a < s THEN Free ELSE mem[a]]
  BY <1>1 DEF Released, Bounds
<1>3. Bottom \in Nat
  BY StackAssumption
<1>4. \A a \in 1 .. Bottom : a >= s => ~(a < s)
  BY <1>3
<1> QED BY <1>1, <1>2, <1>4

LEMMA CloseFrameGood ==
  ASSUME NEW ch, NEW d, NEW x, Good(ch, d, x), CloseFrame
  PROVE  Good(ch, d - 1, ch[d - 1])'
<1>1. /\ pc = "body" /\ pc' = "vpop" /\ i' = Chunks(Float)
      /\ reg' = [reg EXCEPT ![ResultRegister(Fn)] = Result(depth)]
      /\ Released(ReleasedSize(Fn)) /\ UNCHANGED <<code, cr, fp, lr>>
  BY DEF CloseFrame
<1>2. ~Between /\ Between'
  BY <1>1 DEF Between
<1>3. /\ Chain(mem, ch, d) /\ Running(x) /\ Bounds /\ d = Entered /\ x = ch[d]
      /\ d \in Nat /\ d <= MaxDepth /\ depth = d /\ Bottom \in Nat /\ MaxDepth \in Nat
  BY <1>2, Here
<1>4. /\ fun = x.fn /\ fp = x.base /\ Kept(x.own, {}) /\ sp = x.rest
  BY <1>1, <1>3 DEF Running
<1>5. d \in 1 .. MaxDepth /\ fun \in DOMAIN Functions
  BY <1>1, <1>3 DEF Bounds
<1>6. PICK w : w = ch[d - 1]
  OBVIOUS
<1>7. /\ x = Activated(w, fun, d) /\ AllSaved(mem, w, fun, x.base) /\ (d = 1 => fun = 1)
  <2>1. d \in 1 .. d
    BY <1>5
  <2> QED BY <1>3, <1>4, <1>6, <2>1 DEF Chain
<1>8. Placed(w, d - 1) /\ d - 1 \in Nat /\ d - 1 < MaxDepth /\ (d - 1) + 1 = d /\ d - 1 <= MaxDepth
  <2>1. d - 1 \in 0 .. d /\ d - 1 \in Nat /\ d - 1 < MaxDepth /\ (d - 1) + 1 = d
    BY <1>3, <1>5
  <2> QED BY <1>3, <1>6, <2>1, ChainPlaced
<1>9. PICK b \in Int, len \in Nat, gl \in Nat, fl \in Nat, z \in Nat, a \in Nat,
           r \in Int, e \in Int, s \in Int :
        Parts(w, fun, b, len, gl, fl, z, a, r, e, s) /\ Apart(b, len, gl, fl, z, a, r, e, s)
  <2>1. Laid(w, fun)
    BY <1>5, <1>8, FramePlaces
  <2> QED BY <2>1 DEF Laid
<1>10. /\ b = BaseOf(w, fun) /\ len = Len(Functions[fun].saved) /\ z = FrameSize(Functions[fun])
       /\ fl = Len(FloatOf(fun))
  BY <1>9 DEF Parts
<1>11. /\ b - z >= 1 /\ s = b + len + 2 /\ r = b + len + 2 + a /\ r <= e /\ e <= Bottom
  BY <1>9 DEF Apart
<1>12. /\ x.base = b /\ x.rest = b - z
       /\ x.own = [q \in Allocatable |-> IF q \in ToSet(Functions[fun].saved) THEN d ELSE w.own[q]]
  BY <1>7, <1>10 DEF Activated
<1>13. /\ sp' = b /\ DOMAIN mem' = 1 .. Bottom
       /\ \A m \in b .. Bottom : mem'[m] = mem[m]
  <2>1. b = sp + ReleasedSize(Fn) /\ ReleasedSize(Fn) \in Nat
    BY <1>4, <1>10, <1>12 DEF ReleasedSize, Fn
  <2>2. \A m \in b .. Bottom : m \in 1 .. Bottom /\ m >= b
    BY <1>3, <1>11
  <2>3. /\ sp' = b /\ DOMAIN mem' = 1 .. Bottom
        /\ \A m \in 1 .. Bottom : m >= b => mem'[m] = mem[m]
    BY <1>1, <1>3, <2>1, ReleasedFacts
  <2> QED BY <2>2, <2>3
<1>14. PICK N : N = mem'
  OBVIOUS
<1>15. Chain(N, ch, d - 1)
  <2>1. \A m \in ch[d].base .. Bottom : N[m] = mem[m]
    BY <1>3, <1>12, <1>13, <1>14
  <2>2. Chain(N, ch, (d - 1) + 1)
    BY <1>3, <1>8, <2>1, ChainKept
  <2> QED BY <1>8, <2>2, ChainShrinks
<1>16. AllSaved(N, w, fun, b)
  <2>1. b + len + 1 <= Bottom
    BY <1>3, <1>11
  <2>2. \A m \in b .. b + len + 1 : m \in b .. Bottom
    BY <1>3, <2>1
  <2>3. \A m \in b .. b + Len(Functions[fun].saved) + 1 : N[m] = mem[m]
    BY <1>10, <1>13, <1>14, <2>2
  <2> QED BY <1>5, <1>7, <1>12, <2>3, AllSavedKept
<1>17. fun' = fun /\ depth' = depth /\ callee' = callee /\ fp' = fp /\ lr' = lr
  BY <1>1 DEF code
<1>18. /\ DOMAIN reg' = 0 .. 47 /\ (\A q \in 0 .. 47 : reg'[q] \in DataWords)
       /\ \A q \in Allocatable : reg'[q] = reg[q]
  <2>1. ResultRegister(Fn) \in {0, 16}
    BY DEF ResultRegister, FirstFp
  <2>2. Result(depth) \in DataWords
    <3>1. depth \in 0 .. MaxDepth /\ 0 \in Nat
      BY <1>3
    <3> QED BY <3>1, WordsOfDepth
  <2>3. ResultRegister(Fn) \in 0 .. 47
    BY <2>1
  <2>4. /\ DOMAIN reg' = 0 .. 47 /\ (\A q \in 0 .. 47 : reg'[q] \in DataWords)
        /\ \A q \in 0 .. 47 : q # ResultRegister(Fn) => reg'[q] = reg[q]
    BY <1>1, <1>3, <2>2, <2>3, RegisterSet
  <2> QED BY <2>1, <2>4, AllocatableFacts
<1>19. Bounds'
  BY <1>1, <1>3, <1>13, <1>17, <1>18 DEF Bounds
<1>20. Float = FloatOf(fun) /\ Chunks(FloatOf(fun)) \in Nat
       /\ InChunks(fun, Chunks(FloatOf(fun))) = fl
  BY <1>5, <1>10, SavedSplit, ChunkFacts DEF Float, FloatOf, Saved, Fn
<1>21. Kept(w.own, Saves(Chunks(FloatOf(fun))))'
  <2> SUFFICES ASSUME NEW q \in Allocatable \ (Saves(Chunks(FloatOf(fun))))'
               PROVE  reg'[q] = Scratch(w.own[q], q)
    BY <1>17 DEF Kept
  <2>1. q \notin ToSet(GeneralOf(fun)) \cup {FloatOf(fun)[m] : m \in 1 .. fl}
    BY <1>17, <1>20 DEF Saves
  <2>2. ToSet(FloatOf(fun)) = {FloatOf(fun)[m] : m \in 1 .. fl}
    BY <1>5, <1>10, SavedSplit DEF ToSet
  <2>3. q \notin ToSet(Functions[fun].saved)
    BY <1>5, <2>1, <2>2, SavedSplit
  <2> QED BY <1>4, <1>12, <1>18, <2>3 DEF Kept
<1>22. Opening(w)'
  <2>1. fp' = BaseOf(w, fun') /\ (depth' = 1 => fun' = 1) /\ i' = Chunks(FloatOf(fun'))
    BY <1>1, <1>3, <1>4, <1>7, <1>10, <1>12, <1>17, <1>20
  <2>2. i' \in 0 .. Chunks(FloatOf(fun'))
    BY <1>17, <1>20, <2>1
  <2>3. sp' = BaseOf(w, fun') + Len(FloatOf(fun')) - InChunks(fun', i')
    BY <1>10, <1>13, <1>17, <1>20, <2>1
  <2>4. LinkSaved(mem', w, fun', BaseOf(w, fun')) /\ GeneralSaved(mem', w, fun', BaseOf(w, fun'))
        /\ FloatSaved(mem', w, fun', BaseOf(w, fun'), i')
    BY <1>10, <1>14, <1>16, <1>17, <2>1 DEF AllSaved
  <2>5. Kept(w.own, Saves(i))'
    BY <1>17, <1>21, <2>1
  <2> QED BY <1>1, <2>1, <2>2, <2>3, <2>4, <2>5 DEF Opening
<1>23. Entered' = d - 1
  <2>1. Entered' = depth' - 1
    BY <1>1 DEF Entered
  <2> QED BY <1>3, <1>17, <2>1
<1>24. Good(ch, d - 1, w)'
  BY <1>2, <1>6, <1>14, <1>15, <1>19, <1>22, <1>23 DEF Good
<1> QED BY <1>6, <1>24

\* A pop gives every register of the list the word at its place.
LEMMA PopFacts ==
  ASSUME NEW regs, NEW n \in Nat, Len(regs) = n, DOMAIN regs = 1 .. n,
         \A k, l \in 1 .. n : regs[k] = regs[l] => k = l,
         \A k \in 1 .. n : regs[k] \in Allocatable,
         PopInto(regs), Bounds
  PROVE  /\ DOMAIN reg' = 0 .. 47
         /\ \A k \in 1 .. n : reg'[regs[k]] = mem[sp + k - 1]
         /\ \A q \in 0 .. 47 : q \notin ToSet(regs) => reg'[q] = reg[q]
<1>1. reg' = [q \in 0 .. 47 |->
                IF q \in ToSet(regs) THEN mem[sp + SelectInSeq(regs, LAMBDA w : w = q) - 1]
                ELSE reg[q]]
  BY DEF PopInto, Bounds
<1>2. ToSet(regs) = {regs[k] : k \in 1 .. n}
  BY DEF ToSet
<1>3. ASSUME NEW k \in 1 .. n PROVE reg'[regs[k]] = mem[sp + k - 1]
  <2>1. regs[k] \in 0 .. 47 /\ regs[k] \in ToSet(regs)
    BY <1>2, AllocatableFacts
  <2>2. SelectInSeq(regs, LAMBDA w : w = regs[k]) = k
    <3> DEFINE I == {l \in 1 .. Len(regs) : regs[l] = regs[k]}
    <3>1. I = {k}
      OBVIOUS
    <3>2. Min({k}) = k
      BY MinFacts
    <3>3. SelectInSeq(regs, LAMBDA w : w = regs[k]) = IF I # {} THEN Min(I) ELSE 0
      BY DEF SelectInSeq
    <3> HIDE DEF I
    <3> QED BY <3>1, <3>2, <3>3
  <2>3. reg'[regs[k]] = mem[sp + SelectInSeq(regs, LAMBDA w : w = regs[k]) - 1]
    BY <1>1, <2>1
  <2> QED BY <2>2, <2>3
<1> QED BY <1>1, <1>3

LEMMA PopFloatGood ==
  ASSUME NEW ch, NEW d, NEW x, Good(ch, d, x), PopFloat
  PROVE  Good(ch, d, x)'
<1> DEFINE f == FloatOf(fun)
           c == Chunk(f, i)
<1>1. /\ pc = "vpop" /\ i > 0 /\ PopInto(Chunk(Float, i)) /\ Released(Len(Chunk(Float, i)))
      /\ i' = i - 1 /\ UNCHANGED <<code, pc, cr, fp, lr>>
  BY DEF PopFloat
<1>2. Between /\ Between' /\ Entered' = Entered
  BY <1>1 DEF Between, Entered, code
<1>3. /\ Chain(mem, ch, d) /\ Opening(x) /\ Bounds /\ d = Entered /\ x = ch[d]
      /\ fun \in DOMAIN Functions /\ d \in Nat /\ d <= MaxDepth /\ Placed(x, d)
      /\ Bottom \in Nat /\ MaxDepth \in Nat /\ Laid(x, fun)
  BY <1>2, Here
<1>4. PICK b \in Int, len \in Nat, gl \in Nat, fl \in Nat, z \in Nat, a \in Nat,
           r \in Int, e \in Int, s \in Int :
        Parts(x, fun, b, len, gl, fl, z, a, r, e, s) /\ Apart(b, len, gl, fl, z, a, r, e, s)
  BY <1>3 DEF Laid
<1>5. /\ b = BaseOf(x, fun) /\ len = Len(Functions[fun].saved) /\ fl = Len(f) /\ e = x.base
  BY <1>4 DEF Parts
<1>6. /\ gl + fl = len /\ b - z >= 1 /\ s = b + len + 2 /\ r = b + len + 2 + a
      /\ r <= e /\ e <= Bottom
  BY <1>4 DEF Apart
<1>7. Float = f
  BY <1>3, <1>5, SavedSplit DEF Float, FloatOf, Saved, Fn
<1>8. /\ fp = b /\ i \in 0 .. Chunks(f) /\ (depth = 1 => fun = 1)
      /\ sp = b + fl - InChunks(fun, i)
      /\ Kept(x.own, Saves(i))
      /\ LinkSaved(mem, x, fun, b) /\ GeneralSaved(mem, x, fun, b)
      /\ FloatSaved(mem, x, fun, b, i)
  BY <1>1, <1>3, <1>5 DEF Opening
<1>9. Chunks(f) \in Nat /\ i \in 1 .. Chunks(f) /\ i - 1 \in 0 .. Chunks(f) /\ i \in 0 .. Chunks(f)
  <2>1. Chunks(f) \in Nat
    BY <1>3, ChunkFacts
  <2> HIDE DEF f
  <2> QED BY <1>1, <1>8, <2>1
<1>10. /\ Len(c) \in Nat /\ DOMAIN c = 1 .. Len(c) /\ InChunks(fun, i) = InChunks(fun, i - 1) + Len(c)
       /\ \A j \in 1 .. Len(c) : c[j] = f[InChunks(fun, i - 1) + j]
       /\ InChunks(fun, i - 1) \in 0 .. Len(f) /\ InChunks(fun, i) \in 0 .. Len(f)
  BY <1>3, <1>9, ChunkFacts
<1>11. PICK n \in Nat, q \in Nat : n = Len(c) /\ q = InChunks(fun, i - 1)
  <2>1. InChunks(fun, i - 1) \in 0 .. fl
    BY <1>5, <1>10
  <2>2. InChunks(fun, i - 1) \in Nat
    BY <2>1
  <2> QED BY <1>10, <2>2
<1>12. InChunks(fun, i) = q + n /\ q + n <= fl /\ sp = b + fl - (q + n)
  BY <1>5, <1>8, <1>10, <1>11
<1> HIDE DEF c, f
<1>13. PICK p \in Int : p = b + fl - (q + n)
  OBVIOUS
<1>14. sp = p /\ p + n = b + fl - q /\ p + n >= 1 /\ p + n <= e
  <2>1. sp = p /\ p + n = b + fl - q
    BY <1>12, <1>13
  <2>2. b >= 1 /\ q <= fl /\ b + fl <= r /\ r <= e
    <3>1. b - z >= 1
      BY <1>6
    <3>2. b >= 1
      BY <3>1
    <3>3. q <= fl
      BY <1>12
    <3>4. b + fl <= r
      BY <1>6
    <3> QED BY <1>6, <3>2, <3>3, <3>4
  <2>3. b + fl - q >= 1 /\ b + fl - q <= e
    BY <2>2
  <2> QED BY <2>1, <2>3
<1>15. /\ \A j \in 1 .. n : c[j] \in Allocatable /\ c[j] = f[q + j] /\ q + j \in 1 .. fl
       /\ \A j, k \in 1 .. n : c[j] = c[k] => j = k
  <2>1. \A j \in 1 .. n : c[j] = f[q + j] /\ q + j \in 1 .. fl
    <3> SUFFICES ASSUME NEW j \in 1 .. n PROVE c[j] = f[q + j] /\ q + j \in 1 .. fl
      OBVIOUS
    <3>1. q + j \in 1 .. fl
      BY <1>12
    <3> QED BY <1>10, <1>11, <3>1
  <2>2. /\ \A k \in 1 .. fl : f[k] \in Allocatable
        /\ \A k, l \in 1 .. fl : f[k] = f[l] => k = l
    BY <1>3, <1>5, PartsAscend DEF f
  <2>3. ASSUME NEW j \in 1 .. n, NEW k \in 1 .. n, c[j] = c[k] PROVE j = k
    <3>1. q + j = q + k
      BY <2>1, <2>2, <2>3
    <3> QED BY <3>1
  <2> QED BY <2>1, <2>2, <2>3
<1>16. /\ DOMAIN reg' = 0 .. 47
       /\ \A k \in 1 .. n : reg'[c[k]] = mem[p + k - 1]
       /\ \A m \in 0 .. 47 : m \notin ToSet(c) => reg'[m] = reg[m]
  <2>1. PopInto(c) /\ Len(c) = n /\ DOMAIN c = 1 .. n
    BY <1>1, <1>7, <1>10, <1>11 DEF c
  <2>2. /\ \A k, l \in 1 .. n : c[k] = c[l] => k = l
        /\ \A k \in 1 .. n : c[k] \in Allocatable
    BY <1>15
  <2>3. /\ DOMAIN reg' = 0 .. 47
        /\ \A k \in 1 .. n : reg'[c[k]] = mem[sp + k - 1]
        /\ \A m \in 0 .. 47 : m \notin ToSet(c) => reg'[m] = reg[m]
    BY <1>3, <2>1, <2>2, PopFacts
  <2> QED BY <1>14, <2>3
<1>17. \A k \in 1 .. n : reg'[c[k]] = Scratch(x.own[c[k]], c[k])
  <2> SUFFICES ASSUME NEW k \in 1 .. n PROVE mem[p + k - 1] = Scratch(x.own[c[k]], c[k])
    BY <1>16
  <2>1. i \in 1 .. i
    BY <1>9
  <2>2. k \in 1 .. Len(Chunk(FloatOf(fun), i))
    BY <1>11 DEF c, f
  <2>3. mem[b + Len(FloatOf(fun)) - InChunks(fun, i) + k - 1] = Scratch(x.own[c[k]], c[k])
    BY <1>8, <2>1, <2>2 DEF FloatSaved, c, f
  <2>4. b + Len(FloatOf(fun)) - InChunks(fun, i) + k - 1 = p + k - 1
    BY <1>5, <1>12, <1>13 DEF f
  <2> QED BY <2>3, <2>4
<1>18. ToSet(c) = {c[k] : k \in 1 .. n}
  BY <1>10, <1>11 DEF ToSet
<1>19. /\ sp' = p + n /\ DOMAIN mem' = 1 .. Bottom
       /\ \A m \in 1 .. Bottom : m >= p + n => mem'[m] = mem[m]
  <2>1. Released(n) /\ p + n = sp + n
    BY <1>1, <1>7, <1>11, <1>14 DEF c
  <2> QED BY <1>3, <2>1, ReleasedFacts
<1>20. \A m \in p + n .. Bottom : mem'[m] = mem[m]
  <2>1. \A m \in p + n .. Bottom : m \in 1 .. Bottom /\ m >= p + n
    BY <1>3, <1>14
  <2> QED BY <1>19, <2>1
<1>21. PICK N : N = mem'
  OBVIOUS
<1>22. /\ LinkSaved(N, x, fun, b) /\ GeneralSaved(N, x, fun, b)
       /\ FloatSaved(N, x, fun, b, i - 1)
  <2>1. b + len + 1 <= Bottom
    BY <1>3, <1>6
  <2>2. \A m \in b + fl - q .. b + len + 1 : m \in p + n .. Bottom
    BY <1>3, <1>14, <2>1
  <2>3. \A m \in b + Len(f) - InChunks(fun, i - 1) .. b + Len(Functions[fun].saved) + 1 :
          N[m] = mem[m]
    BY <1>5, <1>11, <1>20, <1>21, <2>2
  <2>4. i - 1 \in 0 .. Chunks(FloatOf(fun))
    BY <1>9 DEF f
  <2>5. FloatSaved(mem, x, fun, b, i - 1)
    <3>1. \A k \in 1 .. i - 1 : k \in 1 .. i
      BY <1>9
    <3> QED BY <1>8, <3>1 DEF FloatSaved
  <2> QED BY <1>3, <1>8, <2>3, <2>4, <2>5, SavedKept DEF f
<1>23. Chain(N, ch, d)
  <2>1. \A m \in p + n .. Bottom : N[m] = mem[m]
    BY <1>20, <1>21
  <2>2. p + n \in Int
    OBVIOUS
  <2> QED BY <1>3, <1>5, <1>14, <2>1, <2>2, ChainAbove
<1>24. fun' = fun /\ depth' = depth /\ callee' = callee
  BY <1>1 DEF code
<1>25. \A m \in 0 .. 47 : reg'[m] \in DataWords
  <2> SUFFICES ASSUME NEW m \in 0 .. 47 PROVE reg'[m] \in DataWords
    OBVIOUS
  <2>1. CASE m \in ToSet(c)
    <3>1. PICK k \in 1 .. n : m = c[k]
      BY <1>18, <2>1
    <3>2. x.own[c[k]] \in 0 .. d /\ c[k] \in Nat
      BY <1>3, <1>15, AllocatableFacts DEF Placed
    <3>3. x.own[c[k]] \in 0 .. MaxDepth
      BY <1>3, <3>2
    <3> QED BY <1>17, <3>1, <3>2, <3>3, WordsOfDepth
  <2>2. CASE m \notin ToSet(c)
    BY <1>3, <1>16, <2>2 DEF Bounds
  <2> QED BY <2>1, <2>2
<1>26. Bounds'
  BY <1>1, <1>3, <1>16, <1>19, <1>24, <1>25 DEF Bounds
<1>27. Kept(x.own, Saves(i))'
  <2> SUFFICES ASSUME NEW m \in Allocatable \ (Saves(i))' PROVE reg'[m] = Scratch(x.own[m], m)
    BY DEF Kept
  <2>1. m \notin ToSet(GeneralOf(fun)) /\ \A k \in 1 .. q : m # f[k]
    BY <1>1, <1>11, <1>24 DEF Saves, f
  <2>2. CASE m \in ToSet(c)
    BY <1>17, <1>18, <2>2
  <2>3. CASE m \notin ToSet(c)
    <3>1. \A k \in 1 .. q + n : m # f[k]
      <4> SUFFICES ASSUME NEW k \in 1 .. q + n PROVE m # f[k]
        OBVIOUS
      <4>1. CASE k <= q
        <5>1. k \in 1 .. q
          BY <4>1
        <5> QED BY <2>1, <5>1
      <4>2. CASE k > q
        <5>1. k - q \in 1 .. n /\ q + (k - q) = k
          BY <4>2
        <5>2. c[k - q] = f[k]
          BY <1>15, <5>1
        <5> QED BY <1>18, <2>3, <5>1, <5>2
      <4> QED BY <4>1, <4>2
    <3>2. m \notin Saves(i)
      BY <1>12, <2>1, <3>1 DEF Saves, f
    <3>3. reg'[m] = reg[m]
      BY <1>16, <2>3, AllocatableFacts
    <3> QED BY <1>8, <3>2, <3>3 DEF Kept
  <2> QED BY <2>2, <2>3
<1>28. Opening(x)'
  <2>1. /\ pc' = "vpop" /\ fp' = BaseOf(x, fun') /\ i' \in 0 .. Chunks(FloatOf(fun'))
        /\ (depth' = 1 => fun' = 1)
    BY <1>1, <1>5, <1>8, <1>9, <1>24 DEF f
  <2>2. sp' = BaseOf(x, fun') + Len(FloatOf(fun')) - InChunks(fun', i')
    BY <1>1, <1>5, <1>11, <1>14, <1>19, <1>24 DEF f
  <2>3. LinkSaved(mem', x, fun', BaseOf(x, fun')) /\ GeneralSaved(mem', x, fun', BaseOf(x, fun'))
        /\ FloatSaved(mem', x, fun', BaseOf(x, fun'), i')
    BY <1>1, <1>5, <1>21, <1>22, <1>24
  <2> QED BY <1>27, <2>1, <2>2, <2>3 DEF Opening
<1> QED BY <1>2, <1>3, <1>21, <1>23, <1>26, <1>28 DEF Good

LEMMA PopGeneralGood ==
  ASSUME NEW ch, NEW d, NEW x, Good(ch, d, x), PopGeneral
  PROVE  Good(ch, d, x)'
<1> DEFINE c == GeneralOf(fun)
<1>1. /\ pc = "vpop" /\ i = 0 /\ PopInto(General) /\ Released(Len(General) + 2) /\ pc' = "bx"
      /\ fp' = mem[sp + Len(General)][2] /\ lr' = mem[sp + Len(General) + 1]
      /\ UNCHANGED <<code, i, cr>>
  BY DEF PopGeneral
<1>2. Between /\ Between' /\ Entered' = Entered
  BY <1>1 DEF Between, Entered, code
<1>3. /\ Chain(mem, ch, d) /\ Opening(x) /\ Bounds /\ d = Entered /\ x = ch[d]
      /\ fun \in DOMAIN Functions /\ d \in Nat /\ d <= MaxDepth /\ Placed(x, d)
      /\ Bottom \in Nat /\ MaxDepth \in Nat /\ Laid(x, fun)
  BY <1>2, Here
<1>4. PICK b \in Int, len \in Nat, gl \in Nat, fl \in Nat, z \in Nat, a \in Nat,
           r \in Int, e \in Int, s \in Int :
        Parts(x, fun, b, len, gl, fl, z, a, r, e, s) /\ Apart(b, len, gl, fl, z, a, r, e, s)
  BY <1>3 DEF Laid
<1>5. /\ b = BaseOf(x, fun) /\ len = Len(Functions[fun].saved) /\ gl = Len(c)
      /\ fl = Len(FloatOf(fun)) /\ e = x.base /\ s = EntrySp(x, fun)
  BY <1>4 DEF Parts
<1>6. /\ gl + fl = len /\ b - z >= 1 /\ s = b + len + 2 /\ r = b + len + 2 + a
      /\ r <= e /\ e <= Bottom
  BY <1>4 DEF Apart
<1>7. General = c
  BY <1>3, <1>5, SavedSplit DEF General, GeneralOf, Saved, Fn
<1>8. /\ (depth = 1 => fun = 1)
      /\ sp = b + fl - InChunks(fun, i)
      /\ Kept(x.own, Saves(i))
      /\ LinkSaved(mem, x, fun, b) /\ GeneralSaved(mem, x, fun, b)
  BY <1>1, <1>3, <1>5 DEF Opening
<1>9. InChunks(fun, 0) = 0
  BY <1>3, ChunkFacts
<1>10. sp = b + fl /\ sp + gl = b + len /\ sp + gl + 1 = b + len + 1 /\ sp + (gl + 2) = s
  <2>1. sp = b + fl
    BY <1>1, <1>8, <1>9
  <2>2. b + fl + gl = b + len /\ b + fl + (gl + 2) = s
    BY <1>6
  <2> QED BY <2>1, <2>2
<1> HIDE DEF c
<1>11. /\ DOMAIN c = 1 .. gl
       /\ \A k \in 1 .. gl : c[k] \in Allocatable
       /\ \A k, l \in 1 .. gl : c[k] = c[l] => k = l
  BY <1>3, <1>5, SavedSplit, PartsAscend DEF c
<1>12. /\ DOMAIN reg' = 0 .. 47
       /\ \A k \in 1 .. gl : reg'[c[k]] = mem[sp + k - 1]
       /\ \A m \in 0 .. 47 : m \notin ToSet(c) => reg'[m] = reg[m]
  <2>1. PopInto(c) /\ Len(c) = gl
    BY <1>1, <1>5, <1>7
  <2> QED BY <1>3, <1>11, <2>1, PopFacts
<1>13. \A k \in 1 .. gl : reg'[c[k]] = Scratch(x.own[c[k]], c[k])
  <2> SUFFICES ASSUME NEW k \in 1 .. gl PROVE mem[sp + k - 1] = Scratch(x.own[c[k]], c[k])
    BY <1>12
  <2>1. mem[b + Len(FloatOf(fun)) + k - 1] = Scratch(x.own[c[k]], c[k])
    BY <1>5, <1>8 DEF GeneralSaved, c
  <2> QED BY <1>5, <1>10, <2>1
<1>14. ToSet(c) = {c[k] : k \in 1 .. gl}
  BY <1>11 DEF ToSet
<1>15. fp' = x.base /\ lr' = ReturnTo(x, fun)
  <2>1. mem[b + len] = Pointer(x.base) /\ mem[b + len + 1] = ReturnTo(x, fun)
    BY <1>5, <1>8 DEF LinkSaved
  <2>2. fp' = mem[b + len][2] /\ lr' = mem[b + len + 1]
    BY <1>1, <1>5, <1>7, <1>10
  <2> QED BY <2>1, <2>2 DEF Pointer
<1>16. /\ sp' = s /\ DOMAIN mem' = 1 .. Bottom
       /\ \A m \in 1 .. Bottom : m >= s => mem'[m] = mem[m]
  <2>1. PICK n \in Nat : n = gl + 2
    OBVIOUS
  <2>2. Released(n) /\ s = sp + n
    BY <1>1, <1>5, <1>7, <1>10, <2>1
  <2> QED BY <1>3, <2>2, ReleasedFacts
<1>17. PICK N : N = mem'
  OBVIOUS
<1>18. Chain(N, ch, d)
  <2>1. s >= 1 /\ s <= e
    <3>1. b - z >= 1
      BY <1>6
    <3>2. b >= 1
      BY <3>1
    <3> QED BY <1>6, <3>2
  <2>2. \A m \in s .. Bottom : m \in 1 .. Bottom /\ m >= s
    BY <1>3, <2>1
  <2>3. \A m \in s .. Bottom : N[m] = mem[m]
    BY <1>16, <1>17, <2>2
  <2> QED BY <1>3, <1>5, <2>1, <2>3, ChainAbove
<1>19. fun' = fun /\ depth' = depth /\ callee' = callee
  BY <1>1 DEF code
<1>20. \A m \in 0 .. 47 : reg'[m] \in DataWords
  <2> SUFFICES ASSUME NEW m \in 0 .. 47 PROVE reg'[m] \in DataWords
    OBVIOUS
  <2>1. CASE m \in ToSet(c)
    <3>1. PICK k \in 1 .. gl : m = c[k]
      BY <1>14, <2>1
    <3>2. x.own[c[k]] \in 0 .. d /\ c[k] \in Nat
      BY <1>3, <1>11, AllocatableFacts DEF Placed
    <3>3. x.own[c[k]] \in 0 .. MaxDepth
      BY <1>3, <3>2
    <3> QED BY <1>13, <3>1, <3>2, <3>3, WordsOfDepth
  <2>2. CASE m \notin ToSet(c)
    BY <1>3, <1>12, <2>2 DEF Bounds
  <2> QED BY <2>1, <2>2
<1>21. Bounds'
  <2>1. lr'[1] = "site"
    BY <1>15 DEF ReturnTo, Site
  <2> QED BY <1>1, <1>3, <1>12, <1>16, <1>19, <1>20, <2>1 DEF Bounds
<1>22. Kept(x.own, {})'
  <2> SUFFICES ASSUME NEW m \in Allocatable PROVE reg'[m] = Scratch(x.own[m], m)
    BY DEF Kept
  <2>1. CASE m \in ToSet(c)
    BY <1>13, <1>14, <2>1
  <2>2. CASE m \notin ToSet(c)
    <3>1. m \notin Saves(i)
      BY <1>1, <1>9, <2>2 DEF Saves, c
    <3>2. reg'[m] = reg[m]
      BY <1>12, <2>2, AllocatableFacts
    <3> QED BY <1>8, <3>1, <3>2 DEF Kept
  <2> QED BY <2>1, <2>2
<1>23. Opening(x)'
  <2>1. pc' = "bx" /\ fp' = x.base /\ sp' = EntrySp(x, fun') /\ lr' = ReturnTo(x, fun')
        /\ (depth' = 1 => fun' = 1)
    BY <1>1, <1>5, <1>8, <1>15, <1>16, <1>19
  <2> QED BY <1>22, <2>1 DEF Opening
<1> QED BY <1>2, <1>3, <1>17, <1>18, <1>21, <1>23 DEF Good

LEMMA BranchExchangeGood ==
  ASSUME NEW ch, NEW d, NEW x, Good(ch, d, x), BranchExchange
  PROVE  Good(ch, d, x)'
<1>1. /\ pc = "bx" /\ fun' = lr[2] /\ callee' = lr[3] /\ depth' = depth - 1
      /\ pc' = (IF lr = Site(0, 0) THEN "exit" ELSE "return")
      /\ UNCHANGED <<i, cr, reg, sp, fp, lr, mem>>
  BY DEF BranchExchange
<1>2. Between /\ ~Between'
  BY <1>1 DEF Between
<1>3. /\ Chain(mem, ch, d) /\ Opening(x) /\ Bounds /\ d = Entered /\ x = ch[d]
      /\ fun \in DOMAIN Functions /\ d \in Nat /\ d < MaxDepth /\ depth = d + 1
      /\ (d = 0 => x = Ground) /\ (d # 0 => x.fn \in DOMAIN Functions)
      /\ Bottom \in Nat /\ MaxDepth \in Nat
  BY <1>2, Here
<1>4. /\ fp = x.base /\ sp = EntrySp(x, fun) /\ lr = ReturnTo(x, fun) /\ Kept(x.own, {})
      /\ (depth = 1 => fun = 1)
  BY <1>1, <1>3 DEF Opening
<1>5. depth' = d
  BY <1>1, <1>3
<1>6. Entered' = d
  <2>1. Entered' = depth'
    BY <1>1, <1>3, <1>5 DEF Entered
  <2> QED BY <1>5, <2>1
<1>7. Kept(x.own, {})'
  BY <1>1, <1>4 DEF Kept
<1>8. DOMAIN reg' = 0 .. 47 /\ (\A q \in 0 .. 47 : reg'[q] \in DataWords)
      /\ DOMAIN mem' = 1 .. Bottom /\ lr'[1] = "site"
  BY <1>1, <1>3 DEF Bounds
<1>9. CASE d = 0
  <2>1. x = Ground /\ lr = Site(0, 0) /\ fun = 1
    BY <1>3, <1>4, <1>9 DEF ReturnTo, Ground
  <2>2. fun' = 0 /\ callee' = 0 /\ pc' = "exit"
    BY <1>1, <2>1 DEF Site
  <2>3. Bounds'
    BY <1>5, <1>8, <1>9, <2>2 DEF Bounds
  <2>4. sp = x.rest
    <3>1. StackArgs(1) = 0
      <4>1. Functions[1].sig = << >>
        BY FunctionsAssumption
      <4> QED BY <4>1, ExtrasFacts DEF StackArgs
    <3> QED BY <1>3, <1>4, <2>1, <3>1 DEF EntrySp, Ground
  <2>5. Running(x)'
    BY <1>1, <1>4, <1>7, <2>1, <2>2, <2>4 DEF Running, Ground
  <2> QED BY <1>1, <1>2, <1>3, <1>6, <2>3, <2>5 DEF Good
<1>10. CASE d # 0
  <2>1. x.fn \in DOMAIN Functions /\ x.fn # 0
    BY <1>3, <1>10, FunctionFacts
  <2>2. lr = Site(x.fn, fun) /\ lr # Site(0, 0)
    BY <1>4, <2>1 DEF ReturnTo, Site
  <2>3. fun' = x.fn /\ callee' = fun /\ pc' = "return"
    BY <1>1, <2>2 DEF Site
  <2>4. Bounds'
    <3>1. depth' \in 1 .. MaxDepth
      BY <1>3, <1>5, <1>10
    <3> QED BY <1>3, <1>8, <2>1, <2>3, <3>1 DEF Bounds
  <2>5. Running(x)'
    BY <1>1, <1>3, <1>4, <1>5, <1>7, <2>3 DEF Running
  <2> QED BY <1>1, <1>2, <1>3, <1>6, <2>4, <2>5 DEF Good
<1> QED BY <1>9, <1>10

LEMMA EndCallGood ==
  ASSUME NEW ch, NEW d, NEW x, Good(ch, d, x), EndCall
  PROVE  Good(ch, d, x)'
<1>1. /\ pc = "return" /\ pc' = "body" /\ sp' = sp + Extras(Sig, Len(Sig))
      /\ mem' = [a \in DOMAIN mem |->
                   IF a < sp' THEN Free
                   ELSE IF a = LocalSlot THEN reg[ResultRegister(Functions[callee])]
                   ELSE mem[a]]
      /\ UNCHANGED <<code, i, cr, reg, fp, lr>>
  BY DEF EndCall
<1>2. ~Between /\ ~Between' /\ Entered' = Entered
  BY <1>1 DEF Between, Entered, code
<1>3. /\ Chain(mem, ch, d) /\ Running(x) /\ Bounds /\ d = Entered /\ x = ch[d]
      /\ d \in Nat /\ d <= MaxDepth /\ callee \in DOMAIN Functions
      /\ x.base \in Int /\ x.rest \in Int /\ x.rest <= x.base /\ x.base <= Bottom /\ x.rest >= 1
      /\ Bottom \in Nat
  BY <1>1, <1>2, Here
<1>4. fun = x.fn /\ fp = x.base /\ Kept(x.own, {}) /\ sp = EntrySp(x, callee)
  BY <1>1, <1>3 DEF Running
<1>5. sp' = x.rest
  <2>1. StackArgs(callee) \in Nat /\ Extras(Sig, Len(Sig)) = StackArgs(callee)
    BY <1>3, FunctionFacts DEF StackArgs, Sig
  <2> QED BY <1>1, <1>3, <1>4, <2>1 DEF EntrySp
<1>6. DOMAIN mem' = 1 .. Bottom
  BY <1>1, <1>3 DEF Bounds
<1>7. PICK e \in Int, r \in Int : e = x.base /\ r = x.rest
  BY <1>3
<1>8. \A a \in e .. Bottom : mem'[a] = mem[a]
  <2>1. \A a \in e .. Bottom : a \in DOMAIN mem /\ ~(a < r) /\ a # e - 1
    <3>1. e >= 1 /\ r <= e /\ DOMAIN mem = 1 .. Bottom
      <4>1. r >= 1 /\ r <= e
        BY <1>3, <1>7
      <4>2. e >= 1
        BY <4>1
      <4>3. DOMAIN mem = 1 .. Bottom
        BY <1>3 DEF Bounds
      <4> QED BY <4>1, <4>2, <4>3
    <3> SUFFICES ASSUME NEW a \in e .. Bottom PROVE a \in 1 .. Bottom /\ ~(a < r) /\ a # e - 1
      BY <3>1
    <3>2. a >= e /\ a <= Bottom /\ a \in Int
      OBVIOUS
    <3> QED BY <1>3, <3>1, <3>2
  <2>2. LocalSlot = e - 1 /\ sp' = r
    BY <1>4, <1>5, <1>7 DEF LocalSlot
  <2> QED BY <1>1, <2>1, <2>2
<1>9. PICK N : N = mem'
  OBVIOUS
<1>10. Chain(N, ch, d)
  BY <1>3, <1>7, <1>8, <1>9, ChainKept
<1>11. Bounds'
  BY <1>1, <1>3, <1>6 DEF Bounds, code
<1>12. Running(x)'
  BY <1>1, <1>4, <1>5 DEF Running, Kept, code
<1> QED BY <1>2, <1>3, <1>9, <1>10, <1>11, <1>12 DEF Good

\* A step that changes nothing.
LEMMA StutterGood ==
  ASSUME NEW ch, NEW d, NEW x, Good(ch, d, x), UNCHANGED vars
  PROVE  Good(ch, d, x)'
<1>1. /\ UNCHANGED <<fun, pc, i, cr, callee, reg, sp, fp, lr, mem, depth>>
  BY DEF vars
<1>2. /\ Between' = Between /\ Entered' = Entered /\ Bounds' = Bounds
  BY <1>1 DEF Between, Entered, Bounds
<1>3. Opening(x) => Opening(x)'
  BY <1>1 DEF Opening, Kept, ArgumentsAt, Saves, Fn, Saved
<1>4. Running(x) => Running(x)'
  BY <1>1 DEF Running, Kept, ArgumentsAt, Sig
<1> QED BY <1>1, <1>2, <1>3, <1>4 DEF Good

-----------------------------------------------------------------------------
(* The theorems *)

LEMMA StepGood == IInv /\ [Next]_vars => IInv'
<1> SUFFICES ASSUME IInv, [Next]_vars PROVE IInv'
  OBVIOUS
<1>1. PICK ch, d, x : Good(ch, d, x)
  BY DEF IInv
<1>2. CASE BeginCall
  BY <1>1, <1>2, BeginCallGood DEF IInv
<1>3. CASE MoveArgument
  BY <1>1, <1>3, MoveArgumentGood DEF IInv
<1>4. CASE PushArgument
  BY <1>1, <1>4, PushArgumentGood DEF IInv
<1>5. CASE BranchLink
  BY <1>1, <1>5, BranchLinkGood DEF IInv
<1>6. CASE PushGeneral
  BY <1>1, <1>6, PushGeneralGood DEF IInv
<1>7. CASE PushFloat
  BY <1>1, <1>7, PushFloatGood DEF IInv
<1>8. CASE OpenFrame
  BY <1>1, <1>8, OpenFrameGood DEF IInv
<1>9. CASE StoreRegisterParam
  BY <1>1, <1>9, StoreRegisterParamGood DEF IInv
<1>10. CASE StoreStackParam
  BY <1>1, <1>10, StoreStackParamGood DEF IInv
<1>11. CASE Work
  BY <1>1, <1>11, WorkGood DEF IInv
<1>12. CASE CloseFrame
  BY <1>1, <1>12, CloseFrameGood DEF IInv
<1>13. CASE PopFloat
  BY <1>1, <1>13, PopFloatGood DEF IInv
<1>14. CASE PopGeneral
  BY <1>1, <1>14, PopGeneralGood DEF IInv
<1>15. CASE BranchExchange
  BY <1>1, <1>15, BranchExchangeGood DEF IInv
<1>16. CASE EndCall
  BY <1>1, <1>16, EndCallGood DEF IInv
<1>17. CASE UNCHANGED vars
  BY <1>1, <1>17, StutterGood DEF IInv
<1> QED BY <1>2, <1>3, <1>4, <1>5, <1>6, <1>7, <1>8, <1>9, <1>10, <1>11, <1>12, <1>13, <1>14,
           <1>15, <1>16, <1>17 DEF Next, Run, Exited

\* sp and fp stay inside the stack.
LEMMA InsideStack ==
  ASSUME NEW ch, NEW d, NEW x, Good(ch, d, x)
  PROVE  sp \in 1 .. Bottom /\ fp \in 1 .. Bottom
<1>1. /\ d \in Nat /\ Placed(x, d) /\ Bottom \in Nat
      /\ x.base \in Int /\ x.rest \in Int /\ x.rest <= x.base /\ x.base <= Bottom /\ x.rest >= 1
      /\ pc # "exit" => callee \in DOMAIN Functions
  BY Here
<1>2. PICK r \in Int, e \in Int : r = x.rest /\ e = x.base /\ 1 <= r /\ r <= e /\ e <= Bottom
  BY <1>1
<1>3. CASE ~Between
  <2>1. Running(x) /\ Bounds /\ depth = d
    BY <1>3, Here
  <2>2. fp = e
    BY <1>2, <2>1 DEF Running
  <2>3. CASE pc \in {"body", "exit"}
    <3>1. sp = r
      BY <1>2, <2>1, <2>3 DEF Running
    <3>2. r \in 1 .. Bottom /\ e \in 1 .. Bottom
      BY <1>1, <1>2
    <3> QED BY <2>2, <3>1, <3>2
  <2>4. CASE pc \in {"args", "return"}
    <3>1. callee \in DOMAIN Functions /\ d < MaxDepth
      BY <2>1, <2>4 DEF Running
    <3>2. PICK a \in Nat : a = StackArgs(callee)
      BY <3>1, FunctionFacts
    <3>3. EntrySp(x, callee) = r - a /\ r - a >= 1
      <4>1. /\ EntrySp(x, callee) = x.rest - StackArgs(callee)
            /\ BaseOf(x, callee) = EntrySp(x, callee) - 2 - Len(Functions[callee].saved)
            /\ BaseOf(x, callee) - FrameSize(Functions[callee]) >= 1
        BY <1>1, <3>1, NextPlaced
      <4>2. PICK n \in Nat, z \in Nat :
              n = Len(Functions[callee].saved) /\ z = FrameSize(Functions[callee])
        BY <3>1, FunctionFacts
      <4>3. EntrySp(x, callee) = r - a
        BY <1>2, <3>2, <4>1
      <4>4. r - a - 2 - n - z >= 1
        BY <4>1, <4>2, <4>3
      <4> QED BY <4>3, <4>4
    <3>4. PICK k \in Nat : sp = r - k /\ k <= a
      <4>1. CASE pc = "return"
        BY <2>1, <3>2, <3>3, <4>1 DEF Running
      <4>2. CASE pc = "args"
        <5>1. i \in 1 .. Len(Sig) + 1 /\ sp = x.rest - Extras(Sig, i - 1)
          BY <2>1, <4>2 DEF Running
        <5>2. Len(Sig) \in Nat
          BY <3>1, FunctionFacts DEF Sig
        <5>3. i - 1 \in Nat /\ i - 1 <= Len(Sig)
          BY <5>1, <5>2
        <5>4. Extras(Sig, i - 1) <= Extras(Sig, Len(Sig)) /\ Extras(Sig, i - 1) \in 0 .. i - 1
          BY <5>2, <5>3, ExtrasGrow, ExtrasFacts
        <5>5. Extras(Sig, Len(Sig)) = a
          BY <3>2 DEF StackArgs, Sig
        <5>6. Extras(Sig, i - 1) \in Nat
          BY <5>3, <5>4
        <5> QED BY <1>2, <5>1, <5>4, <5>5, <5>6
      <4> QED BY <2>4, <4>1, <4>2
    <3>5. r - k >= 1 /\ r - k <= Bottom
      BY <1>1, <1>2, <3>3, <3>4
    <3>6. r - k \in 1 .. Bottom /\ e \in 1 .. Bottom
      BY <1>1, <1>2, <3>5
    <3> QED BY <2>2, <3>4, <3>6
  <2> QED BY <1>3, <2>1, <2>3, <2>4 DEF Bounds, Between
<1>4. CASE Between
  <2>1. Opening(x) /\ Laid(x, fun) /\ fun \in DOMAIN Functions
    BY <1>4, Here
  <2>2. PICK b \in Int, len \in Nat, gl \in Nat, fl \in Nat, z \in Nat, a \in Nat,
             t \in Int, u \in Int, s \in Int :
          Parts(x, fun, b, len, gl, fl, z, a, t, u, s) /\ Apart(b, len, gl, fl, z, a, t, u, s)
    BY <2>1 DEF Laid
  <2>3. /\ b = BaseOf(x, fun) /\ fl = Len(FloatOf(fun)) /\ z = FrameSize(Functions[fun])
        /\ u = x.base /\ s = EntrySp(x, fun)
    BY <2>2 DEF Parts
  <2>4. /\ gl + fl = len /\ b - z >= 1 /\ s = b + len + 2 /\ t = b + len + 2 + a
        /\ t <= u /\ u <= Bottom
    BY <2>2 DEF Apart
  <2>5. b >= 1 /\ b - z >= 1 /\ b + fl <= Bottom /\ s >= 1 /\ s <= Bottom /\ u >= 1 /\ b - z <= Bottom
    <3>1. b - z >= 1
      BY <2>4
    <3>2. b >= 1
      BY <3>1
    <3>3. b + fl <= s /\ s <= t /\ t <= Bottom
      BY <1>1, <2>4
    <3> QED BY <1>1, <2>4, <3>1, <3>2, <3>3
  <2>12. /\ b \in 1 .. Bottom /\ b - z \in 1 .. Bottom /\ s \in 1 .. Bottom /\ u \in 1 .. Bottom
    <3>1. b <= s /\ s <= Bottom /\ u <= Bottom
      BY <2>4, <2>5
    <3>2. b <= Bottom
      BY <1>1, <3>1
    <3> QED BY <1>1, <2>5, <3>1, <3>2
  <2>6. CASE pc \in {"push", "bx"}
    <3>1. fp = u /\ sp = s
      BY <2>1, <2>3, <2>6 DEF Opening
    <3> QED BY <2>12, <3>1
  <2>7. CASE pc = "params"
    <3>1. fp = b /\ sp = b - z
      BY <2>1, <2>3, <2>7 DEF Opening, Fn
    <3> QED BY <2>12, <3>1
  <2>8. ASSUME NEW k \in 0 .. Chunks(FloatOf(fun)), sp = b + fl - InChunks(fun, k)
        PROVE  sp \in 1 .. Bottom
    <3>1. PICK n \in 0 .. fl : n = InChunks(fun, k)
      BY <2>1, <2>3, ChunkFacts
    <3>2. b + fl - n >= 1 /\ b + fl - n <= Bottom
      BY <1>1, <2>5
    <3> QED BY <1>1, <2>8, <3>1, <3>2
  <2>9. Chunks(FloatOf(fun)) \in Nat
    BY <2>1, ChunkFacts
  <2>10. CASE pc = "vpush"
    <3>1. fp = x.base /\ i \in 1 .. Chunks(FloatOf(fun)) + 1 /\ sp = b + fl - InChunks(fun, i - 1)
      BY <2>1, <2>3, <2>10 DEF Opening
    <3>2. i - 1 \in 0 .. Chunks(FloatOf(fun))
      BY <2>9, <3>1
    <3>3. sp \in 1 .. Bottom
      BY <2>8, <3>1, <3>2
    <3> QED BY <2>3, <2>12, <3>1, <3>3
  <2>11. CASE pc = "vpop"
    <3>1. fp = b /\ i \in 0 .. Chunks(FloatOf(fun)) /\ sp = b + fl - InChunks(fun, i)
      BY <2>1, <2>3, <2>11 DEF Opening
    <3>2. sp \in 1 .. Bottom
      BY <2>8, <3>1
    <3> QED BY <2>12, <3>1, <3>2
  <2> QED BY <1>4, <2>6, <2>7, <2>10, <2>11 DEF Between
<1> QED BY <1>3, <1>4

LEMMA GoodTypes == IInv => TypeOK
<1> SUFFICES ASSUME IInv PROVE TypeOK
  OBVIOUS
<1>1. PICK ch, d, x : Good(ch, d, x)
  BY DEF IInv
<1>2. Bounds /\ depth \in 0 .. MaxDepth /\ sp \in 1 .. Bottom /\ fp \in 1 .. Bottom
  BY <1>1, Here, InsideStack
<1>3. fun \in 0 .. Len(Functions) /\ callee \in 0 .. Len(Functions)
  <2>1. DOMAIN Functions = 1 .. Len(Functions) /\ Len(Functions) \in Nat
    BY FunctionsAssumption
  <2>2. \A g : g = 0 \/ g \in DOMAIN Functions => g \in 0 .. Len(Functions)
    BY <2>1
  <2> QED BY <1>2, <2>2 DEF Bounds
<1> QED BY <1>2, <1>3 DEF Bounds, TypeOK

LEMMA GoodRegisters == IInv => RegistersKept
<1> SUFFICES ASSUME IInv PROVE RegistersKept
  OBVIOUS
<1>1. PICK ch, d, x : Good(ch, d, x)
  BY DEF IInv
<1>2. /\ Chain(mem, ch, d) /\ Bounds /\ x = ch[d] /\ d \in Nat
      /\ (d = 0 => x = Ground) /\ (Between => Opening(x)) /\ (~Between => depth = d /\ Running(x))
  BY <1>1, Here
<1>3. ASSUME pc \in {"body", "args", "return"}
      PROVE  /\ \A r \in ToSet(Saved) : reg[r] = Scratch(depth, r)
             /\ pc = "body" => sp = fp - FrameSize(Fn)
  <2>1. Running(x) /\ depth = d
    BY <1>2, <1>3 DEF Between
  <2>2. d \in 1 .. d /\ fun \in DOMAIN Functions
    <3>1. depth \in 1 .. MaxDepth /\ fun \in DOMAIN Functions
      BY <1>2, <1>3 DEF Bounds
    <3>2. MaxDepth \in Nat
      BY StackAssumption
    <3>3. d >= 1
      BY <1>2, <2>1, <3>1, <3>2
    <3> QED BY <1>2, <3>1, <3>3
  <2>3. fun = x.fn /\ fp = x.base /\ Kept(x.own, {})
    BY <2>1 DEF Running
  <2>4. PICK w : x = Activated(w, fun, d)
    BY <1>2, <2>2, <2>3 DEF Chain
  <2>5. /\ x.base = BaseOf(w, fun) /\ x.rest = BaseOf(w, fun) - FrameSize(Fn)
        /\ \A r \in Allocatable : r \in ToSet(Saved) => x.own[r] = d
    BY <2>4 DEF Activated, Fn, Saved
  <2>6. ToSet(Saved) \subseteq Allocatable
    BY <2>2, FunctionFacts DEF Fn, Saved
  <2>7. pc = "body" => sp = x.rest
    BY <2>1 DEF Running
  <2> QED BY <2>1, <2>3, <2>5, <2>6, <2>7 DEF Kept
<1>4. ASSUME pc = "exit"
      PROVE  (\A r \in Allocatable : reg[r] = Scratch(0, r)) /\ sp = Bottom
  <2>1. Running(x) /\ depth = d
    BY <1>2, <1>4 DEF Between
  <2>2. x = Ground
    BY <1>2, <1>4, <2>1 DEF Bounds
  <2> QED BY <1>4, <2>1, <2>2 DEF Running, Kept, Ground
<1>5. ASSUME pc = "vpop"
      PROVE  sp = fp + Len(Float) - Min({i * ChunkSize, Len(Float)})
  <2>1. Opening(x) /\ fun \in DOMAIN Functions
    BY <1>2, <1>5 DEF Between, Bounds
  <2>2. /\ fp = BaseOf(x, fun) /\ i \in 0 .. Chunks(FloatOf(fun))
        /\ sp = BaseOf(x, fun) + Len(FloatOf(fun)) - InChunks(fun, i)
    BY <1>5, <2>1 DEF Opening
  <2>3. Float = FloatOf(fun) /\ Len(FloatOf(fun)) \in Nat
    BY <2>1, SavedSplit DEF Float, FloatOf, Saved, Fn
  <2>4. PICK m \in Int, n \in Int : m = i * ChunkSize /\ n = Len(FloatOf(fun))
    <3>1. Chunks(FloatOf(fun)) \in Nat
      BY <2>1, ChunkFacts
    <3>2. i \in Int
      BY <2>2, <3>1
    <3>3. i * ChunkSize \in Int
      BY <3>2 DEF ChunkSize
    <3> QED BY <2>3, <3>3
  <2>5. Min({m, n}) = Least(m, n)
    <3>1. {m, n} \subseteq Int /\ m \in {m, n} /\ n \in {m, n}
      OBVIOUS
    <3>2. CASE m <= n
      <4>1. \A p \in {m, n} : m <= p
        BY <3>2
      <4> QED BY <3>1, <3>2, <4>1, ExtremesAre DEF Least
    <3>3. CASE ~(m <= n)
      <4>1. \A p \in {m, n} : n <= p
        BY <3>3
      <4> QED BY <3>1, <3>3, <4>1, ExtremesAre DEF Least
    <3> QED BY <3>2, <3>3
  <2> QED BY <2>2, <2>3, <2>4, <2>5 DEF InChunks
<1> QED BY <1>3, <1>4, <1>5 DEF RegistersKept

LEMMA Invariant == Spec => []IInv
<1>1. Init => IInv
  BY InitialGood
<1>2. IInv /\ [Next]_vars => IInv'
  BY StepGood
<1> QED BY <1>1, <1>2, PTL DEF Spec

\* The stack pointer and the frame pointer never leave the stack, whatever
\* functions call each other and however many registers they save; and no
\* register the code computes in ever holds a saved fp or lr.
THEOREM FramesTyped == Spec => []TypeOK
<1>1. IInv => TypeOK
  BY GoodTypes
<1> QED BY <1>1, Invariant, PTL

\* For every program, what MachineFunction::output pushes and RetInstruction
\* pops keeps the registers of the caller, and leaves sp where the body and
\* the caller expect it.
THEOREM RegistersSurvive == Spec => []RegistersKept
<1>1. IInv => RegistersKept
  BY GoodRegisters
<1> QED BY <1>1, Invariant, PTL

-----------------------------------------------------------------------------
(***************************************************************************)
(* The frames implement calls as the source language has them, for every   *)
(* program whose parameters on the stack are the last of their function.   *)
(***************************************************************************)

-----------------------------------------------------------------------------
(* The activations read from memory *)

\* The activation y, in a memory M.
View(M, y) ==
  [params |-> [k \in DOMAIN Functions[y.fn].sig |-> M[y.base - Home(Functions[y.fn], k)]],
   local  |-> M[y.base - 1]]

\* The saved frame pointers lead through the activations, last to first.
LEMMA FramesFound ==
  \A ch, d, x : Good(ch, d, x) => Activations = [e \in 1 .. d |-> View(mem, ch[e])]
<1> SUFFICES ASSUME NEW ch, NEW d, NEW x, Good(ch, d, x)
             PROVE  Activations = [e \in 1 .. d |-> View(mem, ch[e])]
  OBVIOUS
<1>1. /\ d \in Nat /\ d = Entered /\ x = ch[d] /\ Chain(mem, ch, d)
      /\ (Between => Opening(x) /\ fun \in DOMAIN Functions) /\ (~Between => Running(x))
      /\ Bounds /\ (d # 0 => x.fn \in DOMAIN Functions)
  BY Here
<1> DEFINE At(n) == Frame(ch[d - n].base, ch[d - n].fn)
<1>2. Top = Frame(x.base, x.fn)
  <2>1. CASE pc \in {"push", "vpush", "bx"}
    <3>1. fp = x.base /\ lr = ReturnTo(x, fun)
      BY <1>1, <2>1 DEF Opening, Between
    <3>2. lr[2] = x.fn
      BY <3>1 DEF ReturnTo, Site
    <3> QED BY <2>1, <3>1, <3>2 DEF Top
  <2>2. CASE pc \in {"params", "vpop"}
    <3>1. fp = BaseOf(x, fun) /\ LinkSaved(mem, x, fun, fp)
      BY <1>1, <2>2 DEF Opening, Between, AllSaved
    <3>2. Top = Frame(mem[fp + Len(Functions[fun].saved)][2], mem[fp + Len(Functions[fun].saved) + 1][2])
      BY <2>2 DEF Top, Caller, Frame
    <3>3. mem[fp + Len(Functions[fun].saved)][2] = x.base
      BY <3>1 DEF LinkSaved, Pointer
    <3>4. mem[fp + Len(Functions[fun].saved) + 1][2] = x.fn
      BY <3>1 DEF LinkSaved, ReturnTo, Site
    <3> QED BY <3>2, <3>3, <3>4
  <2>3. CASE ~Between
    <3>1. fp = x.base /\ fun = x.fn
      BY <1>1, <2>3 DEF Running
    <3> QED BY <2>3, <3>1 DEF Top, Between
  <2> QED BY <2>1, <2>2, <2>3 DEF Between
<1>3. ASSUME NEW n \in 0 .. d - 1, n # 0
      PROVE  Caller(At(n - 1)) = At(n)
  <2>1. PICK e \in 1 .. d : e = d - (n - 1) /\ e - 1 = d - n
    BY <1>1, <1>3
  <2>2. AllSaved(mem, ch[e - 1], ch[e].fn, ch[e].base)
    BY <1>1, <2>1 DEF Chain
  <2>3. At(n - 1) = Frame(ch[e].base, ch[e].fn) /\ At(n) = Frame(ch[e - 1].base, ch[e - 1].fn)
    BY <2>1
  <2> HIDE DEF At
  <2>4. Caller(At(n - 1)) = Frame(mem[ch[e].base + Len(Functions[ch[e].fn].saved)][2],
                                  mem[ch[e].base + Len(Functions[ch[e].fn].saved) + 1][2])
    BY <2>3 DEF Caller, Frame
  <2>5. mem[ch[e].base + Len(Functions[ch[e].fn].saved)][2] = ch[e - 1].base
    BY <2>2 DEF AllSaved, LinkSaved, Pointer
  <2>6. mem[ch[e].base + Len(Functions[ch[e].fn].saved) + 1][2] = ch[e - 1].fn
    BY <2>2 DEF AllSaved, LinkSaved, ReturnTo, Site
  <2> QED BY <2>3, <2>4, <2>5, <2>6
<1>4. At(0) = Top
  BY <1>1, <1>2
<1> HIDE DEF At
<1>5. \A n \in 0 .. d - 1 : Ancestor[n] = At(n)
  <2> DEFINE w == [n \in 0 .. d - 1 |-> At(n)]
  <2>1. w = [n \in 0 .. Entered - 1 |-> IF n = 0 THEN Top ELSE Caller(w[n - 1])]
    <3>1. ASSUME NEW n \in 0 .. d - 1
          PROVE  w[n] = IF n = 0 THEN Top ELSE Caller(w[n - 1])
      <4>1. CASE n = 0
        BY <1>4, <4>1
      <4>2. CASE n # 0
        <5>1. n - 1 \in 0 .. d - 1
          BY <1>1, <4>2
        <5> QED BY <1>3, <4>2, <5>1
      <4> QED BY <4>1, <4>2
    <3> QED BY <1>1, <3>1
  <2> HIDE DEF w
  <2>2. Ancestor = [n \in 0 .. Entered - 1 |-> IF n = 0 THEN Top ELSE Caller(Ancestor[n - 1])]
    BY <2>1 DEF Ancestor
  <2>3. \A n \in 0 .. d - 1 : Ancestor[n] = IF n = 0 THEN Top ELSE Caller(Ancestor[n - 1])
    BY <1>1, <2>2
  <2> DEFINE Bad == {n \in 0 .. d - 1 : Ancestor[n] # At(n)}
  <2>4. ASSUME Bad # {} PROVE FALSE
    <3>1. Bad \in SUBSET Nat
      OBVIOUS
    <3> HIDE DEF Bad
    <3>2. PICK n \in Bad : \A k \in Bad : n <= k
      BY <2>4, <3>1, NatMinimum
    <3>3. n \in 0 .. d - 1 /\ Ancestor[n] # At(n)
      BY <3>2 DEF Bad
    <3>4. n # 0
      BY <1>4, <2>3, <3>3
    <3>5. n - 1 \in 0 .. d - 1 /\ n - 1 \notin Bad
      BY <1>1, <3>2, <3>3, <3>4
    <3>6. Ancestor[n - 1] = At(n - 1)
      BY <3>5 DEF Bad
    <3> QED BY <1>3, <2>3, <3>3, <3>4, <3>6
  <2> QED BY <2>4
<1>6. \A e \in 1 .. d : Activation(Frames[e]) = View(mem, ch[e])
  <2> SUFFICES ASSUME NEW e \in 1 .. d PROVE Activation(Frames[e]) = View(mem, ch[e])
    OBVIOUS
  <2>1. Frames[e] = Ancestor[d - e]
    BY <1>1 DEF Frames
  <2>2. d - e \in 0 .. d - 1 /\ d - (d - e) = e
    BY <1>1
  <2>3. Frames[e] = Frame(ch[e].base, ch[e].fn)
    BY <1>5, <2>1, <2>2 DEF At
  <2> QED BY <2>3 DEF Activation, View, Frame
<1> QED BY <1>1, <1>6 DEF Activations

LEMMA FramesFoundNext ==
  \A ch, d, x : Good(ch, d, x)' => Activations' = [e \in 1 .. d |-> View(mem', ch[e])]
<1>1. (\A ch, d, x : Good(ch, d, x) => Activations = [e \in 1 .. d |-> View(mem, ch[e])])'
  BY FramesFound, PTL
<1> QED BY <1>1

-----------------------------------------------------------------------------
(* Where the arguments and the result of the call under way are *)

InPlace(g, d, S) ==
  \A k \in S : InRegister(Functions[g].sig, k) =>
    reg[ArgRegister(Functions[g].sig, k)] = Argument(d, k)

Delivered ==
  /\ pc = "args" => InPlace(callee, depth + 1, 1 .. i - 1)
  /\ pc \in {"push", "vpush"} => InPlace(fun, depth, 1 .. Len(Fn.sig))
  /\ pc = "params" => /\ InPlace(fun, depth, i .. Len(Fn.sig))
                      /\ \A k \in 1 .. i - 1 : mem[fp - Home(Fn, k)] = Argument(depth, k)
  /\ pc \in {"vpop", "bx"} => reg[ResultRegister(Fn)] = Result(depth)
  /\ pc = "return" => reg[ResultRegister(Functions[callee])] = Result(depth + 1)

\* Two parameters in registers never share one.
LEMMA ArgRegistersApart ==
  ASSUME NEW sig \in Seq({"int", "float"}), NEW k \in 1 .. Len(sig), NEW l \in 1 .. Len(sig), k < l,
         InRegister(sig, k), InRegister(sig, l)
  PROVE  ArgRegister(sig, k) # ArgRegister(sig, l)
<1> DEFINE S(m) == {j \in 1 .. m - 1 : sig[j] = sig[m]}
<1>1. k \in Nat /\ l \in Nat
  OBVIOUS
<1>2. /\ RankInBank(sig, k) = Cardinality(S(k)) /\ RankInBank(sig, l) = Cardinality(S(l))
  BY DEF RankInBank
<1>3. /\ IsFiniteSet(S(k)) /\ IsFiniteSet(S(l))
      /\ Cardinality(S(k)) \in Nat /\ Cardinality(S(l)) \in Nat
  <2>0. k - 1 \in Int /\ l - 1 \in Int /\ 1 \in Int
    BY <1>1
  <2>1. IsFiniteSet(1 .. k - 1) /\ IsFiniteSet(1 .. l - 1)
    BY <2>0, FS_Interval
  <2> QED BY <2>1, FS_Subset, FS_CardinalityType
<1>4. CASE sig[k] = sig[l]
  <2>1. S(k) \subseteq S(l) /\ k \in S(l) /\ k \notin S(k)
    BY <1>1, <1>4
  <2> HIDE DEF S
  <2>2. Cardinality(S(k)) <= Cardinality(S(l)) /\ Cardinality(S(l)) # Cardinality(S(k))
    BY <1>3, <2>1, FS_Subset
  <2> QED BY <1>2, <1>3, <1>4, <2>2 DEF ArgRegister, FirstFp
<1>5. CASE sig[k] # sig[l]
  <2> HIDE DEF S
  <2>1. PICK a \in Nat, b \in Nat : a = RankInBank(sig, k) /\ b = RankInBank(sig, l)
    BY <1>2, <1>3
  <2>2. sig[k] \in {"int", "float"} /\ sig[l] \in {"int", "float"}
    OBVIOUS
  <2>3. CASE sig[k] = "float"
    <3>1. sig[l] = "int"
      BY <1>5, <2>2, <2>3
    <3>2. b < 4 /\ ArgRegister(sig, l) = b + 0 /\ ArgRegister(sig, k) = a + 16
      BY <2>1, <2>3, <3>1 DEF InRegister, ArgRegister, IntArgs, FirstFp
    <3> QED BY <3>2
  <2>4. CASE sig[k] = "int"
    <3>1. sig[l] = "float"
      BY <1>5, <2>2, <2>4
    <3>2. a < 4 /\ ArgRegister(sig, k) = a + 0 /\ ArgRegister(sig, l) = b + 16
      BY <2>1, <2>4, <3>1 DEF InRegister, ArgRegister, IntArgs, FirstFp
    <3> QED BY <3>2
  <2> QED BY <2>2, <2>3, <2>4
<1> QED BY <1>4, <1>5

\* From the first parameter on the stack on, all are there.
LEMMA LastOnStack ==
  ASSUME NEW sig, NEW n \in Nat, Len(sig) = n, StackParametersLast(sig),
         NEW k \in 1 .. n, ~InRegister(sig, k)
  PROVE  Extras(sig, n) = Extras(sig, k - 1) + (n - k + 1)
<1> DEFINE S == {l \in 1 .. n : ~InRegister(sig, l)}
           T == {l \in 1 .. k - 1 : ~InRegister(sig, l)}
<1>1. \A l \in k .. n : ~InRegister(sig, l)
  <2> SUFFICES ASSUME NEW l \in k .. n PROVE ~InRegister(sig, l)
    OBVIOUS
  <2>1. l \in 1 .. n /\ k \in 1 .. n /\ (l = k \/ k < l)
    OBVIOUS
  <2> QED BY <2>1 DEF StackParametersLast
<1>2. S = T \cup (k .. n) /\ T \cap (k .. n) = {}
  <2>1. ASSUME NEW l \in S PROVE l \in T \cup (k .. n)
    OBVIOUS
  <2>2. ASSUME NEW l \in T \cup (k .. n) PROVE l \in S
    BY <1>1
  <2> QED BY <2>1, <2>2
<1>3. Extras(sig, n) = Cardinality(S) /\ Extras(sig, k - 1) = Cardinality(T)
  BY DEF Extras
<1>4. IsFiniteSet(T) /\ Cardinality(T) \in Nat
  <2>1. IsFiniteSet(1 .. k - 1)
    BY FS_Interval
  <2> QED BY <2>1, FS_Subset, FS_CardinalityType
<1>5. IsFiniteSet(k .. n) /\ Cardinality(k .. n) = n - k + 1
  BY FS_Interval
<1>6. Cardinality({}) = 0
  BY FS_EmptySet
<1> HIDE DEF S, T
<1>7. Cardinality(T \cup (k .. n)) = Cardinality(T) + Cardinality(k .. n) - Cardinality(T \cap (k .. n))
  BY <1>4, <1>5, FS_Union
<1>8. PICK t \in Nat : t = Cardinality(T)
  BY <1>4
<1>9. Cardinality(S) = t + (n - k + 1) - 0
  BY <1>2, <1>5, <1>6, <1>7, <1>8
<1>10. t + (n - k + 1) - 0 = t + (n - k + 1)
  OBVIOUS
<1> QED BY <1>3, <1>8, <1>9, <1>10

\* Every parameter has a slot of its own in the frame, below the first word.
LEMMA Homes ==
  ASSUME NEW g \in DOMAIN Functions, NEW k \in 1 .. Len(Functions[g].sig)
  PROVE  /\ Home(Functions[g], k) \in Nat /\ Home(Functions[g], k) >= 2
         /\ Home(Functions[g], k) < FrameSize(Functions[g])
         /\ \A l \in 1 .. Len(Functions[g].sig) :
              Home(Functions[g], k) = Home(Functions[g], l) => k = l
<1>1. PICK n \in Nat, c \in Nat, z \in Nat :
        n = Len(Functions[g].sig) /\ c = Functions[g].locals /\ z = FrameSize(Functions[g])
  BY FunctionFacts
<1>2. z > c + n /\ c >= 1
  BY <1>1, FunctionFacts
<1>3. \A l \in 1 .. n : Home(Functions[g], l) = c + n - l + 1
  BY <1>1 DEF Home
<1>4. k \in 1 .. n
  BY <1>1
<1>5. c + n - k + 1 \in Nat /\ c + n - k + 1 >= 2 /\ c + n - k + 1 < z
  BY <1>2, <1>4
<1>6. \A l \in 1 .. n : c + n - k + 1 = c + n - l + 1 => k = l
  BY <1>4
<1> QED BY <1>1, <1>3, <1>4, <1>5, <1>6

LEMMA ParametersBound ==
  ASSUME NEW g \in DOMAIN Functions
  PROVE  Len(Functions[g].sig) \in 0 .. MaxParams
<1> DEFINE S == {Len(Functions[h].sig) : h \in DOMAIN Functions}
<1>1. \A h \in DOMAIN Functions : Len(Functions[h].sig) \in Nat /\ Len(Functions[h].sig) <= Share
  <2> SUFFICES ASSUME NEW h \in DOMAIN Functions
               PROVE  Len(Functions[h].sig) \in Nat /\ Len(Functions[h].sig) <= Share
    OBVIOUS
  <2>1. PICK n \in Nat, c \in Nat, z \in Nat, a \in Nat, m \in Nat :
          /\ n = Len(Functions[h].sig) /\ c = Functions[h].locals /\ z = FrameSize(Functions[h])
          /\ a = StackArgs(h) /\ m = Len(Functions[h].saved)
    BY FunctionFacts
  <2>2. z > c + n /\ a + m + 2 + z <= Share /\ Share \in Nat
    BY <2>1, FunctionFacts, StackAssumption
  <2>3. n <= Share
    BY <2>2
  <2> QED BY <2>1, <2>3
<1>2. S \in SUBSET Nat /\ S # {} /\ Share \in Nat /\ (\A k \in S : k <= Share)
      /\ Len(Functions[g].sig) \in S
  BY <1>1, StackAssumption
<1>3. MaxParams = Max(S)
  BY DEF MaxParams
<1> HIDE DEF S
<1>4. PICK m \in S : \A k \in S : k <= m
  BY <1>2, NatMaximum
<1>5. Max(S) = m
  BY <1>2, <1>4, ExtremesAre
<1> QED BY <1>2, <1>3, <1>4, <1>5

\* What an activation has stays when its frame does.
LEMMA ViewKept ==
  ASSUME NEW M, NEW N, NEW y, NEW b \in Int, NEW z \in Nat, y.fn \in DOMAIN Functions,
         y.base = b, z = FrameSize(Functions[y.fn]), \A a \in b - z .. b - 1 : N[a] = M[a]
  PROVE  View(N, y) = View(M, y)
<1>1. N[b - 1] = M[b - 1]
  <2>1. PICK c \in Nat, n \in Nat : c = Functions[y.fn].locals /\ n = Len(Functions[y.fn].sig)
    BY FunctionFacts
  <2>2. z > c + n
    BY <2>1, FunctionFacts
  <2>3. b - 1 \in b - z .. b - 1
    BY <2>2
  <2> QED BY <2>3
<1>2. ASSUME NEW k \in DOMAIN Functions[y.fn].sig
      PROVE  N[b - Home(Functions[y.fn], k)] = M[b - Home(Functions[y.fn], k)]
  <2>1. k \in 1 .. Len(Functions[y.fn].sig)
    BY FunctionFacts
  <2>2. PICK h \in Nat : h = Home(Functions[y.fn], k) /\ h >= 2 /\ h < z
    BY <2>1, Homes
  <2>3. b - h \in b - z .. b - 1
    BY <2>2
  <2> QED BY <2>2, <2>3
<1> QED BY <1>1, <1>2 DEF View

\* The activations of a chain stay when the memory from the frame of the last
\* one on does.
LEMMA ViewsKept ==
  ASSUME NEW M, NEW N, NEW ch, NEW d \in Nat, d <= MaxDepth, Chain(M, ch, d),
         NEW r \in Int, r <= ch[d].rest, \A a \in r .. Bottom : N[a] = M[a]
  PROVE  [e \in 1 .. d |-> View(N, ch[e])] = [e \in 1 .. d |-> View(M, ch[e])]
<1> SUFFICES ASSUME NEW e \in 1 .. d PROVE View(N, ch[e]) = View(M, ch[e])
  OBVIOUS
<1>1. e \in 0 .. d /\ d \in 0 .. d /\ e - 1 \in 0 .. d /\ e - 1 \in Nat /\ e - 1 < MaxDepth
      /\ (e = d \/ e < d) /\ Bottom \in Nat
  BY StackAssumption
<1>2. ch[e].fn \in DOMAIN Functions /\ ch[e] = Activated(ch[e - 1], ch[e].fn, e)
  BY DEF Chain
<1>3. Placed(ch[e], e) /\ Placed(ch[d], d)
  BY <1>1, ChainPlaced
<1>4. PICK b \in Int, z \in Nat : b = ch[e].base /\ z = FrameSize(Functions[ch[e].fn])
  BY <1>2, <1>3, FunctionFacts DEF Placed
<1>5. ch[e].rest = b - z
  <2>1. ch[e].rest = ch[e].base - FrameSize(Functions[ch[e].fn])
    BY <1>2 DEF Activated
  <2> QED BY <1>4, <2>1
<1>6. r <= b - z
  <2>1. CASE e = d
    BY <1>5, <2>1
  <2>2. CASE e < d
    <3>1. ch[d].base < ch[e].rest
      BY <1>1, <2>2 DEF Chain
    <3>2. PICK p \in Int, q \in Int : p = ch[d].rest /\ q = ch[d].base /\ p <= q
      BY <1>3 DEF Placed
    <3> QED BY <1>5, <3>1, <3>2
  <2> QED BY <1>1, <2>1, <2>2
<1>7. b <= Bottom
  BY <1>3, <1>4 DEF Placed
<1>8. \A a \in b - z .. b - 1 : a \in r .. Bottom
  BY <1>1, <1>6, <1>7
<1>9. \A a \in b - z .. b - 1 : N[a] = M[a]
  BY <1>8
<1> QED BY <1>2, <1>4, <1>9, ViewKept

-----------------------------------------------------------------------------
(* Steps that leave the activations as they are *)

LEMMA SpBelow ==
  \A ch, d, x : Good(ch, d, x) =>
    sp \in Int /\ x.rest \in Int /\ sp <= x.rest /\ Bottom \in Nat /\ DOMAIN mem = 1 .. Bottom
      /\ x.rest >= 1 /\ sp >= 1
<1> SUFFICES ASSUME NEW ch, NEW d, NEW x, Good(ch, d, x)
             PROVE  sp \in Int /\ x.rest \in Int /\ sp <= x.rest /\ Bottom \in Nat
                      /\ DOMAIN mem = 1 .. Bottom /\ x.rest >= 1 /\ sp >= 1
  OBVIOUS
<1>1. /\ x.rest \in Int /\ Bottom \in Nat /\ Bounds /\ sp \in 1 .. Bottom /\ x.rest >= 1
  BY Here, InsideStack
<1>2. sp \in Int /\ DOMAIN mem = 1 .. Bottom /\ sp >= 1
  BY <1>1 DEF Bounds
<1>3. ASSUME ~Between PROVE sp <= x.rest
  <2>1. Running(x) /\ Bounds
    BY <1>3, Here
  <2>2. CASE pc \in {"body", "exit"}
    BY <1>1, <2>1, <2>2 DEF Running
  <2>3. CASE pc \in {"args", "return"}
    <3>1. callee \in DOMAIN Functions
      BY <2>1, <2>3 DEF Running
    <3>2. StackArgs(callee) \in Nat
      BY <3>1, FunctionFacts
    <3>3. CASE pc = "return"
      BY <1>1, <2>1, <3>2, <3>3 DEF Running, EntrySp
    <3>4. CASE pc = "args"
      <4>1. i \in 1 .. Len(Sig) + 1 /\ sp = x.rest - Extras(Sig, i - 1)
        BY <2>1, <3>4 DEF Running
      <4>2. Len(Sig) \in Nat
        BY <3>1, FunctionFacts DEF Sig
      <4>3. i - 1 \in Nat
        BY <4>1, <4>2
      <4>4. Extras(Sig, i - 1) \in Nat
        BY <4>3, ExtrasFacts
      <4> QED BY <1>1, <1>2, <4>1, <4>4
    <3> QED BY <2>3, <3>3, <3>4
  <2> QED BY <1>3, <2>1, <2>2, <2>3 DEF Bounds, Between
<1>4. ASSUME Between PROVE sp <= x.rest
  <2>1. Opening(x) /\ Laid(x, fun) /\ fun \in DOMAIN Functions
    BY <1>4, Here
  <2>2. PICK b \in Int, len \in Nat, gl \in Nat, fl \in Nat, z \in Nat, a \in Nat,
             t \in Int, u \in Int, s \in Int :
          Parts(x, fun, b, len, gl, fl, z, a, t, u, s) /\ Apart(b, len, gl, fl, z, a, t, u, s)
    BY <2>1 DEF Laid
  <2>3. /\ b = BaseOf(x, fun) /\ fl = Len(FloatOf(fun)) /\ z = FrameSize(Functions[fun])
        /\ t = x.rest /\ s = EntrySp(x, fun)
    BY <2>2 DEF Parts
  <2>4. gl + fl = len /\ s = b + len + 2 /\ t = b + len + 2 + a
    BY <2>2 DEF Apart
  <2>5. s <= t /\ b - z <= t /\ b + fl <= t
    BY <2>4
  <2>6. CASE pc \in {"push", "bx"}
    BY <2>1, <2>3, <2>5, <2>6 DEF Opening
  <2>7. CASE pc = "params"
    BY <2>1, <2>3, <2>5, <2>7 DEF Opening, Fn
  <2>8. ASSUME NEW k \in 0 .. Chunks(FloatOf(fun)), sp = b + fl - InChunks(fun, k)
        PROVE  sp <= t
    <3>1. PICK n \in 0 .. fl : n = InChunks(fun, k)
      BY <2>1, <2>3, ChunkFacts
    <3>2. b + fl - n <= t
      BY <2>5
    <3> QED BY <2>8, <3>1, <3>2
  <2>9. CASE pc = "vpush"
    <3>1. i \in 1 .. Chunks(FloatOf(fun)) + 1 /\ sp = b + fl - InChunks(fun, i - 1)
      BY <2>1, <2>3, <2>9 DEF Opening
    <3>2. Chunks(FloatOf(fun)) \in Nat
      BY <2>1, ChunkFacts
    <3>3. i - 1 \in 0 .. Chunks(FloatOf(fun))
      BY <3>1, <3>2
    <3> QED BY <2>3, <2>8, <3>1, <3>3
  <2>10. CASE pc = "vpop"
    <3>1. i \in 0 .. Chunks(FloatOf(fun)) /\ sp = b + fl - InChunks(fun, i)
      BY <2>1, <2>3, <2>10 DEF Opening
    <3> QED BY <2>3, <2>8, <3>1
  <2> QED BY <1>4, <2>6, <2>7, <2>9, <2>10 DEF Between
<1> QED BY <1>1, <1>2, <1>3, <1>4

LEMMA SpBelowNext ==
  \A ch, d, x : Good(ch, d, x)' =>
    sp' \in Int /\ x.rest \in Int /\ sp' <= x.rest /\ x.rest >= 1
<1>1. (\A ch, d, x : Good(ch, d, x) =>
         sp \in Int /\ x.rest \in Int /\ sp <= x.rest /\ Bottom \in Nat /\ DOMAIN mem = 1 .. Bottom
           /\ x.rest >= 1 /\ sp >= 1)'
  BY SpBelow, PTL
<1> QED BY <1>1

LEMMA SameActivations ==
  ASSUME NEW ch, NEW d, NEW x, Good(ch, d, x), Good(ch, d, x)',
         \A a \in x.rest .. Bottom : mem'[a] = mem[a]
  PROVE  Activations' = Activations
<1>1. d \in Nat /\ d <= MaxDepth /\ Chain(mem, ch, d) /\ x = ch[d] /\ x.rest \in Int
  BY Here
<1>2. PICK r, N : r = x.rest /\ r \in Int /\ N = mem'
  BY <1>1
<1>3. r <= ch[d].rest /\ \A a \in r .. Bottom : N[a] = mem[a]
  BY <1>1, <1>2
<1>4. [e \in 1 .. d |-> View(N, ch[e])] = [e \in 1 .. d |-> View(mem, ch[e])]
  BY <1>1, <1>2, <1>3, ViewsKept
<1>5. Activations = [e \in 1 .. d |-> View(mem, ch[e])]
  BY FramesFound
<1>6. Activations' = [e \in 1 .. d |-> View(mem', ch[e])]
  BY FramesFoundNext
<1> QED BY <1>2, <1>4, <1>5, <1>6

\* A push writes below sp, and what is freed is below sp afterwards.
LEMMA PushedAbove ==
  ASSUME NEW ch, NEW d, NEW x, Good(ch, d, x), NEW words, Pushed(words)
  PROVE  \A a \in x.rest .. Bottom : mem'[a] = mem[a]
<1>1. /\ sp \in Int /\ x.rest \in Int /\ sp <= x.rest /\ Bottom \in Nat /\ DOMAIN mem = 1 .. Bottom
      /\ x.rest >= 1
  BY SpBelow
<1> SUFFICES ASSUME NEW a \in x.rest .. Bottom PROVE mem'[a] = mem[a]
  OBVIOUS
<1>2. a \in 1 .. Bottom /\ a \notin sp' .. sp - 1
  <2>1. a \in Int /\ a >= x.rest /\ a <= Bottom
    BY <1>1
  <2>2. a >= 1 /\ ~(a <= sp - 1)
    BY <1>1, <2>1
  <2> QED BY <1>1, <2>1, <2>2
<1>3. mem' = [c \in 1 .. Bottom |-> IF c \in sp' .. sp - 1 THEN words[c - sp' + 1] ELSE mem[c]]
  BY <1>1 DEF Pushed
<1> QED BY <1>2, <1>3

LEMMA ReleasedAbove ==
  ASSUME NEW ch, NEW d, NEW x, Good(ch, d, x), NEW e, NEW y, Good(ch, e, y)', NEW n, Released(n)
  PROVE  \A a \in y.rest .. Bottom : mem'[a] = mem[a]
<1>1. Bottom \in Nat /\ DOMAIN mem = 1 .. Bottom
  BY SpBelow
<1>2. sp' \in Int /\ y.rest \in Int /\ sp' <= y.rest /\ y.rest >= 1
  BY SpBelowNext
<1> SUFFICES ASSUME NEW a \in y.rest .. Bottom PROVE mem'[a] = mem[a]
  OBVIOUS
<1>3. a \in 1 .. Bottom /\ ~(a < sp')
  <2>1. a \in Int /\ a >= y.rest /\ a <= Bottom
    BY <1>1, <1>2
  <2> QED BY <1>1, <1>2, <2>1
<1>4. mem' = [c \in 1 .. Bottom |-> IF c < sp' THEN Free ELSE mem[c]]
  BY <1>1 DEF Released
<1> QED BY <1>3, <1>4

-----------------------------------------------------------------------------
(* The steps of a call, up to the frame of the callee *)

LEMMA BeginCallRefines ==
  ASSUME NEW ch, NEW d, NEW x, Good(ch, d, x), BeginCall
  PROVE  Delivered' /\ Activations' = Activations
<1>1. pc' = "args" /\ i' = 1 /\ mem' = mem
  BY DEF BeginCall
<1>2. Delivered'
  <2>1. 1 .. i' - 1 = {}
    BY <1>1
  <2> QED BY <1>1, <2>1 DEF Delivered, InPlace
<1>3. Good(ch, d, x)' /\ \A a \in x.rest .. Bottom : mem'[a] = mem[a]
  BY <1>1, BeginCallGood
<1> QED BY <1>2, <1>3, SameActivations

LEMMA MoveArgumentRefines ==
  ASSUME NEW ch, NEW d, NEW x, Good(ch, d, x), Delivered, MoveArgument
  PROVE  Delivered' /\ Activations' = Activations
<1>1. /\ pc = "args" /\ i \in DOMAIN Sig /\ InRegister(Sig, i) /\ i' = i + 1
      /\ reg' = [reg EXCEPT ![ArgRegister(Sig, i)] = Argument(depth + 1, i)]
      /\ fun' = fun /\ callee' = callee /\ depth' = depth /\ pc' = pc /\ mem' = mem
  BY DEF MoveArgument, code
<1>2. callee \in DOMAIN Functions /\ Bounds
  BY <1>1, Here
<1>3. PICK s \in Seq({"int", "float"}) : s = Functions[callee].sig /\ s = Sig
  BY <1>2, FunctionsAssumption DEF IsFunction, Sig
<1>4. PICK m \in 1 .. Len(s) : m = i /\ i - 1 = m - 1 /\ i' - 1 = m
  BY <1>1, <1>3
<1>5. \A k \in 1 .. m - 1 : InRegister(s, k) => reg[ArgRegister(s, k)] = Argument(depth + 1, k)
  BY <1>1, <1>3, <1>4 DEF Delivered, InPlace
<1>6. InRegister(s, m) /\ reg' = [reg EXCEPT ![ArgRegister(s, m)] = Argument(depth + 1, m)]
  BY <1>1, <1>3, <1>4
<1>7. \A k \in 1 .. Len(s) : InRegister(s, k) => ArgRegister(s, k) \in 0 .. 47
  <2> SUFFICES ASSUME NEW k \in 1 .. Len(s), InRegister(s, k) PROVE ArgRegister(s, k) \in 0 .. 47
    OBVIOUS
  <2>1. ArgRegister(s, k) \in 0 .. 3 \cup 16 .. 20
    BY ArgRegisters
  <2> QED BY <2>1
<1>8. ASSUME NEW k \in 1 .. m, InRegister(s, k)
      PROVE  reg'[ArgRegister(s, k)] = Argument(depth + 1, k)
  <2>1. DOMAIN reg = 0 .. 47 /\ ArgRegister(s, m) \in DOMAIN reg /\ ArgRegister(s, k) \in DOMAIN reg
    <3>1. k \in 1 .. Len(s)
      OBVIOUS
    <3> QED BY <1>2, <1>6, <1>7, <1>8, <3>1 DEF Bounds
  <2>2. CASE k = m
    BY <1>6, <2>1, <2>2
  <2>3. CASE k # m
    <3>1. k \in 1 .. m - 1 /\ k \in 1 .. Len(s) /\ k < m
      BY <2>3
    <3>2. ArgRegister(s, k) # ArgRegister(s, m)
      BY <1>6, <1>8, <3>1, ArgRegistersApart
    <3>3. reg'[ArgRegister(s, k)] = reg[ArgRegister(s, k)]
      BY <1>6, <2>1, <3>2
    <3> QED BY <1>5, <1>8, <3>1, <3>3
  <2> QED BY <2>2, <2>3
<1>9. Delivered'
  <2>1. InPlace(callee, depth + 1, 1 .. i - 1)'
    BY <1>1, <1>3, <1>4, <1>8 DEF InPlace
  <2> QED BY <1>1, <2>1 DEF Delivered
<1>10. Good(ch, d, x)' /\ \A a \in x.rest .. Bottom : mem'[a] = mem[a]
  BY <1>1, MoveArgumentGood
<1> QED BY <1>9, <1>10, SameActivations

LEMMA PushArgumentRefines ==
  ASSUME NEW ch, NEW d, NEW x, Good(ch, d, x), Delivered, PushArgument
  PROVE  Delivered' /\ Activations' = Activations
<1>1. /\ pc = "args" /\ i \in DOMAIN Sig /\ ~InRegister(Sig, i) /\ i' = i + 1
      /\ fun' = fun /\ callee' = callee /\ depth' = depth /\ pc' = pc /\ reg' = reg
  BY DEF PushArgument, code
<1>2. callee \in DOMAIN Functions
  BY <1>1, Here
<1>3. PICK s \in Seq({"int", "float"}) : s = Functions[callee].sig /\ s = Sig
  BY <1>2, FunctionsAssumption DEF IsFunction, Sig
<1>4. PICK m \in 1 .. Len(s) : m = i /\ i - 1 = m - 1 /\ i' - 1 = m
  BY <1>1, <1>3
<1>5. \A k \in 1 .. m - 1 : InRegister(s, k) => reg[ArgRegister(s, k)] = Argument(depth + 1, k)
  BY <1>1, <1>3, <1>4 DEF Delivered, InPlace
<1>6. ASSUME NEW k \in 1 .. m, InRegister(s, k)
      PROVE  reg'[ArgRegister(s, k)] = Argument(depth + 1, k)
  <2>1. k # m
    BY <1>1, <1>3, <1>4, <1>6
  <2>2. k \in 1 .. m - 1
    BY <2>1
  <2> QED BY <1>1, <1>5, <1>6, <2>2
<1>7. Delivered'
  <2>1. InPlace(callee, depth + 1, 1 .. i - 1)'
    BY <1>1, <1>3, <1>4, <1>6 DEF InPlace
  <2> QED BY <1>1, <2>1 DEF Delivered
<1>8. Good(ch, d, x)'
  BY PushArgumentGood
<1>9. ASSUME NEW a \in x.rest .. Bottom PROVE mem'[a] = mem[a]
  <2>1. sp \in Int /\ x.rest \in Int /\ sp <= x.rest /\ Bottom \in Nat
    BY SpBelow
  <2>2. a # sp - 1
    BY <2>1
  <2>3. \E w : mem' = [mem EXCEPT ![sp - 1] = w]
    BY DEF PushArgument
  <2> QED BY <2>2, <2>3
<1> QED BY <1>7, <1>8, <1>9, SameActivations

LEMMA BranchLinkRefines ==
  ASSUME NEW ch, NEW d, NEW x, Good(ch, d, x), Delivered, BranchLink
  PROVE  Delivered' /\ Activations' = Activations
<1>1. /\ pc = "args" /\ i \notin DOMAIN Sig /\ fun' = callee /\ depth' = depth + 1 /\ pc' = "push"
      /\ reg' = reg /\ mem' = mem
  BY DEF BranchLink
<1>2. callee \in DOMAIN Functions /\ i \in 1 .. Len(Sig) + 1
  BY <1>1, Here DEF Between, Running
<1>3. Len(Sig) \in Nat /\ DOMAIN Sig = 1 .. Len(Sig) /\ Sig = Functions[callee].sig
  BY <1>2, FunctionFacts DEF Sig
<1>4. i - 1 = Len(Sig)
  BY <1>1, <1>2, <1>3
<1>5. InPlace(callee, depth + 1, 1 .. Len(Functions[callee].sig))
  BY <1>1, <1>3, <1>4 DEF Delivered
<1>6. Fn' = Functions[callee]
  BY <1>1 DEF Fn
<1>7. InPlace(fun, depth, 1 .. Len(Fn.sig))'
  BY <1>1, <1>5, <1>6 DEF InPlace
<1>8. Delivered'
  BY <1>1, <1>7 DEF Delivered
<1>9. Good(ch, d, x)' /\ \A a \in x.rest .. Bottom : mem'[a] = mem[a]
  BY <1>1, BranchLinkGood
<1> QED BY <1>8, <1>9, SameActivations

\* A push of registers moves none.
LEMMA PushRefines ==
  ASSUME NEW ch, NEW d, NEW x, Good(ch, d, x), Good(ch, d, x)', Delivered, NEW words, Pushed(words),
         pc \in {"push", "vpush"}, pc' = "vpush", UNCHANGED <<code, reg>>
  PROVE  Delivered' /\ Activations' = Activations
<1>1. fun' = fun /\ depth' = depth /\ Fn' = Fn /\ reg' = reg
  BY DEF code, Fn
<1>2. InPlace(fun, depth, 1 .. Len(Fn.sig))
  BY DEF Delivered
<1>3. InPlace(fun, depth, 1 .. Len(Fn.sig))'
  BY <1>1, <1>2 DEF InPlace
<1>4. Delivered'
  BY <1>3 DEF Delivered
<1>5. \A a \in x.rest .. Bottom : mem'[a] = mem[a]
  BY PushedAbove
<1> QED BY <1>4, <1>5, SameActivations

LEMMA PushGeneralRefines ==
  ASSUME NEW ch, NEW d, NEW x, Good(ch, d, x), Delivered, PushGeneral
  PROVE  Delivered' /\ Activations' = Activations
<1>1. PICK words : Pushed(words)
  BY DEF PushGeneral
<1>2. pc \in {"push", "vpush"} /\ pc' = "vpush" /\ UNCHANGED <<code, reg>>
  BY DEF PushGeneral
<1>3. Good(ch, d, x)'
  BY PushGeneralGood
<1> QED BY <1>1, <1>2, <1>3, PushRefines

LEMMA PushFloatRefines ==
  ASSUME NEW ch, NEW d, NEW x, Good(ch, d, x), Delivered, PushFloat
  PROVE  Delivered' /\ Activations' = Activations
<1>1. PICK words : Pushed(words)
  BY DEF PushFloat
<1>2. pc \in {"push", "vpush"} /\ pc' = "vpush" /\ UNCHANGED <<code, reg>>
  BY DEF PushFloat
<1>3. Good(ch, d, x)'
  BY PushFloatGood
<1> QED BY <1>1, <1>2, <1>3, PushRefines

LEMMA OpenFrameRefines ==
  ASSUME NEW ch, NEW d, NEW x, Good(ch, d, x), Delivered, OpenFrame
  PROVE  Delivered' /\ Activations' = Activations
<1>1. /\ pc = "vpush" /\ pc' = "params" /\ i' = 1 /\ reg' = [reg EXCEPT ![4] = Scratch(depth, 4)]
      /\ fun' = fun /\ depth' = depth /\ mem' = mem
  BY DEF OpenFrame, code
<1>2. Fn' = Fn /\ Fn = Functions[fun]
  BY <1>1 DEF Fn
<1>3. InPlace(fun, depth, 1 .. Len(Fn.sig))
  BY <1>1 DEF Delivered
<1>4. fun \in DOMAIN Functions
  BY <1>1, Here DEF Between
<1>5. PICK n \in Nat : n = Len(Functions[fun].sig)
  BY <1>4, FunctionFacts
<1>6. ASSUME NEW k \in 1 .. n, InRegister(Functions[fun].sig, k)
      PROVE  reg'[ArgRegister(Functions[fun].sig, k)] = Argument(depth, k)
  <2>1. ArgRegister(Functions[fun].sig, k) \in 0 .. 3 \cup 16 .. 20
    BY <1>6, ArgRegisters
  <2>2. ArgRegister(Functions[fun].sig, k) # 4
    BY <2>1
  <2> QED BY <1>1, <1>2, <1>3, <1>5, <1>6, <2>2 DEF InPlace
<1>7. Delivered'
  <2>1. InPlace(fun, depth, i .. Len(Fn.sig))'
    BY <1>1, <1>2, <1>5, <1>6 DEF InPlace
  <2>2. 1 .. i' - 1 = {}
    BY <1>1
  <2> QED BY <1>1, <2>1, <2>2 DEF Delivered
<1>8. Good(ch, d, x)' /\ \A a \in x.rest .. Bottom : mem'[a] = mem[a]
  BY <1>1, OpenFrameGood
<1> QED BY <1>7, <1>8, SameActivations

-----------------------------------------------------------------------------
(* The parameters are brought home *)

\* A word below the frame pointer is written: nothing else there changes.
LEMMA BelowFrame ==
  ASSUME NEW ch, NEW d, NEW x, Good(ch, d, x), pc = "params",
         NEW h \in Nat, h >= 1, h < FrameSize(Fn), NEW w, Written(fp - h, w)
  PROVE  /\ mem'[fp - h] = w /\ fp \in Int
         /\ \A k \in Nat : k # h /\ k < FrameSize(Fn) => mem'[fp - k] = mem[fp - k]
         /\ \A a \in x.rest .. Bottom : mem'[a] = mem[a]
<1>1. Bounds /\ Opening(x) /\ fun \in DOMAIN Functions /\ Laid(x, fun) /\ Bottom \in Nat
  BY Here DEF Between
<1>2. PICK b \in Int, len \in Nat, gl \in Nat, fl \in Nat, z \in Nat, u \in Nat,
           t \in Int, e \in Int, s \in Int :
        Parts(x, fun, b, len, gl, fl, z, u, t, e, s) /\ Apart(b, len, gl, fl, z, u, t, e, s)
  BY <1>1 DEF Laid
<1>3. b = BaseOf(x, fun) /\ z = FrameSize(Fn) /\ t = x.rest /\ fp = b
  BY <1>1, <1>2 DEF Parts, Opening, Fn
<1>4. b - z >= 1 /\ t = b + len + 2 + u /\ t <= e /\ e <= Bottom
  BY <1>2 DEF Apart
<1>5. b <= Bottom /\ b < t /\ t >= 1
  <2>1. b < t
    BY <1>4
  <2>2. b >= 1
    BY <1>4
  <2> QED BY <1>1, <1>4, <2>1, <2>2
<1>6. PICK p \in 1 .. Bottom : p = b - h /\ p = fp - h
  <2>1. b - h >= 1 /\ b - h <= Bottom
    BY <1>1, <1>3, <1>4, <1>5
  <2> QED BY <1>1, <1>3, <2>1
<1>7. mem'[p] = w /\ \A a \in 1 .. Bottom : a # p => mem'[a] = mem[a]
  BY <1>1, <1>6, LocalSet
<1>8. ASSUME NEW k \in Nat, k # h, k < FrameSize(Fn) PROVE mem'[fp - k] = mem[fp - k]
  <2>1. b - k >= 1 /\ b - k <= Bottom /\ b - k # p
    BY <1>1, <1>3, <1>4, <1>5, <1>6, <1>8
  <2>2. b - k \in 1 .. Bottom
    BY <1>1, <2>1
  <2> QED BY <1>3, <1>7, <2>1, <2>2
<1>9. ASSUME NEW a \in x.rest .. Bottom PROVE mem'[a] = mem[a]
  <2>1. a \in Int /\ a >= t /\ a <= Bottom
    BY <1>1, <1>3
  <2>2. a \in 1 .. Bottom /\ a # p
    BY <1>1, <1>5, <1>6, <2>1
  <2> QED BY <1>7, <2>2
<1> QED BY <1>3, <1>6, <1>7, <1>8, <1>9

\* A parameter is home; the registers of those to come are kept.
LEMMA StoredRefines ==
  ASSUME NEW ch, NEW d, NEW x, Good(ch, d, x), Good(ch, d, x)', Delivered,
         pc = "params", i \in DOMAIN Fn.sig, i' = i + 1, UNCHANGED <<code, pc, fp>>,
         Written(fp - Home(Fn, i), Argument(depth, i)),
         \A k \in DOMAIN Fn.sig : k > i /\ InRegister(Fn.sig, k) =>
           reg'[ArgRegister(Fn.sig, k)] = reg[ArgRegister(Fn.sig, k)]
  PROVE  Delivered' /\ Activations' = Activations
<1>1. fun' = fun /\ depth' = depth /\ pc' = "params" /\ fp' = fp /\ Fn' = Fn /\ Fn = Functions[fun]
  BY DEF code, Fn
<1>2. fun \in DOMAIN Functions
  BY Here DEF Between
<1>3. PICK n \in Nat : n = Len(Fn.sig) /\ DOMAIN Fn.sig = 1 .. n
  BY <1>1, <1>2, FunctionFacts
<1>4. PICK m \in 1 .. n : m = i /\ i - 1 = m - 1 /\ i' - 1 = m /\ i' = m + 1
  BY <1>3
<1>5. \A k \in 1 .. n : /\ Home(Fn, k) \in Nat /\ Home(Fn, k) >= 1 /\ Home(Fn, k) < FrameSize(Fn)
                        /\ \A l \in 1 .. n : Home(Fn, k) = Home(Fn, l) => k = l
  <2> SUFFICES ASSUME NEW k \in 1 .. n
               PROVE  /\ Home(Fn, k) \in Nat /\ Home(Fn, k) >= 1 /\ Home(Fn, k) < FrameSize(Fn)
                      /\ \A l \in 1 .. n : Home(Fn, k) = Home(Fn, l) => k = l
    OBVIOUS
  <2>1. /\ Home(Fn, k) \in Nat /\ Home(Fn, k) >= 2 /\ Home(Fn, k) < FrameSize(Fn)
        /\ \A l \in 1 .. n : Home(Fn, k) = Home(Fn, l) => k = l
    BY <1>1, <1>2, <1>3, Homes
  <2> QED BY <2>1
<1>6. PICK h \in Nat : h = Home(Fn, m) /\ h >= 1 /\ h < FrameSize(Fn)
  BY <1>5
<1>7. Written(fp - h, Argument(depth, m))
  BY <1>4, <1>6
<1>8. /\ mem'[fp - h] = Argument(depth, m)
      /\ \A k \in Nat : k # h /\ k < FrameSize(Fn) => mem'[fp - k] = mem[fp - k]
      /\ \A a \in x.rest .. Bottom : mem'[a] = mem[a]
  BY <1>6, <1>7, BelowFrame
<1>9. /\ InPlace(fun, depth, m .. n)
      /\ \A k \in 1 .. m - 1 : mem[fp - Home(Fn, k)] = Argument(depth, k)
  BY <1>3, <1>4 DEF Delivered
<1>10. ASSUME NEW k \in 1 .. m PROVE mem'[fp - Home(Fn, k)] = Argument(depth, k)
  <2>1. CASE k = m
    BY <1>6, <1>8, <2>1
  <2>2. CASE k # m
    <3>1. k \in 1 .. m - 1 /\ k \in 1 .. n
      BY <2>2
    <3>2. Home(Fn, k) # h
      BY <1>5, <1>6, <2>2, <3>1
    <3>3. mem'[fp - Home(Fn, k)] = mem[fp - Home(Fn, k)]
      BY <1>5, <1>8, <3>1, <3>2
    <3> QED BY <1>9, <3>1, <3>3
  <2> QED BY <2>1, <2>2
<1>11. ASSUME NEW k \in m + 1 .. n, InRegister(Fn.sig, k)
       PROVE  reg'[ArgRegister(Fn.sig, k)] = Argument(depth, k)
  <2>1. k \in m .. n /\ k \in 1 .. n /\ k > m
    OBVIOUS
  <2>2. reg[ArgRegister(Fn.sig, k)] = Argument(depth, k)
    BY <1>1, <1>9, <1>11, <2>1 DEF InPlace
  <2>3. reg'[ArgRegister(Fn.sig, k)] = reg[ArgRegister(Fn.sig, k)]
    BY <1>3, <1>4, <1>11, <2>1
  <2> QED BY <2>2, <2>3
<1>12. Delivered'
  <2>1. InPlace(fun, depth, i .. Len(Fn.sig))'
    BY <1>1, <1>3, <1>4, <1>11 DEF InPlace
  <2>2. \A k \in 1 .. i' - 1 : mem'[fp' - Home(Fn', k)] = Argument(depth', k)
    BY <1>1, <1>4, <1>10
  <2> QED BY <1>1, <2>1, <2>2 DEF Delivered
<1> QED BY <1>8, <1>12, SameActivations

LEMMA StoreRegisterParamRefines ==
  ASSUME NEW ch, NEW d, NEW x, Good(ch, d, x), Delivered, StoreRegisterParam
  PROVE  Delivered' /\ Activations' = Activations
<1>1. /\ pc = "params" /\ i \in DOMAIN Fn.sig /\ InRegister(Fn.sig, i) /\ i' = i + 1
      /\ Written(fp - Home(Fn, i), reg[ArgRegister(Fn.sig, i)])
      /\ UNCHANGED <<code, pc, fp>> /\ reg' = reg
  BY DEF StoreRegisterParam, Written
<1>2. fun \in DOMAIN Functions /\ Fn = Functions[fun]
  BY <1>1, Here DEF Between, Fn
<1>3. PICK n \in Nat : n = Len(Fn.sig) /\ DOMAIN Fn.sig = 1 .. n
  BY <1>2, FunctionFacts
<1>4. i \in i .. n
  BY <1>1, <1>3
<1>5. reg[ArgRegister(Fn.sig, i)] = Argument(depth, i)
  BY <1>1, <1>2, <1>3, <1>4 DEF Delivered, InPlace
<1>6. Good(ch, d, x)'
  BY StoreRegisterParamGood
<1>7. Written(fp - Home(Fn, i), Argument(depth, i))
  BY <1>1, <1>5
<1> QED BY <1>1, <1>6, <1>7, StoredRefines

LEMMA StoreStackParamRefines ==
  ASSUME NEW ch, NEW d, NEW x, Good(ch, d, x), Delivered, StoreStackParam,
         \A g \in DOMAIN Functions : StackParametersLast(Functions[g].sig)
  PROVE  Delivered' /\ Activations' = Activations
<1>1. /\ pc = "params" /\ i \in DOMAIN Fn.sig /\ ~InRegister(Fn.sig, i) /\ i' = i + 1
      /\ UNCHANGED <<code, pc, fp>>
  BY DEF StoreStackParam
<1>2. PICK w : /\ w = mem[fp + ParamBase(Fn) + Extras(Fn.sig, i - 1)]
               /\ Written(fp - Home(Fn, i), w)
  BY DEF StoreStackParam, Written
<1>3. fun \in DOMAIN Functions /\ Fn = Functions[fun] /\ Opening(x) /\ Laid(x, fun)
  BY <1>1, Here DEF Between, Fn
<1>4. PICK n \in Nat : n = Len(Fn.sig) /\ DOMAIN Fn.sig = 1 .. n
  BY <1>3, FunctionFacts
<1>5. PICK m \in 1 .. n : m = i /\ m - 1 = i - 1
  BY <1>1, <1>4
<1>6. fp = BaseOf(x, fun) /\ ArgumentsAt(fun, depth, StackArgs(fun), EntrySp(x, fun))
  BY <1>1, <1>3 DEF Opening
<1>7. PICK u \in Nat, a \in Nat, len \in Nat, b \in Int :
        /\ u = Extras(Fn.sig, m - 1) /\ a = StackArgs(fun) /\ a = Extras(Fn.sig, n)
        /\ len = Len(Fn.saved) /\ b = BaseOf(x, fun) /\ EntrySp(x, fun) = b + len + 2
  <2>1. Extras(Fn.sig, m - 1) \in Nat
    <3>1. Extras(Fn.sig, m - 1) \in 0 .. m - 1
      BY ExtrasFacts
    <3> QED BY <3>1
  <2>2. PICK b \in Int, len \in Nat, gl \in Nat, fl \in Nat, z \in Nat, a \in Nat,
             r \in Int, e \in Int, s \in Int :
          Parts(x, fun, b, len, gl, fl, z, a, r, e, s) /\ Apart(b, len, gl, fl, z, a, r, e, s)
    BY <1>3 DEF Laid
  <2>3. /\ a = StackArgs(fun) /\ len = Len(Fn.saved) /\ b = BaseOf(x, fun)
        /\ EntrySp(x, fun) = b + len + 2
    BY <1>3, <2>2 DEF Parts, Apart
  <2>4. a = Extras(Fn.sig, n)
    BY <1>3, <1>4, <2>3 DEF StackArgs
  <2> QED BY <2>1, <2>3, <2>4
<1>8. a = u + (n - m + 1)
  <2>1. Len(Fn.sig) = n /\ StackParametersLast(Fn.sig) /\ ~InRegister(Fn.sig, m)
    BY <1>1, <1>3, <1>4, <1>5
  <2>2. Extras(Fn.sig, n) = Extras(Fn.sig, m - 1) + (n - m + 1)
    BY <2>1, LastOnStack
  <2> QED BY <1>7, <2>2
<1>9. w = Argument(depth, m)
  <2>1. fp + ParamBase(Fn) + Extras(Fn.sig, i - 1) = EntrySp(x, fun) + u
    <3>1. ParamBase(Fn) = len + 2 /\ fp = b /\ Extras(Fn.sig, i - 1) = u
      BY <1>5, <1>6, <1>7 DEF ParamBase
    <3> QED BY <1>7, <3>1
  <2>2. u \in 0 .. a - 1 /\ n - a + 1 + u = m
    BY <1>8
  <2>3. mem[EntrySp(x, fun) + u] = Argument(depth, n - a + 1 + u)
    BY <1>3, <1>4, <1>6, <1>7, <2>2 DEF ArgumentsAt
  <2> QED BY <1>2, <2>1, <2>2, <2>3
<1>10. \A k \in DOMAIN Fn.sig : k > i => ~InRegister(Fn.sig, k)
  <2> SUFFICES ASSUME NEW k \in 1 .. n, k > m PROVE ~InRegister(Fn.sig, k)
    BY <1>4, <1>5
  <2>1. m < k /\ ~InRegister(Fn.sig, m) /\ StackParametersLast(Fn.sig)
    BY <1>1, <1>3, <1>5
  <2> QED BY <1>4, <2>1 DEF StackParametersLast
<1>11. Good(ch, d, x)'
  BY StoreStackParamGood
<1>12. Written(fp - Home(Fn, i), Argument(depth, i))
  BY <1>2, <1>5, <1>9
<1> QED BY <1>1, <1>10, <1>11, <1>12, StoredRefines

-----------------------------------------------------------------------------
(* The steps of CallStack *)

LEMMA StackFacts ==
  ASSUME NEW s, NEW d \in Nat, s = [e \in 1 .. d |-> s[e]]
  PROVE  /\ Len(s) = d /\ DOMAIN s = 1 .. d
         /\ \A v : Append(s, v) = [e \in 1 .. d + 1 |-> IF e = d + 1 THEN v ELSE s[e]]
         /\ d # 0 => s # << >> /\ Front(s) = [e \in 1 .. d - 1 |-> s[e]]
<1>1. s \in Seq({s[e] : e \in 1 .. d}) /\ Len(s) = d
  OBVIOUS
<1>2. ASSUME NEW v PROVE Append(s, v) = [e \in 1 .. d + 1 |-> IF e = d + 1 THEN v ELSE s[e]]
  BY <1>1
<1>3. ASSUME d # 0 PROVE s # << >> /\ Front(s) = [e \in 1 .. d - 1 |-> s[e]]
  <2>1. Front(s) = SubSeq(s, 1, d - 1)
    BY <1>1 DEF Front
  <2>2. SubSeq(s, 1, d - 1) = [e \in 1 .. d - 1 |-> s[e]]
    BY <1>1, <1>3
  <2>3. s # << >>
    BY <1>1, <1>3
  <2> QED BY <2>1, <2>2, <2>3
<1> QED BY <1>1, <1>2, <1>3

\* The body begins: a call has put an activation on the stack.
LEMMA WorkRefines ==
  ASSUME NEW ch, NEW d, NEW x, Good(ch, d, x), Delivered, Work
  PROVE  Delivered' /\ Calls!Enter
<1>1. /\ pc = "params" /\ pc' = "body" /\ i \notin DOMAIN Fn.sig
      /\ Written(LocalSlot, Initial(depth))
  BY DEF Work, Written
<1>2. Delivered'
  BY <1>1 DEF Delivered
<1>3. /\ Chain(mem, ch, d) /\ d \in Nat /\ d <= MaxDepth /\ x = ch[d] /\ fun \in DOMAIN Functions
      /\ depth = d + 1 /\ Opening(x) /\ x.rest \in Int /\ Fn = Functions[fun]
  BY <1>1, Here DEF Between, Fn
<1>4. PICK h : /\ Good(h, d + 1, h[d + 1])' /\ h[d + 1] = Activated(x, fun, d + 1)
               /\ \A e \in 0 .. d : h[e] = ch[e]
  BY WorkGood
<1>5. fp = BaseOf(x, fun) /\ i \in 1 .. Len(Fn.sig) + 1
  BY <1>1, <1>3 DEF Opening
<1>6. PICK n \in Nat : n = Len(Fn.sig) /\ DOMAIN Fn.sig = 1 .. n /\ n \in 0 .. MaxParams
  BY <1>3, FunctionFacts, ParametersBound
<1>7. i - 1 = n
  BY <1>1, <1>5, <1>6
<1>8. \A k \in 1 .. n : mem[fp - Home(Fn, k)] = Argument(depth, k)
  BY <1>1, <1>7 DEF Delivered
<1>9. /\ mem'[fp - 1] = Initial(depth)
      /\ \A k \in Nat : k # 1 /\ k < FrameSize(Fn) => mem'[fp - k] = mem[fp - k]
      /\ \A a \in x.rest .. Bottom : mem'[a] = mem[a]
  <2>1. FrameSize(Fn) > 1
    <3>1. PICK l \in Nat, z \in Nat : l = Fn.locals /\ z = FrameSize(Fn) /\ l >= 1 /\ z > l + n
      BY <1>3, <1>6, FunctionFacts
    <3> QED BY <3>1
  <2>2. Written(fp - 1, Initial(depth))
    BY <1>1 DEF LocalSlot
  <2> QED BY <1>1, <2>1, <2>2, BelowFrame
<1>10. ASSUME NEW k \in 1 .. n PROVE mem'[fp - Home(Fn, k)] = Argument(depth, k)
  <2>1. PICK m \in Nat : m = Home(Fn, k) /\ m >= 2 /\ m < FrameSize(Fn)
    BY <1>3, <1>6, Homes
  <2>2. m # 1
    BY <2>1
  <2> QED BY <1>8, <1>9, <2>1, <2>2
<1>11. PICK y, N : y = h[d + 1] /\ N = mem'
  OBVIOUS
<1> DEFINE v == [params |-> [k \in 1 .. n |-> Argument(d + 1, k)], local |-> Initial(d + 1)]
<1>12. View(N, y) = v
  <2>1. y.fn = fun /\ y.base = fp
    BY <1>4, <1>5, <1>11 DEF Activated
  <2>2. [k \in DOMAIN Functions[fun].sig |-> N[fp - Home(Functions[fun], k)]]
          = [k \in 1 .. n |-> Argument(d + 1, k)]
    BY <1>3, <1>6, <1>10, <1>11
  <2>3. N[fp - 1] = Initial(d + 1)
    BY <1>3, <1>9, <1>11
  <2> QED BY <2>1, <2>2, <2>3 DEF View
<1> HIDE DEF v
<1>13. [e \in 1 .. d |-> View(N, ch[e])] = [e \in 1 .. d |-> View(mem, ch[e])]
  <2>1. PICK r \in Int : r = x.rest
    BY <1>3
  <2>2. r <= ch[d].rest /\ \A a \in r .. Bottom : N[a] = mem[a]
    BY <1>3, <1>9, <1>11, <2>1
  <2> QED BY <1>3, <2>1, <2>2, ViewsKept
<1>14. \A e \in 1 .. d : View(N, ch[e]) = View(mem, ch[e])
  BY <1>13
<1>15. Activations = [e \in 1 .. d |-> View(mem, ch[e])]
  BY FramesFound
<1>16. Activations' = [e \in 1 .. d + 1 |-> View(N, h[e])]
  BY <1>4, <1>11, FramesFoundNext
<1>17. PICK s : s = Activations
  OBVIOUS
<1>18. s = [e \in 1 .. d |-> s[e]]
  BY <1>15, <1>17
<1>19. Len(s) = d /\ \A w : Append(s, w) = [e \in 1 .. d + 1 |-> IF e = d + 1 THEN w ELSE s[e]]
  BY <1>3, <1>18, StackFacts
<1>20. ASSUME NEW e \in 1 .. d + 1 PROVE View(N, h[e]) = IF e = d + 1 THEN v ELSE s[e]
  <2>1. CASE e = d + 1
    BY <1>11, <1>12, <2>1
  <2>2. CASE e # d + 1
    <3>1. e \in 1 .. d /\ e \in 0 .. d
      BY <1>3, <2>2
    <3> QED BY <1>4, <1>14, <1>15, <1>17, <2>2, <3>1
  <2> QED BY <2>1, <2>2
<1>21. Activations' = Append(s, v)
  BY <1>16, <1>19, <1>20
<1>22. Calls!Depth = d
  BY <1>17, <1>19 DEF Calls!Depth
<1> QED BY <1>2, <1>6, <1>17, <1>21, <1>22 DEF Calls!Enter, v

LEMMA ResultRegisterFacts ==
  ASSUME NEW f
  PROVE  ResultRegister(f) \in {0, 16} /\ ResultRegister(f) \in 0 .. 47
         /\ ResultRegister(f) \notin Allocatable
<1>1. ResultRegister(f) \in {0, 16}
  BY DEF ResultRegister, FirstFp
<1> QED BY <1>1 DEF Allocatable

\* A return takes the last activation off.
LEMMA CloseFrameRefines ==
  ASSUME NEW ch, NEW d, NEW x, Good(ch, d, x), CloseFrame
  PROVE  Delivered' /\ Calls!Leave
<1>1. /\ pc = "body" /\ pc' = "vpop" /\ reg' = [reg EXCEPT ![ResultRegister(Fn)] = Result(depth)]
      /\ Released(ReleasedSize(Fn)) /\ fun' = fun /\ depth' = depth
  BY DEF CloseFrame, code
<1>2. /\ Chain(mem, ch, d) /\ d \in Nat /\ d <= MaxDepth /\ Bounds /\ depth = d /\ depth # 0
  BY <1>1, Here DEF Between, Bounds
<1>3. Delivered'
  <2>1. Fn' = Fn
    BY <1>1 DEF Fn
  <2>2. reg'[ResultRegister(Fn)] = Result(depth)
    BY <1>1, <1>2, ResultRegisterFacts DEF Bounds
  <2> QED BY <1>1, <2>1, <2>2 DEF Delivered
<1>4. PICK m \in Nat : m = d - 1 /\ d = m + 1
  BY <1>2
<1>5. PICK y : y = ch[m] /\ Good(ch, m, y)'
  BY <1>4, CloseFrameGood
<1>6. \A a \in y.rest .. Bottom : mem'[a] = mem[a]
  BY <1>1, <1>5, ReleasedAbove
<1>7. PICK r, N : r = y.rest /\ N = mem' /\ r \in Int
  BY <1>5, SpBelowNext
<1>8. Chain(mem, ch, m)
  BY <1>2, <1>4, ChainShrinks
<1>9. [e \in 1 .. m |-> View(N, ch[e])] = [e \in 1 .. m |-> View(mem, ch[e])]
  <2>1. r <= ch[m].rest /\ m <= MaxDepth /\ \A a \in r .. Bottom : N[a] = mem[a]
    BY <1>2, <1>4, <1>5, <1>6, <1>7, StackAssumption
  <2> QED BY <1>7, <1>8, <2>1, ViewsKept
<1>10. Activations = [e \in 1 .. d |-> View(mem, ch[e])]
  BY FramesFound
<1>11. Activations' = [e \in 1 .. m |-> View(N, ch[e])]
  BY <1>5, <1>7, FramesFoundNext
<1>12. PICK s : s = Activations
  OBVIOUS
<1>13. s = [e \in 1 .. d |-> s[e]] /\ \A e \in 1 .. m : s[e] = View(mem, ch[e])
  BY <1>4, <1>10, <1>12
<1>14. s # << >> /\ Front(s) = [e \in 1 .. m |-> s[e]]
  <2>1. d # 0 => s # << >> /\ Front(s) = [e \in 1 .. d - 1 |-> s[e]]
    BY <1>2, <1>13, StackFacts
  <2> QED BY <1>2, <1>4, <2>1
<1>15. Activations' = Front(s)
  BY <1>9, <1>11, <1>13, <1>14
<1> QED BY <1>3, <1>12, <1>14, <1>15 DEF Calls!Leave, Calls!Front, Front

\* While registers are popped the result stays where it is.
LEMMA PopRefines ==
  ASSUME NEW ch, NEW d, NEW x, Good(ch, d, x), Good(ch, d, x)', Delivered, NEW n, Released(n),
         pc = "vpop", pc' \in {"vpop", "bx"}, UNCHANGED code,
         NEW regs, PopInto(regs), ToSet(regs) \subseteq Allocatable
  PROVE  Delivered' /\ Activations' = Activations
<1>1. fun' = fun /\ depth' = depth /\ Fn' = Fn
  BY DEF code, Fn
<1>2. reg[ResultRegister(Fn)] = Result(depth)
  BY DEF Delivered
<1>3. Bounds
  BY Here
<1>4. reg'[ResultRegister(Fn)] = reg[ResultRegister(Fn)]
  BY <1>3, ResultRegisterFacts DEF PopInto, Bounds
<1>5. Delivered'
  BY <1>1, <1>2, <1>4 DEF Delivered
<1>6. \A a \in x.rest .. Bottom : mem'[a] = mem[a]
  BY ReleasedAbove
<1> QED BY <1>5, <1>6, SameActivations

LEMMA PopFloatRefines ==
  ASSUME NEW ch, NEW d, NEW x, Good(ch, d, x), Delivered, PopFloat
  PROVE  Delivered' /\ Activations' = Activations
<1>1. /\ pc = "vpop" /\ pc' \in {"vpop", "bx"} /\ UNCHANGED code /\ i > 0
      /\ PopInto(Chunk(Float, i)) /\ Released(Len(Chunk(Float, i)))
  BY DEF PopFloat
<1>2. fun \in DOMAIN Functions /\ Float = FloatOf(fun) /\ i \in 0 .. Chunks(FloatOf(fun))
  BY <1>1, Here DEF Between, Opening, Float, FloatOf, Saved, Fn
<1>3. PICK s : s = Chunk(FloatOf(fun), i)
  OBVIOUS
<1>4. i \in 1 .. Chunks(FloatOf(fun)) /\ i - 1 \in 0 .. Chunks(FloatOf(fun))
  <2>1. Chunks(FloatOf(fun)) \in Nat
    BY <1>2, ChunkFacts
  <2> QED BY <1>1, <1>2, <2>1
<1>5. PICK n \in Nat, p \in Nat, q \in Nat :
        /\ n = Len(s) /\ DOMAIN s = 1 .. n /\ p = InChunks(fun, i - 1) /\ q = Len(FloatOf(fun))
        /\ p + n <= q /\ \A j \in 1 .. n : s[j] = FloatOf(fun)[p + j]
  <2>1. /\ Len(s) \in Nat /\ DOMAIN s = 1 .. Len(s)
        /\ InChunks(fun, i) = InChunks(fun, i - 1) + Len(s)
        /\ \A j \in 1 .. Len(s) : s[j] = FloatOf(fun)[InChunks(fun, i - 1) + j]
    BY <1>2, <1>3, <1>4, ChunkFacts
  <2>2. InChunks(fun, i) \in 0 .. Len(FloatOf(fun)) /\ InChunks(fun, i - 1) \in 0 .. Len(FloatOf(fun))
    BY <1>2, <1>4, ChunkFacts
  <2>3. InChunks(fun, i - 1) \in Nat /\ Len(FloatOf(fun)) \in Nat
    <3>1. Len(FloatOf(fun)) \in Nat
      BY <1>2, SavedSplit
    <3> QED BY <2>2, <3>1
  <2>4. PICK a \in Nat, b \in Nat, c \in Nat :
          a = Len(s) /\ b = InChunks(fun, i - 1) /\ c = Len(FloatOf(fun))
    BY <2>1, <2>3
  <2>5. b + a <= c
    BY <2>1, <2>2, <2>4
  <2>6. DOMAIN s = 1 .. a /\ \A j \in 1 .. a : s[j] = FloatOf(fun)[b + j]
    BY <2>1, <2>4
  <2> QED BY <2>4, <2>5, <2>6
<1>6. ToSet(s) \subseteq Allocatable
  <2>1. \A k \in 1 .. q : FloatOf(fun)[k] \in Allocatable
    BY <1>2, <1>5, PartsAscend
  <2>2. \A j \in 1 .. n : p + j \in 1 .. q
    BY <1>5
  <2>3. \A j \in 1 .. n : s[j] \in Allocatable
    BY <1>5, <2>1, <2>2
  <2> QED BY <1>5, <2>3 DEF ToSet
<1>7. Good(ch, d, x)'
  BY PopFloatGood
<1>8. PopInto(s) /\ Released(Len(s))
  BY <1>1, <1>2, <1>3
<1> QED BY <1>1, <1>6, <1>7, <1>8, PopRefines

LEMMA PopGeneralRefines ==
  ASSUME NEW ch, NEW d, NEW x, Good(ch, d, x), Delivered, PopGeneral
  PROVE  Delivered' /\ Activations' = Activations
<1>1. /\ pc = "vpop" /\ pc' \in {"vpop", "bx"} /\ UNCHANGED code
      /\ PopInto(General) /\ Released(Len(General) + 2)
  BY DEF PopGeneral
<1>2. fun \in DOMAIN Functions /\ General = GeneralOf(fun)
  BY <1>1, Here DEF Between, General, GeneralOf, Saved, Fn
<1>3. ToSet(General) \subseteq Allocatable
  <2>1. \A k \in 1 .. Len(GeneralOf(fun)) : GeneralOf(fun)[k] \in Allocatable
    BY <1>2, PartsAscend
  <2>2. DOMAIN GeneralOf(fun) = 1 .. Len(GeneralOf(fun))
    BY <1>2, SavedSplit
  <2> QED BY <1>2, <2>1, <2>2 DEF ToSet
<1>4. Good(ch, d, x)'
  BY PopGeneralGood
<1> QED BY <1>1, <1>3, <1>4, PopRefines

LEMMA BranchExchangeRefines ==
  ASSUME NEW ch, NEW d, NEW x, Good(ch, d, x), Delivered, BranchExchange
  PROVE  Delivered' /\ Activations' = Activations
<1>1. /\ pc = "bx" /\ callee' = lr[3] /\ depth' = depth - 1 /\ reg' = reg /\ mem' = mem
      /\ pc' = (IF lr = Site(0, 0) THEN "exit" ELSE "return")
  BY DEF BranchExchange
<1>2. reg[ResultRegister(Fn)] = Result(depth)
  BY <1>1 DEF Delivered
<1>3. lr = ReturnTo(x, fun) /\ depth \in Nat
  BY <1>1, Here DEF Between, Opening
<1>4. Delivered'
  <2>1. CASE pc' = "return"
    <3>1. callee' = fun
      BY <1>1, <1>3, <2>1 DEF ReturnTo, Site
    <3>2. Functions[callee'] = Fn /\ depth' + 1 = depth
      BY <1>1, <1>3, <3>1 DEF Fn
    <3> QED BY <1>1, <1>2, <2>1, <3>2 DEF Delivered
  <2>2. CASE pc' = "exit"
    BY <2>2 DEF Delivered
  <2> QED BY <1>1, <2>1, <2>2
<1>5. Good(ch, d, x)' /\ \A a \in x.rest .. Bottom : mem'[a] = mem[a]
  BY <1>1, BranchExchangeGood
<1> QED BY <1>4, <1>5, SameActivations

\* The caller takes the result of the call.
LEMMA EndCallRefines ==
  ASSUME NEW ch, NEW d, NEW x, Good(ch, d, x), Delivered, EndCall
  PROVE  Delivered' /\ Calls!Receive
<1>1. /\ pc = "return" /\ pc' = "body"
      /\ mem' = [a \in DOMAIN mem |->
                   IF a < sp' THEN Free
                   ELSE IF a = LocalSlot THEN reg[ResultRegister(Functions[callee])]
                   ELSE mem[a]]
  BY DEF EndCall
<1>2. Delivered'
  BY <1>1 DEF Delivered
<1>3. reg[ResultRegister(Functions[callee])] = Result(depth + 1)
  BY <1>1 DEF Delivered
<1>4. /\ Chain(mem, ch, d) /\ d \in Nat /\ d <= MaxDepth /\ depth = d /\ depth # 0 /\ x = ch[d]
      /\ Running(x) /\ x.fn \in DOMAIN Functions /\ Bottom \in Nat /\ DOMAIN mem = 1 .. Bottom
      /\ MaxDepth \in Nat
  <2>1. ~Between /\ Bounds
    BY <1>1, Here DEF Between
  <2>2. depth # 0 /\ fun \in DOMAIN Functions /\ DOMAIN mem = 1 .. Bottom
    BY <1>1, <2>1, StackAssumption DEF Bounds
  <2>3. Running(x) /\ x.fn = fun
    BY <2>1, Here DEF Running
  <2> QED BY <2>1, <2>2, <2>3, Here
<1>5. Good(ch, d, x)'
  BY EndCallGood
<1>6. PICK m \in Nat : m = d - 1 /\ d = m + 1
  BY <1>4
<1>7. /\ x = Activated(ch[m], x.fn, d) /\ Placed(x, d) /\ x.base < ch[m].rest /\ Chain(mem, ch, m)
      /\ Placed(ch[m], m)
  <2>1. /\ d \in 1 .. d /\ d - 1 = m /\ m \in 0 .. d /\ d \in 0 .. d /\ m < d /\ m <= MaxDepth
    BY <1>4, <1>6
  <2>2. Chain(mem, ch, m)
    BY <1>4, <1>6, ChainShrinks
  <2>3. x = Activated(ch[m], x.fn, d)
    BY <1>4, <2>1 DEF Chain
  <2>4. x.base < ch[m].rest
    BY <1>4, <2>1 DEF Chain
  <2> QED BY <1>4, <2>1, <2>2, <2>3, <2>4, ChainPlaced
<1>0. PICK N : N = mem'
  OBVIOUS
<1>8. PICK b \in Int, z \in Nat, r \in Int :
        b = x.base /\ z = FrameSize(Functions[x.fn]) /\ r = ch[m].rest
  BY <1>4, <1>7, FunctionFacts DEF Placed
<1>9. fp = b /\ LocalSlot = b - 1 /\ x.rest = b - z /\ b < r
  BY <1>4, <1>7, <1>8 DEF Running, LocalSlot, Activated
<1>10. sp' \in Int /\ sp' <= b - z /\ b - z >= 1 /\ b <= Bottom
  <2>1. sp' \in Int /\ x.rest \in Int /\ sp' <= x.rest /\ x.rest >= 1
    BY <1>5, SpBelowNext
  <2> QED BY <1>7, <1>8, <1>9, <2>1 DEF Placed
<1>11. z >= 2
  <2>1. PICK l \in Nat, n \in Nat : l = Functions[x.fn].locals /\ n = Len(Functions[x.fn].sig)
    BY <1>4, FunctionFacts
  <2>2. z > l + n /\ l >= 1
    BY <1>4, <1>8, <2>1, FunctionFacts
  <2> QED BY <2>2
<1>12. \A a \in b - z .. Bottom :
         N[a] = IF a = b - 1 THEN Result(d + 1) ELSE mem[a]
  <2> SUFFICES ASSUME NEW a \in b - z .. Bottom
               PROVE  N[a] = IF a = b - 1 THEN Result(d + 1) ELSE mem[a]
    OBVIOUS
  <2>1. a \in 1 .. Bottom /\ ~(a < sp')
    <3>1. a \in Int /\ a >= b - z /\ a <= Bottom
      BY <1>4
    <3> QED BY <1>4, <1>10, <3>1
  <2> QED BY <1>0, <1>1, <1>3, <1>4, <1>9, <2>1
<1>13. [e \in 1 .. m |-> View(N, ch[e])] = [e \in 1 .. m |-> View(mem, ch[e])]
  <2>1. \A a \in r .. Bottom : a \in b - z .. Bottom /\ a # b - 1
    <3> SUFFICES ASSUME NEW a \in r .. Bottom PROVE a \in b - z .. Bottom /\ a # b - 1
      OBVIOUS
    <3>1. a \in Int /\ a >= r /\ a <= Bottom /\ b < r
      BY <1>4, <1>9
    <3>2. a > b /\ b - z <= b
      BY <3>1
    <3> QED BY <1>4, <3>1, <3>2
  <2>2. \A a \in r .. Bottom : N[a] = mem[a]
    BY <1>12, <2>1
  <2>3. m <= MaxDepth /\ r <= ch[m].rest
    <3>1. m <= MaxDepth
      BY <1>4, <1>6
    <3>2. r <= ch[m].rest
      BY <1>8
    <3> QED BY <3>1, <3>2
  <2> QED BY <1>7, <1>8, <2>2, <2>3, ViewsKept
<1>14. View(N, x) = [View(mem, x) EXCEPT !.local = Result(d + 1)]
  <2>1. N[b - 1] = Result(d + 1)
    <3>1. b - 1 \in b - z .. Bottom
      BY <1>4, <1>10, <1>11
    <3> QED BY <1>12, <3>1
  <2>2. ASSUME NEW k \in DOMAIN Functions[x.fn].sig
        PROVE  N[b - Home(Functions[x.fn], k)] = mem[b - Home(Functions[x.fn], k)]
    <3>1. k \in 1 .. Len(Functions[x.fn].sig)
      BY <1>4, FunctionFacts
    <3>2. PICK h \in Nat : h = Home(Functions[x.fn], k) /\ h >= 2 /\ h < z
      BY <1>4, <1>8, <3>1, Homes
    <3>3. b - h \in b - z .. Bottom /\ b - h # b - 1
      BY <1>4, <1>10, <3>2
    <3> QED BY <1>12, <3>2, <3>3
  <2>3. PICK g, f, p : /\ g = Functions[x.fn] /\ f = [k \in DOMAIN g.sig |-> N[b - Home(g, k)]]
                       /\ p = [k \in DOMAIN g.sig |-> mem[b - Home(g, k)]]
    OBVIOUS
  <2>4. f = p
    BY <2>2, <2>3
  <2>5. View(N, x) = [params |-> f, local |-> Result(d + 1)]
    BY <1>8, <2>1, <2>3 DEF View
  <2>6. View(mem, x) = [params |-> p, local |-> mem[b - 1]]
    BY <1>8, <2>3 DEF View
  <2> QED BY <2>4, <2>5, <2>6
<1>15. Activations = [e \in 1 .. d |-> View(mem, ch[e])]
  BY FramesFound
<1>16. Activations' = [e \in 1 .. d |-> View(N, ch[e])]
  BY <1>0, <1>5, FramesFoundNext
<1>17. PICK s : s = Activations
  OBVIOUS
<1>18. s = [e \in 1 .. d |-> s[e]] /\ \A e \in 1 .. d : s[e] = View(mem, ch[e])
  BY <1>15, <1>17
<1>19. Len(s) = d /\ DOMAIN s = 1 .. d /\ s # << >>
  BY <1>4, <1>18, StackFacts
<1>20. ASSUME NEW e \in 1 .. d
       PROVE  View(N, ch[e]) = [s EXCEPT ![d].local = Result(d + 1)][e]
  <2>1. CASE e = d
    BY <1>4, <1>14, <1>18, <1>19, <2>1
  <2>2. CASE e # d
    <3>1. e \in 1 .. m
      BY <1>6, <2>2
    <3>2. View(N, ch[e]) = View(mem, ch[e])
      BY <1>13, <3>1
    <3> QED BY <1>18, <1>19, <2>2, <3>2
  <2> QED BY <2>1, <2>2
<1>21. Activations' = [s EXCEPT ![d].local = Result(d + 1)]
  BY <1>16, <1>19, <1>20
<1>22. Calls!Depth = d
  BY <1>17, <1>19 DEF Calls!Depth
<1> QED BY <1>2, <1>17, <1>19, <1>21, <1>22 DEF Calls!Receive

LEMMA StutterRefines ==
  ASSUME NEW ch, NEW d, NEW x, Good(ch, d, x), Delivered, UNCHANGED vars
  PROVE  Delivered' /\ Activations' = Activations
<1>1. /\ UNCHANGED <<fun, pc, i, callee, reg, fp, mem, depth>>
  BY DEF vars
<1>2. Delivered'
  BY <1>1 DEF Delivered, InPlace, Fn
<1>3. Good(ch, d, x)' /\ \A a \in x.rest .. Bottom : mem'[a] = mem[a]
  BY <1>1, StutterGood
<1> QED BY <1>2, <1>3, SameActivations

-----------------------------------------------------------------------------
(* The refinement *)

LEMMA StepRefines ==
  ASSUME ParametersInOrder, IInv, Delivered, [Next]_vars
  PROVE  Delivered' /\ [Calls!Next]_Activations
<1>1. PICK ch, d, x : Good(ch, d, x)
  BY DEF IInv
<1>2. ASSUME BeginCall PROVE Delivered' /\ [Calls!Next]_Activations
  BY <1>1, <1>2, BeginCallRefines
<1>3. ASSUME MoveArgument PROVE Delivered' /\ [Calls!Next]_Activations
  BY <1>1, <1>3, MoveArgumentRefines
<1>4. ASSUME PushArgument PROVE Delivered' /\ [Calls!Next]_Activations
  BY <1>1, <1>4, PushArgumentRefines
<1>5. ASSUME BranchLink PROVE Delivered' /\ [Calls!Next]_Activations
  BY <1>1, <1>5, BranchLinkRefines
<1>6. ASSUME PushGeneral PROVE Delivered' /\ [Calls!Next]_Activations
  BY <1>1, <1>6, PushGeneralRefines
<1>7. ASSUME PushFloat PROVE Delivered' /\ [Calls!Next]_Activations
  BY <1>1, <1>7, PushFloatRefines
<1>8. ASSUME OpenFrame PROVE Delivered' /\ [Calls!Next]_Activations
  BY <1>1, <1>8, OpenFrameRefines
<1>9. ASSUME StoreRegisterParam PROVE Delivered' /\ [Calls!Next]_Activations
  BY <1>1, <1>9, StoreRegisterParamRefines
<1>10. ASSUME StoreStackParam PROVE Delivered' /\ [Calls!Next]_Activations
  BY <1>1, <1>10, StoreStackParamRefines DEF ParametersInOrder
<1>11. ASSUME Work PROVE Delivered' /\ [Calls!Next]_Activations
  BY <1>1, <1>11, WorkRefines DEF Calls!Next
<1>12. ASSUME CloseFrame PROVE Delivered' /\ [Calls!Next]_Activations
  BY <1>1, <1>12, CloseFrameRefines DEF Calls!Next
<1>13. ASSUME PopFloat PROVE Delivered' /\ [Calls!Next]_Activations
  BY <1>1, <1>13, PopFloatRefines
<1>14. ASSUME PopGeneral PROVE Delivered' /\ [Calls!Next]_Activations
  BY <1>1, <1>14, PopGeneralRefines
<1>15. ASSUME BranchExchange PROVE Delivered' /\ [Calls!Next]_Activations
  BY <1>1, <1>15, BranchExchangeRefines
<1>16. ASSUME EndCall PROVE Delivered' /\ [Calls!Next]_Activations
  BY <1>1, <1>16, EndCallRefines DEF Calls!Next
<1>17. ASSUME UNCHANGED vars PROVE Delivered' /\ [Calls!Next]_Activations
  BY <1>1, <1>17, StutterRefines
<1> QED BY <1>2, <1>3, <1>4, <1>5, <1>6, <1>7, <1>8, <1>9, <1>10, <1>11, <1>12, <1>13,
           <1>14, <1>15, <1>16, <1>17 DEF Next, Run, Exited

LEMMA InitialRefines == Init => Delivered /\ Calls!Init
<1> SUFFICES ASSUME Init PROVE Delivered /\ Calls!Init
  OBVIOUS
<1>1. pc = "push" /\ depth = 1 /\ fun = 1 /\ Functions[1].sig = << >>
  BY FunctionsAssumption DEF Init
<1>2. Delivered
  <2>1. 1 .. Len(Fn.sig) = {}
    BY <1>1 DEF Fn
  <2> QED BY <1>1, <2>1 DEF Delivered, InPlace
<1>3. Entered = 0
  BY <1>1 DEF Entered
<1>4. Activations = << >>
  BY <1>3 DEF Activations
<1> QED BY <1>2, <1>4 DEF Calls!Init

\* In a program whose functions take their parameters on the stack last, every
\* run of the code of calls is a run of calls: an activation begins with the
\* arguments of its call as parameters, a return takes the last one off, its
\* result reaches the caller, and no step changes another activation.
THEOREM FramesImplementCalls ==
  ASSUME ParametersInOrder
  PROVE  Spec => Implements
<1>1. Init => Delivered /\ Calls!Init
  BY InitialRefines
<1>2. ParametersInOrder /\ IInv /\ Delivered /\ [Next]_vars => Delivered' /\ [Calls!Next]_Activations
  BY StepRefines
<1>3. ParametersInOrder
  OBVIOUS
<1> QED BY <1>1, <1>2, <1>3, Invariant, PTL DEF Spec, Implements, Calls!Spec

-----------------------------------------------------------------------------
(* The arguments arrive *)

\* In CallStack a parameter keeps the argument of its call.
ArgumentsKept ==
  \A e \in 1 .. Len(Activations) : \A k \in DOMAIN Activations[e].params :
    Activations[e].params[k] = Argument(e, k)

\* The activations are a sequence.
LEMMA ActivationsCounted ==
  ASSUME IInv
  PROVE  \E n \in Nat : Activations = [e \in 1 .. n |-> Activations[e]]
<1>1. PICK ch, d, x : Good(ch, d, x)
  BY DEF IInv
<1>2. d \in Nat /\ Activations = [e \in 1 .. d |-> View(mem, ch[e])]
  BY <1>1, Here, FramesFound
<1>3. Activations = [e \in 1 .. d |-> Activations[e]]
  BY <1>2
<1> QED BY <1>2, <1>3

LEMMA ArgumentsKeptStep ==
  ASSUME IInv, ArgumentsKept, [Calls!Next]_Activations
  PROVE  ArgumentsKept'
<1>0. PICK s : s = Activations
  OBVIOUS
<1>1. PICK n \in Nat : s = Activations /\ s = [e \in 1 .. n |-> s[e]]
  BY <1>0, ActivationsCounted
<1>2. PICK t : t = Activations'
  OBVIOUS
<1>3. /\ Len(s) = n /\ DOMAIN s = 1 .. n
      /\ \A v : Append(s, v) = [e \in 1 .. n + 1 |-> IF e = n + 1 THEN v ELSE s[e]]
      /\ n # 0 => s # << >> /\ Front(s) = [e \in 1 .. n - 1 |-> s[e]]
  <2>1. s = [e \in 1 .. n |-> s[e]]
    BY <1>1
  <2> QED BY ONLY <2>1, StackFacts
<1>4. \A e \in 1 .. n : \A k \in DOMAIN s[e].params : s[e].params[k] = Argument(e, k)
  BY <1>1, <1>3 DEF ArgumentsKept
<1> SUFFICES \A e \in 1 .. Len(t) : \A k \in DOMAIN t[e].params : t[e].params[k] = Argument(e, k)
  BY <1>2 DEF ArgumentsKept
<1>5. Calls!Depth = n
  BY <1>1, <1>3 DEF Calls!Depth
<1>6. ASSUME Calls!Enter
      PROVE  \A e \in 1 .. Len(t) : \A k \in DOMAIN t[e].params : t[e].params[k] = Argument(e, k)
  <2>1. PICK m \in 0 .. MaxParams :
          t = Append(s, [params |-> [k \in 1 .. m |-> Argument(n + 1, k)], local |-> Initial(n + 1)])
    BY <1>1, <1>2, <1>5, <1>6 DEF Calls!Enter
  <2>2. PICK v : v = [params |-> [k \in 1 .. m |-> Argument(n + 1, k)], local |-> Initial(n + 1)]
    OBVIOUS
  <2>3. t = [e \in 1 .. n + 1 |-> IF e = n + 1 THEN v ELSE s[e]]
    BY <1>3, <2>1, <2>2
  <2>4. t = [e \in 1 .. n + 1 |-> t[e]] /\ n + 1 \in Nat
    BY <2>3
  <2>5. Len(t) = n + 1
    BY <2>4, StackFacts
  <2>6. \A k \in DOMAIN v.params : v.params[k] = Argument(n + 1, k)
    BY <2>2
  <2>7. ASSUME NEW e \in 1 .. n + 1
        PROVE  \A k \in DOMAIN t[e].params : t[e].params[k] = Argument(e, k)
    <3>1. CASE e = n + 1
      BY <2>3, <2>6, <3>1
    <3>2. CASE e # n + 1
      <4>1. e \in 1 .. n /\ t[e] = s[e]
        BY <2>3, <3>2
      <4> QED BY <1>4, <4>1
    <3> QED BY <3>1, <3>2
  <2> QED BY <2>5, <2>7
<1>7. ASSUME Calls!Leave
      PROVE  \A e \in 1 .. Len(t) : \A k \in DOMAIN t[e].params : t[e].params[k] = Argument(e, k)
  <2>1. s # << >> /\ t = Front(s)
    BY <1>1, <1>2, <1>7 DEF Calls!Leave, Calls!Front, Front
  <2>2. n # 0
    <3>1. CASE n = 0
      <4>1. s = << >>
        BY <1>1, <3>1
      <4> QED BY <2>1, <4>1
    <3> QED BY <3>1
  <2>3. PICK m \in Nat : m = n - 1 /\ n = m + 1
    BY <2>2
  <2>4. t = [e \in 1 .. m |-> s[e]] /\ t = [e \in 1 .. m |-> t[e]]
    BY <1>3, <2>1, <2>2, <2>3
  <2>5. Len(t) = m
    BY <2>4, StackFacts
  <2> QED BY <1>4, <2>3, <2>4, <2>5
<1>8. ASSUME Calls!Receive
      PROVE  \A e \in 1 .. Len(t) : \A k \in DOMAIN t[e].params : t[e].params[k] = Argument(e, k)
  <2>1. t = [s EXCEPT ![n].local = Result(n + 1)]
    BY <1>1, <1>2, <1>5, <1>8 DEF Calls!Receive
  <2>2. t = [e \in 1 .. n |-> t[e]]
    BY <1>3, <2>1
  <2>3. Len(t) = n
    BY <2>2, StackFacts
  <2>4. ASSUME NEW e \in 1 .. n
        PROVE  \A k \in DOMAIN t[e].params : t[e].params[k] = Argument(e, k)
    <3>1. CASE e = n
      <4>1. t[e] = [s[e] EXCEPT !.local = Result(n + 1)]
        BY <1>3, <2>1, <3>1
      <4>2. t[e].params = s[e].params
        <5>1. \E ch, d, x : Good(ch, d, x) /\ n = d /\ s[e] = View(mem, ch[e])
          <6>1. PICK ch, d, x : Good(ch, d, x)
            BY DEF IInv
          <6>2. d \in Nat /\ s = [c \in 1 .. d |-> View(mem, ch[c])]
            BY <1>1, <6>1, Here, FramesFound
          <6>3. n = d
            BY <1>3, <6>2
          <6> QED BY <6>1, <6>2, <6>3
        <5> QED BY <4>1, <5>1 DEF View
      <4> QED BY <1>4, <4>2
    <3>2. CASE e # n
      BY <1>3, <1>4, <2>1, <3>2
    <3> QED BY <3>1, <3>2
  <2> QED BY <2>3, <2>4
<1>9. ASSUME Activations' = Activations
      PROVE  \A e \in 1 .. Len(t) : \A k \in DOMAIN t[e].params : t[e].params[k] = Argument(e, k)
  BY <1>1, <1>2, <1>3, <1>4, <1>9
<1> QED BY <1>6, <1>7, <1>8, <1>9 DEF Calls!Next

LEMMA ArgumentsFound ==
  ASSUME IInv, ArgumentsKept
  PROVE  ArgumentsArrive
<1> SUFFICES ASSUME pc = "body", NEW k \in DOMAIN Fn.sig
             PROVE  mem[fp - Home(Fn, k)] = Argument(depth, k)
  BY DEF ArgumentsArrive
<1>1. PICK ch, d, x : Good(ch, d, x)
  BY DEF IInv
<1>2. /\ d \in Nat /\ depth = d /\ depth # 0 /\ x = ch[d] /\ fun = x.fn /\ fp = x.base
  BY <1>1, Here DEF Between, Bounds, Running
<1>3. PICK s : s = Activations /\ s = [e \in 1 .. d |-> View(mem, ch[e])]
  BY <1>1, FramesFound
<1>4. s = [e \in 1 .. d |-> s[e]]
  BY <1>3
<1>5. Len(s) = d /\ d \in 1 .. d
  BY <1>2, <1>4, StackFacts
<1>6. s[d] = View(mem, x)
  BY <1>2, <1>3, <1>5
<1>7. /\ k \in DOMAIN s[d].params
      /\ s[d].params[k] = mem[fp - Home(Fn, k)]
  BY <1>2, <1>6 DEF View, Fn
<1> QED BY <1>2, <1>3, <1>5, <1>7 DEF ArgumentsKept

\* In such a program every function finds the arguments of its call in its
\* parameters, and finds them there as long as it runs.
THEOREM ArgumentsReachParameters ==
  ASSUME ParametersInOrder
  PROVE  Spec => []ArgumentsArrive
<1>1. Init => Delivered /\ ArgumentsKept
  <2> SUFFICES ASSUME Init PROVE Delivered /\ ArgumentsKept
    OBVIOUS
  <2>1. Delivered /\ Activations = << >>
    BY InitialRefines DEF Calls!Init
  <2> QED BY <2>1 DEF ArgumentsKept
<1>2. ParametersInOrder /\ IInv /\ Delivered /\ ArgumentsKept /\ [Next]_vars
        => Delivered' /\ ArgumentsKept'
  BY StepRefines, ArgumentsKeptStep
<1>3. IInv /\ ArgumentsKept => ArgumentsArrive
  BY ArgumentsFound
<1>4. ParametersInOrder
  OBVIOUS
<1> QED BY <1>1, <1>2, <1>3, <1>4, Invariant, PTL DEF Spec
=============================================================================
