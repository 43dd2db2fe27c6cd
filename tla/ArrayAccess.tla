---------------------------- MODULE ArrayAccess ----------------------------
(***************************************************************************)
(* The machine code of array items (genMachineCode of Alloca,              *)
(* ArrayItemFetch, Memset, Load and Store in src/src/Instruction.cpp) and  *)
(* what it does to memory.  The code of a statement without branches runs  *)
(* in the order in which it is generated, so an action generates the code  *)
(* of one instruction and runs it; last_hit, last_loc and tmp_space belong *)
(* to the generator, registers and memory to the run.  Addresses are in    *)
(* words; those of the frame are negative.                                 *)
(***************************************************************************)
EXTENDS ArrayCode

\* Definitions marked "For P" are wrong variants of the definition below
\* them, each a slip the property P exists to catch.  Nothing uses them.

CONSTANTS
  Programs,    \* sequences of statements: the declarations come first
  Refers,      \* the element of a global array each parameter is called with
  Entry,       \* the arrays of the function in the order of their allocas
  GlobalAt,    \* the address of each global array
  FrameWords,  \* words of the frame in the model
  Junk         \* what memory holds before anything is stored

Globals == DOMAIN GlobalAt
Params == {a \in Arrays : IsParam(a)}
Locals == Arrays \ (Globals \cup Params)

ASSUME EntryAssumption == Range(Entry) = Locals \cup Params

Product(s) == FoldLeft(LAMBDA a, b : a * b, 1, s)
Size(a) == Product(Dims[a])

ASSUME GlobalsAssumption ==
  \A a, b \in Globals : a # b => GlobalAt[a] >= 0 /\ (GlobalAt[a] + Size(a) <= GlobalAt[b]
                                                      \/ GlobalAt[b] + Size(b) <= GlobalAt[a])

VARIABLES
  program,   \* the statements to come
  current,   \* the statement being translated and run
  code,      \* its instructions to come
  label,     \* the last label given out
  stack_size, offset,           \* of the function, and of each array in its frame
  last_hit, last_loc, tmp_space,
  reg,       \* the temporaries
  mem,       \* the words
  store      \* the arrays as the source sees them before the current statement

vars == <<program, current, code, label, stack_size, offset, last_hit, last_loc, tmp_space,
          reg, mem, store>>

Words == (-FrameWords .. -1) \cup UNION {GlobalAt[a] .. GlobalAt[a] + Size(a) - 1 : a \in Globals}
Read(m, w) == IF w \in Words THEN m[w] ELSE Junk
Written(m, w, v) == IF w \in Words THEN [m EXCEPT ![w] = v] ELSE m

\* The operand's value; a temporary that was never assigned holds junk.
ValueOf(o) == IF o.op = "const" THEN o.val ELSE IF o.val \in DOMAIN reg THEN reg[o.val] ELSE Junk
Assigned(t, v) == [x \in DOMAIN reg \cup {t} |-> IF x = t THEN v ELSE reg[x]]

(***************************************************************************)
(* The source: an array parameter stands for a part of another array.      *)
(***************************************************************************)
\* The array a parameter is called with, and the place in it.
Meant(a) ==
  IF IsParam(a) THEN Refers[a] ELSE [array |-> a, place |-> 0]

RECURSIVE Evaluate(_)
Place(item) ==
  LET dims == Dims[item.name]
      steps == [k \in DOMAIN item.idx |-> Product(After(dims, k)) * Evaluate(item.idx[k])]
  IN FoldLeft(LAMBDA x, y : x + y, Meant(item.name).place, steps)
Evaluate(e) ==
  IF e.op = "num" THEN e.val ELSE store[Meant(e.name).array][Place(e) + 1]

\* The arrays after statement s.
Effect(s) ==
  CASE s.st = "assign" ->
         [store EXCEPT ![Meant(s.to.name).array] = [@ EXCEPT ![Place(s.to) + 1] = Evaluate(s.of)]]
    [] s.st = "declare" ->
         [store EXCEPT ![s.name] =
            [p \in 1 .. Size(s.name) |->
               IF p > Len(s.init) \/ s.init[p] = Null THEN 0 ELSE Evaluate(s.init[p])]]
    [] OTHER -> store

Where(a) == IF a \in Globals THEN GlobalAt[a] ELSE offset[a]
AddressOf(item) == Where(Meant(item.name).array) + Place(item)
-----------------------------------------------------------------------------
Init ==
  /\ program \in Programs
  /\ current = [st |-> "entry"]
  /\ code = Append([k \in DOMAIN Entry |-> [do |-> "alloca", of |-> Entry[k]]], [do |-> "params"])
  /\ label = 0
  /\ stack_size = 0
  /\ offset = [a \in Locals \cup Params |-> 0]
  /\ last_hit = 0 /\ last_loc = 0 /\ tmp_space = 0
  /\ reg = [t \in {} |-> 0]
  /\ mem = [w \in Words |-> IF w < 0 THEN Junk ELSE 0]
  /\ store = [a \in Arrays |-> [p \in 1 .. Size(a) |-> IF a \in Globals THEN 0 ELSE Junk]]

\* Generate the intermediate code of the next statement.
GenCode ==
  /\ code = << >> /\ program # << >>
  /\ store' = Effect(current)
  /\ current' = Head(program)
  /\ program' = Tail(program)
  /\ LET s == Head(program)
         made == CASE s.st = "assign" -> Assignment(s.to, s.of, label)
                   [] s.st = "argument" -> Argument(s.of, label)
                   [] s.st = "declare" -> Declaration(s.name, s.init, label)
     IN code' = made.code /\ label' = made.n
  /\ UNCHANGED <<stack_size, offset, last_hit, last_loc, tmp_space, reg, mem>>

Instruction(do) == code # << >> /\ Head(code).do = do /\ code' = Tail(code)
I == Head(code)

\* AllocSpace: the new size is the offset.
NewSize(n) == stack_size + n

\* A parameter has one word; its address is stored there at once.
Alloca ==
  /\ Instruction("alloca")
  /\ LET words == IF IsParam(I.of) THEN 1 ELSE Size(I.of) IN
       /\ stack_size' = stack_size + words
       /\ offset' = [offset EXCEPT ![I.of] = -NewSize(words)]
  /\ UNCHANGED <<program, current, label, last_hit, last_loc, tmp_space, reg, mem, store>>

\* FunctionDef::genCode: the parameters are stored after all the allocas.
StoreParams ==
  /\ Instruction("params")
  /\ mem' = [w \in Words |->
               LET ps == {a \in Params : offset[a] = w} IN
               IF ps = {} THEN mem[w]
               ELSE LET a == CHOOSE a \in ps : TRUE IN GlobalAt[Refers[a].array] + Refers[a].place]
  /\ UNCHANGED <<program, current, label, stack_size, offset, last_hit, last_loc, tmp_space,
                 reg, store>>

Memset ==
  /\ Instruction("memset")
  /\ mem' = [w \in Words |-> IF w \in offset[I.of] .. offset[I.of] + Size(I.of) - 1
                             THEN 0 ELSE mem[w]]
  /\ UNCHANGED <<program, current, label, stack_size, offset, last_hit, last_loc, tmp_space,
                 reg, store>>

\* For ElementsReached: the fetch of the same array counts as the last one.
AnyHit == last_hit # 0

Hit == last_hit = I.tag

\* Where the array starts that this fetch takes an element of.
Start ==
  IF Hit THEN ValueOf(Temp(last_loc))
  ELSE IF I.base.op = "array" THEN Where(I.base.val)
  ELSE IF I.param THEN ValueOf(I.base) ELSE 0

\* The words between two elements: what follows the first dimension of the
\* type, but for the first fetch of a parameter the first dimension itself.
Stride ==
  IF ~Hit /\ I.param /\ I.shape # << >> THEN I.shape[1]
  ELSE IF I.shape = << >> THEN 1 ELSE Product(Tail(I.shape))

\* For TypeOK: each fetch takes a word of its own.
SlotPerFetch == TRUE

\* tmp_space has no word for this function yet.
NoSlot == tmp_space = 0

ArrayItemFetch ==
  /\ Instruction("fetch")
  /\ IF NoSlot
     THEN stack_size' = stack_size + 1 /\ tmp_space' = -stack_size'
     ELSE UNCHANGED <<stack_size, tmp_space>>
  /\ mem' = Written(mem, tmp_space', Start)
  /\ reg' = Assigned(I.dst, Read(mem', tmp_space') + ValueOf(I.off) * Stride)
  /\ last_hit' = I.tag
  /\ last_loc' = I.dst
  /\ UNCHANGED <<program, current, label, offset, store>>

Load ==
  /\ \/ Instruction("load") /\ reg' = Assigned(I.dst, Read(mem, reg[I.from]))
     \/ Instruction("load pointer") /\ reg' = Assigned(I.dst, Read(mem, offset[I.of]))
  /\ UNCHANGED <<program, current, label, stack_size, offset, last_hit, last_loc, tmp_space,
                 mem, store>>

Store ==
  /\ Instruction("store")
  /\ mem' = Written(mem, reg[I.to], ValueOf(I.val))
  /\ UNCHANGED <<program, current, label, stack_size, offset, last_hit, last_loc, tmp_space,
                 reg, store>>

\* The call itself is modelled in CallFrame.tla.
PassArgument ==
  /\ Instruction("argument")
  /\ UNCHANGED <<program, current, label, stack_size, offset, last_hit, last_loc, tmp_space,
                 reg, mem, store>>

Run ==
  GenCode \/ Alloca \/ StoreParams \/ Memset \/ ArrayItemFetch \/ Load \/ Store \/ PassArgument

Finished == code = << >> /\ program = << >> /\ UNCHANGED vars

Next == Run \/ Finished

Spec == Init /\ [][Next]_vars /\ WF_vars(Run)
-----------------------------------------------------------------------------
TypeOK ==
  /\ stack_size \in 0 .. FrameWords
  /\ tmp_space \in -FrameWords .. 0
  /\ \A a \in DOMAIN offset : offset[a] \in -FrameWords .. 0
  /\ last_hit \in 0 .. label /\ last_loc \in DOMAIN reg \cup {0}
  /\ DOMAIN reg \subseteq 1 .. label

\* The arrays of a function, the words of its parameters and the word the
\* fetches keep the address in do not overlap.
SlotsDisjoint ==
  LET Area(a) == offset[a] .. offset[a] + (IF IsParam(a) THEN 1 ELSE Size(a)) - 1
      allocated == {a \in Locals \cup Params :
                      \A k \in DOMAIN code : code[k].do = "alloca" => code[k].of # a}
  IN /\ \A a, b \in allocated : a # b => Area(a) \cap Area(b) = {}
     /\ \A a \in allocated : tmp_space # 0 => tmp_space \notin Area(a)
     /\ \A a \in allocated : Area(a) \subseteq -stack_size .. -1

\* An array item is read, written and passed on at its own address: the
\* steps of its dimensions add up to the row-major place, also when the
\* subscripts are array items, or the array is a parameter.
ElementsReached ==
  code # << >> =>
    /\ I.do \in {"load", "argument"} => reg[I.from] = AddressOf(I.item)
    /\ I.do = "store" => reg[I.to] = AddressOf(I.item)

\* After each statement the words of every array hold what the source says:
\* the statement has changed its element and no other, and a declaration has
\* put every element of the initialiser in its place and 0 in the others.  The
\* areas the function has given out by then do not overlap.
MemoryMatches ==
  /\ SlotsDisjoint
  /\ code = << >> =>
       \A a \in Globals \cup Locals : \A p \in 1 .. Size(a) :
         mem[Where(a) + p - 1] = Effect(current)[a][p]
=============================================================================
