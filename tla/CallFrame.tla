------------------------------ MODULE CallFrame -----------------------------
(***************************************************************************)
(* The code around calls: how CallInstruction::genMachineCode passes the   *)
(* arguments, how MachineFunction::output opens a frame, how the stores at *)
(* the entry of a function bring its parameters home, and how              *)
(* RetInstruction::genMachineCode and MachineBlock::output close the frame *)
(* (src/src/Instruction.cpp, src/src/MachineCode.cpp).  The state is that  *)
(* of the ARM processor that runs this code; the stack is counted in words *)
(* of four bytes.                                                          *)
(***************************************************************************)
EXTENDS Integers, Sequences, SequencesExt, FiniteSets, FiniteSetsExt

\* Definitions marked "For P" are wrong variants, as in LinearScan.

CONSTANTS
  Functions,  \* the functions of the program, main first
  Bottom,     \* the stack pointer when main is called
  MaxDepth,   \* bound on nested calls
  Share       \* words of the stack there are for one activation

(***************************************************************************)
(* A function is a record                                                  *)
(*   sig    "int" or "float" for each parameter                            *)
(*   ret    "int" or "float": the type of its result                       *)
(*   saved  its saved_regs, general then float (16 and up), ascending      *)
(*   locals, spills  the words of stack its variables and its spilled      *)
(*          registers take, besides its parameters and its return value      *)
(***************************************************************************)
IntArgs == 4
FpArgs == 5
FirstFp == 16
ChunkSize == 16

\* The registers LinearScan hands out.
Allocatable == 4 .. 10 \cup 21 .. 47

VARIABLES
  fun,        \* the function that runs
  pc,         \* the part of its code it is in
  i,          \* progress in that part: an argument, a parameter, a chunk
  cr,         \* CallInstruction's cr: the argument pushed next
  callee,     \* the function that is called
  reg, sp, fp, lr,
  mem,        \* the stack: a word for each address
  depth       \* number of activations

vars == <<fun, pc, i, cr, callee, reg, sp, fp, lr, mem, depth>>
code == <<fun, callee, depth>>

\* Words the program computes; a site is a return address.
Argument(d, k) == <<"argument", d, k>>
Initial(d) == <<"initial", d, 0>>
Result(d) == <<"result", d, 0>>
Scratch(d, r) == <<"scratch", d, r>>
Free == <<"free", 0, 0>>   \* a word below sp: it may change at any time
Pointer(a) == <<"fp", a, 0>>
Site(f, g) == <<"site", f, g>>

Fn == Functions[fun]
Saved == Fn.saved
-----------------------------------------------------------------------------
(***************************************************************************)
(* Parameters.  Each bank hands out its argument registers in order; the   *)
(* parameters left over are on the stack.                                  *)
(***************************************************************************)
RankInBank(sig, k) == Cardinality({j \in 1 .. k - 1 : sig[j] = sig[k]})

InRegister(sig, k) ==
  RankInBank(sig, k) < IF sig[k] = "float" THEN FpArgs ELSE IntArgs

ResultRegister(f) == IF f.ret = "float" THEN FirstFp ELSE 0

ArgRegister(sig, k) ==
  RankInBank(sig, k) + IF sig[k] = "float" THEN FirstFp ELSE 0

Extras(sig, n) == Cardinality({k \in 1 .. n : ~InRegister(sig, k)})

\* No parameter in a register follows one on the stack.
StackParametersLast(sig) ==
  \A k, l \in 1 .. Len(sig) : k < l /\ ~InRegister(sig, k) => ~InRegister(sig, l)

ParametersInOrder == \A g \in DOMAIN Functions : StackParametersLast(Functions[g].sig)

(***************************************************************************)
(* AllocaInstruction: every new slot is put in front of the entry block,   *)
(* so the locals made last come first and the return value comes last.     *)
(* The spill slots of the allocator follow.                                *)
(***************************************************************************)
Home(f, k) == f.locals + Len(f.sig) - k + 1

StackSize(f) == f.locals + Len(f.sig) + 1 + f.spills

\* MachineFunction::output keeps the size a multiple of eight bytes.
FrameSize(f) == StackSize(f) + (StackSize(f) % 2)

\* MachineBlock::output fills in the sizes that were not known before.
ReleasedSize(f) == FrameSize(f)

\* For TypeOK: the words of fp and lr are forgotten.
ParamBaseShort(f) == Len(f.saved)

ParamBase(f) == Len(f.saved) + 2

\* saved_regs is a std::set of registers.  A temporary of every return takes
\* r4, the first register there is.
IsFunction(f) ==
  /\ f.sig \in Seq({"int", "float"}) /\ f.ret \in {"int", "float"}
  /\ f.saved \in Seq(Allocatable) /\ 4 \in ToSet(f.saved)
  /\ \A m, n \in DOMAIN f.saved : m < n => f.saved[m] < f.saved[n]
  /\ f.locals \in Nat \ {0} /\ f.spills \in Nat

ASSUME FunctionsAssumption ==
  /\ Len(Functions) \in Nat \ {0} /\ DOMAIN Functions = 1 .. Len(Functions)
  /\ \A g \in DOMAIN Functions : IsFunction(Functions[g])
  /\ Functions[1].sig = << >>

\* The words of the stack an activation takes, with the arguments pushed for it.
Footprint(f) == Extras(f.sig, Len(f.sig)) + Len(f.saved) + 2 + FrameSize(f)
StackNeeded == MaxDepth * Share

\* The stack is large enough for the nested calls.
ASSUME StackAssumption ==
  /\ Bottom \in Nat /\ MaxDepth \in Nat \ {0} /\ Share \in Nat /\ StackNeeded < Bottom
  /\ \A g \in DOMAIN Functions : Footprint(Functions[g]) <= Share
-----------------------------------------------------------------------------
Init ==
  /\ fun = 1 /\ callee = 1 /\ depth = 1
  /\ pc = "push" /\ i = 1 /\ cr = 0
  /\ reg = [r \in 0 .. 47 |-> Scratch(0, r)]
  /\ sp = Bottom /\ fp = Bottom /\ lr = Site(0, 0)
  /\ mem = [a \in 1 .. Bottom |-> Free]

(***************************************************************************)
(* CallInstruction: an argument in a register is moved there.  Any other   *)
(* turn of the loop pushes the last argument not pushed yet.               *)
(***************************************************************************)
BeginCall ==
  /\ pc = "body" /\ depth < MaxDepth
  /\ \E g \in 2 .. Len(Functions) :
       callee' = g /\ cr' = Len(Functions[g].sig)
  /\ pc' = "args" /\ i' = 1
  /\ UNCHANGED <<fun, depth, reg, sp, fp, lr, mem>>

Sig == Functions[callee].sig

MoveArgument ==
  /\ pc = "args" /\ i \in DOMAIN Sig /\ InRegister(Sig, i)
  /\ reg' = [reg EXCEPT ![ArgRegister(Sig, i)] = Argument(depth + 1, i)]
  /\ i' = i + 1
  /\ UNCHANGED <<code, pc, cr, sp, fp, lr, mem>>

\* For Implements: the arguments are pushed first to last.
PushInOrder ==
  /\ pc = "args" /\ i \in DOMAIN Sig /\ ~InRegister(Sig, i)
  /\ sp' = sp - 1
  /\ mem' = [mem EXCEPT ![sp - 1] = Argument(depth + 1, i)]
  /\ i' = i + 1
  /\ UNCHANGED <<code, pc, cr, reg, fp, lr>>

PushArgument ==
  /\ pc = "args" /\ i \in DOMAIN Sig /\ ~InRegister(Sig, i)
  /\ sp' = sp - 1
  /\ mem' = [mem EXCEPT ![sp - 1] = Argument(depth + 1, cr)]
  /\ cr' = cr - 1
  /\ i' = i + 1
  /\ UNCHANGED <<code, pc, reg, fp, lr>>

BranchLink ==
  /\ pc = "args" /\ i \notin DOMAIN Sig
  /\ lr' = Site(fun, callee)
  /\ fun' = callee /\ depth' = depth + 1
  /\ pc' = "push" /\ i' = 1
  /\ UNCHANGED <<callee, cr, reg, sp, fp, mem>>

(***************************************************************************)
(* MachineFunction::output.  The general registers, fp and lr are pushed,  *)
(* then the float registers in chunks; a list is pushed with its first     *)
(* register at the lowest address.                                         *)
(***************************************************************************)
GeneralCount(s) == Cardinality({n \in DOMAIN s : s[n] < FirstFp})
General == SubSeq(Saved, 1, GeneralCount(Saved))
Float == SubSeq(Saved, GeneralCount(Saved) + 1, Len(Saved))

Chunks(s) == (Len(s) + ChunkSize - 1) \div ChunkSize
Chunk(s, n) == SubSeq(s, (n - 1) * ChunkSize + 1, IF n * ChunkSize > Len(s) THEN Len(s) ELSE n * ChunkSize)

Pushed(words) ==
  /\ sp' = sp - Len(words)
  /\ mem' = [a \in DOMAIN mem |->
               IF a \in sp' .. sp - 1 THEN words[a - sp' + 1] ELSE mem[a]]

ValuesOf(regs) == [n \in DOMAIN regs |-> reg[regs[n]]]

PushGeneral ==
  /\ pc = "push"
  /\ Pushed(ValuesOf(General) \o <<Pointer(fp), lr>>)
  /\ pc' = "vpush"
  /\ UNCHANGED <<code, i, cr, reg, fp, lr>>

PushFloat ==
  /\ pc = "vpush" /\ i <= Chunks(Float)
  /\ Pushed(ValuesOf(Chunk(Float, i)))
  /\ i' = i + 1
  /\ UNCHANGED <<code, pc, cr, reg, fp, lr>>

\* mov fp, sp; then r4 carries the size of the frame.
OpenFrame ==
  /\ pc = "vpush" /\ i > Chunks(Float)
  /\ fp' = sp
  /\ sp' = sp - FrameSize(Fn)
  /\ reg' = [reg EXCEPT ![4] = Scratch(depth, 4)]
  /\ pc' = "params" /\ i' = 1
  /\ UNCHANGED <<code, cr, lr, mem>>

(***************************************************************************)
(* StoreInstruction on a parameter: the first ones come from their         *)
(* registers; another one is loaded, through r3 or s4, from above the      *)
(* saved registers.                                                        *)
(***************************************************************************)
StoreRegisterParam ==
  /\ pc = "params" /\ i \in DOMAIN Fn.sig /\ InRegister(Fn.sig, i)
  /\ mem' = [mem EXCEPT ![fp - Home(Fn, i)] = reg[ArgRegister(Fn.sig, i)]]
  /\ i' = i + 1
  /\ UNCHANGED <<code, pc, cr, reg, sp, fp, lr>>

StoreStackParam ==
  /\ pc = "params" /\ i \in DOMAIN Fn.sig /\ ~InRegister(Fn.sig, i)
  /\ LET r == IF Fn.sig[i] = "float" THEN FirstFp + FpArgs - 1 ELSE IntArgs - 1
         word == mem[fp + ParamBase(Fn) + Extras(Fn.sig, i - 1)]
     IN  /\ reg' = [reg EXCEPT ![r] = word]
         /\ mem' = [mem EXCEPT ![fp - Home(Fn, i)] = word]
  /\ i' = i + 1
  /\ UNCHANGED <<code, pc, cr, sp, fp, lr>>

(***************************************************************************)
(* The body: it fills its variable, the first word of its locals, and the  *)
(* registers the allocator gave it; it may call and it returns.            *)
(***************************************************************************)
LocalSlot == fp - 1

Work ==
  /\ pc = "params" /\ i \notin DOMAIN Fn.sig
  /\ mem' = [mem EXCEPT ![LocalSlot] = Initial(depth)]
  /\ reg' = [r \in DOMAIN reg |->
               IF r \in ToSet(Saved) \/ r \in 0 .. 3 \/ r \in 16 .. 20
               THEN Scratch(depth, r) ELSE reg[r]]
  /\ pc' = "body"
  /\ UNCHANGED <<code, i, cr, sp, fp, lr>>

\* Moving sp up by n words frees what was there.
Released(n) ==
  /\ sp' = sp + n
  /\ mem' = [a \in DOMAIN mem |-> IF a < sp' THEN Free ELSE mem[a]]

(***************************************************************************)
(* RetInstruction: the result goes to its register, sp moves up by the size of the   *)
(* frame, and what was pushed is popped in the opposite order.             *)
(***************************************************************************)
CloseFrame ==
  /\ pc = "body"
  /\ reg' = [reg EXCEPT ![ResultRegister(Fn)] = Result(depth)]
  /\ Released(ReleasedSize(Fn))
  /\ pc' = "vpop" /\ i' = Chunks(Float)
  /\ UNCHANGED <<code, cr, fp, lr>>

PopInto(regs) ==
  reg' = [r \in DOMAIN reg |->
            IF r \in ToSet(regs) THEN mem[sp + SelectInSeq(regs, LAMBDA x : x = r) - 1]
            ELSE reg[r]]

\* For RegistersKept: the chunks are popped in the order they were pushed in.
PopFloatForward ==
  /\ pc = "vpop" /\ i > 0
  /\ PopInto(Chunk(Float, Chunks(Float) + 1 - i))
  /\ Released(Len(Chunk(Float, Chunks(Float) + 1 - i)))
  /\ i' = i - 1
  /\ UNCHANGED <<code, pc, cr, fp, lr>>

PopFloat ==
  /\ pc = "vpop" /\ i > 0
  /\ PopInto(Chunk(Float, i))
  /\ Released(Len(Chunk(Float, i)))
  /\ i' = i - 1
  /\ UNCHANGED <<code, pc, cr, fp, lr>>

PopGeneral ==
  /\ pc = "vpop" /\ i = 0
  /\ PopInto(General)
  /\ fp' = mem[sp + Len(General)][2]
  /\ lr' = mem[sp + Len(General) + 1]
  /\ Released(Len(General) + 2)
  /\ pc' = "bx"
  /\ UNCHANGED <<code, i, cr>>

\* bx lr; outside main, lr is the site of a call.
BranchExchange ==
  /\ pc = "bx" /\ lr[1] = "site"
  /\ fun' = lr[2] /\ callee' = lr[3]
  /\ depth' = depth - 1
  /\ pc' = IF lr = Site(0, 0) THEN "exit" ELSE "return"
  /\ UNCHANGED <<i, cr, reg, sp, fp, lr, mem>>

\* The end of CallInstruction: drop the pushed arguments, take the result.
EndCall ==
  /\ pc = "return"
  /\ sp' = sp + Extras(Sig, Len(Sig))
  /\ mem' = [a \in DOMAIN mem |->
               IF a < sp' THEN Free
               ELSE IF a = LocalSlot THEN reg[ResultRegister(Functions[callee])]
               ELSE mem[a]]
  /\ pc' = "body"
  /\ UNCHANGED <<code, i, cr, reg, fp, lr>>

Run ==
  \/ BeginCall \/ MoveArgument \/ PushArgument \/ BranchLink
  \/ PushGeneral \/ PushFloat \/ OpenFrame \/ StoreRegisterParam \/ StoreStackParam
  \/ Work \/ CloseFrame \/ PopFloat \/ PopGeneral \/ BranchExchange \/ EndCall

Exited == pc = "exit" /\ UNCHANGED vars

Next == Run \/ Exited

Spec == Init /\ [][Next]_vars
-----------------------------------------------------------------------------
Words(kind) == {kind} \X (0 .. MaxDepth) \X Nat

DataWords == Words("argument") \cup Words("initial") \cup Words("result") \cup Words("scratch")

\* The types; a register holds data, never a saved fp or lr or a freed word.
TypeOK ==
  /\ fun \in 0 .. Len(Functions) /\ callee \in 0 .. Len(Functions) /\ depth \in 0 .. MaxDepth
  /\ pc \in {"body", "args", "push", "vpush", "params", "vpop", "bx", "return", "exit"}
  /\ sp \in 1 .. Bottom /\ fp \in 1 .. Bottom
  /\ lr[1] = "site"
  /\ DOMAIN reg = 0 .. 47
  /\ \A r \in DOMAIN reg : reg[r] \in DataWords

(***************************************************************************)
(* The registers a function computes in survive the calls it makes, and    *)
(* those of the program that called main survive main: what                *)
(* MachineFunction::output and RetInstruction save and restore is enough.  *)
(* sp is a whole frame below fp in the body, so no push overwrites a       *)
(* local; it is at the saved registers when they are popped; and main      *)
(* leaves it where it was.                                                 *)
(***************************************************************************)
RegistersKept ==
  /\ pc \in {"body", "args", "return"} =>
       \A r \in ToSet(Saved) : reg[r] = Scratch(depth, r)
  /\ pc = "exit" => \A r \in Allocatable : reg[r] = Scratch(0, r)
  /\ pc = "body" => sp = fp - FrameSize(Fn)
  /\ pc = "vpop" => sp = fp + Len(Float) - Min({i * ChunkSize, Len(Float)})
  /\ pc = "exit" => sp = Bottom

\* In the body, the parameters of a function are the arguments of its call.
ArgumentsArrive ==
  pc = "body" =>
    \A k \in DOMAIN Fn.sig : mem[fp - Home(Fn, k)] = Argument(depth, k)

(***************************************************************************)
(* The activations the stack holds, read from memory: a frame leads to the *)
(* frame of its caller by the saved fp, and to its code by the saved lr.   *)
(***************************************************************************)
Frame(base, f) == [base |-> base, fn |-> f]

Caller(frame) ==
  LET saved == frame.base + Len(Functions[frame.fn].saved)
  IN  Frame(mem[saved][2], mem[saved + 1][2])

\* An activation is there from its last parameter brought home to its return.
Entered == depth - IF pc \in {"push", "vpush", "params", "vpop", "bx"} THEN 1 ELSE 0

Top ==
  CASE pc \in {"push", "vpush", "bx"} -> Frame(fp, lr[2])
    [] pc \in {"params", "vpop"}      -> Caller(Frame(fp, fun))
    [] OTHER                          -> Frame(fp, fun)

Ancestor[n \in 0 .. Entered - 1] == IF n = 0 THEN Top ELSE Caller(Ancestor[n - 1])

Frames == [d \in 1 .. Entered |-> Ancestor[Entered - d]]

Activation(frame) ==
  LET f == Functions[frame.fn]
  IN  [params |-> [k \in DOMAIN f.sig |-> mem[frame.base - Home(f, k)]],
       local  |-> mem[frame.base - 1]]

MaxParams == Max({Len(Functions[f].sig) : f \in DOMAIN Functions})

Activations == [d \in 1 .. Entered |-> Activation(Frames[d])]

Calls == INSTANCE CallStack WITH stack <- Activations

(***************************************************************************)
(* The frames implement calls: a callee finds its arguments in its         *)
(* parameters, a return gives back the result, and neither disturbs the    *)
(* activations further up, in whatever order functions call each other.    *)
(***************************************************************************)
Implements == Calls!Spec
=============================================================================
