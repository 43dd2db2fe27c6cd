------------------------------ MODULE RegAlloc ------------------------------
(***************************************************************************)
(* LinearScan::allocateRegisters on one function                           *)
(* (src/src/LinearScan.cpp): rounds of live-variable analysis, interval    *)
(* construction and linear scan, repeated until a round needs no spill.    *)
(* LiveVariables and LinearScan are composed here as the steps of a round. *)
(* When the allocation has ended, the generated code is run.               *)
(***************************************************************************)
EXTENDS MachineProgram, FiniteSets, FiniteSetsExt, SequencesExt

\* Definitions marked "For P" are wrong variants, as in LinearScan.

CONSTANTS
  IntRegs, FpRegs,   \* as in LinearScan
  Programs,          \* functions as genMachineCode leaves them
  NearSlots          \* slots whose offset fits the immediate of a load

VARIABLES
  prog, liveIn, liveOut, blk, change, lvpc,                            \* LiveVariables
  intervals, regs, fpregs, activelist, rreg, spill, success, cur, pc,  \* LinearScan
  du_chains, \* the uses each definition reaches
  webs,    \* the def and use operands of each interval
  slots,   \* stack slots allocated so far
  mreg,    \* the machine register of each operand after modifyCode, else 0
  phase,   \* "liveness", "intervals", "scan", "run", "halt"
  at,      \* where the generated code runs: block and instruction
  env,     \* the value each virtual register would hold
  machine, \* the value each machine register holds
  frame    \* the value each stack slot holds

LV == INSTANCE LiveVariables
LS == INSTANCE LinearScan WITH Inputs <- {}

ASSUME BanksAssumption ==
  /\ IntRegs \in Seq(1 .. LS!FirstFpReg - 1)
  /\ FpRegs \in Seq(Nat \ (0 .. LS!FirstFpReg - 1))
  /\ IntRegs # << >> /\ FpRegs # << >>
  /\ IsInjective(IntRegs) /\ IsInjective(FpRegs)
  /\ NearSlots \in Nat

lvVars == <<liveIn, liveOut, blk, change, lvpc>>
lsVars == <<intervals, regs, fpregs, activelist, rreg, spill, success, cur, pc>>
runVars == <<at, env, machine, frame>>
vars == <<prog, lvVars, lsVars, du_chains, webs, slots, mreg, phase, runVars>>
-----------------------------------------------------------------------------
Points(p) == UNION {{<<b, k>> : k \in Insts(p, b)} : b \in Blocks(p)}
InstAt(p, x) == p.code[x[1]][x[2]]

\* Where the instruction with this identity stands.
PointOf(p, id) == CHOOSE x \in Points(p) : InstAt(p, x).id = id
Node(p, id) == InstAt(p, PointOf(p, id))

Instruction ==
  [id : Nat, kind : {"op", "load", "store"}, slot : Nat, def : SUBSET Nat, use : SUBSET Nat]

Function ==
  [code : Seq(Seq(Instruction)), succ : Seq(SUBSET Nat), reg : Seq(Nat),
   parent : Seq(Nat), ids : Nat, labels : Nat, fp : SUBSET Nat]

(***************************************************************************)
(* The functions handed to the allocator.  No block is empty: each ends in *)
(* the branch or return that makes its successors.                         *)
(***************************************************************************)
WellFormed(p) ==
  /\ p \in Function
  /\ p.code # << >> /\ \A b \in Blocks(p) : p.code[b] # << >>
  /\ p.succ \in [Blocks(p) -> SUBSET Blocks(p)]
  /\ Len(p.parent) = Len(p.reg)
  /\ \A o \in DOMAIN p.reg : p.reg[o] <= p.labels /\ p.parent[o] \in 0 .. p.ids
  /\ \A x, y \in Points(p) : InstAt(p, x).id = InstAt(p, y).id => x = y
  /\ \A x \in Points(p) :
       LET i == InstAt(p, x)
       IN  /\ i.id \in 1 .. p.ids
           /\ i.def \cup i.use \subseteq DOMAIN p.reg
           /\ \A d, e \in i.def : d = e

ASSUME ProgramsAssumption ==
  \A p \in Programs : WellFormed(p) /\ \A x \in Points(p) : InstAt(p, x).kind = "op"
-----------------------------------------------------------------------------
(***************************************************************************)
(* makeDuChains: the instructions of the function are numbered in order,   *)
(* and each definition is linked to the uses of its register that no other *)
(* definition separates from it, in its block or live at the block's end.  *)
(***************************************************************************)
Number(x) ==
  Cardinality({y \in Points(prog) : y[1] < x[1] \/ (y[1] = x[1] /\ y[2] <= x[2])})
FirstNo(b) == Number(<<b, 1>>)
LastNo(b) == Number(<<b, Len(prog.code[b])>>)

\* use->getParent()->getNo() and use->getParent()->getParent()
ParentNo(o) == Number(PointOf(prog, prog.parent[o]))
ParentBlock(o) == PointOf(prog, prog.parent[o])[1]

Defs == UNION {InstAt(prog, x).def : x \in Points(prog)}

ChainFrom(x, d) ==
  LET b == x[1]
      r == prog.reg[d]
      SameReg(u) == prog.reg[u] = r
      InBlock == {u \in UsesIn(prog, b) :
                    SameReg(u) /\ \E j \in Insts(prog, b) :
                      /\ j > x[2] /\ u \in prog.code[b][j].use
                      /\ Transparent(prog, b, x[2], j, r)}
      Leaving == {u \in liveOut[b] :
                    SameReg(u) /\ Transparent(prog, b, x[2], Len(prog.code[b]) + 1, r)}
  IN  InBlock \cup Leaving

Chain(d) == UNION {ChainFrom(x, d) : x \in {y \in Points(prog) : d \in InstAt(prog, y).def}}

(***************************************************************************)
(* computeLiveIntervals, first and second loop: from the definition to the *)
(* last use, stretched over the blocks the value lives through.            *)
(***************************************************************************)
\* For RunsLikeVirtual: the interval ends at the last use in layout order.
NotStretched(d) ==
  LET ends == {ParentNo(u) : u \in du_chains[d]}
  IN  [start |-> ParentNo(d), end |-> IF ends = {} THEN -1 ELSE Max(ends)]

Stretched(d) ==
  LET uses == du_chains[d]
      ends == {ParentNo(u) : u \in uses}
      Entered(b) == uses \cap liveIn[b] # {}
      Left(b) == uses \cap liveOut[b] # {}
      \* the test compares a def pointer with the first use pointer
      Defined(b) == {k \in Insts(prog, b) : uses # {} /\ Min(uses) \in prog.code[b][k].def}
      starts == {FirstNo(b) : b \in {c \in Blocks(prog) : Entered(c)}}
                \cup {Number(<<b, Min(Defined(b))>>) :
                        b \in {c \in Blocks(prog) : ~Entered(c) /\ Left(c) /\ Defined(c) # {}}}
      stops == {LastNo(b) : b \in {c \in Blocks(prog) : Left(c)}}
               \cup {ParentNo(u) : u \in {v \in uses : Entered(ParentBlock(v)) /\ ~Left(ParentBlock(v))}}
  IN  [start |-> Min({ParentNo(d)} \cup starts),
       end |-> IF uses = {} THEN -1 ELSE Max(ends \cup stops)]

(***************************************************************************)
(* The merging loop (WebMerge.tla shows what it computes): definitions of  *)
(* a register that share a use, directly or through others, become one     *)
(* interval that spans them all.                                           *)
(***************************************************************************)
Linked(d, e) == prog.reg[d] = prog.reg[e] /\ (d = e \/ du_chains[d] \cap du_chains[e] # {})

SameRegister(d) == {e \in DOMAIN du_chains : prog.reg[e] = prog.reg[d]}
Closed(S) == \A x \in S, e \in DOMAIN du_chains : Linked(x, e) => e \in S

\* The smallest closed set around d.
Component(d) ==
  {e \in SameRegister(d) : \A S \in SUBSET SameRegister(d) : d \in S /\ Closed(S) => e \in S}

Webs == {[defs |-> D, uses |-> UNION {du_chains[e] : e \in D}] :
           D \in {Component(d) : d \in DOMAIN du_chains}}

Span(w) ==
  LET spans == {Stretched(d) : d \in w.defs}
      lows  == {Min({i.start, i.end}) : i \in spans}
      highs == {Max({i.start, i.end}) : i \in spans}
  IN  IF Cardinality(w.defs) = 1 THEN CHOOSE i \in spans : TRUE
      ELSE [start |-> Min(lows), end |-> Max(highs)]

\* The Interval object of a web; fp_tag comes from its definitions.
AsInterval(w) ==
  LET span == Span(w)
  IN  [start |-> span.start, end |-> span.end, fp |-> prog.reg[Min(w.defs)] \in prog.fp]

\* The elements of S in ascending order: x is before y when <<x, y>> is in R.
Ascending(S, R) ==
  [i \in 1 .. Cardinality(S) |->
     CHOOSE x \in S : Cardinality({y \in S : <<y, x>> \in R}) = i - 1]

(***************************************************************************)
(* The final sort by start.  The order of equal starts depends on          *)
(* addresses and on std::sort: both ways round are tried.                  *)
(***************************************************************************)
SortedWebs(newestFirst) ==
  LET start == [w \in Webs |-> Span(w).start]
      oldest == [w \in Webs |-> Min(w.defs)]
      Earlier(v, w) ==
        \/ start[v] < start[w]
        \/ start[v] = start[w]
             /\ IF newestFirst THEN oldest[v] > oldest[w] ELSE oldest[v] < oldest[w]
  IN  Ascending(Webs, {x \in Webs \X Webs : Earlier(x[1], x[2])})
-----------------------------------------------------------------------------
(***************************************************************************)
(* genSpillCode.  Each use of a spilled web gets a load in front of its    *)
(* parent instruction and each definition a store behind it; when the      *)
(* offset does not fit, it is loaded into a register of its own first, and *)
(* a float access adds it to fp in another one.                            *)
(***************************************************************************)
AddressSteps(p, r, slot) ==
  IF slot <= NearSlots THEN 0 ELSE IF r \in p.fp THEN 2 ELSE 1

\* The instructions that access slot: address steps, then the load or store.
Access(p, kind, r, slot) ==
  LET m == AddressSteps(p, r, slot)
      o == Len(p.reg)
      Step(j) == [id |-> p.ids + j, kind |-> "op", slot |-> 0,
                  def |-> {o + 2 * j - 1},
                  use |-> IF j = 1 THEN {} ELSE {o + 2 * j - 2}]
      address == IF m = 0 THEN {} ELSE {o + 2 * m}
      value == {o + 2 * m + 1}
  IN  [j \in 1 .. m |-> Step(j)] \o
      <<[id |-> p.ids + m + 1, kind |-> kind, slot |-> slot,
         def |-> IF kind = "load" THEN value ELSE {},
         use |-> address \cup (IF kind = "load" THEN {} ELSE value)]>>

\* For TypeOK: the new operands are not given a parent.
WithoutParents(p, r, m) ==
  [p EXCEPT !.reg = @ \o [i \in 1 .. 2 * m + 1 |-> r], !.ids = @ + m + 1]

\* For SharingKept: the step after an address uses it, but does not become
\* its parent.
WithStaleParents(p, r, m) ==
  [p EXCEPT !.reg = @ \o [i \in 1 .. 2 * m + 1 |->
                            IF i = 2 * m + 1 THEN r ELSE p.labels + (i + 1) \div 2],
            !.parent = @ \o [i \in 1 .. 2 * m + 1 |-> p.ids + 1 + (i - 1) \div 2],
            !.ids = @ + m + 1,
            !.labels = @ + m]

\* The operands it creates: address step j defines object 2j-1, the next one
\* uses 2j.  SymbolTable::getLabel numbers the registers of the addresses.
WithOperands(p, r, m) ==
  [p EXCEPT !.reg = @ \o [i \in 1 .. 2 * m + 1 |->
                            IF i = 2 * m + 1 THEN r ELSE p.labels + (i + 1) \div 2],
            !.parent = @ \o [i \in 1 .. 2 * m + 1 |-> p.ids + 1 + i \div 2],
            !.ids = @ + m + 1,
            !.labels = @ + m]

\* insertBefore for a load, insertAfter for a store
InsertInsts(p, new, id, kind) ==
  LET x == PointOf(p, id)
      n == IF kind = "load" THEN x[2] - 1 ELSE x[2]
  IN  [p EXCEPT !.code[x[1]] = SubSeq(@, 1, n) \o new \o SubSeq(@, n + 1, Len(@))]

\* An access is the operand it is for, its kind ("load" for a use and "store"
\* for a definition) and the slot.
SpillOperand(p, a) ==
  LET r == p.reg[a.op]
  IN  WithOperands(InsertInsts(p, Access(p, a.kind, r, a.slot), p.parent[a.op], a.kind),
                   r, AddressSteps(p, r, a.slot))

\* AllocSpace: the slot of interval i, when it is spilled.
Slot(i) == slots + Cardinality({j \in 1 .. i : spill[j]})

\* For UsesReloaded: the first use is enough.
FirstLoad(i) ==
  {[op |-> u, kind |-> "load", slot |-> Slot(i)] : u \in webs[i].uses \cap {Min(webs[i].uses)}}

Loads(i) == {[op |-> u, kind |-> "load", slot |-> Slot(i)] : u \in webs[i].uses}
Stores(i) == {[op |-> d, kind |-> "store", slot |-> Slot(i)] : d \in webs[i].defs}
Accesses == UNION {Loads(i) \cup Stores(i) : i \in {j \in DOMAIN webs : spill[j]}}

\* The order of the loops: web after web, its uses and then its definitions.
InOrder(x, y) ==
  \/ x.slot < y.slot
  \/ x.slot = y.slot /\ x.kind = "load" /\ y.kind = "store"
  \/ x.slot = y.slot /\ x.kind = y.kind /\ x.op < y.op

SpillCode ==
  LET order == Ascending(Accesses, {x \in Accesses \X Accesses : InOrder(x[1], x[2])})
      after[n \in 0 .. Len(order)] ==
        IF n = 0 THEN prog ELSE SpillOperand(after[n - 1], order[n])
  IN  after[Len(order)]
-----------------------------------------------------------------------------
Init ==
  /\ prog \in Programs
  /\ liveIn = [b \in Blocks(prog) |-> {}] /\ liveOut = liveIn
  /\ blk = 1 /\ change = TRUE /\ lvpc = "clear"
  /\ du_chains = << >> /\ intervals = << >> /\ webs = << >> /\ rreg = << >> /\ spill = << >>
  /\ regs = IntRegs /\ fpregs = << >> /\ activelist = << >>
  /\ success = FALSE /\ cur = 1 /\ pc = "done"
  /\ slots = 0
  /\ mreg = << >>
  /\ phase = "liveness"
  /\ at = << >> /\ env = << >> /\ machine = << >> /\ frame = << >>

ComputeLiveness ==
  /\ phase = "liveness" /\ lvpc # "done"
  /\ LV!Analyse
  /\ UNCHANGED <<prog, lsVars, du_chains, webs, slots, mreg, phase, runVars>>

MakeDuChains ==
  /\ phase = "liveness" /\ lvpc = "done"
  /\ du_chains' = [d \in Defs |-> Chain(d)]
  /\ phase' = "intervals"
  /\ UNCHANGED <<prog, lvVars, lsVars, webs, slots, mreg, runVars>>

\* computeLiveIntervals, and the head of linearScanRegisterAllocation.
BeginScan ==
  /\ phase = "intervals"
  /\ \E newestFirst \in BOOLEAN :
       LET sorted == SortedWebs(newestFirst)
       IN  /\ webs' = sorted
           /\ intervals' = [i \in DOMAIN sorted |-> AsInterval(sorted[i])]
           /\ rreg' = [i \in DOMAIN sorted |-> 0]
           /\ spill' = [i \in DOMAIN sorted |-> FALSE]
           /\ pc' = IF sorted = << >> THEN "done" ELSE "expire"
  /\ activelist' = << >>
  /\ regs' = IntRegs /\ fpregs' = FpRegs
  /\ success' = TRUE
  /\ cur' = 1
  /\ phase' = "scan"
  /\ UNCHANGED <<prog, lvVars, du_chains, slots, mreg, runVars>>

ScanStep ==
  /\ phase = "scan" /\ pc # "done"
  /\ LS!Scan
  /\ UNCHANGED <<prog, lvVars, du_chains, webs, slots, mreg, phase, runVars>>

RegisterOf(o) ==
  LET holders == {i \in DOMAIN webs : o \in webs[i].defs \cup webs[i].uses}
  IN  IF holders = {} THEN 0 ELSE rreg[Max(holders)]

\* modifyCode; the function is finished and can be run.
ModifyCode ==
  /\ phase = "scan" /\ pc = "done" /\ success
  /\ mreg' = [o \in DOMAIN prog.reg |-> RegisterOf(o)]
  /\ phase' = "run"
  /\ at' = <<1, 1>>
  /\ env' = [r \in ToSet(prog.reg) |-> <<0, 0>>]
  /\ machine' = [r \in ToSet(IntRegs) \cup ToSet(FpRegs) |-> <<0, 0>>]
  /\ frame' = [s \in 1 .. slots |-> <<0, 0>>]
  /\ UNCHANGED <<prog, lvVars, lsVars, du_chains, webs, slots>>

\* For EveryVregMapped: the failing round leaves the code as it is.
SpillForgotten ==
  /\ phase = "scan" /\ pc = "done" /\ ~success
  /\ phase' = "liveness" /\ lvpc' = "clear"
  /\ UNCHANGED <<prog, liveIn, liveOut, blk, change, lsVars, du_chains, webs, slots, mreg, runVars>>

GenSpillCode ==
  /\ phase = "scan" /\ pc = "done" /\ ~success
  /\ prog' = SpillCode
  /\ slots' = slots + Cardinality({i \in DOMAIN webs : spill[i]})
  /\ phase' = "liveness"
  /\ lvpc' = "clear"
  /\ UNCHANGED <<liveIn, liveOut, blk, change, lsVars, du_chains, webs, mreg, runVars>>

Allocate == ComputeLiveness \/ MakeDuChains \/ BeginScan \/ ScanStep \/ ModifyCode \/ GenSpillCode
-----------------------------------------------------------------------------
(***************************************************************************)
(* Running the generated code.  An instruction writes a value that nothing *)
(* else has: its identity and a bit that tells one execution from the      *)
(* next.  env follows the virtual registers, which spill code copies.      *)
(***************************************************************************)
Here == InstAt(prog, at)

Follow ==
  IF at[2] < Len(prog.code[at[1]])
  THEN at' = <<at[1], at[2] + 1>> /\ UNCHANGED phase
  ELSE IF prog.succ[at[1]] = {}
       THEN phase' = "halt" /\ UNCHANGED at
       ELSE \E s \in prog.succ[at[1]] : at' = <<s, 1>> /\ UNCHANGED phase

Fresh(d) ==
  LET old == env[prog.reg[d]]
  IN  <<Here.id, IF old = <<Here.id, 0>> THEN 1 ELSE 0>>

ExecuteOp ==
  /\ Here.kind = "op"
  /\ env' = [r \in DOMAIN env |->
               IF \E d \in Here.def : prog.reg[d] = r
               THEN Fresh(CHOOSE d \in Here.def : prog.reg[d] = r) ELSE env[r]]
  /\ machine' = [m \in DOMAIN machine |->
                   IF \E d \in Here.def : mreg[d] = m
                   THEN Fresh(CHOOSE d \in Here.def : mreg[d] = m) ELSE machine[m]]
  /\ UNCHANGED frame

ExecuteLoad ==
  /\ Here.kind = "load"
  /\ machine' = [m \in DOMAIN machine |->
                   IF \E d \in Here.def : mreg[d] = m THEN frame[Here.slot] ELSE machine[m]]
  /\ UNCHANGED <<env, frame>>

\* The operand stored is the last one created.
ExecuteStore ==
  /\ Here.kind = "store"
  /\ frame' = [frame EXCEPT ![Here.slot] = machine[mreg[Max(Here.use)]]]
  /\ UNCHANGED <<env, machine>>

Run ==
  /\ phase = "run"
  /\ ExecuteOp \/ ExecuteLoad \/ ExecuteStore
  /\ Follow
  /\ UNCHANGED <<prog, lvVars, lsVars, du_chains, webs, slots, mreg>>

Halted == phase = "halt" /\ UNCHANGED vars

Next == Allocate \/ Run \/ Halted

(***************************************************************************)
(* allocateRegisters is sequential code: it keeps running.  Turn is enabled *)
(* exactly when BeginScan, ModifyCode or GenSpillCode is, and every step   *)
(* of these is a Turn; stated in this way TLC need not try their           *)
(* assignments to see that they are enabled.                               *)
(***************************************************************************)
Turn ==
  \/ phase = "intervals" /\ phase' = "scan"
  \/ phase = "scan" /\ pc = "done" /\ phase' \in {"run", "liveness"}

Spec ==
  /\ Init /\ [][Next]_vars
  /\ WF_vars(ComputeLiveness) /\ WF_vars(MakeDuChains)
  /\ WF_vars(ScanStep) /\ WF_phase(Turn)
-----------------------------------------------------------------------------
TypeOK ==
  /\ phase \in {"liveness", "intervals", "scan", "run", "halt"}
  /\ slots \in Nat
  /\ Len(prog.reg) = Len(prog.parent)
  /\ \A o \in DOMAIN prog.reg : prog.parent[o] \in 0 .. prog.ids
  /\ Len(webs) = Len(intervals)
  /\ phase \in {"run", "halt"} =>
       \A r \in DOMAIN machine : machine[r] \in (0 .. prog.ids) \X {0, 1}

(***************************************************************************)
(* RunsLikeVirtual: whenever the generated code reads a register, it holds *)
(* the value its virtual register was given last.  No interval is shorter  *)
(* than the life of its value, no two values meet in one register, and     *)
(* each spilled value comes back from the slot it was saved in.            *)
(***************************************************************************)
RunsLikeVirtual ==
  phase = "run" => \A u \in Here.use :
                     mreg[u] # 0 /\ machine[mreg[u]] = env[prog.reg[u]]

(***************************************************************************)
(* UsesReloaded: after genSpillCode, each instruction that used a spilled  *)
(* web is preceded, in the code inserted in front of it, by a load of that *)
(* web ("insert ldr inst before the use of vreg", LinearScan.cpp:231).     *)
(***************************************************************************)
Reloaded(p, id, r) ==
  \E b \in Blocks(p) : \E j, k \in Insts(p, b) :
    /\ j < k /\ p.code[b][k].id = id
    /\ p.code[b][j].kind = "load" /\ \E d \in p.code[b][j].def : p.reg[d] = r
    /\ \A i \in j .. k - 1 : p.code[b][i].id > prog.ids

UsesReloaded ==
  [][GenSpillCode =>
       \A i \in DOMAIN webs : spill[i] =>
         \A x \in Points(prog) : \A u \in InstAt(prog, x).use \cap webs[i].uses :
           Reloaded(prog', InstAt(prog, x).id, prog.reg[u])]_vars

(***************************************************************************)
(* EveryVregMapped: the loop ends ("repeat until all vregs can be mapped", *)
(* LinearScan.cpp:20): spilling shortens what it spills enough that a      *)
(* later round fits in the registers.                                      *)
(***************************************************************************)
EveryVregMapped == <>(phase \in {"run", "halt"})
-----------------------------------------------------------------------------
(***************************************************************************)
(* The functions the allocator is right about.  Liveness is meant here in  *)
(* terms of instructions: u is live in front of those that use it, and of  *)
(* those that do not write its register and lead to one of them; no way    *)
(* there has more steps than the function has instructions.                *)
(***************************************************************************)
Ids(p) == {InstAt(p, x).id : x \in Points(p)}
Writes(p, i, r) == \E d \in Node(p, i).def : p.reg[d] = r
First(p, b) == p.code[b][1].id

\* The instructions that may be executed after instruction i.
Flow(p, i) ==
  LET x == PointOf(p, i)
      b == x[1]
  IN  IF x[2] < Len(p.code[b]) THEN {p.code[b][x[2] + 1].id}
      ELSE {First(p, s) : s \in p.succ[b]}

Backward(p, u, S) == {i \in Ids(p) : ~Writes(p, i, p.reg[u]) /\ Flow(p, i) \cap S # {}}

LiveAbove(p, u) ==
  LET above[n \in 0 .. Cardinality(Ids(p))] ==
        IF n = 0 THEN {i \in Ids(p) : u \in Node(p, i).use}
        ELSE LET before == above[n - 1] IN before \cup Backward(p, u, before)
  IN  above[Cardinality(Ids(p))]

LiveAt(p, u, i) == i \in LiveAbove(p, u)
LiveAfter(p, u, i) == Flow(p, i) \cap LiveAbove(p, u) # {}

\* The uses that instruction i's definition of d reaches.
Reaches(p, i, d) == {u \in AllUses(p) : p.reg[u] = p.reg[d] /\ LiveAfter(p, u, i)}

(***************************************************************************)
(* Tidy: what genMachineCode does with operand objects when it translates  *)
(* an operation on scalars.  Every use is an object of its own, whose      *)
(* parent is the instruction that reads it.  So is a definition, unless    *)
(*   - it is Redone: a comparison writes one object in two conditional     *)
(*     moves, one right behind the other (Instruction.cpp:1249-1275); or   *)
(*   - it is Carried: the object of a load of a constant, or of a step of  *)
(*     an address, is passed on to the instruction below that uses it      *)
(*     (:1108-1118, :1350-1354, :779-810), and has that one as its parent, *)
(*     as each constructor calls setParent.  What stands between the two   *)
(*     reads nothing and works for the same instruction.                   *)
(* The remainder (:1162-1168) and the access to an array (:1716-1808) are  *)
(* not Tidy: MCRegAlloc shows what becomes of them.                        *)
(***************************************************************************)
Redone(p, i, d) ==
  LET j == p.parent[d]
      x == PointOf(p, i)
  IN  /\ PointOf(p, j) = <<x[1], x[2] + 1>>
      /\ Node(p, j).def = {d} /\ Node(p, j).use = {}

Carried(p, i, d) ==
  LET j == p.parent[d]
      x == PointOf(p, i)
      y == PointOf(p, j)
      Between == {k \in Ids(p) : LET z == PointOf(p, k)
                                 IN  z[1] = x[1] /\ x[2] < z[2] /\ z[2] < y[2]}
  IN  /\ y[1] = x[1] /\ x[2] < y[2] /\ y[2] < Len(p.code[x[1]])
      /\ d \in Node(p, j).use /\ Cardinality(Node(p, j).use) <= 2
      /\ \A o \in DOMAIN p.reg : p.reg[o] = p.reg[d] => o = d
      /\ \A k \in Ids(p) : d \in Node(p, k).def => k = i
      /\ \A k \in Between : Node(p, k).use = {}
      /\ \A k \in Between \cup {i} : \A e \in Node(p, k).def :
           Reaches(p, k, e) # {} /\ Reaches(p, k, e) \subseteq Node(p, j).use

Tidy(p) ==
  \A i \in Ids(p) :
    /\ \A u \in Node(p, i).use : p.parent[u] = i
    /\ \A d \in Node(p, i).def :
         \/ p.parent[d] = i /\ d \notin Node(p, i).use
         \/ p.parent[d] \in Ids(p) \ {i} /\ (Carried(p, i, d) \/ Redone(p, i, d))

(***************************************************************************)
(* SharingKept and CarriedKept: genSpillCode leaves operand objects shared *)
(* in this way only, and no object that is Carried is among those it       *)
(* spills: it would store it behind the instruction that uses it.          *)
(***************************************************************************)
SharingKept == [][GenSpillCode => Tidy(prog')]_vars

NoneCarried(D) == \A i \in Ids(prog) : \A d \in Node(prog, i).def \cap D : ~Carried(prog, i, d)

CarriedKept ==
  [][GenSpillCode => \A k \in DOMAIN webs : spill[k] => NoneCarried(webs[k].defs)]_vars

(***************************************************************************)
(* DefinedAbove: what is live into a block was defined by a block that is  *)
(* laid out before it.                                                     *)
(***************************************************************************)
DefinedAbove(p) ==
  \A b \in Blocks(p) : \A u \in AllUses(p) :
    LiveAt(p, u, First(p, b)) =>
      \E i \in Ids(p) : /\ PointOf(p, i)[1] < b
                       /\ Writes(p, i, p.reg[u])
                       /\ LiveAfter(p, u, i)
=============================================================================
