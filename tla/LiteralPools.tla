---------------------------- MODULE LiteralPools ----------------------------
(***************************************************************************)
(* The printing of the .text section: MachineUnit::output,                 *)
(* MachineFunction::output, MachineBlock::output and PrintGlobalEnd        *)
(* (src/src/MachineCode.cpp).  An instruction reaches the address of a     *)
(* global, or a constant that no immediate can hold, through a word near   *)
(* it, so three nested counters put pools of such words between the        *)
(* instructions and a branch around each of them.                          *)
(* Only what names, places and branches depend on is kept of the text.     *)
(***************************************************************************)
EXTENDS Integers, Sequences, FiniteSets, FiniteSetsExt, Functions

\* Definitions marked "For P" are wrong variants of the definition below
\* them, each a slip the property P exists to catch.  Nothing uses them.

CONSTANTS
  BlockEvery,      \* 500: a pool after so many instructions of a block
  FunctionEvery,   \* 160: one when the blocks of a function have more than these
  UnitEvery,       \* 600: one when the functions have more than these
  Units            \* the programs: the globals, and the sizes of the blocks

ASSUME EveryAssumption ==
  BlockEvery \in Nat \ {0} /\ FunctionEvery \in Nat /\ UnitEvery \in Nat

\* A name is <<letters, digits>>, for g12 <<"g", <<1, 2>>>>.
Name == STRING \X Seq(0 .. 9)

\* A block is [size, loads]; loads maps the places of the instructions that
\* load to what they load: 0 for a constant, the position of a global for its
\* address.  A function has a frame or not and prints so many vpushes.
ASSUME UnitsAssumption ==
  \A u \in Units :
    /\ u.globals \in Seq(Name)
    /\ DOMAIN u.functions = 1 .. Len(u.functions) /\ Len(u.functions) \in Nat
    /\ \A k \in DOMAIN u.functions :
         LET f == u.functions[k] IN
           /\ f.frame \in BOOLEAN /\ f.vpushes \in Nat
           /\ DOMAIN f.blocks = 1 .. Len(f.blocks) /\ Len(f.blocks) \in Nat
           /\ \A l \in DOMAIN f.blocks :
                LET B == f.blocks[l] IN
                  /\ B.size \in Nat /\ DOMAIN B.loads \subseteq 1 .. B.size
                  /\ Range(B.loads) \subseteq 0 .. Len(u.globals)

VARIABLES
  unit,
  fn, block, inst,   \* the function, block and instruction printed last
  count,             \* the counter of MachineFunction::output
  size,              \* getCount of the part of the function that is printed
  total,             \* the counter of MachineUnit::output
  n,                 \* MachineUnit::n, the number of the next pool
  label,             \* MachineBlock::label
  pos,               \* the words printed
  literals,          \* where the constants of the next pool are loaded
  refs,              \* the loads: [to, at]
  defined,           \* the labels: [label, at]
  pools,             \* the words no instruction may run into: [over, from, to]
  pc

vars == <<unit, fn, block, inst, count, size, total, n, label, pos, literals,
          refs, defined, pools, pc>>

Function == unit.functions[fn]
Current == Function.blocks[block]

-----------------------------------------------------------------------------
(* Labels *)

\* %d: a number is printed as its digits, with nothing in front of them.
Digits[m \in Nat] == IF m < 10 THEN <<m>> ELSE Append(Digits[m \div 10], m % 10)

AddressLabel(g, m) == <<"addr", g[1], g[2] \o Digits[m]>>
BlockLabel(m)      == <<".B", "", <<m>>>>
FunctionLabel(m)   == <<".F", "", <<m>>>>
ConstantAt(p)      == <<"constant", "", <<p>>>>

Label(l, at) == [label |-> l, at |-> at]

-----------------------------------------------------------------------------
(* Pools *)

\* .LTORG: the assembler puts the constants loaded since the last pool here.
Constants(L, at) ==
  {Label(ConstantAt(p), at + Cardinality({q \in L : q < p})) : p \in L}

\* For AddressesFound: n++ left out of PrintGlobalEnd.
SameNumber == n

NextNumber == n + 1

\* PrintGlobalEnd: one word for the address of every global.
GlobalEnd(at) ==
  {Label(AddressLabel(unit.globals[i], n), at + i - 1) : i \in DOMAIN unit.globals}

\* The branch over a pool, the pool, and the label behind it, after the first
\* `at` words of the text, of which L load constants.
Pool(over, behind, L, at) ==
  LET addresses == at + 1 + Cardinality(L)
      end == addresses + Len(unit.globals)
  IN /\ defined' = defined \cup Constants(L, at + 1) \cup GlobalEnd(addresses)
                     \cup {Label(behind, end)}
     /\ pools' = pools \cup {[over |-> over, from |-> at + 1, to |-> end]}
     /\ n' = NextNumber
     /\ pos' = end
     /\ literals' = {}

NoPool(L, at) == pos' = at /\ literals' = L /\ UNCHANGED <<n, defined, pools>>

\* For PoolsSkipped: n printed without taking the one off that was added.
PoolBehindNext(L, at) == Pool(FunctionLabel(n), FunctionLabel(NextNumber), L, at)

\* The pool of a function or of the unit.
FunctionPool(L, at) == Pool(FunctionLabel(n), FunctionLabel(NextNumber - 1), L, at)

-----------------------------------------------------------------------------
(* MachineUnit::output, MachineFunction::output and MachineBlock::output *)

Init ==
  /\ unit \in Units
  /\ fn = 0 /\ block = 0 /\ inst = 0
  /\ count = 0 /\ size = 0 /\ total = 0
  /\ n = 0 /\ label = 0 /\ pos = 0
  /\ literals = {} /\ refs = {} /\ defined = {} /\ pools = {}
  /\ pc = "unit"

\* push, vpush by sixteen, mov, and ldr and sub if there is a frame.
Prologue(f) == 2 + f.vpushes + (IF f.frame THEN 2 ELSE 0)

BeginFunction ==
  /\ pc = "unit" /\ fn < Len(unit.functions)
  /\ fn' = fn + 1 /\ block' = 0
  /\ count' = 0 /\ size' = 0
  /\ LET f == unit.functions[fn + 1]
         ldr == IF f.frame THEN {pos + Prologue(f) - 2} ELSE {}
     IN /\ pos' = pos + Prologue(f)
        /\ literals' = literals \cup ldr
        /\ refs' = refs \cup {[to |-> ConstantAt(p), at |-> p] : p \in ldr}
  /\ pc' = "function"
  /\ UNCHANGED <<unit, inst, total, n, label, defined, pools>>

BeginBlock ==
  /\ pc = "function" /\ block < Len(Function.blocks)
  /\ block' = block + 1 /\ inst' = 0
  /\ pc' = "block"
  /\ UNCHANGED <<unit, fn, count, size, total, n, label, pos, literals, refs, defined, pools>>

\* For PoolsNear: the pool of a block comes once.
OnceInBlock == inst' = BlockEvery

PoolInBlock == inst' % BlockEvery = 0

\* inst->output() and the pool after every BlockEvery-th instruction.
PrintInstruction ==
  /\ pc = "block" /\ inst < Current.size
  /\ inst' = inst + 1
  /\ LET loads == inst' \in DOMAIN Current.loads
         what == Current.loads[inst']
         L == literals \cup (IF loads /\ what = 0 THEN {pos} ELSE {})
     IN /\ refs' = IF ~loads THEN refs
                   ELSE refs \cup {[at |-> pos,
                          to |-> IF what = 0 THEN ConstantAt(pos)
                                 ELSE AddressLabel(unit.globals[what], n)]}
        /\ IF PoolInBlock
           THEN Pool(BlockLabel(label), BlockLabel(label), L, pos + 1) /\ label' = label + 1
           ELSE NoPool(L, pos + 1) /\ UNCHANGED label
  /\ UNCHANGED <<unit, fn, block, count, size, total, pc>>

\* For TypeOK: the counter goes on after a pool.
CountOn(c) == c

Restarted(c) == 0

\* The blocks of the function have more than FunctionEvery instructions.
EndBlock ==
  /\ pc = "block" /\ inst = Current.size
  /\ size' = size + Current.size
  /\ IF count + Current.size > FunctionEvery
     THEN FunctionPool(literals, pos) /\ count' = Restarted(count + Current.size)
     ELSE NoPool(literals, pos) /\ count' = count + Current.size
  /\ pc' = "function"
  /\ UNCHANGED <<unit, fn, block, inst, total, label, refs>>

\* The functions have more than UnitEvery instructions.
EndFunction ==
  /\ pc = "function" /\ block = Len(Function.blocks)
  /\ IF total + size > UnitEvery
     THEN FunctionPool(literals, pos) /\ total' = 0
     ELSE NoPool(literals, pos) /\ total' = total + size
  /\ pc' = "unit"
  /\ UNCHANGED <<unit, fn, block, inst, count, size, label, refs>>

\* The last PrintGlobalEnd; the assembler adds the constants that are left.
Finish ==
  /\ pc = "unit" /\ fn = Len(unit.functions)
  /\ defined' = defined \cup GlobalEnd(pos) \cup Constants(literals, pos + Len(unit.globals))
  /\ pos' = pos + Len(unit.globals) + Cardinality(literals)
  /\ literals' = {}
  /\ n' = NextNumber
  /\ pc' = "done"
  /\ UNCHANGED <<unit, fn, block, inst, count, size, total, label, refs, pools>>

Finished == pc = "done" /\ UNCHANGED vars

Next ==
  \/ BeginFunction \/ BeginBlock \/ PrintInstruction
  \/ EndBlock \/ EndFunction \/ Finish \/ Finished

Spec == Init /\ [][Next]_vars

-----------------------------------------------------------------------------
(* Properties *)

\* Types; between two blocks and two functions the counters are below the
\* sizes that call for a pool.
TypeOK ==
  /\ unit \in Units
  /\ fn \in 0 .. Len(unit.functions)
  /\ block \in Nat /\ inst \in Nat /\ size \in Nat
  /\ count \in 0 .. FunctionEvery /\ total \in 0 .. UnitEvery
  /\ n \in Nat /\ label \in Nat /\ pos \in Nat
  /\ literals \subseteq 0 .. pos - 1
  /\ \A r \in refs : r.at \in 0 .. pos - 1
  /\ \A d \in defined : d.at \in 0 .. pos
  /\ \A p \in pools : p.from \in 1 .. pos /\ p.to \in p.from .. pos
  /\ pc \in {"unit", "function", "block", "done"}

\* No global is called like another one followed by digits: a and a1 would
\* both have an addr_a11, of the pools 11 and 1.
NamesApart(G) ==
  \A i, j \in DOMAIN G : i # j /\ G[i][1] = G[j][1] =>
    ~ \E k \in 0 .. Len(G[j][2]) : G[i][2] = SubSeq(G[j][2], 1, k)

Found(r) == {d \in defined : d.label = r.to}

(***************************************************************************)
(* A load names its word by the number n has when it is printed, although  *)
(* three loops raise n.  The word with that name is in the next pool, and  *)
(* there is one of them.                                                   *)
(***************************************************************************)
AddressesFound ==
  /\ pc = "done" => \A r \in refs : \E d \in Found(r) : d.at > r.at
  /\ NamesApart(unit.globals) =>
       /\ \A d, e \in defined : d.label = e.label => d = e
       /\ \A r \in refs : \A d \in Found(r) :
            d.at > r.at /\ ~ \E p \in pools : r.at < p.from /\ p.to <= d.at

\* The branch in front of a pool leads behind it: its label is there, and
\* nowhere else in the text of all the functions.
PoolsSkipped ==
  \A p \in pools : {d.at : d \in {e \in defined : e.label = p.over}} = {p.to}

(***************************************************************************)
(* PoolsNear: a load is no further from its word than the three counters   *)
(* allow together: what was left of UnitEvery when the function began, of  *)
(* FunctionEvery when the block began, and the block, with what is printed *)
(* without being counted.  An ldr of the processor reaches 1025 words.     *)
(***************************************************************************)
Blocks(f) == {f.blocks[j] : j \in DOMAIN f.blocks}
Longest == Max({0} \cup {B.size : B \in UNION {Blocks(f) : f \in Range(unit.functions)}})

\* What is printed without being counted: the words of the first m prologues,
\* <<function, word>> ...
PrologueWords(m) == UNION {{i} \X (1 .. Prologue(unit.functions[i])) : i \in 1 .. m}

\* ... and the constants, <<function, block, place>>; the size of the frame is
\* loaded in front of the first block.
BlockConstants(i, j) ==
  LET loads == unit.functions[i].blocks[j].loads
  IN {<<i, j, k>> : k \in {l \in DOMAIN loads : loads[l] = 0}}
FrameConstant(i) == IF unit.functions[i].frame THEN {<<i, 0, 0>>} ELSE {}
FunctionConstants(i) ==
  FrameConstant(i) \cup UNION {BlockConstants(i, j) : j \in DOMAIN unit.functions[i].blocks}
UnitConstants == UNION {FunctionConstants(i) : i \in DOMAIN unit.functions}

Uncounted ==
  Cardinality(PrologueWords(Len(unit.functions))) + Cardinality(UnitConstants)

Demand ==
  UnitEvery + FunctionEvery + Min({Longest, BlockEvery}) + Uncounted + 1 + Len(unit.globals)

PoolsNear ==
  \A r \in refs : \/ pos <= r.at + Demand
                  \/ \E d \in Found(r) : d.at \in r.at + 1 .. r.at + Demand
=============================================================================
