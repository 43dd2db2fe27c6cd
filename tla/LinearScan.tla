----------------------------- MODULE LinearScan -----------------------------
(***************************************************************************)
(* One call of LinearScan::linearScanRegisterAllocation                    *)
(* (src/src/LinearScan.cpp): the scan over the live intervals of a         *)
(* function that gives each of them a machine register or marks one for    *)
(* spilling.  RegAlloc.tla runs such rounds in sequence.                   *)
(***************************************************************************)
EXTENDS Integers, Sequences, Functions

\* Definitions marked "For P" are wrong variants of the definition below
\* them, each a slip the property P exists to catch.  Nothing uses them.

CONSTANTS
  IntRegs,   \* the general registers handed out, in the order of the list
  FpRegs,    \* the floating-point registers, numbered with an offset of 16
  Inputs     \* the lists of live intervals a round may be called with

FirstFpReg == 11   \* expireOldIntervals tells the banks apart by this number

Interval == [start : Int, end : Int, fp : BOOLEAN]

\* computeLiveIntervals ends by sorting the intervals by start.
SortedByStart(w) == \A i, j \in DOMAIN w : i < j => w[i].start <= w[j].start

ASSUME BanksAssumption ==
  /\ IntRegs \in Seq(1 .. FirstFpReg - 1)
  /\ FpRegs \in Seq(Nat \ (0 .. FirstFpReg - 1))
  /\ IntRegs # << >> /\ FpRegs # << >>
  /\ IsInjective(IntRegs) /\ IsInjective(FpRegs)

ASSUME InputsAssumption ==
  \A w \in Inputs : w \in Seq(Interval) /\ SortedByStart(w)

Bank(fp) == IF fp THEN Range(FpRegs) ELSE Range(IntRegs)

VARIABLES
  intervals,    \* the round's intervals, ascending by start
  regs,         \* free general registers: taken at the front, returned at the back
  fpregs,       \* free floating-point registers
  activelist,   \* positions in intervals, ascending by end
  rreg,         \* Interval::rreg; 0 before one is given
  spill,        \* Interval::spill
  success,      \* the value the round will return
  cur,          \* the interval the for loop has reached
  pc            \* "expire" and "place" in turn, then "done"

vars == <<intervals, regs, fpregs, activelist, rreg, spill, success, cur, pc>>

N == Len(intervals)
End(i) == intervals[i].end
Start(i) == intervals[i].start

\* The variables have their types; above all, a register that is returned
\* goes to the free list of its own bank.
TypeOK ==
  /\ intervals \in Seq(Interval) /\ SortedByStart(intervals)
  /\ regs \in Seq(Range(IntRegs))
  /\ fpregs \in Seq(Range(FpRegs))
  /\ activelist \in Seq(1 .. N)
  /\ rreg \in [1 .. N -> {0} \cup Range(IntRegs) \cup Range(FpRegs)]
  /\ spill \in [1 .. N -> BOOLEAN]
  /\ success \in BOOLEAN
  /\ cur \in 1 .. N + 1
  /\ pc \in {"done", "expire", "place"}
  /\ pc = "done" <=> cur = N + 1

(***************************************************************************)
(* The head of the function, on the list w computeLiveIntervals left: both *)
(* free lists are filled, the active list is empty, the loop starts.       *)
(***************************************************************************)
Init ==
  /\ intervals \in Inputs
  /\ rreg = [i \in 1 .. N |-> 0]
  /\ spill = [i \in 1 .. N |-> FALSE]
  /\ activelist = << >>
  /\ regs = IntRegs
  /\ fpregs = FpRegs
  /\ success = TRUE
  /\ cur = 1
  /\ pc = IF N = 0 THEN "done" ELSE "expire"

\* For NoNeedlessSpill: the sort inside the loop is forgotten.
SortForgotten(s) == {s}

(***************************************************************************)
(* std::sort by end: some rearrangement of s with ascending ends.  Equal   *)
(* ends may come out in any order.                                         *)
(***************************************************************************)
Permutation(n) == Bijection(1 .. n, 1 .. n)
SortedByEnd(s) ==
  {t \in {[i \in 1 .. Len(s) |-> s[p[i]]] : p \in Permutation(Len(s))} :
     \A i, j \in 1 .. Len(s) : i < j => End(t[i]) <= End(t[j])}

\* For VictimExists: the interval is not pushed.
NotActivated(i) == UNCHANGED activelist

\* push_back on the active list, then the sort.
Activate(i) == activelist' \in SortedByEnd(Append(activelist, i))

\* For NoClash: an interval that ends where the current one starts is expired.
ExpiredOrEnding(i) == End(i) <= Start(cur)

Expired(i) == End(i) < Start(cur)

\* For TypeOK: the last general register is filed as a float register.
IsGeneralOffByOne(r) == r < FirstFpReg - 1

IsGeneral(r) == r < FirstFpReg

(***************************************************************************)
(* expireOldIntervals, one turn of its loop: the first active interval     *)
(* ended before the current one starts, so it leaves the list and its      *)
(* register goes to the back of the free list its number belongs to.       *)
(***************************************************************************)
ExpireOldInterval ==
  /\ pc = "expire"
  /\ activelist # << >>
  /\ Expired(Head(activelist))
  /\ LET r == rreg[Head(activelist)] IN
       IF IsGeneral(r)
       THEN regs' = Append(regs, r) /\ UNCHANGED fpregs
       ELSE fpregs' = Append(fpregs, r) /\ UNCHANGED regs
  /\ activelist' = Tail(activelist)
  /\ UNCHANGED <<intervals, rreg, spill, success, cur, pc>>

\* The loop returns at the first interval that is still alive.
ExpireReturns ==
  /\ pc = "expire"
  /\ activelist # << >> => ~Expired(Head(activelist))
  /\ pc' = "place"
  /\ UNCHANGED <<intervals, regs, fpregs, activelist, rreg, spill, success, cur>>

FreeList(fp) == IF fp THEN fpregs ELSE regs
BankExhausted == FreeList(intervals[cur].fp) = << >>

NextInterval ==
  /\ cur' = cur + 1
  /\ pc' = IF cur = N THEN "done" ELSE "expire"

\* For SavedConsecutive: the list is used as a stack (back, pop_back).
Back(free) == free[Len(free)]

Taken(free) == Head(free)

\* The current interval takes the front of its bank's free list.
AssignRegister ==
  /\ pc = "place" /\ ~BankExhausted
  /\ LET fp == intervals[cur].fp IN
       /\ rreg' = [rreg EXCEPT ![cur] = Taken(FreeList(fp))]
       /\ IF fp
          THEN fpregs' = Tail(fpregs) /\ UNCHANGED regs
          ELSE regs' = Tail(regs) /\ UNCHANGED fpregs
  /\ Activate(cur)
  /\ NextInterval
  /\ UNCHANGED <<intervals, spill, success>>

(***************************************************************************)
(* spillAtInterval.  last is the back of the active list, whatever its     *)
(* bank; it stays in the list, so both it and the current interval will    *)
(* return the same register.                                               *)
(***************************************************************************)
\* For LatestEndSpilled: the front of the list is taken.
FirstActive == Head(activelist)

LastActive == activelist[Len(activelist)]

SpillLast ==
  /\ pc = "place" /\ BankExhausted /\ activelist # << >>
  /\ End(LastActive) > End(cur)
  /\ spill' = [spill EXCEPT ![LastActive] = TRUE]
  /\ rreg' = [rreg EXCEPT ![cur] = rreg[LastActive]]
  /\ Activate(cur)
  /\ success' = FALSE
  /\ NextInterval
  /\ UNCHANGED <<intervals, regs, fpregs>>

SpillCurrent ==
  /\ pc = "place" /\ BankExhausted /\ activelist # << >>
  /\ End(LastActive) <= End(cur)
  /\ spill' = [spill EXCEPT ![cur] = TRUE]
  /\ success' = FALSE
  /\ NextInterval
  /\ UNCHANGED <<intervals, regs, fpregs, activelist, rreg>>

Scan ==
  \/ ExpireOldInterval \/ ExpireReturns
  \/ AssignRegister \/ SpillLast \/ SpillCurrent

Returned == pc = "done" /\ UNCHANGED vars

Next == Scan \/ Returned

\* The scan is sequential code: it keeps running until it returns.
Spec == Init /\ [][Next]_vars /\ WF_vars(Scan)
-----------------------------------------------------------------------------
(***************************************************************************)
(* What the round promises.                                                *)
(***************************************************************************)
Placed(i) == i < cur /\ i \in 1 .. N

\* i and j are live at one instruction: j starts no later than i ends.
LiveTogether(i, j) == i < j /\ Start(j) <= End(i)

(***************************************************************************)
(* NoClash: while no interval had to be spilled, two intervals that are    *)
(* live together hold different registers.  The code never compares two    *)
(* intervals: it relies on the free lists and on the order in which        *)
(* expireOldIntervals finds the finished intervals.                        *)
(***************************************************************************)
NoClash ==
  success => \A i, j \in 1 .. N :
               Placed(i) /\ Placed(j) /\ LiveTogether(i, j) => rreg[i] # rreg[j]

(***************************************************************************)
(* OwnBank: while no interval had to be spilled, a float interval holds a  *)
(* float register and an integer interval a general one, although          *)
(* expireOldIntervals files a returned register by its number and not by   *)
(* the interval's fp_tag, and spillAtInterval ignores the bank.  TypeOK     *)
(* checks that each free list keeps to its bank; that this is enough is     *)
(* proved.                                                                 *)
(***************************************************************************)
OwnBank ==
  success => \A i \in 1 .. N : Placed(i) => rreg[i] \in Bank(intervals[i].fp)

(***************************************************************************)
(* VictimExists: spillAtInterval reads activelist.back() without looking   *)
(* whether the list is empty.  It never is: an exhausted bank means that   *)
(* its registers are held by active intervals, in failing rounds too,      *)
(* where one register is held, and returned, twice.                        *)
(***************************************************************************)
VictimExists == pc = "place" /\ BankExhausted => activelist # << >>

(***************************************************************************)
(* NoNeedlessSpill: the first spill of a round happens only under real     *)
(* pressure: every register of the bank is held by an interval of that     *)
(* bank that is alive where the current one starts.  (It fails as soon as  *)
(* expireOldIntervals stops early at an interval that is out of order.)    *)
(***************************************************************************)
NoNeedlessSpill ==
  success /\ pc = "place" /\ BankExhausted
    => \A r \in Bank(intervals[cur].fp) : \E i \in 1 .. cur - 1 :
         rreg[i] = r /\ intervals[i].fp = intervals[cur].fp /\ End(i) >= Start(cur)

(***************************************************************************)
(* LatestEndSpilled: the interval a step marks for spilling ends no        *)
(* earlier than the current interval and than every active one, as the     *)
(* comment of spillAtInterval says ("find the one that ends last").        *)
(***************************************************************************)
LatestEndSpilled ==
  [][\A i \in 1 .. N : spill'[i] /\ ~spill[i]
       => \A j \in Range(activelist) \cup {cur} : End(j) <= End(i)]_vars

(***************************************************************************)
(* SavedConsecutive: in a round that spills nothing the registers handed   *)
(* out are the first ones of their bank, whatever was returned in between. *)
(* modifyCode saves exactly these in the prologue, and the vpush there     *)
(* (src/src/MachineCode.cpp:863) can only encode consecutive registers.    *)
(***************************************************************************)
Given == {rreg[i] : i \in 1 .. cur - 1}
FirstOnes(B, n) == {B[k] : k \in 1 .. n}

SavedConsecutive ==
  success => \A B \in {IntRegs, FpRegs} :
               \E n \in 0 .. Len(B) : Given \cap Range(B) = FirstOnes(B, n)
=============================================================================
