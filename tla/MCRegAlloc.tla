----------------------------- MODULE MCRegAlloc -----------------------------
(***************************************************************************)
(* Functions for RegAlloc, with the operand objects that genMachineCode    *)
(* makes for them.  An instruction is written <<def, uses>>, and the       *)
(* object 10 * r + n is the n-th of virtual register r: where a number     *)
(* comes back, genMachineCode hands the object on; where it takes the next *)
(* one, it calls genMachineOperand again or copies the object.             *)
(***************************************************************************)
EXTENDS RegAlloc

MCIntRegs == <<8, 9, 10>>
MCFpRegs == <<21, 22, 23>>

\* The constructors call setParent on their operands: the parent of an object
\* is the last instruction made with it.
Layout(text, succ, fp) ==
  LET all == FlattenSeq(text)
      Before(b) == MapThenSumSet(LAMBDA c : Len(text[c]), 1 .. b - 1)
      Objects(t) == ({t[1]} \ {0}) \cup ToSet(t[2])
      objects == UNION {Objects(t) : t \in ToSet(all)}
      object == Ascending(objects, {x \in objects \X objects : x[1] < x[2]})
      Indices(S) == {i \in DOMAIN object : object[i] \in S}
      MakeInst(n) == [id |-> n, kind |-> "op", slot |-> 0,
                      def |-> Indices({all[n][1]}), use |-> Indices(ToSet(all[n][2]))]
  IN  [code   |-> [b \in DOMAIN text |-> [k \in DOMAIN text[b] |-> MakeInst(Before(b) + k)]],
       succ   |-> succ,
       reg    |-> [i \in DOMAIN object |-> object[i] \div 10],
       parent |-> [i \in DOMAIN object |-> Max({n \in DOMAIN all : object[i] \in Objects(all[n])})],
       ids    |-> Len(all),
       labels |-> Max({object[i] \div 10 : i \in DOMAIN object}),
       fp     |-> fp]

Get(o) == <<o, << >>>>           \* LDR o of a near variable or a constant
Step(o, x) == <<o, <<x>>>>       \* ADD o, fp, x and LDR o, [x]
Op(o, x, y) == <<o, <<x, y>>>>
Put(x) == <<0, <<x>>>>           \* STR x of a near variable, MOV r0, x
Put2(x, y) == <<0, <<x, y>>>>    \* STR x, [y] and CMP x, y
Branch == <<0, << >>>>

\* LDR t, =size; ADD sp, sp, t; POP; BX (Instruction.cpp:1350-1376)
Leave(t) == <<Get(t), Put(t), Branch>>

\* return a + (b + (c + 1))
ConstantSum == Layout(<< <<Get(10), Get(20), Get(30), Get(40), Op(50, 31, 40), Op(60, 21, 51),
                           Op(70, 11, 61), Put(71)>> \o Leave(80) >>, <<{}>>, {})

\* The same with floats: the constant is copied (Instruction.cpp:1038-1049).
FloatSum == Layout(<< <<Get(10), Get(20), Get(30), Get(40), Op(50, 31, 41), Op(60, 21, 51),
                        Op(70, 11, 61), Put(71)>> \o Leave(80) >>, <<{}>>, 1 .. 7)

\* A float waits, ending last, while the general registers run out.
Mixed == Layout(<< <<Get(10), Get(20), Get(30), Get(40), Op(50, 31, 41), Op(60, 21, 51),
                     Put(61), Put(11)>> \o Leave(70) >>, <<{}>>, {1})

\* return x + ((a < b) + (c < 1))
Comparisons == Layout(<< <<Get(10), Get(20), Get(30), Put2(21, 31), Get(40), Get(40),
                           Get(50), Get(60), Put2(51, 61), Get(70), Get(70),
                           Op(80, 41, 71), Op(90, 11, 81), Put(91)>> \o Leave(100) >>, <<{}>>, {})

\* far = x + far, with a variable more than 500 bytes from fp
FarVariable == Layout(<< <<Get(10), Get(20), Step(30, 20), Step(40, 30), Op(50, 11, 41),
                           Get(60), Step(70, 60), Put2(51, 70)>> \o Leave(80) >>, <<{}>>, {})

\* A value set before the loop and updated in it, and one that is read first
\* thing in every turn.
Loop == Layout(<< <<Get(10), Get(20), Branch>>,
                  <<Op(30, 21, 11), Get(40), Op(50, 31, 41), Op(24, 22, 51), Branch>>,
                  <<Put(23)>> \o Leave(60) >>,
               <<{2}, {2, 3}, {}>>, {})

\* One register defined on both branches, and a definition nobody reads.
Diamond == Layout(<< <<Get(10), Get(20), Get(60), Branch>>,
                     <<Get(30), Get(40), Op(50, 31, 41), Branch>>,
                     <<Op(51, 11, 21), Branch>>,
                     <<Op(70, 52, 12), Put(71), Put(22)>> \o Leave(80) >>,
                  <<{2, 3}, {4}, {4}, {}>>, {})

\* return a % (b + (c + 1)): the remainder's DIV and SUB share an object for
\* a, its DIV and MUL one for the divisor (Instruction.cpp:1162-1168).
Remainder == Layout(<< <<Get(10), Get(20), Get(30), Get(40), Op(50, 31, 40), Op(60, 21, 51),
                         Op(70, 11, 61), Op(80, 70, 61), Op(90, 11, 80), Put(91)>> \o Leave(100) >>,
                    <<{}>>, {})

\* return a[i] (Instruction.cpp:1716-1808): temp2, 30 here, is the address of
\* the array, saved in memory and read again.
Fetch == Layout(<< <<Get(10), Get(20), Step(30, 20), Put(30), Get(40), Op(50, 11, 40), Get(30),
                     Op(60, 30, 50), Step(70, 61), Put(71)>> \o Leave(80) >>, <<{}>>, {})

\* The remainder and the fetch are not Tidy, and the allocation fails for them.
MCRemainder == {Remainder}
MCFetch == {Fetch}

MCPrograms == {ConstantSum, FloatSum, Mixed, Comparisons, FarVariable, Loop, Diamond}

\* The theorems of RegAllocProofs are about functions like these.
ASSUME PlainFunctions == \A p \in MCPrograms : Tidy(p) /\ DefinedAbove(p)
=============================================================================
