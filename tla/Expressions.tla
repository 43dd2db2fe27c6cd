---------------------------- MODULE Expressions ----------------------------
(***************************************************************************)
(* Expressions over int and float: the semantic actions of src/src/        *)
(* parser.y choose the type of each node and calculate its value as far as *)
(* it is known, genCode (src/src/Ast.cpp) adds the conversions, and        *)
(* genMachineCode (src/src/Instruction.cpp) takes the instruction and the  *)
(* bank of registers.  The code of an expression is straight, so a step    *)
(* parses a node and runs its code at once; the stack holds the nodes that *)
(* have no parent yet.                                                     *)
(***************************************************************************)
EXTENDS MachineValues, Sequences, SequencesExt

\* Definitions marked "For P" are wrong variants of the definition below
\* them, each a slip the property P exists to catch.  Nothing uses them.

CONSTANTS
  Ints, Floats,   \* the literals
  Names,          \* the names a program may declare
  Calls, Items,   \* what a call, an array item may give: [type, v]
  Leaves,         \* the bound on the literals, names and calls of a program
  None            \* not a value of any kind

Types == {"i32", "float"}

\* A value of a type.
IsOf(type, v) == v \in -Largest .. Largest /\ As(type, v) = v

ASSUME LiteralsAssumption ==
  /\ \A v \in Ints : v >= 0 /\ IsOf("i32", v)
  /\ \A v \in Floats : v >= 0 /\ IsOf("float", v)
  /\ \A c \in Calls \cup Items : c.type \in Types /\ IsOf(c.type, c.v)
  /\ Leaves \in Nat

VARIABLES
  level,   \* 0 outside the functions
  left,    \* of the leaves
  stack,   \* the operands of the nodes without parent
  names,   \* what each name holds
  sink     \* what was returned, passed, tested or put in an array item last

vars == <<level, left, stack, names, sink>>

BankOf(type) == IF type = "float" THEN "s" ELSE "r"

\* The register of a type that an instruction has set.
Temp(type, word) == [type |-> type, bank |-> BankOf(type), word |-> word]

\* An operand: the kind of its symbol entry and the value kept there (fold);
\* the type of its register, and the word in it.  The rest is what C says: the
\* value (want), whether it is a constant expression that the parser knows
\* (static), and whether no part of it is a form the code gets wrong (sure).
Node(sym, fold, t, want, static, sure) ==
  [sym |-> sym, fold |-> fold, type |-> t.type, bank |-> t.bank, word |-> t.word,
   want |-> want, static |-> static, sure |-> sure]

-----------------------------------------------------------------------------
(* Machine instructions *)

\* genMachineOperand: an immediate is cut to an int, a temporary is the
\* general register with its number.
General(x) ==
  IF x.sym = "const" THEN WordOf("i32", Trunc(x.fold))
  ELSE IF x.bank = "r" THEN x.word ELSE Junk

\* genMachineFPOperand, with the LDR and VMOV that load an immediate.
Fp(x) ==
  IF x.type # "float" THEN General(x)
  ELSE IF x.sym = "const" THEN WordOf("float", Float(x.fold))
  ELSE IF x.bank = "s" THEN x.word ELSE Junk

\* The word in the register of x, or of the immediate x.
Operand(x) == IF x.type = "float" THEN Fp(x) ELSE General(x)

Constant(type, v) == [sym |-> "const", fold |-> v, type |-> type]

const_0 == Constant("i32", 0)
float_const_0 == Constant("float", 0)

\* The operand t in the place of x.
Replaced(x, t) == Node("temp", x.fold, t, x.want, x.static, x.sure)

\* TypefixInstruction.
FLOAT2INT(x) == Temp("i32", OnWords("float", Fp(x), Fp(x), WordOf("i32", Trunc(Fp(x).v))))

INT2FLOAT(x) == Temp("float", OnWords("int", General(x), General(x), WordOf("float", Float(General(x).v))))

BOOL2INT(x) == Temp("i32", General(x))

\* BinaryInstruction: VFP instructions if the result is a float; adding the
\* immediate 0 is a VMOV; a remainder is DIV, MUL and SUB.  A result outside
\* the numbers counted here is junk.
BinaryInstruction(op, type, x, y) ==
  LET float == type = "float"
      a == IF float THEN Fp(x) ELSE General(x)
      b == IF float THEN Fp(y) ELSE General(y)
      Do(o, v, w) == Calculated(o, type, v, w)
      result == IF op = "%" THEN Do("-", a.v, Do("*", Do("/", a.v, b.v), b.v)) ELSE Do(op, a.v, b.v)
  IN Temp(type,
       IF float /\ op = "+" /\ y.sym = "const" /\ y.fold = 0 THEN a
       ELSE IF (float /\ op = "%") \/ ~InRange(op, a.v, b.v) THEN Junk
       ELSE OnWords(IF float THEN "float" ELSE "int", a, b, WordOf(type, result)))

\* CmpInstruction: CMP or VCMP by the type of the first operand.
CmpInstruction(rel, x, y) ==
  LET a == Operand(x)
      b == IF x.type = "float" THEN Fp(y) ELSE General(y)
  IN Temp("i1", OnWords(IF x.type = "float" THEN "float" ELSE "int", a, b,
                        WordOf("i32", Truth(Holds(rel, a.v, b.v)))))

-----------------------------------------------------------------------------
(* Nodes *)

Init ==
  /\ level = 0 /\ left = Leaves
  /\ stack = << >> /\ names = [n \in Names |-> None] /\ sink = None

Push(x) ==
  /\ left > 0
  /\ left' = left - 1
  /\ stack' = Append(stack, x)
  /\ sink' = None
  /\ UNCHANGED <<level, names>>

Literal(type, v) ==
  Push(Node("const", v, Temp(type, Junk), v, TRUE, TRUE))

\* Id: the name is loaded, whatever is known of it.
UseName(n) ==
  /\ names[n] # None
  /\ LET e == names[n] IN
       Push(Node("name", e.fold, Temp(e.type, e.word), e.want, e.static, e.sure))

\* FunctionCall: its register has the type of the result, its symbol entry is
\* the function, of no number type and without a value.
Call(c) ==
  /\ level = 1
  /\ Push(Node("call", 0, Temp(c.type, WordOf(c.type, c.v)), c.v, FALSE, TRUE))

\* ArrayItem: the same, with the array for a symbol entry.
Item(c) ==
  /\ level = 1
  /\ Push(Node("item", 0, Temp(c.type, WordOf(c.type, c.v)), c.v, FALSE, TRUE))

Top == Last(stack)
Below == stack[Len(stack) - 1]

\* The last k operands become one.
Reduce(k, x) ==
  /\ stack' = Append(SubSeq(stack, 1, Len(stack) - k), x)
  /\ UNCHANGED <<level, left, names, sink>>

\* preSinExp of a literal: an int with the value negated, right for ints only.
NegateLiteral ==
  /\ stack # << >> /\ Top.sym = "const"
  /\ Reduce(1, [Top EXCEPT !.type = "i32", !.bank = "r", !.fold = -Top.fold, !.want = -Top.want,
                           !.sure = Top.sure /\ Top.type = "i32"])

\* Any other: 0 minus it.  The node has no value.  The symbol entry of the
\* node is left unset if the operand is a call or an item; not modelled.
Negate ==
  /\ stack # << >> /\ Top.sym \in {"temp", "name"}
  /\ LET t == CASE Top.type = "i1"    -> BinaryInstruction("-", "i32", const_0, Replaced(Top, BOOL2INT(Top)))
                [] Top.type = "float" -> BinaryInstruction("-", "float", float_const_0, Top)
                [] OTHER              -> BinaryInstruction("-", "i32", const_0, Top)
     IN Reduce(1, Node("temp", 0, t, -Top.want, FALSE, Top.sure))

\* A float that is cut to 0 although it is not 0.
Vanishes(x) == x.type = "float" /\ x.want # 0 /\ Trunc(x.want) = 0

\* !x: a float is converted to an int first.
Not ==
  /\ level = 1 /\ stack # << >>
  /\ LET x == IF Top.type = "float" THEN Replaced(Top, FLOAT2INT(Top)) ELSE Top
         b == Replaced(x, CmpInstruction("!=", x, const_0))
         t == CmpInstruction("==", IF Top.type = "i1" THEN x ELSE b, const_0)
     IN Reduce(1, Node("temp", 0, t, Truth(Top.want = 0), FALSE, Top.sure /\ ~Vanishes(Top)))

\* What C converts both operands to.
Usual(x, y) == IF x.type = "float" \/ y.type = "float" THEN "float" ELSE "i32"

\* For ValuesAgree: the type of the second operand is not looked at.
FirstType(x, y) == x.type

ResultType(x, y) == IF "float" \in {x.type, y.type} THEN "float" ELSE "i32"

\* For FoldsAgree: the quotient of two ints keeps its fraction.
Untruncated(x) == x.fold

\* What a node above x calculates with.
Val(x) == IF x.sym \notin {"call", "item"} /\ x.type \in {"i32", "i1"} THEN Trunc(x.fold) ELSE x.fold

\* The value of the node; a remainder is that of ints, and nothing is divided
\* by a value of 0.
Folded(op, x, y) ==
  CASE op \in {"+", "-"} -> Exact(op, Val(x), Val(y))
    [] op = "*" -> Float(Exact(op, Val(x), Val(y)))
    [] op = "/" -> IF y.fold = 0 THEN 0 ELSE Float(Exact(op, Val(x), Val(y)))
    [] op = "%" -> IF y.fold = 0 THEN 0 ELSE Exact(op, Trunc(x.fold), Trunc(y.fold))

\* The operand as the operator needs it.
Fixed(x, type) ==
  IF x.type = type THEN x
  ELSE Replaced(x, IF type = "i32" THEN FLOAT2INT(x) ELSE INT2FLOAT(x))

\* The sizes of numbers; SysY has no % of floats and no arithmetic on the
\* results of comparisons.  A parser that takes the remainder by a value
\* between 0 and 1 divides by 0 itself.
Calculable(op, x, y) ==
  /\ {x.type, y.type} \subseteq Types
  /\ op = "%" => {x.type, y.type} = {"i32"}
  /\ InRange(op, As(Usual(x, y), x.want), As(Usual(x, y), y.want))
  /\ op \in {"+", "-", "*"} \/ y.fold # 0 => InRange(op, Val(x), Val(y))

\* Sums and remainders of ints are calculated without a float.
Rounding(op, type) == type = "float" \/ op \in {"*", "/"}

Arithmetic(op) ==
  /\ Len(stack) > 1 /\ Calculable(op, Below, Top)
  /\ LET type == ResultType(Below, Top)
         usual == Usual(Below, Top)
         v == As(usual, Below.want)
         w == As(usual, Top.want)
         t == BinaryInstruction(op, type, Fixed(Below, type), Fixed(Top, type))
         static == Below.static /\ Top.static
     IN Reduce(2, Node("temp", Folded(op, Below, Top), t, Calculated(op, usual, v, w), static,
                       /\ Below.sure /\ Top.sure
                       /\ static => <<v, w>> = <<Below.want, Top.want>>
                       /\ static /\ Rounding(op, usual) => IsFloat(Exact(op, v, w))))

\* Operands of comparisons are ints or floats.
Compared(x) == IF x.type = "i1" THEN Replaced(x, BOOL2INT(x)) ELSE x

Compare(rel) ==
  /\ level = 1 /\ Len(stack) > 1
  /\ LET x == Compared(Below)  y == Compared(Top)
         type == IF x.type = y.type THEN x.type ELSE "float"
         t == CmpInstruction(rel, Fixed(x, type), Fixed(y, type))
         usual == Usual(Below, Top)
     IN Reduce(2, Node("temp", 0, t, Truth(Holds(rel, As(usual, Below.want), As(usual, Top.want))),
                       FALSE, Below.sure /\ Top.sure))

-----------------------------------------------------------------------------
(* What becomes of an expression *)

Complete == Len(stack) = 1
Value == stack[1]

\* The low half of the double, of which numbers of few bits use nothing.
LowHalf(type, v) == IF Magnitude(v) < 2^21 THEN WordOf(type, 0) ELSE Junk

\* .word of PrintGlobalDecl.
GlobalWord(type, const, v) ==
  CASE type = "i32" -> WordOf(type, Trunc(v))
    [] type = "float" /\ const -> WordOf(type, Float(v))
    [] OTHER -> LowHalf(type, v)

\* The value an initialiser gives: DeclStmt cuts it for an int, if the name is
\* not in a list.
Kept(type, x, list) == IF type = "i32" /\ ~list THEN Trunc(x.fold) ELSE x.fold

\* The fraction of an int quotient gets into a float.
Fraction(type, x) == type = "float" /\ x.type = "i32" /\ Trunc(x.fold) # x.fold

\* An int with more bits than a float is kept for a float as it is.
Fits(type, x) == type = "float" => IsFloat(x.want)

Declared(n, entry) ==
  /\ names[n] = None
  /\ names' = [names EXCEPT ![n] = entry]
  /\ stack' = << >>
  /\ UNCHANGED <<left, level, sink>>

DeclareGlobal(n, type, const, list) ==
  /\ level = 0
  /\ Complete /\ Value.static
  /\ Declared(n, [type |-> type, const |-> const, fold |-> Kept(type, Value, list),
       word |-> GlobalWord(type, const, Value.fold), want |-> As(type, Value.want),
       static |-> const /\ Fits(type, Value),
       sure |-> /\ Value.sure /\ ~Fraction(type, Value)
                /\ type = "float" => const \/ Value.fold = 0])

DeclareEmpty(n, type) ==
  /\ stack = << >>
  /\ Declared(n, [type |-> type, const |-> FALSE, fold |-> 0, want |-> 0, static |-> FALSE,
       word |-> IF level = 0 THEN WordOf(type, 0) ELSE Junk, sure |-> level = 0])

OpenFunction ==
  /\ level = 0 /\ stack = << >>
  /\ level' = 1
  /\ UNCHANGED <<left, stack, names, sink>>

\* For TypeOK: the value is stored as it is.
NotConverted(type, x) == Operand(x)

\* DeclStmt and AssignStmt convert to the type of the name, ReturnStmt to the
\* type of the function; StoreInstruction takes the bank of what it stores.
Converted(type, x) == Operand(Fixed(x, type))

\* SysY has no comparisons outside conditions.
Number == Complete /\ Value.type \in Types

DeclareLocal(n, type, const, list) ==
  /\ level = 1
  /\ Number /\ (const => Value.static)
  /\ Declared(n, [type |-> type, const |-> const, fold |-> Kept(type, Value, list),
       word |-> Converted(type, Value), want |-> As(type, Value.want),
       static |-> const /\ ~Fraction(type, Value) /\ Fits(type, Value), sure |-> Value.sure])

Assign(n) ==
  /\ level = 1 /\ Number /\ names[n] # None
  /\ LET type == names[n].type IN
       /\ ~names[n].const
       /\ names' = [names EXCEPT ![n] = [@ EXCEPT !.fold = Kept(type, Value, FALSE),
                      !.word = Converted(type, Value), !.want = As(type, Value.want),
                      !.sure = Value.sure]]
  /\ stack' = << >>
  /\ UNCHANGED <<left, level, sink>>

Arrives(type, word, want, sure) ==
  /\ sink' = [type |-> type, word |-> word, want |-> want, sure |-> Value.sure /\ sure]
  /\ stack' = << >>
  /\ UNCHANGED <<left, level, names>>

Return(type) ==
  level = 1 /\ Number /\ Arrives(type, Converted(type, Value), As(type, Value.want), TRUE)

\* AssignStmt converts to the type of the items.
AssignItem(type) ==
  level = 1 /\ Number /\ Arrives(type, Converted(type, Value), As(type, Value.want), TRUE)

\* A word in memory, read as a value of the type.
ReadAs(type, w) == OnWords(WordOf(type, 0).as, w, w, w)

\* The initialiser of a local array: an int is converted for a float item,
\* a float is stored in an int item as it is.
LocalItem(type) ==
  /\ level = 1 /\ Number
  /\ Arrives(type, ReadAs(type, Operand(IF type = "float" THEN Fixed(Value, type) ELSE Value)),
             As(type, Value.want), type = "float" \/ Value.type = "i32")

\* .word of a global array: literals as they are written, anything else as 0.
ItemDirective(type, x) ==
  IF x.sym # "const" \/ x.fold = 0 THEN WordOf(type, 0)
  ELSE IF x.type = "float" THEN LowHalf(type, x.fold)
  ELSE ReadAs(type, WordOf("i32", Trunc(x.fold)))

GlobalItem(type) ==
  /\ level = 0 /\ Complete /\ Value.static
  /\ Arrives(type, ItemDirective(type, Value), As(type, Value.want),
             \/ As(type, Value.want) = 0
             \/ Value.sym = "const" /\ {type, Value.type} = {"i32"})

\* FunctionCall converts bools, too, but passes the address of an array item
\* that has not the type of the parameter; CallInstruction moves by the type
\* of the parameter.
Addressed(type, x) == x.sym = "item" /\ x.type # type

Passed(type, x) ==
  LET int == IF x.type = "i1" THEN Replaced(x, BOOL2INT(x)) ELSE x
      y == Fixed(int, type)
  IN IF Addressed(type, x) THEN Junk ELSE IF type = "float" THEN Fp(y) ELSE General(y)

Argument(type) ==
  /\ level = 1 /\ Complete
  /\ Arrives(type, Passed(type, Value), As(type, Value.want), ~Addressed(type, Value))

\* The condition of an if or a while.
Test ==
  level = 1 /\ Complete /\
    LET x == IF Value.type = "float" THEN Replaced(Value, FLOAT2INT(Value)) ELSE Value
    IN Arrives("i1", IF x.type = "i1" THEN General(x) ELSE CmpInstruction("!=", x, const_0).word,
               Truth(Value.want # 0), ~Vanishes(Value))

\* For StoresAgree: a float is compared with the int 0.
IntZero(x) == const_0

Zero(x) == IF x.type = "float" THEN Replaced(x, INT2FLOAT(const_0)) ELSE const_0

\* An operand of && or ||: a float is compared as a float.
TestOperand ==
  level = 1 /\ Complete /\
    Arrives("i1", CmpInstruction("!=", Value, Zero(Value)).word, Truth(Value.want # 0), TRUE)

Next ==
  \/ \E v \in Ints : Literal("i32", v)
  \/ \E v \in Floats : Literal("float", v)
  \/ \E n \in Names : UseName(n)
  \/ \E c \in Calls : Call(c)
  \/ \E c \in Items : Item(c)
  \/ NegateLiteral \/ Negate \/ Not
  \/ \E op \in Operators : Arithmetic(op)
  \/ \E rel \in Relations : Compare(rel)
  \/ OpenFunction
  \/ \E n \in Names, type \in Types : DeclareEmpty(n, type)
  \/ \E n \in Names, type \in Types, const, list \in BOOLEAN : DeclareGlobal(n, type, const, list)
  \/ \E n \in Names, type \in Types, const, list \in BOOLEAN : DeclareLocal(n, type, const, list)
  \/ \E n \in Names : Assign(n)
  \/ \E type \in Types : Return(type)
  \/ \E type \in Types : AssignItem(type)
  \/ \E type \in Types : LocalItem(type)
  \/ \E type \in Types : GlobalItem(type)
  \/ \E type \in Types : Argument(type)
  \/ Test \/ TestOperand

Spec == Init /\ [][Next]_vars

-----------------------------------------------------------------------------
(* Properties *)

\* Types; an operand is in a register of the bank of its type, and what is
\* stored is of the type of where it is stored.
TypeOK ==
  /\ level \in 0 .. 1 /\ left \in 0 .. Leaves
  /\ \A i \in DOMAIN stack :
       LET x == stack[i] IN
         /\ x.sym \in {"const", "temp", "name", "call", "item"} /\ x.type \in Types \cup {"i1"}
         /\ x.bank = BankOf(x.type) /\ IsWord(x.word)
         /\ x.fold \in Int /\ x.want \in Int /\ {x.static, x.sure} \subseteq BOOLEAN
  /\ \A e \in {names[n] : n \in Names} \cup {sink} : e # None =>
       /\ e.type \in Types \cup {"i1"} /\ e.want \in Int /\ e.sure \in BOOLEAN
       /\ e.word \in {Junk, WordOf(e.type, e.word.v)}

(***************************************************************************)
(* The code of a node leaves the value that the node has in C in a         *)
(* register of its type, whatever ints and floats it is made of.           *)
(***************************************************************************)
ValuesAgree ==
  \A i \in DOMAIN stack :
    LET x == stack[i] IN
      x.sure => Operand(x) = WordOf(x.type, x.want)

(***************************************************************************)
(* The value the parser knows of a constant expression, read by the type   *)
(* of the node, is its value in C: what the sizes of arrays and the        *)
(* initialisers of globals are made of.                                    *)
(***************************************************************************)
Known(x) == x.static /\ x.sure => As(x.type, x.fold) = x.want

FoldsAgree ==
  /\ \A i \in DOMAIN stack : Known(stack[i])
  /\ \A n \in Names : names[n] # None => Known(names[n])

(***************************************************************************)
(* What a name holds, from its initialiser or the last assignment, what a  *)
(* function is passed and returns, what an array item is given, and what a *)
(* condition comes to, is the value in C, converted to the type of where   *)
(* it goes.                                                                *)
(***************************************************************************)
StoresAgree ==
  \A e \in {names[n] : n \in Names} \cup {sink} :
    e # None /\ e.sure => e.word = WordOf(e.type, e.want)
=============================================================================
