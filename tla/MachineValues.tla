--------------------------- MODULE MachineValues ---------------------------
(***************************************************************************)
(* The numbers of SysY and the words the processor keeps them in.  A       *)
(* number is written as a count of quarters, so 10 is 2.5; an int is a     *)
(* multiple of Whole.  A word says how its bits are meant: the bits of the *)
(* float 2.0, read as an int, are not 2.                                   *)
(***************************************************************************)
EXTENDS Integers

Whole == 4

\* The numbers counted here go from -Largest to Largest.
Largest == 2^28

Magnitude(v) == IF v < 0 THEN -v ELSE v
Sign(v) == IF v < 0 THEN -1 ELSE 1

\* (int)v and VCVT.S32.F32: towards zero.
Trunc(v) == Sign(v) * (Magnitude(v) - (Magnitude(v) % Whole))

\* The distance between the numbers with 24 significant bits around m.
Step(m) ==
  CHOOSE s \in {2^k : k \in 0 .. 6} : m < s * 2^24 /\ (s = 1 \/ m >= s * 2^23)

\* (float)v: the nearest of these numbers, the even one of two.
Float(v) ==
  LET m == Magnitude(v)
      step == Step(m)
      up == \/ 2 * (m % step) > step
            \/ 2 * (m % step) = step /\ (m \div step) % 2 = 1
  IN Sign(v) * step * ((m \div step) + IF up THEN 1 ELSE 0)

\* A float has room for the number.
IsFloat(v) == Float(v) = v

Operators == {"+", "-", "*", "/", "%"}
Relations == {"<", "<=", ">", ">=", "==", "!="}

\* The exact result of an operator; the quotient of whole numbers has a
\* fraction.
Exact(op, v, w) ==
  CASE op = "+" -> v + w
    [] op = "-" -> v - w
    [] op = "*" -> Sign(v) * Sign(w) * ((Magnitude(v) * Magnitude(w)) \div Whole)
    [] op = "/" -> Sign(v) * Sign(w) * ((Magnitude(v) * Whole) \div Magnitude(w))
    [] op = "%" -> Sign(v) * (Magnitude(v) % Magnitude(w))

\* The result is one of the numbers counted here.
InRange(op, v, w) ==
  /\ op = "*" => Magnitude(v) <= 2^30 \div (Magnitude(w) + 1)
  /\ op = "*" => (Magnitude(v) * Magnitude(w)) % Whole = 0
  /\ op \in {"/", "%"} => w # 0
  /\ op = "/" => (Magnitude(v) * Whole) % Magnitude(w) = 0
  /\ Magnitude(Exact(op, v, w)) <= Largest

\* An operator of C on two values of one type.
Calculated(op, type, v, w) ==
  IF type = "float" THEN Float(Exact(op, v, w)) ELSE Trunc(Exact(op, v, w))

Holds(rel, v, w) ==
  CASE rel = "<"  -> v < w
    [] rel = "<=" -> v <= w
    [] rel = ">"  -> v > w
    [] rel = ">=" -> v >= w
    [] rel = "==" -> v = w
    [] rel = "!=" -> v # w

Truth(b) == IF b THEN Whole ELSE 0

\* A value of C converted to a type.
As(type, v) == IF type = "float" THEN Float(v) ELSE Trunc(v)

-----------------------------------------------------------------------------
Word(as, v) == [as |-> as, v |-> v]
Junk == Word("junk", 0)

IsWord(w) == w.as \in {"int", "float", "junk"} /\ w.v \in Int

\* The word of a value of a type.
WordOf(type, v) == Word(IF type = "float" THEN "float" ELSE "int", v)

\* An instruction on words that are meant as its operands, else junk.
OnWords(as, a, b, result) ==
  IF a.as = as /\ b.as = as THEN result ELSE Junk
=============================================================================
