------------------------- MODULE ExpressionsProofs --------------------------
(***************************************************************************)
(* Whatever ints and floats an expression is made of: the code leaves its  *)
(* value in a register of its type, the parser knows the value of constant *)
(* expressions, and what is stored, passed, returned and tested is the     *)
(* value converted to the type of where it goes.                           *)
(***************************************************************************)
EXTENDS Expressions, TLAPS

Small == -Largest .. Largest

-----------------------------------------------------------------------------
(* Numbers *)

LEMMA LargestFacts == Largest \in Nat /\ Largest % 64 = 0 /\ Largest < 2^29
BY SMT DEF Largest

\* A number and its negative.
LEMMA MagnitudeFacts ==
  ASSUME NEW v \in Int
  PROVE  /\ Magnitude(v) \in Nat /\ Sign(v) \in {-1, 1} /\ v = Sign(v) * Magnitude(v)
         /\ Magnitude(-v) = Magnitude(v) /\ (Magnitude(v) = 0 <=> v = 0)
         /\ (v # 0 => Sign(-v) = -Sign(v))
         /\ (v \in Small <=> Magnitude(v) <= Largest)
<1>1. PICK l \in Nat : l = Largest
  BY LargestFacts, SMT
<1> QED BY <1>1, SMT DEF Magnitude, Sign, Small

\* An int keeps its sign and loses its fraction.
LEMMA TruncFacts ==
  ASSUME NEW v \in Small
  PROVE  /\ Trunc(v) \in Small /\ Trunc(Trunc(v)) = Trunc(v) /\ Trunc(-v) = -Trunc(v)
         /\ (Trunc(v) = v <=> v % Whole = 0) /\ Magnitude(Trunc(v)) <= Magnitude(v)
<1>1. PICK l \in Nat : l = Largest
  BY LargestFacts, SMT
<1> QED BY <1>1, SMT DEF Small, Trunc, Magnitude, Sign, Whole

Rounded(m, s) ==
  s * ((m \div s) + IF 2 * (m % s) > s \/ (2 * (m % s) = s /\ (m \div s) % 2 = 1) THEN 1 ELSE 0)

IsStep(m, s) == m < s * 2^24 /\ (s = 1 \/ m >= s * 2^23)

\* Every number has one step.
LEMMA StepFacts ==
  ASSUME NEW m \in 0 .. Largest
  PROVE  Step(m) \in {1, 2, 4, 8, 16, 32, 64} /\ IsStep(m, Step(m))
<1>1. {2^k : k \in 0 .. 6} = {1, 2, 4, 8, 16, 32, 64}
  <2>1. 2^0 = 1 /\ 2^1 = 2 /\ 2^2 = 4 /\ 2^3 = 8 /\ 2^4 = 16 /\ 2^5 = 32 /\ 2^6 = 64
    BY SMT
  <2>2. \A k : k \in 0 .. 6 <=> k \in {0, 1, 2, 3, 4, 5, 6}
    BY SMT
  <2> QED BY <2>1, <2>2, SMT
<1>2. \E s \in {1, 2, 4, 8, 16, 32, 64} : IsStep(m, s)
  BY LargestFacts, SMT DEF IsStep
<1>3. Step(m) = CHOOSE s \in {1, 2, 4, 8, 16, 32, 64} : IsStep(m, s)
  BY <1>1, SMT DEF Step, IsStep
<1> HIDE DEF IsStep
<1> QED BY <1>2, <1>3, SMT

LEMMA StepsAgree ==
  ASSUME NEW m \in Nat, NEW s \in {1, 2, 4, 8, 16, 32, 64}, NEW t \in {1, 2, 4, 8, 16, 32, 64},
         IsStep(m, s), IsStep(m, t)
  PROVE  s = t
BY SMT DEF IsStep

\* A number s times k keeps its place.
LEMMA MultipleStays ==
  ASSUME NEW s \in {1, 2, 4, 8, 16, 32, 64}, NEW k \in Nat
  PROVE  s * k \in Nat /\ Rounded(s * k, s) = s * k
<1>1. (s * k) \div s = k /\ (s * k) % s = 0 /\ s * k \in Nat
  <2>1. CASE s = 1
    BY <2>1, SMT
  <2>2. CASE s = 2
    BY <2>2, SMT
  <2>3. CASE s = 4
    BY <2>3, SMT
  <2>4. CASE s = 8
    BY <2>4, SMT
  <2>5. CASE s = 16
    BY <2>5, SMT
  <2>6. CASE s = 32
    BY <2>6, SMT
  <2>7. CASE s = 64
    BY <2>7, SMT
  <2> QED BY <2>1, <2>2, <2>3, <2>4, <2>5, <2>6, <2>7, SMT
<1>2. Rounded(s * k, s) = s * (k + 0)
  <2>1. ~(2 * 0 > s) /\ ~(2 * 0 = s)
    BY SMT
  <2> QED BY <1>1, <2>1, SMT DEF Rounded
<1>3. k + 0 = k
  BY SMT
<1> QED BY <1>1, <1>2, <1>3, SMT

\* A rounded number is a number that rounding leaves as it is.
LEMMA RoundedFacts ==
  ASSUME NEW m \in 0 .. Largest, NEW s \in {1, 2, 4, 8, 16, 32, 64}, IsStep(m, s)
  PROVE  /\ Rounded(m, s) \in 0 .. Largest
         /\ \A t \in {1, 2, 4, 8, 16, 32, 64} :
              IsStep(Rounded(m, s), t) => Rounded(Rounded(m, s), t) = Rounded(m, s)
<1>1. PICK q \in Nat, r \in Nat : m = s * q + r /\ r < s /\ q = m \div s /\ r = m % s
  BY SMT
<1>2. PICK u \in {0, 1} : Rounded(m, s) = s * (q + u) /\ (u = 1 => 2 * r >= s)
  <2>1. CASE 2 * r > s \/ (2 * r = s /\ q % 2 = 1)
    BY <1>1, <2>1, SMT DEF Rounded
  <2>2. CASE ~(2 * r > s \/ (2 * r = s /\ q % 2 = 1))
    BY <1>1, <2>2, SMT DEF Rounded
  <2> QED BY <2>1, <2>2
<1>3. /\ s * (q + u) <= Largest
      /\ \/ IsStep(s * (q + u), s)
         \/ q + u = 2^24 /\ s <= 32
  <2>0. Largest = 2^28
    BY SMT DEF Largest
  <2>1. CASE s = 1
    BY <1>1, <1>2, <2>0, <2>1, SMT DEF IsStep
  <2>2. CASE s = 2
    BY <1>1, <1>2, <2>0, <2>2, SMT DEF IsStep
  <2>3. CASE s = 4
    BY <1>1, <1>2, <2>0, <2>3, SMT DEF IsStep
  <2>4. CASE s = 8
    BY <1>1, <1>2, <2>0, <2>4, SMT DEF IsStep
  <2>5. CASE s = 16
    BY <1>1, <1>2, <2>0, <2>5, SMT DEF IsStep
  <2>6. CASE s = 32
    BY <1>1, <1>2, <2>0, <2>6, SMT DEF IsStep
  <2>7. CASE s = 64
    BY <1>1, <1>2, <2>0, <2>7, SMT DEF IsStep
  <2> QED BY <2>1, <2>2, <2>3, <2>4, <2>5, <2>6, <2>7, SMT
<1>4. PICK k \in Nat : k = q + u
  BY SMT
<1>5. Rounded(m, s) = s * k /\ s * k \in Nat /\ Rounded(s * k, s) = s * k
  BY <1>2, <1>4, MultipleStays, SMT
<1>6. ASSUME NEW t \in {1, 2, 4, 8, 16, 32, 64}, IsStep(s * k, t) PROVE Rounded(s * k, t) = s * k
  <2>1. CASE IsStep(s * k, s)
    <3>1. s = t
      BY <1>5, <1>6, <2>1, StepsAgree, SMT
    <3> QED BY <1>5, <3>1, SMT
  <2>2. CASE k = 2^24 /\ s <= 32
    <3>1. PICK d \in {1, 2, 4, 8, 16, 32, 64} : d = 2 * s
      BY <2>2, SMT
    <3>2. s * k = d * 2^23 /\ IsStep(d * 2^23, d)
      BY <2>2, <3>1, SMT DEF IsStep
    <3>3. PICK h \in Nat : h = 2^23
      BY SMT
    <3>4. d = t
      BY <1>5, <1>6, <3>2, StepsAgree, SMT
    <3>5. Rounded(d * h, d) = d * h
      BY MultipleStays, SMT
    <3> QED BY <3>2, <3>3, <3>4, <3>5, SMT
  <2> QED BY <1>3, <1>4, <2>1, <2>2, SMT
<1>7. s * k <= Largest
  BY <1>3, <1>4, SMT
<1>8. Rounded(m, s) \in 0 .. Largest
  BY <1>5, <1>7, LargestFacts, SMT
<1> QED BY <1>5, <1>6, <1>8, SMT

\* Float, sign and magnitude apart.
LEMMA FloatParts ==
  ASSUME NEW v \in Small, NEW f \in Nat, f = Rounded(Magnitude(v), Step(Magnitude(v)))
  PROVE  Float(v) = (IF v < 0 THEN -f ELSE f)
<1>1. PICK m \in 0 .. Largest : m = Magnitude(v)
  BY MagnitudeFacts, LargestFacts, SMT DEF Small
<1>2. PICK s \in {1, 2, 4, 8, 16, 32, 64} : s = Step(m)
  BY StepFacts, SMT
<1>3. PICK a \in Int : /\ a = (m \div s) + IF 2 * (m % s) > s \/ (2 * (m % s) = s /\ (m \div s) % 2 = 1)
                                         THEN 1 ELSE 0
                       /\ f = s * a
  BY <1>1, <1>2, SMT DEF Rounded
<1>4. Float(v) = (Sign(v) * s) * a
  BY <1>1, <1>2, <1>3, SMT DEF Float
<1>5. CASE v < 0
  BY <1>3, <1>4, <1>5, SMT DEF Sign
<1>6. CASE ~(v < 0)
  BY <1>3, <1>4, <1>6, SMT DEF Sign
<1> QED BY <1>5, <1>6

\* A float is the float nearest to it; a number and its negative are rounded
\* alike.
LEMMA FloatFacts ==
  ASSUME NEW v \in Small
  PROVE  /\ Float(v) \in Small /\ Float(Float(v)) = Float(v) /\ Float(-v) = -Float(v)
         /\ Float(0) = 0
<1>1. PICK m \in 0 .. Largest : m = Magnitude(v) /\ m = Magnitude(-v) /\ -v \in Small
  BY MagnitudeFacts, LargestFacts, SMT DEF Small
<1>2. PICK s \in {1, 2, 4, 8, 16, 32, 64} : s = Step(m) /\ IsStep(m, s)
  BY StepFacts, SMT
<1>3. PICK f \in 0 .. Largest : f = Rounded(m, s)
  BY <1>2, RoundedFacts, SMT
<1>4. PICK t \in {1, 2, 4, 8, 16, 32, 64} : t = Step(f) /\ IsStep(f, t)
  BY StepFacts, SMT
<1>5. Rounded(f, t) = f
  BY <1>2, <1>3, <1>4, RoundedFacts, SMT
<1>6. PICK w \in Small : w = (IF v < 0 THEN -f ELSE f) /\ w = Float(v)
  <2>1. Float(v) = (IF v < 0 THEN -f ELSE f)
    <3>1. f = Rounded(Magnitude(v), Step(Magnitude(v))) /\ f \in Nat
      BY <1>1, <1>2, <1>3, LargestFacts, SMT
    <3> QED BY <3>1, FloatParts
  <2> QED BY <1>3, <2>1, LargestFacts, SMT DEF Small
<1>7. Float(w) = w
  <2>1. Magnitude(w) = f
    BY <1>3, <1>6, SMT DEF Magnitude
  <2>2. Float(w) = (IF w < 0 THEN -f ELSE f)
    BY <1>4, <1>5, <2>1, FloatParts, SMT
  <2> QED BY <1>3, <1>6, <2>2, SMT
<1>8. Float(-v) = -w
  <2>1. Float(-v) = (IF -v < 0 THEN -f ELSE f)
    BY <1>1, <1>2, <1>3, FloatParts, SMT
  <2>2. v = 0 => f = 0
    <3>1. v = 0 => m = 0
      BY <1>1, SMT DEF Magnitude
    <3>2. m = 0 => s = 1
      BY <1>2, SMT DEF IsStep
    <3>3. m = 0 => f = 0
      BY <1>3, <3>2, SMT DEF Rounded
    <3> QED BY <3>1, <3>3
  <2> QED BY <1>6, <2>1, <2>2, SMT DEF Small
<1>9. Float(0) = 0
  <2>1. 0 \in Small /\ Magnitude(0) = 0 /\ 0 \in 0 .. Largest
    BY LargestFacts, SMT DEF Small, Magnitude
  <2>2. Step(0) = 1
    BY <2>1, StepFacts, SMT DEF IsStep
  <2>3. Rounded(0, 1) = 0
    BY SMT DEF Rounded
  <2> QED BY <2>1, <2>2, <2>3, FloatParts, SMT
<1> QED BY <1>6, <1>7, <1>8, <1>9

\* A value converted to a type is a value of the type.
LEMMA AsFacts ==
  ASSUME NEW type, NEW v \in Small
  PROVE  /\ As(type, v) \in Small /\ As(type, As(type, v)) = As(type, v)
         /\ As(type, -v) = -As(type, v) /\ As(type, 0) = 0
<1>1. 0 \in Small /\ Trunc(0) = 0
  BY LargestFacts, SMT DEF Small, Trunc, Sign, Magnitude, Whole
<1>2. CASE type = "float"
  BY <1>2, FloatFacts DEF As
<1>3. CASE type # "float"
  BY <1>1, <1>3, TruncFacts DEF As
<1> QED BY <1>2, <1>3

\* Results of operators.
LEMMA CalculatedFacts ==
  ASSUME NEW op \in Operators, NEW v \in Int, NEW w \in Int, InRange(op, v, w)
  PROVE  /\ Exact(op, v, w) \in Small
         /\ \A type : /\ Calculated(op, type, v, w) = As(type, Exact(op, v, w))
                      /\ Calculated(op, type, v, w) \in Small
                      /\ As(type, Calculated(op, type, v, w)) = Calculated(op, type, v, w)
<1>1. PICK m \in Nat, n \in Nat, x \in {-1, 1}, y \in {-1, 1} :
        m = Magnitude(v) /\ n = Magnitude(w) /\ x = Sign(v) /\ y = Sign(w) /\ (n = 0 <=> w = 0)
  BY MagnitudeFacts, SMT
<1>2. Exact(op, v, w) \in Int
  <2>1. CASE op \in {"+", "-"}
    BY <2>1, SMT DEF Exact
  <2>2. CASE op = "*"
    <3>1. PICK a \in Nat : a = (m * n) \div Whole
      BY SMT DEF Whole
    <3>2. Exact(op, v, w) = x * y * a
      BY <1>1, <2>2, <3>1, SMT DEF Exact
    <3> QED BY <3>2, SMT
  <2>3. CASE op = "/"
    <3>1. w # 0
      BY <2>3 DEF InRange
    <3>2. PICK a \in Nat : a = (m * Whole) \div n
      BY <1>1, <3>1, SMT DEF Whole
    <3>3. Exact(op, v, w) = x * y * a
      BY <1>1, <2>3, <3>2, SMT DEF Exact
    <3> QED BY <3>3, SMT
  <2>4. CASE op = "%"
    <3>1. w # 0
      BY <2>4 DEF InRange
    <3>2. PICK a \in Nat : a = m % n
      BY <1>1, <3>1, SMT
    <3>3. Exact(op, v, w) = x * a
      BY <1>1, <2>4, <3>2, SMT DEF Exact
    <3> QED BY <3>3, SMT
  <2> QED BY <2>1, <2>2, <2>3, <2>4 DEF Operators
<1>3. Exact(op, v, w) \in Small
  BY <1>2, MagnitudeFacts DEF InRange
<1>4. ASSUME NEW type PROVE Calculated(op, type, v, w) = As(type, Exact(op, v, w))
  BY DEF Calculated, As
<1> QED BY <1>3, <1>4, AsFacts

LEMMA DividedUnique ==
  ASSUME NEW d \in Nat \ {0}, NEW q \in Nat, NEW r \in Nat, r < d
  PROVE  (d * q + r) \div d = q /\ (d * q + r) % d = r
BY SMT

LEMMA Divided ==
  ASSUME NEW d \in Nat \ {0}, NEW n \in Nat
  PROVE  \E q, r \in Nat : n = d * q + r /\ r < d /\ q = n \div d /\ r = n % d
BY SMT

LEMMA TimesGrows ==
  ASSUME NEW c \in Nat, NEW a \in Nat, NEW b \in Nat, a <= b
  PROVE  c * a <= c * b
BY SMT

LEMMA Wholes ==
  ASSUME NEW v \in Small, Trunc(v) = v
  PROVE  \E a \in Nat : Magnitude(v) = 4 * a /\ (v # 0 <=> a # 0)
<1>1. v % 4 = 0 /\ v \in Int
  BY TruncFacts, LargestFacts, SMT DEF Whole, Small
<1>2. PICK m \in Nat : m = Magnitude(v) /\ m % 4 = 0 /\ (m = 0 <=> v = 0)
  BY <1>1, SMT DEF Magnitude
<1>3. PICK a \in Nat : m = 4 * a
  BY <1>2, SMT
<1> QED BY <1>2, <1>3, SMT

\* A remainder by DIV, MUL and SUB.
LEMMA RemainderFacts ==
  ASSUME NEW v \in Small, NEW w \in Small, Trunc(v) = v, Trunc(w) = w, w # 0
  PROVE  Calculated("-", "i32", v, Calculated("*", "i32", Calculated("/", "i32", v, w), w))
           = Calculated("%", "i32", v, w)
<1>1. PICK a \in Nat, b \in Nat \ {0}, x \in {-1, 1}, y \in {-1, 1} :
        /\ Magnitude(v) = 4 * a /\ Magnitude(w) = 4 * b
        /\ x = Sign(v) /\ y = Sign(w) /\ v = x * (4 * a)
  <2>1. PICK a \in Nat, b \in Nat : Magnitude(v) = 4 * a /\ Magnitude(w) = 4 * b /\ b # 0
    BY Wholes
  <2>2. v \in Int /\ w \in Int
    BY LargestFacts, SMT DEF Small
  <2>3. PICK x \in {-1, 1}, y \in {-1, 1} : x = Sign(v) /\ y = Sign(w) /\ v = x * Magnitude(v)
    BY <2>2, MagnitudeFacts
  <2> QED BY <2>1, <2>3
<1>2. PICK k \in Nat, r \in Nat : a = b * k + r /\ r < b
  BY Divided
<1>3. PICK p \in Nat : p = b * k /\ a = p + r /\ 4 * b * k = 4 * p
  BY <1>2, SMT
<1>4. PICK q \in Nat : q = (4 * a * 4) \div (4 * b) /\ 4 * k <= q /\ q < 4 * k + 4
  <2>1. PICK q \in Nat, z \in Nat : 4 * a * 4 = (4 * b) * q + z /\ z < 4 * b /\ q = (4 * a * 4) \div (4 * b)
    <3>1. 4 * b \in Nat \ {0} /\ 4 * a * 4 \in Nat
      BY SMT
    <3> QED BY <3>1, Divided
  <2>2. PICK g \in Nat : g = b * q /\ 4 * g + z = 16 * a
    <3>1. PICK g \in Nat : g = b * q
      BY SMT
    <3>2. (4 * b) * q = 4 * g
      BY <3>1, SMT
    <3>3. 4 * a * 4 = 4 * g + z
      BY <2>1, <3>2
    <3> QED BY <3>1, <3>3, SMT
  <2>3. 4 * k <= q
    <3>1. SUFFICES ASSUME q + 1 <= 4 * k PROVE FALSE
      BY SMT
    <3>2. b * (q + 1) <= b * (4 * k)
      BY <3>1, TimesGrows, SMT
    <3>3. b * (q + 1) = g + b /\ b * (4 * k) = 4 * p
      BY <1>3, <2>2, SMT
    <3> QED BY <1>3, <2>1, <2>2, <3>2, <3>3, SMT
  <2>4. q < 4 * k + 4
    <3>1. SUFFICES ASSUME 4 * k + 4 <= q PROVE FALSE
      BY SMT
    <3>2. b * (4 * k + 4) <= b * q
      BY <3>1, TimesGrows, SMT
    <3>3. b * (4 * k + 4) = 4 * p + 4 * b
      BY <1>3, SMT
    <3> QED BY <1>2, <1>3, <2>1, <2>2, <3>2, <3>3, SMT
  <2> QED BY <2>1, <2>3, <2>4
<1>5. Calculated("/", "i32", v, w) = x * y * (4 * k)
  <2>1. Exact("/", v, w) = x * y * q
    BY <1>1, <1>4, SMT DEF Exact, Whole
  <2>2. q - (q % 4) = 4 * k
    <3>1. PICK z \in Nat : q = 4 * k + z /\ z < 4
      BY <1>4, SMT
    <3>2. q % 4 = z
      BY <3>1, DividedUnique
    <3> QED BY <3>1, <3>2, SMT
  <2>3. Trunc(x * y * q) = x * y * (4 * k)
    <3>1. PICK c \in {-1, 1} : c = x * y
      BY SMT
    <3>2. Trunc(c * q) = c * (q - (q % 4))
      BY SMT DEF Trunc, Sign, Magnitude, Whole
    <3> QED BY <2>2, <3>1, <3>2
  <2> QED BY <2>1, <2>3 DEF Calculated
<1>6. Calculated("*", "i32", x * y * (4 * k), w) = x * (4 * p)
  <2>1. PICK h \in Nat, c \in {-1, 1} :
          /\ h = Magnitude(x * y * (4 * k)) /\ c = Sign(x * y * (4 * k))
          /\ h = 4 * k /\ c * h = x * y * (4 * k) /\ (k # 0 => c = x * y)
    BY SMT DEF Magnitude, Sign
  <2>2. (h * (4 * b)) \div 4 = 4 * p
    <3>1. h * (4 * b) = 16 * p
      BY <1>3, <2>1, SMT
    <3> QED BY <3>1, SMT
  <2>3. Exact("*", x * y * (4 * k), w) = c * y * (4 * p)
    <3>1. PICK e : e = x * y * (4 * k)
      OBVIOUS
    <3>2. Exact("*", e, w) = Sign(e) * Sign(w) * ((Magnitude(e) * Magnitude(w)) \div 4)
      BY DEF Exact, Whole
    <3>3. Sign(e) = c /\ Sign(w) = y /\ Magnitude(e) = h /\ Magnitude(w) = 4 * b
      BY <1>1, <2>1, <3>1
    <3> QED BY <2>2, <3>1, <3>2, <3>3
  <2>4. c * y * (4 * p) = x * (4 * p)
    <3>1. CASE k = 0
      BY <1>3, <3>1, SMT
    <3>2. CASE k # 0
      BY <2>1, <3>2, SMT
    <3> QED BY <3>1, <3>2
  <2>5. Trunc(x * (4 * p)) = x * (4 * p)
    BY SMT DEF Trunc, Sign, Magnitude, Whole
  <2> QED BY <2>3, <2>4, <2>5 DEF Calculated
<1>7. Calculated("-", "i32", v, x * (4 * p)) = Trunc(x * (4 * r))
  <2>1. Exact("-", v, x * (4 * p)) = x * (4 * r)
    BY <1>1, <1>3, SMT DEF Exact
  <2> QED BY <2>1 DEF Calculated
<1>8. Calculated("%", "i32", v, w) = Trunc(x * (4 * r))
  <2>1. (4 * a) % (4 * b) = 4 * r
    <3>1. 4 * b \in Nat \ {0} /\ 4 * r \in Nat /\ 4 * r < 4 * b /\ 4 * a = (4 * b) * k + 4 * r
      BY <1>2, <1>3, SMT
    <3> QED BY <3>1, DividedUnique
  <2>2. Exact("%", v, w) = x * (4 * r)
    BY <1>1, <2>1, SMT DEF Exact
  <2> QED BY <2>2 DEF Calculated
<1> QED BY <1>5, <1>6, <1>7, <1>8

-----------------------------------------------------------------------------
(* Words and operands *)

AllTypes == Types \cup {"i1"}

\* A word that is junk or a value of the type.
IsWordOf(type, w) ==
  w = Junk \/ \E v \in Small : w = WordOf(type, v) /\ As(type, v) = v

\* What the parser knows of a constant expression.
FoldKnown(x) == IF x.type = "float" THEN x.fold = x.want ELSE Trunc(x.fold) = x.want

Syms == {"const", "temp", "name", "call", "item"}

\* A node: its operand is its value if no part of it is a form the code gets
\* wrong, and the parser knows the value of a constant expression.
GoodNode(x) ==
  /\ x.bank = BankOf(x.type) /\ x.fold \in Small /\ x.want \in Small
  /\ IsWordOf(x.type, x.word)
  /\ x.sym = "const" => x.static /\ x.fold = x.want /\ x.word = Junk
  /\ x.sym \in {"call", "item"} => ~x.static /\ x.fold = 0
  /\ x.type = "i1" => ~x.static /\ x.want \in {0, Whole}
  /\ x.sure => Operand(x) = WordOf(x.type, x.want)
  /\ x.static /\ x.sure => FoldKnown(x)

Words == [as : {"int", "float", "junk"}, v : Int]

Nodes ==
  {x \in [sym : Syms, fold : Int, type : AllTypes, bank : {"r", "s"}, word : Words,
          want : Int, static : BOOLEAN, sure : BOOLEAN] : GoodNode(x)}

\* Words of a type.
LEMMA WordFacts ==
  ASSUME NEW type, NEW v
  PROVE  /\ WordOf(type, v) # Junk /\ WordOf(type, v).v = v
         /\ WordOf(type, v).as = (IF type = "float" THEN "float" ELSE "int")
         /\ Junk.as = "junk" /\ Junk.v = 0
         /\ \A w : WordOf(type, v) = WordOf(type, w) => v = w
BY DEF WordOf, Word, Junk

\* A value converted to a type, in a word.
LEMMA AsWord ==
  ASSUME NEW type, NEW v \in Small
  PROVE  IsWordOf(type, WordOf(type, As(type, v))) /\ IsWordOf(type, Junk)
BY AsFacts DEF IsWordOf

\* The operand of a node, in any use that fits its type.
LEMMA OperandFacts ==
  ASSUME NEW x, x.type \in AllTypes, x.bank = BankOf(x.type), x.fold \in Small,
         x.sym = "const" => x.type \in Types,
         IsWordOf(x.type, x.word)
  PROVE  /\ IsWordOf(x.type, Operand(x))
         /\ Operand(x) = (IF x.type = "float" THEN Fp(x) ELSE General(x))
         /\ Operand(x) = (IF x.sym = "const" THEN WordOf(x.type, As(x.type, x.fold)) ELSE x.word)
<1>1. Operand(x) = (IF x.type = "float" THEN Fp(x) ELSE General(x))
  BY DEF Operand
<1>2. Operand(x) = (IF x.sym = "const" THEN WordOf(x.type, As(x.type, x.fold)) ELSE x.word)
  <2>1. CASE x.type = "float"
    BY <1>1, <2>1 DEF Fp, BankOf, As
  <2>2. CASE x.type # "float"
    <3>1. x.bank = "r" /\ (x.sym = "const" => x.type = "i32")
      BY <2>2 DEF BankOf, Types
    <3>2. Operand(x) = IF x.sym = "const" THEN WordOf("i32", Trunc(x.fold)) ELSE x.word
      BY <1>1, <2>2, <3>1 DEF General
    <3>3. As(x.type, x.fold) = Trunc(x.fold)
      BY <2>2 DEF As
    <3> QED BY <3>1, <3>2, <3>3
  <2> QED BY <2>1, <2>2
<1>3. IsWordOf(x.type, Operand(x))
  BY <1>2, AsWord
<1> QED BY <1>1, <1>2, <1>3

LEMMA SmallInt == Small \subseteq Int /\ 0 \in Small /\ Whole \in Small
<1>1. PICK l \in Nat : l = Largest /\ l >= 4
  BY SMT DEF Largest
<1> QED BY <1>1, SMT DEF Small, Whole

\* The operand of a node of the invariant.
LEMMA NodeOperand ==
  ASSUME NEW x \in Nodes
  PROVE  /\ IsWordOf(x.type, Operand(x))
         /\ Operand(x) = (IF x.type = "float" THEN Fp(x) ELSE General(x))
         /\ Operand(x) = (IF x.sym = "const" THEN WordOf(x.type, As(x.type, x.fold)) ELSE x.word)
         /\ x.sure => As(x.type, x.want) = x.want
<1>1. GoodNode(x) /\ x.type \in AllTypes /\ x.static \in BOOLEAN
  BY DEF Nodes
<1>2. x.sym = "const" => x.type \in Types
  BY <1>1 DEF GoodNode, AllTypes
<1>3. /\ IsWordOf(x.type, Operand(x))
      /\ Operand(x) = (IF x.type = "float" THEN Fp(x) ELSE General(x))
      /\ Operand(x) = (IF x.sym = "const" THEN WordOf(x.type, As(x.type, x.fold)) ELSE x.word)
  <2>1. /\ x.bank = BankOf(x.type) /\ x.fold \in Small /\ IsWordOf(x.type, x.word)
    BY <1>1 DEF GoodNode
  <2> QED BY <1>1, <1>2, <2>1, OperandFacts
<1>4. ASSUME x.sure PROVE As(x.type, x.want) = x.want
  <2>1. Operand(x) = WordOf(x.type, x.want)
    BY <1>1, <1>4 DEF GoodNode
  <2> QED BY <1>3, <2>1, WordFacts DEF IsWordOf
<1> QED BY <1>3, <1>4

LEMMA WordKinds ==
  ASSUME NEW type, NEW w, IsWordOf(type, w)
  PROVE  /\ w \in Words /\ w.v \in Small
         /\ w # Junk <=> w.as = (IF type = "float" THEN "float" ELSE "int")
         /\ w # Junk => w = WordOf(type, w.v) /\ As(type, w.v) = w.v
         /\ w.v = 0 \/ w # Junk
<1>1. CASE w = Junk
  BY <1>1, SmallInt DEF Junk, Word, Words
<1>2. CASE \E v \in Small : w = WordOf(type, v) /\ As(type, v) = v
  <2>1. PICK v \in Small : w = WordOf(type, v) /\ As(type, v) = v
    BY <1>2
  <2>2. w \in Words
    BY <2>1, SmallInt DEF WordOf, Word, Words
  <2>3. w # Junk /\ w.v = v /\ w.as = (IF type = "float" THEN "float" ELSE "int")
    BY <2>1, WordFacts
  <2> QED BY <2>1, <2>2, <2>3
<1> QED BY <1>1, <1>2 DEF IsWordOf

\* A node that is made.
LEMMA NodeMade ==
  ASSUME NEW sym \in Syms, NEW fold \in Small, NEW type \in AllTypes, NEW word,
         NEW want \in Small, NEW static \in BOOLEAN, NEW sure \in BOOLEAN,
         IsWordOf(type, word),
         sym = "const" => static /\ fold = want /\ word = Junk,
         sym \in {"call", "item"} => ~static /\ fold = 0,
         type = "i1" => ~static /\ want \in {0, Whole},
         sure => (IF sym = "const" THEN WordOf(type, As(type, fold)) ELSE word) = WordOf(type, want),
         static /\ sure => IF type = "float" THEN fold = want ELSE Trunc(fold) = want
  PROVE  Node(sym, fold, Temp(type, word), want, static, sure) \in Nodes
<1> DEFINE x == Node(sym, fold, Temp(type, word), want, static, sure)
<1>1. /\ x.sym = sym /\ x.fold = fold /\ x.type = type /\ x.bank = BankOf(type) /\ x.word = word
      /\ x.want = want /\ x.static = static /\ x.sure = sure
  BY DEF Node, Temp
<1>2. x \in [sym : Syms, fold : Int, type : AllTypes, bank : {"r", "s"}, word : Words,
             want : Int, static : BOOLEAN, sure : BOOLEAN]
  <2>1. BankOf(type) \in {"r", "s"} /\ word \in Words /\ fold \in Int /\ want \in Int
    BY WordKinds, SmallInt DEF BankOf
  <2> QED BY <2>1 DEF Node, Temp
<1> HIDE DEF x
<1>3. sym = "const" => type \in Types
  BY DEF AllTypes
<1>4. Operand(x) = (IF sym = "const" THEN WordOf(type, As(type, fold)) ELSE word)
  BY <1>1, <1>3, OperandFacts
<1>5. sure => Operand(x) = WordOf(type, want)
  BY <1>4
<1>6. static /\ sure => FoldKnown(x)
  BY <1>1 DEF FoldKnown
<1>7. GoodNode(x)
  BY <1>1, <1>5, <1>6 DEF GoodNode
<1>8. x \in Nodes
  BY <1>2, <1>7 DEF Nodes
<1> QED BY <1>8 DEF x

-----------------------------------------------------------------------------
(* Instructions *)

\* A node in the bank of the other type.
LEMMA ConversionFacts ==
  ASSUME NEW x \in Nodes
  PROVE  /\ x.type = "float" => /\ IsWordOf("i32", FLOAT2INT(x).word)
                                /\ FLOAT2INT(x) = Temp("i32", FLOAT2INT(x).word)
                                /\ x.sure => FLOAT2INT(x).word = WordOf("i32", Trunc(x.want))
         /\ x.type # "float" => /\ IsWordOf("float", INT2FLOAT(x).word)
                                /\ INT2FLOAT(x) = Temp("float", INT2FLOAT(x).word)
                                /\ x.sure => INT2FLOAT(x).word = WordOf("float", Float(x.want))
<1>1. IsWordOf(x.type, Operand(x)) /\ Operand(x) = (IF x.type = "float" THEN Fp(x) ELSE General(x))
  BY NodeOperand
<1>2. x.want \in Small /\ (x.sure => Operand(x) = WordOf(x.type, x.want))
  BY DEF Nodes, GoodNode
<1>3. CASE x.type = "float"
  <2> DEFINE w == FLOAT2INT(x).word
  <2>1. FLOAT2INT(x) = Temp("i32", w) /\ w = OnWords("float", Fp(x), Fp(x), WordOf("i32", Trunc(Fp(x).v)))
    BY DEF FLOAT2INT, Temp
  <2>2. IsWordOf("float", Fp(x)) /\ (x.sure => Fp(x) = WordOf("float", x.want))
    BY <1>1, <1>2, <1>3
  <2>3. w = Junk \/ w = WordOf("i32", As("i32", Fp(x).v))
    BY <2>1 DEF OnWords, As
  <2>4. IsWordOf("i32", w)
    BY <2>2, <2>3, WordKinds, AsWord
  <2>5. x.sure => w = WordOf("i32", Trunc(x.want))
    BY <2>1, <2>2, WordFacts DEF OnWords
  <2> QED BY <1>3, <2>1, <2>4, <2>5
<1>4. CASE x.type # "float"
  <2> DEFINE w == INT2FLOAT(x).word
  <2>1. INT2FLOAT(x) = Temp("float", w) /\ w = OnWords("int", General(x), General(x), WordOf("float", Float(General(x).v)))
    BY DEF INT2FLOAT, Temp
  <2>2. IsWordOf(x.type, General(x)) /\ (x.sure => General(x) = WordOf(x.type, x.want))
    BY <1>1, <1>2, <1>4
  <2>3. w = Junk \/ w = WordOf("float", As("float", General(x).v))
    BY <2>1 DEF OnWords, As
  <2>4. IsWordOf("float", w)
    BY <2>2, <2>3, WordKinds, AsWord
  <2>5. x.sure => w = WordOf("float", Float(x.want))
    BY <1>4, <2>1, <2>2, WordFacts DEF OnWords
  <2> QED BY <1>4, <2>1, <2>4, <2>5
<1> QED BY <1>3, <1>4

LEMMA ReplacedParts ==
  ASSUME NEW x, NEW type, NEW word, NEW y, y = Replaced(x, Temp(type, word))
  PROVE  /\ y.sym = "temp" /\ y.type = type /\ y.bank = BankOf(type) /\ y.word = word
         /\ y.want = x.want /\ y.sure = x.sure
         /\ type = "float" => Fp(y) = word
         /\ type # "float" => General(y) = word
         /\ Operand(y) = word
BY DEF Replaced, Node, Temp, Fp, General, BankOf, Operand

\* The operand as the operator needs it.
LEMMA FixedFacts ==
  ASSUME NEW x \in Nodes, x.type \in Types, NEW type \in Types, NEW y, y = Fixed(x, type)
  PROVE  /\ y.type = type
         /\ IsWordOf(type, Operand(y))
         /\ Operand(y) = (IF type = "float" THEN Fp(y) ELSE General(y))
         /\ x.sure => Operand(y) = WordOf(type, As(type, x.want))
         /\ y.sym = "const" => y = x
<1>1. /\ IsWordOf(x.type, Operand(x)) /\ Operand(x) = (IF x.type = "float" THEN Fp(x) ELSE General(x))
      /\ x.sure => As(x.type, x.want) = x.want /\ Operand(x) = WordOf(x.type, x.want)
  BY NodeOperand DEF Nodes, GoodNode
<1>2. CASE x.type = type
  <2>1. y = x
    BY <1>2 DEF Fixed
  <2> QED BY <1>1, <1>2, <2>1
<1>3. CASE x.type = "float" /\ type = "i32"
  <2> DEFINE w == FLOAT2INT(x).word
  <2>1. y = Replaced(x, Temp(type, w))
    BY <1>3, ConversionFacts DEF Fixed
  <2>2. IsWordOf(type, w) /\ (x.sure => w = WordOf(type, As(type, x.want)))
    BY <1>3, ConversionFacts DEF As
  <2> HIDE DEF w
  <2>3. y.type = type /\ Operand(y) = w /\ General(y) = w /\ y.sym # "const"
    BY <1>3, <2>1, ReplacedParts
  <2> QED BY <1>3, <2>2, <2>3
<1>4. CASE x.type = "i32" /\ type = "float"
  <2> DEFINE w == INT2FLOAT(x).word
  <2>1. y = Replaced(x, Temp(type, w))
    BY <1>4, ConversionFacts DEF Fixed
  <2>2. IsWordOf(type, w) /\ (x.sure => w = WordOf(type, As(type, x.want)))
    BY <1>4, ConversionFacts DEF As
  <2> HIDE DEF w
  <2>3. y.type = type /\ Operand(y) = w /\ Fp(y) = w /\ y.sym # "const"
    BY <1>4, <2>1, ReplacedParts
  <2> QED BY <1>4, <2>2, <2>3
<1> QED BY <1>2, <1>3, <1>4 DEF Types

\* A comparison in the place of an int.
LEMMA BoolFacts ==
  ASSUME NEW x \in Nodes, x.type = "i1", NEW y, y = Replaced(x, BOOL2INT(x))
  PROVE  y \in Nodes /\ y.type = "i32" /\ y.want = x.want /\ y.sure = x.sure /\ y.sym = "temp"
<1>1. /\ x.sym \in Syms /\ x.sure \in BOOLEAN /\ x.fold \in Small /\ x.want \in Small
      /\ x.static = FALSE /\ (x.sure => Operand(x) = WordOf("i1", x.want))
  BY DEF Nodes, GoodNode
<1>2. IsWordOf("i1", General(x)) /\ Operand(x) = General(x)
  BY NodeOperand
<1>3. IsWordOf("i32", General(x))
  BY <1>2 DEF IsWordOf, WordOf, As
<1>4. y = Node("temp", x.fold, Temp("i32", General(x)), x.want, FALSE, x.sure)
  BY <1>1 DEF Replaced, BOOL2INT
<1>5. x.sure => General(x) = WordOf("i32", x.want)
  BY <1>1, <1>2 DEF WordOf
<1>6. y \in Nodes
  <2>1. "temp" \in Syms /\ "i32" \in AllTypes
    BY DEF Syms, AllTypes, Types
  <2>2. Node("temp", x.fold, Temp("i32", General(x)), x.want, FALSE, x.sure) \in Nodes
    BY <1>1, <1>3, <1>5, <2>1, NodeMade
  <2> QED BY <1>4, <2>2
<1> QED BY <1>4, <1>6 DEF Node, Temp

\* The first or second operand of an instruction of a type.
Input(type, x) == IF type = "float" THEN Fp(x) ELSE General(x)

LEMMA ConstantFacts ==
  /\ General(const_0) = WordOf("i32", 0) /\ Fp(float_const_0) = WordOf("float", 0)
  /\ const_0.sym = "const" /\ const_0.fold = 0
  /\ const_0.type = "i32" /\ Fp(const_0) = WordOf("i32", 0)
<1>1. Trunc(0) = 0 /\ Float(0) = 0
  BY SmallInt, AsFacts DEF As
<1> QED BY <1>1 DEF const_0, float_const_0, Constant, General, Fp

LEMMA ZeroIsOf == \A type : IsWordOf(type, WordOf(type, 0))
BY SmallInt, AsFacts DEF IsWordOf

\* An instruction on two values of one type leaves the result of C.
LEMMA BinaryFacts ==
  ASSUME NEW op \in Operators, NEW type \in Types, NEW x, NEW y, NEW t,
         t = BinaryInstruction(op, type, x, y), type = "float" => op # "%",
         IsWordOf(type, Input(type, x)), IsWordOf(type, Input(type, y)),
         y.sym = "const" /\ y.fold = 0 => Input(type, y) = WordOf(type, 0)
  PROVE  /\ t = Temp(type, t.word) /\ IsWordOf(type, t.word)
         /\ \A v, w : Input(type, x) = WordOf(type, v) /\ Input(type, y) = WordOf(type, w) /\ InRange(op, v, w)
              => t.word = WordOf(type, Calculated(op, type, v, w))
<1> DEFINE float == type = "float"
           a == Input(type, x)
           b == Input(type, y)
           Do(o, v, w) == Calculated(o, type, v, w)
           result == IF op = "%" THEN Do("-", a.v, Do("*", Do("/", a.v, b.v), b.v)) ELSE Do(op, a.v, b.v)
           copied == float /\ op = "+" /\ y.sym = "const" /\ y.fold = 0
<1>1. t = Temp(type, IF copied THEN a
                     ELSE IF (float /\ op = "%") \/ ~InRange(op, a.v, b.v) THEN Junk
                     ELSE OnWords(IF float THEN "float" ELSE "int", a, b, WordOf(type, result)))
  BY DEF BinaryInstruction, Input
<1>2. t.type = type /\ t = Temp(type, t.word)
  BY <1>1 DEF Temp
<1>3. t.word = IF copied THEN a
               ELSE IF ~InRange(op, a.v, b.v) THEN Junk
               ELSE OnWords(IF float THEN "float" ELSE "int", a, b, WordOf(type, result))
  BY <1>1 DEF Temp
<1>4. ASSUME NEW v \in Small, NEW w \in Small, a = WordOf(type, v), b = WordOf(type, w),
             As(type, v) = v, As(type, w) = w, InRange(op, v, w)
      PROVE  t.word = WordOf(type, Do(op, v, w)) /\ IsWordOf(type, t.word)
  <2>1. a.v = v /\ b.v = w /\ a.as = (IF float THEN "float" ELSE "int") /\ b.as = a.as
    BY <1>4, WordFacts
  <2>2. Do(op, v, w) \in Small /\ As(type, Do(op, v, w)) = Do(op, v, w)
    BY <1>4, CalculatedFacts, SmallInt
  <2>3. CASE copied
    <3>1. w = 0
      BY <1>4, <2>3, WordFacts
    <3>2. Do(op, v, w) = As(type, v + 0)
      BY <2>3, <3>1 DEF Calculated, Exact, As
    <3>3. v + 0 = v
      BY SmallInt, SMT
    <3> QED BY <1>3, <1>4, <2>2, <2>3, <3>2, <3>3 DEF IsWordOf
  <2>4. CASE ~copied
    <3>1. result = Do(op, v, w)
      <4>1. CASE op = "%"
        <5>1. type = "i32" /\ w # 0 /\ Trunc(v) = v /\ Trunc(w) = w
          BY <1>4, <4>1 DEF InRange, Types, As
        <5> QED BY <2>1, <4>1, <5>1, RemainderFacts
      <4>2. CASE op # "%"
        BY <2>1, <4>2
      <4> QED BY <4>1, <4>2
    <3>2. t.word = OnWords(IF float THEN "float" ELSE "int", a, b, WordOf(type, result))
      BY <1>3, <1>4, <2>1, <2>4
    <3>3. t.word = WordOf(type, result)
      BY <2>1, <3>2 DEF OnWords
    <3> QED BY <2>2, <3>1, <3>3 DEF IsWordOf
  <2> QED BY <2>3, <2>4
<1>5. ASSUME NEW w, IsWordOf(type, w), w # Junk
      PROVE  w.v \in Small /\ w = WordOf(type, w.v) /\ As(type, w.v) = w.v
  BY <1>5, WordKinds
<1>6. IsWordOf(type, t.word)
  <2>1. CASE copied
    BY <1>3, <2>1
  <2>2. CASE ~copied /\ (~InRange(op, a.v, b.v) \/ a = Junk \/ b = Junk)
    <3>1. Junk.as \notin {"float", "int"}
      BY WordFacts
    <3>2. t.word = Junk
      BY <1>3, <2>2, <3>1 DEF OnWords
    <3> QED BY <3>2 DEF IsWordOf
  <2>3. CASE InRange(op, a.v, b.v) /\ a # Junk /\ b # Junk
    BY <1>4, <1>5, <2>3
  <2> QED BY <2>1, <2>2, <2>3
<1>7. ASSUME NEW v, NEW w, a = WordOf(type, v), b = WordOf(type, w), InRange(op, v, w)
      PROVE  t.word = WordOf(type, Do(op, v, w))
  <2>1. a # Junk /\ b # Junk /\ a.v = v /\ b.v = w
    BY <1>7, WordFacts
  <2> QED BY <1>4, <1>5, <1>7, <2>1
<1> QED BY <1>2, <1>6, <1>7

LEMMA TruthFacts ==
  /\ \A b : Truth(b) \in Small /\ Truth(b) \in {0, Whole} /\ Trunc(Truth(b)) = Truth(b)
  /\ \A b \in BOOLEAN : Truth(b) = 0 <=> ~b
<1>1. Whole # 0 /\ Trunc(Whole) = Whole
  BY SMT DEF Trunc, Sign, Magnitude, Whole
<1>2. Trunc(0) = 0
  BY SmallInt, AsFacts DEF As
<1>3. ASSUME NEW b PROVE Truth(b) = 0 \/ Truth(b) = Whole
  BY DEF Truth
<1> QED BY <1>1, <1>2, <1>3, SmallInt DEF Truth

\* A comparison leaves a truth.
LEMMA CmpFacts ==
  ASSUME NEW rel \in Relations, NEW x, NEW y, NEW t, t = CmpInstruction(rel, x, y)
  PROVE  /\ t = Temp("i1", t.word) /\ IsWordOf("i1", t.word)
         /\ \A v \in Small, w \in Small :
              Operand(x) = WordOf(x.type, v) /\ Input(x.type, y) = WordOf(x.type, w)
                => t.word = WordOf("i1", Truth(Holds(rel, v, w)))
<1> DEFINE a == Operand(x)
           b == Input(x.type, y)
           as == IF x.type = "float" THEN "float" ELSE "int"
           r == WordOf("i32", Truth(Holds(rel, a.v, b.v)))
<1>1. t = Temp("i1", OnWords(as, a, b, r))
  BY DEF CmpInstruction, Input
<1>2. t = Temp("i1", t.word) /\ t.word = OnWords(as, a, b, r)
  BY <1>1 DEF Temp
<1>3. r = WordOf("i1", Truth(Holds(rel, a.v, b.v)))
  BY DEF WordOf
<1>4. IsWordOf("i1", r)
  <2>1. PICK u : u = Truth(Holds(rel, a.v, b.v))
    OBVIOUS
  <2>2. u \in Small /\ As("i1", u) = u
    BY <2>1, TruthFacts DEF As
  <2> QED BY <1>3, <2>1, <2>2 DEF IsWordOf
<1>5. IsWordOf("i1", t.word)
  BY <1>2, <1>4 DEF OnWords, IsWordOf
<1>6. ASSUME NEW v \in Small, NEW w \in Small, a = WordOf(x.type, v), b = WordOf(x.type, w)
      PROVE  t.word = WordOf("i1", Truth(Holds(rel, v, w)))
  <2>1. a.v = v /\ b.v = w /\ a.as = as /\ b.as = as
    BY <1>6, WordFacts
  <2> QED BY <1>2, <1>3, <2>1 DEF OnWords
<1> QED BY <1>2, <1>5, <1>6

-----------------------------------------------------------------------------
(* What the parser knows *)

LEMMA ZeroStays == Trunc(0) = 0 /\ Float(0) = 0
<1>1. \A type : As(type, 0) = 0
  BY SmallInt, AsFacts
<1> QED BY <1>1 DEF As

\* What a node above x calculates with.
LEMMA ValFacts ==
  ASSUME NEW x \in Nodes, x.type \in Types
  PROVE  /\ Val(x) \in Small
         /\ x.type = "i32" => Val(x) = Trunc(x.fold)
         /\ x.static /\ x.sure => Val(x) = x.want
<1>1. x.fold \in Small /\ x.want \in Small /\ (x.sym \in {"call", "item"} => x.fold = 0 /\ ~x.static)
  BY DEF Nodes, GoodNode
<1>2. Trunc(x.fold) \in Small /\ Trunc(0) = 0
  BY <1>1, TruncFacts, ZeroStays
<1>3. Val(x) \in Small /\ (x.type = "i32" => Val(x) = Trunc(x.fold))
  BY <1>1, <1>2 DEF Val
<1>4. ASSUME x.static, x.sure PROVE Val(x) = x.want
  <2>1. FoldKnown(x) /\ x.type # "i1"
    BY <1>4 DEF Nodes, GoodNode
  <2>2. CASE x.type = "float"
    BY <2>1, <2>2 DEF FoldKnown, Val
  <2>3. CASE x.type = "i32"
    BY <1>3, <2>1, <2>3 DEF FoldKnown
  <2> QED BY <2>2, <2>3 DEF Types
<1> QED BY <1>3, <1>4

\* The value of a node above x and y.
LEMMA FoldedFacts ==
  ASSUME NEW op \in Operators, NEW x \in Nodes, NEW y \in Nodes, Calculable(op, x, y)
  PROVE  /\ Folded(op, x, y) \in Small
         /\ op \in {"+", "-"} => Folded(op, x, y) = Exact(op, Val(x), Val(y))
         /\ op = "*" => Folded(op, x, y) = Float(Exact(op, Val(x), Val(y)))
         /\ op = "/" /\ y.fold # 0 => Folded(op, x, y) = Float(Exact(op, Val(x), Val(y)))
         /\ op = "%" /\ y.fold # 0 => Folded(op, x, y) = Exact(op, Val(x), Val(y))
<1>1. Val(x) \in Int /\ Val(y) \in Int /\ x.type \in Types /\ y.type \in Types
  BY ValFacts, SmallInt DEF Calculable
<1>2. ASSUME op \in {"+", "-", "*"} \/ y.fold # 0
      PROVE  Exact(op, Val(x), Val(y)) \in Small /\ Float(Exact(op, Val(x), Val(y))) \in Small
  <2>1. InRange(op, Val(x), Val(y))
    BY <1>2 DEF Calculable
  <2> QED BY <1>1, <2>1, CalculatedFacts, FloatFacts
<1>3. CASE op = "+" \/ op = "-"
  <2>1. Folded(op, x, y) = Exact(op, Val(x), Val(y))
    BY <1>3 DEF Folded
  <2> QED BY <1>2, <1>3, <2>1
<1>4. CASE op = "*"
  <2>1. Folded(op, x, y) = Float(Exact(op, Val(x), Val(y)))
    BY <1>4 DEF Folded
  <2> QED BY <1>2, <1>4, <2>1
<1>5. CASE op = "/"
  <2>1. Folded(op, x, y) = IF y.fold = 0 THEN 0 ELSE Float(Exact(op, Val(x), Val(y)))
    BY <1>5 DEF Folded
  <2> QED BY <1>2, <1>5, <2>1, SmallInt
<1>6. CASE op = "%"
  <2>1. Folded(op, x, y) = IF y.fold = 0 THEN 0 ELSE Exact(op, Trunc(x.fold), Trunc(y.fold))
    BY <1>6 DEF Folded
  <2>2. x.type = "i32" /\ y.type = "i32"
    BY <1>1, <1>6 DEF Calculable
  <2>3. Val(x) = Trunc(x.fold) /\ Val(y) = Trunc(y.fold)
    BY <1>1, <2>2, ValFacts
  <2> QED BY <1>2, <1>6, <2>1, <2>3, SmallInt
<1> QED BY <1>3, <1>4, <1>5, <1>6 DEF Operators

\* The parser calculates what C does, if a float has room for it.
LEMMA FoldedRight ==
  ASSUME NEW op \in Operators, NEW x \in Nodes, NEW y \in Nodes, Calculable(op, x, y),
         x.static, y.static, x.sure, y.sure, NEW type, type = Usual(x, y),
         As(type, x.want) = x.want, As(type, y.want) = y.want, Rounding(op, type) => IsFloat(Exact(op, x.want, y.want))
  PROVE  LET fold == Folded(op, x, y)  want == Calculated(op, type, x.want, y.want)
         IN IF type = "float" THEN fold = want ELSE Trunc(fold) = want
<1> DEFINE exact == Exact(op, x.want, y.want)
<1>1. x.type \in Types /\ y.type \in Types /\ InRange(op, x.want, y.want)
  BY DEF Calculable
<1>2. Val(x) = x.want /\ Val(y) = y.want
  BY <1>1, ValFacts
<1>3. op \in {"/", "%"} => y.fold # 0
  <2>1. SUFFICES ASSUME op \in {"/", "%"}, y.fold = 0 PROVE FALSE
    OBVIOUS
  <2>2. y.want # 0
    BY <1>1, <2>1 DEF InRange
  <2>3. FoldKnown(y) /\ Trunc(0) = 0
    BY ZeroStays DEF Nodes, GoodNode
  <2> QED BY <2>1, <2>2, <2>3 DEF FoldKnown
<1>4. Calculated(op, type, x.want, y.want) = (IF type = "float" THEN Float(exact) ELSE Trunc(exact))
  BY DEF Calculated
<1>5. CASE Rounding(op, type)
  <2>1. Folded(op, x, y) = exact \/ Folded(op, x, y) = Float(exact)
    BY <1>2, <1>3, FoldedFacts DEF Operators
  <2> QED BY <1>5, <2>1, <1>4 DEF IsFloat
<1>6. CASE ~Rounding(op, type)
  <2>1. type # "float" /\ op \in {"+", "-", "%"}
    BY <1>6 DEF Rounding, Operators
  <2>2. Folded(op, x, y) = exact
    BY <1>2, <1>3, <2>1, FoldedFacts
  <2> QED BY <1>4, <2>1, <2>2
<1> QED BY <1>5, <1>6

-----------------------------------------------------------------------------
(* The inductive invariant *)

\* What a name holds.
GoodEntry(e) ==
  /\ e.fold \in Small /\ e.want \in Small /\ IsWordOf(e.type, e.word)
  /\ e.static => e.const
  /\ e.sure => e.word = WordOf(e.type, e.want)
  /\ e.static /\ e.sure => FoldKnown(e)

Entries ==
  {e \in [type : Types, const : BOOLEAN, fold : Int, word : Words, want : Int,
          static : BOOLEAN, sure : BOOLEAN] : GoodEntry(e)}

\* What arrives elsewhere.
Sinks ==
  {e \in [type : AllTypes, word : Words, want : Int, sure : BOOLEAN] :
     /\ e.want \in Small /\ IsWordOf(e.type, e.word)
     /\ e.sure => e.word = WordOf(e.type, e.want)}

IInv ==
  /\ level \in 0 .. 1 /\ left \in 0 .. Leaves
  /\ stack \in Seq(Nodes)
  /\ names \in [Names -> Entries \cup {None}]
  /\ sink \in Sinks \cup {None}

LEMMA TopFacts ==
  ASSUME stack \in Seq(Nodes)
  PROVE  /\ stack # << >> => Top \in Nodes /\ Len(stack) \in Nat \ {0}
         /\ Len(stack) > 1 => Top \in Nodes /\ Below \in Nodes
         /\ Complete => Value \in Nodes
BY DEF Top, Below, Last, Complete, Value

LEMMA ReduceKeeps ==
  ASSUME IInv, NEW k \in {1, 2}, Len(stack) >= k, NEW x \in Nodes, Reduce(k, x)
  PROVE  IInv'
<1>1. stack \in Seq(Nodes) /\ Len(stack) - k \in 0 .. Len(stack)
  BY DEF IInv
<1>2. SubSeq(stack, 1, Len(stack) - k) \in Seq(Nodes)
  BY <1>1
<1>3. stack' \in Seq(Nodes)
  BY <1>2 DEF Reduce
<1> QED BY <1>3 DEF IInv, Reduce

LEMMA PushKeeps ==
  ASSUME IInv, NEW x \in Nodes, Push(x)
  PROVE  IInv'
<1>1. stack' \in Seq(Nodes)
  BY DEF IInv, Push
<1>2. left' \in 0 .. Leaves
  BY LiteralsAssumption DEF IInv, Push
<1> QED BY <1>1, <1>2 DEF IInv, Push

LEMMA DeclaredKeeps ==
  ASSUME IInv, NEW n \in Names, NEW e \in Entries, Declared(n, e)
  PROVE  IInv'
<1>1. names' \in [Names -> Entries \cup {None}]
  BY DEF IInv, Declared
<1>2. stack' \in Seq(Nodes)
  BY DEF Declared
<1> QED BY <1>1, <1>2 DEF IInv, Declared

LEMMA ArrivesKeeps ==
  ASSUME IInv, NEW type \in AllTypes, NEW word, NEW want \in Small, NEW sure \in BOOLEAN,
         IsWordOf(type, word), Value.sure \in BOOLEAN,
         Value.sure /\ sure => word = WordOf(type, want),
         Arrives(type, word, want, sure)
  PROVE  IInv'
<1>1. word \in Words /\ want \in Int
  BY WordKinds, SmallInt
<1>2. sink' \in Sinks
  <2> DEFINE e == [type |-> type, word |-> word, want |-> want, sure |-> Value.sure /\ sure]
  <2>1. e \in [type : AllTypes, word : Words, want : Int, sure : BOOLEAN]
    BY <1>1
  <2>2. e.want \in Small /\ IsWordOf(e.type, e.word) /\ (e.sure => e.word = WordOf(e.type, e.want))
    OBVIOUS
  <2>3. e \in Sinks
    BY <2>1, <2>2 DEF Sinks
  <2> QED BY <2>3 DEF Arrives
<1>3. stack' \in Seq(Nodes)
  BY DEF Arrives
<1> QED BY <1>2, <1>3 DEF IInv, Arrives

-----------------------------------------------------------------------------
(* Leaves and operators *)

LEMMA ListedTypes == /\ Types \subseteq AllTypes /\ "i1" \in AllTypes
                     /\ {"temp", "const", "name", "call", "item"} \subseteq Syms
BY DEF AllTypes, Types, Syms

LEMMA LiteralKeeps ==
  ASSUME IInv, NEW type \in Types, NEW v, IsOf(type, v), Literal(type, v)
  PROVE  IInv'
<1> DEFINE x == Node("const", v, Temp(type, Junk), v, TRUE, TRUE)
<1>1. v \in Small /\ As(type, v) = v /\ type # "i1" /\ IsWordOf(type, Junk)
  BY DEF IsOf, Small, Types, IsWordOf
<1>2. IF type = "float" THEN v = v ELSE Trunc(v) = v
  BY <1>1 DEF As
<1>3. x \in Nodes
  BY <1>1, <1>2, ListedTypes, NodeMade
<1>4. Push(x)
  BY DEF Literal
<1> QED BY <1>3, <1>4, PushKeeps

LEMMA UseNameKeeps ==
  ASSUME IInv, NEW n \in Names, UseName(n)
  PROVE  IInv'
<1> DEFINE e == names[n]
           x == Node("name", e.fold, Temp(e.type, e.word), e.want, e.static, e.sure)
<1>1. Push(x)
  BY DEF UseName
<1>2. e \in Entries
  BY DEF IInv, UseName
<1>3. x \in Nodes
  <2> HIDE DEF e
  <2>1. /\ e.type \in Types /\ e.static \in BOOLEAN /\ e.sure \in BOOLEAN /\ GoodEntry(e)
    BY <1>2 DEF Entries
  <2>2. e.type # "i1" /\ e.fold \in Small /\ e.want \in Small /\ IsWordOf(e.type, e.word)
    BY <2>1 DEF Types, GoodEntry
  <2>3. e.sure => e.word = WordOf(e.type, e.want)
    BY <2>1 DEF GoodEntry
  <2>4. e.static /\ e.sure => IF e.type = "float" THEN e.fold = e.want ELSE Trunc(e.fold) = e.want
    BY <2>1 DEF GoodEntry, FoldKnown
  <2> QED BY <2>1, <2>2, <2>3, <2>4, ListedTypes, NodeMade
<1> QED BY <1>1, <1>3, PushKeeps

\* Calls and items.
LEMMA GivenKeeps ==
  ASSUME IInv, NEW sym \in {"call", "item"}, NEW c \in Calls \cup Items,
         Push(Node(sym, 0, Temp(c.type, WordOf(c.type, c.v)), c.v, FALSE, TRUE))
  PROVE  IInv'
<1>1. c.type \in Types /\ c.v \in Small /\ As(c.type, c.v) = c.v
  BY LiteralsAssumption DEF IsOf, Small
<1>2. IsWordOf(c.type, WordOf(c.type, c.v)) /\ c.type # "i1"
  BY <1>1 DEF IsWordOf, Types
<1>3. Node(sym, 0, Temp(c.type, WordOf(c.type, c.v)), c.v, FALSE, TRUE) \in Nodes
  BY <1>1, <1>2, ListedTypes, SmallInt, NodeMade
<1> QED BY <1>3, PushKeeps

LEMMA NegateLiteralKeeps ==
  ASSUME IInv, NegateLiteral
  PROVE  IInv'
<1>1. Top \in Nodes /\ Len(stack) >= 1 /\ Top.sym = "const"
  BY TopFacts DEF IInv, NegateLiteral
<1>2. PICK t \in Nodes : t = Top
  BY <1>1
<1> DEFINE x == [t EXCEPT !.type = "i32", !.bank = "r", !.fold = -t.fold, !.want = -t.want,
                          !.sure = t.sure /\ t.type = "i32"]
<1>3. /\ t.fold \in Small /\ t.want = t.fold /\ t.static = TRUE /\ t.sure \in BOOLEAN
      /\ t.word = Junk /\ t.sym = "const"
  BY <1>1, <1>2 DEF Nodes, GoodNode
<1>4. -t.fold \in Small
  BY <1>3, SmallInt, LargestFacts, SMT DEF Small
<1>5. ASSUME t.sure, t.type = "i32" PROVE Trunc(-t.fold) = -t.fold
  <2>1. As("i32", t.want) = t.want
    BY <1>5, NodeOperand
  <2>2. Trunc(t.fold) = t.fold
    BY <1>3, <2>1 DEF As
  <2> QED BY <1>3, <2>2, TruncFacts
<1>6. /\ x.sym = "const" /\ x.fold = -t.fold /\ x.type = "i32" /\ x.bank = "r" /\ x.word = Junk
      /\ x.want = -t.fold /\ x.static = TRUE /\ x.sure = (t.sure /\ t.type = "i32")
      /\ x \in [sym : Syms, fold : Int, type : AllTypes, bank : {"r", "s"}, word : Words,
                want : Int, static : BOOLEAN, sure : BOOLEAN]
  <2>1. PICK b \in BOOLEAN, f \in Int : b = (t.sure /\ t.type = "i32") /\ f = -t.fold /\ f = -t.want
    BY <1>3, <1>4, SmallInt
  <2>2. x = [t EXCEPT !.type = "i32", !.bank = "r", !.fold = f, !.want = f, !.sure = b]
    BY <2>1
  <2>3. "i32" \in AllTypes
    BY DEF AllTypes, Types
  <2> HIDE DEF x
  <2> QED BY <1>3, <2>1, <2>2, <2>3 DEF Nodes
<1>7. x \in Nodes
  <2> HIDE DEF x
  <2>1. IsWordOf("i32", Junk) /\ BankOf("i32") = "r" /\ "i32" # "i1" /\ "i32" \in Types
    BY DEF IsWordOf, BankOf, Types
  <2>2. Operand(x) = WordOf("i32", As("i32", x.fold))
    BY <1>4, <1>6, <2>1, OperandFacts DEF AllTypes
  <2>3. x.sure => Trunc(x.fold) = x.want
    BY <1>5, <1>6
  <2>4. GoodNode(x)
    BY <1>4, <1>6, <2>1, <2>2, <2>3 DEF GoodNode, FoldKnown, As
  <2> QED BY <1>6, <2>4 DEF Nodes
<1>8. Reduce(1, x)
  BY <1>2 DEF NegateLiteral
<1> QED BY <1>1, <1>7, <1>8, ReduceKeeps

\* What a sure node is: its operand, a value of its type.
LEMMA NodeFacts ==
  ASSUME NEW x \in Nodes
  PROVE  /\ x.sym \in Syms /\ x.type \in AllTypes /\ x.static \in BOOLEAN /\ x.sure \in BOOLEAN
         /\ x.fold \in Small /\ x.want \in Small
         /\ x.type = "i1" => ~x.static /\ x.want \in {0, Whole}
         /\ x.sym = "const" => x.static /\ x.fold = x.want
         /\ x.sure => Operand(x) = WordOf(x.type, x.want) /\ As(x.type, x.want) = x.want
         /\ x.static /\ x.sure => FoldKnown(x)
         /\ IsWordOf(x.type, Operand(x)) /\ Operand(x) = Input(x.type, x)
<1>1. x.sure => As(x.type, x.want) = x.want
  BY NodeOperand
<1>2. IsWordOf(x.type, Operand(x)) /\ Operand(x) = Input(x.type, x)
  BY NodeOperand DEF Input
<1> QED BY <1>1, <1>2 DEF Nodes, GoodNode

\* A temporary without a value that the parser knows.
LEMMA TemporaryMade ==
  ASSUME NEW type \in AllTypes, NEW word, NEW want \in Small, NEW sure \in BOOLEAN,
         IsWordOf(type, word), type = "i1" => want \in {0, Whole}, sure => word = WordOf(type, want)
  PROVE  Node("temp", 0, Temp(type, word), want, FALSE, sure) \in Nodes
BY ListedTypes, SmallInt, NodeMade

\* 0 minus a number.
LEMMA Minus ==
  ASSUME NEW v \in Small, NEW type, As(type, v) = v
  PROVE  -v \in Small /\ InRange("-", 0, v) /\ Calculated("-", type, 0, v) = -v
<1>1. -v \in Small /\ 0 - v = -v
  BY SmallInt, LargestFacts, SMT DEF Small
<1>2. Exact("-", 0, v) = -v
  BY <1>1 DEF Exact
<1>3. InRange("-", 0, v)
  <2>1. Magnitude(-v) <= Largest
    BY <1>1, SmallInt, MagnitudeFacts
  <2> QED BY <1>2, <2>1 DEF InRange
<1>4. As(type, -v) = -v
  BY AsFacts
<1> QED BY <1>1, <1>2, <1>3, <1>4 DEF Calculated, As

LEMMA NegateKeeps ==
  ASSUME IInv, Negate
  PROVE  IInv'
<1>1. Top \in Nodes /\ Len(stack) >= 1 /\ Top.sym \in {"temp", "name"}
  BY TopFacts DEF IInv, Negate
<1>2. PICK x \in Nodes : x = Top
  BY <1>1
<1> DEFINE t == CASE x.type = "i1"    -> BinaryInstruction("-", "i32", const_0, Replaced(x, BOOL2INT(x)))
                  [] x.type = "float" -> BinaryInstruction("-", "float", float_const_0, x)
                  [] OTHER            -> BinaryInstruction("-", "i32", const_0, x)
<1>3. Reduce(1, Node("temp", 0, t, -x.want, FALSE, x.sure))
  BY <1>2 DEF Negate
<1>4. ASSUME NEW type \in Types, NEW zero, NEW y \in Nodes, y.type = type, y.sym # "const",
             y.want = x.want, y.sure = x.sure,
             Input(type, zero) = WordOf(type, 0), t = BinaryInstruction("-", type, zero, y)
      PROVE  Node("temp", 0, t, -x.want, FALSE, x.sure) \in Nodes
  <2>1. IsWordOf(type, Input(type, y)) /\ (y.sure => Input(type, y) = WordOf(type, y.want) /\ As(type, y.want) = y.want)
    BY <1>4, NodeFacts
  <2>2. IsWordOf(type, Input(type, zero))
    BY <1>4, ZeroIsOf
  <2> HIDE DEF t
  <2>3. /\ t = Temp(type, t.word) /\ IsWordOf(type, t.word)
        /\ \A v, w : Input(type, zero) = WordOf(type, v) /\ Input(type, y) = WordOf(type, w) /\ InRange("-", v, w)
              => t.word = WordOf(type, Calculated("-", type, v, w))
    BY <1>4, <2>1, <2>2, BinaryFacts DEF Operators
  <2>4. x.sure => t.word = WordOf(type, -x.want)
    BY <1>4, <2>1, <2>3, Minus, NodeFacts
  <2>5. -x.want \in Small
    BY NodeFacts, SmallInt, LargestFacts, SMT DEF Small
  <2>6. Node("temp", 0, Temp(type, t.word), -x.want, FALSE, x.sure) \in Nodes
    BY <1>4, <2>3, <2>4, <2>5, NodeFacts, ListedTypes, TemporaryMade DEF Types
  <2> QED BY <2>3, <2>6
<1>5. CASE x.type = "i1"
  <2>1. PICK y \in Nodes : y = Replaced(x, BOOL2INT(x)) /\ y.type = "i32" /\ y.want = x.want /\ y.sure = x.sure /\ y.sym = "temp"
    BY <1>5, BoolFacts
  <2>2. t = BinaryInstruction("-", "i32", const_0, y)
    BY <1>5, <2>1
  <2>3. Input("i32", const_0) = WordOf("i32", 0)
    BY ConstantFacts DEF Input
  <2> HIDE DEF t
  <2>4. Node("temp", 0, t, -x.want, FALSE, x.sure) \in Nodes
    BY <1>4, <2>1, <2>2, <2>3 DEF Types
  <2> QED BY <1>1, <1>3, <2>4, ReduceKeeps
<1>6. CASE x.type = "float"
  <2>1. t = BinaryInstruction("-", "float", float_const_0, x)
    BY <1>6
  <2>2. Input("float", float_const_0) = WordOf("float", 0)
    BY ConstantFacts DEF Input
  <2> HIDE DEF t
  <2>3. Node("temp", 0, t, -x.want, FALSE, x.sure) \in Nodes
    BY <1>1, <1>2, <1>4, <1>6, <2>1, <2>2 DEF Types
  <2> QED BY <1>1, <1>3, <2>3, ReduceKeeps
<1>7. CASE x.type = "i32"
  <2>1. t = BinaryInstruction("-", "i32", const_0, x)
    BY <1>7
  <2>2. Input("i32", const_0) = WordOf("i32", 0)
    BY ConstantFacts DEF Input
  <2> HIDE DEF t
  <2>3. Node("temp", 0, t, -x.want, FALSE, x.sure) \in Nodes
    BY <1>1, <1>2, <1>4, <1>7, <2>1, <2>2 DEF Types
  <2> QED BY <1>1, <1>3, <2>3, ReduceKeeps
<1> QED BY <1>5, <1>6, <1>7, NodeFacts DEF AllTypes, Types

\* A number compared with the int 0.
LEMMA AgainstZero ==
  ASSUME NEW rel \in Relations, NEW x, x.type \in AllTypes, x.type # "float", NEW t,
         t = CmpInstruction(rel, x, const_0)
  PROVE  /\ t = Temp("i1", t.word) /\ IsWordOf("i1", t.word)
         /\ \A v \in Small : Operand(x) = WordOf(x.type, v) => t.word = WordOf("i1", Truth(Holds(rel, v, 0)))
<1>1. Input(x.type, const_0) = WordOf(x.type, 0)
  BY ConstantFacts DEF Input, WordOf
<1> QED BY <1>1, CmpFacts, SmallInt

\* A condition, as an int: a float is converted, and a float that is cut to 0
\* although it is not 0 is left out.
LEMMA AsCondition ==
  ASSUME NEW x \in Nodes, NEW y,
         y = (IF x.type = "float" THEN Replaced(x, FLOAT2INT(x)) ELSE x)
  PROVE  /\ y.type \in AllTypes /\ y.type # "float" /\ (x.type # "float" => y = x)
         /\ x.sure /\ ~Vanishes(x) =>
              \E v \in Small : Operand(y) = WordOf(y.type, v) /\ (v = 0 <=> x.want = 0)
<1>1. CASE x.type = "float"
  <2> DEFINE w == FLOAT2INT(x).word
  <2>1. y = Replaced(x, Temp("i32", w)) /\ (x.sure => w = WordOf("i32", Trunc(x.want)))
    BY <1>1, ConversionFacts
  <2> HIDE DEF w
  <2>2. y.type = "i32" /\ Operand(y) = w
    BY <2>1, ReplacedParts
  <2>3. Trunc(x.want) \in Small /\ Trunc(0) = 0
    BY NodeFacts, TruncFacts, ZeroStays
  <2>4. ~Vanishes(x) => (Trunc(x.want) = 0 <=> x.want = 0)
    BY <1>1, <2>3 DEF Vanishes
  <2> QED BY <1>1, <2>1, <2>2, <2>3, <2>4, ListedTypes DEF Types
<1>2. CASE x.type # "float"
  BY <1>2, NodeFacts
<1> QED BY <1>1, <1>2

LEMMA RelationNames == {"==", "!="} \subseteq Relations
BY DEF Relations

LEMMA NotKeeps ==
  ASSUME IInv, Not
  PROVE  IInv'
<1>1. Top \in Nodes /\ Len(stack) >= 1
  BY TopFacts DEF IInv, Not
<1>2. PICK n \in Nodes : n = Top
  BY <1>1
<1>3. PICK x : x = (IF n.type = "float" THEN Replaced(n, FLOAT2INT(n)) ELSE n)
  OBVIOUS
<1>4. PICK c : c = CmpInstruction("!=", x, const_0)
  OBVIOUS
<1>5. PICK b : b = Replaced(x, c)
  OBVIOUS
<1>6. PICK y : y = (IF n.type = "i1" THEN x ELSE b)
  OBVIOUS
<1>7. PICK t : t = CmpInstruction("==", y, const_0)
  OBVIOUS
<1>8. PICK want, sure : want = Truth(n.want = 0) /\ sure = (n.sure /\ ~Vanishes(n))
  OBVIOUS
<1>9. Reduce(1, Node("temp", 0, t, want, FALSE, sure))
  BY <1>2, <1>3, <1>4, <1>5, <1>6, <1>7, <1>8 DEF Not
<1>10. /\ x.type \in AllTypes /\ x.type # "float" /\ (n.type = "i1" => x = n)
       /\ sure => \E v \in Small : Operand(x) = WordOf(x.type, v) /\ (v = 0 <=> n.want = 0)
  <2>1. /\ x.type \in AllTypes /\ x.type # "float" /\ (n.type # "float" => x = n)
        /\ n.sure /\ ~Vanishes(n) =>
             \E v \in Small : Operand(x) = WordOf(x.type, v) /\ (v = 0 <=> n.want = 0)
    BY <1>3, AsCondition
  <2> QED BY <1>8, <2>1
<1>11. /\ c = Temp("i1", c.word) /\ IsWordOf("i1", c.word)
       /\ \A v \in Small : Operand(x) = WordOf(x.type, v) => c.word = WordOf("i1", Truth(Holds("!=", v, 0)))
  BY <1>4, <1>10, AgainstZero, RelationNames
<1>12. b.type = "i1" /\ Operand(b) = c.word
  BY <1>5, <1>11, ReplacedParts
<1>13. y.type \in AllTypes /\ y.type # "float"
  BY <1>6, <1>10, <1>12, ListedTypes
<1>14. /\ t = Temp("i1", t.word) /\ IsWordOf("i1", t.word)
       /\ \A v \in Small : Operand(y) = WordOf(y.type, v) => t.word = WordOf("i1", Truth(Holds("==", v, 0)))
  BY <1>7, <1>13, AgainstZero, RelationNames
<1>15. ASSUME sure PROVE t.word = WordOf("i1", want)
  <2>1. PICK v \in Small : /\ Operand(x) = WordOf(x.type, v) /\ (v = 0 <=> n.want = 0)
    BY <1>10, <1>15
  <2>2. CASE n.type = "i1"
    <3>1. t.word = WordOf("i1", Truth(v = 0))
      BY <1>6, <1>14, <2>1, <2>2 DEF Holds
    <3> QED BY <1>8, <2>1, <3>1 DEF Truth
  <2>3. CASE n.type # "i1"
    <3>1. Operand(y) = WordOf("i1", Truth(v # 0)) /\ y.type = "i1"
      BY <1>6, <1>11, <1>12, <2>1, <2>3 DEF Holds
    <3>2. t.word = WordOf("i1", Truth(Truth(v # 0) = 0))
      BY <1>14, <3>1, TruthFacts DEF Holds
    <3>3. Truth(v # 0) = 0 <=> v = 0
      BY TruthFacts
    <3> QED BY <1>8, <2>1, <3>2, <3>3 DEF Truth
  <2> QED BY <2>2, <2>3
<1>16. sure \in BOOLEAN /\ want \in Small /\ want \in {0, Whole}
  BY <1>8, NodeFacts, TruthFacts
<1>17. Node("temp", 0, t, want, FALSE, sure) \in Nodes
  <2>1. Node("temp", 0, Temp("i1", t.word), want, FALSE, sure) \in Nodes
    BY <1>14, <1>15, <1>16, ListedTypes, TemporaryMade
  <2> QED BY <1>14, <2>1
<1> QED BY <1>1, <1>9, <1>17, ReduceKeeps

\* The parser's type of an arithmetic node is that of C.
LEMMA UsualFacts ==
  ASSUME NEW x, NEW y, x.type \in Types, y.type \in Types
  PROVE  ResultType(x, y) = Usual(x, y) /\ Usual(x, y) \in Types
BY DEF ResultType, Usual, Types

LEMMA ArithmeticKeeps ==
  ASSUME IInv, NEW op \in Operators, Arithmetic(op)
  PROVE  IInv'
<1>1. Top \in Nodes /\ Below \in Nodes /\ Len(stack) >= 2
  BY TopFacts DEF IInv, Arithmetic
<1>2. PICK x \in Nodes, y \in Nodes : x = Below /\ y = Top
  BY <1>1
<1>3. PICK type : type = ResultType(x, y) /\ type = Usual(x, y)
  BY <1>2, UsualFacts DEF Arithmetic, Calculable
<1>4. PICK v, w, fold, want, static, sure, a, b, t :
        /\ v = As(type, x.want) /\ w = As(type, y.want)
        /\ a = Fixed(x, type) /\ b = Fixed(y, type) /\ t = BinaryInstruction(op, type, a, b)
        /\ fold = Folded(op, x, y) /\ want = Calculated(op, type, v, w)
        /\ static = (x.static /\ y.static)
        /\ sure = (/\ x.sure /\ y.sure
                   /\ static => <<v, w>> = <<x.want, y.want>>
                   /\ static /\ Rounding(op, type) => IsFloat(Exact(op, v, w)))
  OBVIOUS
<1>5. Reduce(2, Node("temp", fold, t, want, static, sure)) /\ Calculable(op, x, y)
  BY <1>2, <1>3, <1>4 DEF Arithmetic
<1>6. /\ x.type \in Types /\ y.type \in Types /\ type \in Types /\ (type = "float" => op # "%")
      /\ InRange(op, v, w)
  BY <1>3, <1>4, <1>5 DEF Calculable, Usual, Types
<1>7. v \in Small /\ w \in Small
  BY <1>4, NodeFacts, AsFacts
<1>8. /\ IsWordOf(type, Input(type, a)) /\ IsWordOf(type, Input(type, b))
      /\ x.sure => Input(type, a) = WordOf(type, v)
      /\ y.sure => Input(type, b) = WordOf(type, w)
  BY <1>4, <1>6, FixedFacts DEF Input
<1>9. b.sym = "const" /\ b.fold = 0 => Input(type, b) = WordOf(type, 0)
  <2>1. SUFFICES ASSUME b.sym = "const", b.fold = 0 PROVE Input(type, b) = WordOf(type, 0)
    OBVIOUS
  <2>2. b = y /\ y.type = type
    BY <1>4, <1>6, <2>1, FixedFacts
  <2>3. Operand(y) = WordOf(type, As(type, 0))
    BY <2>1, <2>2, NodeOperand
  <2> QED BY <2>2, <2>3, NodeFacts, SmallInt, AsFacts
<1>10. /\ t = Temp(type, t.word) /\ IsWordOf(type, t.word)
       /\ sure => t.word = WordOf(type, want)
  <2>1. /\ t = Temp(type, t.word) /\ IsWordOf(type, t.word)
        /\ Input(type, a) = WordOf(type, v) /\ Input(type, b) = WordOf(type, w)
             => t.word = WordOf(type, want)
    BY <1>4, <1>6, <1>8, <1>9, BinaryFacts
  <2> QED BY <1>4, <1>8, <2>1
<1>11. fold \in Small /\ want \in Small /\ static \in BOOLEAN /\ sure \in BOOLEAN
  <2>1. want \in Small
    BY <1>4, <1>6, <1>7, CalculatedFacts, SmallInt
  <2>2. fold \in Small
    BY <1>4, <1>5, FoldedFacts
  <2> QED BY <1>4, <2>1, <2>2, NodeFacts
<1>12. ASSUME static, sure PROVE IF type = "float" THEN fold = want ELSE Trunc(fold) = want
  <2>1. x.static /\ y.static /\ x.sure /\ y.sure /\ v = x.want /\ w = y.want /\ (Rounding(op, type) => IsFloat(Exact(op, v, w)))
    BY <1>4, <1>12
  <2>2. As(type, x.want) = x.want /\ As(type, y.want) = y.want
    BY <1>4, <2>1
  <2>3. Rounding(op, type) => IsFloat(Exact(op, x.want, y.want))
    BY <2>1
  <2>4. LET f == Folded(op, x, y)  g == Calculated(op, type, x.want, y.want)
        IN IF type = "float" THEN f = g ELSE Trunc(f) = g
    BY <1>3, <1>5, <2>1, <2>2, <2>3, FoldedRight
  <2> QED BY <1>4, <2>1, <2>4
<1>13. Node("temp", fold, t, want, static, sure) \in Nodes
  <2>1. type \in AllTypes /\ type # "i1" /\ "temp" \in Syms
    BY <1>6, ListedTypes DEF Types
  <2>2. Node("temp", fold, Temp(type, t.word), want, static, sure) \in Nodes
    BY <1>10, <1>11, <1>12, <2>1, NodeMade
  <2> QED BY <1>10, <2>2
<1> QED BY <1>1, <1>5, <1>13, ReduceKeeps

LEMMA ComparedFacts ==
  ASSUME NEW x \in Nodes, NEW y, y = Compared(x)
  PROVE  y \in Nodes /\ y.type \in Types /\ y.want = x.want /\ y.sure = x.sure
<1>1. CASE x.type = "i1"
  <2>1. y = Replaced(x, BOOL2INT(x))
    BY <1>1 DEF Compared
  <2> QED BY <1>1, <2>1, BoolFacts DEF Types
<1>2. CASE x.type # "i1"
  BY <1>2, NodeFacts DEF Compared, AllTypes
<1> QED BY <1>1, <1>2

LEMMA CompareKeeps ==
  ASSUME IInv, NEW rel \in Relations, Compare(rel)
  PROVE  IInv'
<1>1. Top \in Nodes /\ Below \in Nodes /\ Len(stack) >= 2
  BY TopFacts DEF IInv, Compare
<1>2. PICK m \in Nodes, n \in Nodes : m = Below /\ n = Top
  BY <1>1
<1>3. PICK x \in Nodes, y \in Nodes :
        /\ x = Compared(m) /\ y = Compared(n)
        /\ x.type \in Types /\ y.type \in Types
        /\ x.want = m.want /\ y.want = n.want /\ x.sure = m.sure /\ y.sure = n.sure
  BY ComparedFacts
<1>4. PICK type \in Types : type = (IF x.type = y.type THEN x.type ELSE "float") /\ type = Usual(m, n)
  <2>1. (x.type = "float" <=> m.type = "float") /\ (y.type = "float" <=> n.type = "float")
    BY <1>3, BoolFacts DEF Compared
  <2> QED BY <1>3, <2>1 DEF Types, Usual
<1>5. PICK a, b, t, v, w, want, sure :
        /\ a = Fixed(x, type) /\ b = Fixed(y, type) /\ t = CmpInstruction(rel, a, b)
        /\ v = As(type, m.want) /\ w = As(type, n.want)
        /\ want = Truth(Holds(rel, v, w)) /\ sure = (m.sure /\ n.sure)
  OBVIOUS
<1>6. Reduce(2, Node("temp", 0, t, want, FALSE, sure))
  BY <1>2, <1>3, <1>4, <1>5 DEF Compare
<1>7. /\ a.type = type
      /\ m.sure => Operand(a) = WordOf(a.type, v)
      /\ n.sure => Input(a.type, b) = WordOf(a.type, w)
  BY <1>3, <1>5, FixedFacts DEF Input
<1>8. v \in Small /\ w \in Small
  BY <1>5, NodeFacts, AsFacts
<1>9. t = Temp("i1", t.word) /\ IsWordOf("i1", t.word) /\ (sure => t.word = WordOf("i1", want))
  <2>1. /\ t = Temp("i1", t.word) /\ IsWordOf("i1", t.word)
        /\ Operand(a) = WordOf(a.type, v) /\ Input(a.type, b) = WordOf(a.type, w)
             => t.word = WordOf("i1", Truth(Holds(rel, v, w)))
    BY <1>5, <1>8, CmpFacts
  <2>2. sure => m.sure /\ n.sure
    BY <1>5
  <2> QED BY <1>5, <1>7, <2>1, <2>2
<1>10. want \in Small /\ want \in {0, Whole} /\ sure \in BOOLEAN
  BY <1>5, TruthFacts, NodeFacts
<1>11. Node("temp", 0, t, want, FALSE, sure) \in Nodes
  <2>1. Node("temp", 0, Temp("i1", t.word), want, FALSE, sure) \in Nodes
    BY <1>9, <1>10, ListedTypes, TemporaryMade
  <2> QED BY <1>9, <2>1
<1> QED BY <1>1, <1>6, <1>11, ReduceKeeps

-----------------------------------------------------------------------------
(* What becomes of an expression *)

LEMMA EntryMade ==
  ASSUME NEW type \in Types, NEW const \in BOOLEAN, NEW fold \in Small, NEW word,
         NEW want \in Small, NEW static \in BOOLEAN, NEW sure \in BOOLEAN,
         IsWordOf(type, word), static => const, sure => word = WordOf(type, want),
         static /\ sure => IF type = "float" THEN fold = want ELSE Trunc(fold) = want
  PROVE  [type |-> type, const |-> const, fold |-> fold, word |-> word, want |-> want,
          static |-> static, sure |-> sure] \in Entries
<1> DEFINE e == [type |-> type, const |-> const, fold |-> fold, word |-> word, want |-> want,
                 static |-> static, sure |-> sure]
<1>1. e \in [type : Types, const : BOOLEAN, fold : Int, word : Words, want : Int,
             static : BOOLEAN, sure : BOOLEAN]
  BY WordKinds, SmallInt
<1>2. /\ e.type = type /\ e.const = const /\ e.fold = fold /\ e.word = word /\ e.want = want
      /\ e.static = static /\ e.sure = sure
  OBVIOUS
<1> HIDE DEF e
<1>3. GoodEntry(e)
  BY <1>2 DEF GoodEntry, FoldKnown
<1>4. e \in Entries
  BY <1>1, <1>3 DEF Entries
<1> QED BY <1>4 DEF e

\* The value an initialiser gives, and the value of C.
LEMMA KeptFacts ==
  ASSUME NEW x \in Nodes, x.type \in Types, NEW type \in Types, NEW list \in BOOLEAN
  PROVE  /\ Kept(type, x, list) \in Small /\ As(type, x.want) \in Small
         /\ As(type, As(type, x.want)) = As(type, x.want)
         /\ x.static /\ x.sure /\ ~Fraction(type, x) =>
              /\ As(type, x.fold) = As(type, x.want)
              /\ type = "float" => x.fold = x.want
              /\ Fits(type, x) => IF type = "float" THEN Kept(type, x, list) = As(type, x.want)
                                  ELSE Trunc(Kept(type, x, list)) = As(type, x.want)
<1>1. x.fold \in Small /\ x.want \in Small /\ Trunc(x.fold) \in Small /\ Trunc(Trunc(x.fold)) = Trunc(x.fold)
  BY NodeFacts, TruncFacts
<1>2. Kept(type, x, list) \in Small /\ As(type, x.want) \in Small /\ As(type, As(type, x.want)) = As(type, x.want)
  BY <1>1, AsFacts DEF Kept
<1>3. ASSUME x.static, x.sure, ~Fraction(type, x)
      PROVE  /\ As(type, x.fold) = As(type, x.want)
             /\ type = "float" => x.fold = x.want
             /\ Fits(type, x) => IF type = "float" THEN Kept(type, x, list) = As(type, x.want)
                                 ELSE Trunc(Kept(type, x, list)) = As(type, x.want)
  <2>1. FoldKnown(x) /\ As(x.type, x.want) = x.want
    BY <1>3, NodeFacts
  <2>2. CASE type = "float"
    <3>1. x.fold = x.want
      <4>1. CASE x.type = "float"
        BY <2>1, <4>1 DEF FoldKnown
      <4>2. CASE x.type = "i32"
        BY <1>3, <2>1, <2>2, <4>2 DEF FoldKnown, Fraction
      <4> QED BY <4>1, <4>2 DEF Types
    <3>2. Kept(type, x, list) = x.fold
      BY <2>2 DEF Kept
    <3>3. Fits(type, x) => Float(x.want) = x.want
      BY <2>2 DEF Fits, IsFloat
    <3> QED BY <2>2, <3>1, <3>2, <3>3 DEF As
  <2>3. CASE type = "i32"
    <3>1. Trunc(x.fold) = Trunc(x.want)
      <4>1. CASE x.type = "float"
        BY <2>1, <4>1 DEF FoldKnown
      <4>2. CASE x.type = "i32"
        BY <2>1, <4>2 DEF FoldKnown, As
      <4> QED BY <4>1, <4>2 DEF Types
    <3>2. Trunc(Kept(type, x, list)) = Trunc(x.fold)
      BY <1>1, <2>3 DEF Kept
    <3> QED BY <2>3, <3>1, <3>2 DEF As
  <2> QED BY <2>2, <2>3 DEF Types
<1> QED BY <1>2, <1>3

\* A part of a float that is left out of its low half.
LEMMA LowHalfFacts ==
  ASSUME NEW type, NEW v
  PROVE  IsWordOf(type, LowHalf(type, v))
BY ZeroIsOf DEF LowHalf, IsWordOf

LEMMA LowHalfOfSmall ==
  ASSUME NEW type, NEW v \in Int, Magnitude(v) < 4
  PROVE  LowHalf(type, v) = WordOf(type, 0)
<1>1. Magnitude(v) < 2^21
  BY MagnitudeFacts, SMT
<1> QED BY <1>1 DEF LowHalf

LEMMA GlobalWordFacts ==
  ASSUME NEW x \in Nodes, x.type \in Types, x.static, NEW type \in Types, NEW const \in BOOLEAN
  PROVE  /\ IsWordOf(type, GlobalWord(type, const, x.fold))
         /\ x.sure /\ ~Fraction(type, x) /\ (type = "float" => const \/ x.fold = 0)
              => GlobalWord(type, const, x.fold) = WordOf(type, As(type, x.want))
<1>1. x.fold \in Small /\ x.want \in Small
  BY NodeFacts
<1>2. x.sure /\ ~Fraction(type, x) => As(type, x.fold) = As(type, x.want)
  BY KeptFacts
<1>3. CASE type = "i32" \/ (type = "float" /\ const)
  <2>1. GlobalWord(type, const, x.fold) = WordOf(type, As(type, x.fold))
    <3>1. CASE type = "i32"
      BY <3>1 DEF GlobalWord, As
    <3>2. CASE type = "float" /\ const
      BY <3>2 DEF GlobalWord, As
    <3> QED BY <1>3, <3>1, <3>2
  <2> QED BY <1>1, <1>2, <2>1, AsWord
<1>4. CASE type = "float" /\ ~const
  <2>1. GlobalWord(type, const, x.fold) = LowHalf(type, x.fold)
    BY <1>4 DEF GlobalWord
  <2>2. Magnitude(0) < 4
    BY SMT DEF Magnitude
  <2>3. x.fold = 0 => LowHalf(type, x.fold) = WordOf(type, 0)
    BY <2>2, LowHalfOfSmall, SmallInt
  <2>4. As(type, 0) = 0
    BY AsFacts, SmallInt
  <2>5. ASSUME x.sure, ~Fraction(type, x), x.fold = 0
        PROVE  GlobalWord(type, const, x.fold) = WordOf(type, As(type, x.want))
    <3>1. As(type, x.want) = 0
      BY <1>2, <2>4, <2>5
    <3> QED BY <2>1, <2>3, <2>5, <3>1
  <2> QED BY <1>4, <2>1, <2>5, LowHalfFacts
<1> QED BY <1>3, <1>4 DEF Types

LEMMA DeclareGlobalKeeps ==
  ASSUME IInv, NEW n \in Names, NEW type \in Types, NEW const \in BOOLEAN, NEW list \in BOOLEAN,
         DeclareGlobal(n, type, const, list)
  PROVE  IInv'
<1>1. PICK x \in Nodes : x = Value /\ x.static /\ x.type \in Types
  BY TopFacts, NodeFacts DEF IInv, DeclareGlobal, AllTypes
<1>2. PICK fold, word, want, static, sure :
        /\ fold = Kept(type, x, list) /\ word = GlobalWord(type, const, x.fold) /\ want = As(type, x.want)
        /\ static = (const /\ Fits(type, x))
        /\ sure = (/\ x.sure /\ ~Fraction(type, x)
                   /\ type = "float" => const \/ x.fold = 0)
  OBVIOUS
<1>3. Declared(n, [type |-> type, const |-> const, fold |-> fold, word |-> word, want |-> want,
                   static |-> static, sure |-> sure])
  BY <1>1, <1>2 DEF DeclareGlobal
<1>4. fold \in Small /\ want \in Small /\ static \in BOOLEAN /\ sure \in BOOLEAN /\ (static => const)
  <2>1. static \in BOOLEAN
    BY <1>2 DEF Fits, IsFloat
  <2>2. sure \in BOOLEAN
    BY <1>2, NodeFacts DEF Fraction
  <2> QED BY <1>1, <1>2, <2>1, <2>2, KeptFacts
<1>5. IsWordOf(type, word) /\ (sure => word = WordOf(type, want))
  BY <1>1, <1>2, GlobalWordFacts
<1>6. static /\ sure => IF type = "float" THEN fold = want ELSE Trunc(fold) = want
  <2>1. static /\ sure => x.sure /\ ~Fraction(type, x) /\ Fits(type, x)
    BY <1>2
  <2> QED BY <1>1, <1>2, <2>1, KeptFacts
<1>7. [type |-> type, const |-> const, fold |-> fold, word |-> word, want |-> want,
       static |-> static, sure |-> sure] \in Entries
  BY <1>4, <1>5, <1>6, EntryMade
<1> QED BY <1>3, <1>7, DeclaredKeeps

LEMMA DeclareEmptyKeeps ==
  ASSUME IInv, NEW n \in Names, NEW type \in Types, DeclareEmpty(n, type)
  PROVE  IInv'
<1>1. PICK word : word = IF level = 0 THEN WordOf(type, 0) ELSE Junk
  OBVIOUS
<1>2. PICK sure \in BOOLEAN : sure = (level = 0)
  OBVIOUS
<1>3. Declared(n, [type |-> type, const |-> FALSE, fold |-> 0, want |-> 0, static |-> FALSE,
                   word |-> word, sure |-> sure])
  BY <1>1, <1>2 DEF DeclareEmpty
<1>4. IsWordOf(type, word) /\ (sure => word = WordOf(type, 0))
  BY <1>1, <1>2, ZeroIsOf DEF IsWordOf
<1>5. [type |-> type, const |-> FALSE, fold |-> 0, word |-> word, want |-> 0,
       static |-> FALSE, sure |-> sure] \in Entries
  BY <1>4, SmallInt, EntryMade
<1> QED BY <1>3, <1>5, DeclaredKeeps

LEMMA ConvertedFacts ==
  ASSUME NEW x \in Nodes, x.type \in Types, NEW type \in Types
  PROVE  IsWordOf(type, Converted(type, x)) /\ (x.sure => Converted(type, x) = WordOf(type, As(type, x.want)))
BY FixedFacts DEF Converted

LEMMA NumberFacts ==
  ASSUME IInv, Number
  PROVE  \E x \in Nodes : x = Value /\ x.type \in Types
BY TopFacts DEF IInv, Number

LEMMA DeclareLocalKeeps ==
  ASSUME IInv, NEW n \in Names, NEW type \in Types, NEW const \in BOOLEAN, NEW list \in BOOLEAN,
         DeclareLocal(n, type, const, list)
  PROVE  IInv'
<1>1. PICK x \in Nodes : x = Value /\ x.type \in Types
  BY NumberFacts DEF DeclareLocal
<1>2. PICK fold, word, want, static :
        /\ fold = Kept(type, x, list) /\ word = Converted(type, x) /\ want = As(type, x.want)
        /\ static = (const /\ ~Fraction(type, x) /\ Fits(type, x))
  OBVIOUS
<1>3. Declared(n, [type |-> type, const |-> const, fold |-> fold, word |-> word, want |-> want,
                   static |-> static, sure |-> x.sure]) /\ (const => x.static)
  BY <1>1, <1>2 DEF DeclareLocal
<1>4. fold \in Small /\ want \in Small /\ static \in BOOLEAN /\ x.sure \in BOOLEAN /\ (static => const)
  <2>1. static \in BOOLEAN
    BY <1>2 DEF Fits, IsFloat, Fraction
  <2> QED BY <1>1, <1>2, <2>1, KeptFacts, NodeFacts
<1>5. IsWordOf(type, word) /\ (x.sure => word = WordOf(type, want))
  BY <1>1, <1>2, ConvertedFacts
<1>6. static /\ x.sure => IF type = "float" THEN fold = want ELSE Trunc(fold) = want
  <2>1. static => x.static /\ ~Fraction(type, x) /\ Fits(type, x)
    BY <1>2, <1>3
  <2> QED BY <1>1, <1>2, <2>1, KeptFacts
<1>7. [type |-> type, const |-> const, fold |-> fold, word |-> word, want |-> want,
       static |-> static, sure |-> x.sure] \in Entries
  BY <1>4, <1>5, <1>6, EntryMade
<1> QED BY <1>3, <1>7, DeclaredKeeps

LEMMA AssignKeeps ==
  ASSUME IInv, NEW n \in Names, Assign(n)
  PROVE  IInv'
<1>1. PICK x \in Nodes : x = Value /\ x.type \in Types
  BY NumberFacts DEF Assign
<1>2. PICK e \in Entries : e = names[n]
  BY DEF IInv, Assign
<1>3. PICK fold, word, want : /\ fold = Kept(e.type, x, FALSE) /\ word = Converted(e.type, x)
                              /\ want = As(e.type, x.want)
  OBVIOUS
<1>4. /\ e.type \in Types /\ e.const = FALSE /\ e.static = FALSE
      /\ e = [type |-> e.type, const |-> e.const, fold |-> e.fold, word |-> e.word, want |-> e.want,
              static |-> e.static, sure |-> e.sure]
  BY <1>2 DEF Entries, GoodEntry, Assign
<1>5. /\ names' = [names EXCEPT ![n] = [e EXCEPT !.fold = fold, !.word = word, !.want = want, !.sure = x.sure]]
      /\ stack' = << >> /\ UNCHANGED <<left, level, sink>>
  BY <1>1, <1>2, <1>3 DEF Assign
<1> DEFINE f == [e EXCEPT !.fold = fold, !.word = word, !.want = want, !.sure = x.sure]
<1>6. fold \in Small /\ want \in Small /\ x.sure \in BOOLEAN
  BY <1>1, <1>3, <1>4, KeptFacts, NodeFacts
<1>7. IsWordOf(e.type, word) /\ (x.sure => word = WordOf(e.type, want))
  BY <1>1, <1>3, <1>4, ConvertedFacts
<1>8. f \in Entries
  <2>1. word \in Words /\ fold \in Int /\ want \in Int
    BY <1>6, <1>7, WordKinds, SmallInt
  <2>2. f \in [type : Types, const : BOOLEAN, fold : Int, word : Words, want : Int,
               static : BOOLEAN, sure : BOOLEAN]
    BY <1>6, <2>1 DEF Entries
  <2>3. /\ f.type = e.type /\ f.const = e.const /\ f.static = e.static
        /\ f.fold = fold /\ f.word = word /\ f.want = want /\ f.sure = x.sure
    BY DEF Entries
  <2> HIDE DEF f
  <2>4. GoodEntry(f)
    BY <1>4, <1>6, <1>7, <2>3 DEF GoodEntry
  <2> QED BY <2>2, <2>4 DEF Entries
<1> HIDE DEF f
<1>9. names' \in [Names -> Entries \cup {None}]
  <2>1. names' = [names EXCEPT ![n] = f]
    BY <1>5 DEF f
  <2> QED BY <1>8, <2>1 DEF IInv
<1>10. stack' \in Seq(Nodes)
  BY <1>5
<1> QED BY <1>5, <1>9, <1>10 DEF IInv

LEMMA ReturnKeeps ==
  ASSUME IInv, NEW type \in Types,
         \/ Return(type)
         \/ AssignItem(type)
  PROVE  IInv'
<1>1. /\ Number
      /\ Arrives(type, Converted(type, Value), As(type, Value.want), TRUE)
  BY DEF Return, AssignItem
<1>2. PICK x \in Nodes : x = Value /\ x.type \in Types
  BY <1>1, NumberFacts
<1>3. /\ IsWordOf(type, Converted(type, x)) /\ As(type, x.want) \in Small /\ x.sure \in BOOLEAN
      /\ x.sure => Converted(type, x) = WordOf(type, As(type, x.want))
  BY <1>2, ConvertedFacts, KeptFacts, NodeFacts
<1> QED BY <1>1, <1>2, <1>3, ListedTypes, ArrivesKeeps

\* A word in memory, read as a value of a type.
LEMMA ReadFacts ==
  ASSUME NEW type \in Types, NEW stored \in Types, NEW w, IsWordOf(stored, w)
  PROVE  IsWordOf(type, ReadAs(type, w)) /\ (stored = type => ReadAs(type, w) = w)
<1>1. WordOf(type, 0).as = (IF type = "float" THEN "float" ELSE "int") /\ Junk.as = "junk"
  BY WordFacts
<1>2. w = Junk \/ w.as = (IF stored = "float" THEN "float" ELSE "int")
  BY WordKinds
<1>3. ReadAs(type, w) = (IF w.as = WordOf(type, 0).as THEN w ELSE Junk)
  BY DEF ReadAs, OnWords
<1>4. CASE stored = type
  BY <1>1, <1>2, <1>3, <1>4
<1>5. CASE stored # type
  <2>1. ReadAs(type, w) = Junk
    BY <1>1, <1>2, <1>3, <1>5 DEF Types
  <2> QED BY <1>5, <2>1 DEF IsWordOf
<1> QED BY <1>4, <1>5

LEMMA LocalItemKeeps ==
  ASSUME IInv, NEW type \in Types, LocalItem(type)
  PROVE  IInv'
<1>1. PICK x \in Nodes : x = Value /\ x.type \in Types
  BY NumberFacts DEF LocalItem
<1>2. PICK y, word, want : /\ y = (IF type = "float" THEN Fixed(x, type) ELSE x)
                           /\ word = ReadAs(type, Operand(y)) /\ want = As(type, x.want)
  OBVIOUS
<1>3. PICK sure \in BOOLEAN : sure = (type = "float" \/ x.type = "i32")
  OBVIOUS
<1>4. Arrives(type, word, want, sure)
  BY <1>1, <1>2, <1>3 DEF LocalItem
<1>5. want \in Small /\ x.sure \in BOOLEAN
  BY <1>1, <1>2, KeptFacts, NodeFacts
<1>6. IsWordOf(type, word) /\ (x.sure /\ sure => word = WordOf(type, want))
  <2>1. CASE type = "float"
    <3>1. IsWordOf(type, Operand(y)) /\ (x.sure => Operand(y) = WordOf(type, want))
      BY <1>1, <1>2, <2>1, FixedFacts
    <3> QED BY <1>2, <3>1, ReadFacts
  <2>2. CASE type = "i32"
    <3>1. y = x /\ IsWordOf(x.type, Operand(x)) /\ (x.sure => Operand(x) = WordOf(x.type, x.want) /\ As(x.type, x.want) = x.want)
      BY <1>2, <2>2, NodeFacts
    <3>2. IsWordOf(type, word) /\ (x.type = type => word = Operand(x))
      BY <1>1, <1>2, <3>1, ReadFacts
    <3> QED BY <1>2, <1>3, <2>2, <3>1, <3>2
  <2> QED BY <2>1, <2>2 DEF Types
<1> QED BY <1>1, <1>4, <1>5, <1>6, ListedTypes, ArrivesKeeps

\* What is cut to 0, and what is rounded to 0.
LEMMA ZeroFacts ==
  ASSUME NEW v \in Small
  PROVE  (Trunc(v) = 0 => Magnitude(v) < 4) /\ (Float(v) = 0 => v = 0)
<1>1. v \in Int
  BY SmallInt
<1>2. Trunc(v) = 0 => Magnitude(v) < 4
  BY <1>1, SMT DEF Trunc, Sign, Magnitude, Whole
<1>3. ASSUME Float(v) = 0 PROVE v = 0
  <2>1. PICK m \in 0 .. Largest : m = Magnitude(v) /\ m \in Nat /\ (m = 0 <=> v = 0)
    BY <1>1, MagnitudeFacts, LargestFacts, SMT
  <2>2. PICK s \in {1, 2, 4, 8, 16, 32, 64} : s = Step(m) /\ IsStep(m, s)
    BY StepFacts
  <2>3. PICK f \in 0 .. Largest : f = Rounded(m, s)
    BY <2>2, RoundedFacts
  <2>4. f \in Nat /\ Float(v) = (IF v < 0 THEN -f ELSE f)
    BY <2>1, <2>2, <2>3, LargestFacts, FloatParts, SMT
  <2>5. f = 0
    BY <1>3, <2>4, SMT
  <2>6. m < s
    <3>1. SUFFICES ASSUME m >= s PROVE FALSE
      BY <2>1, SMT
    <3>2. PICK q \in Nat, r \in Nat : m = s * q + r /\ r < s /\ q = m \div s
      <4>1. s \in Nat \ {0} /\ m \in Nat
        BY <2>1
      <4> QED BY <4>1, Divided
    <3>3. q >= 1
      BY <3>1, <3>2, SMT
    <3>4. PICK u \in {0, 1} : f = s * (q + u)
      BY <2>3, <3>2, SMT DEF Rounded
    <3> QED BY <2>5, <3>3, <3>4, SMT
  <2>7. s = 1
    BY <2>1, <2>2, <2>6, SMT DEF IsStep
  <2> QED BY <2>1, <2>6, <2>7, SMT
<1> QED BY <1>2, <1>3

LEMMA GlobalItemKeeps ==
  ASSUME IInv, NEW type \in Types, GlobalItem(type)
  PROVE  IInv'
<1>1. PICK x \in Nodes : x = Value /\ x.static /\ x.type \in Types
  BY TopFacts, NodeFacts DEF IInv, GlobalItem, AllTypes
<1>2. PICK word, want : word = ItemDirective(type, x) /\ want = As(type, x.want)
  OBVIOUS
<1>3. PICK sure \in BOOLEAN :
        sure = (\/ want = 0
                \/ x.sym = "const" /\ {type, x.type} = {"i32"})
  OBVIOUS
<1>4. Arrives(type, word, want, sure)
  BY <1>1, <1>2, <1>3 DEF GlobalItem
<1>5. want \in Small /\ x.sure \in BOOLEAN /\ x.want \in Small /\ x.fold \in Small /\ As(type, 0) = 0
  BY <1>1, <1>2, KeptFacts, NodeFacts, AsFacts, SmallInt
<1>6. IsWordOf(type, word) /\ (x.sure /\ sure => word = WordOf(type, want))
  <2>1. CASE x.sym # "const" \/ x.fold = 0
    <3>1. word = WordOf(type, 0)
      BY <1>2, <2>1 DEF ItemDirective
    <3>2. sure => want = 0
      BY <1>2, <1>3, <1>5, <2>1, NodeFacts
    <3> QED BY <3>1, <3>2, ZeroIsOf
  <2>2. CASE x.sym = "const" /\ x.fold # 0 /\ x.type = "float"
    <3>1. word = LowHalf(type, x.fold) /\ x.want = x.fold
      BY <1>2, <2>2, NodeFacts DEF ItemDirective
    <3>2. ASSUME sure PROVE word = WordOf(type, want)
      <4>1. want = 0
        BY <1>3, <2>2, <3>2
      <4>2. CASE type = "i32"
        <5>1. Magnitude(x.fold) < 4
          BY <1>2, <1>5, <3>1, <4>1, <4>2, ZeroFacts DEF As
        <5> QED BY <1>5, <3>1, <4>1, <5>1, LowHalfOfSmall, SmallInt
      <4>3. CASE type = "float"
        BY <1>2, <1>5, <2>2, <3>1, <4>1, <4>3, ZeroFacts DEF As
      <4> QED BY <4>2, <4>3 DEF Types
    <3> QED BY <3>1, <3>2, LowHalfFacts
  <2>3. CASE x.sym = "const" /\ x.fold # 0 /\ x.type = "i32"
    <3>1. word = ReadAs(type, WordOf("i32", Trunc(x.fold))) /\ x.want = x.fold
      BY <1>2, <2>3, NodeFacts DEF ItemDirective
    <3>2. IsWordOf("i32", WordOf("i32", Trunc(x.fold)))
      BY <1>5, AsWord DEF As
    <3>3. IsWordOf(type, word) /\ (type = "i32" => word = WordOf("i32", Trunc(x.fold)))
      BY <3>1, <3>2, ReadFacts DEF Types
    <3>4. ASSUME sure PROVE word = WordOf(type, want)
      <4>1. CASE type = "i32"
        BY <1>2, <3>1, <3>3, <4>1 DEF As
      <4>2. CASE type = "float"
        <5>1. want = 0
          <6>1. type \in {type, x.type} /\ type \notin {"i32"}
            BY <4>2
          <6> QED BY <1>3, <3>4, <6>1
        <5> QED BY <1>2, <1>5, <2>3, <3>1, <4>2, <5>1, ZeroFacts DEF As
      <4> QED BY <4>1, <4>2 DEF Types
    <3> QED BY <3>3, <3>4
  <2> QED BY <1>1, <2>1, <2>2, <2>3 DEF Types
<1> QED BY <1>1, <1>4, <1>5, <1>6, ListedTypes, ArrivesKeeps

LEMMA ArgumentKeeps ==
  ASSUME IInv, NEW type \in Types, Argument(type)
  PROVE  IInv'
<1>1. PICK x \in Nodes : x = Value
  BY TopFacts DEF IInv, Argument
<1>2. PICK int \in Nodes : /\ int = (IF x.type = "i1" THEN Replaced(x, BOOL2INT(x)) ELSE x)
                           /\ int.type \in Types /\ int.want = x.want /\ int.sure = x.sure
  BY ComparedFacts DEF Compared
<1>3. PICK y, word, want : /\ y = Fixed(int, type) /\ want = As(type, x.want)
                           /\ word = IF Addressed(type, x) THEN Junk ELSE Input(type, y)
  OBVIOUS
<1>4. word = Passed(type, x)
  BY <1>2, <1>3 DEF Passed, Input
<1>5. PICK direct \in BOOLEAN : direct = ~Addressed(type, x) /\ Arrives(type, word, want, direct)
  BY <1>1, <1>3, <1>4 DEF Argument
<1>6. IsWordOf(type, Input(type, y)) /\ (x.sure => Input(type, y) = WordOf(type, want))
  BY <1>2, <1>3, FixedFacts DEF Input
<1>7. want \in Small /\ x.sure \in BOOLEAN
  BY <1>3, NodeFacts, AsFacts
<1>8. /\ IsWordOf(type, word)
      /\ x.sure /\ direct => word = WordOf(type, want)
  <2>1. IsWordOf(type, word)
    BY <1>3, <1>6 DEF IsWordOf
  <2>2. direct => word = Input(type, y)
    BY <1>3, <1>5
  <2> QED BY <1>6, <2>1, <2>2
<1> QED BY <1>1, <1>5, <1>7, <1>8, ListedTypes, ArrivesKeeps

LEMMA TestKeeps ==
  ASSUME IInv, Test
  PROVE  IInv'
<1>1. PICK n \in Nodes : n = Value
  BY TopFacts DEF IInv, Test
<1>2. PICK x : x = (IF n.type = "float" THEN Replaced(n, FLOAT2INT(n)) ELSE n)
  OBVIOUS
<1>3. PICK t : t = CmpInstruction("!=", x, const_0)
  OBVIOUS
<1>4. PICK word, want : /\ word = (IF x.type = "i1" THEN General(x) ELSE t.word)
                        /\ want = Truth(n.want # 0)
  OBVIOUS
<1>5. PICK seen \in BOOLEAN : seen = ~Vanishes(n) /\ Arrives("i1", word, want, seen)
  BY <1>1, <1>2, <1>3, <1>4 DEF Test
<1>6. /\ x.type \in AllTypes /\ x.type # "float" /\ (n.type # "float" => x = n)
      /\ n.sure /\ seen => \E v \in Small : Operand(x) = WordOf(x.type, v) /\ (v = 0 <=> n.want = 0)
  BY <1>2, <1>5, AsCondition
<1>7. want \in Small /\ n.sure \in BOOLEAN
  BY <1>4, TruthFacts, NodeFacts
<1>8. IsWordOf("i1", word) /\ (n.sure /\ seen => word = WordOf("i1", want))
  <2>1. CASE x.type = "i1"
    <3>1. x = n
      <4>1. ASSUME n.type = "float" PROVE FALSE
        <5>1. x.type = "i32"
          <6>1. x = Replaced(n, Temp("i32", FLOAT2INT(n).word))
            BY <1>2, <4>1, ConversionFacts
          <6> QED BY <6>1, ReplacedParts
        <5> QED BY <2>1, <5>1
      <4> QED BY <1>6, <4>1
    <3>2. word = Operand(n) /\ n.type = "i1" /\ n.want \in {0, Whole}
      BY <1>4, <2>1, <3>1, NodeFacts DEF Operand
    <3>3. want = n.want
      BY <1>4, <3>2 DEF Truth, Whole
    <3> QED BY <3>2, <3>3, NodeFacts
  <2>2. CASE x.type # "i1"
    <3>1. word = t.word /\ IsWordOf("i1", t.word)
      BY <1>3, <1>4, <1>6, <2>2, AgainstZero, RelationNames
    <3>2. ASSUME n.sure, seen PROVE word = WordOf("i1", want)
      <4>1. PICK v \in Small : Operand(x) = WordOf(x.type, v) /\ (v = 0 <=> n.want = 0)
        BY <1>6, <3>2
      <4>2. t.word = WordOf("i1", Truth(v # 0))
        BY <1>3, <1>6, <4>1, AgainstZero, RelationNames DEF Holds
      <4> QED BY <1>4, <3>1, <4>1, <4>2 DEF Truth
    <3> QED BY <3>1, <3>2
  <2> QED BY <2>1, <2>2
<1> QED BY <1>1, <1>5, <1>7, <1>8, ListedTypes, ArrivesKeeps

LEMMA TestOperandKeeps ==
  ASSUME IInv, TestOperand
  PROVE  IInv'
<1>1. PICK x \in Nodes : x = Value
  BY TopFacts DEF IInv, TestOperand
<1>2. PICK z, t, want : /\ z = Zero(x) /\ t = CmpInstruction("!=", x, z) /\ want = Truth(x.want # 0)
  OBVIOUS
<1>3. Arrives("i1", t.word, want, TRUE)
  BY <1>1, <1>2 DEF TestOperand
<1>4. Input(x.type, z) = WordOf(x.type, 0)
  <2>1. CASE x.type = "float"
    <3>1. INT2FLOAT(const_0) = Temp("float", WordOf("float", 0))
      <4>1. General(const_0).v = 0 /\ General(const_0).as = "int"
        BY ConstantFacts, WordFacts
      <4>2. WordOf("float", Float(General(const_0).v)) = WordOf("float", 0)
        BY <4>1, ZeroStays
      <4> QED BY <4>1, <4>2 DEF INT2FLOAT, OnWords
    <3>2. z = Replaced(x, Temp("float", WordOf("float", 0)))
      BY <1>2, <2>1, <3>1 DEF Zero
    <3>3. Fp(z) = WordOf("float", 0)
      BY <3>2, ReplacedParts
    <3> QED BY <2>1, <3>3 DEF Input
  <2>2. CASE x.type # "float"
    <3>1. z = const_0
      BY <1>2, <2>2 DEF Zero
    <3> QED BY <2>2, <3>1, ConstantFacts DEF Input, WordOf
  <2> QED BY <2>1, <2>2
<1>5. x.want \in Small /\ want \in Small /\ x.sure \in BOOLEAN /\ (x.sure => Operand(x) = WordOf(x.type, x.want))
  BY <1>2, TruthFacts, NodeFacts
<1>6. /\ IsWordOf("i1", t.word)
      /\ Operand(x) = WordOf(x.type, x.want) => t.word = WordOf("i1", Truth(Holds("!=", x.want, 0)))
  <2>1. "!=" \in Relations /\ 0 \in Small
    BY SmallInt, RelationNames
  <2>2. /\ IsWordOf("i1", t.word)
        /\ \A v \in Small, w \in Small :
             Operand(x) = WordOf(x.type, v) /\ Input(x.type, z) = WordOf(x.type, w)
               => t.word = WordOf("i1", Truth(Holds("!=", v, w)))
    BY <1>2, <2>1, CmpFacts
  <2> QED BY <1>4, <1>5, <2>1, <2>2
<1>7. Truth(Holds("!=", x.want, 0)) = want
  BY <1>2 DEF Holds
<1> QED BY <1>1, <1>3, <1>5, <1>6, <1>7, ListedTypes, ArrivesKeeps

-----------------------------------------------------------------------------
(* The theorems *)

LEMMA Initially == Init => IInv
BY LiteralsAssumption DEF Init, IInv

LEMMA Stays == IInv /\ [Next]_vars => IInv'
<1>1. SUFFICES ASSUME IInv, [Next]_vars PROVE IInv'
  OBVIOUS
<1>2. CASE \E v \in Ints : Literal("i32", v)
  BY <1>1, <1>2, LiteralsAssumption, LiteralKeeps DEF Types
<1>3. CASE \E v \in Floats : Literal("float", v)
  BY <1>1, <1>3, LiteralsAssumption, LiteralKeeps DEF Types
<1>4. CASE \E n \in Names : UseName(n)
  BY <1>1, <1>4, UseNameKeeps
<1>5. CASE \E c \in Calls : Call(c)
  BY <1>1, <1>5, GivenKeeps DEF Call
<1>6. CASE \E c \in Items : Item(c)
  BY <1>1, <1>6, GivenKeeps DEF Item
<1>7. CASE NegateLiteral
  BY <1>1, <1>7, NegateLiteralKeeps
<1>8. CASE Negate
  BY <1>1, <1>8, NegateKeeps
<1>9. CASE Not
  BY <1>1, <1>9, NotKeeps
<1>10. CASE \E op \in Operators : Arithmetic(op)
  BY <1>1, <1>10, ArithmeticKeeps
<1>11. CASE \E rel \in Relations : Compare(rel)
  BY <1>1, <1>11, CompareKeeps
<1>12. CASE OpenFunction
  BY <1>1, <1>12 DEF OpenFunction, IInv
<1>13. CASE \E n \in Names, type \in Types : DeclareEmpty(n, type)
  BY <1>1, <1>13, DeclareEmptyKeeps
<1>14. CASE \E n \in Names, type \in Types, const, list \in BOOLEAN : DeclareGlobal(n, type, const, list)
  BY <1>1, <1>14, DeclareGlobalKeeps
<1>15. CASE \E n \in Names, type \in Types, const, list \in BOOLEAN : DeclareLocal(n, type, const, list)
  BY <1>1, <1>15, DeclareLocalKeeps
<1>16. CASE \E n \in Names : Assign(n)
  BY <1>1, <1>16, AssignKeeps
<1>17. CASE \E type \in Types : Return(type) \/ AssignItem(type)
  BY <1>1, <1>17, ReturnKeeps
<1>18. CASE \E type \in Types : LocalItem(type)
  BY <1>1, <1>18, LocalItemKeeps
<1>19. CASE \E type \in Types : GlobalItem(type)
  BY <1>1, <1>19, GlobalItemKeeps
<1>20. CASE \E type \in Types : Argument(type)
  BY <1>1, <1>20, ArgumentKeeps
<1>21. CASE Test
  BY <1>1, <1>21, TestKeeps
<1>22. CASE TestOperand
  BY <1>1, <1>22, TestOperandKeeps
<1>23. CASE UNCHANGED vars
  BY <1>1, <1>23 DEF vars, IInv
<1> QED BY <1>1, <1>2, <1>3, <1>4, <1>5, <1>6, <1>7, <1>8, <1>9, <1>10, <1>11, <1>12, <1>13, <1>14,
           <1>15, <1>16, <1>17, <1>18, <1>19, <1>20, <1>21, <1>22, <1>23 DEF Next

LEMMA StackNodes == IInv => \A i \in DOMAIN stack : stack[i] \in Nodes
BY DEF IInv

LEMMA HeldFacts ==
  ASSUME IInv, NEW e \in {names[n] : n \in Names} \cup {sink}, e # None
  PROVE  /\ e.type \in AllTypes /\ e.want \in Int /\ e.sure \in BOOLEAN /\ IsWordOf(e.type, e.word)
         /\ e.sure => e.word = WordOf(e.type, e.want)
<1>1. CASE e \in Entries
  BY <1>1, ListedTypes DEF Entries, GoodEntry
<1>2. CASE e \in Sinks
  BY <1>2 DEF Sinks
<1> QED BY <1>1, <1>2 DEF IInv

(***************************************************************************)
(* Every node has a type and is in a register of its bank, and what is     *)
(* stored is of the type of where it is stored: no code of an expression   *)
(* leaves a float where an int is read, or an int where a float is.        *)
(***************************************************************************)
THEOREM TypesAgree == Spec => []TypeOK
<1>1. IInv => TypeOK
  <2>1. SUFFICES ASSUME IInv PROVE TypeOK
    OBVIOUS
  <2>2. ASSUME NEW i \in DOMAIN stack, NEW x, x = stack[i]
        PROVE  /\ x.sym \in {"const", "temp", "name", "call", "item"} /\ x.type \in Types \cup {"i1"}
               /\ x.bank = BankOf(x.type) /\ IsWord(x.word)
               /\ x.fold \in Int /\ x.want \in Int /\ {x.static, x.sure} \subseteq BOOLEAN
    <3>1. x \in Nodes
      BY <2>1, <2>2, StackNodes
    <3>2. x.word \in Words
      BY <3>1 DEF Nodes
    <3> QED BY <3>1, <3>2 DEF Nodes, GoodNode, Syms, AllTypes, IsWord, Words
  <2>3. ASSUME NEW e \in {names[n] : n \in Names} \cup {sink}, e # None
        PROVE  /\ e.type \in Types \cup {"i1"} /\ e.want \in Int /\ e.sure \in BOOLEAN
               /\ e.word \in {Junk, WordOf(e.type, e.word.v)}
    <3>1. e.type \in AllTypes /\ e.want \in Int /\ e.sure \in BOOLEAN /\ IsWordOf(e.type, e.word)
      BY <2>1, <2>3, HeldFacts
    <3> QED BY <3>1, WordKinds DEF AllTypes
  <2> QED BY <2>1, <2>2, <2>3 DEF TypeOK, IInv
<1> QED BY <1>1, Initially, Stays, PTL DEF Spec

(***************************************************************************)
(* Whatever ints and floats an expression is made of, and however its      *)
(* operators nest, its code leaves the value it has in C in a register of  *)
(* its type: the conversions that parser.y and genCode add are all that    *)
(* are needed.                                                             *)
(***************************************************************************)
THEOREM ValuesRight == Spec => []ValuesAgree
<1>1. IInv => ValuesAgree
  BY StackNodes, NodeFacts DEF ValuesAgree
<1> QED BY <1>1, Initially, Stays, PTL DEF Spec

(***************************************************************************)
(* What the semantic actions of parser.y make of a constant expression,    *)
(* and what a constant keeps of its initialiser, is the value of C.        *)
(***************************************************************************)
THEOREM FoldsRight == Spec => []FoldsAgree
<1>1. ASSUME NEW x, x.static /\ x.sure => FoldKnown(x) /\ As(x.type, x.want) = x.want PROVE Known(x)
  BY <1>1 DEF Known, FoldKnown, As
<1>2. IInv => FoldsAgree
  <2>1. SUFFICES ASSUME IInv PROVE FoldsAgree
    OBVIOUS
  <2>2. ASSUME NEW i \in DOMAIN stack PROVE Known(stack[i])
    BY <1>1, <2>1, StackNodes, NodeFacts
  <2>3. ASSUME NEW n \in Names, names[n] # None PROVE Known(names[n])
    <3>1. names[n] \in Entries
      BY <2>1, <2>3 DEF IInv
    <3>2. PICK e \in Entries : e = names[n]
      BY <3>1
    <3>3. IsWordOf(e.type, e.word) /\ (e.sure => e.word = WordOf(e.type, e.want)) /\ (e.static /\ e.sure => FoldKnown(e))
      BY DEF Entries, GoodEntry
    <3>4. e.sure => As(e.type, e.want) = e.want
      BY <3>3, WordFacts DEF IsWordOf
    <3> QED BY <1>1, <3>2, <3>3, <3>4
  <2> QED BY <2>2, <2>3 DEF FoldsAgree
<1> QED BY <1>2, Initially, Stays, PTL DEF Spec

(***************************************************************************)
(* A name, a result, an argument, an item and a condition get the value of *)
(* C, converted to the type of where it goes, from every form that the     *)
(* model does not mark as one the code gets wrong.                         *)
(***************************************************************************)
THEOREM StoresRight == Spec => []StoresAgree
<1>1. IInv => StoresAgree
  BY HeldFacts DEF StoresAgree
<1> QED BY <1>1, Initially, Stays, PTL DEF Spec

=============================================================================
