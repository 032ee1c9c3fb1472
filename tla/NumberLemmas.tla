---------------------------- MODULE NumberLemmas ----------------------------
(***************************************************************************)
(* Facts about numbers that the other proofs share: division, induction    *)
(* and recursion over the naturals, two's complement and powers of two.    *)
(* Wrapping is arithmetic modulo the width, whatever the width: truncating *)
(* before or after an addition or a multiplication gives the same value.   *)
(***************************************************************************)
EXTENDS TwosComplement, WellFoundedInduction, TLAPS

\* Division leaves one quotient and one remainder (Euclid).
LEMMA QuotientUnique ==
  ASSUME NEW a \in Int, NEW b \in Int, NEW s \in Nat, s > 0,
         NEW r \in 0..(s - 1), NEW t \in 0..(s - 1), a * s + r = b * s + t
  PROVE  r = t
<1>1. a * s - b * s = (a - b) * s /\ b * s - a * s = (b - a) * s
  OBVIOUS
<1>2. (a > b => (a - b) * s >= s) /\ (b > a => (b - a) * s >= s)
  OBVIOUS
<1> QED
  BY <1>1, <1>2

\* The remainder of a division is in range and differs by a multiple.
LEMMA Remainder ==
  ASSUME NEW v \in Int, NEW s \in Nat, s > 0
  PROVE  /\ v % s \in 0..(s - 1)
         /\ v \div s \in Int
         /\ v = (v \div s) * s + (v % s)
  OBVIOUS

\* A quotient and a remainder in range are those of the division.
LEMMA DivisionIs ==
  ASSUME NEW v \in Int, NEW s \in Nat, s > 0, NEW q \in Int, NEW r \in 0..(s - 1),
         v = q * s + r
  PROVE  v % s = r /\ v \div s = q
<1> DEFINE p == v \div s
           t == v % s
<1>1. t \in 0..(s - 1) /\ p \in Int /\ v = p * s + t
  BY Remainder
<1> HIDE DEF p, t
<1>2. t = r
  BY <1>1, QuotientUnique
<1>3. q * s = p * s
  BY <1>1, <1>2
<1>4. q = p
  <2>1. (q - p) * s = 0
    BY <1>1, <1>3
  <2>2. q - p > 0 => (q - p) * s >= s
    BY <1>1
  <2>3. q - p < 0 => (p - q) * s >= s /\ (q - p) * s = -((p - q) * s)
    BY <1>1
  <2> QED
    BY <1>1, <2>1, <2>2, <2>3
<1> QED
  BY <1>2, <1>4 DEF p, t

\* What is below a multiple of the divisor has a quotient below the multiplier.
LEMMA QuotientBelow ==
  ASSUME NEW v \in Nat, NEW s \in Nat, s > 0, NEW a \in Nat, v < a * s
  PROVE  v \div s \in 0..(a - 1)
<1> DEFINE q == v \div s
           t == v % s
<1>1. t \in 0..(s - 1) /\ q \in Int /\ v = q * s + t
  BY Remainder
<1> HIDE DEF q, t
<1>2. q < 0 => (-q) * s >= s /\ q * s = -((-q) * s)
  BY <1>1
<1>3. q >= a => (q - a) * s >= 0 /\ q * s = (q - a) * s + a * s
  BY <1>1
<1>4. q * s \in Int /\ a * s \in Int
  BY <1>1
<1>5. q >= 0
  BY <1>1, <1>2, <1>4
<1>6. q < a
  BY <1>1, <1>3, <1>4
<1> QED
  BY <1>1, <1>5, <1>6 DEF q

\* Adding a multiple of the divisor does not change the remainder.
LEMMA RemainderOfSum ==
  ASSUME NEW v \in Int, NEW k \in Int, NEW s \in Nat, s > 0
  PROVE  (v + k * s) % s = v % s
<1> DEFINE w == v + k * s
           q == v \div s
           p == w \div s
<1>1. k * s \in Int /\ w \in Int
  OBVIOUS
<1>2. q \in Int /\ v % s \in 0..(s - 1) /\ v = q * s + (v % s)
  BY Remainder
<1>3. p \in Int /\ w % s \in 0..(s - 1) /\ w = p * s + (w % s)
  BY <1>1, Remainder
<1>4. (q + k) * s = q * s + k * s /\ q + k \in Int
  BY <1>2
<1>5. (q + k) * s + (v % s) = p * s + (w % s)
  BY <1>1, <1>2, <1>3, <1>4
<1> HIDE DEF w, q, p
<1>6. v % s = w % s
  BY <1>2, <1>3, <1>4, <1>5, QuotientUnique
<1> QED
  BY <1>6 DEF w

-----------------------------------------------------------------------------
\* A non-empty set of naturals has a least element.
LEMMA LeastNatural ==
  ASSUME NEW T \in SUBSET Nat, T # {}
  PROVE  \E x \in T : \A y \in T : x <= y
<1> DEFINE R == OpToRel(<, Nat)
<1>1. \A x, y \in Nat : y < x => <<y, x>> \in R
  BY DEF OpToRel
<1>2. IsWellFoundedOn(R, Nat)
  BY NatLessThanWellFounded
<1> HIDE DEF R
<1>3. PICK x \in T : \A y \in T : ~(<<y, x>> \in R)
  BY <1>2, WFMin
<1>4. ASSUME NEW y \in T
      PROVE  x <= y
  <2>1. x \in Nat /\ y \in Nat /\ ~(y < x)
    BY <1>1, <1>3
  <2> QED
    BY <2>1
<1> QED
  BY <1>4

\* A set that holds the first number of an interval, and with each number the next one,
\* holds them all.
LEMMA UpTheInterval ==
  ASSUME NEW n \in Nat, NEW T, 0 \in T, \A k \in 1..n : k - 1 \in T => k \in T
  PROVE  \A k \in 0..n : k \in T
<1> DEFINE Outside == {k \in 0..n : k \notin T}
<1> SUFFICES ASSUME Outside # {} PROVE FALSE
  OBVIOUS
<1>1. PICK k \in Outside : \A l \in Outside : k <= l
  <2>1. Outside \in SUBSET Nat
    OBVIOUS
  <2> HIDE DEF Outside
  <2> QED
    BY <2>1, LeastNatural
<1>2. k \in 1..n /\ k - 1 \in 0..n
  BY <1>1
<1>3. k - 1 \notin Outside
  <2>1. k \in Nat /\ ~(k <= k - 1)
    BY <1>2
  <2> HIDE DEF Outside
  <2> QED
    BY <1>1, <2>1
<1> QED
  BY <1>1, <1>2, <1>3

\* The function has this value at 0 and the next step's at each number after.
Unrolls(f, base, step, n) == f[0] = base /\ \A k \in 1..n : f[k] = step[k][f[k - 1]]

\* A function defined on an interval from its value at the number before, by a step
\* that may depend on the number, exists.
LEMMA RecursionOverInterval ==
  ASSUME NEW S, NEW base \in S, NEW step \in [Nat -> [S -> S]], NEW n \in Nat
  PROVE  \E f \in [0..n -> S] : Unrolls(f, base, step, n)
<1> DEFINE Solves(f, m) == f[0] = base /\ \A k \in 1..m : f[k] = step[k][f[k - 1]]
           Without == {m \in Nat : ~(\E f \in [0..m -> S] : Solves(f, m))}
<1> SUFFICES Without = {}
  BY DEF Unrolls
<1> SUFFICES ASSUME Without # {} PROVE FALSE
  OBVIOUS
<1>1. PICK m \in Without : \A l \in Without : m <= l
  BY LeastNatural
<1>2. CASE m = 0
  <2> DEFINE f == [k \in 0..0 |-> base]
  <2>1. f \in [0..0 -> S] /\ Solves(f, 0)
    OBVIOUS
  <2> QED
    BY <1>2, <2>1
<1>3. CASE m # 0
  <2>1. m \in Nat /\ m - 1 \in Nat /\ m - 1 \notin Without
    <3>1. m \in Nat
      OBVIOUS
    <3> HIDE DEF Without
    <3> QED
      BY <1>1, <1>3, <3>1
  <2>2. PICK g \in [0..(m - 1) -> S] : Solves(g, m - 1)
    BY <2>1
  <2> DEFINE f == [k \in 0..m |-> IF k = m THEN step[m][g[m - 1]] ELSE g[k]]
  <2>3. m - 1 \in 0..(m - 1) /\ \A k \in 0..m : k # m => k \in 0..(m - 1)
    BY <2>1
  <2>4. f \in [0..m -> S]
    BY <2>2, <2>3
  <2>5. f[0] = base
    BY <1>3, <2>1, <2>2
  <2>6. ASSUME NEW k \in 1..m
        PROVE  f[k] = step[k][f[k - 1]]
    <3>1. k - 1 \in 0..m /\ k - 1 # m /\ f[k - 1] = g[k - 1] /\ k \in 0..m
      BY <2>1
    <3>2. CASE k = m
      BY <3>1, <3>2
    <3>3. CASE k # m
      <4>1. k \in 1..(m - 1)
        BY <3>3, <2>1
      <4>2. g[k] = step[k][g[k - 1]]
        BY <2>2, <4>1
      <4> QED
        BY <3>1, <3>3, <4>2
    <3> QED
      BY <3>2, <3>3
  <2>7. Solves(f, m)
    BY <2>5, <2>6
  <2> HIDE DEF f, Solves
  <2>8. \E h \in [0..m -> S] : Solves(h, m)
    BY <2>4, <2>7
  <2> QED
    BY <2>8
<1> QED
  BY <1>2, <1>3

-----------------------------------------------------------------------------
\* A width.
IsDtype(d) == d.half \in Nat /\ d.half > 0 /\ d.signed \in BOOLEAN

\* wrap changes a value by a multiple of the width.
LEMMA WrapCongruent ==
  ASSUME NEW v \in Int, NEW d, IsDtype(d)
  PROVE  \E k \in Int : Wrap(v, d) = v + k * Size(d)
<1> DEFINE s == Size(d)
           q == v \div s
<1>1. s \in Nat /\ s > 0
  BY DEF IsDtype, Size
<1>2. q \in Int /\ v % s \in 0..(s - 1) /\ v = q * s + (v % s)
  BY <1>1, Remainder
<1> HIDE DEF s, q
<1>3. v % s = v + (-q) * s /\ (v % s) - s = v + (-q - 1) * s
  BY <1>1, <1>2
<1>4. Wrap(v, d) \in {v % s, (v % s) - s}
  BY DEF Wrap, s
<1> QED
  BY <1>2, <1>3, <1>4 DEF s

\* wrap yields a value of the dtype.
LEMMA WrapInRange ==
  ASSUME NEW v \in Int, NEW d, IsDtype(d)
  PROVE  Wrap(v, d) \in Int /\ InRange(Wrap(v, d), d)
<1>1. Size(d) \in Nat /\ Size(d) > 0
  BY DEF IsDtype, Size
<1>2. v % Size(d) \in 0..(Size(d) - 1)
  BY <1>1, Remainder
<1> QED
  BY <1>1, <1>2 DEF Wrap, InRange, Lowest, Highest, Size, IsDtype

\* wrap sees a value only up to a multiple of the width.
LEMMA WrapOfCongruent ==
  ASSUME NEW v \in Int, NEW k \in Int, NEW d, IsDtype(d)
  PROVE  Wrap(v + k * Size(d), d) = Wrap(v, d)
<1>1. Size(d) \in Nat /\ Size(d) > 0
  BY DEF IsDtype, Size
<1>2. (v + k * Size(d)) % Size(d) = v % Size(d)
  BY <1>1, RemainderOfSum
<1> QED
  BY <1>2 DEF Wrap

\* wrap leaves the values of the dtype alone.
LEMMA WrapIdentity ==
  ASSUME NEW v \in Int, NEW d, IsDtype(d), InRange(v, d)
  PROVE  Wrap(v, d) = v
<1> DEFINE s == Size(d)
<1>1. s \in Nat /\ s > 0
  BY DEF IsDtype, Size
<1>2. PICK k \in Int : Wrap(v, d) = v + k * s
  BY WrapCongruent
<1>3. Wrap(v, d) - v \in (-(s - 1))..(s - 1)
  BY <1>1, WrapInRange DEF InRange, Lowest, Highest, s, Size, IsDtype
<1> HIDE DEF s
<1>4. (k > 0 => k * s >= s) /\ (k < 0 => k * s <= -s)
  BY <1>1
<1> QED
  BY <1>1, <1>2, <1>3, <1>4, WrapInRange

-----------------------------------------------------------------------------
\* Equal up to a multiple of the width.
Congruent(a, b, d) == \E k \in Int : a = b + k * Size(d)

\* wrap maps congruent values to one.
LEMMA WrapUnifies ==
  ASSUME NEW a \in Int, NEW b \in Int, NEW d, IsDtype(d), Congruent(a, b, d)
  PROVE  Wrap(a, d) = Wrap(b, d)
BY WrapOfCongruent DEF Congruent

\* Sums and products of congruent values are congruent.
LEMMA RingCongruence ==
  ASSUME NEW a \in Int, NEW b \in Int, NEW x \in Int, NEW y \in Int,
         NEW d, IsDtype(d), Congruent(a, x, d), Congruent(b, y, d)
  PROVE  Congruent(a + b, x + y, d) /\ Congruent(a * b, x * y, d)
<1> DEFINE s == Size(d)
<1>1. s \in Int
  BY DEF IsDtype, Size
<1>2. PICK k \in Int : a = x + k * s
  BY DEF Congruent
<1>3. PICK m \in Int : b = y + m * s
  BY DEF Congruent
<1> SUFFICES /\ \E n \in Int : a + b = (x + y) + n * s
             /\ \E n \in Int : a * b = (x * y) + n * s
  BY DEF Congruent
<1> HIDE DEF s
<1>4. a + b = (x + y) + (k + m) * s /\ k + m \in Int
  BY <1>1, <1>2, <1>3
<1>5. a * b = (x * y) + (x * m + y * k + (k * m) * s) * s
  <2>1. a * b = (x + k * s) * (y + m * s)
    BY <1>2, <1>3
  <2>2. (x + k * s) * (y + m * s)
          = x * y + x * (m * s) + (k * s) * y + (k * s) * (m * s)
    BY <1>1
  <2>3. /\ x * (m * s) = (x * m) * s
        /\ (k * s) * y = (y * k) * s
        /\ (k * s) * (m * s) = ((k * m) * s) * s
    BY <1>1
  <2>4. (x * m + y * k + (k * m) * s) * s
          = (x * m) * s + (y * k) * s + ((k * m) * s) * s
    BY <1>1
  <2> QED
    BY <1>1, <2>1, <2>2, <2>3, <2>4
<1>6. x * m + y * k + (k * m) * s \in Int
  BY <1>1
<1> QED
  BY <1>4, <1>5, <1>6

-----------------------------------------------------------------------------
\* Numbers in base two: the digit of weight p.
Digit(v, p) == (v \div p) % 2

\* What is left of a number below twice a weight is what is left below it and its digit.
LEMMA DigitSplits ==
  ASSUME NEW v \in Int, NEW p \in Nat, p > 0
  PROVE  /\ Digit(v, p) \in {0, 1}
         /\ (v % p) \in 0..(p - 1)
         /\ (v % (2 * p)) = (v % p) + (IF Digit(v, p) = 1 THEN p ELSE 0)
         /\ v \div (2 * p) = (v \div p) \div 2
<1> DEFINE q == v \div p
           r == v % p
           h == q \div 2
           b == q % 2
<1>1. q \in Int /\ r \in 0..(p - 1) /\ v = q * p + r
  BY Remainder
<1> HIDE DEF q, r
<1>2. h \in Int /\ b \in 0..1 /\ q = h * 2 + b
  BY <1>1, Remainder
<1> HIDE DEF h, b
<1> DEFINE low == (IF b = 1 THEN p ELSE 0) + r
<1>3. v = h * (2 * p) + low
  <2>1. q * p = h * (2 * p) + b * p
    BY <1>1, <1>2
  <2>2. b * p = IF b = 1 THEN p ELSE 0
    BY <1>2
  <2> QED
    BY <1>1, <1>2, <2>1, <2>2
<1>4. low \in 0..(2 * p - 1)
  BY <1>1, <1>2
<1>5. 2 * p \in Nat /\ 2 * p > 0
  OBVIOUS
<1>6. (v % (2 * p)) = low /\ v \div (2 * p) = h
  <2> DEFINE s == 2 * p
  <2> HIDE DEF s, low
  <2> QED
    BY <1>2, <1>3, <1>4, <1>5, DivisionIs DEF s
<1>7. Digit(v, p) = b
  BY DEF Digit, q, b
<1> QED
  BY <1>1, <1>2, <1>6, <1>7 DEF r, h

\* Dividing twice is dividing by the product.
LEMMA DivisionNests ==
  ASSUME NEW v \in Int, NEW p \in Nat, p > 0, NEW s \in Nat, s > 0
  PROVE  (v \div p) \div s = v \div (p * s)
<1> DEFINE q == v \div p
           r == v % p
           h == q \div s
           t == q % s
           low == t * p + r
           m == p * s
<1>1. q \in Int /\ r \in 0..(p - 1) /\ v = q * p + r
  BY Remainder
<1> HIDE DEF q, r
<1>2. h \in Int /\ t \in 0..(s - 1) /\ q = h * s + t
  BY <1>1, Remainder
<1> HIDE DEF h, t
<1>3. v = h * m + low
  <2>1. (h * s + t) * p = h * (p * s) + t * p
    BY <1>2
  <2> QED
    BY <1>1, <1>2, <2>1
<1>4. low \in 0..(m - 1)
  <2>1. t * p <= (s - 1) * p /\ t * p >= 0 /\ (s - 1) * p = p * s - p
    BY <1>2
  <2>2. t * p \in Int /\ p * s \in Int
    BY <1>2
  <2> QED
    BY <1>1, <2>1, <2>2
<1>5. m \in Nat /\ m > 0
  OBVIOUS
<1> HIDE DEF m, low
<1>6. v \div m = h
  BY <1>2, <1>3, <1>4, <1>5, DivisionIs
<1> QED
  BY <1>6 DEF h, m, q

\* A multiple divided.
LEMMA MultipleDivided ==
  ASSUME NEW v \in Int, NEW p \in Nat, p > 0
  PROVE  (v * p) \div p = v
<1>1. v * p = v * p + 0 /\ v * p \in Int /\ 0 \in 0..(p - 1)
  OBVIOUS
<1> DEFINE w == v * p
<1> HIDE DEF w
<1> QED
  BY <1>1, DivisionIs DEF w

\* All digits of -1 - v are those of v turned over.
LEMMA DigitOfComplement ==
  ASSUME NEW v \in Int, NEW p \in Nat, p > 0
  PROVE  Digit(-1 - v, p) = 1 - Digit(v, p)
<1> DEFINE q == v \div p
           r == v % p
           u == -1 - v
<1>1. q \in Int /\ r \in 0..(p - 1) /\ v = q * p + r
  BY Remainder
<1> HIDE DEF q, r
<1>2. u = (-1 - q) * p + (p - 1 - r) /\ p - 1 - r \in 0..(p - 1) /\ u \in Int /\ -1 - q \in Int
  BY <1>1
<1> HIDE DEF u
<1>3. u \div p = -1 - q
  BY <1>2, DivisionIs
<1>4. (-1 - q) % 2 = 1 - (q % 2)
  BY <1>1
<1> QED
  BY <1>3, <1>4 DEF Digit, q, u

\* An addition below a weight: what is left of the sum, with the carry, is the sum of what
\* is left; and the ones in the column of that weight.
Added(a, b, c, carry, p) ==
  ((a + b + c) % p) + (IF carry = 1 THEN p ELSE 0) = (a % p) + (b % p) + c
Ones(a, b, carry, p) == Digit(a, p) + Digit(b, p) + carry
CarryOut(a, b, carry, p) == IF Ones(a, b, carry, p) >= 2 THEN 1 ELSE 0

\* One column on.
LEMMA AddColumn ==
  ASSUME NEW p \in Nat, p > 0, NEW a \in Int, NEW b \in Int, NEW c \in {0, 1},
         NEW carry \in {0, 1},
         Added(a, b, c, carry, p)
  PROVE  /\ Digit(a + b + c, p) = 1 <=> Ones(a, b, carry, p) \in {1, 3}
         /\ Added(a, b, c, CarryOut(a, b, carry, p), 2 * p)
<1> DEFINE s == a + b + c
           ones == Ones(a, b, carry, p)
           w == 2 * p
           carried == IF ones >= 2 THEN w ELSE 0
           digit == IF ones \in {1, 3} THEN p ELSE 0
           low == (s % p) + digit
<1>1. s \in Int /\ s = a + b + c
  OBVIOUS
<1>2. Added(a, b, c, carry, p) <=> (s % p) + (IF carry = 1 THEN p ELSE 0) = (a % p) + (b % p) + c
  BY DEF Added
<1> HIDE DEF s
<1>3. /\ Digit(a, p) \in {0, 1} /\ (a % w) = (a % p) + (IF Digit(a, p) = 1 THEN p ELSE 0)
      /\ Digit(b, p) \in {0, 1} /\ (b % w) = (b % p) + (IF Digit(b, p) = 1 THEN p ELSE 0)
      /\ Digit(s, p) \in {0, 1} /\ (s % w) = (s % p) + (IF Digit(s, p) = 1 THEN p ELSE 0)
      /\ (s % p) \in 0..(p - 1) /\ (a % p) \in 0..(p - 1) /\ (b % p) \in 0..(p - 1)
  BY <1>1, DigitSplits
<1>4. (a % w) + (b % w) + c = low + carried
  <2> DEFINE sp == s % p
             ap == a % p
             bp == b % p
             da == Digit(a, p)
             db == Digit(b, p)
  <2>1. /\ da \in {0, 1} /\ db \in {0, 1} /\ sp \in Int /\ ap \in Int /\ bp \in Int
        /\ (a % w) = ap + (IF da = 1 THEN p ELSE 0) /\ (b % w) = bp + (IF db = 1 THEN p ELSE 0)
        /\ sp + (IF carry = 1 THEN p ELSE 0) = ap + bp + c
        /\ ones = da + db + carry
    BY <1>3, <1>2 DEF Ones
  <2> HIDE DEF sp, ap, bp, da, db
  <2>2. low = sp + digit
    BY DEF sp
  <2> HIDE DEF low
  <2> QED
    BY <2>1, <2>2
<1>5. w \in Nat /\ w > 0
  OBVIOUS
<1>6. low \in 0..(w - 1)
  <2> DEFINE sp == s % p
  <2>1. sp \in 0..(p - 1)
    BY <1>3
  <2> HIDE DEF sp
  <2>2. sp + digit \in 0..(w - 1)
    BY <2>1
  <2> QED
    BY <2>2 DEF sp
<1>7. (s % w) = low
  <2> DEFINE aq == a \div w
             bq == b \div w
             aw == a % w
             bw == b % w
             k == IF ones >= 2 THEN 1 ELSE 0
  <2>1. aq \in Int /\ bq \in Int /\ aw \in Int /\ bw \in Int
        /\ a = aq * w + aw /\ b = bq * w + bw
    <3> HIDE DEF w
    <3> QED
      BY <1>5, Remainder
  <2>2. aw + bw + c = low + k * w
    <3>1. carried = k * w
      OBVIOUS
    <3> QED
      BY <1>4, <3>1
  <2> HIDE DEF aq, bq, aw, bw, low, w
  <2>3. k \in Int /\ aq + bq + k \in Int /\ (aq + bq + k) * w = aq * w + bq * w + k * w
    BY <1>5, <2>1
  <2>4. s = (aq + bq + k) * w + low
    <3> HIDE DEF k
    <3> QED
      BY <1>1, <1>5, <1>6, <2>1, <2>2, <2>3
  <2> DEFINE whole == aq + bq + k
  <2>5. whole \in Int /\ s = whole * w + low
    BY <2>3, <2>4
  <2> HIDE DEF whole
  <2> QED
    BY <1>5, <1>6, <2>5, DivisionIs
<1>8. Digit(s, p) = 1 <=> ones \in {1, 3}
  <2> DEFINE sp == s % p
             ds == Digit(s, p)
  <2>1. sp \in Int /\ ds \in {0, 1} /\ sp + digit = sp + (IF ds = 1 THEN p ELSE 0)
    BY <1>3, <1>7
  <2> HIDE DEF sp, ds
  <2>2. ds = 1 <=> ones \in {1, 3}
    BY <2>1
  <2> QED
    BY <2>2 DEF ds
<1> QED
  <2>1. (s % w) + carried = (a % w) + (b % w) + c
    BY <1>4, <1>7
  <2> QED
    BY <1>8, <2>1 DEF Added, CarryOut, s

\* The last digits of -1 and of 0.
LEMMA OddAndEven == (-1) % 2 = 1 /\ 0 % 2 = 0
<1> DEFINE u == -1
           q == u \div 2
           r == u % 2
<1>1. u \in Int /\ u = -1
  OBVIOUS
<1> HIDE DEF u
<1>2. r \in 0..1 /\ q \in Int /\ u = q * 2 + r
  <2>1. 2 \in Nat /\ 2 > 0 /\ 0..(2 - 1) = 0..1
    OBVIOUS
  <2>2. \A w \in Nat : w > 0 => u % w \in 0..(w - 1) /\ u \div w \in Int
                                /\ u = (u \div w) * w + (u % w)
    BY <1>1, Remainder
  <2> QED
    BY <2>1, <2>2
<1> HIDE DEF q, r
<1>3. r = 1
  BY <1>1, <1>2
<1> QED
  BY <1>3 DEF u, r

\* The quotient, the rest and the multiples of the unit around a mantissa.
LEMMA Brackets ==
  ASSUME NEW mant \in Nat, NEW unit \in Nat, unit > 0,
         NEW q, NEW low, q = mant \div unit, low = mant % unit
  PROVE  /\ q \in Nat /\ low \in 0..(unit - 1)
         /\ mant = q * unit + low
         /\ (q + 1) * unit = q * unit + unit
         /\ q * unit \in Nat
<1>1. low \in 0..(unit - 1) /\ q \in Int /\ mant = q * unit + low
  BY Remainder
<1>2. q < 0 => (-q) * unit >= unit /\ q * unit = -((-q) * unit)
  BY <1>1
<1>3. q >= 0
  BY <1>1, <1>2
<1> QED
  BY <1>1, <1>3

\* A number is not both even and odd; of two neighbours one is even.
LEMMA NextIsEven ==
  ASSUME NEW q \in Nat, q % 2 = 1
  PROVE  (q + 1) % 2 = 0
  OBVIOUS

-----------------------------------------------------------------------------
\* Powers of two.

\* A function that doubles exists: the one that follows the solutions over intervals.
LEMMA DoublingExists ==
  \E f \in [Nat -> Nat] : f[0] = 1 /\ \A k \in Nat : f[k + 1] = 2 * f[k]
<1> DEFINE step == [k \in Nat |-> [a \in Nat |-> 2 * a]]
           Doubles(g, n) == g \in [0..n -> Nat] /\ g[0] = 1 /\ \A k \in 1..n : g[k] = 2 * g[k - 1]
           sol(n) == CHOOSE g : Doubles(g, n)
           f == [n \in Nat |-> sol(n)[n]]
<1>1. ASSUME NEW n \in Nat PROVE Doubles(sol(n), n)
  <2>1. step \in [Nat -> [Nat -> Nat]] /\ \A k, a \in Nat : step[k][a] = 2 * a
    OBVIOUS
  <2>2. PICK g \in [0..n -> Nat] : Unrolls(g, 1, step, n)
    <3> HIDE DEF step
    <3> QED
      BY <2>1, RecursionOverInterval
  <2> HIDE DEF step
  <2>3. Doubles(g, n)
    <3>1. ASSUME NEW k \in 1..n PROVE g[k] = 2 * g[k - 1]
      <4>1. k \in Nat /\ k - 1 \in 0..n
        OBVIOUS
      <4>2. g[k - 1] \in Nat /\ g[k] = step[k][g[k - 1]]
        BY <2>2, <4>1 DEF Unrolls
      <4> QED
        BY <2>1, <4>1, <4>2
    <3> QED
      BY <2>2, <3>1 DEF Unrolls
  <2> HIDE DEF Doubles
  <2> QED
    BY <2>3
<1>2. ASSUME NEW n \in Nat PROVE sol(n + 1)[n] = sol(n)[n]
  <2> DEFINE g == sol(n)
             h == sol(n + 1)
             Same == {k \in 0..n : h[k] = g[k]}
  <2>1. Doubles(g, n) /\ Doubles(h, n + 1)
    <3>1. n + 1 \in Nat
      OBVIOUS
    <3> HIDE DEF Doubles, sol
    <3> QED
      BY <1>1, <3>1
  <2> HIDE DEF sol, g, h
  <2>2. 0 \in Same /\ \A k \in 1..n : k - 1 \in Same => k \in Same
    BY <2>1
  <2>3. n \in Same
    <3> HIDE DEF Same, Doubles
    <3> QED
      BY <2>2, UpTheInterval
  <2> QED
    BY <2>3 DEF g, h
<1>3. f[0] = 1 /\ f \in [Nat -> Nat]
  <2> HIDE DEF sol
  <2> QED
    BY <1>1
<1>4. ASSUME NEW k \in Nat PROVE f[k + 1] = 2 * f[k]
  <2>1. Doubles(sol(k + 1), k + 1) /\ k + 1 \in Nat /\ k + 1 \in 1..(k + 1)
    <3>1. k + 1 \in Nat /\ k + 1 \in 1..(k + 1)
      OBVIOUS
    <3> HIDE DEF Doubles, sol
    <3> QED
      BY <1>1, <3>1
  <2>2. sol(k + 1)[k + 1] = 2 * sol(k + 1)[k]
    <3> HIDE DEF sol
    <3> QED
      BY <2>1
  <2> HIDE DEF sol
  <2> QED
    BY <1>2, <2>2
<1> HIDE DEF f
<1> QED
  BY <1>3, <1>4

LEMMA PowerRuns ==
  /\ Power \in [Nat -> Nat] /\ Power[0] = 1
  /\ \A k \in Nat : Power[k + 1] = 2 * Power[k]
<1> DEFINE body(g) == [k \in Nat |-> IF k = 0 THEN 1 ELSE 2 * g[k - 1]]
<1>1. PICK f \in [Nat -> Nat] : f[0] = 1 /\ \A k \in Nat : f[k + 1] = 2 * f[k]
  BY DoublingExists
<1>2. f = body(f)
  <2>1. ASSUME NEW k \in Nat, k # 0 PROVE f[k] = 2 * f[k - 1]
    <3>1. k - 1 \in Nat /\ (k - 1) + 1 = k
      BY <2>1
    <3> QED
      BY <1>1, <3>1
  <2> QED
    BY <1>1, <2>1
<1>3. Power = body(Power)
  BY <1>2 DEF Power
<1>4. Power[0] = 1 /\ \A k \in Nat : k # 0 => Power[k] = 2 * Power[k - 1]
  BY <1>3
<1>5. ASSUME NEW k \in Nat PROVE Power[k + 1] = 2 * Power[k]
  BY <1>4
<1>6. ASSUME NEW n \in Nat PROVE Power[n] \in Nat
  <2> DEFINE T == {k \in 0..n : Power[k] \in Nat}
  <2>1. 0 \in T /\ \A k \in 1..n : k - 1 \in T => k \in T
    BY <1>4
  <2> HIDE DEF T
  <2>2. n \in T
    BY <2>1, UpTheInterval
  <2> QED
    BY <2>2 DEF T
<1>7. Power \in [Nat -> Nat]
  <2>1. Power = [k \in Nat |-> Power[k]]
    BY <1>3
  <2> QED
    BY <1>6, <2>1
<1> QED
  BY <1>4, <1>5, <1>7

LEMMA PowerIs ==
  ASSUME NEW k \in Nat
  PROVE  Power[k] \in Nat /\ Power[k] >= 1 /\ Power[k + 1] = 2 * Power[k]
<1> DEFINE T == {j \in 0..k : Power[j] >= 1}
<1>1. 0 \in T
  BY PowerRuns
<1>2. ASSUME NEW j \in 1..k, j - 1 \in T PROVE j \in T
  <2>1. j - 1 \in Nat /\ (j - 1) + 1 = j
    OBVIOUS
  <2>2. Power[j] = 2 * Power[j - 1] /\ Power[j - 1] \in Nat
    BY <2>1, PowerRuns
  <2> QED
    BY <1>2, <2>2
<1> HIDE DEF T
<1>3. k \in T
  BY <1>1, <1>2, UpTheInterval
<1> QED
  BY <1>3, PowerRuns DEF T

LEMMA PowerAdds ==
  ASSUME NEW a \in Nat, NEW b \in Nat
  PROVE  Power[a + b] = Power[a] * Power[b]
<1> DEFINE T == {k \in 0..b : Power[a + k] = Power[a] * Power[k]}
<1>1. 0 \in T
  BY PowerRuns
<1>2. ASSUME NEW k \in 1..b, k - 1 \in T PROVE k \in T
  <2> DEFINE p == Power[k - 1]
             q == Power[a]
  <2>1. k - 1 \in Nat /\ (k - 1) + 1 = k /\ a + (k - 1) \in Nat /\ (a + (k - 1)) + 1 = a + k
    OBVIOUS
  <2>2. Power[k] = 2 * p /\ Power[a + k] = 2 * Power[a + (k - 1)] /\ p \in Nat /\ q \in Nat
    BY <2>1, PowerRuns
  <2>3. Power[a + (k - 1)] = q * p
    BY <1>2
  <2> HIDE DEF p, q
  <2>4. 2 * (q * p) = q * (2 * p)
    BY <2>2
  <2>5. Power[a + k] = q * Power[k]
    BY <2>2, <2>3, <2>4
  <2> QED
    BY <2>5 DEF q
<1> HIDE DEF T
<1>3. b \in T
  BY <1>1, <1>2, UpTheInterval
<1> QED
  BY <1>3 DEF T

LEMMA PowerGrows ==
  ASSUME NEW a \in Nat, NEW b \in Nat, a <= b
  PROVE  Power[a] <= Power[b] /\ (a < b => 2 * Power[a] <= Power[b])
<1> DEFINE d == b - a
           p == Power[a]
           q == Power[d]
<1>1. d \in Nat /\ a + d = b
  OBVIOUS
<1>2. p \in Nat /\ q \in Nat /\ q >= 1 /\ p >= 1
  BY <1>1, PowerIs
<1>3. Power[b] = p * q
  BY <1>1, PowerAdds
<1>4. a < b => q >= 2
  <2> SUFFICES ASSUME a < b PROVE q >= 2
    OBVIOUS
  <2>1. d - 1 \in Nat /\ (d - 1) + 1 = d
    BY <1>1
  <2>2. Power[d - 1] \in Nat /\ Power[d - 1] >= 1 /\ Power[(d - 1) + 1] = 2 * Power[d - 1]
    BY <2>1, PowerIs
  <2> QED
    BY <2>1, <2>2
<1> HIDE DEF p, q
<1>5. p * q >= p /\ (q >= 2 => p * q >= 2 * p)
  BY <1>2
<1> QED
  BY <1>3, <1>4, <1>5 DEF p

\* A power tells its exponent.
LEMMA PowerOrders ==
  ASSUME NEW a \in Nat, NEW b \in Nat, Power[a] < Power[b]
  PROVE  a < b
<1>1. a >= b => Power[b] <= Power[a]
  BY PowerGrows
<1> QED
  BY <1>1, PowerIs
=============================================================================
