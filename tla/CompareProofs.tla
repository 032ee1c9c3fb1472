---------------------------- MODULE CompareProofs ---------------------------
(***************************************************************************)
(* The comparators of the differential seam, for every format: the         *)
(* distance is a metric on the numbers and counts the numbers between, its *)
(* sentinel is the distance of no two numbers, and no verdict depends on   *)
(* which side is the reference.  And the report of a differential run says *)
(* what its rows say, for every format, tolerance and batch of any length. *)
(***************************************************************************)
EXTENDS UlpSpec, DiffSpec, NumberLemmas, FiniteSetTheorems

\* A format with a top magnitude below its sign bit.
IsFormat(f) ==
  /\ f.sign \in Nat /\ f.sign > 0
  /\ f.top \in Nat /\ f.top < f.sign

LEMMA FormatsAreFormats == \A f \in PairFormats : IsFormat(f)
  BY FormatsAssumption DEF IsFormat

-----------------------------------------------------------------------------
\* Patterns.

\* Division leaves the pattern below the sign bit.
LEMMA MagnitudeIs ==
  ASSUME NEW f, IsFormat(f), NEW b \in Bits(f)
  PROVE  /\ Magnitude(b, f) = IF IsNegative(b, f) THEN b - f.sign ELSE b
         /\ Magnitude(b, f) \in 0..(f.sign - 1)
<1> DEFINE s == f.sign
           q == b \div s
           r == b % s
<1>1. s \in Nat /\ s > 0 /\ b \in Nat /\ b < s + s
  BY DEF IsFormat, Bits
<1> HIDE DEF s
<1>2. q \in Int /\ r \in 0..(s - 1) /\ b = q * s + r
  BY <1>1
<1> HIDE DEF q, r
<1>3. q >= 2 => q * s >= s + s
  BY <1>1, <1>2
<1>4. q <= -1 => q * s <= -s
  BY <1>1, <1>2
<1>5. q = 0 \/ q = 1
  BY <1>1, <1>2, <1>3, <1>4
<1>6. (q = 0 => q * s = 0) /\ (q = 1 => q * s = s)
  BY <1>1
<1>7. r = IF b >= s THEN b - s ELSE b
  BY <1>1, <1>2, <1>5, <1>6
<1> QED
  BY <1>2, <1>7 DEF Magnitude, IsNegative, s, r

\* The key of a pattern is a pattern, and no two patterns share one.
LEMMA KeyIsInjective ==
  ASSUME NEW f, IsFormat(f), NEW a \in Bits(f), NEW b \in Bits(f)
  PROVE  /\ Key(a, f) \in Bits(f)
         /\ Key(a, f) = Key(b, f) => a = b
  BY DEF IsFormat, Bits, Key, IsNegative, Sentinel

\* Numbers have the keys between those of the two greatest magnitudes.
LEMMA KeyOfNumber ==
  ASSUME NEW f, IsFormat(f), NEW b \in Bits(f)
  PROVE  /\ Key(b, f) \in Int
         /\ ~IsNan(b, f) => Key(b, f) \in (f.sign - 1 - f.top)..(f.sign + f.top)
<1>1. /\ Magnitude(b, f) = IF IsNegative(b, f) THEN b - f.sign ELSE b
      /\ Magnitude(b, f) \in 0..(f.sign - 1)
  BY MagnitudeIs
<1> QED
  BY <1>1 DEF IsFormat, Bits, Key, IsNegative, IsNan, Sentinel

\* The distance of two numbers is that of their keys.
LEMMA DistanceOfNumbers ==
  ASSUME NEW f, IsFormat(f), NEW a \in Bits(f), NEW b \in Bits(f),
         ~IsNan(a, f), ~IsNan(b, f)
  PROVE  /\ UlpDistance(a, b, f) = AbsDiff(Key(a, f), Key(b, f))
         /\ UlpDistance(a, b, f) \in 0..(2 * f.top + 1)
<1>1. /\ Key(a, f) \in (f.sign - 1 - f.top)..(f.sign + f.top)
      /\ Key(b, f) \in (f.sign - 1 - f.top)..(f.sign + f.top)
  BY KeyOfNumber
<1> QED
  BY <1>1 DEF UlpDistance, AbsDiff, IsFormat

-----------------------------------------------------------------------------
\* The distance.

\* The distance of two patterns is the same from either side.
THEOREM DistanceIsSymmetric ==
  ASSUME NEW f, IsFormat(f), NEW a \in Bits(f), NEW b \in Bits(f)
  PROVE  UlpDistance(a, b, f) = UlpDistance(b, a, f)
<1>1. Key(a, f) \in Int /\ Key(b, f) \in Int
  BY KeyOfNumber
<1> QED
  BY <1>1 DEF UlpDistance, AbsDiff

\* Two numbers at distance zero are one pattern: the zeros of either sign are apart.
THEOREM DistanceSeparates ==
  ASSUME NEW f, IsFormat(f), NEW a \in Bits(f), NEW b \in Bits(f),
         ~IsNan(a, f), ~IsNan(b, f)
  PROVE  UlpDistance(a, b, f) = 0 <=> a = b
<1>1. Key(a, f) \in Int /\ Key(b, f) \in Int
  BY KeyOfNumber
<1>2. Key(a, f) = Key(b, f) <=> a = b
  BY KeyIsInjective
<1> QED
  BY <1>1, <1>2, DistanceOfNumbers DEF AbsDiff

\* The way through a third number is never shorter.
THEOREM DistanceIsTriangular ==
  ASSUME NEW f, IsFormat(f), NEW a \in Bits(f), NEW b \in Bits(f), NEW c \in Bits(f),
         ~IsNan(a, f), ~IsNan(b, f), ~IsNan(c, f)
  PROVE  UlpDistance(a, c, f) <= UlpDistance(a, b, f) + UlpDistance(b, c, f)
<1>1. Key(a, f) \in Int /\ Key(b, f) \in Int /\ Key(c, f) \in Int
  BY KeyOfNumber
<1> QED
  BY <1>1, DistanceOfNumbers DEF AbsDiff

\* The sentinel (u64::MAX and its siblings) marks a NaN against a number and nothing else.
\* In a format with an encoding of a NaN the largest distance of two numbers stays below it.
THEOREM SentinelMarksNan ==
  ASSUME NEW f, IsFormat(f), f.top < f.sign - 1, NEW a \in Bits(f), NEW b \in Bits(f)
  PROVE  UlpDistance(a, b, f) = Sentinel(f) <=> (IsNan(a, f) # IsNan(b, f))
<1>1. IsNan(a, f) \in BOOLEAN /\ IsNan(b, f) \in BOOLEAN
  BY DEF IsNan
<1>2. CASE ~IsNan(a, f) /\ ~IsNan(b, f)
  <2>1. UlpDistance(a, b, f) \in 0..(2 * f.top + 1)
    BY <1>2, DistanceOfNumbers
  <2>2. UlpDistance(a, b, f) # Sentinel(f)
    BY <2>1 DEF Sentinel, IsFormat
  <2> QED
    BY <1>1, <1>2, <2>2
<1>3. CASE IsNan(a, f) /\ IsNan(b, f)
  BY <1>3 DEF UlpDistance, Sentinel, IsFormat
<1>4. CASE IsNan(a, f) # IsNan(b, f)
  BY <1>1, <1>4 DEF UlpDistance
<1> QED
  BY <1>1, <1>2, <1>3, <1>4

-----------------------------------------------------------------------------
\* The verdicts of every reachable comparison.

\* The distance of two patterns is a number.
LEMMA DistanceIsNat ==
  ASSUME NEW f, f.sign \in Nat \ {0}, NEW a \in Bits(f), NEW b \in Bits(f)
  PROVE  UlpDistance(a, b, f) \in Nat
  BY DEF Bits, UlpDistance, Sentinel, AbsDiff, Key, IsNegative

\* On one side of zero the distance is that of the magnitudes.
LEMMA DistanceOnOneSide ==
  ASSUME NEW f, IsFormat(f), NEW a \in Bits(f), NEW b \in Bits(f),
         ~IsNan(a, f), ~IsNan(b, f), IsNegative(a, f) = IsNegative(b, f)
  PROVE  UlpDistance(Magnitude(a, f), Magnitude(b, f), f) = UlpDistance(a, b, f)
<1> DEFINE p == Magnitude(a, f)
           q == Magnitude(b, f)
<1>1. /\ p = IF IsNegative(a, f) THEN a - f.sign ELSE a
      /\ q = IF IsNegative(b, f) THEN b - f.sign ELSE b
      /\ p \in 0..(f.sign - 1) /\ q \in 0..(f.sign - 1)
  BY MagnitudeIs
<1>2. p <= f.top /\ q <= f.top
  BY <1>1 DEF IsNan, IsFormat
<1> HIDE DEF p, q
<1>3. p \in Bits(f) /\ q \in Bits(f)
  BY <1>1 DEF Bits, IsFormat
<1>4. ~IsNegative(p, f) /\ ~IsNegative(q, f)
  BY <1>1 DEF IsNegative, IsFormat
<1>5. Magnitude(p, f) = p /\ Magnitude(q, f) = q
  BY <1>3, <1>4, MagnitudeIs
<1>6. ~IsNan(p, f) /\ ~IsNan(q, f)
  BY <1>1, <1>2, <1>5 DEF IsNan, IsFormat
<1>7. UlpDistance(p, q, f) = AbsDiff(Key(p, f), Key(q, f))
  BY <1>3, <1>6, DistanceOfNumbers
<1>8. UlpDistance(a, b, f) = AbsDiff(Key(a, f), Key(b, f))
  BY DistanceOfNumbers
<1>9. AbsDiff(Key(p, f), Key(q, f)) = AbsDiff(Key(a, f), Key(b, f))
  BY <1>1, <1>4 DEF AbsDiff, Key, Sentinel, Bits, IsFormat, IsNegative
<1> QED
  BY <1>7, <1>8, <1>9 DEF p, q

\* Every pattern of a comparison is one of its format.
TypeOK ==
  /\ format \in PairFormats /\ compared \in BOOLEAN
  /\ expected \in Bits(format) /\ got \in Bits(format)

LEMMA Typed == PairSpec => []TypeOK
<1>1. PairInit => TypeOK
  <2> SUFFICES ASSUME PairInit PROVE TypeOK
    OBVIOUS
  <2>1. format \in PairFormats /\ IsFormat(format)
    BY FormatsAreFormats DEF PairInit
  <2>2. 0 \in Bits(format)
    BY <2>1 DEF Bits, IsFormat
  <2> QED
    BY <2>1, <2>2 DEF PairInit, TypeOK
<1>2. TypeOK /\ [PairNext]_pairVars => TypeOK'
  BY DEF TypeOK, PairNext, Compare, pairVars
<1> QED
  BY <1>1, <1>2, PTL DEF PairSpec

\* A tolerance is a number.
LEMMA ToleranceIsNat ==
  ASSUME TypeOK, NEW tol \in PairTolerances
  PROVE  tol.n \in Nat /\ tol.exact \in BOOLEAN /\ (tol.exact => tol.n = 0)
<1>1. format \in PairFormats /\ IsFormat(format)
  BY FormatsAreFormats DEF TypeOK
<1>2. Sentinel(format) \in Nat
  BY <1>1 DEF Sentinel, IsFormat
<1>3. CASE tol = Exact
  BY <1>3 DEF Exact
<1>4. CASE \E n \in Ulps \cup {Sentinel(format)} : tol = Within(n)
  BY <1>2, <1>4, UlpsAssumption DEF Within
<1> QED
  BY <1>3, <1>4 DEF PairTolerances

LEMMA ProvenanceFair == TypeOK => ProvenanceIsFair
<1> SUFFICES ASSUME TypeOK, NEW tol \in PairTolerances, NEW det \in BOOLEAN
             PROVE  /\ Verdict(det, expected, got, tol)
                         = Verdict(det, got, expected, tol)
                    /\ expected = got => Verdict(det, expected, got, tol)
                    /\ Verdict(TRUE, expected, got, tol)
                         => Verdict(FALSE, expected, got, tol)
  BY DEF ProvenanceIsFair
<1> DEFINE f == format
           a == expected
           b == got
<1>1. IsFormat(f) /\ a \in Bits(f) /\ b \in Bits(f)
  BY FormatsAreFormats DEF TypeOK
<1>2. tol.n \in Nat /\ (tol.exact => tol.n = 0)
  BY ToleranceIsNat
<1>3. UlpDistance(a, b, f) = UlpDistance(b, a, f)
  BY <1>1, DistanceIsSymmetric
<1>4. CASE IsNan(a, f) \/ IsNan(b, f)
  BY <1>4 DEF Verdict, Conforms, ComputedNanConforms, IsQuiet
<1>5. CASE ~(IsNan(a, f) \/ IsNan(b, f))
  <2>1. \A d \in BOOLEAN : /\ Verdict(d, a, b, tol) = Tolerates(tol, UlpDistance(a, b, f))
                           /\ Verdict(d, b, a, tol) = Tolerates(tol, UlpDistance(b, a, f))
    BY <1>5 DEF Verdict, Conforms
  <2>2. a = b => UlpDistance(a, b, f) = 0
    BY <1>1, <1>5, DistanceSeparates
  <2>3. a = b => Tolerates(tol, UlpDistance(a, b, f))
    BY <1>2, <2>2 DEF Tolerates
  <2> QED
    BY <1>3, <2>1, <2>3
<1> QED
  BY <1>4, <1>5

LEMMA ToleranceFair == TypeOK => ToleranceIsForNumbers
<1> SUFFICES ASSUME TypeOK, NEW tol \in PairTolerances, NEW wider \in PairTolerances, NEW det \in BOOLEAN
             PROVE  IF {expected, got} \subseteq Numbers
                    THEN tol.n <= wider.n /\ Verdict(det, expected, got, tol)
                           => Verdict(det, expected, got, wider)
                    ELSE Verdict(det, expected, got, tol)
                           = Verdict(det, expected, got, Exact)
  BY DEF ToleranceIsForNumbers
<1> DEFINE f == format
           a == expected
           b == got
<1>1. f \in PairFormats /\ IsFormat(f) /\ a \in Bits(f) /\ b \in Bits(f)
  BY FormatsAreFormats DEF TypeOK
<1>2. {a, b} \subseteq Numbers <=> ~IsNan(a, f) /\ ~IsNan(b, f)
  BY <1>1 DEF Numbers, NumbersOf
<1>3. UlpDistance(a, b, f) \in Nat
  BY <1>1, DistanceIsNat DEF IsFormat
<1>4. /\ tol.n \in Nat /\ (tol.exact => tol.n = 0)
      /\ wider.n \in Nat /\ (wider.exact => wider.n = 0)
  BY ToleranceIsNat
<1>5. CASE IsNan(a, f) \/ IsNan(b, f)
  BY <1>2, <1>5 DEF Verdict, Conforms
<1>6. CASE ~IsNan(a, f) /\ ~IsNan(b, f)
  <2>1. /\ Verdict(det, a, b, tol) = Tolerates(tol, UlpDistance(a, b, f))
        /\ Verdict(det, a, b, wider) = Tolerates(wider, UlpDistance(a, b, f))
    BY <1>6 DEF Verdict, Conforms
  <2>2. tol.n <= wider.n /\ Tolerates(tol, UlpDistance(a, b, f))
          => Tolerates(wider, UlpDistance(a, b, f))
    BY <1>3, <1>4 DEF Tolerates
  <2> QED
    BY <1>2, <1>6, <2>1, <2>2
<1> QED
  BY <1>5, <1>6

LEMMA BranchExact == TypeOK => BranchSideIsExact
<1> SUFFICES ASSUME TypeOK, NEW n \in Ulps, got \in Numbers,
                    IsZero(expected, format) \/ Magnitude(expected, format) = format.pi,
                    ArgConforms(expected, got, n, format)
             PROVE  /\ IsNegative(expected, format) = IsNegative(got, format)
                    /\ UlpDistance(expected, got, format) <= n
  BY DEF BranchSideIsExact
<1> DEFINE f == format
           a == expected
           b == got
<1>1. f \in PairFormats /\ IsFormat(f) /\ a \in Bits(f) /\ b \in Bits(f) /\ ~IsNan(b, f)
  BY FormatsAreFormats DEF TypeOK, Numbers, NumbersOf
<1>2. ~IsNan(a, f)
  BY <1>1, FormatsAssumption DEF IsZero, IsNan, IsFormat
<1>3. /\ UlpDistance(Magnitude(a, f), Magnitude(b, f), f) <= n
      /\ IsNegative(a, f) = IsNegative(b, f)
  BY DEF ArgConforms, SplitComponent, IsPiEndpoint
<1>4. UlpDistance(a, b, f) <= n
  BY <1>1, <1>2, <1>3, DistanceOnOneSide
<1> QED
  BY <1>3, <1>4

\* Whatever the formats and the tolerances, a verdict is the same from both sides, buys no
\* NaN with a tolerance and never crosses the branch cut of an angle.
THEOREM VerdictsAreFair == PairSpec => []VerdictIsFair
<1>1. TypeOK => VerdictIsFair
  BY ProvenanceFair, ToleranceFair, BranchExact DEF VerdictIsFair
<1> QED
  BY <1>1, Typed, PTL

-----------------------------------------------------------------------------
\* The values: they are placed on the line as the keys are.

\* scale doubles from one exponent to the next.
Doubles(scale, n) == scale[0] = 1 /\ \A e \in 1..n : scale[e] = 2 * scale[e - 1]

\* The exponents of a format are below its last.
LastExponent(f) == f.sign \div f.man

LEMMA ScalesDouble ==
  ASSUME NEW f, LastExponent(f) \in Nat
  PROVE  Doubles(Scales(f), LastExponent(f))
<1> DEFINE n == LastExponent(f)
           step == [k \in Nat |-> [v \in Nat |-> 2 * v]]
           body(g) == [e \in 0..(f.sign \div f.man) |-> IF e = 0 THEN 1 ELSE 2 * g[e - 1]]
           chosen == CHOOSE g : g = body(g)
<1>1. PICK g \in [0..n -> Nat] : Unrolls(g, 1, step, n)
  <2>1. step \in [Nat -> [Nat -> Nat]]
    OBVIOUS
  <2> HIDE DEF step, n
  <2>2. n \in Nat
    BY DEF n
  <2> QED
    BY <2>1, <2>2, RecursionOverInterval
<1>2. \A k \in 1..n : g[k] = 2 * g[k - 1]
  <2> TAKE k \in 1..n
  <2>1. k \in Nat /\ k - 1 \in 0..n
    OBVIOUS
  <2>2. g[k - 1] \in Nat /\ g[k] = step[k][g[k - 1]]
    BY <1>1, <2>1 DEF Unrolls
  <2> QED
    BY <2>1, <2>2
<1>3. g = body(g)
  <2>1. \A k \in 0..n : g[k] = body(g)[k]
    BY <1>1, <1>2 DEF Unrolls, LastExponent
  <2>2. g = [k \in 0..n |-> g[k]] /\ body(g) = [k \in 0..n |-> body(g)[k]]
    BY <1>1 DEF LastExponent
  <2> HIDE DEF body
  <2> QED
    BY <2>1, <2>2
<1>4. chosen = body(chosen)
  <2> HIDE DEF body
  <2> QED
    BY <1>3
<1>5. Scales(f) = chosen
  BY DEF Scales
<1>6. Doubles(chosen, n)
  <2>1. chosen[0] = body(chosen)[0] /\ \A e \in 1..n : chosen[e] = body(chosen)[e]
    BY <1>4
  <2>2. body(chosen)[0] = 1 /\ \A e \in 1..n : body(chosen)[e] = 2 * chosen[e - 1]
    <3> HIDE DEF chosen
    <3> QED
      BY DEF LastExponent
  <2> HIDE DEF chosen, body
  <2> QED
    BY <2>1, <2>2 DEF Doubles
<1> QED
  BY <1>5, <1>6

\* A doubling scale is positive and never falls.
LEMMA ScaleGrows ==
  ASSUME NEW n \in Nat, NEW scale, Doubles(scale, n)
  PROVE  \A e \in 0..n :
           /\ scale[e] \in Nat /\ scale[e] > 0
           /\ \A d \in 0..e : scale[d] <= scale[e]
<1> DEFINE Grows(e) == /\ scale[e] \in Nat /\ scale[e] > 0
                       /\ \A d \in 0..e : scale[d] <= scale[e]
           Falls == {e \in 0..n : ~Grows(e)}
<1> SUFFICES ASSUME Falls # {} PROVE FALSE
  OBVIOUS
<1>1. Falls \in SUBSET Nat
  OBVIOUS
<1> HIDE DEF Grows
<1>2. PICK e \in Falls : \A d \in Falls : e <= d
  <2> HIDE DEF Falls
  <2> QED
    BY <1>1, LeastNatural
<1>3. e # 0
  BY DEF Doubles, Grows
<1>4. e \in 1..n /\ e - 1 \in 0..n /\ e - 1 \notin Falls
  BY <1>2, <1>3
<1>5. Grows(e - 1)
  BY <1>4
<1>6. Grows(e)
  <2>1. scale[e] = 2 * scale[e - 1] /\ scale[e - 1] \in Nat /\ scale[e - 1] > 0
    BY <1>4, <1>5 DEF Grows, Doubles
  <2>2. scale[e] \in Nat /\ scale[e] > 0 /\ scale[e - 1] <= scale[e]
    BY <2>1
  <2>3. ASSUME NEW d \in 0..e
        PROVE  scale[d] <= scale[e]
    <3>1. CASE d = e
      BY <2>2, <3>1
    <3>2. CASE d # e
      <4>1. d \in 0..(e - 1)
        BY <1>4, <3>2
      <4>2. scale[d] <= scale[e - 1] /\ d \in 0..n
        BY <1>4, <1>5, <4>1 DEF Grows
      <4>3. scale[d] \in Nat
        <5>1. d \notin Falls
          BY <1>2, <1>4, <4>1
        <5> QED
          BY <4>2, <5>1 DEF Grows
      <4> QED
        BY <2>1, <2>2, <4>2, <4>3
    <3> QED
      BY <3>1, <3>2
  <2> QED
    BY <2>2, <2>3 DEF Grows
<1> QED
  BY <1>6
-----------------------------------------------------------------------------
\* The scales of a format whose exponents are numbers.
LEMMA ScalesGrow ==
  ASSUME NEW f, IsFormat(f), f.man \in Nat, f.man > 0
  PROVE  /\ LastExponent(f) \in Nat
         /\ Scales(f)[0] = 1
         /\ \A e \in 1..LastExponent(f) : Scales(f)[e] = 2 * Scales(f)[e - 1]
         /\ \A e \in 0..LastExponent(f) :
              /\ Scales(f)[e] \in Nat /\ Scales(f)[e] > 0
              /\ \A d \in 0..e : Scales(f)[d] <= Scales(f)[e]
<1>1. LastExponent(f) \in Nat
  <2> DEFINE q == f.sign \div f.man
  <2>1. q \in Int /\ f.sign % f.man \in 0..(f.man - 1) /\ f.sign = q * f.man + (f.sign % f.man)
    BY Remainder DEF IsFormat
  <2> HIDE DEF q
  <2>2. q < 0 => q * f.man <= -f.man
    BY <2>1
  <2>3. q \in Nat
    BY <2>1, <2>2 DEF IsFormat
  <2> QED
    BY <2>3 DEF q, LastExponent
<1>2. Doubles(Scales(f), LastExponent(f))
  BY <1>1, ScalesDouble
<1> QED
  BY <1>1, <1>2, ScaleGrows DEF Doubles

\* The least significand past those of the numbers with the exponent e.
Upper(f, e) == f.man * Scales(f)[e]

\* The fields of a magnitude.
LEMMA FieldsOf ==
  ASSUME NEW f, IsFormat(f), f.man \in Nat, f.man > 0, NEW v \in 0..f.sign
  PROVE  /\ v \div f.man \in 0..LastExponent(f)
         /\ v % f.man \in 0..(f.man - 1)
         /\ v = (v \div f.man) * f.man + (v % f.man)
<1> DEFINE s == f.man
           q == v \div s
           r == v % s
           p == f.sign \div s
           t == f.sign % s
<1>0. s \in Nat /\ s > 0 /\ f.sign \in Nat /\ v \in Nat /\ v <= f.sign
  BY DEF IsFormat
<1>1. q \in Int /\ r \in 0..(s - 1) /\ v = q * s + r
  BY <1>0, Remainder
<1>2. p \in Int /\ t \in 0..(s - 1) /\ f.sign = p * s + t
  <2>1. \A x \in Int : x % s \in 0..(s - 1) /\ x \div s \in Int /\ x = (x \div s) * s + (x % s)
    BY <1>0, Remainder
  <2>2. f.sign \in Int
    BY <1>0
  <2> QED
    BY <2>1, <2>2
<1> HIDE DEF q, r, p, t, s
<1>3. q < 0 => q * s <= -s
  BY <1>0, <1>1
<1>4. q >= 0
  BY <1>0, <1>1, <1>3
<1>5. q > p => q * s >= (p + 1) * s /\ (p + 1) * s = p * s + s
  BY <1>0, <1>1, <1>2
<1>6. q <= p
  BY <1>0, <1>1, <1>2, <1>5
<1>7. LastExponent(f) = p
  BY DEF LastExponent, p, s
<1>8. q \in 0..p
  BY <1>1, <1>2, <1>4, <1>6
<1> QED
  BY <1>1, <1>7, <1>8 DEF q, r, s

\* The significand a magnitude with these fields has.
SignificandOf(e, m, f) == IF e = 0 THEN m ELSE (m + f.man) * Scales(f)[e - 1]

LEMMA SignificandInExponent ==
  ASSUME NEW f, IsFormat(f), f.man \in Nat, f.man > 0,
         NEW e \in 0..LastExponent(f), NEW m \in 0..(f.man - 1)
  PROVE  /\ SignificandOf(e, m, f) \in Nat
         /\ SignificandOf(e, m, f) < Upper(f, e)
         /\ e > 0 => SignificandOf(e, m, f) >= Upper(f, e - 1)
         /\ \A l \in 0..(f.man - 1) :
              m < l => SignificandOf(e, m, f) < SignificandOf(e, l, f)
<1>1. CASE e = 0
  <2>1. Scales(f)[0] = 1
    BY ScalesGrow
  <2> QED
    BY <1>1, <2>1 DEF SignificandOf, Upper
<1>2. CASE e # 0
  <2> DEFINE c == Scales(f)[e - 1]
             n == f.man
  <2>1. e \in 1..LastExponent(f) /\ e - 1 \in 0..LastExponent(f)
    BY <1>2, ScalesGrow
  <2>2. c \in Nat /\ c > 0 /\ Scales(f)[e] = 2 * c
    BY <2>1, ScalesGrow
  <2> HIDE DEF c, n
  <2>3. n \in Nat /\ n > 0 /\ m \in 0..(n - 1)
    BY DEF n
  <2>4. (m + n) * c = m * c + n * c /\ n * (2 * c) = n * c + n * c
    BY <2>2, <2>3
  <2>5. m * c + c <= n * c /\ m * c >= 0
    <3>1. (m + 1) * c <= n * c /\ (m + 1) * c = m * c + c
      BY <2>2, <2>3
    <3> QED
      BY <2>2, <2>3, <3>1
  <2>6. n * c \in Nat /\ m * c \in Nat
    BY <2>2, <2>3
  <2>7. ASSUME NEW l \in 0..(n - 1), m < l
        PROVE  (m + n) * c < (l + n) * c
    <3>1. (l + n) * c >= (m + n + 1) * c /\ (m + n + 1) * c = (m + n) * c + c
      BY <2>2, <2>3, <2>7
    <3>2. (l + n) * c \in Nat /\ (m + n) * c \in Nat
      BY <2>2, <2>3
    <3> QED
      BY <2>2, <3>1, <3>2
  <2>8. SignificandOf(e, m, f) = (m + n) * c
    BY <1>2 DEF SignificandOf, c, n
  <2>9. \A l \in 0..(n - 1) : SignificandOf(e, l, f) = (l + n) * c
    BY <1>2 DEF SignificandOf, c, n
  <2>10. Upper(f, e) = n * (2 * c) /\ Upper(f, e - 1) = n * c
    BY <2>2 DEF Upper, c, n
  <2>11. (m + n) * c \in Nat /\ (m + n) * c < n * (2 * c) /\ (m + n) * c >= n * c
    BY <2>2, <2>4, <2>5, <2>6
  <2> QED
    BY <2>7, <2>8, <2>9, <2>10, <2>11 DEF n
<1> QED
  BY <1>1, <1>2

\* The greater magnitude has the greater significand.
LEMMA SignificandGrows ==
  ASSUME NEW f, IsFormat(f), f.man \in Nat, f.man > 0, NEW a \in Bits(f), NEW b \in Bits(f)
  PROVE  /\ Significand(a, f) \in Nat
         /\ Magnitude(a, f) = Magnitude(b, f) => Significand(a, f) = Significand(b, f)
         /\ Magnitude(a, f) < Magnitude(b, f) => Significand(a, f) < Significand(b, f)
<1> DEFINE p == Magnitude(a, f)
           q == Magnitude(b, f)
           d == p \div f.man
           e == q \div f.man
           k == p % f.man
           m == q % f.man
           n == f.man
<1>1. p \in 0..f.sign /\ q \in 0..f.sign
  BY MagnitudeIs DEF IsFormat
<1>2. /\ Significand(a, f) = SignificandOf(d, k, f)
      /\ Significand(b, f) = SignificandOf(e, m, f)
  BY DEF Significand, SignificandOf
<1>3. /\ d \in 0..LastExponent(f) /\ k \in 0..(n - 1) /\ p = d * n + k
      /\ e \in 0..LastExponent(f) /\ m \in 0..(n - 1) /\ q = e * n + m
  <2> HIDE DEF p, q
  <2> QED
    BY <1>1, FieldsOf
<1>4. n \in Nat /\ n > 0 /\ LastExponent(f) \in Nat
  BY ScalesGrow
<1> HIDE DEF p, q, d, e, k, m
<1>5. SignificandOf(d, k, f) \in Nat /\ SignificandOf(e, m, f) \in Nat
  BY <1>3, SignificandInExponent
<1>6. ASSUME p < q PROVE SignificandOf(d, k, f) < SignificandOf(e, m, f)
  <2>1. d <= e
    <3>1. d > e => d * n >= (e + 1) * n /\ (e + 1) * n = e * n + n
      BY <1>3, <1>4
    <3>2. d * n \in Int /\ e * n \in Int
      BY <1>3, <1>4
    <3> QED
      BY <1>3, <1>4, <1>6, <3>1, <3>2
  <2>2. CASE d = e
    <3>1. k < m
      <4>1. d * n = e * n /\ d * n \in Int
        BY <2>2, <1>3, <1>4
      <4> QED
        BY <1>3, <1>4, <1>6, <4>1
    <3> QED
      BY <1>3, <2>2, <3>1, SignificandInExponent
  <2>3. CASE d < e
    <3>1. e - 1 \in 0..LastExponent(f) /\ d \in 0..(e - 1) /\ e > 0
      BY <1>3, <1>4, <2>3
    <3>2. Scales(f)[d] <= Scales(f)[e - 1] /\ Scales(f)[d] \in Nat /\ Scales(f)[e - 1] \in Nat
      BY <1>3, <3>1, ScalesGrow
    <3>3. Upper(f, d) <= Upper(f, e - 1) /\ Upper(f, d) \in Nat /\ Upper(f, e - 1) \in Nat
      <4> DEFINE u == Scales(f)[d]
                 v == Scales(f)[e - 1]
      <4> HIDE DEF u, v
      <4>1. u \in Nat /\ v \in Nat /\ u <= v
        BY <3>2 DEF u, v
      <4>2. n * u <= n * v /\ n * u \in Nat /\ n * v \in Nat
        BY <1>4, <4>1
      <4> QED
        BY <4>2 DEF Upper, u, v
    <3>4. SignificandOf(d, k, f) < Upper(f, d) /\ SignificandOf(e, m, f) >= Upper(f, e - 1)
      BY <1>3, <3>1, SignificandInExponent
    <3> QED
      BY <1>5, <3>3, <3>4
  <2> QED
    BY <1>3, <2>1, <2>2, <2>3
<1>7. p = q => d = e /\ k = m
  BY DEF d, e, k, m
<1> QED
  BY <1>2, <1>5, <1>6, <1>7 DEF p, q

-----------------------------------------------------------------------------
\* The place of a number on the line, by its fields.
PlaceIn(b, f) == IF IsNegative(b, f) THEN -1 - Significand(b, f) ELSE Significand(b, f)

LEMMA PlaceIs ==
  ASSUME NEW x \in Numbers, format \in PairFormats
  PROVE  /\ Place(x) = PlaceIn(x, format)
         /\ x \in Bits(format) /\ ~IsNan(x, format)
  BY DEF Place, Values, PlaceIn, Numbers, NumbersOf

LEMMA PlacesFollowKeys ==
  ASSUME NEW f, IsFormat(f), f.man \in Nat, f.man > 0,
         NEW x \in Bits(f), NEW y \in Bits(f), Key(x, f) < Key(y, f)
  PROVE  PlaceIn(x, f) < PlaceIn(y, f)
<1>1. /\ Magnitude(x, f) = IF IsNegative(x, f) THEN x - f.sign ELSE x
      /\ Magnitude(y, f) = IF IsNegative(y, f) THEN y - f.sign ELSE y
  BY MagnitudeIs
<1>2. /\ Significand(x, f) \in Nat /\ Significand(y, f) \in Nat
      /\ Magnitude(x, f) < Magnitude(y, f) => Significand(x, f) < Significand(y, f)
      /\ Magnitude(y, f) < Magnitude(x, f) => Significand(y, f) < Significand(x, f)
  BY SignificandGrows
<1>3. x \in Nat /\ y \in Nat /\ f.sign \in Nat /\ x < 2 * f.sign /\ y < 2 * f.sign
  BY DEF Bits, IsFormat
<1>4. CASE IsNegative(x, f) /\ IsNegative(y, f)
  <2>1. Magnitude(y, f) < Magnitude(x, f)
    BY <1>1, <1>3, <1>4 DEF Key, Sentinel
  <2> QED
    BY <1>2, <1>4, <2>1 DEF PlaceIn
<1>5. CASE IsNegative(x, f) /\ ~IsNegative(y, f)
  BY <1>2, <1>5 DEF PlaceIn
<1>6. CASE ~IsNegative(x, f) /\ IsNegative(y, f)
  BY <1>3, <1>6 DEF Key, Sentinel, IsNegative
<1>7. CASE ~IsNegative(x, f) /\ ~IsNegative(y, f)
  <2>1. Magnitude(x, f) < Magnitude(y, f)
    BY <1>1, <1>3, <1>7 DEF Key
  <2> QED
    BY <1>2, <1>7, <2>1 DEF PlaceIn
<1> QED
  BY <1>4, <1>5, <1>6, <1>7

LEMMA PlaceIsInt ==
  ASSUME NEW f, IsFormat(f), f.man \in Nat, f.man > 0, NEW x \in Bits(f)
  PROVE  PlaceIn(x, f) \in Int
<1>1. Significand(x, f) \in Nat
  BY SignificandGrows
<1> QED
  BY <1>1 DEF PlaceIn

\* The keys order the patterns as their places do.
LEMMA KeysOrderPlaces ==
  ASSUME NEW f, IsFormat(f), f.man \in Nat, f.man > 0, NEW x \in Bits(f), NEW y \in Bits(f)
  PROVE  PlaceIn(x, f) < PlaceIn(y, f) <=> Key(x, f) < Key(y, f)
<1>1. Key(x, f) \in Int /\ Key(y, f) \in Int
  BY KeyOfNumber
<1>2. PlaceIn(x, f) \in Int /\ PlaceIn(y, f) \in Int
  BY PlaceIsInt
<1>3. CASE Key(x, f) < Key(y, f)
  BY <1>3, PlacesFollowKeys
<1>4. CASE Key(y, f) < Key(x, f)
  <2>1. PlaceIn(y, f) < PlaceIn(x, f)
    BY <1>4, PlacesFollowKeys
  <2> QED
    BY <1>1, <1>2, <1>4, <2>1
<1>5. CASE Key(x, f) = Key(y, f)
  <2>1. x = y
    BY <1>5, KeyIsInjective
  <2> QED
    BY <1>1, <1>2, <2>1
<1> QED
  BY <1>1, <1>3, <1>4, <1>5

\* Every key between those of the two greatest magnitudes is a number's.
LEMMA EveryKeyIsTaken ==
  ASSUME NEW f, IsFormat(f), NEW k \in (f.sign - 1 - f.top)..(f.sign + f.top)
  PROVE  \E x \in Bits(f) : ~IsNan(x, f) /\ Key(x, f) = k
<1> DEFINE x == IF k >= f.sign THEN k - f.sign ELSE Sentinel(f) - k
<1>1. f.sign \in Nat /\ f.top \in Nat /\ f.top < f.sign /\ k \in Int
  BY DEF IsFormat
<1>2. x \in Bits(f)
  BY <1>1 DEF Bits, Sentinel
<1>3. IsNegative(x, f) <=> k < f.sign
  BY <1>1 DEF IsNegative, Sentinel
<1>4. Key(x, f) = k
  BY <1>1, <1>3 DEF Key, Sentinel
<1>5. Magnitude(x, f) = IF k >= f.sign THEN k - f.sign ELSE f.sign - 1 - k
  <2>1. Magnitude(x, f) = IF IsNegative(x, f) THEN x - f.sign ELSE x
    <3> HIDE DEF x
    <3> QED
      BY <1>2, MagnitudeIs
  <2> QED
    BY <1>1, <1>3, <2>1 DEF Sentinel
<1>6. ~IsNan(x, f)
  BY <1>1, <1>5 DEF IsNan
<1> HIDE DEF x
<1> QED
  BY <1>2, <1>4, <1>6

\* The numbers past one key and up to another are as many as the keys are apart.
LEMMA NumbersBetween ==
  ASSUME NEW f, IsFormat(f),
         NEW a \in Bits(f), ~IsNan(a, f), NEW b \in Bits(f), ~IsNan(b, f),
         Key(a, f) <= Key(b, f)
  PROVE  Cardinality({x \in Bits(f) :
            ~IsNan(x, f) /\ Key(a, f) < Key(x, f) /\ Key(x, f) <= Key(b, f)})
           = Key(b, f) - Key(a, f)
<1> DEFINE S == {x \in Bits(f) :
                   ~IsNan(x, f) /\ Key(a, f) < Key(x, f) /\ Key(x, f) <= Key(b, f)}
           lo == Key(a, f)
           hi == Key(b, f)
           T == (lo + 1)..hi
           g == [x \in S |-> Key(x, f)]
<1>1. /\ lo \in (f.sign - 1 - f.top)..(f.sign + f.top) /\ lo \in Int
      /\ hi \in (f.sign - 1 - f.top)..(f.sign + f.top) /\ hi \in Int
      /\ f.sign \in Nat /\ f.top \in Nat
  BY KeyOfNumber DEF IsFormat
<1>2. \A x \in S : x \in Bits(f) /\ Key(x, f) \in T
  <2> TAKE x \in S
  <2>1. Key(x, f) \in Int
    BY KeyOfNumber
  <2> QED
    BY <1>1, <2>1
<1>3. g \in Injection(S, T)
  <2>1. g \in [S -> T]
    BY <1>2
  <2>2. \A x, y \in S : g[x] = g[y] => x = y
    BY <1>2, KeyIsInjective
  <2> QED
    BY <2>1, <2>2 DEF Injection, IsInjective
<1>4. g \in Surjection(S, T)
  <2>1. g \in [S -> T]
    BY <1>2
  <2>2. ASSUME NEW k \in T
        PROVE  \E x \in S : g[x] = k
    <3>1. k \in (f.sign - 1 - f.top)..(f.sign + f.top) /\ lo < k /\ k <= hi
      BY <1>1
    <3>2. PICK x \in Bits(f) : ~IsNan(x, f) /\ Key(x, f) = k
      BY <3>1, EveryKeyIsTaken
    <3>3. x \in S
      BY <3>1, <3>2
    <3> QED
      BY <3>2, <3>3
  <2> QED
    BY <2>1, <2>2 DEF Surjection
<1>5. IsFiniteSet(T) /\ Cardinality(T) = hi - lo
  <2> HIDE DEF lo, hi
  <2>1. lo + 1 \in Int /\ hi \in Int
    BY <1>1
  <2>2. IsFiniteSet(T) /\ Cardinality(T) = IF lo + 1 > hi THEN 0 ELSE hi - (lo + 1) + 1
    BY <2>1, FS_Interval
  <2>3. lo <= hi
    BY DEF lo, hi
  <2> QED
    BY <1>1, <2>2, <2>3
<1> HIDE DEF S, T, g
<1>6. Cardinality(S) = Cardinality(T)
  BY <1>3, <1>4, <1>5, FS_Injection
<1> QED
  BY <1>5, <1>6 DEF S

\* What lies past one number and up to another on the line does by the keys.
LEMMA PlacesBetween ==
  ASSUME TypeOK, NEW a \in Numbers, NEW b \in Numbers
  PROVE  {x \in Numbers : Place(a) < Place(x) /\ Place(x) <= Place(b)}
           = {x \in Bits(format) : ~IsNan(x, format)
                /\ Key(a, format) < Key(x, format) /\ Key(x, format) <= Key(b, format)}
<1> DEFINE f == format
<1>1. f \in PairFormats /\ IsFormat(f) /\ f.man \in Nat /\ f.man > 0
  BY FormatsAreFormats, FormatsAssumption DEF TypeOK
<1>2. Numbers = {x \in Bits(f) : ~IsNan(x, f)}
  BY <1>1 DEF Numbers, NumbersOf
<1>3. ASSUME NEW x \in Numbers
      PROVE  (Place(a) < Place(x) /\ Place(x) <= Place(b))
               <=> (Key(a, f) < Key(x, f) /\ Key(x, f) <= Key(b, f))
  <2>1. a \in Bits(f) /\ b \in Bits(f) /\ x \in Bits(f)
    BY <1>2
  <2>2. Place(a) = PlaceIn(a, f) /\ Place(b) = PlaceIn(b, f) /\ Place(x) = PlaceIn(x, f)
    BY <1>1, PlaceIs
  <2>3. /\ PlaceIn(a, f) < PlaceIn(x, f) <=> Key(a, f) < Key(x, f)
        /\ PlaceIn(b, f) < PlaceIn(x, f) <=> Key(b, f) < Key(x, f)
    BY <1>1, <2>1, KeysOrderPlaces
  <2>4. PlaceIn(b, f) \in Int /\ PlaceIn(x, f) \in Int /\ Key(b, f) \in Int /\ Key(x, f) \in Int
    BY <1>1, <2>1, PlaceIsInt, KeyOfNumber
  <2> QED
    BY <2>2, <2>3, <2>4
<1> QED
  BY <1>2, <1>3

LEMMA DistanceCounts ==
  ASSUME TypeOK, NEW a \in Numbers, NEW b \in Numbers
  PROVE  UlpDistance(a, b, format) =
           Cardinality({x \in Numbers :
             \/ Place(a) < Place(x) /\ Place(x) <= Place(b)
             \/ Place(b) < Place(x) /\ Place(x) <= Place(a)})
<1> DEFINE f == format
           Past(u, v) == {x \in Numbers : Place(u) < Place(x) /\ Place(x) <= Place(v)}
           Apart == {x \in Numbers : \/ Place(a) < Place(x) /\ Place(x) <= Place(b)
                                     \/ Place(b) < Place(x) /\ Place(x) <= Place(a)}
<1>1. f \in PairFormats /\ IsFormat(f)
  BY FormatsAreFormats DEF TypeOK
<1>2. a \in Bits(f) /\ ~IsNan(a, f) /\ b \in Bits(f) /\ ~IsNan(b, f)
  BY <1>1 DEF Numbers, NumbersOf
<1>3. Key(a, f) \in Int /\ Key(b, f) \in Int /\ UlpDistance(a, b, f) = AbsDiff(Key(a, f), Key(b, f))
  BY <1>1, <1>2, KeyOfNumber, DistanceOfNumbers
<1>4. /\ Past(a, b) = {x \in Bits(f) :
           ~IsNan(x, f) /\ Key(a, f) < Key(x, f) /\ Key(x, f) <= Key(b, f)}
      /\ Past(b, a) = {x \in Bits(f) :
           ~IsNan(x, f) /\ Key(b, f) < Key(x, f) /\ Key(x, f) <= Key(a, f)}
  BY PlacesBetween
<1>5. Apart = Past(a, b) \cup Past(b, a)
  OBVIOUS
<1>6. /\ Key(b, f) <= Key(a, f) => Past(a, b) = {}
      /\ Key(a, f) <= Key(b, f) => Past(b, a) = {}
  <2>1. \A x \in Bits(f) : Key(x, f) \in Int
    BY <1>1, KeyOfNumber
  <2> HIDE DEF Past
  <2> QED
    BY <1>3, <1>4, <2>1
<1>7. /\ Key(a, f) <= Key(b, f) => Cardinality(Past(a, b)) = Key(b, f) - Key(a, f)
      /\ Key(b, f) <= Key(a, f) => Cardinality(Past(b, a)) = Key(a, f) - Key(b, f)
  BY <1>1, <1>2, <1>4, NumbersBetween
<1> HIDE DEF Past, Apart
<1>8. CASE Key(a, f) <= Key(b, f)
  <2>1. Apart = Past(a, b)
    BY <1>5, <1>6, <1>8
  <2>2. AbsDiff(Key(a, f), Key(b, f)) = Key(b, f) - Key(a, f)
    BY <1>3, <1>8 DEF AbsDiff
  <2> QED
    BY <1>3, <1>7, <1>8, <2>1, <2>2 DEF Apart
<1>9. CASE Key(b, f) <= Key(a, f)
  <2>1. Apart = Past(b, a)
    BY <1>5, <1>6, <1>9
  <2>2. AbsDiff(Key(a, f), Key(b, f)) = Key(a, f) - Key(b, f)
    BY <1>3, <1>9 DEF AbsDiff
  <2> QED
    BY <1>3, <1>7, <1>9, <2>1, <2>2 DEF Apart
<1> QED
  BY <1>3, <1>8, <1>9

\* Whatever the formats, the distance of two numbers is how many numbers of the format lie
\* past the smaller and up to the greater on the line of values, and the sentinel is the
\* distance of a number and a NaN alone.
THEOREM DistancesCountNumbers == PairSpec => []DistanceCountsNumbers
<1>1. TypeOK => DistanceCountsNumbers
  <2> SUFFICES ASSUME TypeOK PROVE DistanceCountsNumbers
    OBVIOUS
  <2>1. format \in PairFormats /\ IsFormat(format) /\ format.top < format.sign - 1
    BY FormatsAreFormats, FormatsAssumption DEF TypeOK
  <2>2. expected \in Bits(format) /\ got \in Bits(format)
    BY DEF TypeOK
  <2>3. \A x \in Bits(format) : x \in Numbers <=> ~IsNan(x, format)
    BY <2>1 DEF Numbers, NumbersOf
  <2>4. UlpDistance(expected, got, format) = Sentinel(format)
          <=> ((expected \in Numbers) # (got \in Numbers))
    <3>1. UlpDistance(expected, got, format) = Sentinel(format)
            <=> (IsNan(expected, format) # IsNan(got, format))
      BY <2>1, <2>2, SentinelMarksNan
    <3>2. IsNan(expected, format) \in BOOLEAN /\ IsNan(got, format) \in BOOLEAN
      BY DEF IsNan
    <3> QED
      BY <2>2, <2>3, <3>1, <3>2
  <2>5. expected \in Numbers /\ got \in Numbers =>
          UlpDistance(expected, got, format) =
            Cardinality({b \in Numbers :
              \/ Place(expected) < Place(b) /\ Place(b) <= Place(got)
              \/ Place(got) < Place(b) /\ Place(b) <= Place(expected)})
    BY DistanceCounts
  <2> QED
    BY <2>4, <2>5 DEF DistanceCountsNumbers
<1> QED
  BY <1>1, Typed, PTL

-----------------------------------------------------------------------------
\* The rows of a report.

\* What conforms has its NaN where the reference has, and a distance within the tolerance,
\* a NaN's being zero.
LEMMA ConformingIsNear ==
  ASSUME NEW f, f.sign \in Nat \ {0}, f.top \in Nat, NEW a \in Bits(f), NEW b \in Bits(f),
         NEW det, NEW tol, tol.n \in Nat, Conforms(det, a, b, tol, f)
  PROVE  IsNan(a, f) = IsNan(b, f) /\ UlpDistance(a, b, f) <= tol.n
<1>1. UlpDistance(a, b, f) \in Nat
  BY DistanceIsNat
<1> DEFINE na == IsNan(a, f)
           nb == IsNan(b, f)
<1>n. na \in BOOLEAN /\ nb \in BOOLEAN
  BY DEF Bits, IsNan, Magnitude
<1>2. CASE IsNan(a, f) \/ IsNan(b, f)
  <2>1. IsNan(a, f) /\ IsNan(b, f)
    BY <1>2 DEF Conforms, ComputedNanConforms
  <2>2. UlpDistance(a, b, f) = 0
    BY <2>1 DEF UlpDistance
  <2> HIDE DEF na, nb
  <2> QED
    BY <2>1, <2>2 DEF na, nb
<1>3. CASE ~(IsNan(a, f) \/ IsNan(b, f))
  <2>1. Tolerates(tol, UlpDistance(a, b, f))
    BY <1>3 DEF Conforms
  <2>2. UlpDistance(a, b, f) <= tol.n
    BY <1>1, <2>1 DEF Tolerates
  <2>3. ~na /\ ~nb
    BY <1>3
  <2> HIDE DEF na, nb
  <2>4. na = nb
    BY <1>n, <2>3
  <2> QED
    BY <2>2, <2>4 DEF na, nb
<1> QED
  BY <1>2, <1>3

-----------------------------------------------------------------------------
(***************************************************************************)
(* The inductive invariant.                                                *)
(***************************************************************************)

\* What is compared is what the caller gave.
CallIsTyped ==
  /\ call.format \in Formats /\ call.tol \in Tolerances
  /\ call.rows \in Seq(RowsOf(call.format)) /\ call.candidate \in Seq(Bits(call.format))

\* The outputs evaluated are the values of the first rows.
ReferenceIsOfTheRows ==
  /\ reference \in Seq(Bits(call.format)) /\ Len(reference) <= Len(call.rows)
  /\ \A i \in 1..Len(reference) : call.rows[i].ok /\ reference[i] = call.rows[i].value

ReportIsTyped ==
  /\ report.n \in Nat /\ report.mismatches \in Nat /\ report.max_ulp \in Nat
  /\ report = [n |-> report.n, mismatches |-> report.mismatches,
               max_ulp |-> report.max_ulp, first_mismatch |-> report.first_mismatch]

\* Nothing is compared before every row is evaluated.
Phases ==
  /\ row \in 0..Len(reference)
  /\ status \in {"evaluating", "comparing", "returned", "declined"}
  /\ status \in {"evaluating", "declined"} => row = 0 /\ report = NoReport
  /\ status \in {"comparing", "returned"} =>
       /\ Len(reference) = Len(call.rows) /\ Len(call.candidate) = Len(reference)
       /\ report.n = Len(reference)
  /\ status = "returned" => row = report.n

RunInv ==
  /\ CallIsTyped /\ ReferenceIsOfTheRows /\ ReportIsTyped /\ Phases
  /\ ReportIsOfTheRows /\ FirstFaultWins

LEMMA RunInvInit ==
  ASSUME RunsAreWellFormed, Init
  PROVE  RunInv
<1>1. CallIsTyped
  BY DEF Init, CallIsTyped, RunsAreWellFormed
<1>2. /\ reference = <<>> /\ row = 0 /\ report = NoReport /\ status = "evaluating"
      /\ Len(reference) = 0
  BY DEF Init
<1>3. ReferenceIsOfTheRows /\ Phases
  BY <1>1, <1>2 DEF ReferenceIsOfTheRows, Phases, CallIsTyped
<1>4. ReportIsTyped
  BY <1>2 DEF ReportIsTyped, NoReport
<1>5. ReportIsOfTheRows
  <2>1. 1..row = {} /\ Wrong = {}
    BY <1>2 DEF Wrong
  <2>2. Cardinality(Wrong) = 0
    BY <2>1, FS_EmptySet
  <2> QED
    BY <1>2, <2>1, <2>2 DEF ReportIsOfTheRows, NoReport
<1>6. FirstFaultWins
  BY <1>2 DEF FirstFaultWins
<1> QED
  BY <1>1, <1>3, <1>4, <1>5, <1>6 DEF RunInv

\* While no row is compared the report is that of no rows.
LEMMA NothingComparedYet ==
  ASSUME row' = 0, report' = [NoReport EXCEPT !.n = report'.n]
  PROVE  ReportIsOfTheRows'
<1>1. 1..row' = {} /\ Wrong' = {}
  BY DEF Wrong
<1>2. Cardinality(Wrong') = 0
  BY <1>1, FS_EmptySet
<1>3. report'.mismatches = 0 /\ report'.max_ulp = 0 /\ report'.first_mismatch = <<>>
  BY DEF NoReport
<1> QED
  BY <1>1, <1>2, <1>3 DEF ReportIsOfTheRows

\* The least of the numbers of a set.
LEMMA MinIs ==
  ASSUME NEW S \in SUBSET Nat, NEW k \in S, \A i \in S : k <= i
  PROVE  Min(S) = k
<1> DEFINE m == Min(S)
<1>1. m \in S /\ \A i \in S : m <= i
  BY DEF Min
<1> HIDE DEF m
<1>2. m = k
  BY <1>1
<1> QED
  BY <1>2 DEF m

\* Both values of a row are patterns, its distance is a number.
LEMMA RowFacts ==
  ASSUME RunsAreWellFormed, RunInv, status \in {"comparing", "returned"},
         NEW i \in 1..Len(reference)
  PROVE  /\ call.format.sign \in Nat \ {0} /\ call.format.top \in Nat /\ call.tol.n \in Nat
         /\ reference[i] \in Bits(call.format) /\ call.candidate[i] \in Bits(call.format)
         /\ reference[i] = call.rows[i].value
         /\ Distance(i) \in Nat
<1>1. call.format.sign \in Nat \ {0} /\ call.format.top \in Nat /\ call.tol.n \in Nat
  BY DEF RunInv, CallIsTyped, RunsAreWellFormed
<1>2. reference[i] \in Bits(call.format) /\ reference[i] = call.rows[i].value
  BY DEF RunInv, ReferenceIsOfTheRows
<1>3. call.candidate[i] \in Bits(call.format)
  <2>1. call.candidate \in Seq(Bits(call.format)) /\ i \in 1..Len(call.candidate)
    BY DEF RunInv, CallIsTyped, Phases
  <2> QED
    BY <2>1
<1> QED
  BY <1>1, <1>2, <1>3, DistanceIsNat DEF Distance

LEMMA EvaluateStep ==
  ASSUME RunsAreWellFormed, RunInv, Evaluate
  PROVE  RunInv'
<1> DEFINE k == Len(reference) + 1
           r == call.rows[k]
<1>1. /\ status = "evaluating" /\ Len(reference) # Len(call.rows)
      /\ row = 0 /\ report = NoReport
      /\ UNCHANGED <<call, row, report>>
  BY DEF Evaluate, Evaluated, RunInv, Phases
<1>2. /\ call.rows \in Seq(RowsOf(call.format)) /\ reference \in Seq(Bits(call.format))
      /\ Len(reference) \in Nat /\ Len(call.rows) \in Nat /\ Len(reference) < Len(call.rows)
  BY <1>1 DEF RunInv, CallIsTyped, ReferenceIsOfTheRows
<1>3. k \in 1..Len(call.rows) /\ r \in RowsOf(call.format)
  BY <1>2
<1>4. CallIsTyped' /\ ReportIsTyped'
  BY <1>1 DEF RunInv, CallIsTyped, ReportIsTyped
<1>5. ReportIsOfTheRows'
  <2>1. row' = 0 /\ report' = [NoReport EXCEPT !.n = report'.n]
    BY <1>1 DEF NoReport
  <2> QED
    BY <2>1, NothingComparedYet
<1>6. CASE r.ok
  <2>1. /\ reference' = Append(reference, r.value) /\ UNCHANGED <<status, error>>
        /\ r.value \in Bits(call.format)
    BY <1>3, <1>6 DEF Evaluate, RowsOf
  <2>2. ReferenceIsOfTheRows'
    <3>1. /\ reference' \in Seq(Bits(call.format)) /\ Len(reference') = k
          /\ \A i \in 1..Len(reference) : reference'[i] = reference[i]
          /\ reference'[k] = r.value
      BY <1>2, <2>1
    <3>2. ASSUME NEW i \in 1..k
          PROVE  call.rows[i].ok /\ reference'[i] = call.rows[i].value
      <4>1. CASE i = k
        BY <3>1, <4>1, <1>6
      <4>2. CASE i # k
        <5>1. i \in 1..Len(reference)
          BY <4>2, <1>2
        <5> QED
          BY <5>1, <3>1 DEF RunInv, ReferenceIsOfTheRows
      <4> QED
        BY <4>1, <4>2
    <3> HIDE DEF k, r
    <3> QED
      BY <1>1, <1>2, <1>3, <3>1, <3>2 DEF ReferenceIsOfTheRows
  <2>3. Phases' /\ FirstFaultWins'
    BY <1>1, <1>2, <2>1, <2>2 DEF Phases, FirstFaultWins, ReferenceIsOfTheRows
  <2> QED
    BY <1>4, <1>5, <2>2, <2>3 DEF RunInv
<1>7. CASE ~r.ok
  <2>1. /\ status' = "declined" /\ error' = r.error /\ UNCHANGED reference
    BY <1>7 DEF Evaluate
  <2>2. ReferenceIsOfTheRows' /\ Phases'
    BY <1>1, <2>1 DEF RunInv, ReferenceIsOfTheRows, Phases
  <2>3. FirstFaultWins'
    <3> DEFINE bad == {i \in DOMAIN call.rows : ~call.rows[i].ok}
    <3>1. DOMAIN call.rows = 1..Len(call.rows)
      BY <1>2
    <3>2. k \in bad
      BY <1>3, <1>7, <3>1
    <3>3. \A i \in bad : i \in Nat /\ k <= i
      <4> SUFFICES ASSUME NEW i \in bad, i < k PROVE FALSE
        BY <1>2, <3>1
      <4>1. i \in 1..Len(reference)
        BY <1>2, <3>1
      <4> QED
        BY <4>1 DEF RunInv, ReferenceIsOfTheRows
    <3>4. Min(bad) = k
      <4> HIDE DEF bad, k
      <4> QED
        BY <3>2, <3>3, MinIs
    <3>5. bad # {} /\ error' = call.rows[Min(bad)].error
      BY <2>1, <3>2, <3>4
    <3> QED
      BY <1>1, <2>1, <3>5 DEF FirstFaultWins
  <2> QED
    BY <1>4, <1>5, <2>2, <2>3 DEF RunInv
<1> QED
  BY <1>6, <1>7

\* Once all rows are evaluated none is bad.
LEMMA AllGood ==
  ASSUME RunInv, Len(reference) = Len(call.rows)
  PROVE  {i \in DOMAIN call.rows : ~call.rows[i].ok} = {}
<1>1. DOMAIN call.rows = 1..Len(reference)
  BY DEF RunInv, CallIsTyped
<1> QED
  BY <1>1 DEF RunInv, ReferenceIsOfTheRows

LEMMA DeclineLengthStep ==
  ASSUME RunInv, DeclineLength
  PROVE  RunInv'
<1>1. /\ Len(reference) = Len(call.rows) /\ Len(call.candidate) # Len(call.rows)
      /\ status = "evaluating" /\ row = 0 /\ report = NoReport
      /\ status' = "declined" /\ error' = "LengthMismatch"
      /\ UNCHANGED <<call, reference, row, report>>
  BY DEF DeclineLength, Evaluated, RunInv, Phases
<1>2. CallIsTyped' /\ ReportIsTyped' /\ ReferenceIsOfTheRows' /\ Phases'
  BY <1>1 DEF RunInv, CallIsTyped, ReportIsTyped, ReferenceIsOfTheRows, Phases
<1>3. ReportIsOfTheRows'
  <2>1. row' = 0 /\ report' = [NoReport EXCEPT !.n = report'.n]
    BY <1>1 DEF NoReport
  <2> QED
    BY <2>1, NothingComparedYet
<1>4. FirstFaultWins'
  BY <1>1, AllGood DEF FirstFaultWins
<1> QED
  BY <1>2, <1>3, <1>4 DEF RunInv

LEMMA StartStep ==
  ASSUME RunInv, Start
  PROVE  RunInv'
<1>1. /\ Len(reference) = Len(call.rows) /\ Len(call.candidate) = Len(reference)
      /\ status = "evaluating" /\ row = 0 /\ Len(reference) \in Nat
      /\ status' = "comparing" /\ report' = [NoReport EXCEPT !.n = Len(reference)]
      /\ UNCHANGED <<call, error, reference, row>>
  BY DEF Start, Evaluated, RunInv, Phases, ReferenceIsOfTheRows
<1>2. /\ report'.n = Len(reference) /\ report'.mismatches = 0 /\ report'.max_ulp = 0
      /\ report' = [NoReport EXCEPT !.n = report'.n]
  BY <1>1 DEF NoReport
<1>3. CallIsTyped' /\ ReportIsTyped' /\ ReferenceIsOfTheRows' /\ Phases'
  BY <1>1, <1>2 DEF RunInv, CallIsTyped, ReportIsTyped, ReferenceIsOfTheRows, Phases, NoReport
<1>4. ReportIsOfTheRows'
  BY <1>1, <1>2, NothingComparedYet
<1>5. FirstFaultWins'
  BY <1>1 DEF FirstFaultWins
<1> QED
  BY <1>3, <1>4, <1>5 DEF RunInv

LEMMA ReturnStep ==
  ASSUME RunInv, Return
  PROVE  RunInv'
<1>1. /\ status = "comparing" /\ row = report.n /\ status' = "returned"
      /\ UNCHANGED <<call, error, reference, row, report>>
      /\ Len(reference) = Len(call.rows) /\ Len(call.candidate) = Len(reference)
      /\ report.n = Len(reference)
  BY DEF Return, RunInv, Phases
<1>2. CallIsTyped' /\ ReportIsTyped' /\ ReferenceIsOfTheRows' /\ Phases'
  BY <1>1 DEF RunInv, CallIsTyped, ReportIsTyped, ReferenceIsOfTheRows, Phases
<1>3. ReportIsOfTheRows'
  BY <1>1 DEF RunInv, ReportIsOfTheRows, Wrong, Accepted, Distance, Shown
<1>4. FirstFaultWins'
  BY <1>1, AllGood DEF FirstFaultWins
<1> QED
  BY <1>2, <1>3, <1>4 DEF RunInv

\* One more row: the count, the worst distance and the first failure take it in.
LEMMA CompareRowStep ==
  ASSUME RunsAreWellFormed, RunInv, CompareRow
  PROVE  RunInv'
<1> DEFINE i == row + 1
           d == Distance(i)
           first == IF report.first_mismatch = <<>>
                    THEN <<i, Shown(reference[i]), Shown(call.candidate[i])>> ELSE report.first_mismatch
<1>1. /\ status = "comparing" /\ row \in Nat /\ row < report.n /\ row' = i
      /\ report' = Reported(report, i)
      /\ Len(reference) = Len(call.rows) /\ Len(call.candidate) = Len(reference)
      /\ report.n = Len(reference) /\ Len(reference) \in Nat
      /\ UNCHANGED <<call, status, error, reference>>
  BY DEF CompareRow, RunInv, Phases, ReferenceIsOfTheRows
<1>2. i \in 1..Len(reference) /\ 1..i = 1..row \cup {i} /\ i \notin 1..row
  BY <1>1
<1>3. d \in Nat /\ \A j \in 1..row : Distance(j) \in Nat /\ j \in 1..Len(reference)
  BY <1>1, <1>2, RowFacts
<1>4. \A j : Accepted(j)' = Accepted(j) /\ Distance(j)' = Distance(j)
  BY <1>1 DEF Accepted, Distance
<1>5. report.mismatches \in Nat /\ report.max_ulp \in Nat
  BY DEF RunInv, ReportIsTyped
<1>6. /\ report'.n = report.n
      /\ report'.max_ulp = IF d > report.max_ulp THEN d ELSE report.max_ulp
      /\ report'.mismatches = IF Accepted(i) THEN report.mismatches ELSE report.mismatches + 1
      /\ report'.first_mismatch = IF Accepted(i) THEN report.first_mismatch ELSE first
      /\ report' = [n |-> report'.n, mismatches |-> report'.mismatches,
                    max_ulp |-> report'.max_ulp, first_mismatch |-> report'.first_mismatch]
  <2>1. report = [n |-> report.n, mismatches |-> report.mismatches,
                  max_ulp |-> report.max_ulp, first_mismatch |-> report.first_mismatch]
    BY DEF RunInv, ReportIsTyped
  <2> HIDE DEF i
  <2> QED
    BY <1>1, <2>1 DEF Reported
<1>7. Wrong' = IF Accepted(i) THEN Wrong ELSE Wrong \cup {i}
  <2>1. Wrong' = {j \in 1..i : ~Accepted(j)}
    BY <1>1, <1>4 DEF Wrong
  <2> HIDE DEF i
  <2> QED
    BY <1>2, <2>1 DEF Wrong
<1>8. IsFiniteSet(Wrong) /\ i \notin Wrong /\ \A j \in Wrong : j \in 1..row
  <2>1. IsFiniteSet(1..row)
    BY <1>1, FS_Interval
  <2>2. Wrong \subseteq 1..row
    BY DEF Wrong
  <2> QED
    BY <1>2, <2>1, <2>2, FS_Subset
<1>9. /\ report.mismatches = Cardinality(Wrong)
      /\ \A j \in 1..row : Distance(j) <= report.max_ulp
      /\ report.max_ulp = 0 \/ \E j \in 1..row : Distance(j) = report.max_ulp
      /\ Wrong = {} <=> report.first_mismatch = <<>>
      /\ Wrong # {} =>
           /\ report.first_mismatch[1] \in Wrong
           /\ \A j \in Wrong : report.first_mismatch[1] <= j
           /\ report.first_mismatch = <<report.first_mismatch[1],
                                        Shown(call.rows[report.first_mismatch[1]].value),
                                        Shown(call.candidate[report.first_mismatch[1]])>>
  BY DEF RunInv, ReportIsOfTheRows
<1>10. reference[i] = call.rows[i].value
  BY <1>2 DEF RunInv, ReferenceIsOfTheRows
<1>11. CallIsTyped' /\ ReferenceIsOfTheRows' /\ Phases'
  BY <1>1, <1>2, <1>6 DEF RunInv, CallIsTyped, ReferenceIsOfTheRows, Phases
<1>12. ReportIsTyped' /\ FirstFaultWins'
  BY <1>1, <1>3, <1>5, <1>6 DEF RunInv, ReportIsTyped, FirstFaultWins
<1>13. report'.mismatches = Cardinality(Wrong')
  <2> HIDE DEF i
  <2>1. Cardinality(Wrong \cup {i}) = Cardinality(Wrong) + 1
    BY <1>8, FS_AddElement
  <2>2. Cardinality(Wrong') = IF Accepted(i) THEN Cardinality(Wrong) ELSE Cardinality(Wrong) + 1
    BY <1>7, <2>1
  <2> QED
    BY <1>6, <1>9, <2>2
<1>14. /\ \A j \in 1..i : Distance(j) <= report'.max_ulp
       /\ report'.max_ulp = 0 \/ \E j \in 1..i : Distance(j) = report'.max_ulp
  <2> HIDE DEF d, i
  <2>1. d = Distance(i)
    BY DEF d
  <2> QED
    BY <1>2, <1>3, <1>5, <1>6, <1>9, <2>1
<1>15. /\ Wrong' = {} <=> report'.first_mismatch = <<>>
       /\ Wrong' # {} =>
            /\ report'.first_mismatch[1] \in Wrong'
            /\ \A j \in Wrong' : report'.first_mismatch[1] <= j
            /\ report'.first_mismatch = <<report'.first_mismatch[1],
                                          Shown(call.rows[report'.first_mismatch[1]].value),
                                          Shown(call.candidate[report'.first_mismatch[1]])>>
  <2>1. CASE Accepted(i)
    BY <2>1, <1>6, <1>7, <1>9
  <2>2. CASE ~Accepted(i) /\ Wrong = {}
    <3> DEFINE one == <<i, Shown(reference[i]), Shown(call.candidate[i])>>
    <3>1. report'.first_mismatch = one /\ Wrong' = {i}
      BY <2>2, <1>6, <1>7, <1>9
    <3>2. one # <<>> /\ one[1] = i /\ i \in Nat
      BY <1>1
    <3> HIDE DEF i
    <3> QED
      BY <3>1, <3>2, <1>10
  <2>3. CASE ~Accepted(i) /\ Wrong # {}
    <3>1. report'.first_mismatch = report.first_mismatch /\ Wrong' = Wrong \cup {i}
      BY <2>3, <1>6, <1>7, <1>9
    <3>2. report.first_mismatch[1] \in 1..row
      BY <2>3, <1>8, <1>9
    <3>3. report.first_mismatch[1] <= i
      BY <3>2, <1>1
    <3> HIDE DEF i
    <3> QED
      BY <2>3, <3>1, <3>3, <1>9
  <2> QED
    BY <2>1, <2>2, <2>3
<1>16. ReportIsOfTheRows'
  BY <1>1, <1>4, <1>13, <1>14, <1>15 DEF ReportIsOfTheRows, Shown
<1> QED
  BY <1>11, <1>12, <1>16 DEF RunInv

LEMMA RunInvStep ==
  ASSUME RunsAreWellFormed, RunInv, [Next]_vars
  PROVE  RunInv'
<1>1. CASE Next
  BY <1>1, EvaluateStep, DeclineLengthStep, StartStep, CompareRowStep, ReturnStep DEF Next
<1>2. CASE UNCHANGED vars
  BY <1>2 DEF vars, RunInv, CallIsTyped, ReferenceIsOfTheRows, ReportIsTyped, Phases,
              ReportIsOfTheRows, FirstFaultWins, Wrong, Accepted, Distance, Shown
<1> QED
  BY <1>1, <1>2

\* A report without a mismatch is a report of accepted rows only, and what is accepted is
\* near.
LEMMA CleanReports ==
  ASSUME RunsAreWellFormed, RunInv
  PROVE  CleanReportIsTrue
<1> SUFFICES ASSUME status = "returned", report.mismatches = 0
             PROVE  /\ report.max_ulp <= call.tol.n
                    /\ \A i \in 1..report.n : IsNan(reference[i], call.format)
                                              = IsNan(call.candidate[i], call.format)
  BY DEF CleanReportIsTrue
<1>1. row = report.n /\ report.n = Len(reference) /\ row \in Nat
  BY DEF RunInv, Phases, ReferenceIsOfTheRows
<1>2. IsFiniteSet(Wrong)
  <2>1. IsFiniteSet(1..row) /\ Wrong \subseteq 1..row
    BY <1>1, FS_Interval DEF Wrong
  <2> QED
    BY <2>1, FS_Subset
<1>3. Wrong = {}
  BY <1>2, FS_EmptySet DEF RunInv, ReportIsOfTheRows
<1>4. call.tol.n \in Nat
  BY DEF RunInv, CallIsTyped, RunsAreWellFormed
<1>5. ASSUME NEW i \in 1..row
      PROVE  /\ IsNan(reference[i], call.format) = IsNan(call.candidate[i], call.format)
             /\ Distance(i) <= call.tol.n
  <2>1. Accepted(i)
    BY <1>3 DEF Wrong
  <2> QED
    BY <2>1, <1>1, RowFacts, ConformingIsNear DEF Accepted, Distance
<1>6. report.max_ulp = 0 \/ \E i \in 1..row : Distance(i) = report.max_ulp
  BY DEF RunInv, ReportIsOfTheRows
<1> QED
  BY <1>1, <1>4, <1>5, <1>6

\* Every report of every run, of batches of any length: the mismatches are counted, the
\* worst distance and the first failed row are those of the rows, a clean report vouches
\* for every row, and a declined run names its first fault.
THEOREM ReportsAreTrue ==
  ASSUME RunsAreWellFormed
  PROVE  Spec => []ReportIsTrue
<1>1. Init => RunInv
  BY RunInvInit
<1>2. RunInv /\ [Next]_vars => RunInv'
  BY RunInvStep
<1>3. RunInv => ReportIsTrue
  BY CleanReports DEF RunInv, ReportIsTrue
<1> QED
  BY <1>1, <1>2, <1>3, PTL DEF Spec
=============================================================================
