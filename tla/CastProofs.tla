---------------------------- MODULE CastProofs ------------------------------
(***************************************************************************)
(* The conversion atom, for every format, mantissa, integer width and mode.*)
(* The rounding core (round_shift) rounds to the nearest multiple of the   *)
(* unit with ties to even, or in its direction, and keeps the order of     *)
(* magnitudes; the values of a format are a grid whose unit is the last    *)
(* place of what is converted; and so every value is converted to the one  *)
(* its direction selects.                                                  *)
(***************************************************************************)
EXTENDS CastSpec, NumberLemmas

-----------------------------------------------------------------------------
\* round_shift.

\* Rounding yields the multiple below or the multiple above, and the mantissa itself
\* when that is a multiple.
LEMMA RoundUnitChooses ==
  ASSUME NEW mant \in Nat, NEW unit \in Nat, unit > 0, NEW neg \in BOOLEAN,
         NEW r \in Roundings
  PROVE  LET q == mant \div unit
             low == mant % unit
             v == RoundUnit(mant, unit, neg, r)
         IN  /\ v = q \/ (v = q + 1 /\ low # 0)
             /\ r = "nearest_even" =>
                  /\ v = q => 2 * low <= unit /\ (2 * low = unit => q % 2 = 0)
                  /\ v = q + 1 => 2 * low >= unit /\ (2 * low = unit => q % 2 = 1)
             /\ r = "toward_zero" => v = q
             /\ r = "toward_neg_inf" /\ ~neg => v = q
             /\ r = "toward_pos_inf" /\ neg => v = q
             /\ r = "toward_neg_inf" /\ neg /\ low # 0 => v = q + 1
             /\ r = "toward_pos_inf" /\ ~neg /\ low # 0 => v = q + 1
<1> DEFINE q == mant \div unit
           low == mant % unit
<1>1. q \in Nat /\ low \in 0..(unit - 1)
  BY Brackets
<1>2. q % 2 \in {0, 1}
  BY <1>1
<1> HIDE DEF q, low
<1>3. q + 1 # q
  BY <1>1
<1> QED
  BY <1>1, <1>2, <1>3 DEF RoundUnit, Bumped, Bumps, Rest, Roundings, q, low

-----------------------------------------------------------------------------
\* A multiple of the unit is at most the one below, or at least the one above.
LEMMA Multiples ==
  ASSUME NEW q \in Nat, NEW w \in Nat, NEW unit \in Nat, unit > 0
  PROVE  /\ w * unit \in Nat /\ q * unit \in Nat
         /\ w <= q => w * unit <= q * unit
         /\ w < q => w * unit + unit <= q * unit
         /\ w > q => w * unit >= q * unit + unit
         /\ w > q + 1 => w * unit >= q * unit + 2 * unit
<1>1. (q - w) * unit = q * unit - w * unit /\ (w - q) * unit = w * unit - q * unit
  OBVIOUS
<1>2. /\ w <= q => (q - w) * unit >= 0
      /\ w < q => (q - w) * unit >= unit
      /\ w > q => (w - q) * unit >= unit
      /\ w > q + 1 => (w - q) * unit >= 2 * unit
  OBVIOUS
<1>3. w * unit \in Nat /\ q * unit \in Nat
  OBVIOUS
<1> QED
  BY <1>1, <1>2, <1>3

\* round_shift to nearest: no multiple of the unit is closer to the mantissa, and of
\* two that are equally close it is the even one.
THEOREM NearestIsClosest ==
  ASSUME NEW mant \in Nat, NEW unit \in Nat, unit > 0, NEW neg \in BOOLEAN, NEW w \in Nat
  PROVE  LET v == RoundUnit(mant, unit, neg, "nearest_even")
         IN  /\ Distance(v * unit, mant) <= Distance(w * unit, mant)
             /\ w # v /\ Distance(v * unit, mant) = Distance(w * unit, mant) => v % 2 = 0
<1> DEFINE q == mant \div unit
           low == mant % unit
           v == RoundUnit(mant, unit, neg, "nearest_even")
           m == q * unit
           n == w * unit
<1>1. /\ q \in Nat /\ low \in 0..(unit - 1) /\ mant = m + low
      /\ (q + 1) * unit = m + unit /\ m \in Nat
  BY Brackets
<1>2. /\ v = q \/ (v = q + 1 /\ low # 0)
      /\ v = q => 2 * low <= unit /\ (2 * low = unit => q % 2 = 0)
      /\ v = q + 1 => 2 * low >= unit /\ (2 * low = unit => q % 2 = 1)
  <2>1. "nearest_even" \in Roundings
    BY DEF Roundings
  <2> HIDE DEF q, low, v
  <2> QED
    BY <2>1, RoundUnitChooses DEF q, low, v
<1>3. /\ n \in Nat
      /\ w < q => n + unit <= m
      /\ w > q => n >= m + unit
      /\ w > q + 1 => n >= m + 2 * unit
  <2> HIDE DEF q, low, v
  <2> QED
    BY <1>1, Multiples
<1> HIDE DEF q, low, v, m
<1>4. CASE v = q
  <2>1. v * unit = m
    BY <1>4 DEF m
  <2>2. w = q => n = m
    BY DEF m
  <2> HIDE DEF n
  <2>3. Distance(m, mant) <= Distance(n, mant) /\ (w # q /\ Distance(m, mant) = Distance(n, mant) => 2 * low = unit)
    BY <1>1, <1>2, <1>3, <1>4, <2>2 DEF Distance
  <2> QED
    BY <1>2, <1>4, <2>1, <2>3 DEF v, n
<1>5. CASE v = q + 1
  <2>1. v * unit = m + unit
    BY <1>1, <1>5
  <2>2. (w = q => n = m) /\ (w = q + 1 => n = m + unit)
    BY <1>1 DEF m
  <2>3. 2 * low = unit => v % 2 = 0
    BY <1>1, <1>2, <1>5, NextIsEven
  <2> HIDE DEF n
  <2>4. /\ Distance(m + unit, mant) <= Distance(n, mant)
        /\ w # q + 1 /\ Distance(m + unit, mant) = Distance(n, mant) => 2 * low = unit
    BY <1>1, <1>2, <1>3, <1>5, <2>2 DEF Distance
  <2> QED
    BY <1>5, <2>1, <2>3, <2>4 DEF v, n
<1> QED
  BY <1>2, <1>4, <1>5

\* The directions that round a magnitude down, given its sign, and those that round up.
RoundsDown(neg, r) ==
  r = "toward_zero" \/ (r = "toward_neg_inf" /\ ~neg) \/ (r = "toward_pos_inf" /\ neg)
RoundsUp(neg, r) ==
  (r = "toward_neg_inf" /\ neg) \/ (r = "toward_pos_inf" /\ ~neg)

\* round_shift in a direction: the last multiple of the unit on that side of the
\* mantissa; a mantissa that is a multiple stays.
THEOREM DirectedIsTight ==
  ASSUME NEW mant \in Nat, NEW unit \in Nat, unit > 0, NEW neg \in BOOLEAN,
         NEW r \in Roundings, NEW w \in Nat
  PROVE  LET v == RoundUnit(mant, unit, neg, r)
         IN  /\ RoundsDown(neg, r) => v * unit <= mant /\ (w * unit <= mant => w <= v)
             /\ RoundsUp(neg, r) => v * unit >= mant /\ (w * unit >= mant => w >= v)
<1> DEFINE q == mant \div unit
           low == mant % unit
           v == RoundUnit(mant, unit, neg, r)
           m == q * unit
           n == w * unit
<1>1. /\ q \in Nat /\ low \in 0..(unit - 1) /\ mant = m + low
      /\ (q + 1) * unit = m + unit /\ m \in Nat
  BY Brackets
<1>2. /\ v = q \/ (v = q + 1 /\ low # 0)
      /\ RoundsDown(neg, r) => v = q
      /\ RoundsUp(neg, r) /\ low # 0 => v = q + 1
  <2> HIDE DEF q, low, v
  <2> QED
    BY RoundUnitChooses DEF q, low, v, RoundsDown, RoundsUp
<1>3. /\ n \in Nat
      /\ w < q => n + unit <= m
      /\ w > q => n >= m + unit
  <2> HIDE DEF q, low, v
  <2> QED
    BY <1>1, Multiples
<1> HIDE DEF q, low, v, m
<1>4. RoundsDown(neg, r) => v * unit <= mant /\ (n <= mant => w <= v)
  <2> SUFFICES ASSUME RoundsDown(neg, r) PROVE v * unit <= mant /\ (n <= mant => w <= v)
    OBVIOUS
  <2>1. v = q /\ v * unit = m
    BY <1>2 DEF m
  <2> HIDE DEF n
  <2> QED
    BY <1>1, <1>3, <2>1
<1>5. RoundsUp(neg, r) => v * unit >= mant /\ (n >= mant => w >= v)
  <2> SUFFICES ASSUME RoundsUp(neg, r) PROVE v * unit >= mant /\ (n >= mant => w >= v)
    OBVIOUS
  <2>1. CASE low = 0
    <3>1. v = q /\ v * unit = m
      BY <1>2, <2>1 DEF m
    <3> HIDE DEF n
    <3> QED
      BY <1>1, <1>3, <2>1, <3>1
  <2>2. CASE low # 0
    <3>1. v = q + 1 /\ v * unit = m + unit
      BY <1>1, <1>2, <2>2
    <3>2. w = q => n = m
      BY DEF m
    <3> HIDE DEF n
    <3> QED
      BY <1>1, <1>3, <2>2, <3>1, <3>2
  <2> QED
    BY <2>1, <2>2
<1> QED
  BY <1>4, <1>5 DEF v, n

\* Rounding magnitudes of one sign in one direction keeps their order: no two values
\* change places in a conversion.
THEOREM RoundingKeepsOrder ==
  ASSUME NEW a \in Nat, NEW b \in Nat, a <= b, NEW unit \in Nat, unit > 0,
         NEW neg \in BOOLEAN, NEW r \in Roundings
  PROVE  RoundUnit(a, unit, neg, r) <= RoundUnit(b, unit, neg, r)
<1> DEFINE qa == a \div unit
           la == a % unit
           qb == b \div unit
           lb == b % unit
           va == RoundUnit(a, unit, neg, r)
           vb == RoundUnit(b, unit, neg, r)
<1>1. qa \in Nat /\ la \in 0..(unit - 1) /\ a = qa * unit + la
  BY Brackets
<1>2. qb \in Nat /\ lb \in 0..(unit - 1) /\ b = qb * unit + lb
  BY Brackets
<1> HIDE DEF qa, la, qb, lb
<1>3. qa <= qb
  BY <1>1, <1>2, Multiples
<1>4. qa = qb => la <= lb
  BY <1>1, <1>2
<1>5. (va = qa \/ va = qa + 1) /\ (vb = qb \/ vb = qb + 1)
  BY RoundUnitChooses DEF qa, qb
<1>6. qa = qb /\ va = qa + 1 => vb = qb + 1
  <2> SUFFICES ASSUME qa = qb, va = qa + 1 PROVE vb = qb + 1
    OBVIOUS
  <2>1. Bumps(qa, Rest(la, unit), neg, r)
    BY <1>1 DEF RoundUnit, Bumped, qa, la
  <2>2. Bumps(qb, Rest(lb, unit), neg, r)
    BY <1>1, <1>2, <1>4, <2>1 DEF Bumps, Rest, Roundings
  <2> QED
    BY <2>2 DEF RoundUnit, Bumped, qb, lb
<1> HIDE DEF va, vb
<1>7. va <= vb
  BY <1>1, <1>2, <1>3, <1>5, <1>6
<1> QED
  BY <1>7 DEF va, vb

\* A shift by the whole width is taken without shifting; it rounds like every unit more
\* than twice the mantissa does.
THEOREM FarShiftsRoundAlike ==
  ASSUME NEW mant \in Nat, NEW unit \in Nat, 2 * mant < unit, NEW neg \in BOOLEAN,
         NEW r \in Roundings
  PROVE  RoundUnit(mant, unit, neg, r) = RoundFar(mant, neg, r)
<1>1. mant \div unit = 0 /\ mant % unit = mant
  OBVIOUS
<1> QED
  BY <1>1 DEF RoundUnit, RoundFar, Rest

-----------------------------------------------------------------------------
\* Rounding to a place.

LEMMA BitLengthIs ==
  ASSUME NEW n \in Nat, n > 0, n < Power[MantBits - 1]
  PROVE  LET b == BitLength(n)
         IN  b \in Nat /\ b >= 1 /\ b <= MantBits /\ n < Power[b] /\ n >= Power[b - 1]
<1> DEFINE Lengths == {b \in Nat : n < Power[b]}
<1>1. MantBits - 1 \in Lengths
  BY BoundsAssumption
<1>2. PICK b \in Lengths : \A c \in Lengths : b <= c
  <2> HIDE DEF Lengths
  <2>1. Lengths \in SUBSET Nat
    BY DEF Lengths
  <2> QED
    BY <1>1, <2>1, LeastNatural
<1>3. b # 0
  BY <1>2, PowerRuns
<1>4. b - 1 \in Nat /\ b - 1 \notin Lengths /\ b \in 0..MantBits
  BY <1>1, <1>2, <1>3, BoundsAssumption
<1>5. n < Power[b] /\ (b > 0 => n >= Power[b - 1])
  BY <1>2, <1>4, PowerIs
<1>6. /\ BitLength(n) \in 0..MantBits /\ n < Power[BitLength(n)]
      /\ BitLength(n) > 0 => n >= Power[BitLength(n) - 1]
  BY <1>4, <1>5 DEF BitLength
<1>7. BitLength(n) # 0
  BY <1>6, PowerRuns
<1> QED
  BY <1>6, <1>7, BoundsAssumption

\* A common factor of the mantissa and the unit changes nothing.
LEMMA ScaledRounding ==
  ASSUME NEW mant \in Nat, NEW unit \in Nat, unit > 0, NEW t \in Nat, t > 0,
         NEW neg \in BOOLEAN, NEW r \in Roundings
  PROVE  RoundUnit(mant * t, unit * t, neg, r) = RoundUnit(mant, unit, neg, r)
<1> DEFINE q == mant \div unit
           low == mant % unit
<1>1. q \in Nat /\ low \in 0..(unit - 1) /\ mant = q * unit + low
  BY Brackets
<1> HIDE DEF q, low
<1>2. mant * t = q * (unit * t) + low * t
  <2>1. mant * t = (q * unit + low) * t
    BY <1>1
  <2>2. (q * unit + low) * t = q * (unit * t) + low * t
    BY <1>1
  <2> QED
    BY <2>1, <2>2
<1>3. /\ unit * t \in Nat /\ low * t \in Nat /\ low * t < unit * t
      /\ low * t = 0 <=> low = 0
      /\ 2 * (low * t) < unit * t <=> 2 * low < unit
      /\ 2 * (low * t) = unit * t <=> 2 * low = unit
  <2>1. (unit - low) * t = unit * t - low * t /\ (unit - 2 * low) * t = unit * t - 2 * (low * t)
    BY <1>1
  <2>2. \A k \in Int : (k > 0 => k * t > 0) /\ (k < 0 => k * t < 0) /\ (k = 0 => k * t = 0)
    OBVIOUS
  <2>3. unit - low > 0 /\ unit - low \in Int /\ unit - 2 * low \in Int /\ low \in Int
    BY <1>1
  <2>4. (unit - low) * t > 0 /\ (low * t = 0 <=> low = 0)
    BY <1>1, <2>2, <2>3
  <2>5. /\ (unit - 2 * low) * t > 0 <=> unit - 2 * low > 0
        /\ (unit - 2 * low) * t = 0 <=> unit - 2 * low = 0
    BY <2>2, <2>3
  <2>6. unit * t \in Nat /\ low * t \in Nat
    BY <1>1
  <2>7. low * t < unit * t
    BY <2>1, <2>4, <2>6
  <2>8. /\ 2 * (low * t) < unit * t <=> 2 * low < unit
        /\ 2 * (low * t) = unit * t <=> 2 * low = unit
    BY <1>1, <2>1, <2>5, <2>6
  <2> QED
    BY <2>4, <2>6, <2>7, <2>8
<1>4. (mant * t) % (unit * t) = low * t /\ (mant * t) \div (unit * t) = q
  <2> DEFINE v == mant * t
             s == unit * t
             l == low * t
  <2>1. v \in Int /\ s \in Nat /\ s > 0 /\ l \in 0..(s - 1) /\ v = q * s + l /\ q \in Int
    BY <1>1, <1>2, <1>3
  <2> HIDE DEF v, s, l
  <2>2. v % s = l /\ v \div s = q
    BY <2>1, DivisionIs
  <2> QED
    BY <2>2 DEF v, s, l
<1>5. Rest(low * t, unit * t) = Rest(low, unit)
  BY <1>3 DEF Rest
<1> QED
  BY <1>4, <1>5 DEF RoundUnit, q, low

\* A multiple of the unit is kept in every direction.
LEMMA MultiplesAreKept ==
  ASSUME NEW k \in Nat, NEW unit \in Nat, unit > 0, NEW neg, NEW r
  PROVE  RoundUnit(k * unit, unit, neg, r) = k
<1> DEFINE v == k * unit
<1>1. v \in Int /\ v = k * unit + 0 /\ 0 \in 0..(unit - 1)
  OBVIOUS
<1> HIDE DEF v
<1>2. v % unit = 0 /\ v \div unit = k
  BY <1>1, DivisionIs
<1> QED
  BY <1>2 DEF RoundUnit, Bumped, Bumps, Rest, v

\* The value mant * 2^exp in units of 2^-Scale, and the weight of a place in them.
Scaled(mant, exp) == mant * Power[exp + Scale]
Weight(place) == Power[place + Scale]

\* What round_to_float computes before it carries, and rounded_integer at place 0.
AtPlace(mant, exp, place, neg, r) ==
  IF place <= exp THEN mant * Power[exp - place] ELSE RoundShift(mant, place - exp, neg, r)

\* Shifted left, right or all the way out: the value is rounded to the unit of the place.
LEMMA PlaceIsRounded ==
  ASSUME NEW mant \in Nat, mant < Power[MantBits - 1], NEW exp \in Int, exp + Scale >= 0,
         NEW place \in Int, place + Scale >= 0, NEW neg \in BOOLEAN, NEW r \in Roundings
  PROVE  AtPlace(mant, exp, place, neg, r)
           = RoundUnit(Scaled(mant, exp), Weight(place), neg, r)
<1> DEFINE u == Weight(place)
           t == Power[exp + Scale]
<1>0. exp + Scale \in Nat /\ place + Scale \in Nat /\ Scale \in Int
  BY BoundsAssumption
<1>1. u \in Nat /\ u > 0 /\ t \in Nat /\ t > 0
  BY <1>0, PowerIs DEF Weight
<1>2. CASE place <= exp
  <2> DEFINE w == Power[exp - place]
  <2>1. exp - place \in Nat /\ (exp - place) + (place + Scale) = exp + Scale
    BY <1>0, <1>2
  <2>2. w \in Nat /\ t = w * u
    BY <1>0, <2>1, PowerIs, PowerAdds DEF Weight
  <2> HIDE DEF w, u, t
  <2>3. mant * t = (mant * w) * u /\ mant * w \in Nat
    BY <1>1, <2>2
  <2>4. RoundUnit((mant * w) * u, u, neg, r) = mant * w
    <3> DEFINE k == mant * w
    <3>1. k \in Nat
      BY <2>3
    <3> HIDE DEF k
    <3>2. RoundUnit(k * u, u, neg, r) = k
      BY <1>1, <3>1, MultiplesAreKept
    <3> QED
      BY <3>2 DEF k
  <2>5. AtPlace(mant, exp, place, neg, r) = mant * w
    BY <1>2 DEF AtPlace, w
  <2>6. Scaled(mant, exp) = (mant * w) * u
    BY <2>3 DEF Scaled, t
  <2> QED
    BY <2>4, <2>5, <2>6 DEF u
<1>3. CASE ~(place <= exp)
  <2> DEFINE n == place - exp
             w == Power[n]
  <2>1. n \in Nat /\ n + (exp + Scale) = place + Scale
    BY <1>0, <1>3
  <2>2. w \in Nat /\ w > 0 /\ u = w * t
    <3> HIDE DEF n
    <3>1. w \in Nat /\ w >= 1
      BY <2>1, PowerIs
    <3>2. Power[n + (exp + Scale)] = w * t
      BY <1>0, <2>1, PowerAdds
    <3> QED
      BY <2>1, <3>1, <3>2 DEF Weight
  <2>3. RoundShift(mant, n, neg, r) = RoundUnit(mant, w, neg, r)
    <3>1. CASE n >= MantBits
      <4>1. MantBits - 1 \in Nat /\ (MantBits - 1) + 1 = MantBits /\ MantBits \in Nat
        BY BoundsAssumption
      <4>2. Power[MantBits] = 2 * Power[MantBits - 1] /\ Power[MantBits - 1] \in Nat
        BY <4>1, PowerIs
      <4>3. Power[MantBits] <= w
        BY <2>1, <3>1, <4>1, PowerGrows
      <4> HIDE DEF w
      <4>4. 2 * mant < w
        BY <2>2, <4>2, <4>3
      <4> QED
        BY <2>2, <3>1, <4>4, FarShiftsRoundAlike DEF RoundShift
    <3>2. CASE ~(n >= MantBits)
      BY <3>2 DEF RoundShift
    <3> QED
      BY <3>1, <3>2
  <2>4. RoundUnit(mant, w, neg, r) = RoundUnit(mant * t, w * t, neg, r)
    <3> HIDE DEF w, t
    <3> QED
      BY <1>1, <2>2, ScaledRounding
  <2>5. AtPlace(mant, exp, place, neg, r) = RoundShift(mant, n, neg, r)
    BY <1>3 DEF AtPlace
  <2>6. Scaled(mant, exp) = mant * t
    BY DEF Scaled
  <2> HIDE DEF w, t, u, n
  <2>7. RoundUnit(mant * t, w * t, neg, r) = RoundUnit(Scaled(mant, exp), u, neg, r)
    BY <2>2, <2>6
  <2> QED
    BY <2>3, <2>4, <2>5, <2>7 DEF u
<1> QED
  BY <1>2, <1>3

-----------------------------------------------------------------------------
\* The magnitudes of a format: rows of numbers with one last place each, the subnormal
\* ones and the first normal ones sharing the least.

IsFitting(f) == IsFloat(f) /\ IsFormat(f) /\ FormatFits(f)

Hidden(f) == Power[f.man]
Least(f) == 1 - f.bias - f.man + Scale
RowUnit(f, row) == Power[Least(f) + row]
RowOf(p) == IF p.e = 0 THEN 0 ELSE p.e - 1

\* A significand on a row it belongs to.
OnRow(k, row, f) == k < 2 * Hidden(f) /\ (row > 0 => k >= Hidden(f))

LEMMA FormatIs ==
  ASSUME NEW f, IsFitting(f)
  PROVE  /\ f.man \in Nat /\ f.bias \in Nat /\ f.exp \in Nat
         /\ Hidden(f) \in Nat /\ Hidden(f) >= 2 /\ Hidden(f) % 2 = 0
         /\ Least(f) \in Nat
         /\ AllOnes(f.man) = Hidden(f) - 1 /\ AllOnes(f.exp) \in Nat /\ AllOnes(f.exp) >= 3
         /\ MaxFiniteExp(f) \in Nat /\ MaxFiniteExp(f) >= 1
         /\ MaxFiniteExp(f) <= AllOnes(f.exp)
         /\ MaxFiniteMan(f) \in Nat /\ MaxFiniteMan(f) < Hidden(f)
<1>1. f.man \in Nat /\ f.man >= 1 /\ f.bias \in Nat /\ f.exp \in Nat /\ f.exp >= 2
      /\ f.bias + f.man <= Scale + 1
  BY DEF IsFitting, IsFormat, FormatFits
<1>2. Hidden(f) \in Nat /\ Hidden(f) >= 2 /\ Hidden(f) % 2 = 0
  <2> DEFINE p == Power[f.man - 1]
  <2>1. f.man - 1 \in Nat /\ (f.man - 1) + 1 = f.man
    BY <1>1
  <2>2. p \in Nat /\ p >= 1 /\ Power[f.man] = 2 * p
    BY <2>1, PowerIs
  <2> HIDE DEF p
  <2>3. (2 * p) % 2 = 0 /\ 2 * p >= 2 /\ 2 * p \in Nat
    BY <2>2
  <2> QED
    BY <2>2, <2>3 DEF Hidden
<1>3. Power[f.exp] \in Nat /\ Power[f.exp] >= 4
  <2>1. f.exp - 1 \in Nat /\ (f.exp - 1) + 1 = f.exp /\ f.exp - 2 \in Nat /\ (f.exp - 2) + 1 = f.exp - 1
    BY <1>1
  <2>2. Power[f.exp - 2] \in Nat /\ Power[f.exp - 2] >= 1 /\ Power[f.exp - 1] = 2 * Power[f.exp - 2]
    BY <2>1, PowerIs
  <2>3. Power[f.exp] = 2 * Power[f.exp - 1]
    BY <2>1, PowerIs
  <2> QED
    BY <2>2, <2>3
<1>4. Least(f) \in Nat
  BY <1>1, BoundsAssumption DEF Least
<1>5. AllOnes(f.man) = Hidden(f) - 1 /\ AllOnes(f.exp) \in Nat /\ AllOnes(f.exp) >= 3
  BY <1>2, <1>3 DEF AllOnes, Hidden
<1> QED
  BY <1>1, <1>2, <1>4, <1>5 DEF MaxFiniteExp, MaxFiniteMan

LEMMA FieldsAre ==
  ASSUME NEW f, IsFitting(f), NEW p \in FieldsOf(f)
  PROVE  /\ p.neg \in BOOLEAN /\ p.e \in Nat /\ p.e <= AllOnes(f.exp)
         /\ p.m \in Nat /\ p.m < Hidden(f)
         /\ RowOf(p) \in Nat /\ Significand(p, f) \in Nat /\ OnRow(Significand(p, f), RowOf(p), f)
         /\ Place(p, f) + Scale = Least(f) + RowOf(p)
         /\ MagnitudeOf(p, f) = Significand(p, f) * RowUnit(f, RowOf(p))
<1>1. /\ p.neg \in BOOLEAN /\ p.e \in 0..AllOnes(f.exp) /\ p.m \in 0..AllOnes(f.man)
  BY DEF FieldsOf
<1>2. /\ f.man \in Nat /\ f.bias \in Nat /\ Hidden(f) \in Nat /\ Hidden(f) >= 2
      /\ AllOnes(f.man) = Hidden(f) - 1 /\ AllOnes(f.exp) \in Nat /\ Scale \in Int
  BY FormatIs, BoundsAssumption
<1>3. p.e \in Nat /\ p.e <= AllOnes(f.exp) /\ p.m \in Nat /\ p.m < Hidden(f)
  BY <1>1, <1>2
<1>4. RowOf(p) \in Nat /\ Significand(p, f) \in Nat /\ OnRow(Significand(p, f), RowOf(p), f)
  BY <1>2, <1>3 DEF RowOf, Significand, OnRow, Hidden
<1>5. Place(p, f) + Scale = Least(f) + RowOf(p)
  BY <1>2, <1>3 DEF Place, Least, RowOf
<1> QED
  BY <1>1, <1>3, <1>4, <1>5 DEF MagnitudeOf, RowUnit

\* From row to row the last place doubles, and a row lies above those before it.
LEMMA RowsDouble ==
  ASSUME NEW f, IsFitting(f), NEW i \in Nat, NEW j \in Nat
  PROVE  /\ RowUnit(f, i) \in Nat /\ RowUnit(f, i) >= 1
         /\ RowUnit(f, i + 1) = 2 * RowUnit(f, i)
         /\ i <= j => RowUnit(f, i) <= RowUnit(f, j)
         /\ i < j => 2 * RowUnit(f, i) <= RowUnit(f, j)
         /\ i <= j => \E k \in Nat : RowUnit(f, j) = k * RowUnit(f, i)
<1>1. Least(f) \in Nat
  BY FormatIs
<1>2. Least(f) + i \in Nat /\ Least(f) + j \in Nat /\ (Least(f) + i) + 1 = Least(f) + (i + 1)
  BY <1>1
<1>3. RowUnit(f, i) \in Nat /\ RowUnit(f, i) >= 1 /\ RowUnit(f, i + 1) = 2 * RowUnit(f, i)
  BY <1>2, PowerIs DEF RowUnit
<1>4. /\ i <= j => RowUnit(f, i) <= RowUnit(f, j)
      /\ i < j => 2 * RowUnit(f, i) <= RowUnit(f, j)
  BY <1>1, <1>2, PowerGrows DEF RowUnit
<1>5. i <= j => \E k \in Nat : RowUnit(f, j) = k * RowUnit(f, i)
  <2> SUFFICES ASSUME i <= j PROVE \E k \in Nat : RowUnit(f, j) = k * RowUnit(f, i)
    OBVIOUS
  <2>1. j - i \in Nat /\ (j - i) + (Least(f) + i) = Least(f) + j
    BY <1>1
  <2>2. Power[j - i] \in Nat /\ Power[Least(f) + j] = Power[j - i] * Power[Least(f) + i]
    BY <1>2, <2>1, PowerIs, PowerAdds
  <2> QED
    BY <2>2 DEF RowUnit
<1> QED
  BY <1>3, <1>4, <1>5

LEMMA RowsGrow ==
  ASSUME NEW f, IsFitting(f), NEW i \in Nat, NEW j \in Nat, i < j,
         NEW k \in Nat, k <= 2 * Hidden(f), NEW l \in Nat, l >= Hidden(f)
  PROVE  /\ k * RowUnit(f, i) <= l * RowUnit(f, j)
         /\ k < 2 * Hidden(f) => k * RowUnit(f, i) < l * RowUnit(f, j)
         /\ k * RowUnit(f, i) \in Nat /\ l * RowUnit(f, j) \in Nat
<1> DEFINE u == RowUnit(f, i)
           w == RowUnit(f, j)
           s == Hidden(f)
<1>1. u \in Nat /\ u >= 1 /\ w \in Nat /\ 2 * u <= w /\ s \in Nat /\ s >= 2
  BY RowsDouble, FormatIs
<1> HIDE DEF u, w, s
<1>2. k * u <= (2 * s) * u /\ (k < 2 * s => k * u < (2 * s) * u)
  <2>1. (2 * s - k) * u = (2 * s) * u - k * u /\ 2 * s - k >= 0 /\ (k < 2 * s => 2 * s - k >= 1)
    BY <1>1 DEF s
  <2>2. (2 * s - k) * u >= 0 /\ (k < 2 * s => (2 * s - k) * u >= 1)
    BY <1>1, <2>1
  <2> QED
    BY <1>1, <2>1, <2>2
<1>3. (2 * s) * u <= s * w
  <2>1. (2 * s) * u = s * (2 * u) /\ s * (w - 2 * u) = s * w - s * (2 * u)
    BY <1>1
  <2>2. s * (w - 2 * u) >= 0
    BY <1>1
  <2> QED
    BY <1>1, <2>1, <2>2
<1>4. s * w <= l * w
  <2>1. (l - s) * w = l * w - s * w /\ l - s >= 0
    BY <1>1 DEF s
  <2>2. (l - s) * w >= 0
    BY <1>1, <2>1
  <2> QED
    BY <1>1, <2>1, <2>2
<1>5. k * u \in Nat /\ l * w \in Nat /\ (2 * s) * u \in Nat /\ s * w \in Nat
  BY <1>1
<1>6. k * u <= l * w /\ (k < 2 * s => k * u < l * w)
  BY <1>2, <1>3, <1>4, <1>5
<1> QED
  BY <1>5, <1>6 DEF u, w, s

\* A number of the format is a multiple of the unit of a row, or lies below what the row
\* has beside the subnormal numbers.
LEMMA RowsNest ==
  ASSUME NEW f, IsFitting(f), NEW p \in FieldsOf(f), NEW row \in Nat
  PROVE  /\ MagnitudeOf(p, f) \in Nat
         /\ \/ \E k \in Nat : MagnitudeOf(p, f) = k * RowUnit(f, row)
            \/ row > 0 /\ MagnitudeOf(p, f) < Hidden(f) * RowUnit(f, row)
<1> DEFINE i == RowOf(p)
           s == Significand(p, f)
<1>1. /\ i \in Nat /\ s \in Nat /\ OnRow(s, i, f) /\ MagnitudeOf(p, f) = s * RowUnit(f, i)
      /\ Hidden(f) \in Nat /\ RowUnit(f, i) \in Nat
  BY FieldsAre, FormatIs, RowsDouble
<1> HIDE DEF i, s
<1>2. MagnitudeOf(p, f) \in Nat
  BY <1>1
<1>3. CASE row <= i
  <2>1. PICK k \in Nat : RowUnit(f, i) = k * RowUnit(f, row)
    BY <1>1, <1>3, RowsDouble
  <2>2. RowUnit(f, row) \in Nat
    BY RowsDouble
  <2>3. s * (k * RowUnit(f, row)) = (s * k) * RowUnit(f, row) /\ s * k \in Nat
    BY <1>1, <2>2
  <2> QED
    BY <1>1, <1>2, <2>1, <2>3
<1>4. CASE ~(row <= i)
  <2>1. i < row /\ s < 2 * Hidden(f) /\ s <= 2 * Hidden(f)
    BY <1>1, <1>4 DEF OnRow
  <2>2. s * RowUnit(f, i) < Hidden(f) * RowUnit(f, row)
    BY <1>1, <2>1, RowsGrow
  <2> QED
    BY <1>1, <1>2, <1>4, <2>2
<1> QED
  BY <1>3, <1>4

\* The number with this significand on this row.
At(neg, k, row, f) ==
  [neg |-> neg, e |-> IF k < Hidden(f) THEN 0 ELSE row + 1,
   m |-> IF k < Hidden(f) THEN k ELSE k - Hidden(f)]

\* What Fit compares: fields past those of the largest number.
Past(e, m, f) == e > MaxFiniteExp(f) \/ (e = MaxFiniteExp(f) /\ m > MaxFiniteMan(f))

LEMMA LargestIs ==
  ASSUME NEW f, IsFitting(f)
  PROVE  /\ MaxFiniteExp(f) - 1 \in Nat
         /\ Largest(f) = (Hidden(f) + MaxFiniteMan(f)) * RowUnit(f, MaxFiniteExp(f) - 1)
         /\ Largest(f) \in Nat /\ Step(f) = RowUnit(f, MaxFiniteExp(f) - 1)
         /\ MaxFinite(f, FALSE) \in FieldsOf(f)
<1> DEFINE p == MaxFinite(f, FALSE)
<1>1. p \in FieldsOf(f) /\ p.e = MaxFiniteExp(f) /\ p.m = MaxFiniteMan(f) /\ p.e >= 1
  BY FormatIs DEF FieldsOf, MaxFinite
<1> HIDE DEF p
<1>2. RowOf(p) = MaxFiniteExp(f) - 1 /\ Significand(p, f) = Hidden(f) + MaxFiniteMan(f)
  <2>1. Significand(p, f) = p.m + Hidden(f) /\ Hidden(f) \in Nat /\ MaxFiniteMan(f) \in Nat
        /\ MaxFiniteExp(f) \in Nat
    BY <1>1, FormatIs DEF Significand, Hidden
  <2> QED
    BY <1>1, <2>1 DEF RowOf
<1>3. /\ RowOf(p) \in Nat /\ Place(p, f) + Scale = Least(f) + RowOf(p)
      /\ MagnitudeOf(p, f) = Significand(p, f) * RowUnit(f, RowOf(p))
  BY <1>1, FieldsAre
<1>4. MagnitudeOf(p, f) \in Nat
  BY <1>1, RowsNest, <1>3
<1> QED
  BY <1>1, <1>2, <1>3, <1>4 DEF Largest, Step, p, RowUnit

LEMMA PastIs ==
  ASSUME NEW f, IsFitting(f), NEW row \in Nat, NEW k \in Nat, OnRow(k, row, f), NEW neg
  PROVE  LET q == At(neg, k, row, f)
         IN  /\ Past(q.e, q.m, f) <=> k * RowUnit(f, row) > Largest(f)
             /\ k * RowUnit(f, row) \in Nat
<1> DEFINE q == At(neg, k, row, f)
           top == MaxFiniteExp(f)
           s == Hidden(f)
           l == s + MaxFiniteMan(f)
           u == RowUnit(f, row)
           w == RowUnit(f, top - 1)
<1>1. /\ s \in Nat /\ s >= 2 /\ top \in Nat /\ top >= 1 /\ l \in Nat /\ l >= s /\ l < 2 * s
      /\ MaxFiniteMan(f) \in Nat /\ k < 2 * s /\ (row > 0 => k >= s) /\ top - 1 \in Nat
  BY FormatIs DEF OnRow
<1>2. Largest(f) = l * w
  BY LargestIs
<1>3. u \in Nat /\ u >= 1 /\ w \in Nat /\ w >= 1 /\ k * u \in Nat /\ l * w \in Nat
  <2>1. u \in Nat /\ u >= 1
    BY RowsDouble
  <2>2. w \in Nat /\ w >= 1
    BY <1>1, RowsDouble
  <2> HIDE DEF u, w, l
  <2> QED
    BY <1>1, <2>1, <2>2
<1>4. CASE row < top - 1
  <2>1. k * u < l * w
    <3> HIDE DEF l, top
    <3> QED
      BY <1>1, <1>4, RowsGrow DEF s
  <2>2. q.e < top
    BY <1>1, <1>4 DEF At
  <2> HIDE DEF q, u, w, l
  <2>3. ~Past(q.e, q.m, f)
    BY <1>1, <2>2 DEF Past, q, At
  <2> QED
    BY <1>2, <1>3, <2>1, <2>3 DEF q, u
<1>5. CASE row > top - 1
  <2>1. k >= s /\ q.e = row + 1 /\ row + 1 > top
    BY <1>1, <1>5 DEF At
  <2>2. l * w < k * u
    <3> HIDE DEF l, top
    <3> QED
      BY <1>1, <1>5, <2>1, RowsGrow DEF s
  <2> HIDE DEF q, u, w, l
  <2>3. Past(q.e, q.m, f)
    BY <2>1 DEF Past
  <2> QED
    BY <1>2, <1>3, <2>2, <2>3 DEF q, u
<1>6. CASE row = top - 1
  <2>1. u = w
    BY <1>6
  <2>2. k * w > l * w <=> k > l
    <3> HIDE DEF w, l, u
    <3>1. (k - l) * w = k * w - l * w
      BY <1>1, <1>3
    <3>2. (k - l > 0 => (k - l) * w >= 1) /\ (k - l <= 0 => (k - l) * w <= 0)
      BY <1>1, <1>3
    <3> QED
      BY <1>1, <1>3, <2>1, <3>1, <3>2
  <2>3. Past(q.e, q.m, f) <=> k > l
    BY <1>1, <1>6 DEF Past, At
  <2> HIDE DEF q, u, w, l
  <2> QED
    BY <1>2, <1>3, <2>1, <2>2, <2>3 DEF q, u
<1> QED
  BY <1>1, <1>4, <1>5, <1>6

LEMMA FiniteIs ==
  ASSUME NEW f, IsFitting(f), NEW p \in FieldsOf(f)
  PROVE  IsFinite(p, f) <=> ~Past(p.e, p.m, f)
<1>1. /\ p.e \in Nat /\ p.e <= AllOnes(f.exp) /\ p.m \in Nat /\ p.m <= AllOnes(f.man)
      /\ AllOnes(f.exp) \in Nat /\ AllOnes(f.man) \in Nat
  BY FieldsAre, FormatIs
<1>2. f.nan \in {"ieee", "all_ones", "absent"} /\ IsFloat(f) /\ (f.hasInf <=> f.nan = "ieee")
  BY DEF IsFitting, IsFormat
<1> QED
  BY <1>1, <1>2 DEF IsFinite, IsNan, IsInf, Past, MaxFiniteExp, MaxFiniteMan

\* A number of the format is the one at its place, and no finite one is above the largest.
LEMMA FiniteFits ==
  ASSUME NEW f, IsFitting(f), NEW p \in FieldsOf(f)
  PROVE  /\ p = At(p.neg, Significand(p, f), RowOf(p), f)
         /\ IsFinite(p, f) <=> MagnitudeOf(p, f) <= Largest(f)
<1> DEFINE i == RowOf(p)
           s == Significand(p, f)
           q == At(p.neg, s, i, f)
<1>1. /\ i \in Nat /\ s \in Nat /\ OnRow(s, i, f) /\ MagnitudeOf(p, f) = s * RowUnit(f, i)
      /\ p.e \in Nat /\ p.m \in Nat /\ p.m < Hidden(f) /\ Hidden(f) \in Nat
      /\ MagnitudeOf(p, f) \in Nat /\ Largest(f) \in Nat
  BY FieldsAre, FormatIs, RowsNest, LargestIs
<1>2. p = [neg |-> p.neg, e |-> p.e, m |-> p.m]
  BY DEF FieldsOf
<1>3. q.e = p.e /\ q.m = p.m /\ q = p
  <2>1. s = (IF p.e = 0 THEN p.m ELSE p.m + Hidden(f)) /\ i = (IF p.e = 0 THEN 0 ELSE p.e - 1)
    BY DEF Significand, RowOf, Hidden
  <2>2. CASE p.e = 0
    BY <1>1, <1>2, <2>1, <2>2 DEF At
  <2>3. CASE p.e # 0
    BY <1>1, <1>2, <2>1, <2>3 DEF At
  <2> QED
    BY <2>2, <2>3
<1> HIDE DEF i, s
<1>4. Past(q.e, q.m, f) <=> s * RowUnit(f, i) > Largest(f)
  BY <1>1, PastIs
<1> HIDE DEF q
<1>5. IsFinite(p, f) <=> ~Past(q.e, q.m, f)
  BY <1>3, FiniteIs
<1>6. IsFinite(p, f) <=> MagnitudeOf(p, f) <= Largest(f)
  BY <1>1, <1>4, <1>5
<1> QED
  BY <1>3, <1>6 DEF i, s, q

\* The code of the magnitude y, a multiple k of some row's unit: past the largest it
\* overflows, and otherwise it is the number y of the format, even when k is.
Lands(code, neg, y, k, f, r, s) ==
  LET q == code.value
  IN  IF y > Largest(f) THEN code = Overflow(f, neg, r, s)
      ELSE /\ code = Value(q) /\ q \in FieldsOf(f) /\ IsFinite(q, f) /\ q.neg = neg
           /\ MagnitudeOf(q, f) = y /\ q.m % 2 = k % 2

LEMMA PackIs ==
  ASSUME NEW f, IsFitting(f), NEW row \in Nat, NEW k \in Nat, OnRow(k, row, f),
         NEW neg \in BOOLEAN, NEW r, NEW s,
         NEW place \in Int, place + Scale = Least(f) + row
  PROVE  Lands(Pack(neg, k, place, f, r, s), neg, k * RowUnit(f, row), k, f, r, s)
<1> DEFINE q == At(neg, k, row, f)
           h == Hidden(f)
<1>1. /\ f.man \in Nat /\ f.bias \in Nat /\ h \in Nat /\ h >= 2 /\ h % 2 = 0
      /\ MaxFiniteExp(f) \in Nat /\ MaxFiniteExp(f) >= 1
      /\ AllOnes(f.man) = h - 1 /\ MaxFiniteMan(f) \in Nat /\ MaxFiniteExp(f) <= AllOnes(f.exp)
      /\ AllOnes(f.exp) \in Nat /\ k < 2 * h /\ (row > 0 => k >= h) /\ Largest(f) \in Nat
  BY FormatIs, LargestIs DEF OnRow
<1>2. place + f.man + f.bias = row + 1
  <2>1. Scale \in Int
    BY BoundsAssumption
  <2> QED
    BY <1>1, <2>1 DEF Least
<1>3. Pack(neg, k, place, f, r, s) = IF Past(q.e, q.m, f) THEN Overflow(f, neg, r, s) ELSE Value(q)
  <2>1. CASE k = 0
    <3>1. q = Zero(neg)
      BY <1>1, <2>1 DEF At, Zero
    <3>2. ~Past(q.e, q.m, f)
      BY <1>1, <3>1 DEF Past, Zero
    <3> QED
      BY <2>1, <3>1, <3>2 DEF Pack
  <2>2. CASE k # 0
    <3> HIDE DEF h
    <3>1. q = [neg |-> neg, e |-> IF k < h THEN 0 ELSE place + f.man + f.bias,
               m |-> IF k < h THEN k ELSE k - h]
      BY <1>2 DEF At, h
    <3> HIDE DEF q
    <3>2. Pack(neg, k, place, f, r, s) = Fit(neg, q.e, q.m, f, r, s)
      BY <2>2, <3>1 DEF Pack, h, Hidden
    <3>3. q = [neg |-> neg, e |-> q.e, m |-> q.m]
      BY <3>1
    <3> QED
      BY <3>2, <3>3 DEF Fit, Past
  <2> QED
    BY <2>1, <2>2
<1>4. (Past(q.e, q.m, f) <=> k * RowUnit(f, row) > Largest(f)) /\ k * RowUnit(f, row) \in Nat
  BY PastIs
<1>5. ASSUME ~Past(q.e, q.m, f)
      PROVE  /\ q \in FieldsOf(f) /\ q.neg = neg
             /\ RowOf(q) = row /\ Significand(q, f) = k /\ q.m % 2 = k % 2
  <2>1. q.e \in Nat /\ q.e <= MaxFiniteExp(f)
    BY <1>1, <1>5 DEF Past, At
  <2>2. q.m \in Nat /\ q.m <= h - 1
    BY <1>1 DEF At
  <2>3. q \in FieldsOf(f)
    BY <1>1, <2>1, <2>2 DEF FieldsOf, At
  <2>4. RowOf(q) = row /\ Significand(q, f) = k
    BY <1>1 DEF At, RowOf, Significand, Hidden
  <2>5. q.m % 2 = k % 2
    <3>1. \A m \in Nat : (m + h) % 2 = m % 2
      BY <1>1
    <3> HIDE DEF h
    <3>2. CASE k < h
      BY <3>2 DEF At, h
    <3>3. CASE ~(k < h)
      <4>1. k - h \in Nat /\ q.m = k - h /\ (k - h) + h = k
        BY <1>1, <3>3 DEF At, h
      <4> QED
        BY <3>1, <4>1
    <3> QED
      BY <3>2, <3>3
  <2> QED
    BY <2>3, <2>4, <2>5 DEF At
<1> HIDE DEF q
<1>6. CASE Past(q.e, q.m, f)
  BY <1>3, <1>4, <1>6 DEF Lands, q
<1>7. CASE ~Past(q.e, q.m, f)
  <2>1. IsFinite(q, f)
    BY <1>5, <1>7, FiniteIs
  <2>2. MagnitudeOf(q, f) = k * RowUnit(f, row)
    BY <1>5, <1>7, FieldsAre
  <2>3. ~(k * RowUnit(f, row) > Largest(f))
    BY <1>4, <1>7
  <2>4. Pack(neg, k, place, f, r, s) = Value(q) /\ Value(q).value = q
    BY <1>3, <1>7 DEF Value
  <2> QED
    BY <1>5, <1>7, <2>1, <2>2, <2>3, <2>4 DEF Lands
<1> QED
  BY <1>6, <1>7

\* Rounding up to a whole row carries into the next.
LEMMA CarryIs ==
  ASSUME NEW f, IsFitting(f), NEW row \in Nat, NEW k \in Nat, k <= 2 * Hidden(f),
         row > 0 => k >= Hidden(f), NEW neg \in BOOLEAN, NEW r, NEW s,
         NEW place \in Int, place + Scale = Least(f) + row
  PROVE  Lands(Carry(neg, k, place, f, r, s), neg, k * RowUnit(f, row), k, f, r, s)
<1> DEFINE h == Hidden(f)
           u == RowUnit(f, row)
<1>1. h \in Nat /\ h >= 2 /\ h % 2 = 0 /\ f.man \in Nat /\ Power[f.man + 1] = 2 * h
      /\ Least(f) \in Nat
  BY FormatIs, PowerIs DEF Hidden
<1>2. u \in Nat /\ u >= 1 /\ RowUnit(f, row + 1) = 2 * u
  BY RowsDouble
<1>3. CASE k < 2 * h
  <2>1. Carry(neg, k, place, f, r, s) = Pack(neg, k, place, f, r, s)
    BY <1>1, <1>3 DEF Carry
  <2>2. OnRow(k, row, f)
    BY <1>3 DEF OnRow
  <2> QED
    BY <2>1, <2>2, PackIs
<1>4. CASE k = 2 * h
  <2>1. k \div 2 = h /\ k % 2 = 0
    BY <1>1, <1>4
  <2>2. Carry(neg, k, place, f, r, s) = Pack(neg, h, place + 1, f, r, s)
    BY <1>1, <1>4, <2>1 DEF Carry
  <2>3. OnRow(h, row + 1, f) /\ row + 1 \in Nat
    BY <1>1 DEF OnRow
  <2>4. place + 1 \in Int /\ (place + 1) + Scale = Least(f) + (row + 1)
    BY <1>1, BoundsAssumption
  <2>5. h * RowUnit(f, row + 1) = k * u
    <3> HIDE DEF h, u
    <3>1. h * (2 * u) = (2 * h) * u
      BY <1>1, <1>2
    <3> QED
      BY <1>2, <1>4, <3>1
  <2> DEFINE next == row + 1
             above == place + 1
  <2> HIDE DEF next, above, h
  <2>6. Lands(Pack(neg, h, above, f, r, s), neg, h * RowUnit(f, next), h, f, r, s)
    BY <1>1, <2>3, <2>4, PackIs DEF next, above
  <2>7. Lands(Pack(neg, h, above, f, r, s), neg, k * u, h, f, r, s)
    BY <2>5, <2>6 DEF next
  <2>8. h % 2 = k % 2
    BY <1>1, <2>1
  <2> QED
    BY <2>2, <2>7, <2>8 DEF Lands, above
<1> QED
  BY <1>1, <1>3, <1>4

\* The row a magnitude is rounded on.
Reaches(a, row, f) ==
  /\ a < (2 * Hidden(f)) * RowUnit(f, row)
  /\ row > 0 => a >= Hidden(f) * RowUnit(f, row)

\* round_to_float picks the last place of that row.
LEMMA LastPlaceIs ==
  ASSUME NEW f, IsFitting(f), NEW mant \in Nat, mant > 0, mant < Power[MantBits - 1],
         NEW exp \in Int, exp + Scale >= 0
  PROVE  /\ Scaled(mant, exp) \in Nat /\ Scaled(mant, exp) > 0
         /\ LastPlace(mant, exp, f) \in Int
         /\ \E row \in Nat : /\ LastPlace(mant, exp, f) + Scale = Least(f) + row
                             /\ Reaches(Scaled(mant, exp), row, f)
<1> DEFINE b == BitLength(mant)
           t == exp + Scale
           a == mant * Power[t]
           lead == b - 1 + exp
           least == 1 - f.bias
           row == IF lead >= least THEN lead - least ELSE 0
           lo == Power[b - 1]
           p == Power[t]
<1>1. b \in Nat /\ b >= 1 /\ mant < Power[b] /\ mant >= Power[b - 1]
  BY BitLengthIs
<1> HIDE DEF b
<1>2. f.man \in Nat /\ f.bias \in Nat /\ Least(f) \in Nat /\ Scale \in Nat /\ t \in Nat
  BY FormatIs, BoundsAssumption
<1>3. lo \in Nat /\ lo >= 1 /\ Power[b] = 2 * lo /\ p \in Nat /\ p >= 1
  <2>1. b - 1 \in Nat /\ (b - 1) + 1 = b
    BY <1>1
  <2> QED
    BY <1>2, <2>1, PowerIs
<1>4. a \in Nat /\ a >= lo * p /\ a < (2 * lo) * p /\ a > 0
  <2> HIDE DEF lo, p
  <2>1. (mant - lo) * p = mant * p - lo * p /\ (2 * lo - mant) * p = (2 * lo) * p - mant * p
    BY <1>3
  <2>2. mant - lo >= 0 /\ 2 * lo - mant >= 1 /\ mant - lo \in Int /\ 2 * lo - mant \in Int
    BY <1>1, <1>3 DEF lo
  <2>3. (mant - lo) * p >= 0 /\ (2 * lo - mant) * p >= 1 /\ lo * p >= 1
    BY <1>3, <2>2
  <2>4. mant * p \in Nat /\ lo * p \in Nat /\ (2 * lo) * p \in Nat
    BY <1>3
  <2>5. mant * p >= lo * p /\ mant * p < (2 * lo) * p /\ mant * p > 0
    BY <2>1, <2>3, <2>4
  <2> QED
    BY <2>4, <2>5 DEF p
<1>5. lo * p = Power[lead + Scale] /\ lead + Scale \in Nat
  <2>1. b - 1 \in Nat /\ (b - 1) + t = lead + Scale
    BY <1>1, <1>2
  <2>2. Power[(b - 1) + t] = lo * p
    BY <1>2, <2>1, PowerAdds
  <2> QED
    BY <1>2, <2>1, <2>2
<1>6. row \in Nat /\ lead \in Int /\ least \in Int
  BY <1>1, <1>2
<1>7. LastPlace(mant, exp, f) \in Int /\ LastPlace(mant, exp, f) + Scale = Least(f) + row
  <2>1. LastPlace(mant, exp, f) = (IF lead >= least THEN lead ELSE least) - f.man
    BY DEF LastPlace, b
  <2> QED
    BY <1>1, <1>2, <2>1 DEF Least
<1>8. Hidden(f) * RowUnit(f, row) = Power[f.man + (Least(f) + row)] /\ Least(f) + row \in Nat
  <2>1. Least(f) + row \in Nat
    BY <1>2, <1>6
  <2> QED
    BY <1>2, <2>1, PowerAdds DEF Hidden, RowUnit
<1> DEFINE top == Hidden(f) * RowUnit(f, row)
           at == f.man + (Least(f) + row)
<1>9. top \in Nat /\ (2 * Hidden(f)) * RowUnit(f, row) = 2 * top
  <2>1. Hidden(f) \in Nat /\ RowUnit(f, row) \in Nat
    BY <1>6, FormatIs, RowsDouble
  <2> QED
    BY <2>1
<1>10. CASE lead >= least
  <2>1. at = lead + Scale
    BY <1>1, <1>2, <1>10 DEF Least
  <2>2. top = lo * p
    BY <1>5, <1>8, <2>1
  <2> HIDE DEF top, a, lo, p
  <2>3. a >= top /\ a < 2 * top
    <3>1. (2 * lo) * p = 2 * (lo * p) /\ lo * p \in Nat
      BY <1>3
    <3> QED
      BY <1>4, <2>2, <3>1
  <2>4. Reaches(a, row, f)
    BY <1>9, <2>3 DEF Reaches, top
  <2> QED
    BY <1>4, <1>6, <1>7, <2>4 DEF Scaled, a
<1>11. CASE ~(lead >= least)
  <2>1. row = 0 /\ at \in Nat /\ lead + Scale < at
    BY <1>1, <1>2, <1>11 DEF Least
  <2>2. 2 * Power[lead + Scale] <= top
    <3> HIDE DEF lead
    <3>1. 2 * Power[lead + Scale] <= Power[at]
      BY <1>5, <2>1, PowerGrows
    <3> QED
      BY <1>8, <3>1
  <2> HIDE DEF top, a, lo, p, row
  <2>3. a < 2 * top
    <3>1. (2 * lo) * p = 2 * (lo * p) /\ lo * p \in Nat
      BY <1>3
    <3> QED
      BY <1>4, <1>5, <1>9, <2>2, <3>1
  <2>4. Reaches(a, row, f)
    BY <1>9, <2>1, <2>3 DEF Reaches, top
  <2> QED
    BY <1>4, <1>6, <1>7, <2>4 DEF Scaled, a
<1> QED
  BY <1>10, <1>11

\* Rounded on its row, a magnitude stays on it or reaches the first of the next.
LEMMA RoundedOnRow ==
  ASSUME NEW f, IsFitting(f), NEW a \in Nat, NEW row \in Nat, Reaches(a, row, f),
         NEW neg \in BOOLEAN, NEW r \in Roundings
  PROVE  LET k == RoundUnit(a, RowUnit(f, row), neg, r)
         IN  k \in Nat /\ k <= 2 * Hidden(f) /\ (row > 0 => k >= Hidden(f))
<1> DEFINE u == RowUnit(f, row)
           h == Hidden(f)
           k == RoundUnit(a, u, neg, r)
<1>1. u \in Nat /\ u > 0 /\ h \in Nat /\ 2 * h \in Nat
  <2>1. RowUnit(f, row) \in Nat /\ RowUnit(f, row) >= 1
    BY RowsDouble
  <2>2. Hidden(f) \in Nat
    BY FormatIs
  <2> QED
    BY <2>1, <2>2
<1>2. k \in Nat
  <2>1. a \div u \in Nat
    BY <1>1, Brackets
  <2> QED
    BY <1>1, <2>1, RoundUnitChooses
<1>3. k <= 2 * h
  <2> DEFINE b == (2 * h) * u
  <2>1. b \in Nat /\ a <= b
    BY <1>1 DEF Reaches
  <2>2. RoundUnit(b, u, neg, r) = 2 * h
    <3> DEFINE m == 2 * h
    <3> HIDE DEF m, u
    <3>1. RoundUnit(m * u, u, neg, r) = m
      BY <1>1, MultiplesAreKept DEF m
    <3> QED
      BY <3>1 DEF m
  <2> HIDE DEF b, u
  <2>3. k <= RoundUnit(b, u, neg, r)
    BY <1>1, <2>1, RoundingKeepsOrder
  <2> QED
    BY <2>2, <2>3
<1>4. row > 0 => k >= h
  <2> SUFFICES ASSUME row > 0 PROVE k >= h
    OBVIOUS
  <2> DEFINE b == h * u
  <2>1. b \in Nat /\ b <= a
    BY <1>1 DEF Reaches
  <2>2. RoundUnit(b, u, neg, r) = h
    <3> HIDE DEF h, u
    <3> QED
      BY <1>1, MultiplesAreKept
  <2> HIDE DEF b, u
  <2>3. RoundUnit(b, u, neg, r) <= k
    BY <1>1, <2>1, RoundingKeepsOrder
  <2> QED
    BY <2>2, <2>3
<1> QED
  BY <1>2, <1>3, <1>4

\* round_to_float of a value that is not zero.
LEMMA EncodedIs ==
  ASSUME NEW f, IsFitting(f), NEW v, v.neg \in BOOLEAN, v.mant \in Nat, v.mant > 0,
         v.mant < Power[MantBits - 1], v.exp \in Int, v.exp + Scale >= 0,
         NEW r \in Roundings, NEW s
  PROVE  \E row \in Nat :
           LET a == Scaled(v.mant, v.exp)
               k == RoundUnit(a, RowUnit(f, row), v.neg, r)
           IN  /\ Reaches(a, row, f)
               /\ Lands(RoundToFloat(v, f, r, s), v.neg, k * RowUnit(f, row), k, f, r, s)
<1> DEFINE a == Scaled(v.mant, v.exp)
           place == LastPlace(v.mant, v.exp, f)
<1>1. a \in Nat /\ place \in Int
  BY LastPlaceIs
<1>2. PICK row \in Nat : place + Scale = Least(f) + row /\ Reaches(a, row, f)
  BY LastPlaceIs
<1> DEFINE u == RowUnit(f, row)
           k == RoundUnit(a, u, v.neg, r)
<1>3. k \in Nat /\ k <= 2 * Hidden(f) /\ (row > 0 => k >= Hidden(f))
  BY <1>1, <1>2, RoundedOnRow
<1>4. AtPlace(v.mant, v.exp, place, v.neg, r) = k
  <2>1. place + Scale >= 0 /\ Weight(place) = u
    BY <1>2, FormatIs DEF Weight, RowUnit
  <2> HIDE DEF place, u
  <2>2. AtPlace(v.mant, v.exp, place, v.neg, r)
          = RoundUnit(Scaled(v.mant, v.exp), Weight(place), v.neg, r)
    BY <1>1, <2>1, PlaceIsRounded
  <2> QED
    BY <2>1, <2>2
<1>5. RoundToFloat(v, f, r, s) = Carry(v.neg, k, place, f, r, s)
  <2> HIDE DEF k
  <2>1. v.mant # 0
    OBVIOUS
  <2>2. RoundToPlace(v, place, f, r, s)
          = Carry(v.neg, AtPlace(v.mant, v.exp, place, v.neg, r), place, f, r, s)
    BY DEF RoundToPlace, AtPlace
  <2> QED
    BY <1>4, <2>1, <2>2 DEF RoundToFloat
<1>6. Lands(Carry(v.neg, k, place, f, r, s), v.neg, k * RowUnit(f, row), k, f, r, s)
  <2> HIDE DEF k, place
  <2> QED
    BY <1>1, <1>2, <1>3, CarryIs
<1> QED
  BY <1>2, <1>5, <1>6

-----------------------------------------------------------------------------
\* What a magnitude is rounded to on its row is the value of the format its direction
\* selects; and it is past the largest exactly for a value beyond the format.

\* The rest of a row lies where the magnitude is, so what lies below it does not matter.
RowIs(row, u, a, k, f) ==
  /\ u \in Nat /\ u > 0 /\ a \in Nat /\ k \in Nat /\ k * u \in Nat
  /\ Hidden(f) \in Nat /\ Hidden(f) * u \in Nat
  /\ k <= 2 * Hidden(f) /\ (row > 0 => k >= Hidden(f) /\ k * u >= Hidden(f) * u)
  /\ row > 0 => a >= Hidden(f) * u

LEMMA RowFacts ==
  ASSUME NEW f, IsFitting(f), NEW a \in Nat, NEW row \in Nat, Reaches(a, row, f),
         NEW neg \in BOOLEAN, NEW r \in Roundings
  PROVE  RowIs(row, RowUnit(f, row), a, RoundUnit(a, RowUnit(f, row), neg, r), f)
<1> DEFINE u == RowUnit(f, row)
           h == Hidden(f)
           k == RoundUnit(a, u, neg, r)
<1>1. k \in Nat /\ k <= 2 * h /\ (row > 0 => k >= h)
  BY RoundedOnRow
<1>2. u \in Nat /\ u >= 1
  BY RowsDouble
<1>3. h \in Nat
  BY FormatIs
<1> HIDE DEF u, k, h
<1>4. k * u \in Nat /\ h * u \in Nat /\ (k >= h => k * u >= h * u)
  <2>1. (k - h) * u = k * u - h * u /\ (k - h >= 0 => (k - h) * u >= 0)
    BY <1>1, <1>2, <1>3
  <2>2. k * u \in Nat /\ h * u \in Nat
    BY <1>1, <1>2, <1>3
  <2> QED
    BY <1>1, <1>3, <2>1, <2>2
<1>5. row > 0 => a >= h * u
  BY DEF Reaches, u, h
<1> QED
  BY <1>1, <1>2, <1>3, <1>4, <1>5 DEF RowIs, u, h, k

LEMMA NearestNumber ==
  ASSUME NEW f, IsFitting(f), NEW a \in Nat, NEW row \in Nat, Reaches(a, row, f),
         NEW neg \in BOOLEAN, NEW p \in FieldsOf(f)
  PROVE  LET k == RoundUnit(a, RowUnit(f, row), neg, "nearest_even")
             y == k * RowUnit(f, row)
             w == MagnitudeOf(p, f)
         IN  /\ Distance(y, a) <= Distance(w, a)
             /\ w # y /\ Distance(y, a) = Distance(w, a) => k % 2 = 0
<1> DEFINE u == RowUnit(f, row)
           h == Hidden(f)
           k == RoundUnit(a, u, neg, "nearest_even")
           y == k * u
           w == MagnitudeOf(p, f)
<1>1. RowIs(row, u, a, k, f)
  BY RowFacts DEF Roundings
<1>2. w \in Nat /\ ((\E l \in Nat : w = l * u) \/ (row > 0 /\ w < h * u))
  BY RowsNest
<1>3. \A l \in Nat : /\ Distance(y, a) <= Distance(l * u, a)
                     /\ l # k /\ Distance(y, a) = Distance(l * u, a) => k % 2 = 0
  BY <1>1, NearestIsClosest DEF RowIs
<1> HIDE DEF u, k, w
<1>4. CASE \E l \in Nat : w = l * u
  <2>1. PICK l \in Nat : w = l * u
    BY <1>4
  <2>2. w # y => l # k
    BY <2>1
  <2> QED
    BY <1>3, <2>1, <2>2 DEF u, k, w
<1>5. CASE row > 0 /\ w < h * u
  <2> DEFINE b == h * u
  <2>1. Distance(y, a) <= Distance(b, a)
    BY <1>1, <1>3 DEF RowIs
  <2>2. b \in Nat /\ y \in Nat /\ a >= b /\ w < b
    BY <1>1, <1>5 DEF RowIs
  <2> HIDE DEF b, y
  <2>3. Distance(b, a) < Distance(w, a) /\ Distance(b, a) \in Nat /\ Distance(w, a) \in Nat
        /\ Distance(y, a) \in Nat
    BY <1>2, <2>2 DEF Distance
  <2>4. Distance(y, a) < Distance(w, a)
    BY <2>1, <2>3
  <2>5. Distance(y, a) <= Distance(w, a) /\ Distance(y, a) # Distance(w, a)
    BY <2>3, <2>4
  <2> QED
    BY <2>5 DEF y, u, k, w
<1> QED
  BY <1>2, <1>4, <1>5

LEMMA DirectedNumber ==
  ASSUME NEW f, IsFitting(f), NEW a \in Nat, NEW row \in Nat, Reaches(a, row, f),
         NEW neg \in BOOLEAN, NEW r \in Roundings, NEW p \in FieldsOf(f)
  PROVE  LET y == RoundUnit(a, RowUnit(f, row), neg, r) * RowUnit(f, row)
             w == MagnitudeOf(p, f)
         IN  /\ RoundsDown(neg, r) => y <= a /\ (w <= a => w <= y)
             /\ RoundsUp(neg, r) => y >= a /\ (w >= a => w >= y)
<1> DEFINE u == RowUnit(f, row)
           h == Hidden(f)
           k == RoundUnit(a, u, neg, r)
           y == k * u
           w == MagnitudeOf(p, f)
<1>1. RowIs(row, u, a, k, f)
  BY RowFacts
<1>2. w \in Nat /\ ((\E l \in Nat : w = l * u) \/ (row > 0 /\ w < h * u))
  BY RowsNest
<1>3. \A l \in Nat : /\ RoundsDown(neg, r) => y <= a /\ (l * u <= a => l <= k)
                     /\ RoundsUp(neg, r) => y >= a /\ (l * u >= a => l >= k)
  BY <1>1, DirectedIsTight DEF RowIs
<1> HIDE DEF u, k, w
<1>4. CASE \E l \in Nat : w = l * u
  <2>1. PICK l \in Nat : w = l * u
    BY <1>4
  <2>2. (l <= k => w <= y) /\ (l >= k => w >= y)
    <3>1. u \in Nat /\ u > 0 /\ k \in Nat
      BY <1>1 DEF RowIs
    <3>2. (k - l) * u = k * u - l * u /\ (k - l >= 0 => (k - l) * u >= 0)
          /\ (k - l <= 0 => (k - l) * u <= 0) /\ l * u \in Nat /\ k * u \in Nat
      BY <3>1
    <3> QED
      BY <2>1, <3>1, <3>2
  <2>3. /\ RoundsDown(neg, r) => y <= a /\ (w <= a => l <= k)
        /\ RoundsUp(neg, r) => y >= a /\ (w >= a => l >= k)
    BY <1>3, <2>1
  <2> HIDE DEF y
  <2> QED
    BY <2>2, <2>3 DEF y, u, k, w
<1>5. CASE row > 0 /\ w < h * u
  <2> DEFINE b == h * u
  <2>1. b \in Nat /\ y \in Nat /\ a >= b /\ w < b /\ y >= b
    BY <1>1, <1>5 DEF RowIs
  <2>2. (RoundsDown(neg, r) => y <= a) /\ (RoundsUp(neg, r) => y >= a)
    BY <1>3
  <2> HIDE DEF b, y
  <2>3. w <= y /\ ~(w >= a)
    BY <1>2, <2>1
  <2> QED
    BY <2>2, <2>3 DEF y, u, k, w
<1> QED
  BY <1>2, <1>4, <1>5

\* Beyond, of a magnitude and its sign.
Exceeds(a, neg, r, f) ==
  LET l == Largest(f)
      middle == 2 * l + Step(f)
  IN  /\ RoundsDown(neg, r) => a >= l + Step(f)
      /\ RoundsUp(neg, r) => a > l
      /\ r = "nearest_even" => 2 * a > middle \/ (2 * a = middle /\ MaxFiniteMan(f) % 2 = 1)

\* The multiple k of the unit is the nearest to a magnitude, or the even one of two.
IsNearest(k, u, a) ==
  \A l \in Nat : /\ Distance(k * u, a) <= Distance(l * u, a)
                 /\ l # k /\ Distance(k * u, a) = Distance(l * u, a) => k % 2 = 0

\* Which of two neighbouring multiples is nearer.
LEMMA SideOfMiddle ==
  ASSUME NEW a \in Nat, NEW u \in Nat, u > 0, NEW q \in Nat, NEW k \in Nat, IsNearest(k, u, a)
  PROVE  k > q <=> 2 * a > 2 * (q * u) + u \/ (2 * a = 2 * (q * u) + u /\ q % 2 = 1)
<1> DEFINE y == k * u
           m == q * u
           n == (q + 1) * u
<1>1. m \in Nat /\ n = m + u /\ y \in Nat
  OBVIOUS
<1>2. /\ k < q => y + u <= m
      /\ k <= q => y <= m
      /\ k > q => y >= m + u
      /\ k > q + 1 => y >= m + 2 * u
  BY Multiples
<1>3. /\ Distance(y, a) <= Distance(m, a)
      /\ q # k /\ Distance(y, a) = Distance(m, a) => k % 2 = 0
      /\ Distance(y, a) <= Distance(n, a)
      /\ q + 1 # k /\ Distance(y, a) = Distance(n, a) => k % 2 = 0
  <2>1. q + 1 \in Nat
    OBVIOUS
  <2> QED
    BY <2>1 DEF IsNearest
<1>4. k = q + 1 /\ q % 2 = 0 => k % 2 # 0
  OBVIOUS
<1>5. k = q /\ q % 2 = 1 => k % 2 # 0
  OBVIOUS
<1>6. q % 2 \in {0, 1}
  OBVIOUS
<1>7. k = q => y = m
  OBVIOUS
<1>8. k = q + 1 => y = n
  OBVIOUS
<1> DEFINE odd == q % 2 = 1
           even == k % 2 = 0
<1>9. (k = q + 1 /\ ~odd => ~even) /\ (k = q /\ odd => ~even)
  BY <1>4, <1>5, <1>6
<1> HIDE DEF y, m, n, odd
<1>10. /\ q # k /\ Distance(y, a) = Distance(m, a) => even
       /\ q + 1 # k /\ Distance(y, a) = Distance(n, a) => even
  BY <1>3
<1> HIDE DEF even
<1>11. CASE k > q
  <2>1. 2 * a >= 2 * m + u
    BY <1>1, <1>2, <1>3, <1>11 DEF Distance
  <2>2. 2 * a = 2 * m + u => k = q + 1
    BY <1>1, <1>2, <1>3, <1>11 DEF Distance
  <2>3. 2 * a = 2 * m + u => Distance(n, a) = Distance(m, a)
    BY <1>1 DEF Distance
  <2>4. 2 * a = 2 * m + u => odd
    BY <1>8, <1>9, <1>10, <2>2, <2>3
  <2> QED
    BY <1>1, <1>11, <2>1, <2>4 DEF odd, m
<1>12. CASE k <= q
  <2>1. 2 * a <= 2 * m + u
    BY <1>1, <1>2, <1>3, <1>12 DEF Distance
  <2>2. 2 * a = 2 * m + u => k = q
    BY <1>1, <1>2, <1>3, <1>12 DEF Distance
  <2>3. 2 * a = 2 * m + u => Distance(n, a) = Distance(m, a)
    BY <1>1 DEF Distance
  <2>4. 2 * a = 2 * m + u => ~odd
    BY <1>7, <1>9, <1>10, <2>2, <2>3
  <2> QED
    BY <1>1, <1>12, <2>1, <2>4 DEF odd, m
<1> QED
  BY <1>11, <1>12

LEMMA BeyondIs ==
  ASSUME NEW f, IsFitting(f), NEW a \in Nat, NEW row \in Nat, Reaches(a, row, f),
         NEW neg \in BOOLEAN, NEW r \in Roundings
  PROVE  RoundUnit(a, RowUnit(f, row), neg, r) * RowUnit(f, row) > Largest(f)
           <=> Exceeds(a, neg, r, f)
<1> DEFINE u == RowUnit(f, row)
           h == Hidden(f)
           k == RoundUnit(a, u, neg, r)
           y == k * u
           top == MaxFiniteExp(f) - 1
           t == RowUnit(f, top)
           q == h + MaxFiniteMan(f)
           l == q * t
           hu == h * u
           ht == h * t
<1>1. RowIs(row, u, a, k, f)
  BY RowFacts
<1>2. /\ h \in Nat /\ h >= 2 /\ h % 2 = 0 /\ MaxFiniteMan(f) \in Nat /\ q \in Nat /\ q >= h
      /\ q + 1 <= 2 * h /\ top \in Nat
  BY FormatIs
<1>3. t \in Nat /\ t >= 1
  BY <1>2, RowsDouble
<1>4. Largest(f) = l /\ l \in Nat /\ Step(f) = t
  BY LargestIs
<1>5. a < 2 * hu /\ y \in Nat /\ hu \in Nat /\ (row > 0 => a >= hu /\ y >= hu) /\ y <= 2 * hu
  <2>1. a < (2 * h) * u
    BY DEF Reaches
  <2>2. (2 * h) * u = 2 * hu /\ hu \in Nat /\ u \in Nat /\ u > 0 /\ k \in Nat /\ k <= 2 * h
    BY <1>1, <1>2 DEF RowIs
  <2> HIDE DEF k, u, h
  <2>3. (2 * h - k) * u = (2 * h) * u - k * u /\ (2 * h - k) * u >= 0 /\ k * u \in Nat
    BY <1>2, <2>2
  <2>4. row > 0 => a >= hu /\ y >= hu
    BY <1>1 DEF RowIs, h
  <2> HIDE DEF hu
  <2> QED
    BY <2>1, <2>2, <2>3, <2>4
<1>6. ht <= l /\ l + t <= 2 * ht /\ ht \in Nat
  <2> HIDE DEF h, t, q
  <2>1. (q - h) * t = q * t - h * t /\ (2 * h - (q + 1)) * t = (2 * h) * t - (q + 1) * t
        /\ (2 * h) * t = 2 * (h * t) /\ (q + 1) * t = q * t + t
    BY <1>2, <1>3
  <2>2. (q - h) * t >= 0 /\ (2 * h - (q + 1)) * t >= 0 /\ h * t \in Nat /\ q * t \in Nat
    BY <1>2, <1>3
  <2> QED
    BY <1>3, <2>1, <2>2
<1>7. /\ RoundsDown(neg, r) \/ RoundsUp(neg, r) \/ r = "nearest_even"
      /\ ~(RoundsDown(neg, r) /\ RoundsUp(neg, r))
      /\ r = "nearest_even" => ~RoundsDown(neg, r) /\ ~RoundsUp(neg, r)
  BY DEF RoundsDown, RoundsUp, Roundings
<1>8. (2 * a > 2 * l + t \/ (2 * a = 2 * l + t /\ q % 2 = 1))
        <=> (2 * a > 2 * l + t \/ (2 * a = 2 * l + t /\ MaxFiniteMan(f) % 2 = 1))
  <2>1. \A m \in Nat : (h + m) % 2 = m % 2
    <3> HIDE DEF h
    <3> QED
      BY <1>2
  <2> HIDE DEF h
  <2>2. q % 2 = MaxFiniteMan(f) % 2
    BY <1>2, <2>1
  <2> QED
    BY <2>2
<1> DEFINE tie == q % 2 = 1
<1> HIDE DEF tie
<1>9. Exceeds(a, neg, r, f) <=>
        /\ RoundsDown(neg, r) => a >= l + t
        /\ RoundsUp(neg, r) => a > l
        /\ r = "nearest_even" => 2 * a > 2 * l + t \/ (2 * a = 2 * l + t /\ tie)
  <2> HIDE DEF l, t, q
  <2> QED
    BY <1>4, <1>8 DEF Exceeds, tie
<1>10. CASE row < top
  <2>1. 2 * hu <= ht
    <3>1. 2 * u <= t
      BY <1>2, <1>10, RowsDouble
    <3>2. u \in Nat
      BY <1>1 DEF RowIs
    <3> HIDE DEF u, t, h
    <3>3. h * (t - 2 * u) = h * t - 2 * (h * u) /\ h * (t - 2 * u) >= 0
      BY <1>2, <1>3, <3>1, <3>2
    <3>4. h * t \in Nat /\ h * u \in Nat
      BY <1>2, <1>3, <3>2
    <3> QED
      BY <3>3, <3>4
  <2> HIDE DEF y, l, t, hu, ht
  <2>2. ~(y > l) /\ ~(a >= l + t) /\ ~(a > l) /\ ~(2 * a > 2 * l + t) /\ 2 * a # 2 * l + t
    BY <1>3, <1>4, <1>5, <1>6, <2>1
  <2>3. ~Exceeds(a, neg, r, f)
    BY <1>7, <1>9, <2>2
  <2> QED
    BY <1>4, <2>2, <2>3 DEF y, u, k
<1>11. CASE row > top
  <2>1. 2 * ht <= hu /\ row > 0
    <3>1. 2 * t <= u
      BY <1>2, <1>11, RowsDouble
    <3>2. u \in Nat
      BY <1>1 DEF RowIs
    <3>3. row > 0
      BY <1>2, <1>11
    <3> HIDE DEF u, t, h
    <3>4. h * (u - 2 * t) = h * u - 2 * (h * t) /\ h * (u - 2 * t) >= 0
      BY <1>2, <1>3, <3>1, <3>2
    <3>5. h * t \in Nat /\ h * u \in Nat
      BY <1>2, <1>3, <3>2
    <3> QED
      BY <3>3, <3>4, <3>5
  <2> HIDE DEF y, l, t, hu, ht
  <2>2. y > l /\ a >= l + t /\ a > l /\ 2 * a > 2 * l + t
    BY <1>3, <1>4, <1>5, <1>6, <2>1
  <2>3. Exceeds(a, neg, r, f)
    BY <1>9, <2>2
  <2> QED
    BY <1>4, <2>2, <2>3 DEF y, u, k
<1>12. CASE row = top
  <2>1. u = t /\ k \in Nat
    BY <1>1, <1>12 DEF RowIs
  <2> HIDE DEF k
  <2>2. y > l <=> k > q
    <3> HIDE DEF u, t, q
    <3>1. y = k * t /\ (k - q) * t = k * t - q * t
      BY <1>2, <1>3, <2>1
    <3>2. (k - q > 0 => (k - q) * t > 0) /\ (k - q <= 0 => (k - q) * t <= 0)
      BY <1>2, <1>3, <2>1
    <3>3. k * t \in Nat /\ q * t \in Nat
      BY <1>2, <1>3, <2>1
    <3> QED
      BY <1>2, <2>1, <3>1, <3>2, <3>3
  <2>3. k > q <=> Exceeds(a, neg, r, f)
    <3>1. CASE RoundsDown(neg, r)
      <4>1. (q + 1) * t = l + t /\ q + 1 \in Nat
        <5> HIDE DEF q, t
        <5> QED
          BY <1>2, <1>3
      <4>2. k * t <= a /\ ((q + 1) * t <= a => q + 1 <= k)
        <5> DEFINE n == q + 1
        <5> HIDE DEF n, u, t
        <5>1. k * u <= a /\ (n * u <= a => n <= k)
          BY <1>3, <2>1, <3>1, <4>1, DirectedIsTight DEF k, n
        <5> QED
          BY <2>1, <5>1 DEF n
      <4>3. k > q => k * t >= l + t
        <5> HIDE DEF q, t
        <5> QED
          BY <1>2, <1>3, <2>1, Multiples
      <4>4. k * t \in Nat
        <5> HIDE DEF t
        <5> QED
          BY <1>3, <2>1
      <4>5. Exceeds(a, neg, r, f) <=> a >= l + t
        BY <1>7, <1>9, <3>1
      <4> DEFINE z == k * t
      <4> HIDE DEF z, l, q, t
      <4>6. z <= a /\ (l + t <= a => q + 1 <= k) /\ (k > q => z >= l + t) /\ z \in Nat
        BY <4>1, <4>2, <4>3, <4>4 DEF z
      <4> QED
        BY <1>2, <1>3, <1>4, <2>1, <4>5, <4>6
    <3>2. CASE RoundsUp(neg, r)
      <4>1. k * t >= a /\ (l >= a => q >= k)
        <5> HIDE DEF u, t, q
        <5>1. k * u >= a /\ (q * u >= a => q >= k)
          BY <1>2, <1>3, <2>1, <3>2, DirectedIsTight DEF k
        <5> QED
          BY <2>1, <5>1
      <4>2. k <= q => k * t <= l
        <5> HIDE DEF q, t
        <5> QED
          BY <1>2, <1>3, <2>1, Multiples
      <4>3. Exceeds(a, neg, r, f) <=> a > l
        BY <1>7, <1>9, <3>2
      <4>4. k * t \in Nat
        <5> HIDE DEF t
        <5> QED
          BY <1>3, <2>1
      <4> DEFINE z == k * t
      <4> HIDE DEF z, l, q, t
      <4>5. z >= a /\ (l >= a => q >= k) /\ (k <= q => z <= l) /\ z \in Nat
        BY <4>1, <4>2, <4>4 DEF z
      <4> QED
        BY <1>2, <1>4, <2>1, <4>3, <4>5
    <3>3. CASE r = "nearest_even"
      <4>1. IsNearest(k, t, a)
        <5> HIDE DEF u, t
        <5>1. \A n \in Nat : /\ Distance(k * u, a) <= Distance(n * u, a)
                             /\ n # k /\ Distance(k * u, a) = Distance(n * u, a) => k % 2 = 0
          BY <1>3, <2>1, <3>3, NearestIsClosest DEF k
        <5> QED
          BY <2>1, <5>1 DEF IsNearest
      <4>2. k > q <=> 2 * a > 2 * l + t \/ (2 * a = 2 * l + t /\ tie)
        <5> HIDE DEF t, q
        <5>1. k > q <=> 2 * a > 2 * (q * t) + t \/ (2 * a = 2 * (q * t) + t /\ q % 2 = 1)
          BY <1>2, <1>3, <2>1, <4>1, SideOfMiddle
        <5> QED
          BY <5>1 DEF tie
      <4> QED
        BY <1>7, <1>9, <3>3, <4>2
    <3> QED
      BY <1>7, <3>1, <3>2, <3>3
  <2> QED
    BY <1>4, <2>2, <2>3 DEF y, u, k
<1> QED
  BY <1>2, <1>10, <1>11, <1>12

-----------------------------------------------------------------------------
\* Sources: the exact value of a finite pattern.

\* The decoded value v is finite, fits a mantissa and has the scaled value x.
Holding(v, x) ==
  /\ v.class = "fin" /\ v.neg \in BOOLEAN
  /\ v.mant \in Nat /\ v.mant < Power[MantBits - 1] /\ v.exp \in Int /\ v.exp + Scale >= 0
  /\ x = IF v.neg THEN -Scaled(v.mant, v.exp) ELSE Scaled(v.mant, v.exp)

\* The fields of a number are its value.
LEMMA FieldsDecoded ==
  ASSUME NEW f, IsFitting(f), NEW p \in FieldsOf(f), IsFinite(p, f)
  PROVE  DecodePattern(p, f) = Fin(p.neg, Significand(p, f), Place(p, f))
<1>1. ~IsNan(p, f) /\ ~IsInf(p, f) /\ IsFloat(f) /\ (f.hasInf <=> f.nan = "ieee")
  BY DEF IsFinite, IsFitting, IsFormat
<1>2. DecodePattern(p, f) = DecodeFloat(p, f)
  BY <1>1 DEF DecodePattern
<1>3. /\ ~(p.e = AllOnes(f.exp) /\ f.nan = "ieee")
      /\ ~(p.e = AllOnes(f.exp) /\ f.nan = "all_ones" /\ p.m = AllOnes(f.man))
  BY <1>1 DEF IsNan, IsInf
<1>4. DecodeFloat(p, f) = IF p.e = 0 THEN Fin(p.neg, p.m, 1 - f.bias - f.man)
                          ELSE Fin(p.neg, p.m + Power[f.man], p.e - f.bias - f.man)
  BY <1>3 DEF DecodeFloat
<1> QED
  BY <1>2, <1>4 DEF Significand, Place

\* A number decodes to its scaled value.
LEMMA FloatDecoded ==
  ASSUME NEW f, IsFitting(f), NEW p \in FieldsOf(f), IsFinite(p, f)
  PROVE  Holding(DecodePattern(p, f), ScaledValue(p, f))
<1> DEFINE v == Fin(p.neg, Significand(p, f), Place(p, f))
<1>1. /\ p.neg \in BOOLEAN /\ p.e \in Nat /\ p.m \in Nat /\ p.m < Hidden(f)
      /\ Significand(p, f) \in Nat /\ Significand(p, f) < 2 * Hidden(f)
      /\ Place(p, f) + Scale = Least(f) + RowOf(p) /\ RowOf(p) \in Nat
  BY FieldsAre DEF OnRow
<1>2. f.man \in Nat /\ f.bias \in Nat /\ Least(f) \in Nat /\ Scale \in Nat /\ MantBits \in Nat
      /\ f.man + 1 < MantBits
  BY FormatIs, BoundsAssumption DEF IsFitting, FormatFits
<1>3. ~IsNan(p, f) /\ ~IsInf(p, f) /\ f.kind = "float"
      /\ (f.hasInf <=> f.nan = "ieee")
  BY DEF IsFinite, IsFitting, IsFormat, IsFloat
<1>4. DecodePattern(p, f) = v
  BY FieldsDecoded
<1>5. Power[f.man + 1] = 2 * Hidden(f) /\ Power[f.man + 1] <= Power[MantBits - 1]
      /\ Power[MantBits - 1] \in Nat /\ Hidden(f) \in Nat
  <2>1. f.man + 1 \in Nat /\ MantBits - 1 \in Nat /\ f.man + 1 <= MantBits - 1
    BY <1>2
  <2>2. Power[f.man + 1] <= Power[MantBits - 1]
    BY <2>1, PowerGrows
  <2> QED
    BY <1>2, <2>1, <2>2, PowerIs DEF Hidden
<1>6. Significand(p, f) < Power[MantBits - 1]
  BY <1>1, <1>5
<1>7. Place(p, f) \in Int /\ Place(p, f) + Scale >= 0
  BY <1>1, <1>2 DEF Place
<1>8. ScaledValue(p, f) = IF p.neg THEN -Scaled(Significand(p, f), Place(p, f))
                          ELSE Scaled(Significand(p, f), Place(p, f))
  BY <1>3 DEF ScaledValue, MagnitudeOf, Scaled
<1> QED
  BY <1>1, <1>4, <1>6, <1>7, <1>8 DEF Holding, Fin

\* The decoded value of a number.
WholeValue(n) == Fin(n < 0, IF n < 0 THEN -n ELSE n, 0)

LEMMA WholeDecoded ==
  ASSUME NEW d, d.kind = "int" \/ d.kind = "bool", IsCastDtype(d), NEW p \in Patterns(d)
  PROVE  /\ Holding(DecodePattern(p, d), ScaledValue(p, d))
         /\ DecodePattern(p, d).exp = 0
         /\ DecodePattern(p, d) = WholeValue(IntValue(p, d))
         /\ IntValue(p, d) \in Int
<1> DEFINE n == IntValue(p, d)
           m == IF n < 0 THEN -n ELSE n
           v == Fin(n < 0, m, 0)
<1>1. /\ Scale \in Nat /\ MantBits - 1 \in Nat /\ Power[Scale] \in Nat
      /\ Power[MantBits - 1] \in Nat /\ Power[MantBits - 1] >= 2
  <2>1. Scale \in Nat /\ MantBits - 1 \in Nat /\ MantBits - 2 \in Nat
        /\ (MantBits - 2) + 1 = MantBits - 1
    BY BoundsAssumption
  <2>2. Power[MantBits - 2] >= 1 /\ Power[MantBits - 1] = 2 * Power[MantBits - 2]
        /\ Power[MantBits - 2] \in Nat
    BY <2>1, PowerIs
  <2> QED
    BY <2>1, <2>2, PowerIs
<1>2. n \in Int /\ m < Power[MantBits - 1] /\ m \in Nat
      /\ ScaledValue(p, d) = n * Power[Scale]
  <2>1. CASE d.kind = "bool"
    <3>1. n \in {0, 1} /\ n = IF p = 0 THEN 0 ELSE 1
      BY <2>1 DEF IntValue
    <3>2. ScaledValue(p, d) = IF p = 0 THEN 0 ELSE Power[Scale]
      BY <2>1 DEF ScaledValue
    <3> QED
      BY <1>1, <3>1, <3>2
  <2>2. CASE d.kind = "int"
    <3>1. IsWhole(d) /\ IsDtype(d)
      BY <2>2 DEF IsCastDtype, IsWhole, IsDtype
    <3>2. p \in Int
      <4>1. Patterns(d) = 0..(Size(d) - 1)
        BY <2>2 DEF Patterns
      <4>2. Size(d) \in Int
        BY <3>1 DEF IsDtype, Size
      <4> QED
        BY <4>1, <4>2
    <3>3. n = Wrap(p, d)
      BY <2>2 DEF IntValue
    <3>4. n \in Int /\ InRange(n, d)
      BY <3>1, <3>2, <3>3, WrapInRange
    <3>5. ScaledValue(p, d) = n * Power[Scale]
      BY <2>2, <3>3 DEF ScaledValue
    <3> HIDE DEF n
    <3>6. -Size(d) < n /\ n < Size(d) /\ Size(d) \in Nat
      BY <3>1, <3>4 DEF InRange, Lowest, Highest, IsDtype, Size
    <3>7. Size(d) <= Power[MantBits - 1]
      BY <3>1 DEF IsWhole
    <3> QED
      BY <1>1, <3>4, <3>5, <3>6, <3>7
  <2> QED
    BY <2>1, <2>2
<1>3. DecodePattern(p, d) = v
  BY DEF DecodePattern, IsFloat
<1> HIDE DEF n
<1>4. Scaled(m, 0) = m * Power[Scale]
  BY <1>1 DEF Scaled
<1>5. ScaledValue(p, d) = IF n < 0 THEN -Scaled(m, 0) ELSE Scaled(m, 0)
  <2> DEFINE u == Power[Scale]
  <2> HIDE DEF u
  <2>1. u \in Nat
    BY <1>1 DEF u
  <2>2. (-n) * u = -(n * u)
    BY <1>2, <2>1
  <2> QED
    BY <1>2, <1>4, <2>1, <2>2 DEF u
<1>6. (n < 0) \in BOOLEAN /\ 0 + Scale >= 0
  BY <1>1
<1>7. v = WholeValue(n) /\ v.exp = 0
  BY DEF WholeValue, Fin
<1>8. Holding(v, ScaledValue(p, d))
  <2> HIDE DEF m
  <2>1. v.class = "fin" /\ v.neg = (n < 0) /\ v.mant = m /\ v.exp = 0
    BY DEF Fin
  <2> HIDE DEF v
  <2>2. v.neg \in BOOLEAN
    BY <2>1
  <2>3. ScaledValue(p, d) = IF v.neg THEN -Scaled(v.mant, v.exp) ELSE Scaled(v.mant, v.exp)
    BY <1>5, <2>1
  <2>4. v.mant \in Nat /\ v.mant < Power[MantBits - 1] /\ v.exp \in Int /\ v.exp + Scale >= 0
    BY <1>1, <1>2, <2>1
  <2> QED
    BY <2>1, <2>2, <2>3, <2>4 DEF Holding
<1> HIDE DEF v
<1> QED
  BY <1>2, <1>3, <1>7, <1>8 DEF n

LEMMA Decoded ==
  ASSUME NEW d, IsCastDtype(d), DtypeFault(d) = "none", NEW p \in Patterns(d), IsFinite(p, d)
  PROVE  Holding(DecodePattern(p, d), ScaledValue(p, d))
<1>1. d.kind \in {"float", "int", "bool"}
  BY DEF IsCastDtype, DtypeFault
<1>2. CASE d.kind = "float"
  <2>1. IsFitting(d) /\ p \in FieldsOf(d)
    BY <1>2 DEF IsCastDtype, IsFitting, IsFloat, Patterns
  <2> QED
    BY <2>1, FloatDecoded
<1>3. CASE d.kind = "int" \/ d.kind = "bool"
  BY <1>3, WholeDecoded
<1> QED
  BY <1>1, <1>2, <1>3

-----------------------------------------------------------------------------
\* A pattern is read back as the value of the dtype it was cut from.
LEMMA PatternKeeps ==
  ASSUME NEW d, IsDtype(d), NEW y \in Int
  PROVE  /\ Pattern(y, d) \in 0..(Size(d) - 1)
         /\ Wrap(Pattern(y, d), d) = Wrap(y, d)
         /\ InRange(Wrap(y, d), d)
         /\ InRange(y, d) => Wrap(y, d) = y
<1>0. Size(d) \in Nat /\ Size(d) > 0
  BY DEF IsDtype, Size
<1>1. Pattern(y, d) \in 0..(Size(d) - 1) /\ Pattern(y, d) \in Int
  BY <1>0, Remainder DEF Pattern
<1>2. PICK k \in Int : Pattern(y, d) = y + k * Size(d)
  <2>1. y \div Size(d) \in Int /\ y = (y \div Size(d)) * Size(d) + (y % Size(d))
    BY <1>0, Remainder
  <2>2. y % Size(d) = y + (-(y \div Size(d))) * Size(d)
    BY <1>0, <2>1
  <2> QED
    BY <2>1, <2>2 DEF Pattern
<1>3. Wrap(Pattern(y, d), d) = Wrap(y, d)
  BY <1>2, WrapOfCongruent
<1> QED
  BY <1>1, <1>3, WrapInRange, WrapIdentity

\* encode_int, of a value it can round: the pattern stored is one of the dtype; a value
\* in range is read back as it was rounded, one out of range saturates when clamped,
\* wraps from an integer and is declined from a float.
THEOREM IntegersStoreTheValue ==
  ASSUME NEW d, IsDtype(d), NEW v, v.class = "fin", ~IsTooLarge(v), NEW fromInt \in BOOLEAN,
         NEW r \in Roundings, NEW s \in Saturations, RoundedInteger(v, r) \in Int
  PROVE  LET x == RoundedInteger(v, r)
             code == EncodeInt(v, d, fromInt, r, s)
             stored == Wrap(code.value, d)
         IN  /\ code.ok => code.value \in 0..(Size(d) - 1) /\ InRange(stored, d)
             /\ InRange(x, d) => code.ok /\ stored = x
             /\ ~InRange(x, d) /\ s = "clamp" =>
                  code.ok /\ stored = IF x < 0 THEN Lowest(d) ELSE Highest(d)
             /\ ~InRange(x, d) /\ s = "none" =>
                  IF fromInt THEN code.ok /\ stored = Wrap(x, d)
                  ELSE ~code.ok /\ code.error = "CastUnpinned"
<1> DEFINE x == RoundedInteger(v, r)
<1>1. x \in Int /\ Size(d) \in Nat /\ Size(d) > 0
  BY DEF IsDtype, Size
<1>2. ASSUME NEW y \in Int
      PROVE  /\ Pattern(y, d) \in 0..(Size(d) - 1)
             /\ Wrap(Pattern(y, d), d) = Wrap(y, d)
             /\ InRange(Wrap(y, d), d)
             /\ InRange(y, d) => Wrap(y, d) = y
  BY PatternKeeps
<1>3. /\ Lowest(d) \in Int /\ Highest(d) \in Int
      /\ InRange(Lowest(d), d) /\ InRange(Highest(d), d) /\ Lowest(d) <= 0
      /\ Highest(d) >= 0
  BY DEF Lowest, Highest, InRange, IsDtype, Size
<1>4. ~InRange(x, d) => (x < Lowest(d) <=> x < 0)
  BY <1>1, <1>3 DEF InRange
<1> HIDE DEF x
<1>5. EncodeInt(v, d, fromInt, r, s) =
        IF InRange(x, d) THEN Value(Pattern(x, d))
        ELSE IF s = "clamp" THEN Bound(x < Lowest(d), d)
        ELSE IF fromInt THEN Value(Pattern(x, d)) ELSE Error("CastUnpinned")
  BY DEF EncodeInt, x
<1> DEFINE code == EncodeInt(v, d, fromInt, r, s)
<1>6. CASE InRange(x, d)
  <2>1. code.ok /\ code.value = Pattern(x, d)
    BY <1>5, <1>6 DEF Value
  <2> QED
    BY <1>1, <1>2, <1>6, <2>1 DEF x
<1>7. CASE ~InRange(x, d) /\ s = "clamp"
  <2> DEFINE bound == IF x < 0 THEN Lowest(d) ELSE Highest(d)
  <2>1. code.ok /\ code.value = Pattern(bound, d)
    BY <1>4, <1>5, <1>7 DEF Value, Bound
  <2>2. bound \in Int /\ InRange(bound, d)
    BY <1>3
  <2> HIDE DEF code, bound
  <2>3. code.value \in 0..(Size(d) - 1) /\ Wrap(code.value, d) = bound
    BY <1>2, <2>1, <2>2
  <2> QED
    BY <1>7, <2>1, <2>2, <2>3 DEF x, code, bound
<1>8. CASE ~InRange(x, d) /\ s = "none" /\ fromInt
  <2>1. code.ok /\ code.value = Pattern(x, d)
    BY <1>5, <1>8 DEF Value
  <2> HIDE DEF code
  <2>2. /\ code.value \in 0..(Size(d) - 1) /\ Wrap(code.value, d) = Wrap(x, d)
        /\ InRange(Wrap(x, d), d)
    BY <1>1, <1>2, <2>1
  <2> QED
    BY <1>8, <2>1, <2>2 DEF x, code
<1>9. CASE ~InRange(x, d) /\ s = "none" /\ ~fromInt
  <2>1. ~code.ok /\ code.error = "CastUnpinned"
    BY <1>5, <1>9 DEF Error
  <2> QED
    BY <1>9, <2>1 DEF x
<1> QED
  BY <1>6, <1>7, <1>8, <1>9 DEF Saturations
-----------------------------------------------------------------------------
\* A float destination.

LEMMA NegatedZero ==
  ASSUME NEW a, a = 0
  PROVE  -a = 0
<1>1. \A b \in Int : b <= 0 /\ b >= 0 => -b \in Int /\ -b <= 0 /\ -b >= 0
  OBVIOUS
<1>2. a \in Int /\ a <= 0 /\ a >= 0
  OBVIOUS
<1> DEFINE z == -a
<1>3. z \in Int /\ z <= 0 /\ z >= 0
  BY <1>1, <1>2
<1> HIDE DEF z
<1>4. z = 0
  BY <1>3
<1> QED
  BY <1>4 DEF z

LEMMA LatticeIs ==
  ASSUME request \in Requests, IsFitting(Target)
  PROVE  /\ \A w \in Lattice[Target] : \E g \in FieldsOf(Target) : w = MagnitudeOf(g, Target)
         /\ \A w \in Lattice[Target] : w \in Nat
<1>1. Target \in {r.dst : r \in {q \in Requests : IsFloat(q.dst)}}
  BY DEF Target, IsFitting
<1>2. Lattice[Target]
        = {MagnitudeOf(g, Target) : g \in {q \in FieldsOf(Target) : ~q.neg /\ IsFinite(q, Target)}}
  BY <1>1 DEF Lattice
<1>3. \A w \in Lattice[Target] : \E g \in FieldsOf(Target) : w = MagnitudeOf(g, Target)
  BY <1>2
<1>4. \A g \in FieldsOf(Target) : MagnitudeOf(g, Target) \in Nat
  BY RowsNest
<1> QED
  BY <1>3, <1>4

\* A zero is converted to the zero of its sign.
LEMMA ZeroConverted ==
  ASSUME Dir \in Roundings, request \in Requests, IsFitting(Target),
         NEW p, ScaledValue(p, Source) = 0, NEW neg \in BOOLEAN
  PROVE  FloatIsRight(p, Zero(neg))
<1> DEFINE z == Zero(neg)
<1>1. z \in FieldsOf(Target) /\ z.e = 0 /\ z.m = 0 /\ z.neg = neg
  BY FormatIs DEF Zero, FieldsOf
<1>2. MaxFiniteExp(Target) >= 1 /\ MaxFiniteExp(Target) \in Nat /\ Largest(Target) \in Nat
      /\ MaxFiniteExp(Target) - 1 \in Nat
      /\ Step(Target) = RowUnit(Target, MaxFiniteExp(Target) - 1)
  BY FormatIs, LargestIs
<1>3. Step(Target) \in Nat /\ Step(Target) >= 1
  BY <1>2, RowsDouble
<1>4. IsFinite(z, Target)
  <2>1. ~Past(z.e, z.m, Target)
    BY <1>1, <1>2 DEF Past
  <2> HIDE DEF z
  <2> QED
    BY <1>1, <2>1, FiniteIs
<1>5. MagnitudeOf(z, Target) = 0
  <2>1. RowOf(z) = 0 /\ Significand(z, Target) = 0
    BY <1>1 DEF RowOf, Significand
  <2> HIDE DEF z
  <2>2. MagnitudeOf(z, Target) = Significand(z, Target) * RowUnit(Target, RowOf(z))
    BY <1>1, FieldsAre
  <2>3. RowUnit(Target, 0) \in Nat
    BY RowsDouble
  <2> QED
    BY <2>1, <2>2, <2>3
<1>6. Magn(0) = 0
  BY DEF Magn, Distance
<1>7. ~Beyond(0, Target)
  BY <1>2, <1>3, <1>6 DEF Beyond
<1>8. RoundsTo(0, z, Target)
  <2> HIDE DEF z
  <2>1. \A w \in Lattice[Target] : w \in Nat
    BY LatticeIs
  <2>2. \A w \in Nat : Distance(0, 0) = 0 /\ Distance(0, 0) <= Distance(w, 0)
                       /\ (Distance(0, 0) = Distance(w, 0) => w = 0)
    BY DEF Distance
  <2> QED
    BY <1>1, <1>5, <1>6, <2>1, <2>2 DEF RoundsTo
<1> QED
  BY <1>4, <1>7, <1>8 DEF FloatIsRight, SameSign

LEMMA FloatConverted ==
  ASSUME Dir \in Roundings, Sat \in Saturations, request \in Requests, IsFitting(Target),
         NEW p, NEW v, Holding(v, ScaledValue(p, Source)),
         RoundToFloat(v, Target, Dir, Sat).ok
  PROVE  FloatIsRight(p, RoundToFloat(v, Target, Dir, Sat).value)
<1> DEFINE x == ScaledValue(p, Source)
           code == RoundToFloat(v, Target, Dir, Sat)
           q == code.value
           a == Scaled(v.mant, v.exp)
           n == v.neg
<1>1. /\ n \in BOOLEAN /\ v.mant \in Nat /\ v.mant < Power[MantBits - 1] /\ v.exp \in Int
      /\ v.exp + Scale >= 0 /\ x = IF n THEN -a ELSE a
  BY DEF Holding
<1>2. CASE v.mant = 0
  <2>1. v.exp + Scale \in Nat
    BY <1>1, BoundsAssumption
  <2>2. a = 0
    BY <1>2, <2>1, PowerIs DEF Scaled
  <2>3. q = Zero(n)
    BY <1>2 DEF RoundToFloat, Value
  <2>4. x = 0
    <3>1. x = IF n THEN -a ELSE a
      BY <1>1
    <3> HIDE DEF a, x, n
    <3>2. -a = 0
      BY <2>2, NegatedZero
    <3> QED
      BY <2>2, <3>1, <3>2
  <2> HIDE DEF a, q, x
  <2> QED
    BY <1>1, <2>3, <2>4, ZeroConverted DEF x, q
<1>3. CASE v.mant # 0
  <2>1. a \in Nat /\ a > 0 /\ v.mant > 0
    BY <1>1, <1>3, LastPlaceIs
  <2>2. PICK row \in Nat :
          LET k == RoundUnit(a, RowUnit(Target, row), n, Dir)
          IN  /\ Reaches(a, row, Target)
              /\ Lands(code, n, k * RowUnit(Target, row), k, Target, Dir, Sat)
    BY <1>1, <2>1, EncodedIs
  <2> DEFINE k == RoundUnit(a, RowUnit(Target, row), n, Dir)
             y == k * RowUnit(Target, row)
  <2>3. Reaches(a, row, Target) /\ Lands(code, n, y, k, Target, Dir, Sat)
    BY <2>2
  <2>4. y \in Nat
    BY <1>1, <2>1, <2>3, RowFacts DEF RowIs
  <2>5. y > Largest(Target) <=> Exceeds(a, n, Dir, Target)
    BY <1>1, <2>1, <2>3, BeyondIs
  <2>6. \A g \in FieldsOf(Target) :
          LET w == MagnitudeOf(g, Target)
          IN  /\ RoundsDown(n, Dir) => y <= a /\ (w <= a => w <= y)
              /\ RoundsUp(n, Dir) => y >= a /\ (w >= a => w >= y)
    BY <1>1, <2>1, <2>3, DirectedNumber
  <2>7. Dir = "nearest_even" => \A g \in FieldsOf(Target) :
          LET w == MagnitudeOf(g, Target)
          IN  /\ Distance(y, a) <= Distance(w, a)
              /\ w # y /\ Distance(y, a) = Distance(w, a) => k % 2 = 0
    BY <1>1, <2>1, <2>3, NearestNumber
  <2> DEFINE even == k % 2 = 0
  <2> HIDE DEF a, y, x
  <2>8. x # 0 /\ (x < 0 <=> n) /\ Magn(x) = a /\ x \in Int
    BY <1>1, <2>1 DEF Magn, Distance
  <2> HIDE DEF n
  <2>9. /\ Down(x) <=> RoundsDown(n, Dir)
        /\ ~Down(x) /\ Dir # "nearest_even" => RoundsUp(n, Dir)
        /\ Dir = "nearest_even" => ~Down(x) /\ ~RoundsUp(n, Dir)
        /\ Down(x) => ~RoundsUp(n, Dir) /\ Dir # "nearest_even"
    <3>1. x > 0 <=> ~n
      BY <2>8
    <3> QED
      BY <1>1, <2>8, <3>1 DEF Down, RoundsDown, RoundsUp, Roundings
  <2>10. Beyond(x, Target) <=> Exceeds(a, n, Dir, Target)
    <3>1. CASE Down(x)
      BY <2>8, <2>9, <3>1 DEF Beyond, Exceeds
    <3>2. CASE ~Down(x) /\ Dir = "nearest_even"
      BY <2>8, <2>9, <3>2 DEF Beyond, Exceeds
    <3>3. CASE ~Down(x) /\ Dir # "nearest_even"
      BY <2>8, <2>9, <3>3 DEF Beyond, Exceeds
    <3> QED
      BY <3>1, <3>2, <3>3
  <2>11. n = (x < 0)
    BY <1>1, <2>8
  <2> HIDE DEF code
  <2>12. CASE Beyond(x, Target)
    <3>1. code = Overflow(Target, n, Dir, Sat)
      <4> HIDE DEF k
      <4> QED
        BY <2>3, <2>5, <2>10, <2>12 DEF Lands
    <3>2. Overflow(Target, n, Dir, Sat)
            = IF Sat = "clamp" \/ Down(x) THEN Value(MaxFinite(Target, n))
              ELSE IF Target.hasInf THEN Value(Infinity(Target, n)) ELSE Error("CastUnpinned")
      BY <2>9 DEF Overflow, RoundsDown
    <3>3. code.ok
      BY DEF code
    <3>4. q = IF Sat = "clamp" \/ Down(x) THEN MaxFinite(Target, n) ELSE Infinity(Target, n)
      BY <3>1, <3>2, <3>3 DEF Value, Error
    <3> HIDE DEF q
    <3>5. q = IF Sat = "clamp" \/ Down(x) THEN MaxFinite(Target, x < 0)
              ELSE Infinity(Target, x < 0)
      BY <2>11, <3>4
    <3> QED
      BY <2>12, <3>5 DEF FloatIsRight, q, x, code
  <2>13. CASE ~Beyond(x, Target)
    <3>1. /\ q \in FieldsOf(Target) /\ IsFinite(q, Target) /\ q.neg = n
          /\ MagnitudeOf(q, Target) = y /\ q.m % 2 = k % 2
      <4> HIDE DEF k
      <4> QED
        BY <2>3, <2>5, <2>10, <2>13 DEF Lands
    <3>2. q.m % 2 = 0 <=> even
      BY <3>1
    <3> HIDE DEF q, even, k
    <3>3. \A w \in Lattice[Target] :
             /\ RoundsDown(n, Dir) => y <= a /\ (w <= a => w <= y)
             /\ RoundsUp(n, Dir) => y >= a /\ (w >= a => w >= y)
      BY <2>6, LatticeIs
    <3>4. Dir = "nearest_even" => \A w \in Lattice[Target] :
             /\ Distance(y, a) <= Distance(w, a)
             /\ w # y /\ Distance(y, a) = Distance(w, a) => even
      BY <2>7, LatticeIs DEF even
    <3>5. RoundsTo(x, q, Target)
      <4>1. CASE Down(x)
        <5>1. y <= a
          <6>1. \E g \in FieldsOf(Target) : TRUE
            BY <3>1
          <6> QED
            BY <2>6, <2>9, <4>1, <6>1
        <5> QED
          BY <2>8, <2>9, <3>1, <3>3, <4>1, <5>1 DEF RoundsTo
      <4>2. CASE Dir = "nearest_even"
        BY <2>8, <3>1, <3>2, <3>4, <4>2 DEF RoundsTo
      <4>3. CASE ~Down(x) /\ Dir # "nearest_even"
        <5>1. y >= a
          <6>1. \E g \in FieldsOf(Target) : TRUE
            BY <3>1
          <6> QED
            BY <2>6, <2>9, <4>3, <6>1
        <5> QED
          BY <2>8, <2>9, <3>1, <3>3, <4>3, <5>1 DEF RoundsTo
      <4> QED
        BY <4>1, <4>2, <4>3
    <3>6. SameSign(x, q.neg)
      BY <2>11, <3>1 DEF SameSign
    <3> QED
      BY <2>13, <3>1, <3>5, <3>6 DEF FloatIsRight, q, x, code
  <2> QED
    BY <2>12, <2>13
<1> QED
  BY <1>2, <1>3
-----------------------------------------------------------------------------
\* An integer destination.

\* The integer below a value and what is left, mirrored for a negative one.
LEMMA Mirrored ==
  ASSUME NEW a \in Nat, NEW u \in Nat, u > 0
  PROVE  LET q == a \div u
             t == a % u
         IN  /\ q \in Nat /\ t \in 0..(u - 1)
             /\ t = 0 => (-a) \div u = -q /\ (-a) % u = 0
             /\ t # 0 => (-a) \div u = -q - 1 /\ (-a) % u = u - t
<1> DEFINE q == a \div u
           t == a % u
           b == -a
<1>1. q \in Nat /\ t \in 0..(u - 1) /\ a = q * u + t /\ b \in Int
  BY Brackets
<1>2. t = 0 => b \div u = -q /\ b % u = 0
  <2> SUFFICES ASSUME t = 0 PROVE b \div u = -q /\ b % u = 0
    OBVIOUS
  <2> DEFINE n == -q
  <2>1. n \in Int /\ b = n * u + 0 /\ 0 \in 0..(u - 1)
    <3> HIDE DEF q, t
    <3> QED
      BY <1>1
  <2> HIDE DEF b, n
  <2>2. b % u = 0 /\ b \div u = n
    BY <1>1, <2>1, DivisionIs
  <2> QED
    BY <2>2 DEF n
<1>3. t # 0 => b \div u = -q - 1 /\ b % u = u - t
  <2> SUFFICES ASSUME t # 0 PROVE b \div u = -q - 1 /\ b % u = u - t
    OBVIOUS
  <2> DEFINE n == -q - 1
             r == u - t
  <2>1. n \in Int /\ b = n * u + r /\ r \in 0..(u - 1)
    <3> HIDE DEF q, t
    <3>1. (-q - 1) * u = -(q * u) - u
      BY <1>1
    <3> QED
      BY <1>1, <3>1
  <2> HIDE DEF b, n, r
  <2>2. b % u = r /\ b \div u = n
    BY <1>1, <2>1, DivisionIs
  <2> QED
    BY <2>2 DEF n, r
<1> HIDE DEF q, t
<1> QED
  BY <1>1, <1>2, <1>3 DEF q, t, b

\* Which of two neighbours is even, below zero.
LEMMA MirroredParity ==
  ASSUME NEW q \in Nat
  PROVE  (-q - 1) % 2 = 1 <=> q % 2 = 0
<1> DEFINE n == -q - 1
<1>1. q % 2 \in 0..1 /\ q \div 2 \in Int /\ q = (q \div 2) * 2 + (q % 2)
  BY Remainder
<1>2. n \in Int /\ n % 2 \in 0..1 /\ n \div 2 \in Int /\ n = (n \div 2) * 2 + (n % 2)
  <2>1. n \in Int
    OBVIOUS
  <2> HIDE DEF n
  <2> QED
    BY <2>1, Remainder
<1>3. n + q = -1
  OBVIOUS
<1> DEFINE a == q \div 2
           b == q % 2
           c == n \div 2
           e == n % 2
<1> HIDE DEF a, b, c, e
<1>4. b \in 0..1 /\ e \in 0..1 /\ a \in Int /\ c \in Int /\ q = a * 2 + b /\ n = c * 2 + e
  BY <1>1, <1>2 DEF a, b, c, e
<1> HIDE DEF n
<1>5. e = 1 <=> b = 0
  BY <1>3, <1>4
<1> QED
  BY <1>5 DEF b, e, n

\* rounded_integer rounds in its direction, a magnitude and its sign or a value alike.
LEMMA IntegerOfIs ==
  ASSUME Dir \in Roundings, NEW a \in Nat, NEW neg \in BOOLEAN
  PROVE  LET m == RoundUnit(a, Unit, neg, Dir)
             x == IF neg THEN -a ELSE a
         IN  m \in Nat /\ IntegerOf(x) = IF neg THEN -m ELSE m
<1> DEFINE u == Unit
           q == a \div u
           t == a % u
           m == RoundUnit(a, u, neg, Dir)
<1>1. u \in Nat /\ u > 0
  BY BoundsAssumption, PowerIs DEF Unit
<1>2. /\ q \in Nat /\ t \in 0..(u - 1)
      /\ t = 0 => (-a) \div u = -q /\ (-a) % u = 0
      /\ t # 0 => (-a) \div u = -q - 1 /\ (-a) % u = u - t
  <2> HIDE DEF u
  <2> QED
    BY <1>1, Mirrored
<1>3. m = Bumped(q, Rest(t, u), neg, Dir)
  BY DEF RoundUnit
<1> HIDE DEF u, q, t, m
<1>4. m = q \/ m = q + 1
  BY <1>3 DEF Bumped
<1>5. m \in Nat
  BY <1>2, <1>4
<1>6. q % 2 \in {0, 1}
  BY <1>2
<1>7. CASE ~neg
  <2>1. IntegerOf(a) = m
    <3>1. a \div Unit = q /\ a % Unit = t
      BY DEF q, t, u
    <3> DEFINE odd == q % 2 = 1
    <3>2. Bumps(q, Rest(t, u), neg, Dir) <=>
            /\ t # 0
            /\ \/ Dir = "nearest_even" /\ (2 * t > u \/ (2 * t = u /\ odd))
               \/ Dir = "toward_pos_inf"
      BY <1>1, <1>2, <1>7 DEF Bumps, Rest
    <3>3. IntegerOf(a) =
            IF CASE Dir = "nearest_even" -> 2 * t > u \/ (2 * t = u /\ odd)
                 [] Dir = "toward_zero" -> t # 0 /\ a < 0
                 [] Dir = "toward_neg_inf" -> FALSE
                 [] Dir = "toward_pos_inf" -> t # 0
            THEN q + 1 ELSE q
      BY <3>1 DEF IntegerOf, u
    <3> HIDE DEF odd
    <3>4. CASE Dir = "nearest_even"
      BY <1>1, <1>2, <1>3, <3>2, <3>3, <3>4 DEF Bumped
    <3>5. CASE Dir = "toward_zero"
      BY <1>1, <1>2, <1>3, <3>2, <3>3, <3>5 DEF Bumped
    <3>6. CASE Dir = "toward_neg_inf"
      BY <1>1, <1>2, <1>3, <3>2, <3>3, <3>6 DEF Bumped
    <3>7. CASE Dir = "toward_pos_inf"
      BY <1>1, <1>2, <1>3, <3>2, <3>3, <3>7 DEF Bumped
    <3> QED
      BY <3>4, <3>5, <3>6, <3>7 DEF Roundings
  <2> QED
    BY <1>5, <1>7, <2>1 DEF m, u
<1>8. CASE neg
  <2> DEFINE b == -a
             n == -m
             odd == q % 2 = 1
             low == b \div Unit
             rest == b % Unit
             lowOdd == low % 2 = 1
  <2>1. b \in Int /\ b <= 0
    OBVIOUS
  <2>2. Bumps(q, Rest(t, u), neg, Dir) <=>
          /\ t # 0
          /\ \/ Dir = "nearest_even" /\ (2 * t > u \/ (2 * t = u /\ odd))
             \/ Dir = "toward_neg_inf"
    BY <1>1, <1>2, <1>8 DEF Bumps, Rest
  <2>3. IntegerOf(b) =
          IF CASE Dir = "nearest_even" -> 2 * rest > u \/ (2 * rest = u /\ lowOdd)
               [] Dir = "toward_zero" -> rest # 0 /\ b < 0
               [] Dir = "toward_neg_inf" -> FALSE
               [] Dir = "toward_pos_inf" -> rest # 0
          THEN low + 1 ELSE low
    BY DEF IntegerOf, u
  <2>4. t = 0 => low = -q /\ rest = 0
    BY <1>2 DEF u
  <2>5. t # 0 => low = -q - 1 /\ rest = u - t /\ (lowOdd <=> ~odd) /\ b < 0
    <3>1. t # 0 => low = -q - 1 /\ rest = u - t
      BY <1>2 DEF u
    <3>2. (-q - 1) % 2 = 1 <=> ~odd
      BY <1>2, <1>6, MirroredParity
    <3>3. t # 0 => a # 0
      <4>1. a = 0 => t = 0
        BY <1>1 DEF t
      <4> QED
        BY <4>1
    <3> HIDE DEF odd, low, rest
    <3>4. t # 0 => (lowOdd <=> ~odd)
      BY <3>1, <3>2
    <3>5. a # 0 => b < 0
      OBVIOUS
    <3> HIDE DEF b
    <3> QED
      BY <3>1, <3>3, <3>4, <3>5
  <2> HIDE DEF odd, low, rest, lowOdd, b
  <2>6. n = IF Bumps(q, Rest(t, u), neg, Dir) THEN -q - 1 ELSE -q
    BY <1>2, <1>3 DEF Bumped
  <2> HIDE DEF n
  <2>7. CASE t = 0
    <3>1. IntegerOf(b) = -q
      <4>1. -q + 1 # -q
        BY <1>2
      <4>2. CASE Dir = "nearest_even"
        BY <1>1, <2>3, <2>4, <2>7, <4>2
      <4>3. CASE Dir = "toward_zero"
        BY <2>3, <2>4, <2>7, <4>3
      <4>4. CASE Dir = "toward_neg_inf"
        BY <2>3, <2>4, <2>7, <4>4
      <4>5. CASE Dir = "toward_pos_inf"
        BY <2>3, <2>4, <2>7, <4>5
      <4> QED
        BY <4>2, <4>3, <4>4, <4>5 DEF Roundings
    <3>2. n = -q
      BY <2>2, <2>6, <2>7
    <3> QED
      BY <1>5, <1>8, <3>1, <3>2 DEF b, n, m, u
  <2>8. CASE t # 0
    <3>1. IntegerOf(b) = n
      <4>1. (-q - 1) + 1 = -q /\ u - t # 0
        BY <1>1, <1>2
      <4>2. CASE Dir = "nearest_even"
        <5>1. 2 * rest > u <=> 2 * t < u
          BY <1>1, <1>2, <2>5, <2>8
        <5>2. 2 * rest = u <=> 2 * t = u
          BY <1>1, <1>2, <2>5, <2>8
        <5>3. IntegerOf(b) = IF 2 * rest > u \/ (2 * rest = u /\ lowOdd) THEN low + 1 ELSE low
          BY <2>3, <4>2
        <5>4. IntegerOf(b) = IF 2 * t < u \/ (2 * t = u /\ ~odd) THEN -q ELSE -q - 1
          BY <2>5, <2>8, <4>1, <5>1, <5>2, <5>3
        <5>5. n = IF 2 * t > u \/ (2 * t = u /\ odd) THEN -q - 1 ELSE -q
          BY <2>2, <2>6, <2>8, <4>2
        <5> QED
          BY <1>1, <1>2, <5>4, <5>5
      <4>3. CASE Dir = "toward_zero"
        BY <1>1, <1>2, <2>2, <2>3, <2>5, <2>6, <2>8, <4>1, <4>3
      <4>4. CASE Dir = "toward_neg_inf"
        BY <1>1, <1>2, <2>2, <2>3, <2>5, <2>6, <2>8, <4>1, <4>4
      <4>5. CASE Dir = "toward_pos_inf"
        BY <1>1, <1>2, <2>2, <2>3, <2>5, <2>6, <2>8, <4>1, <4>5
      <4> QED
        BY <4>2, <4>3, <4>4, <4>5 DEF Roundings
    <3> QED
      BY <1>5, <1>8, <3>1 DEF b, n, m, u
  <2> QED
    BY <2>7, <2>8
<1> QED
  BY <1>7, <1>8

LEMMA RoundedIntegerIs ==
  ASSUME Dir \in Roundings, NEW v, NEW x, Holding(v, x)
  PROVE  LET mag == RoundUnit(Scaled(v.mant, v.exp), Unit, v.neg, Dir)
         IN  /\ mag \in Nat /\ AtPlace(v.mant, v.exp, 0, v.neg, Dir) = mag
             /\ RoundedInteger(v, Dir) = IntegerOf(x)
             /\ IntegerOf(x) = IF v.neg THEN -mag ELSE mag
<1> DEFINE a == Scaled(v.mant, v.exp)
           n == v.neg
           mag == RoundUnit(a, Unit, n, Dir)
<1>1. /\ n \in BOOLEAN /\ v.mant \in Nat /\ v.mant < Power[MantBits - 1] /\ v.exp \in Int
      /\ v.exp + Scale >= 0 /\ x = IF n THEN -a ELSE a
  BY DEF Holding
<1>2. v.exp + Scale \in Nat /\ Scale \in Nat
  BY <1>1, BoundsAssumption
<1>3. a \in Nat
  BY <1>1, <1>2, PowerIs DEF Scaled
<1>4. AtPlace(v.mant, v.exp, 0, n, Dir) = mag
  <2>1. 0 \in Int /\ 0 + Scale >= 0 /\ Weight(0) = Unit
    BY <1>2 DEF Weight, Unit
  <2>2. AtPlace(v.mant, v.exp, 0, n, Dir) = RoundUnit(Scaled(v.mant, v.exp), Weight(0), n, Dir)
    BY <1>1, <2>1, PlaceIsRounded
  <2> QED
    BY <2>1, <2>2
<1>5. RoundedInteger(v, Dir) = IF n THEN -mag ELSE mag
  <2>1. AtPlace(v.mant, v.exp, 0, n, Dir)
          = IF v.exp >= 0 THEN v.mant * Power[v.exp] ELSE RoundShift(v.mant, -v.exp, n, Dir)
    <3>1. v.exp - 0 = v.exp /\ 0 - v.exp = -v.exp /\ (0 <= v.exp <=> v.exp >= 0)
      BY <1>1
    <3> QED
      BY <3>1 DEF AtPlace
  <2> HIDE DEF mag
  <2> QED
    BY <1>4, <2>1 DEF RoundedInteger
<1>6. mag \in Nat /\ IntegerOf(x) = IF n THEN -mag ELSE mag
  <2> HIDE DEF a, n
  <2> QED
    BY <1>1, <1>3, IntegerOfIs
<1> HIDE DEF mag, a
<1> QED
  BY <1>4, <1>5, <1>6 DEF mag, a

\* What no i128 holds is outside every integer dtype, on the side of its sign.
LEMMA TooLargeIsOutside ==
  ASSUME Dir \in Roundings, NEW v, NEW x, Holding(v, x), IsTooLarge(v), NEW d, IsWhole(d)
  PROVE  ~InRange(IntegerOf(x), d) /\ (IntegerOf(x) < 0 <=> v.neg)
<1> DEFINE mag == RoundUnit(Scaled(v.mant, v.exp), Unit, v.neg, Dir)
           b == BitLength(v.mant)
           lo == Power[b - 1]
           p == Power[v.exp]
<1>1. /\ v.class = "fin" /\ v.neg \in BOOLEAN /\ v.mant \in Nat /\ v.mant < Power[MantBits - 1]
      /\ v.exp >= 0 /\ v.mant # 0 /\ b + v.exp > MaxExp /\ v.exp \in Int
  BY DEF Holding, IsTooLarge
<1>2. mag \in Nat /\ AtPlace(v.mant, v.exp, 0, v.neg, Dir) = mag
      /\ IntegerOf(x) = IF v.neg THEN -mag ELSE mag
  BY RoundedIntegerIs
<1>3. mag = v.mant * p
  <2>1. v.exp - 0 = v.exp /\ 0 <= v.exp
    BY <1>1
  <2> HIDE DEF mag
  <2> QED
    BY <1>2, <2>1 DEF AtPlace
<1> HIDE DEF mag
<1>4. b \in Nat /\ b >= 1 /\ v.mant >= lo
  BY <1>1, BitLengthIs
<1> HIDE DEF b
<1>5. lo \in Nat /\ p \in Nat /\ p >= 1 /\ Power[(b - 1) + v.exp] = lo * p
      /\ (b - 1) + v.exp \in Nat
  <2>1. b - 1 \in Nat /\ v.exp \in Nat
    BY <1>1, <1>4
  <2>2. Power[b - 1] \in Nat /\ Power[v.exp] \in Nat /\ Power[v.exp] >= 1
    BY <2>1, PowerIs
  <2>3. Power[(b - 1) + v.exp] = Power[b - 1] * Power[v.exp]
    BY <2>1, PowerAdds
  <2>4. (b - 1) + v.exp \in Nat
    BY <2>1
  <2> QED
    BY <2>2, <2>3, <2>4
<1>6. Power[MaxExp] <= lo * p
  <2> DEFINE t == (b - 1) + v.exp
  <2>1. t \in Nat /\ MaxExp \in Nat /\ MaxExp <= t
    BY <1>1, <1>4, BoundsAssumption
  <2> HIDE DEF t
  <2>2. Power[MaxExp] <= Power[t]
    BY <2>1, PowerGrows
  <2> QED
    BY <1>5, <2>2 DEF t
<1>7. lo * p <= mag
  <2> HIDE DEF lo, p
  <2>1. (v.mant - lo) * p = v.mant * p - lo * p
    BY <1>1, <1>5
  <2>2. (v.mant - lo) * p >= 0
    BY <1>1, <1>4, <1>5 DEF lo
  <2>3. v.mant * p \in Nat /\ lo * p \in Nat
    BY <1>1, <1>5
  <2> QED
    BY <1>3, <2>1, <2>2, <2>3
<1>8. Size(d) <= mag /\ mag > 0 /\ Size(d) \in Nat /\ Size(d) > 0
  <2>1. Size(d) \in Nat /\ Size(d) > 0 /\ Size(d) <= Power[MaxExp]
    BY DEF IsWhole, Size
  <2>2. Power[MaxExp] \in Nat /\ lo * p \in Nat
    BY <1>5, PowerIs, BoundsAssumption
  <2> QED
    BY <1>2, <1>6, <1>7, <2>1, <2>2
<1>9. Lowest(d) \in Int /\ Highest(d) \in Int /\ Lowest(d) > -Size(d) /\ Highest(d) < Size(d)
  BY DEF IsWhole, Lowest, Highest, Size
<1>10. CASE v.neg
  BY <1>2, <1>8, <1>9, <1>10 DEF InRange
<1>11. CASE ~v.neg
  BY <1>2, <1>8, <1>9, <1>11 DEF InRange
<1> QED
  BY <1>1, <1>10, <1>11

LEMMA IntConverted ==
  ASSUME Dir \in Roundings, Sat \in Saturations, IsWhole(Target),
         NEW p, NEW v, Holding(v, ScaledValue(p, Source)),
         EncodeInt(v, Target, ~IsFloat(Source), Dir, Sat).ok
  PROVE  IntIsRight(p, EncodeInt(v, Target, ~IsFloat(Source), Dir, Sat).value)
<1> DEFINE x == ScaledValue(p, Source)
           n == IntegerOf(x)
           from == ~IsFloat(Source)
           code == EncodeInt(v, Target, from, Dir, Sat)
           w == Wrap(code.value, Target)
<1>1. IsDtype(Target) /\ Size(Target) \in Nat /\ Size(Target) > 0
  BY DEF IsWhole, IsDtype, Size
<1>2. v.class = "fin" /\ v.neg \in BOOLEAN /\ from \in BOOLEAN
  BY DEF Holding
<1>3. RoundedInteger(v, Dir) = n /\ n \in Int
  <2> DEFINE mag == RoundUnit(Scaled(v.mant, v.exp), Unit, v.neg, Dir)
  <2>1. mag \in Nat /\ RoundedInteger(v, Dir) = n /\ n = IF v.neg THEN -mag ELSE mag
    BY RoundedIntegerIs
  <2> HIDE DEF mag, n
  <2> QED
    BY <2>1
<1>4. CASE IsTooLarge(v)
  <2>1. ~InRange(n, Target) /\ (n < 0 <=> v.neg)
    BY <1>4, TooLargeIsOutside
  <2>2. Sat = "clamp" /\ code.value = Pattern(IF v.neg THEN Lowest(Target) ELSE Highest(Target), Target)
    <3>1. code = IF Sat = "clamp" THEN Bound(v.neg, Target) ELSE Error("CastUnpinned")
      BY <1>2, <1>4 DEF EncodeInt
    <3>2. code.ok
      OBVIOUS
    <3> HIDE DEF code
    <3>3. Sat = "clamp"
      BY <3>1, <3>2 DEF Error
    <3> QED
      BY <3>1, <3>3 DEF Bound, Value
  <2> DEFINE bound == IF v.neg THEN Lowest(Target) ELSE Highest(Target)
  <2>3. bound \in Int /\ InRange(bound, Target)
    BY <1>1 DEF Lowest, Highest, InRange, IsDtype, Size, IsWhole
  <2> HIDE DEF bound
  <2>4. Wrap(Pattern(bound, Target), Target) = bound
    BY <1>1, <2>3, PatternKeeps
  <2>5. w = bound
    BY <2>2, <2>4 DEF bound
  <2> HIDE DEF w, n
  <2>6. w = IF n < 0 THEN Lowest(Target) ELSE Highest(Target)
    BY <1>3, <2>1, <2>5 DEF bound
  <2> QED
    BY <2>1, <2>2, <2>6 DEF IntIsRight, n, w, x, code
<1>5. CASE ~IsTooLarge(v)
  <2>1. LET y == RoundedInteger(v, Dir)
            e == EncodeInt(v, Target, from, Dir, Sat)
            stored == Wrap(e.value, Target)
        IN  /\ InRange(y, Target) => e.ok /\ stored = y
            /\ ~InRange(y, Target) /\ Sat = "clamp" =>
                 e.ok /\ stored = IF y < 0 THEN Lowest(Target) ELSE Highest(Target)
            /\ ~InRange(y, Target) /\ Sat = "none" =>
                 IF from THEN e.ok /\ stored = Wrap(y, Target)
                 ELSE ~e.ok /\ e.error = "CastUnpinned"
    <3> HIDE DEF from, n
    <3> QED
      BY <1>1, <1>2, <1>3, <1>5, IntegersStoreTheValue
  <2>2. /\ InRange(n, Target) => w = n
        /\ ~InRange(n, Target) /\ Sat = "clamp" => w = IF n < 0 THEN Lowest(Target) ELSE Highest(Target)
        /\ ~InRange(n, Target) /\ Sat = "none" => from /\ w = Wrap(n, Target)
    <3>1. code.ok
      OBVIOUS
    <3> HIDE DEF n, from
    <3> QED
      BY <1>3, <2>1, <3>1
  <2> HIDE DEF n, w
  <2>3. (n - Wrap(n, Target)) % Size(Target) = 0
    <3>1. PICK k \in Int : Wrap(n, Target) = n + k * Size(Target)
      BY <1>1, <1>3, WrapCongruent
    <3> DEFINE s == Size(Target)
               j == -k
               m == j * s
    <3>2. s \in Nat /\ s > 0 /\ j \in Int /\ n - Wrap(n, Target) = m
      BY <1>1, <1>3, <3>1
    <3> HIDE DEF j, s
    <3>3. m \in Int /\ m = j * s + 0 /\ 0 \in 0..(s - 1)
      BY <3>2
    <3> HIDE DEF m
    <3>4. m % s = 0
      BY <3>2, <3>3, DivisionIs
    <3> QED
      BY <3>2, <3>4 DEF s
  <2>4. ~InRange(n, Target) /\ Sat # "clamp" => from /\ (n - w) % Size(Target) = 0
    BY <2>2, <2>3 DEF Saturations
  <2> QED
    BY <2>2, <2>4 DEF IntIsRight, n, w, x
<1> QED
  BY <1>4, <1>5
-----------------------------------------------------------------------------
\* The call: every pattern written is the code of the element it stands for.

Fault == CastFault(Source, Target, Dir, Sat)
Result(i) == CastBits(data[i], Source, Target, Dir, Sat)
Outcomes == {Result(i).value : i \in {j \in DOMAIN data : Result(j).ok}}

Requested == request \in Requests /\ data \in Inputs[Source]
Written ==
  /\ out \in Seq(Outcomes)
  /\ status = "running" => Fault = "none"
  /\ out # <<>> => Fault = "none" /\ Len(out) <= Len(data)
  /\ \A i \in DOMAIN out : Result(i).ok /\ out[i] = Result(i).value
Declined ==
  error # "none" =>
    IF Fault # "none" THEN error = Fault
    ELSE Len(out) < Len(data) /\ ~Result(Len(out) + 1).ok /\ error = Result(Len(out) + 1).error

CastInv == Requested /\ Written /\ Declined

LEMMA DataAre ==
  ASSUME Requested, Fault = "none"
  PROVE  /\ IsCastDtype(Source) /\ IsCastDtype(Target) /\ Dir \in Roundings /\ Sat \in Saturations
         /\ DtypeFault(Source) = "none" /\ DtypeFault(Target) = "none" /\ Target.kind # "bool"
         /\ data \in Seq(Patterns(Source))
<1>1. /\ IsCastDtype(Source) /\ IsCastDtype(Target) /\ Dir \in Roundings /\ Sat \in Saturations
      /\ DtypeFault(Source) = "none" => Inputs[Source] \subseteq Seq(Patterns(Source))
  BY RequestsAssumption DEF Requested, Source, Target, Dir, Sat
<1>2. DtypeFault(Source) = "none" /\ DtypeFault(Target) = "none" /\ Target.kind # "bool"
  <2>1. DtypeFault(Source) = "none"
    BY DEF Fault, CastFault
  <2>2. DtypeFault(Target) = "none"
    BY <2>1 DEF Fault, CastFault
  <2> QED
    BY <2>1, <2>2 DEF Fault, CastFault
<1> QED
  BY <1>1, <1>2 DEF Requested

LEMMA CastInvHolds == Spec => []CastInv
<1>1. Init => CastInv
  <2> SUFFICES ASSUME Init PROVE CastInv
    OBVIOUS
  <2>1. out = <<>> /\ out \in Seq(Outcomes) /\ DOMAIN out = {}
    BY DEF Init
  <2> QED
    BY <2>1 DEF Init, CastInv, Requested, Written, Declined
<1>2. CastInv /\ [Next]_vars => CastInv'
  <2> SUFFICES ASSUME CastInv, [Next]_vars PROVE CastInv'
    OBVIOUS
  <2> USE DEF CastInv
  <2>1. CASE Decline
    <3>1. /\ request' = request /\ data' = data /\ out' = out /\ status' = "declined"
          /\ error' = Fault /\ Fault # "none"
      BY <2>1 DEF Decline, Fail, Fault
    <3>2. Fault' = Fault /\ Outcomes' = Outcomes /\ \A i : Result(i)' = Result(i)
      BY <3>1 DEF Fault, Outcomes, Result, Source, Target, Dir, Sat
    <3>3. Requested'
      BY <3>1 DEF Requested, Source
    <3>4. Written'
      BY <3>1, <3>2 DEF Written
    <3>5. Declined'
      BY <3>1, <3>2 DEF Declined
    <3> QED
      BY <3>3, <3>4, <3>5
  <2>2. CASE Begin
    <3>1. /\ request' = request /\ data' = data /\ out' = out /\ status' = "running"
          /\ error' = error /\ Fault = "none"
      BY <2>2 DEF Begin, Fault
    <3>2. Fault' = Fault /\ Outcomes' = Outcomes /\ \A i : Result(i)' = Result(i)
      BY <3>1 DEF Fault, Outcomes, Result, Source, Target, Dir, Sat
    <3>3. Requested'
      BY <3>1 DEF Requested, Source
    <3>4. Written'
      BY <3>1, <3>2 DEF Written
    <3>5. Declined'
      BY <3>1, <3>2 DEF Declined
    <3> QED
      BY <3>3, <3>4, <3>5
  <2>3. CASE Element
    <3> DEFINE i == Len(out) + 1
               r == Result(i)
    <3>1. status = "running" /\ Len(out) < Len(data)
      BY <2>3 DEF Element
    <3>2. Fault = "none" /\ data \in Seq(Patterns(Source)) /\ out \in Seq(Outcomes)
      BY <3>1, DataAre DEF Written
    <3>3. i \in DOMAIN data /\ Len(out) \in Nat /\ Len(data) \in Nat
      BY <3>1, <3>2
    <3>4. CASE r.ok
      <4>1. /\ request' = request /\ data' = data /\ out' = Append(out, r.value)
            /\ status' = status /\ error' = error
        BY <2>3, <3>4 DEF Element, Result
      <4>2. Fault' = Fault /\ Outcomes' = Outcomes /\ \A k : Result(k)' = Result(k)
        BY <4>1 DEF Fault, Outcomes, Result, Source, Target, Dir, Sat
      <4>3. Requested'
        BY <4>1 DEF Requested, Source
      <4>4. r.value \in Outcomes
        BY <3>3, <3>4 DEF Outcomes
      <4> HIDE DEF r
      <4>5. out' \in Seq(Outcomes) /\ Len(out') = Len(out) + 1 /\ Len(out') <= Len(data)
        BY <3>1, <3>2, <3>3, <4>1, <4>4
      <4>6. ASSUME NEW k \in DOMAIN (out')
            PROVE  Result(k).ok /\ out'[k] = Result(k).value
        <5>1. k \in 1..(Len(out) + 1)
          BY <4>5
        <5>2. CASE k = i
          BY <3>2, <3>3, <3>4, <4>1, <4>4, <5>2 DEF r
        <5>3. CASE k # i
          <6>1. k \in 1..Len(out) /\ out'[k] = out[k]
            BY <3>2, <3>3, <4>1, <4>4, <5>1, <5>3
          <6>2. k \in DOMAIN out
            BY <3>2, <6>1
          <6> QED
            BY <6>1, <6>2 DEF Written
        <5> QED
          BY <5>2, <5>3
      <4>7. Written'
        BY <3>2, <4>1, <4>2, <4>5, <4>6 DEF Written
      <4>8. Declined'
        <5>1. error = "none"
          <6> SUFFICES ASSUME error # "none" PROVE FALSE
            OBVIOUS
          <6>1. ~Result(Len(out) + 1).ok
            BY <3>2 DEF Declined
          <6> QED
            BY <3>4, <6>1 DEF r
        <5> QED
          BY <4>1, <5>1 DEF Declined
      <4> QED
        BY <4>3, <4>7, <4>8
    <3>5. CASE ~r.ok
      <4>1. /\ request' = request /\ data' = data /\ out' = out
            /\ status' = "declined" /\ error' = r.error
        BY <2>3, <3>5 DEF Element, Result, Fail
      <4>2. Fault' = Fault /\ Outcomes' = Outcomes /\ \A k : Result(k)' = Result(k)
        BY <4>1 DEF Fault, Outcomes, Result, Source, Target, Dir, Sat
      <4>3. Requested'
        BY <4>1 DEF Requested, Source
      <4>4. Written'
        BY <4>1, <4>2 DEF Written
      <4>5. Declined'
        BY <3>1, <3>2, <3>5, <4>1, <4>2 DEF Declined
      <4> QED
        BY <4>3, <4>4, <4>5
    <3> QED
      BY <3>4, <3>5
  <2>4. CASE Return
    <3>1. /\ request' = request /\ data' = data /\ out' = out /\ status' = "returned"
          /\ error' = error
      BY <2>4 DEF Return
    <3>2. Fault' = Fault /\ Outcomes' = Outcomes /\ \A i : Result(i)' = Result(i)
      BY <3>1 DEF Fault, Outcomes, Result, Source, Target, Dir, Sat
    <3>3. Requested'
      BY <3>1 DEF Requested, Source
    <3>4. Written'
      BY <3>1, <3>2 DEF Written
    <3>5. Declined'
      BY <3>1, <3>2 DEF Declined
    <3> QED
      BY <3>3, <3>4, <3>5
  <2>5. CASE UNCHANGED vars
    <3>1. /\ request' = request /\ data' = data /\ out' = out /\ status' = status
          /\ error' = error
      BY <2>5 DEF vars
    <3>2. Fault' = Fault /\ Outcomes' = Outcomes /\ \A i : Result(i)' = Result(i)
      BY <3>1 DEF Fault, Outcomes, Result, Source, Target, Dir, Sat
    <3>3. Requested'
      BY <3>1 DEF Requested, Source
    <3>4. Written'
      BY <3>1, <3>2 DEF Written
    <3>5. Declined'
      BY <3>1, <3>2 DEF Declined
    <3> QED
      BY <3>3, <3>4, <3>5
  <2> QED
    BY <2>1, <2>2, <2>3, <2>4, <2>5 DEF Next
<1> QED
  BY <1>1, <1>2, PTL DEF Spec

\* The conversion of one element, when the dtypes differ.
LEMMA ElementIs ==
  ASSUME CastInv, Source # Target, NEW i \in Converted
  PROVE  IF IsFloat(Target) THEN FloatIsRight(data[i], out[i]) ELSE IntIsRight(data[i], out[i])
<1> DEFINE p == data[i]
           v == DecodePattern(p, Source)
<1>1. i \in DOMAIN out /\ IsFinite(p, Source)
  BY DEF Converted
<1>2. out \in Seq(Outcomes) /\ Fault = "none" /\ Len(out) <= Len(data)
      /\ Result(i).ok /\ out[i] = Result(i).value
  <2>1. out \in Seq(Outcomes) /\ Result(i).ok /\ out[i] = Result(i).value
    BY <1>1 DEF CastInv, Written
  <2>2. out # <<>>
    <3>1. DOMAIN <<>> = {}
      OBVIOUS
    <3> QED
      BY <1>1, <3>1
  <2> QED
    BY <2>1, <2>2 DEF CastInv, Written
<1>3. /\ IsCastDtype(Source) /\ IsCastDtype(Target) /\ Dir \in Roundings /\ Sat \in Saturations
      /\ DtypeFault(Source) = "none" /\ DtypeFault(Target) = "none" /\ Target.kind # "bool"
      /\ data \in Seq(Patterns(Source))
  BY <1>2, DataAre DEF CastInv
<1>4. p \in Patterns(Source)
  <2>1. i \in 1..Len(data)
    <3>1. Len(out) \in Nat /\ Len(data) \in Nat /\ DOMAIN out = 1..Len(out)
      BY <1>2, <1>3
    <3> QED
      BY <1>1, <1>2, <3>1
  <2> QED
    BY <1>3, <2>1
<1>5. Holding(v, ScaledValue(p, Source))
  BY <1>1, <1>3, <1>4, Decoded
<1>6. v.class = "fin"
  BY <1>5 DEF Holding
<1> HIDE DEF p, v
<1>7. CASE IsFloat(Target)
  <2>1. Result(i) = RoundToFloat(v, Target, Dir, Sat)
    BY <1>6, <1>7 DEF Result, CastBits, EncodeFloat, p, v
  <2>2. IsFitting(Target)
    BY <1>3, <1>7 DEF IsCastDtype, IsFitting, IsFloat
  <2>3. request \in Requests
    BY DEF CastInv, Requested
  <2>4. FloatIsRight(p, RoundToFloat(v, Target, Dir, Sat).value)
    BY <1>2, <1>3, <1>5, <2>1, <2>2, <2>3, FloatConverted
  <2> QED
    BY <1>2, <1>7, <2>1, <2>4 DEF p
<1>8. CASE ~IsFloat(Target)
  <2>1. Result(i) = EncodeInt(v, Target, ~IsFloat(Source), Dir, Sat)
    BY <1>8 DEF Result, CastBits, p, v
  <2>2. IsWhole(Target)
    <3>1. Target.kind = "int"
      BY <1>3, <1>8 DEF IsCastDtype, DtypeFault, IsFloat
    <3> QED
      BY <1>3, <3>1 DEF IsCastDtype
  <2>3. IntIsRight(p, EncodeInt(v, Target, ~IsFloat(Source), Dir, Sat).value)
    BY <1>2, <1>3, <1>5, <2>1, <2>2, IntConverted
  <2> QED
    BY <1>2, <1>8, <2>1, <2>3 DEF p
<1> QED
  BY <1>7, <1>8

\* cast_tensor: of every request and data, for every format, width and direction, each
\* finite element is rounded once, to the value of the destination that its direction
\* selects, and one beyond the destination saturates, becomes infinite or wraps.
THEOREM CastIsCorrectlyRounded == Spec => []CorrectlyRounded
<1>1. CastInv => CorrectlyRounded
  BY ElementIs DEF CorrectlyRounded
<1> QED
  BY <1>1, CastInvHolds, PTL
-----------------------------------------------------------------------------
\* What the destination holds is kept.

\* The code of a finite value for a float: declined only without infinities and without
\* saturation, and otherwise a pattern with the sign of the value.
LEMMA FloatCode ==
  ASSUME NEW f, IsFitting(f), NEW v, NEW x, Holding(v, x), NEW r \in Roundings,
         NEW s \in Saturations
  PROVE  LET code == RoundToFloat(v, f, r, s)
         IN  /\ f.hasInf \/ s = "clamp" => code.ok
             /\ code.ok => code.value \in FieldsOf(f) /\ code.value.neg = v.neg
<1> DEFINE code == RoundToFloat(v, f, r, s)
           q == code.value
<1>1. /\ v.neg \in BOOLEAN /\ v.mant \in Nat /\ v.mant < Power[MantBits - 1] /\ v.exp \in Int
      /\ v.exp + Scale >= 0
  BY DEF Holding
<1>2. /\ AllOnes(f.exp) \in Nat /\ AllOnes(f.man) \in Nat
      /\ MaxFiniteExp(f) \in Nat /\ MaxFiniteExp(f) <= AllOnes(f.exp)
      /\ MaxFiniteMan(f) \in Nat /\ MaxFiniteMan(f) <= AllOnes(f.man)
  BY FormatIs
<1>3. CASE v.mant = 0
  <2>1. code = Value(Zero(v.neg))
    BY <1>3 DEF RoundToFloat
  <2>2. Zero(v.neg) \in FieldsOf(f) /\ Zero(v.neg).neg = v.neg
    BY <1>1, <1>2 DEF Zero, FieldsOf
  <2> QED
    BY <2>1, <2>2 DEF Value
<1>4. CASE v.mant # 0
  <2>1. v.mant > 0
    BY <1>1, <1>4
  <2>2. PICK row \in Nat :
          LET k == RoundUnit(Scaled(v.mant, v.exp), RowUnit(f, row), v.neg, r)
          IN  /\ Reaches(Scaled(v.mant, v.exp), row, f)
              /\ Lands(code, v.neg, k * RowUnit(f, row), k, f, r, s)
    BY <1>1, <2>1, EncodedIs
  <2> DEFINE k == RoundUnit(Scaled(v.mant, v.exp), RowUnit(f, row), v.neg, r)
             y == k * RowUnit(f, row)
  <2>3. Lands(code, v.neg, y, k, f, r, s)
    BY <2>2
  <2> HIDE DEF code, y, k
  <2>4. CASE y > Largest(f)
    <3>1. code = Overflow(f, v.neg, r, s)
      BY <2>3, <2>4 DEF Lands
    <3>2. MaxFinite(f, v.neg) \in FieldsOf(f) /\ MaxFinite(f, v.neg).neg = v.neg
          /\ Infinity(f, v.neg) \in FieldsOf(f) /\ Infinity(f, v.neg).neg = v.neg
      BY <1>1, <1>2 DEF MaxFinite, Infinity, FieldsOf
    <3>3. \/ code = Value(MaxFinite(f, v.neg))
          \/ code = Value(Infinity(f, v.neg))
          \/ code = Error("CastUnpinned") /\ ~f.hasInf /\ s # "clamp"
      BY <3>1 DEF Overflow
    <3> QED
      BY <3>2, <3>3 DEF Value, Error, code
  <2>5. CASE ~(y > Largest(f))
    <3>1. code = Value(q) /\ q \in FieldsOf(f) /\ q.neg = v.neg
      BY <2>3, <2>5 DEF Lands
    <3> HIDE DEF q
    <3> QED
      BY <3>1 DEF Value, q, code
  <2> QED
    BY <2>4, <2>5
<1> QED
  BY <1>3, <1>4

\* A value the format has is found again in every direction.
LEMMA FloatTakesBack ==
  ASSUME NEW f, IsFitting(f), NEW p \in FieldsOf(f), IsFinite(p, f),
         NEW v, Holding(v, ScaledValue(p, f)), NEW r \in Roundings, NEW s \in Saturations
  PROVE  LET code == RoundToFloat(v, f, r, s)
         IN  /\ code.ok /\ code.value.neg = v.neg
             /\ ScaledValue(code.value, f) = ScaledValue(p, f)
<1> DEFINE code == RoundToFloat(v, f, r, s)
           q == code.value
           a == Scaled(v.mant, v.exp)
           b == MagnitudeOf(p, f)
           x == ScaledValue(p, f)
<1>1. /\ v.neg \in BOOLEAN /\ v.mant \in Nat /\ v.mant < Power[MantBits - 1] /\ v.exp \in Int
      /\ v.exp + Scale >= 0 /\ x = IF v.neg THEN -a ELSE a
  BY DEF Holding
<1>2. b \in Nat /\ b <= Largest(f) /\ Largest(f) \in Nat
  <2>1. b \in Nat
    BY RowsNest
  <2>2. b <= Largest(f)
    BY FiniteFits
  <2> QED
    BY <2>1, <2>2, LargestIs
<1>3. f.kind = "float" /\ p.neg \in BOOLEAN
  BY DEF IsFitting, IsFloat, FieldsOf
<1>4. x = IF p.neg THEN -b ELSE b
  BY <1>3 DEF ScaledValue
<1>5. a \in Nat
  <2>1. v.exp + Scale \in Nat
    BY <1>1, BoundsAssumption
  <2> QED
    BY <1>1, <2>1, PowerIs DEF Scaled
<1>6. a = b
  <2> DEFINE n == v.neg
             m == p.neg
  <2>1. n \in BOOLEAN /\ m \in BOOLEAN /\ (IF n THEN -a ELSE a) = (IF m THEN -b ELSE b)
    BY <1>1, <1>3, <1>4
  <2> HIDE DEF a, b, n, m
  <2> QED
    BY <1>2, <1>5, <2>1
<1>7. CASE v.mant = 0
  <2>1. code = Value(Zero(v.neg))
    BY <1>7 DEF RoundToFloat
  <2>2. q = Zero(v.neg) /\ code.ok /\ q.neg = v.neg
    BY <2>1 DEF Value, Zero
  <2>3. a = 0
    <3>1. v.exp + Scale \in Nat
      BY <1>1, BoundsAssumption
    <3> QED
      BY <1>7, <3>1, PowerIs DEF Scaled
  <2>4. MagnitudeOf(q, f) = 0
    <3>1. RowOf(q) = 0 /\ Significand(q, f) = 0 /\ q \in FieldsOf(f)
      BY <1>1, <2>2, FormatIs DEF RowOf, Significand, Zero, FieldsOf
    <3> HIDE DEF q
    <3>2. MagnitudeOf(q, f) = Significand(q, f) * RowUnit(f, RowOf(q))
      BY <3>1, FieldsAre
    <3>3. RowUnit(f, 0) \in Nat
      BY RowsDouble
    <3> QED
      BY <3>1, <3>2, <3>3
  <2>5. ScaledValue(q, f) = IF v.neg THEN -0 ELSE 0
    <3> HIDE DEF q
    <3> QED
      BY <1>3, <2>2, <2>4 DEF ScaledValue, q
  <2>6. x = IF v.neg THEN -0 ELSE 0
    <3> HIDE DEF a, x
    <3> QED
      BY <1>1, <2>3 DEF x
  <2> QED
    BY <2>2, <2>5, <2>6
<1>8. CASE v.mant # 0
  <2>1. v.mant > 0
    BY <1>1, <1>8
  <2>2. PICK row \in Nat :
          LET k == RoundUnit(a, RowUnit(f, row), v.neg, r)
          IN  /\ Reaches(a, row, f)
              /\ Lands(code, v.neg, k * RowUnit(f, row), k, f, r, s)
    BY <1>1, <2>1, EncodedIs
  <2> DEFINE u == RowUnit(f, row)
             k == RoundUnit(a, u, v.neg, r)
             y == k * u
  <2>3. Reaches(a, row, f) /\ Lands(code, v.neg, y, k, f, r, s)
    BY <2>2
  <2>4. \E n \in Nat : a = n * u
    <3>1. \/ \E n \in Nat : b = n * RowUnit(f, row)
          \/ row > 0 /\ b < Hidden(f) * RowUnit(f, row)
      BY RowsNest
    <3>2. row > 0 => a >= Hidden(f) * RowUnit(f, row)
      BY <2>3 DEF Reaches
    <3>3. Hidden(f) * RowUnit(f, row) \in Nat
      <4>1. Hidden(f) \in Nat
        BY FormatIs
      <4>2. RowUnit(f, row) \in Nat
        BY RowsDouble
      <4> QED
        BY <4>1, <4>2
    <3> DEFINE low == Hidden(f) * RowUnit(f, row)
    <3> HIDE DEF low, a, b
    <3>4. ~(row > 0 /\ b < low)
      BY <1>2, <1>5, <1>6, <3>2, <3>3 DEF low
    <3> QED
      BY <1>6, <3>1, <3>4 DEF low
  <2>5. PICK n \in Nat : a = n * u
    BY <2>4
  <2>6. y = a
    <3>1. u \in Nat /\ u > 0
      BY RowsDouble
    <3> HIDE DEF u, a
    <3>2. RoundUnit(n * u, u, v.neg, r) = n
      BY <3>1, MultiplesAreKept
    <3> QED
      BY <2>5, <3>2
  <2> HIDE DEF y, k, a, b
  <2>7. ~(y > Largest(f))
    BY <1>2, <1>6, <2>6
  <2>8. code = Value(q) /\ q.neg = v.neg /\ MagnitudeOf(q, f) = y
    <3> HIDE DEF code
    <3> QED
      BY <2>3, <2>7 DEF Lands
  <2>9. ScaledValue(q, f) = IF v.neg THEN -a ELSE a
    <3> HIDE DEF code, q
    <3> QED
      BY <1>3, <2>6, <2>8 DEF ScaledValue
  <2>10. code.ok
    <3> HIDE DEF q
    <3>1. code = Value(q)
      BY <2>8
    <3> HIDE DEF code
    <3> QED
      BY <3>1 DEF Value
  <2> QED
    BY <1>1, <2>8, <2>9, <2>10
<1> QED
  BY <1>7, <1>8

\* A whole number is rounded to itself.
LEMMA WholeIsKept ==
  ASSUME Dir \in Roundings, NEW n \in Int
  PROVE  IntegerOf(n * Unit) = n
<1> DEFINE u == Unit
           x == n * u
<1>1. u \in Nat /\ u > 0
  BY BoundsAssumption, PowerIs DEF Unit
<1> HIDE DEF u
<1>2. x \in Int /\ x = n * u + 0 /\ 0 \in 0..(u - 1)
  BY <1>1
<1> HIDE DEF x
<1>3. x % u = 0 /\ x \div u = n
  BY <1>1, <1>2, DivisionIs
<1>4. IntegerOf(x) = n
  <2>1. CASE Dir = "nearest_even"
    BY <1>1, <1>3, <2>1 DEF IntegerOf, u
  <2>2. CASE Dir = "toward_zero"
    BY <1>3, <2>2 DEF IntegerOf, u
  <2>3. CASE Dir = "toward_neg_inf"
    BY <1>3, <2>3 DEF IntegerOf, u
  <2>4. CASE Dir = "toward_pos_inf"
    BY <1>3, <2>4 DEF IntegerOf, u
  <2> QED
    BY <2>1, <2>2, <2>3, <2>4 DEF Roundings
<1> QED
  BY <1>4 DEF x, u

LEMMA IntTakesBack ==
  ASSUME Dir \in Roundings, Sat \in Saturations, NEW d, IsWhole(d), d.kind = "int",
         NEW p \in Patterns(d), NEW v, Holding(v, ScaledValue(p, d)), NEW fromInt \in BOOLEAN
  PROVE  LET code == EncodeInt(v, d, fromInt, Dir, Sat)
         IN  code.ok /\ ScaledValue(code.value, d) = ScaledValue(p, d)
<1> DEFINE n == Wrap(p, d)
           x == ScaledValue(p, d)
           code == EncodeInt(v, d, fromInt, Dir, Sat)
<1>1. IsDtype(d) /\ Size(d) \in Nat
  BY DEF IsWhole, IsDtype, Size
<1>2. p \in Int
  BY <1>1 DEF Patterns
<1>3. n \in Int /\ InRange(n, d)
  BY <1>1, <1>2, WrapInRange
<1>4. x = n * Unit
  BY DEF ScaledValue, Unit
<1> HIDE DEF n, x
<1>5. IntegerOf(x) = n
  BY <1>3, <1>4, WholeIsKept
<1>6. Holding(v, x)
  BY DEF x
<1>7. RoundedInteger(v, Dir) = n
  BY <1>5, <1>6, RoundedIntegerIs
<1>8. ~IsTooLarge(v)
  BY <1>3, <1>5, <1>6, TooLargeIsOutside
<1>9. v.class = "fin"
  BY DEF Holding
<1>10. code.ok /\ Wrap(code.value, d) = n
  BY <1>1, <1>3, <1>7, <1>8, <1>9, IntegersStoreTheValue
<1> HIDE DEF code
<1>11. ScaledValue(code.value, d) = n * Power[Scale]
  BY <1>10 DEF ScaledValue
<1> QED
  BY <1>4, <1>10, <1>11 DEF x, code, Unit
\* A float pattern is decoded as what it is, with its sign.
LEMMA ClassIs ==
  ASSUME NEW f, IsFitting(f), NEW p \in FieldsOf(f)
  PROVE  LET v == DecodePattern(p, f)
         IN  /\ v.neg = p.neg /\ v.neg \in BOOLEAN
             /\ v.class \in {"nan", "inf", "fin"}
             /\ v.class = "nan" <=> IsNan(p, f)
             /\ v.class = "inf" <=> IsInf(p, f)
<1>1. /\ p.e \in Nat /\ p.m \in Nat /\ p.neg \in BOOLEAN
      /\ AllOnes(f.exp) \in Nat /\ AllOnes(f.exp) >= 3 /\ AllOnes(f.man) \in Nat
  BY FieldsAre, FormatIs
<1>2. IsFloat(f) /\ f.nan \in {"ieee", "all_ones", "absent"} /\ (f.hasInf <=> f.nan = "ieee")
  BY DEF IsFitting, IsFormat
<1>3. DecodePattern(p, f) = DecodeFloat(p, f)
  BY <1>2 DEF DecodePattern
<1>4. CASE p.e = AllOnes(f.exp) /\ f.nan = "ieee"
  BY <1>1, <1>2, <1>3, <1>4 DEF DecodeFloat, Inf, Nan, IsNan, IsInf
<1>5. CASE ~(p.e = AllOnes(f.exp) /\ f.nan = "ieee")
           /\ p.e = AllOnes(f.exp) /\ f.nan = "all_ones" /\ p.m = AllOnes(f.man)
  BY <1>1, <1>2, <1>3, <1>5 DEF DecodeFloat, Inf, Nan, IsNan, IsInf
<1>6. CASE ~(p.e = AllOnes(f.exp) /\ f.nan = "ieee")
           /\ ~(p.e = AllOnes(f.exp) /\ f.nan = "all_ones" /\ p.m = AllOnes(f.man))
  <2>1. ~IsNan(p, f) /\ ~IsInf(p, f)
    BY <1>2, <1>6 DEF IsNan, IsInf
  <2>2. DecodeFloat(p, f) = IF p.e = 0 THEN Fin(p.neg, p.m, 1 - f.bias - f.man)
                            ELSE Fin(p.neg, p.m + Power[f.man], p.e - f.bias - f.man)
    BY <1>6 DEF DecodeFloat
  <2>3. DecodePattern(p, f).neg = p.neg /\ DecodePattern(p, f).class = "fin"
    BY <1>3, <2>2 DEF Fin
  <2> QED
    BY <1>1, <2>1, <2>3
<1> QED
  BY <1>4, <1>5, <1>6

\* The dtypes of a request that is not declined.
Admitted ==
  /\ Source.kind \in {"float", "int", "bool"} /\ Target.kind \in {"float", "int"}
  /\ Source.kind = "float" => IsFitting(Source)
  /\ Target.kind = "float" => IsFitting(Target) /\ (Target.hasInf \/ Sat = "clamp")
  /\ Source.kind = "int" => IsWhole(Source)
  /\ Target.kind = "int" => IsWhole(Target)
  /\ IsCastDtype(Source)
  /\ Dir \in Roundings /\ Sat \in Saturations

LEMMA RequestAdmitted ==
  ASSUME Requested, Fault = "none"
  PROVE  Admitted
<1>1. /\ IsCastDtype(Source) /\ IsCastDtype(Target) /\ Dir \in Roundings /\ Sat \in Saturations
      /\ DtypeFault(Source) = "none" /\ DtypeFault(Target) = "none" /\ Target.kind # "bool"
  BY DataAre
<1>2. Source.kind \in {"float", "int", "bool"} /\ Target.kind \in {"float", "int"}
  BY <1>1 DEF IsCastDtype, DtypeFault
<1>3. /\ Source.kind = "float" => IsFitting(Source)
      /\ Target.kind = "float" => IsFitting(Target)
      /\ Source.kind = "int" => IsWhole(Source)
      /\ Target.kind = "int" => IsWhole(Target)
  BY <1>1 DEF IsCastDtype, IsFitting, IsFloat
<1>4. Target.kind = "float" => Target.hasInf \/ Sat = "clamp"
  <2> SUFFICES ASSUME Target.kind = "float", ~Target.hasInf PROVE Sat = "clamp"
    OBVIOUS
  <2>1. Target.pinned /\ IsFloat(Target)
    BY <1>3 DEF IsFitting, IsFormat
  <2>2. ~(IsFloat(Target) /\ Target.pinned /\ Dir # "nearest_even")
    BY <1>1 DEF Fault, CastFault
  <2> QED
    BY <1>1, <2>1, <2>2 DEF Fault, CastFault
<1> QED
  BY <1>1, <1>2, <1>3, <1>4 DEF Admitted, IsFloat

\* Whatever is finite is held by its decoded value.
LEMMA SourceDecoded ==
  ASSUME Admitted, NEW p \in Patterns(Source)
  PROVE  LET v == DecodePattern(p, Source)
         IN  /\ v.class \in {"nan", "inf", "fin"}
             /\ v.class = "nan" <=> IsFloat(Source) /\ IsNan(p, Source)
             /\ v.class = "inf" <=> IsFloat(Source) /\ IsInf(p, Source)
             /\ v.class = "fin" <=> IsFinite(p, Source)
             /\ v.class = "fin" => Holding(v, ScaledValue(p, Source))
             /\ IsFloat(Source) => v.neg = p.neg
<1> DEFINE v == DecodePattern(p, Source)
<1>1. CASE IsFloat(Source)
  <2>1. IsFitting(Source) /\ p \in FieldsOf(Source)
    BY <1>1 DEF Admitted, IsFloat, Patterns
  <2>2. /\ v.neg = p.neg /\ v.class \in {"nan", "inf", "fin"}
        /\ v.class = "nan" <=> IsNan(p, Source)
        /\ v.class = "inf" <=> IsInf(p, Source)
    BY <2>1, ClassIs
  <2>3. v.class = "fin" <=> IsFinite(p, Source)
    <3> HIDE DEF v
    <3>1. "fin" # "nan" /\ "fin" # "inf"
      OBVIOUS
    <3> QED
      BY <1>1, <2>2, <3>1 DEF IsFinite
  <2>4. IsFinite(p, Source) => Holding(v, ScaledValue(p, Source))
    BY <2>1, FloatDecoded
  <2> HIDE DEF v
  <2> QED
    BY <1>1, <2>2, <2>3, <2>4 DEF v
<1>2. CASE ~IsFloat(Source)
  <2>1. Source.kind = "int" \/ Source.kind = "bool"
    BY <1>2 DEF Admitted, IsFloat
  <2>2. Holding(v, ScaledValue(p, Source))
    BY <2>1, WholeDecoded DEF Admitted
  <2> HIDE DEF v
  <2>3. v.class = "fin"
    BY <2>2 DEF Holding
  <2> QED
    BY <1>2, <2>2, <2>3 DEF v, IsFinite
<1> QED
  BY <1>1, <1>2

\* An integer source is never too large for an integer destination's i128.
LEMMA WholeIsSmall ==
  ASSUME Admitted, NEW p \in Patterns(Source), ~IsFloat(Source), Target.kind = "int"
  PROVE  ~IsTooLarge(DecodePattern(p, Source))
<1> DEFINE v == DecodePattern(p, Source)
           n == IntValue(p, Source)
           b == BitLength(v.mant)
<1>1. Source.kind = "int" \/ Source.kind = "bool"
  BY DEF Admitted, IsFloat
<1>2. /\ Holding(v, ScaledValue(p, Source)) /\ v.exp = 0 /\ v = WholeValue(n) /\ n \in Int
  BY <1>1, WholeDecoded DEF Admitted
<1>3. v.class = "fin" /\ v.mant = (IF n < 0 THEN -n ELSE n)
  <2> HIDE DEF v, n
  <2> QED
    BY <1>2 DEF WholeValue, Fin
<1>4. MaxExp \in Nat /\ Power[MaxExp] \in Nat /\ Power[MaxExp] >= 2
  <2>1. Size(Target) <= Power[MaxExp] /\ Size(Target) \in Nat /\ Size(Target) >= 2
    BY DEF Admitted, IsWhole, Size
  <2> QED
    BY <2>1, PowerIs, BoundsAssumption
<1>5. v.mant < Power[MaxExp]
  <2>1. CASE Source.kind = "bool"
    <3>1. n \in {0, 1}
      BY <2>1 DEF IntValue
    <3> HIDE DEF v, n
    <3> QED
      BY <1>3, <1>4, <3>1
  <2>2. CASE Source.kind = "int"
    <3>1. IsWhole(Source) /\ IsDtype(Source) /\ Size(Source) \in Nat /\ Size(Source) <= Power[MaxExp]
      BY <2>2 DEF Admitted, IsWhole, IsDtype, Size
    <3>2. p \in Int /\ n = Wrap(p, Source)
      BY <2>2, <3>1 DEF Patterns, IntValue
    <3>3. InRange(n, Source)
      BY <3>1, <3>2, WrapInRange
    <3> HIDE DEF v, n
    <3>4. -Size(Source) < n /\ n < Size(Source)
      BY <1>2, <3>1, <3>3 DEF InRange, Lowest, Highest, IsDtype, Size
    <3> QED
      BY <1>2, <1>3, <1>4, <3>1, <3>4
  <2> QED
    BY <1>1, <2>1, <2>2
<1>6. v.mant # 0 => b <= MaxExp
  <2> SUFFICES ASSUME v.mant # 0 PROVE b <= MaxExp
    OBVIOUS
  <2>1. v.mant \in Nat /\ v.mant > 0 /\ v.mant < Power[MantBits - 1]
    <3> HIDE DEF v
    <3> QED
      BY <1>2 DEF Holding
  <2>2. b \in Nat /\ b >= 1 /\ v.mant >= Power[b - 1]
    BY <2>1, BitLengthIs
  <2> HIDE DEF b, v
  <2>3. b - 1 \in Nat
    BY <2>2
  <2>4. Power[b - 1] < Power[MaxExp]
    BY <1>4, <1>5, <2>1, <2>2, <2>3, PowerIs
  <2>5. b - 1 < MaxExp
    <3> DEFINE c == b - 1
    <3> HIDE DEF c
    <3>1. c \in Nat /\ Power[c] < Power[MaxExp]
      BY <2>3, <2>4 DEF c
    <3>2. c < MaxExp
      BY <1>4, <3>1, PowerOrders
    <3> QED
      BY <3>2 DEF c
  <2> QED
    BY <1>4, <2>2, <2>5
<1> HIDE DEF v, b
<1>7. IsTooLarge(v) => v.mant # 0 /\ b + v.exp > MaxExp
  BY <1>3 DEF IsTooLarge, b
<1>8. v.mant # 0 => b \in Int
  <2> SUFFICES ASSUME v.mant # 0 PROVE b \in Int
    OBVIOUS
  <2>1. v.mant \in Nat /\ v.mant > 0 /\ v.mant < Power[MantBits - 1]
    BY <1>2 DEF Holding
  <2> QED
    BY <2>1, BitLengthIs DEF b
<1>9. IsTooLarge(v) => b + 0 > MaxExp
  BY <1>2, <1>7
<1> QED
  BY <1>4, <1>6, <1>7, <1>8, <1>9 DEF v

\* The code of an element, when the dtypes differ: declined exactly as Unpinned says; of a
\* finite element, otherwise, a pattern of the destination with the sign of a float.
LEMMA CodeIs ==
  ASSUME Admitted, Source # Target, NEW p \in Patterns(Source)
  PROVE  LET code == CastBits(p, Source, Target, Dir, Sat)
         IN  /\ code.ok <=> ~Unpinned(p)
             /\ code.ok /\ IsFinite(p, Source) =>
                  /\ code.value \in Patterns(Target)
                  /\ IsFloat(Source) /\ IsFloat(Target) => code.value.neg = p.neg
<1> DEFINE code == CastBits(p, Source, Target, Dir, Sat)
           v == DecodePattern(p, Source)
           nan == IsFloat(Source) /\ IsNan(p, Source)
           inf == IsFloat(Source) /\ IsInf(p, Source)
           x == ScaledValue(p, Source)
<1>1. /\ v.class \in {"nan", "inf", "fin"}
      /\ v.class = "nan" <=> nan
      /\ v.class = "inf" <=> inf
      /\ v.class = "fin" <=> IsFinite(p, Source)
      /\ v.class = "fin" => Holding(v, x)
      /\ IsFloat(Source) => v.neg = p.neg
  BY SourceDecoded
<1> HIDE DEF v, x
<1>2. CASE IsFloat(Target)
  <2>1. code = EncodeFloat(v, Target, Dir, Sat)
    BY <1>2 DEF CastBits, v
  <2>2. IsFitting(Target) /\ (Target.hasInf \/ Sat = "clamp") /\ Dir \in Roundings
        /\ Sat \in Saturations
    BY <1>2 DEF Admitted, IsFloat
  <2>3. Target.nan \in {"ieee", "all_ones", "absent"}
    BY <2>2 DEF IsFitting, IsFormat
  <2>4. Patterns(Target) = FieldsOf(Target)
    BY <1>2 DEF Patterns, IsFloat
  <2>5. Unpinned(p) <=> nan /\ Target.nan = "absent"
    BY <1>2 DEF Unpinned
  <2> HIDE DEF code, nan, inf
  <2>6. CASE v.class = "nan"
    <3>1. code = EncodeNan(v, Target)
      BY <2>1, <2>6 DEF EncodeFloat
    <3>2. code.ok <=> Target.nan # "absent"
      BY <2>3, <3>1 DEF EncodeNan, Value, Error
    <3>3. ~IsFinite(p, Source)
      BY <1>1, <2>6
    <3> QED
      BY <1>1, <2>5, <2>6, <3>2, <3>3 DEF code
  <2>7. CASE v.class = "inf"
    <3>1. code = EncodeInf(v, Target, Sat)
      BY <2>1, <2>7 DEF EncodeFloat
    <3>2. code.ok
      BY <2>2, <3>1 DEF EncodeInf, Value
    <3>3. ~IsFinite(p, Source) /\ ~nan
      BY <1>1, <2>7
    <3> QED
      BY <2>5, <3>2, <3>3 DEF code
  <2>8. CASE v.class = "fin"
    <3>1. code = RoundToFloat(v, Target, Dir, Sat)
      BY <2>1, <2>8 DEF EncodeFloat
    <3>2. code.ok /\ code.value \in FieldsOf(Target) /\ code.value.neg = v.neg
      <4>1. Holding(v, x)
        BY <1>1, <2>8
      <4> QED
        BY <2>2, <3>1, <4>1, FloatCode
    <3>3. ~nan
      BY <1>1, <2>8
    <3> QED
      BY <1>1, <2>4, <2>5, <3>2, <3>3 DEF code
  <2> QED
    BY <1>1, <2>6, <2>7, <2>8
<1>3. CASE ~IsFloat(Target)
  <2> DEFINE from == ~IsFloat(Source)
             n == IntegerOf(x)
  <2>1. code = EncodeInt(v, Target, from, Dir, Sat)
    BY <1>3 DEF CastBits, v
  <2>2. Target.kind = "int" /\ IsWhole(Target) /\ Dir \in Roundings /\ Sat \in Saturations
    BY <1>3 DEF Admitted, IsFloat
  <2>3. IsDtype(Target) /\ Size(Target) \in Nat /\ Size(Target) > 0
    BY <2>2 DEF IsWhole, IsDtype, Size
  <2>4. Patterns(Target) = 0..(Size(Target) - 1)
    BY <2>2 DEF Patterns
  <2>5. Unpinned(p) <=> nan \/ (~from /\ Sat = "none" /\ (inf \/ ~InRange(n, Target)))
    BY <1>3 DEF Unpinned, x
  <2> DEFINE bound == Pattern(IF v.neg THEN Lowest(Target) ELSE Highest(Target), Target)
  <2>6. bound \in 0..(Size(Target) - 1)
    <3>1. Lowest(Target) \in Int /\ Highest(Target) \in Int
      BY <2>3 DEF Lowest, Highest, IsDtype, Size
    <3> DEFINE y == IF v.neg THEN Lowest(Target) ELSE Highest(Target)
    <3>2. y \in Int
      BY <3>1
    <3> HIDE DEF y
    <3> QED
      BY <2>3, <3>2, PatternKeeps DEF y
  <2>7. IsTooLarge(v) /\ v.class # "nan" =>
          code = IF Sat = "clamp" THEN Value(bound) ELSE Error("CastUnpinned")
    BY <2>1 DEF EncodeInt, Bound
  <2> HIDE DEF code, bound
  <2>8. CASE v.class = "nan"
    <3>1. code = Error("CastUnpinned")
      BY <2>1, <2>8 DEF EncodeInt
    <3>2. ~code.ok
      BY <3>1 DEF Error
    <3> HIDE DEF nan, inf, from, n
    <3> QED
      BY <1>1, <2>5, <2>8, <3>2 DEF code
  <2>9. CASE v.class = "inf"
    <3>1. IsTooLarge(v) /\ v.class # "nan"
      BY <2>9 DEF IsTooLarge
    <3>2. code.ok <=> Sat = "clamp"
      BY <2>7, <3>1 DEF Value, Error
    <3>3. inf /\ ~nan /\ ~from /\ ~IsFinite(p, Source)
      BY <1>1, <2>9
    <3> HIDE DEF nan, inf, from, n
    <3> QED
      BY <2>2, <2>5, <3>2, <3>3 DEF code, Saturations
  <2>10. CASE v.class = "fin"
    <3>1. Holding(v, x) /\ ~nan /\ ~inf
      BY <1>1, <2>10
    <3> HIDE DEF nan, inf
    <3>2. CASE IsTooLarge(v)
      <4>1. ~InRange(n, Target)
        BY <2>2, <3>1, <3>2, TooLargeIsOutside
      <4>2. ~from
        BY <2>2, <3>2, WholeIsSmall DEF v
      <4> HIDE DEF n
      <4>3. code.ok <=> Sat = "clamp"
        BY <2>7, <2>10, <3>2 DEF Value, Error
      <4>4. code.ok => code.value = bound
        BY <2>7, <2>10, <3>2 DEF Value, Error
      <4>5. ~(IsFloat(Source) /\ IsFloat(Target))
        BY <1>3
      <4> HIDE DEF from
      <4> QED
        BY <2>2, <2>4, <2>5, <2>6, <3>1, <4>1, <4>2, <4>3, <4>4, <4>5 DEF code, Saturations
    <3>3. CASE ~IsTooLarge(v)
      <4>1. RoundedInteger(v, Dir) = n /\ n \in Int
        <5> DEFINE mag == RoundUnit(Scaled(v.mant, v.exp), Unit, v.neg, Dir)
        <5>1. mag \in Nat /\ RoundedInteger(v, Dir) = n /\ n = IF v.neg THEN -mag ELSE mag
          BY <2>2, <3>1, RoundedIntegerIs
        <5> HIDE DEF mag, n
        <5> QED
          BY <5>1
      <4>2. from \in BOOLEAN
        OBVIOUS
      <4> HIDE DEF from, n
      <4>3. /\ code.ok => code.value \in 0..(Size(Target) - 1)
            /\ InRange(n, Target) => code.ok
            /\ ~InRange(n, Target) /\ Sat = "clamp" => code.ok
            /\ ~InRange(n, Target) /\ Sat = "none" => (code.ok <=> from)
        BY <2>1, <2>2, <2>3, <2>10, <3>3, <4>1, <4>2, IntegersStoreTheValue
      <4>4. code.ok <=> ~Unpinned(p)
        BY <2>2, <2>5, <3>1, <4>3 DEF Saturations
      <4> QED
        BY <1>3, <2>4, <4>3, <4>4 DEF code
    <3> QED
      BY <3>2, <3>3
  <2> QED
    BY <1>1, <2>8, <2>9, <2>10
<1> QED
  BY <1>2, <1>3
\* What the invariant says of an element that was converted.
LEMMA WrittenIs ==
  ASSUME CastInv, NEW i \in DOMAIN out
  PROVE  /\ Admitted /\ Fault = "none" /\ data[i] \in Patterns(Source)
         /\ Result(i).ok /\ out[i] = Result(i).value
<1>1. out \in Seq(Outcomes) /\ Result(i).ok /\ out[i] = Result(i).value
  BY DEF CastInv, Written
<1>2. out # <<>>
  <2>1. DOMAIN <<>> = {}
    OBVIOUS
  <2> QED
    BY <2>1
<1>3. Fault = "none" /\ Len(out) <= Len(data)
  BY <1>2 DEF CastInv, Written
<1>4. data \in Seq(Patterns(Source)) /\ Admitted
  BY <1>3, DataAre, RequestAdmitted DEF CastInv
<1>5. i \in 1..Len(data)
  <2>1. Len(out) \in Nat /\ Len(data) \in Nat /\ DOMAIN out = 1..Len(out)
    BY <1>1, <1>4
  <2> QED
    BY <1>3, <2>1
<1> QED
  BY <1>1, <1>3, <1>4, <1>5

LEMMA UnpinnedFollows == CastInv => UnpinnedIsDeclined
<1> SUFFICES ASSUME CastInv, Source # Target PROVE
      /\ error = "CastUnpinned" => Unpinned(data[Len(out) + 1])
      /\ \A i \in DOMAIN out : ~Unpinned(data[i])
  BY DEF UnpinnedIsDeclined
<1>1. error = "CastUnpinned" => Unpinned(data[Len(out) + 1])
  <2> SUFFICES ASSUME error = "CastUnpinned" PROVE Unpinned(data[Len(out) + 1])
    OBVIOUS
  <2> DEFINE i == Len(out) + 1
  <2>1. Fault # "CastUnpinned"
    BY DEF Fault, CastFault, DtypeFault
  <2>2. Fault = "none" /\ Len(out) < Len(data) /\ ~Result(i).ok
    BY <2>1 DEF CastInv, Declined
  <2>3. data \in Seq(Patterns(Source)) /\ Admitted
    BY <2>2, DataAre, RequestAdmitted DEF CastInv
  <2>4. out \in Seq(Outcomes)
    BY DEF CastInv, Written
  <2>5. data[i] \in Patterns(Source)
    <3>1. Len(out) \in Nat /\ Len(data) \in Nat /\ i \in 1..Len(data)
      BY <2>2, <2>3, <2>4
    <3> QED
      BY <2>3, <3>1
  <2> HIDE DEF i
  <2> QED
    BY <2>2, <2>3, <2>5, CodeIs DEF Result, i
<1>2. ASSUME NEW i \in DOMAIN out PROVE ~Unpinned(data[i])
  <2>1. Admitted /\ data[i] \in Patterns(Source) /\ Result(i).ok
    BY WrittenIs
  <2> QED
    BY <2>1, CodeIs DEF Result
<1> QED
  BY <1>1, <1>2

LEMMA SpecialsFollow == CastInv => SpecialsAreKept
<1> SUFFICES ASSUME CastInv, NEW i \in DOMAIN out PROVE
      /\ IsFloat(Source) /\ IsNan(data[i], Source) =>
           IsFloat(Target) /\ IsNan(out[i], Target) /\ out[i].neg = data[i].neg
      /\ IsFloat(Source) /\ IsInf(data[i], Source) /\ IsFloat(Target) /\ Source # Target =>
           out[i] = IF Sat = "clamp" THEN MaxFinite(Target, data[i].neg)
                    ELSE Infinity(Target, data[i].neg)
  BY DEF SpecialsAreKept
<1> DEFINE p == data[i]
           q == out[i]
           v == DecodePattern(p, Source)
<1>1. Admitted /\ p \in Patterns(Source) /\ Result(i).ok /\ q = Result(i).value
  BY WrittenIs
<1>2. CASE Source = Target
  <2>1. Result(i) = Value(p)
    BY <1>2 DEF Result, CastBits
  <2>2. q = p
    BY <1>1, <2>1 DEF Value
  <2> QED
    BY <1>2, <2>2
<1>3. CASE Source # Target
  <2>1. /\ v.class = "nan" <=> IsFloat(Source) /\ IsNan(p, Source)
        /\ v.class = "inf" <=> IsFloat(Source) /\ IsInf(p, Source)
        /\ IsFloat(Source) => v.neg = p.neg
    BY <1>1, SourceDecoded
  <2>2. Result(i) = IF IsFloat(Target) THEN EncodeFloat(v, Target, Dir, Sat)
                    ELSE EncodeInt(v, Target, ~IsFloat(Source), Dir, Sat)
    BY <1>3 DEF Result, CastBits
  <2>3. IsFloat(Target) =>
          /\ IsFitting(Target) /\ Target.nan \in {"ieee", "all_ones", "absent"}
          /\ Target.hasInf \/ Sat = "clamp"
    BY <1>1 DEF Admitted, IsFloat, IsFitting, IsFormat
  <2> HIDE DEF p, q, v
  <2>4. ASSUME IsFloat(Source), IsNan(p, Source)
        PROVE  IsFloat(Target) /\ IsNan(q, Target) /\ q.neg = p.neg
    <3>1. v.class = "nan" /\ v.neg = p.neg
      BY <2>1, <2>4
    <3>2. IsFloat(Target)
      <4> SUFFICES ASSUME ~IsFloat(Target) PROVE FALSE
        OBVIOUS
      <4>1. Result(i) = Error("CastUnpinned")
        BY <2>2, <3>1 DEF EncodeInt
      <4> QED
        BY <1>1, <4>1 DEF Error
    <3>3. Result(i) = EncodeNan(v, Target)
      BY <2>2, <3>1, <3>2 DEF EncodeFloat
    <3>4. Target.nan # "absent"
      BY <1>1, <3>3 DEF EncodeNan, Error
    <3>5. CASE Target.nan = "all_ones"
      <4>1. q = [neg |-> v.neg, e |-> AllOnes(Target.exp), m |-> AllOnes(Target.man)]
        BY <1>1, <3>3, <3>5 DEF EncodeNan, Value
      <4> QED
        BY <3>1, <3>2, <3>5, <4>1 DEF IsNan
    <3>6. CASE Target.nan = "ieee"
      <4> DEFINE quiet == Power[Target.man - 1]
                 top == TopOfPayload(v, Target)
                 m == IF top >= quiet THEN top ELSE top + quiet
      <4>1. q = [neg |-> v.neg, e |-> AllOnes(Target.exp), m |-> m]
        BY <1>1, <3>3, <3>6 DEF EncodeNan, Value, QuietNan
      <4>2. quiet \in Nat /\ quiet >= 1
        <5>1. Target.man - 1 \in Nat
          BY <2>3, <3>2 DEF IsFitting, IsFormat
        <5> QED
          BY <5>1, PowerIs
      <4>3. top \in Nat
        <5>1. IsFitting(Source) /\ p \in FieldsOf(Source)
          BY <1>1, <2>4 DEF Admitted, IsFloat, Patterns, p
        <5>2. v = Nan(p.neg, p.m, Source.man)
          <6>1. Source.nan \in {"ieee", "all_ones"} /\ p.e = AllOnes(Source.exp)
                /\ (Source.nan = "ieee" => p.m # 0)
                /\ (Source.nan = "all_ones" => p.m = AllOnes(Source.man))
            BY <2>4 DEF IsNan
          <6>2. DecodeFloat(p, Source) = Nan(p.neg, p.m, Source.man)
            BY <6>1 DEF DecodeFloat
          <6> QED
            BY <2>4, <6>2 DEF v, DecodePattern
        <5>3. v.m \in Nat /\ v.bits \in Nat
          <6>1. v.m = p.m /\ v.bits = Source.man
            BY <5>2 DEF Nan
          <6>2. p.m \in Nat /\ Source.man \in Nat
            BY <5>1, FieldsAre, FormatIs
          <6> QED
            BY <6>1, <6>2
        <5>4. Target.man \in Nat
          BY <2>3, <3>2, FormatIs
        <5>5. CASE Target.man >= v.bits
          <6>1. Power[Target.man - v.bits] \in Nat
            <7>1. Target.man - v.bits \in Nat
              BY <5>3, <5>4, <5>5
            <7> QED
              BY <7>1, PowerIs
          <6> QED
            BY <5>3, <5>5, <6>1 DEF TopOfPayload
        <5>6. CASE ~(Target.man >= v.bits)
          <6> DEFINE c == Power[v.bits - Target.man]
          <6>1. c \in Nat /\ c > 0
            <7>1. v.bits - Target.man \in Nat
              BY <5>3, <5>4, <5>6
            <7> QED
              BY <7>1, PowerIs
          <6>2. top = v.m \div c
            BY <5>6 DEF TopOfPayload
          <6> HIDE DEF c, top
          <6> QED
            BY <5>3, <6>1, <6>2, Brackets
        <5> QED
          BY <5>5, <5>6
      <4> HIDE DEF quiet, top
      <4>4. m # 0
        BY <4>2, <4>3
      <4> HIDE DEF m
      <4> QED
        BY <3>1, <3>2, <3>6, <4>1, <4>4 DEF IsNan
    <3> QED
      BY <2>3, <3>2, <3>4, <3>5, <3>6
  <2>5. ASSUME IsFloat(Source), IsInf(p, Source), IsFloat(Target)
        PROVE  q = IF Sat = "clamp" THEN MaxFinite(Target, p.neg) ELSE Infinity(Target, p.neg)
    <3>1. v.class = "inf" /\ v.neg = p.neg
      BY <2>1, <2>5
    <3>2. Result(i) = EncodeInf(v, Target, Sat)
      BY <2>2, <2>5, <3>1 DEF EncodeFloat
    <3> QED
      BY <1>1, <2>3, <2>5, <3>1, <3>2 DEF EncodeInf, Value
  <2> QED
    BY <2>4, <2>5 DEF p, q
<1> QED
  BY <1>2, <1>3

LEMMA RoundTripsFollow == CastInv => RoundTrips
<1> SUFFICES ASSUME CastInv, CastFault(Target, Source, Dir, Sat) = "none", NEW i \in Converted,
                    IsFinite(out[i], Target),
                    ScaledValue(out[i], Target) = ScaledValue(data[i], Source)
             PROVE  LET back == CastBits(out[i], Target, Source, Dir, Sat)
                        p == data[i]
                    IN  /\ back.ok
                        /\ ScaledValue(back.value, Source) = ScaledValue(p, Source)
                        /\ IsFloat(Source) /\ IsFloat(Target) => back.value.neg = p.neg
  BY DEF RoundTrips
<1> DEFINE p == data[i]
           q == out[i]
           back == CastBits(q, Target, Source, Dir, Sat)
           x == ScaledValue(p, Source)
           w == DecodePattern(q, Target)
<1>1. i \in DOMAIN out /\ IsFinite(p, Source)
  BY DEF Converted
<1>2. Admitted /\ p \in Patterns(Source) /\ Result(i).ok /\ q = Result(i).value /\ Fault = "none"
  BY <1>1, WrittenIs
<1>3. Source.kind # "bool"
  BY DEF CastFault
<1>4. CASE Source = Target
  <2>1. Result(i) = Value(p) /\ back = Value(q)
    BY <1>4 DEF Result, CastBits
  <2>2. q = p /\ back.ok /\ back.value = q
    BY <1>2, <2>1 DEF Value
  <2> QED
    BY <2>2
<1>5. CASE Source # Target
  <2>1. q \in Patterns(Target) /\ (IsFloat(Source) /\ IsFloat(Target) => q.neg = p.neg)
    BY <1>1, <1>2, <1>5, CodeIs DEF Result
  <2>2. Target.kind \in {"float", "int"} /\ Dir \in Roundings /\ Sat \in Saturations
    BY <1>2 DEF Admitted
  <2>3. Holding(w, x) /\ (IsFloat(Target) => w.neg = q.neg)
    <3>1. CASE Target.kind = "float"
      <4>1. IsFitting(Target) /\ q \in FieldsOf(Target)
        BY <1>2, <2>1, <3>1 DEF Admitted, Patterns
      <4>2. Holding(w, ScaledValue(q, Target))
        BY <4>1, FloatDecoded
      <4>3. w.neg = q.neg
        BY <4>1, ClassIs
      <4> QED
        BY <4>2, <4>3
    <3>2. CASE Target.kind = "int"
      <4>1. Holding(w, ScaledValue(q, Target))
        <5>1. IsCastDtype(Target)
          BY <1>2, DataAre DEF CastInv
        <5> QED
          BY <2>1, <3>2, <5>1, WholeDecoded
      <4> QED
        BY <3>2, <4>1 DEF IsFloat
    <3> QED
      BY <2>2, <3>1, <3>2
  <2> HIDE DEF w, q, p, back, x
  <2>4. CASE Source.kind = "float"
    <3>1. IsFitting(Source) /\ p \in FieldsOf(Source) /\ IsFloat(Source)
      BY <1>2, <2>4 DEF Admitted, Patterns, IsFloat
    <3>2. w.class = "fin"
      BY <2>3 DEF Holding
    <3>3. back = RoundToFloat(w, Source, Dir, Sat)
      BY <1>5, <3>1, <3>2 DEF back, CastBits, EncodeFloat, w
    <3>4. Holding(w, ScaledValue(p, Source))
      BY <2>3 DEF x
    <3>5. back.ok /\ back.value.neg = w.neg /\ ScaledValue(back.value, Source) = x
      BY <1>1, <2>2, <3>1, <3>3, <3>4, FloatTakesBack DEF x
    <3> QED
      BY <2>1, <2>3, <3>5 DEF x, back, p, q
  <2>5. CASE Source.kind = "int"
    <3>1. IsWhole(Source) /\ ~IsFloat(Source)
      BY <1>2, <2>5 DEF Admitted, IsFloat
    <3> DEFINE from == ~IsFloat(Target)
    <3>2. back = EncodeInt(w, Source, from, Dir, Sat)
      BY <1>5, <3>1 DEF back, CastBits, w
    <3>3. Holding(w, ScaledValue(p, Source)) /\ from \in BOOLEAN
      BY <2>3 DEF x
    <3> HIDE DEF from
    <3>4. back.ok /\ ScaledValue(back.value, Source) = x
      BY <1>2, <2>2, <2>5, <3>1, <3>2, <3>3, IntTakesBack DEF x
    <3> QED
      BY <3>1, <3>4 DEF x, back, p, q
  <2> QED
    BY <1>2, <1>3, <2>4, <2>5 DEF Admitted
<1> QED
  BY <1>4, <1>5

\* cast_tensor: an element whose value the destination holds comes back unchanged, its
\* sign included; a NaN stays a NaN and an infinity an infinity unless it saturates; and a
\* value is declined exactly when the destination holds nothing for it.
THEOREM CastKeepsValues == Spec => []ValuesAreKept
<1>1. CastInv => ValuesAreKept
  BY RoundTripsFollow, SpecialsFollow, UnpinnedFollows DEF ValuesAreKept
<1> QED
  BY <1>1, CastInvHolds, PTL
-----------------------------------------------------------------------------
\* The rounding of fp8.rs, by a round bit and the bits below it, is round_shift.
LEMMA KeptIs ==
  ASSUME NEW sig \in Nat, NEW shift \in Nat, shift >= 1, NEW neg \in BOOLEAN
  PROVE  Kept(sig, shift) = RoundUnit(sig, Power[shift], neg, "nearest_even")
<1> DEFINE h == Power[shift - 1]
           u == 2 * h
           q == sig \div h
           t == sig % h
           k == sig \div u
           low == sig % u
<1>1. h \in Nat /\ h >= 1 /\ Power[shift] = u
  <2>1. shift - 1 \in Nat /\ (shift - 1) + 1 = shift
    OBVIOUS
  <2> DEFINE j == shift - 1
  <2>2. j \in Nat /\ j + 1 = shift
    BY <2>1
  <2> HIDE DEF j
  <2>3. Power[j] \in Nat /\ Power[j] >= 1 /\ Power[j + 1] = 2 * Power[j]
    BY <2>2, PowerIs
  <2> QED
    BY <2>2, <2>3 DEF j
<1>2. q % 2 \in {0, 1} /\ t \in 0..(h - 1) /\ low = t + (IF q % 2 = 1 THEN h ELSE 0) /\ k \in Nat
  <2>1. sig \in Int /\ h \in Nat /\ h > 0 /\ u \in Nat /\ u > 0
    BY <1>1
  <2>2. k \in Nat
    <3> HIDE DEF u
    <3> QED
      BY <2>1, Brackets
  <2>3. /\ Digit(sig, h) \in {0, 1} /\ (sig % h) \in 0..(h - 1)
        /\ (sig % (2 * h)) = (sig % h) + (IF Digit(sig, h) = 1 THEN h ELSE 0)
    <3> HIDE DEF h
    <3> QED
      BY <2>1, DigitSplits
  <2>4. Digit(sig, h) = q % 2
    BY DEF Digit
  <2> HIDE DEF h
  <2> QED
    BY <2>2, <2>3, <2>4
<1>3. Kept(sig, shift) = IF q % 2 = 1 /\ (t # 0 \/ k % 2 = 1) THEN k + 1 ELSE k
  BY DEF Kept
<1>4. RoundUnit(sig, u, neg, "nearest_even") = Bumped(k, Rest(low, u), neg, "nearest_even")
  BY DEF RoundUnit
<1>5. Bumps(k, Rest(low, u), neg, "nearest_even") <=> q % 2 = 1 /\ (t # 0 \/ k % 2 = 1)
  <2> DEFINE b == q % 2
             e == k % 2
  <2>1. b \in {0, 1} /\ h \in Nat /\ h >= 1 /\ t \in 0..(h - 1) /\ low = t + (IF b = 1 THEN h ELSE 0)
    BY <1>1, <1>2
  <2>2. Bumps(k, Rest(low, u), neg, "nearest_even")
          <=> Rest(low, u) # "zero" /\ (Rest(low, u) = "above" \/ (Rest(low, u) = "half" /\ e = 1))
    BY DEF Bumps
  <2>a. u = 2 * h
    OBVIOUS
  <2>b. (q % 2 = 1 <=> b = 1) /\ (k % 2 = 1 <=> e = 1)
    OBVIOUS
  <2> HIDE DEF b, e, h, t, low, k, q, u
  <2>c. Bumps(k, Rest(low, u), neg, "nearest_even") <=> b = 1 /\ (t # 0 \/ e = 1)
    <3>1. CASE b = 0
      BY <2>1, <2>2, <2>a, <3>1 DEF Rest
    <3>2. CASE b = 1
      BY <2>1, <2>2, <2>a, <3>2 DEF Rest
    <3> QED
      BY <2>1, <3>1, <3>2
  <2> QED
    BY <2>b, <2>c
<1> HIDE DEF k, low, u, q, t
<1> QED
  BY <1>1, <1>3, <1>4, <1>5 DEF Bumped

\* A magnitude belongs to one row.
LEMMA ReachesOnce ==
  ASSUME NEW f, IsFitting(f), NEW a \in Nat, NEW i \in Nat, Reaches(a, i, f),
         NEW j \in Nat, Reaches(a, j, f)
  PROVE  i = j
<1>1. ASSUME NEW m \in Nat, NEW n \in Nat, Reaches(a, m, f), Reaches(a, n, f), m < n
      PROVE  FALSE
  <2> DEFINE h == Hidden(f)
             u == RowUnit(f, m)
             w == RowUnit(f, n)
  <2>1. h \in Nat /\ u \in Nat /\ w \in Nat /\ 2 * u <= w
    BY <1>1, FormatIs, RowsDouble
  <2>2. a < (2 * h) * u /\ a >= h * w
    BY <1>1 DEF Reaches
  <2> HIDE DEF h, u, w
  <2>3. PICK d \in Nat : w = 2 * u + d
    <3>1. w - 2 * u \in Nat /\ w = 2 * u + (w - 2 * u)
      BY <2>1
    <3> QED
      BY <3>1
  <2>4. h * w = (2 * h) * u + h * d /\ h * d \in Nat /\ (2 * h) * u \in Nat
    <3>1. h * (2 * u + d) = (2 * h) * u + h * d
      BY <2>1
    <3> QED
      BY <2>1, <2>3, <3>1
  <2> QED
    BY <2>2, <2>4
<1> QED
  BY <1>1

\* Two patterns of one sign and magnitude are the same.
LEMMA MagnitudeTells ==
  ASSUME NEW f, IsFitting(f), NEW p \in FieldsOf(f), NEW q \in FieldsOf(f), p.neg = q.neg,
         MagnitudeOf(p, f) = MagnitudeOf(q, f)
  PROVE  p = q
<1>1. ASSUME NEW x \in FieldsOf(f), NEW y \in FieldsOf(f), MagnitudeOf(x, f) = MagnitudeOf(y, f),
             RowOf(x) < RowOf(y)
      PROVE  FALSE
  <2> DEFINE k == Significand(x, f)
             l == Significand(y, f)
             i == RowOf(x)
             j == RowOf(y)
  <2>1. /\ i \in Nat /\ j \in Nat /\ k \in Nat /\ l \in Nat /\ k < 2 * Hidden(f)
        /\ MagnitudeOf(x, f) = k * RowUnit(f, i) /\ OnRow(l, j, f)
    BY <1>1, FieldsAre DEF OnRow
  <2>2. MagnitudeOf(y, f) = l * RowUnit(f, j)
    BY <1>1, FieldsAre
  <2>3. l >= Hidden(f) /\ Hidden(f) \in Nat
    BY <1>1, <2>1, FormatIs DEF OnRow
  <2> HIDE DEF k, l, i, j
  <2>4. i < j
    BY <1>1 DEF i, j
  <2>5. k * RowUnit(f, i) < l * RowUnit(f, j) /\ k * RowUnit(f, i) \in Nat
    BY <2>1, <2>3, <2>4, RowsGrow
  <2> DEFINE v == k * RowUnit(f, i)
             w == l * RowUnit(f, j)
  <2>6. v = w /\ v < w /\ v \in Nat
    <3>1. MagnitudeOf(x, f) = v
      BY <2>1
    <3>2. MagnitudeOf(y, f) = w
      BY <2>2
    <3> HIDE DEF v, w
    <3>3. v = w
      BY <1>1, <3>1, <3>2
    <3> QED
      BY <2>5, <3>3 DEF v, w
  <2> HIDE DEF v, w
  <2> QED
    BY <2>6
<1>2. RowOf(p) \in Nat /\ RowOf(q) \in Nat /\ Significand(p, f) \in Nat /\ Significand(q, f) \in Nat
  BY FieldsAre
<1>3. RowOf(p) = RowOf(q)
  BY <1>1, <1>2
<1>4. Significand(p, f) = Significand(q, f)
  <2> DEFINE k == Significand(p, f)
             l == Significand(q, f)
             u == RowUnit(f, RowOf(p))
  <2>1. k * u = l * u
    BY <1>3, FieldsAre
  <2>2. u \in Nat /\ u >= 1
    BY <1>2, RowsDouble
  <2>3. k \in Nat /\ l \in Nat
    BY <1>2
  <2> HIDE DEF k, l, u
  <2>4. (k - l) * u = k * u - l * u /\ (k - l > 0 => (k - l) * u > 0) /\ (k - l < 0 => (k - l) * u < 0)
    BY <2>2, <2>3
  <2>5. k = l
    BY <2>1, <2>2, <2>3, <2>4
  <2> QED
    BY <2>5 DEF k, l
<1>5. p = At(p.neg, Significand(p, f), RowOf(p), f) /\ q = At(q.neg, Significand(q, f), RowOf(q), f)
  BY FiniteFits
<1> QED
  BY <1>3, <1>4, <1>5

\* The exponent of f that the leading bit of a pattern of g gets, the row it is on, and the
\* bits that are shifted out.
TargetExp(q, g, f) == ((IF q.e = 0 THEN 1 ELSE q.e) - g.bias) + f.bias
TargetRow(q, g, f) == IF TargetExp(q, g, f) <= 0 THEN 0 ELSE TargetExp(q, g, f) - 1
Dropped(q, g, f) ==
  IF TargetExp(q, g, f) <= 0 THEN (g.man - f.man) + (1 - TargetExp(q, g, f)) ELSE g.man - f.man

Narrowing(g, f) == IsFitting(g) /\ IsFitting(f) /\ NarrowsTo(g, f)

LEMMA NarrowingIs ==
  ASSUME NEW f, NEW g, Narrowing(g, f)
  PROVE  /\ g.man \in Nat /\ f.man \in Nat /\ g.bias \in Nat /\ f.bias \in Nat
         /\ g.man > f.man /\ g.bias > f.bias /\ g.man < FarShift /\ FarShift \in Nat
         /\ Least(f) \in Nat /\ Least(g) \in Nat /\ Scale \in Nat
         /\ f.nan \in {"ieee", "all_ones"} /\ g.nan = "ieee" /\ g.hasInf
         /\ f.kind = "float" /\ g.kind = "float" /\ (f.hasInf <=> f.nan = "ieee")
<1>1. IsFitting(f) /\ IsFitting(g)
  BY DEF Narrowing
<1>2. /\ g.man \in Nat /\ f.man \in Nat /\ g.bias \in Nat /\ f.bias \in Nat
      /\ Least(f) \in Nat /\ Least(g) \in Nat
  BY <1>1, FormatIs
<1>3. FarShift \in Nat /\ Scale \in Nat
  BY BoundsAssumption
<1>4. /\ f.nan \in {"ieee", "all_ones", "absent"} /\ (f.hasInf <=> f.nan = "ieee")
      /\ (g.hasInf <=> g.nan = "ieee") /\ f.kind = "float" /\ g.kind = "float"
      /\ g.hasInf \in BOOLEAN
  BY <1>1 DEF IsFitting, IsFormat, IsFloat
<1>5. f.nan # "absent" /\ g.nan = "ieee" /\ g.bias > f.bias /\ g.man > f.man /\ g.man < FarShift
  BY DEF Narrowing, NarrowsTo
<1> QED
  BY <1>2, <1>3, <1>4, <1>5

\* The unit of that row is the weight of the bits shifted out.
LEMMA DroppedIs ==
  ASSUME NEW f, NEW g, Narrowing(g, f), NEW q \in FieldsOf(g)
  PROVE  /\ TargetExp(q, g, f) \in Int /\ TargetRow(q, g, f) \in Nat
         /\ Dropped(q, g, f) \in Nat /\ Dropped(q, g, f) >= 1
         /\ TargetExp(q, g, f) >= 1 => q.e >= 1
         /\ Least(f) + TargetRow(q, g, f) = Dropped(q, g, f) + (Place(q, g) + Scale)
         /\ Place(q, g) + Scale \in Nat
<1>1. /\ g.man \in Nat /\ f.man \in Nat /\ g.bias \in Nat /\ f.bias \in Nat /\ Scale \in Nat
      /\ g.man > f.man /\ g.bias > f.bias /\ IsFitting(g) /\ Least(g) \in Nat
  BY NarrowingIs DEF Narrowing
<1>2. q.e \in Nat /\ RowOf(q) \in Nat /\ Place(q, g) + Scale = Least(g) + RowOf(q)
  BY <1>1, FieldsAre
<1>3. Least(f) = 1 - f.bias - f.man + Scale
  BY DEF Least
<1>4. CASE q.e = 0
  BY <1>1, <1>2, <1>3, <1>4 DEF TargetExp, TargetRow, Dropped, Place
<1>5. CASE q.e # 0
  <2> DEFINE te == (q.e - g.bias) + f.bias
  <2>1. TargetExp(q, g, f) = te /\ te \in Int /\ Place(q, g) = q.e - g.bias - g.man
    BY <1>1, <1>2, <1>5 DEF TargetExp, Place
  <2>2. CASE te <= 0
    <3>1. TargetRow(q, g, f) = 0 /\ Dropped(q, g, f) = (g.man - f.man) + (1 - te)
      BY <2>1, <2>2 DEF TargetRow, Dropped
    <3> QED
      BY <1>1, <1>2, <1>3, <1>5, <2>1, <2>2, <3>1
  <2>3. CASE te >= 1
    <3>1. TargetRow(q, g, f) = te - 1 /\ Dropped(q, g, f) = g.man - f.man
      BY <2>1, <2>3 DEF TargetRow, Dropped
    <3> QED
      BY <1>1, <1>2, <1>3, <1>5, <2>1, <2>3, <3>1
  <2> QED
    BY <2>1, <2>2, <2>3
<1> QED
  BY <1>2, <1>4, <1>5

\* Where a significand lies, in units of what is kept of it.
LEMMA SignificandLies ==
  ASSUME NEW f, NEW g, Narrowing(g, f), NEW q \in FieldsOf(g)
  PROVE  LET sig == Significand(q, g)
             u == Power[Dropped(q, g, f)]
         IN  /\ sig \in Nat /\ u \in Nat /\ u >= 1
             /\ sig < (2 * Hidden(f)) * u
             /\ TargetExp(q, g, f) <= 0 => sig <= Hidden(f) * u
             /\ TargetExp(q, g, f) >= 1 => sig >= Hidden(f) * u
<1> DEFINE sig == Significand(q, g)
           d == Dropped(q, g, f)
           u == Power[d]
           te == TargetExp(q, g, f)
<1>1. /\ g.man \in Nat /\ f.man \in Nat /\ g.man > f.man /\ IsFitting(g) /\ IsFitting(f)
  BY NarrowingIs DEF Narrowing
<1>2. d \in Nat /\ te \in Int /\ (te >= 1 => q.e >= 1)
      /\ d = IF te <= 0 THEN (g.man - f.man) + (1 - te) ELSE g.man - f.man
  BY DroppedIs DEF Dropped
<1>3. sig \in Nat /\ sig < 2 * Hidden(g) /\ (q.e >= 1 => sig >= Hidden(g)) /\ q.e \in Nat
  <2>1. sig \in Nat /\ OnRow(sig, RowOf(q), g) /\ q.e \in Nat /\ q.m \in Nat
    BY <1>1, FieldsAre
  <2>2. q.e >= 1 => sig = q.m + Hidden(g)
    BY <2>1 DEF Significand, Hidden
  <2>3. Hidden(g) \in Nat
    BY <1>1, FormatIs
  <2> HIDE DEF sig
  <2> QED
    BY <2>1, <2>2, <2>3 DEF OnRow
<1>4. 2 * Hidden(g) = Power[g.man + 1] /\ Hidden(g) = Power[g.man]
      /\ 2 * Hidden(f) = Power[f.man + 1] /\ Hidden(f) = Power[f.man]
  BY <1>1, PowerIs DEF Hidden
<1> HIDE DEF d, te, sig
<1>5. (2 * Hidden(f)) * u = Power[(f.man + 1) + d] /\ Hidden(f) * u = Power[f.man + d]
      /\ u \in Nat /\ u >= 1
  <2>1. f.man + 1 \in Nat /\ f.man \in Nat /\ d \in Nat
    BY <1>1, <1>2
  <2> DEFINE j == f.man + 1
             i == f.man
  <2>2. j \in Nat /\ i \in Nat
    BY <2>1
  <2> HIDE DEF j, i
  <2>3. Power[j + d] = Power[j] * Power[d] /\ Power[i + d] = Power[i] * Power[d]
    BY <2>1, <2>2, PowerAdds
  <2>4. Power[d] \in Nat /\ Power[d] >= 1
    BY <2>1, PowerIs
  <2> QED
    BY <1>4, <2>3, <2>4 DEF i, j
<1>6. Power[g.man + 1] <= Power[(f.man + 1) + d] /\ Power[g.man + 1] \in Nat
      /\ Power[(f.man + 1) + d] \in Nat
  <2> DEFINE i == g.man + 1
             j == (f.man + 1) + d
  <2>1. i \in Nat /\ j \in Nat /\ i <= j
    BY <1>1, <1>2
  <2> HIDE DEF i, j
  <2>2. Power[i] <= Power[j] /\ Power[i] \in Nat /\ Power[j] \in Nat
    BY <2>1, PowerGrows, PowerIs
  <2> QED
    BY <2>2 DEF i, j
<1>7. ASSUME te <= 0 PROVE Power[g.man + 1] <= Power[f.man + d] /\ Power[f.man + d] \in Nat
  <2> DEFINE i == g.man + 1
             j == f.man + d
  <2>1. i \in Nat /\ j \in Nat /\ i <= j
    BY <1>1, <1>2, <1>7
  <2> HIDE DEF i, j
  <2>2. Power[i] <= Power[j] /\ Power[i] \in Nat /\ Power[j] \in Nat
    BY <2>1, PowerGrows, PowerIs
  <2> QED
    BY <2>2 DEF i, j
<1>8. ASSUME te >= 1 PROVE Power[g.man] = Power[f.man + d]
  <2>1. f.man + d = g.man
    BY <1>1, <1>2, <1>8
  <2> QED
    BY <2>1
<1>9. sig < (2 * Hidden(f)) * u
  <2>1. sig < Power[g.man + 1]
    BY <1>3, <1>4
  <2> DEFINE x == Power[g.man + 1]
             y == (2 * Hidden(f)) * u
  <2>2. sig < x /\ x <= y /\ x \in Nat /\ y \in Nat /\ sig \in Nat
    BY <1>3, <1>5, <1>6, <2>1
  <2> HIDE DEF x, y
  <2>3. sig < y
    BY <2>2
  <2> QED
    BY <2>3 DEF y
<1>10. te <= 0 => sig <= Hidden(f) * u
  <2> SUFFICES ASSUME te <= 0 PROVE sig <= Hidden(f) * u
    OBVIOUS
  <2>1. sig < Power[g.man + 1]
    BY <1>3, <1>4
  <2> DEFINE x == Power[g.man + 1]
             y == Hidden(f) * u
  <2>2. sig < x /\ x <= y /\ x \in Nat /\ y \in Nat /\ sig \in Nat
    BY <1>3, <1>5, <1>6, <1>7, <2>1
  <2> HIDE DEF x, y
  <2>3. sig <= y
    BY <2>2
  <2> QED
    BY <2>3 DEF y
<1>11. te >= 1 => sig >= Hidden(f) * u
  BY <1>2, <1>3, <1>4, <1>5, <1>8
<1> QED
  BY <1>3, <1>5, <1>9, <1>10, <1>11 DEF sig, d, te

\* What round_mag keeps of a significand is what round_to_float rounds it to.
LEMMA KeptOnRow ==
  ASSUME NEW f, NEW g, Narrowing(g, f), NEW q \in FieldsOf(g)
  PROVE  LET a == MagnitudeOf(q, g)
             row == TargetRow(q, g, f)
             k == Kept(Significand(q, g), Dropped(q, g, f))
         IN  /\ a \in Nat /\ Reaches(a, row, f)
             /\ k = RoundUnit(a, RowUnit(f, row), q.neg, "nearest_even")
             /\ k \in Nat /\ k <= 2 * Hidden(f)
             /\ TargetExp(q, g, f) <= 0 => k <= Hidden(f)
             /\ TargetExp(q, g, f) >= 1 => k >= Hidden(f)
<1> DEFINE sig == Significand(q, g)
           d == Dropped(q, g, f)
           u == Power[d]
           b == Place(q, g) + Scale
           t == Power[b]
           row == TargetRow(q, g, f)
           te == TargetExp(q, g, f)
           h == Hidden(f)
           k == Kept(sig, d)
           near == "nearest_even"
<1>1. IsFitting(f) /\ IsFitting(g) /\ q.neg \in BOOLEAN
  BY DEF Narrowing, FieldsOf
<1>2. /\ d \in Nat /\ d >= 1 /\ b \in Nat /\ row \in Nat /\ Least(f) + row = d + b /\ te \in Int
      /\ row = IF te <= 0 THEN 0 ELSE te - 1
  BY DroppedIs DEF TargetRow
<1>3. /\ sig \in Nat /\ u \in Nat /\ u >= 1 /\ sig < (2 * h) * u
      /\ (te <= 0 => sig <= h * u) /\ (te >= 1 => sig >= h * u)
  BY SignificandLies
<1>4. h \in Nat /\ h >= 2
  BY <1>1, FormatIs
<1>5. t \in Nat /\ t >= 1
  BY <1>2, PowerIs
<1>6. MagnitudeOf(q, g) = sig * t
  BY DEF MagnitudeOf
<1>7. RowUnit(f, row) = u * t
  <2>1. RowUnit(f, row) = Power[d + b]
    BY <1>2 DEF RowUnit
  <2> HIDE DEF d, b
  <2>2. Power[d + b] = Power[d] * Power[b]
    BY <1>2, PowerAdds
  <2> QED
    BY <2>1, <2>2
<1>8. k = RoundUnit(sig, u, q.neg, near)
  <2> HIDE DEF sig, d
  <2> QED
    BY <1>1, <1>2, <1>3, KeptIs
<1> HIDE DEF sig, d, u, b, t, row, te, h, k
<1>9. RoundUnit(sig * t, u * t, q.neg, near) = RoundUnit(sig, u, q.neg, near)
  <2>1. near \in Roundings
    BY DEF Roundings
  <2> HIDE DEF near
  <2> QED
    BY <1>1, <1>3, <1>5, <2>1, ScaledRounding
<1>10. sig * t \in Nat /\ Reaches(sig * t, row, f)
  <2>1. sig * t \in Nat
    BY <1>3, <1>5
  <2>2. sig * t < ((2 * h) * u) * t
    <3> DEFINE y == (2 * h) * u
    <3>1. y \in Nat /\ sig < y
      BY <1>3, <1>4
    <3> HIDE DEF y
    <3>2. y * t - sig * t = (y - sig) * t /\ (y - sig) * t > 0
      BY <1>3, <1>5, <3>1
    <3>3. sig * t < y * t
      <4>1. y * t \in Nat /\ sig * t \in Nat
        BY <1>3, <1>5, <3>1
      <4> QED
        BY <3>2, <4>1
    <3> QED
      BY <3>3 DEF y
  <2>3. te >= 1 => sig * t >= (h * u) * t
    <3> SUFFICES ASSUME te >= 1 PROVE sig * t >= (h * u) * t
      OBVIOUS
    <3> DEFINE y == h * u
    <3>1. y \in Nat /\ sig >= y
      BY <1>3, <1>4
    <3> HIDE DEF y
    <3>2. sig * t - y * t = (sig - y) * t /\ (sig - y) * t >= 0
      BY <1>3, <1>5, <3>1
    <3>3. sig * t >= y * t
      <4>1. y * t \in Nat /\ sig * t \in Nat
        BY <1>3, <1>5, <3>1
      <4> QED
        BY <3>2, <4>1
    <3> QED
      BY <3>3 DEF y
  <2>4. ((2 * h) * u) * t = (2 * h) * (u * t) /\ (h * u) * t = h * (u * t)
    BY <1>3, <1>4, <1>5
  <2>5. row > 0 => te >= 1
    BY <1>2
  <2> QED
    BY <1>7, <2>1, <2>2, <2>3, <2>4, <2>5 DEF Reaches, h
<1>11. k = RoundUnit(sig * t, RowUnit(f, row), q.neg, near)
  BY <1>7, <1>8, <1>9
<1>12. k \in Nat /\ k <= 2 * h
  <2>1. near \in Roundings
    BY DEF Roundings
  <2> DEFINE a == sig * t
  <2>2. a \in Nat /\ Reaches(a, row, f)
    BY <1>10
  <2> HIDE DEF a, near
  <2>3. RoundUnit(a, RowUnit(f, row), q.neg, near) \in Nat
        /\ RoundUnit(a, RowUnit(f, row), q.neg, near) <= 2 * Hidden(f)
    BY <1>1, <1>2, <2>1, <2>2, RoundedOnRow
  <2> QED
    BY <1>11, <2>3 DEF a, h
<1>13. RoundUnit(h * u, u, q.neg, near) = h
  BY <1>3, <1>4, MultiplesAreKept
<1>14. te <= 0 => k <= h
  <2> SUFFICES ASSUME te <= 0 PROVE k <= h
    OBVIOUS
  <2> DEFINE c == h * u
  <2>1. c \in Nat /\ sig <= c /\ near \in Roundings /\ RoundUnit(c, u, q.neg, near) = h
    BY <1>3, <1>4, <1>13 DEF Roundings
  <2> HIDE DEF c, near
  <2>2. RoundUnit(sig, u, q.neg, near) <= RoundUnit(c, u, q.neg, near)
    BY <1>1, <1>3, <2>1, RoundingKeepsOrder
  <2> QED
    BY <1>8, <2>1, <2>2
<1>15. te >= 1 => k >= h
  <2> SUFFICES ASSUME te >= 1 PROVE k >= h
    OBVIOUS
  <2> DEFINE c == h * u
  <2>1. c \in Nat /\ sig >= c /\ near \in Roundings /\ RoundUnit(c, u, q.neg, near) = h
    BY <1>3, <1>4, <1>13 DEF Roundings
  <2> HIDE DEF c, near
  <2>2. RoundUnit(c, u, q.neg, near) <= RoundUnit(sig, u, q.neg, near)
    BY <1>1, <1>3, <2>1, RoundingKeepsOrder
  <2>3. k >= h
    BY <1>4, <1>8, <1>12, <2>1, <2>2
  <2> QED
    BY <2>3
<1> QED
  BY <1>6, <1>10, <1>11, <1>12, <1>14, <1>15 DEF sig, d, row, te, h, k

\* Beyond FarShift nothing is kept.
LEMMA FarIsZero ==
  ASSUME NEW f, NEW g, Narrowing(g, f), NEW q \in FieldsOf(g), Dropped(q, g, f) > FarShift
  PROVE  Kept(Significand(q, g), Dropped(q, g, f)) = 0
<1> DEFINE sig == Significand(q, g)
           d == Dropped(q, g, f)
           u == Power[d]
           near == "nearest_even"
<1>1. d \in Nat /\ d >= 1 /\ q.neg \in BOOLEAN /\ g.man \in Nat /\ g.man + 2 <= d
  <2>1. d \in Nat /\ d >= 1 /\ q.neg \in BOOLEAN
    BY DroppedIs DEF FieldsOf
  <2>2. g.man \in Nat /\ g.man < FarShift /\ FarShift \in Nat
    BY NarrowingIs
  <2> HIDE DEF d
  <2>3. d > FarShift
    BY DEF d
  <2> QED
    BY <2>1, <2>2, <2>3
<1>2. sig \in Nat /\ sig < 2 * Hidden(g) /\ IsFitting(g)
  BY FieldsAre DEF OnRow, Narrowing
<1> HIDE DEF sig, d
<1>3. 2 * sig < u /\ u \in Nat /\ u >= 1
  <2> DEFINE i == g.man + 1
             j == i + 1
  <2>1. i \in Nat /\ j \in Nat /\ j <= d
    BY <1>1
  <2>2. 2 * Hidden(g) = Power[i] /\ Hidden(g) \in Nat
    BY <1>1, PowerIs DEF Hidden
  <2> HIDE DEF i
  <2>3. Power[i + 1] = 2 * Power[i]
    BY <2>1, PowerIs
  <2>4. Power[j] = 2 * Power[i]
    BY <2>3
  <2> HIDE DEF j
  <2>5. Power[j] <= u /\ u \in Nat /\ u >= 1 /\ Power[j] \in Nat
    BY <1>1, <2>1, PowerGrows, PowerIs
  <2> QED
    BY <1>2, <2>2, <2>4, <2>5
<1>4. RoundUnit(sig, u, q.neg, near) = RoundFar(sig, q.neg, near)
  <2>1. near \in Roundings
    BY DEF Roundings
  <2> HIDE DEF near, u
  <2> QED
    BY <1>1, <1>2, <1>3, <2>1, FarShiftsRoundAlike
<1>5. RoundFar(sig, q.neg, near) = 0
  BY DEF RoundFar, Bumped, Bumps
<1>6. Kept(sig, d) = RoundUnit(sig, u, q.neg, near)
  BY <1>1, <1>2, KeptIs
<1> QED
  BY <1>4, <1>5, <1>6 DEF sig, d

\* A pattern of the magnitude a result must have is the result.
LEMMA LandsThere ==
  ASSUME NEW f, IsFitting(f), NEW q \in FieldsOf(f), IsFinite(q, f),
         NEW code, NEW k, NEW r, NEW s, Lands(code, q.neg, MagnitudeOf(q, f), k, f, r, s)
  PROVE  code = Value(q)
<1> DEFINE y == MagnitudeOf(q, f)
           p == code.value
<1>1. y <= Largest(f) /\ y \in Nat /\ Largest(f) \in Nat
  BY FiniteFits, LargestIs, RowsNest
<1>2. ~(y > Largest(f))
  <2> HIDE DEF y
  <2> QED
    BY <1>1
<1>3. code = Value(p) /\ p \in FieldsOf(f) /\ p.neg = q.neg /\ MagnitudeOf(p, f) = y
  BY <1>2 DEF Lands
<1>4. p = q
  <2> HIDE DEF p
  <2> QED
    BY <1>3, MagnitudeTells
<1> QED
  BY <1>3, <1>4

\* The two paths of round_mag as places on rows: the lowest row, and the others, where a
\* carry leads to the next.
Subnormal(neg, k, f) ==
  IF k > AllOnes(f.man) THEN [neg |-> neg, e |-> 1, m |-> 0] ELSE [neg |-> neg, e |-> 0, m |-> k]

LEMMA SubnormalIs ==
  ASSUME NEW f, IsFitting(f), NEW neg \in BOOLEAN, NEW k \in Nat, k <= Hidden(f)
  PROVE  LET q == Subnormal(neg, k, f)
         IN  /\ q \in FieldsOf(f) /\ q.neg = neg /\ IsFinite(q, f)
             /\ MagnitudeOf(q, f) = k * RowUnit(f, 0)
<1> DEFINE q == Subnormal(neg, k, f)
<1>1. /\ Hidden(f) \in Nat /\ Hidden(f) >= 2 /\ AllOnes(f.man) = Hidden(f) - 1
      /\ AllOnes(f.exp) \in Nat /\ AllOnes(f.exp) >= 3
      /\ MaxFiniteExp(f) \in Nat /\ MaxFiniteExp(f) >= 1 /\ MaxFiniteMan(f) \in Nat
  BY FormatIs
<1>2. CASE k = Hidden(f)
  <2>1. q = [neg |-> neg, e |-> 1, m |-> 0]
    BY <1>1, <1>2 DEF Subnormal
  <2>2. q \in FieldsOf(f) /\ q.neg = neg /\ q.e = 1 /\ q.m = 0
    BY <1>1, <2>1 DEF FieldsOf
  <2>3. ~Past(q.e, q.m, f)
    BY <1>1, <2>2 DEF Past
  <2> HIDE DEF q
  <2>4. RowOf(q) = 0 /\ Significand(q, f) = k
    BY <1>1, <1>2, <2>2 DEF RowOf, Significand, Hidden
  <2>5. MagnitudeOf(q, f) = k * RowUnit(f, 0)
    BY <2>2, <2>4, FieldsAre
  <2>6. IsFinite(q, f)
    BY <2>2, <2>3, FiniteIs
  <2> QED
    BY <2>2, <2>5, <2>6 DEF q
<1>3. CASE k < Hidden(f)
  <2>1. q = [neg |-> neg, e |-> 0, m |-> k]
    BY <1>1, <1>3 DEF Subnormal
  <2>2. q \in FieldsOf(f) /\ q.neg = neg /\ q.e = 0 /\ q.m = k
    BY <1>1, <1>3, <2>1 DEF FieldsOf
  <2>3. ~Past(q.e, q.m, f)
    BY <1>1, <2>2 DEF Past
  <2> HIDE DEF q
  <2>4. RowOf(q) = 0 /\ Significand(q, f) = k
    BY <2>2 DEF RowOf, Significand
  <2>5. MagnitudeOf(q, f) = k * RowUnit(f, 0)
    BY <2>2, <2>4, FieldsAre
  <2>6. IsFinite(q, f)
    BY <2>2, <2>3, FiniteIs
  <2> QED
    BY <2>2, <2>5, <2>6 DEF q
<1> QED
  BY <1>1, <1>2, <1>3

CarriedTop(k, te, f) == IF k >= Power[f.man + 1] THEN te + 1 ELSE te
CarriedMan(k, f) == (IF k >= Power[f.man + 1] THEN k \div 2 ELSE k) % Power[f.man]
Normal(neg, k, te, f) == [neg |-> neg, e |-> CarriedTop(k, te, f), m |-> CarriedMan(k, f)]

LEMMA NormalIs ==
  ASSUME NEW f, IsFitting(f), NEW neg \in BOOLEAN, NEW te \in Nat, te >= 1,
         NEW k \in Nat, k >= Hidden(f), k <= 2 * Hidden(f)
  PROVE  LET q == Normal(neg, k, te, f)
             y == k * RowUnit(f, te - 1)
         IN  /\ q.neg = neg /\ q.e \in Nat /\ q.m \in Nat /\ q.m < Hidden(f)
             /\ Past(q.e, q.m, f) <=> y > Largest(f)
             /\ ~Past(q.e, q.m, f) =>
                  q \in FieldsOf(f) /\ IsFinite(q, f) /\ MagnitudeOf(q, f) = y
<1> DEFINE h == Hidden(f)
           q == Normal(neg, k, te, f)
           y == k * RowUnit(f, te - 1)
           top == CarriedTop(k, te, f)
           man == CarriedMan(k, f)
<1>1. /\ h \in Nat /\ h >= 2 /\ Power[f.man + 1] = 2 * h /\ Power[f.man] = h
      /\ f.man \in Nat /\ AllOnes(f.man) = h - 1 /\ AllOnes(f.exp) \in Nat
      /\ MaxFiniteExp(f) \in Nat /\ MaxFiniteExp(f) <= AllOnes(f.exp)
  BY FormatIs, PowerIs DEF Hidden
<1>2. /\ top = IF k >= 2 * h THEN te + 1 ELSE te
      /\ man = (IF k >= 2 * h THEN k \div 2 ELSE k) % h
  BY <1>1 DEF CarriedTop, CarriedMan
<1>3. man \in Nat /\ man < h /\ top \in Nat /\ top >= 1 /\ (h + man) * RowUnit(f, top - 1) = y
  <2>1. CASE k >= 2 * h
    <3>1. k = 2 * h
      BY <1>1, <2>1
    <3>2. k \div 2 = h /\ h % h = 0
      <4> DEFINE w == h * 2
      <4>1. w \in Int /\ w = h * 2 + 0 /\ 0 \in 0..(2 - 1) /\ h = 1 * h + 0 /\ 0 \in 0..(h - 1)
            /\ k = w /\ h > 0 /\ h \in Int
        BY <1>1, <3>1
      <4> HIDE DEF w, h
      <4>2. h % h = 0
        BY <1>1, <4>1, DivisionIs
      <4> DEFINE two == 2
      <4>3. two \in Nat /\ two > 0 /\ w = h * two + 0 /\ 0 \in 0..(two - 1)
        BY <4>1
      <4> HIDE DEF two
      <4>4. w \div two = h
        BY <1>1, <4>1, <4>3, DivisionIs
      <4> QED
        BY <4>1, <4>2, <4>4 DEF two
    <3>3. man = 0 /\ top = te + 1
      BY <1>2, <2>1, <3>2
    <3>4. RowUnit(f, (te - 1) + 1) = 2 * RowUnit(f, te - 1) /\ RowUnit(f, te - 1) \in Nat
      <4> DEFINE i == te - 1
      <4>1. i \in Nat
        OBVIOUS
      <4> HIDE DEF i
      <4>2. RowUnit(f, i + 1) = 2 * RowUnit(f, i) /\ RowUnit(f, i) \in Nat
        BY <4>1, RowsDouble
      <4> QED
        BY <4>2 DEF i
    <3>5. top - 1 = (te - 1) + 1
      BY <3>3
    <3> DEFINE u == RowUnit(f, te - 1)
    <3>6. RowUnit(f, top - 1) = 2 * u /\ u \in Nat /\ y = k * u
      BY <3>4, <3>5
    <3> HIDE DEF u, y, h, man, top
    <3>7. (h + man) * RowUnit(f, top - 1) = h * (2 * u)
      BY <1>1, <3>3, <3>6
    <3>8. h * (2 * u) = (2 * h) * u
      BY <1>1, <3>6
    <3> QED
      BY <1>1, <3>1, <3>3, <3>6, <3>7, <3>8
  <2>2. CASE k < 2 * h
    <3>1. k % h = k - h
      <4> DEFINE t == k - h
      <4>1. t \in 0..(h - 1) /\ k = 1 * h + t /\ h > 0
        BY <1>1, <2>2
      <4> HIDE DEF t, h
      <4>2. k % h = t
        BY <1>1, <4>1, DivisionIs
      <4> QED
        BY <4>2 DEF t
    <3>2. man = k - h /\ top = te
      BY <1>1, <1>2, <2>2, <3>1
    <3>3. h + man = k
      BY <1>1, <3>2
    <3> QED
      BY <1>1, <2>2, <3>2, <3>3
  <2> QED
    BY <1>1, <2>1, <2>2
<1>4. q.neg = neg /\ q.e = top /\ q.m = man /\ q = [neg |-> neg, e |-> top, m |-> man]
  BY DEF Normal
<1> HIDE DEF q, y, man, top
<1>5. q = At(neg, h + man, top - 1, f)
  <2>1. ~(h + man < h) /\ (h + man) - h = man /\ (top - 1) + 1 = top
    BY <1>1, <1>3
  <2> HIDE DEF h
  <2>2. At(neg, h + man, top - 1, f)
          = [neg |-> neg, e |-> IF h + man < h THEN 0 ELSE (top - 1) + 1,
             m |-> IF h + man < h THEN h + man ELSE (h + man) - h]
    BY DEF At, h
  <2> QED
    BY <1>4, <2>1, <2>2
<1>6. Past(q.e, q.m, f) <=> y > Largest(f)
  <2> DEFINE l == h + man
             row == top - 1
  <2>1. l \in Nat /\ row \in Nat /\ OnRow(l, row, f) /\ q = At(neg, l, row, f)
        /\ l * RowUnit(f, row) = y
    BY <1>1, <1>3, <1>5 DEF OnRow
  <2> HIDE DEF l, row
  <2>2. LET p == At(neg, l, row, f) IN Past(p.e, p.m, f) <=> l * RowUnit(f, row) > Largest(f)
    BY <2>1, PastIs
  <2> QED
    BY <2>1, <2>2
<1>7. ASSUME ~Past(q.e, q.m, f)
      PROVE  q \in FieldsOf(f) /\ IsFinite(q, f) /\ MagnitudeOf(q, f) = y
  <2>1. top <= AllOnes(f.exp)
    BY <1>1, <1>3, <1>4, <1>7 DEF Past
  <2>2. q \in FieldsOf(f)
    BY <1>1, <1>3, <1>4, <2>1 DEF FieldsOf
  <2>3. IsFinite(q, f)
    BY <1>7, <2>2, FiniteIs
  <2>4. RowOf(q) = top - 1 /\ Significand(q, f) = h + man
    BY <1>1, <1>3, <1>4 DEF RowOf, Significand
  <2>5. MagnitudeOf(q, f) = Significand(q, f) * RowUnit(f, RowOf(q))
    BY <2>2, FieldsAre
  <2> QED
    BY <1>3, <2>2, <2>3, <2>4, <2>5
<1> QED
  BY <1>3, <1>4, <1>6, <1>7 DEF q, y

\* round_mag in these terms.
LEMMA RoundMagIs ==
  ASSUME NEW f, NEW g, Narrowing(g, f), NEW q \in FieldsOf(g), Significand(q, g) # 0
  PROVE  LET te == TargetExp(q, g, f)
             k == Kept(Significand(q, g), Dropped(q, g, f))
             w == Normal(q.neg, k, te, f)
         IN  /\ te <= 0 => RoundMag(q, g, f) = Subnormal(q.neg, k, f)
             /\ te > 0 => RoundMag(q, g, f) =
                  IF Past(w.e, w.m, f) THEN MaxFinite(f, q.neg) ELSE w
<1> DEFINE sig == Significand(q, g)
           te == TargetExp(q, g, f)
           d == Dropped(q, g, f)
           far == (g.man - f.man) + (1 - te)
           drop == g.man - f.man
           k == Kept(sig, d)
           top == CarriedTop(k, te, f)
           man == CarriedMan(k, f)
           sat == MaxFinite(f, q.neg)
           w == Normal(q.neg, k, te, f)
<1>1. /\ te = (IF q.e = 0 THEN 1 - g.bias ELSE q.e - g.bias) + f.bias
      /\ te \in Int /\ g.bias \in Nat /\ f.bias \in Nat
  <2>1. te \in Int /\ g.bias \in Nat /\ f.bias \in Nat
    BY DroppedIs, NarrowingIs
  <2> QED
    BY <2>1 DEF TargetExp
<1>2. d = IF te <= 0 THEN far ELSE drop
  BY DEF Dropped
<1>3. sig = IF q.e = 0 THEN q.m ELSE q.m + Power[g.man]
  BY DEF Significand
<1>4. CASE te <= 0
  <2>1. d = far
    BY <1>2, <1>4
  <2>2. RoundMag(q, g, f) = IF far > FarShift THEN Zero(q.neg) ELSE Subnormal(q.neg, Kept(sig, far), f)
    <3> HIDE DEF sig, te
    <3>1. sig # 0
      BY DEF sig
    <3> QED
      BY <1>1, <1>3, <1>4, <3>1 DEF RoundMag, Subnormal
  <2>3. far > FarShift => Kept(sig, far) = 0
    BY <2>1, FarIsZero
  <2>4. Subnormal(q.neg, 0, f) = Zero(q.neg)
    <3>1. IsFitting(f)
      BY DEF Narrowing
    <3>2. AllOnes(f.man) \in Nat
      BY <3>1, FormatIs
    <3> QED
      BY <3>2 DEF Subnormal, Zero
  <2> HIDE DEF far, sig, te
  <2>5. RoundMag(q, g, f) = Subnormal(q.neg, Kept(sig, far), f)
    <3>1. CASE far > FarShift
      BY <2>2, <2>3, <2>4, <3>1
    <3>2. CASE ~(far > FarShift)
      BY <2>2, <3>2
    <3> QED
      BY <3>1, <3>2
  <2> QED
    BY <1>1, <1>4, <2>1, <2>5 DEF sig, te
<1>5. CASE te > 0
  <2>1. d = drop /\ ~(te <= 0)
    BY <1>1, <1>2, <1>5
  <2>2. RoundMag(q, g, f) =
          IF top > MaxFiniteExp(f) THEN sat
          ELSE IF f.nan = "all_ones" /\ top = MaxFiniteExp(f) /\ man = AllOnes(f.man) THEN sat
          ELSE [neg |-> q.neg, e |-> top, m |-> man]
    <3>1. sig # 0 /\ k = Kept(sig, drop)
      BY <2>1
    <3> HIDE DEF sig, te, k
    <3> QED
      BY <1>1, <1>3, <2>1, <3>1 DEF RoundMag, CarriedTop, CarriedMan
  <2>3. w = [neg |-> q.neg, e |-> top, m |-> man] /\ w.e = top /\ w.m = man
    BY DEF Normal
  <2>4. man \in Nat /\ man <= AllOnes(f.man)
    <3>1. IsFitting(f)
      BY DEF Narrowing
    <3>2. k \in Nat /\ k >= Hidden(f) /\ k <= 2 * Hidden(f) /\ q.neg \in BOOLEAN
      <4>1. te >= 1
        BY <1>1, <1>5
      <4> QED
        BY <4>1, KeptOnRow DEF FieldsOf
    <3>3. te \in Nat /\ te >= 1
      BY <1>1, <1>5
    <3> HIDE DEF k, te
    <3>4. w.m \in Nat /\ w.m < Hidden(f)
      BY <3>1, <3>2, <3>3, NormalIs
    <3>5. AllOnes(f.man) = Hidden(f) - 1 /\ Hidden(f) \in Nat
      BY <3>1, FormatIs
    <3> QED
      BY <2>3, <3>4, <3>5
  <2>5. Past(w.e, w.m, f) <=>
          \/ top > MaxFiniteExp(f)
          \/ f.nan = "all_ones" /\ top = MaxFiniteExp(f) /\ man = AllOnes(f.man)
    <3>1. f.nan \in {"ieee", "all_ones"}
      BY NarrowingIs
    <3>2. f.nan = "ieee" => MaxFiniteMan(f) = AllOnes(f.man)
      BY DEF MaxFiniteMan
    <3>3. f.nan = "all_ones" => MaxFiniteMan(f) = AllOnes(f.man) - 1
      BY DEF MaxFiniteMan
    <3>4. AllOnes(f.man) \in Nat
      <4>1. IsFitting(f)
        BY DEF Narrowing
      <4> QED
        BY <4>1, FormatIs
    <3>5. Past(w.e, w.m, f)
            <=> top > MaxFiniteExp(f) \/ (top = MaxFiniteExp(f) /\ man > MaxFiniteMan(f))
      <4> HIDE DEF w, top, man
      <4> QED
        BY <2>3 DEF Past
    <3> DEFINE ones == AllOnes(f.man)
               most == MaxFiniteMan(f)
    <3> HIDE DEF w, top, man, ones, most
    <3>6. man > most <=> f.nan = "all_ones" /\ man = ones
      <4>1. /\ man \in Nat /\ man <= ones /\ ones \in Nat
            /\ (f.nan = "ieee" => most = ones) /\ (f.nan = "all_ones" => most = ones - 1)
        BY <2>4, <3>2, <3>3, <3>4 DEF ones, most
      <4>2. CASE f.nan = "ieee"
        BY <4>1, <4>2
      <4>3. CASE f.nan = "all_ones"
        BY <4>1, <4>3
      <4> QED
        BY <3>1, <4>2, <4>3
    <3> QED
      BY <3>5, <3>6 DEF ones, most
  <2> HIDE DEF w, top, man, sat
  <2>6. RoundMag(q, g, f) = IF Past(w.e, w.m, f) THEN sat ELSE w
    BY <2>2, <2>3, <2>5
  <2> QED
    BY <1>1, <1>5, <2>6 DEF w, sat, te, k, sig, d
<1> QED
  BY <1>1, <1>4, <1>5

\* from_f32 and round_to_float, to nearest and saturating, give one result.
LEMMA NarrowingAgrees ==
  ASSUME NEW f, NEW g, Narrowing(g, f), NEW q \in FieldsOf(g), IsFinite(q, g)
  PROVE  RoundToFloat(DecodePattern(q, g), f, "nearest_even", "clamp") = Value(RoundMag(q, g, f))
<1> DEFINE v == DecodePattern(q, g)
           sig == Significand(q, g)
           te == TargetExp(q, g, f)
           row == TargetRow(q, g, f)
           k == Kept(sig, Dropped(q, g, f))
           a == MagnitudeOf(q, g)
           near == "nearest_even"
           code == RoundToFloat(v, f, near, "clamp")
           y == k * RowUnit(f, row)
<1>1. IsFitting(f) /\ IsFitting(g) /\ q.neg \in BOOLEAN /\ near \in Roundings
  BY DEF Narrowing, FieldsOf, Roundings
<1>2. v = Fin(q.neg, sig, Place(q, g))
  BY <1>1, FieldsDecoded
<1>3. v.neg = q.neg /\ v.mant = sig /\ v.exp = Place(q, g) /\ Scaled(v.mant, v.exp) = a
  BY <1>2 DEF Fin, Scaled, MagnitudeOf
<1>4. Holding(v, ScaledValue(q, g))
  BY <1>1, FloatDecoded
<1>5. CASE sig = 0
  <2>1. code = Value(Zero(q.neg))
    <3> HIDE DEF v, sig
    <3> QED
      BY <1>3, <1>5 DEF RoundToFloat
  <2>2. RoundMag(q, g, f) = Zero(q.neg)
    BY <1>5 DEF RoundMag, Significand
  <2> QED
    BY <2>1, <2>2
<1>6. CASE sig # 0
  <2>1. /\ a \in Nat /\ Reaches(a, row, f) /\ k = RoundUnit(a, RowUnit(f, row), q.neg, near)
        /\ k \in Nat /\ k <= 2 * Hidden(f)
        /\ te <= 0 => k <= Hidden(f)
        /\ te >= 1 => k >= Hidden(f)
    BY KeptOnRow
  <2>2. row \in Nat /\ te \in Int /\ row = IF te <= 0 THEN 0 ELSE te - 1
    BY DroppedIs DEF TargetRow
  <2>3. /\ v.neg \in BOOLEAN /\ v.mant \in Nat /\ v.mant < Power[MantBits - 1] /\ v.exp \in Int
        /\ v.exp + Scale >= 0 /\ v.mant > 0
    <3>1. /\ v.neg \in BOOLEAN /\ v.mant \in Nat /\ v.mant < Power[MantBits - 1] /\ v.exp \in Int
          /\ v.exp + Scale >= 0
      BY <1>4 DEF Holding
    <3> HIDE DEF v, sig
    <3>2. v.mant # 0
      BY <1>3, <1>6
    <3> QED
      BY <3>1, <3>2
  <2> HIDE DEF v, near
  <2>4. PICK i \in Nat :
          LET b == Scaled(v.mant, v.exp)
              l == RoundUnit(b, RowUnit(f, i), v.neg, near)
          IN  /\ Reaches(b, i, f)
              /\ Lands(RoundToFloat(v, f, near, "clamp"), v.neg, l * RowUnit(f, i), l, f, near, "clamp")
    BY <1>1, <2>3, EncodedIs
  <2>5. LET l == RoundUnit(a, RowUnit(f, i), q.neg, near)
        IN  Reaches(a, i, f) /\ Lands(code, q.neg, l * RowUnit(f, i), l, f, near, "clamp")
    BY <1>3, <2>4
  <2>6. i = row
    <3> HIDE DEF a, row
    <3> QED
      BY <1>1, <2>1, <2>2, <2>5, ReachesOnce
  <2>7. Lands(code, q.neg, y, k, f, near, "clamp")
    <3> HIDE DEF a, row, code, k
    <3> QED
      BY <2>1, <2>5, <2>6
  <2> DEFINE z == RoundMag(q, g, f)
             w == Normal(q.neg, k, te, f)
  <2>8. /\ te <= 0 => z = Subnormal(q.neg, k, f)
        /\ te > 0 => z = IF Past(w.e, w.m, f) THEN MaxFinite(f, q.neg) ELSE w
    BY <1>6, RoundMagIs
  <2> HIDE DEF code, k, te, row, z
  <2>9. CASE te <= 0
    <3>1. z = Subnormal(q.neg, k, f) /\ row = 0 /\ k <= Hidden(f)
      BY <2>1, <2>2, <2>8, <2>9
    <3>2. z \in FieldsOf(f) /\ z.neg = q.neg /\ IsFinite(z, f) /\ MagnitudeOf(z, f) = y
      BY <1>1, <2>1, <3>1, SubnormalIs
    <3> HIDE DEF y
    <3>3. Lands(code, z.neg, MagnitudeOf(z, f), k, f, near, "clamp")
      BY <2>7, <3>2
    <3>4. code = Value(z)
      BY <1>1, <3>2, <3>3, LandsThere
    <3> QED
      BY <3>4 DEF code, z, v, near
  <2>10. CASE te >= 1
    <3>1. te \in Nat /\ row = te - 1 /\ te > 0 /\ k >= Hidden(f)
      BY <2>1, <2>2, <2>10
    <3>2. /\ w.neg = q.neg
          /\ Past(w.e, w.m, f) <=> y > Largest(f)
          /\ ~Past(w.e, w.m, f) => w \in FieldsOf(f) /\ IsFinite(w, f) /\ MagnitudeOf(w, f) = y
      BY <1>1, <2>1, <2>10, <3>1, NormalIs
    <3> HIDE DEF w, y
    <3>3. CASE Past(w.e, w.m, f)
      <4>1. code = Overflow(f, q.neg, near, "clamp")
        BY <2>7, <3>2, <3>3 DEF Lands
      <4>2. code = Value(MaxFinite(f, q.neg))
        BY <4>1 DEF Overflow
      <4>3. z = MaxFinite(f, q.neg)
        BY <2>8, <3>1, <3>3
      <4> QED
        BY <4>2, <4>3 DEF code, z, v, near
    <3>4. CASE ~Past(w.e, w.m, f)
      <4>1. z = w
        BY <2>8, <3>1, <3>4
      <4>2. z \in FieldsOf(f) /\ z.neg = q.neg /\ IsFinite(z, f) /\ MagnitudeOf(z, f) = y
        BY <3>2, <3>4, <4>1
      <4>3. Lands(code, z.neg, MagnitudeOf(z, f), k, f, near, "clamp")
        BY <2>7, <4>2
      <4>4. code = Value(z)
        BY <1>1, <4>2, <4>3, LandsThere
      <4> QED
        BY <4>4 DEF code, z, v, near
    <3> QED
      BY <3>3, <3>4
  <2> QED
    BY <2>2, <2>9, <2>10
<1> QED
  BY <1>5, <1>6

\* A number of the narrow format is on every row of the wide one that it reaches, and
\* within the largest.
Widening(f, g) == Narrowing(g, f) /\ MaxFiniteExp(g) - g.bias >= MaxFiniteExp(f) - f.bias

LEMMA WideRows ==
  ASSUME NEW f, NEW g, Widening(f, g), NEW p \in FieldsOf(f), IsFinite(p, f), NEW row \in Nat,
         Reaches(MagnitudeOf(p, f), row, g)
  PROVE  /\ \E k \in Nat : MagnitudeOf(p, f) = k * RowUnit(g, row)
         /\ MagnitudeOf(p, f) <= Largest(g)
<1> DEFINE a == MagnitudeOf(p, f)
           sig == Significand(p, f)
           i == Least(f) + RowOf(p)
           j == Least(g) + row
           d == i - j
<1>1. /\ IsFitting(f) /\ IsFitting(g) /\ Narrowing(g, f)
      /\ MaxFiniteExp(g) - g.bias >= MaxFiniteExp(f) - f.bias
  BY DEF Widening, Narrowing
<1>2. /\ g.man \in Nat /\ f.man \in Nat /\ g.bias \in Nat /\ f.bias \in Nat
      /\ g.man > f.man /\ g.bias > f.bias /\ Least(f) \in Nat /\ Least(g) \in Nat /\ Scale \in Nat
      /\ g.nan = "ieee"
  BY <1>1, NarrowingIs
<1>3. /\ RowOf(p) \in Nat /\ sig \in Nat /\ sig < 2 * Hidden(f) /\ a = sig * Power[i]
      /\ p.e \in Nat /\ p.m \in Nat
  BY <1>1, FieldsAre DEF OnRow, RowUnit
<1>4. /\ MaxFiniteExp(f) \in Nat /\ MaxFiniteExp(f) >= 1
      /\ MaxFiniteExp(g) \in Nat /\ MaxFiniteExp(g) >= 1
      /\ Hidden(f) \in Nat /\ Hidden(g) \in Nat /\ Hidden(g) >= 2
      /\ AllOnes(g.man) = Hidden(g) - 1
  BY <1>1, FormatIs
<1>5. RowOf(p) <= MaxFiniteExp(f) - 1
  <2>1. ~Past(p.e, p.m, f)
    BY <1>1, FiniteIs
  <2> QED
    BY <1>3, <1>4, <2>1 DEF Past, RowOf
<1>6. /\ Least(f) = 1 - f.bias - f.man + Scale /\ Least(g) = 1 - g.bias - g.man + Scale
  BY DEF Least
<1>7. i \in Nat /\ j \in Nat
  BY <1>2, <1>3
<1>8. row > 0 => g.man + j < (f.man + 1) + i
  <2> SUFFICES ASSUME row > 0 PROVE g.man + j < (f.man + 1) + i
    OBVIOUS
  <2> DEFINE m == g.man
             n == f.man + 1
             x == Power[m + j]
             y == Power[n + i]
  <2>1. m \in Nat /\ n \in Nat /\ i \in Nat /\ j \in Nat
    BY <1>2, <1>7
  <2>2. Power[m] = Hidden(g) /\ Power[n] = 2 * Hidden(f)
    BY <1>2, PowerIs DEF Hidden
  <2>3. a >= Hidden(g) * Power[j]
    BY DEF Reaches, RowUnit
  <2> HIDE DEF m, n, i, j, a, sig
  <2>4. x = Hidden(g) * Power[j] /\ y = (2 * Hidden(f)) * Power[i]
    BY <2>1, <2>2, PowerAdds
  <2>5. Power[i] \in Nat /\ Power[i] >= 1 /\ x \in Nat /\ y \in Nat
    <3>1. m + j \in Nat /\ n + i \in Nat
      BY <2>1
    <3> QED
      BY <2>1, <3>1, PowerIs
  <2>6. a < y
    <3> DEFINE t == Power[i]
               z == 2 * Hidden(f)
    <3>1. t \in Nat /\ t >= 1 /\ z \in Nat /\ sig \in Nat /\ sig < z /\ a = sig * t /\ y = z * t
      BY <1>3, <1>4, <2>4, <2>5
    <3> HIDE DEF t, z, y
    <3>2. z * t - sig * t = (z - sig) * t /\ (z - sig) * t > 0
      BY <3>1
    <3>3. z * t \in Nat /\ sig * t \in Nat
      BY <3>1
    <3> QED
      BY <3>1, <3>2, <3>3
  <2>7. a \in Nat
    BY <1>3, <2>5
  <2>8. x < y
    <3> HIDE DEF y
    <3>1. x <= a
      BY <2>3, <2>4
    <3> HIDE DEF x
    <3> QED
      BY <2>5, <2>6, <2>7, <3>1
  <2>9. m + j \in Nat /\ n + i \in Nat
    BY <2>1
  <2> DEFINE b == m + j
             c == n + i
  <2>10. b \in Nat /\ c \in Nat /\ Power[b] < Power[c]
    BY <2>8, <2>9
  <2> HIDE DEF b, c
  <2>11. b < c
    BY <2>10, PowerOrders
  <2> QED
    BY <2>11 DEF b, c, m, n
<1>9. d \in Nat
  <2>1. CASE row = 0
    BY <1>2, <1>3, <1>6, <2>1
  <2>2. CASE row > 0
    BY <1>2, <1>7, <1>8, <2>2
  <2> QED
    BY <2>1, <2>2
<1>10. row <= MaxFiniteExp(g) - 1
  <2>1. CASE row = 0
    BY <1>4, <2>1
  <2>2. CASE row > 0
    <3>1. g.man + j < (f.man + 1) + i
      BY <1>8, <2>2
    <3> QED
      BY <1>1, <1>2, <1>3, <1>4, <1>5, <1>6, <3>1
  <2> QED
    BY <2>1, <2>2
<1> DEFINE k == sig * Power[d]
           u == RowUnit(g, row)
<1>11. k \in Nat /\ a = k * u /\ u \in Nat /\ u >= 1
  <2>1. i = d + j
    BY <1>7
  <2>2. u = Power[j]
    BY DEF RowUnit
  <2> HIDE DEF i, j, d, sig, a, u
  <2>3. Power[d + j] = Power[d] * Power[j]
    BY <1>7, <1>9, PowerAdds
  <2>4. Power[d] \in Nat /\ Power[j] \in Nat /\ Power[j] >= 1
    BY <1>7, <1>9, PowerIs
  <2>5. a = sig * (Power[d] * Power[j])
    BY <1>3, <2>1, <2>3
  <2>6. sig * (Power[d] * Power[j]) = (sig * Power[d]) * Power[j]
    BY <1>3, <2>4
  <2> QED
    BY <1>3, <2>2, <2>4, <2>5, <2>6
<1>12. k < 2 * Hidden(g)
  <2>1. a < (2 * Hidden(g)) * u
    BY DEF Reaches
  <2> DEFINE z == 2 * Hidden(g)
  <2>2. z \in Nat /\ a < z * u
    BY <1>4, <2>1
  <2> HIDE DEF k, u, a, z
  <2>3. k >= z => k * u >= z * u
    <3> SUFFICES ASSUME k >= z PROVE k * u >= z * u
      OBVIOUS
    <3>1. k * u - z * u = (k - z) * u /\ (k - z) * u >= 0
      BY <1>11, <2>2
    <3>2. k * u \in Nat /\ z * u \in Nat
      BY <1>11, <2>2
    <3> QED
      BY <3>1, <3>2
  <2>4. z * u \in Nat /\ k * u \in Nat
    BY <1>11, <2>2
  <2>5. k < z
    BY <1>11, <2>2, <2>3, <2>4
  <2> QED
    BY <2>5 DEF z
<1>13. a <= Largest(g)
  <2> DEFINE z == Hidden(g) + MaxFiniteMan(g)
             last == MaxFiniteExp(g) - 1
             w == RowUnit(g, last)
  <2>1. MaxFiniteMan(g) = AllOnes(g.man)
    BY <1>2 DEF MaxFiniteMan
  <2>2. z = 2 * Hidden(g) - 1 /\ z \in Nat
    BY <1>4, <2>1
  <2>3. Largest(g) = z * w /\ last \in Nat
    BY <1>1, LargestIs
  <2>4. row <= last
    BY <1>10
  <2> HIDE DEF z, last
  <2>5. u <= w /\ w \in Nat
    BY <1>1, <2>3, <2>4, RowsDouble
  <2> HIDE DEF u, w, a, k
  <2>6. k <= z
    BY <1>4, <1>11, <1>12, <2>2
  <2>7. k * u <= z * u
    <3>1. z * u - k * u = (z - k) * u /\ (z - k) * u >= 0 /\ z * u \in Nat /\ k * u \in Nat
      BY <1>11, <2>2, <2>6
    <3> QED
      BY <3>1
  <2>8. z * u <= z * w
    <3>1. z * w - z * u = z * (w - u) /\ z * (w - u) >= 0 /\ z * u \in Nat /\ z * w \in Nat
      BY <1>11, <2>2, <2>5
    <3> QED
      BY <3>1
  <2>9. k * u \in Nat /\ z * u \in Nat /\ z * w \in Nat
    BY <1>11, <2>2, <2>5
  <2> QED
    BY <1>11, <2>3, <2>7, <2>8, <2>9
<1> QED
  BY <1>11, <1>13

\* So widening keeps every number.
LEMMA WideningKeeps ==
  ASSUME NEW f, NEW g, Widening(f, g), NEW p \in FieldsOf(f), IsFinite(p, f),
         NEW v, Holding(v, ScaledValue(p, f)), v.neg = p.neg,
         Scaled(v.mant, v.exp) = MagnitudeOf(p, f),
         NEW r \in Roundings, NEW s \in Saturations
  PROVE  LET code == RoundToFloat(v, g, r, s)
             q == code.value
         IN  /\ code.ok /\ q \in FieldsOf(g) /\ IsFinite(q, g) /\ q.neg = p.neg
             /\ MagnitudeOf(q, g) = MagnitudeOf(p, f)
<1> DEFINE code == RoundToFloat(v, g, r, s)
           q == code.value
           a == MagnitudeOf(p, f)
<1>1. IsFitting(f) /\ IsFitting(g) /\ p.neg \in BOOLEAN /\ a \in Nat
  <2>1. IsFitting(f) /\ IsFitting(g) /\ p.neg \in BOOLEAN
    BY DEF Widening, Narrowing, FieldsOf
  <2> QED
    BY <2>1, RowsNest
<1>2. /\ v.neg \in BOOLEAN /\ v.mant \in Nat /\ v.mant < Power[MantBits - 1] /\ v.exp \in Int
      /\ v.exp + Scale >= 0
  BY DEF Holding
<1>3. CASE v.mant = 0
  <2>1. code = Value(Zero(p.neg))
    BY <1>3 DEF RoundToFloat
  <2>2. code.ok /\ q = Zero(p.neg) /\ q.neg = p.neg /\ q.e = 0 /\ q.m = 0
    BY <2>1 DEF Value, Zero
  <2>3. a = 0
    <3>1. v.exp + Scale \in Nat
      BY <1>2, BoundsAssumption
    <3> QED
      BY <1>3, <3>1, PowerIs DEF Scaled
  <2> DEFINE h == AllOnes(g.exp)
  <2>4. q \in FieldsOf(g)
    BY <1>1, <2>2, FormatIs DEF Zero, FieldsOf
  <2>5. /\ MaxFiniteExp(g) \in Nat /\ MaxFiniteExp(g) >= 1 /\ MaxFiniteMan(g) \in Nat
    BY <1>1, FormatIs
  <2> HIDE DEF q, code, a
  <2>6. RowOf(q) = 0 /\ Significand(q, g) = 0 /\ ~Past(q.e, q.m, g)
    BY <2>2, <2>5 DEF RowOf, Significand, Past
  <2>7. MagnitudeOf(q, g) = 0
    <3>1. MagnitudeOf(q, g) = Significand(q, g) * RowUnit(g, RowOf(q))
      BY <1>1, <2>4, FieldsAre
    <3>2. RowUnit(g, 0) \in Nat
      BY <1>1, RowsDouble
    <3> QED
      BY <2>6, <3>1, <3>2
  <2>8. IsFinite(q, g)
    BY <1>1, <2>4, <2>6, FiniteIs
  <2> QED
    BY <2>2, <2>3, <2>4, <2>7, <2>8 DEF q, code, a
<1>4. CASE v.mant # 0
  <2>1. v.mant > 0
    BY <1>2, <1>4
  <2>2. PICK row \in Nat :
          LET b == Scaled(v.mant, v.exp)
              k == RoundUnit(b, RowUnit(g, row), v.neg, r)
          IN  /\ Reaches(b, row, g)
              /\ Lands(RoundToFloat(v, g, r, s), v.neg, k * RowUnit(g, row), k, g, r, s)
    BY <1>1, <1>2, <2>1, EncodedIs
  <2> DEFINE u == RowUnit(g, row)
             k == RoundUnit(a, u, p.neg, r)
             y == k * u
  <2>3. Reaches(a, row, g) /\ Lands(code, p.neg, y, k, g, r, s)
    BY <2>2
  <2>4. (\E n \in Nat : a = n * u) /\ a <= Largest(g)
    BY <2>3, WideRows
  <2>5. y = a
    <3>1. PICK n \in Nat : a = n * u
      BY <2>4
    <3>2. u \in Nat /\ u >= 1
      BY <1>1, RowsDouble
    <3> HIDE DEF u, a
    <3>3. RoundUnit(n * u, u, p.neg, r) = n
      <4>1. u > 0
        BY <3>2
      <4> QED
        BY <3>2, <4>1, MultiplesAreKept
    <3> QED
      BY <3>1, <3>3
  <2> HIDE DEF y, k, a
  <2>6. ~(y > Largest(g))
    <3>1. Largest(g) \in Nat
      BY <1>1, LargestIs
    <3> QED
      BY <1>1, <2>4, <2>5, <3>1
  <2>7. code = Value(q) /\ q \in FieldsOf(g) /\ IsFinite(q, g) /\ q.neg = p.neg /\ MagnitudeOf(q, g) = y
    <3> HIDE DEF code
    <3> QED
      BY <2>3, <2>6 DEF Lands
  <2>8. code.ok
    <3> HIDE DEF q
    <3>1. code = Value(q)
      BY <2>7
    <3> HIDE DEF code
    <3> QED
      BY <3>1 DEF Value
  <2> HIDE DEF code, q
  <2> QED
    BY <2>5, <2>7, <2>8 DEF code, q, a
<1> QED
  BY <1>3, <1>4

\* Of a number, from_f32 is round_mag.
LEMMA FromFloatIs ==
  ASSUME NEW f, NEW g, Narrowing(g, f), NEW q \in FieldsOf(g), IsFinite(q, g)
  PROVE  FromFloat(q, g, f) = RoundMag(q, g, f)
<1>1. g.nan = "ieee" /\ g.hasInf /\ g.kind = "float"
  BY NarrowingIs
<1>2. ~IsNan(q, g) /\ ~IsInf(q, g)
  BY <1>1 DEF IsFinite, IsFloat
<1>3. q.e # AllOnes(g.exp)
  BY <1>1, <1>2 DEF IsNan, IsInf
<1> QED
  BY <1>3 DEF FromFloat

\* What is widened to a number of the same sign and magnitude narrows to what it was.
LEMMA NarrowsBack ==
  ASSUME NEW f, NEW g, Narrowing(g, f), NEW p \in FieldsOf(f), IsFinite(p, f),
         NEW q \in FieldsOf(g), IsFinite(q, g), q.neg = p.neg,
         MagnitudeOf(q, g) = MagnitudeOf(p, f)
  PROVE  FromFloat(q, g, f) = p
<1> DEFINE v == DecodePattern(q, g)
           code == RoundToFloat(v, f, "nearest_even", "clamp")
           w == code.value
<1>1. /\ IsFitting(f) /\ IsFitting(g) /\ f.kind = "float" /\ g.kind = "float"
      /\ p.neg \in BOOLEAN /\ "nearest_even" \in Roundings /\ "clamp" \in Saturations
  BY DEF Narrowing, IsFitting, IsFloat, FieldsOf, Roundings, Saturations
<1>2. ScaledValue(q, g) = ScaledValue(p, f)
  BY <1>1 DEF ScaledValue
<1>3. Holding(v, ScaledValue(p, f)) /\ v.neg = q.neg
  <2>1. Holding(v, ScaledValue(q, g))
    BY <1>1, FloatDecoded
  <2>2. v.neg = q.neg
    BY <1>1, ClassIs
  <2> QED
    BY <1>2, <2>1, <2>2
<1> HIDE DEF v
<1>4. code.ok /\ w.neg = v.neg /\ ScaledValue(w, f) = ScaledValue(p, f)
  BY <1>1, <1>3, FloatTakesBack
<1>5. w \in FieldsOf(f)
  BY <1>1, <1>3, <1>4, FloatCode
<1> HIDE DEF w
<1>6. MagnitudeOf(w, f) = MagnitudeOf(p, f)
  <2> DEFINE x == MagnitudeOf(w, f)
             y == MagnitudeOf(p, f)
             n == p.neg
  <2>1. x \in Nat /\ y \in Nat /\ n \in BOOLEAN
    BY <1>1, <1>5, RowsNest
  <2>2. (IF n THEN -x ELSE x) = (IF n THEN -y ELSE y)
    BY <1>1, <1>3, <1>4 DEF ScaledValue
  <2> HIDE DEF x, y, n
  <2>3. x = y
    BY <2>1, <2>2
  <2> QED
    BY <2>3 DEF x, y
<1>7. w = p
  BY <1>1, <1>3, <1>4, <1>5, <1>6, MagnitudeTells
<1>8. code = Value(RoundMag(q, g, f))
  BY NarrowingAgrees DEF v
<1>9. w = RoundMag(q, g, f)
  <2> HIDE DEF code
  <2> QED
    BY <1>8 DEF w, Value
<1> QED
  BY <1>7, <1>9, FromFloatIs

\* A pattern of an FP8 format and what decode makes of it.
LEMMA DecodeFp8Is ==
  ASSUME NEW f, NEW g, Narrowing(g, f), NEW p \in FieldsOf(f)
  PROVE  LET v == DecodeFp8(p, f)
         IN  /\ IsNan(p, f) => v.class = "nan"
             /\ IsInf(p, f) => v.class = "inf" /\ v.neg = p.neg
             /\ IsFinite(p, f) => v = DecodePattern(p, f)
<1>1. f.nan \in {"ieee", "all_ones"} /\ f.kind = "float" /\ (f.hasInf <=> f.nan = "ieee")
  BY NarrowingIs
<1>2. IsFitting(f) /\ f.man \in Nat /\ f.bias \in Nat
  <2>1. IsFitting(f)
    BY DEF Narrowing
  <2> QED
    BY <2>1, NarrowingIs
<1>3. p.m \in Nat /\ AllOnes(f.man) \in Nat /\ AllOnes(f.man) >= 1 /\ p.e \in Nat
  <2>1. p.m \in Nat /\ p.e \in Nat
    BY <1>2, FieldsAre
  <2>2. AllOnes(f.man) = Hidden(f) - 1 /\ Hidden(f) \in Nat /\ Hidden(f) >= 2
    BY <1>2, FormatIs
  <2> QED
    BY <2>1, <2>2
<1>4. IsNan(p, f)
        <=> p.e = AllOnes(f.exp) /\ (IF f.nan = "all_ones" THEN p.m = AllOnes(f.man) ELSE p.m # 0)
  BY <1>1 DEF IsNan
<1>5. IsInf(p, f) <=> p.e = AllOnes(f.exp) /\ f.nan # "all_ones" /\ p.m = 0
  BY <1>1 DEF IsInf
<1>6. CASE IsNan(p, f)
  <2>1. DecodeFp8(p, f).class = "nan"
    BY <1>4, <1>6 DEF DecodeFp8, Nan
  <2>2. ~IsInf(p, f) /\ ~IsFinite(p, f)
    BY <1>1, <1>4, <1>5, <1>6 DEF IsFinite, IsFloat
  <2> QED
    BY <2>1, <2>2
<1>7. CASE IsInf(p, f)
  <2>1. ~IsNan(p, f) /\ ~IsFinite(p, f)
    BY <1>1, <1>4, <1>5, <1>7 DEF IsFinite, IsFloat
  <2>2. DecodeFp8(p, f) = Inf(p.neg)
    BY <1>4, <1>5, <1>7, <2>1 DEF DecodeFp8
  <2> QED
    BY <2>1, <2>2 DEF Inf
<1>8. CASE IsFinite(p, f)
  <2>1. ~IsNan(p, f) /\ ~IsInf(p, f)
    BY <1>1, <1>8 DEF IsFinite, IsFloat
  <2>2. DecodePattern(p, f) = Fin(p.neg, Significand(p, f), Place(p, f))
    BY <1>2, <1>8, FieldsDecoded
  <2>3. DecodeFp8(p, f) = IF p.e = 0 THEN Fin(p.neg, p.m, (1 - f.bias) - f.man)
                          ELSE Fin(p.neg, Power[f.man] + p.m, (p.e - f.bias) - f.man)
    <3>1. ~(p.e = AllOnes(f.exp) /\ f.nan # "all_ones")
      BY <1>1, <1>4, <1>5, <2>1
    <3> QED
      BY <1>4, <2>1, <3>1 DEF DecodeFp8
  <2>4. Power[f.man] + p.m = p.m + Power[f.man]
    <3>1. Power[f.man] \in Nat
      BY <1>2, PowerIs
    <3> QED
      BY <1>3, <3>1
  <2> QED
    BY <2>1, <2>2, <2>3, <2>4 DEF Significand, Place
<1> QED
  BY <1>1, <1>6, <1>7, <1>8 DEF IsFinite

\* What a request between floats that is not declined writes for an element.
LEMMA FloatWritten ==
  ASSUME CastInv, NEW i \in DOMAIN out, IsFloat(Source), IsFloat(Target), Source # Target
  PROVE  /\ IsFitting(Source) /\ IsFitting(Target) /\ data[i] \in FieldsOf(Source)
         /\ Dir \in Roundings /\ Sat \in Saturations
         /\ Target.pinned => Dir = "nearest_even" /\ Sat = "clamp"
         /\ IsFinite(data[i], Source) =>
              out[i] = RoundToFloat(DecodePattern(data[i], Source), Target, Dir, Sat).value
<1> DEFINE p == data[i]
           v == DecodePattern(p, Source)
<1>1. /\ Admitted /\ Fault = "none" /\ p \in Patterns(Source)
      /\ Result(i).ok /\ out[i] = Result(i).value
  BY WrittenIs
<1>2. /\ IsFitting(Source) /\ IsFitting(Target) /\ p \in FieldsOf(Source)
      /\ Dir \in Roundings /\ Sat \in Saturations
  BY <1>1 DEF Admitted, IsFloat, Patterns
<1>3. Target.pinned => Dir = "nearest_even" /\ Sat = "clamp"
  BY <1>1 DEF Fault, CastFault, DtypeFault, IsFloat
<1>4. ASSUME IsFinite(p, Source)
      PROVE  out[i] = RoundToFloat(v, Target, Dir, Sat).value
  <2>1. v.class = "fin"
    BY <1>2, <1>4, FloatDecoded DEF Holding
  <2>2. Result(i) = EncodeFloat(v, Target, Dir, Sat)
    BY DEF Result, CastBits
  <2> HIDE DEF v
  <2>3. EncodeFloat(v, Target, Dir, Sat) = RoundToFloat(v, Target, Dir, Sat)
    BY <2>1 DEF EncodeFloat
  <2> QED
    BY <1>1, <2>2, <2>3
<1> QED
  BY <1>2, <1>3, <1>4

\* The agreement of the codecs follows from the invariant.
LEMMA Fp8Follows == CastInv => Fp8AgreesWithCast
<1> SUFFICES ASSUME CastInv PROVE Fp8AgreesWithCast
  OBVIOUS
<1>1. ASSUME NarrowsTo(Source, Target), NEW i \in Converted
      PROVE  FromFloat(data[i], Source, Target) = out[i]
  <2> DEFINE p == data[i]
             v == DecodePattern(p, Source)
  <2>1. /\ IsFloat(Source) /\ IsFloat(Target) /\ Source # Target /\ Target.pinned
        /\ i \in DOMAIN out /\ IsFinite(p, Source)
    <3>1. Source.nan = "ieee" /\ Source.man > Target.man /\ Target.pinned
          /\ IsFloat(Source) /\ IsFloat(Target)
      BY <1>1 DEF NarrowsTo
    <3>2. i \in DOMAIN out
      BY <1>1 DEF Converted
    <3>3. IsFitting(Source)
      BY <3>1, <3>2, WrittenIs DEF Admitted, IsFloat
    <3>4. Source.man \in Nat
      BY <3>3, FormatIs
    <3> QED
      BY <1>1, <3>1, <3>2, <3>4 DEF Converted
  <2>2. /\ IsFitting(Source) /\ IsFitting(Target) /\ p \in FieldsOf(Source)
        /\ Dir = "nearest_even" /\ Sat = "clamp"
        /\ out[i] = RoundToFloat(v, Target, Dir, Sat).value
    BY <2>1, FloatWritten
  <2>3. Narrowing(Source, Target)
    BY <1>1, <2>2 DEF Narrowing
  <2>4. RoundToFloat(v, Target, "nearest_even", "clamp") = Value(RoundMag(p, Source, Target))
    BY <2>1, <2>2, <2>3, NarrowingAgrees
  <2>5. FromFloat(p, Source, Target) = RoundMag(p, Source, Target)
    BY <2>1, <2>2, <2>3, FromFloatIs
  <2> HIDE DEF p, v
  <2>6. out[i] = RoundMag(p, Source, Target)
    BY <2>2, <2>4 DEF Value
  <2> QED
    BY <2>5, <2>6 DEF p
<1>2. ASSUME WidensTo(Source, Target), NEW i \in DOMAIN out, IsInf(data[i], Source) => Sat = "none"
      PROVE  /\ Holds(out[i], Target, DecodeFp8(data[i], Source))
             /\ ~IsNan(data[i], Source) => FromFloat(out[i], Target, Source) = data[i]
  <2> DEFINE p == data[i]
             q == out[i]
             v == DecodePattern(p, Source)
  <2>1. NarrowsTo(Target, Source) /\ IsFloat(Source) /\ IsFloat(Target)
        /\ Target.man > Source.man
    BY <1>2 DEF WidensTo, NarrowsTo
  <2>2. Source # Target
    <3>1. IsFitting(Source)
      BY <1>2, <2>1, WrittenIs DEF Admitted, IsFloat
    <3>2. Source.man \in Nat
      BY <3>1, FormatIs
    <3> QED
      BY <2>1, <3>2
  <2>3. /\ IsFitting(Source) /\ IsFitting(Target) /\ p \in FieldsOf(Source)
        /\ Dir \in Roundings /\ Sat \in Saturations
        /\ IsFinite(p, Source) => q = RoundToFloat(v, Target, Dir, Sat).value
    BY <1>2, <2>1, <2>2, FloatWritten
  <2>4. Narrowing(Target, Source) /\ Widening(Source, Target)
    BY <1>2, <2>1, <2>3 DEF Narrowing, Widening, WidensTo
  <2>5. /\ IsNan(p, Source) => IsNan(q, Target)
        /\ IsInf(p, Source) =>
             q = IF Sat = "clamp" THEN MaxFinite(Target, p.neg) ELSE Infinity(Target, p.neg)
    BY <1>2, <2>1, <2>2, SpecialsFollow DEF SpecialsAreKept
  <2> DEFINE w == DecodeFp8(p, Source)
  <2>6. /\ IsNan(p, Source) => w.class = "nan"
        /\ IsInf(p, Source) => w.class = "inf" /\ w.neg = p.neg
        /\ IsFinite(p, Source) => w = v
    BY <2>3, <2>4, DecodeFp8Is
  <2>7. CASE IsNan(p, Source)
    <3> HIDE DEF w, q
    <3>1. Holds(q, Target, w)
      BY <2>5, <2>6, <2>7 DEF Holds
    <3> QED
      BY <2>7, <3>1 DEF w, q
  <2>8. CASE IsInf(p, Source)
    <3>1. q = Infinity(Target, p.neg)
      BY <1>2, <2>5, <2>8
    <3>2. q.neg = p.neg /\ q.e = AllOnes(Target.exp) /\ q.m = 0
      BY <3>1 DEF Infinity
    <3>3. Target.hasInf
      BY <2>4, NarrowingIs
    <3> HIDE DEF w, q
    <3>4. Holds(q, Target, w)
      BY <2>6, <2>8, <3>2, <3>3 DEF Holds, IsInf
    <3>5. FromFloat(q, Target, Source) = Infinity(Source, p.neg)
      BY <2>8, <3>2 DEF FromFloat, IsInf
    <3>6. Infinity(Source, p.neg) = p
      BY <2>3, <2>8 DEF Infinity, IsInf, FieldsOf
    <3> QED
      BY <3>4, <3>5, <3>6 DEF w, q
  <2>9. CASE IsFinite(p, Source)
    <3>1. /\ v = Fin(p.neg, Significand(p, Source), Place(p, Source))
          /\ Holding(v, ScaledValue(p, Source))
      BY <2>3, <2>9, FieldsDecoded, FloatDecoded
    <3>2. v.neg = p.neg /\ v.class = "fin" /\ Scaled(v.mant, v.exp) = MagnitudeOf(p, Source)
      BY <3>1 DEF Fin, Scaled, MagnitudeOf
    <3> HIDE DEF v
    <3>3. LET code == RoundToFloat(v, Target, Dir, Sat)
          IN  /\ code.ok /\ code.value \in FieldsOf(Target) /\ IsFinite(code.value, Target)
              /\ code.value.neg = p.neg
              /\ MagnitudeOf(code.value, Target) = MagnitudeOf(p, Source)
      BY <2>3, <2>4, <2>9, <3>1, <3>2, WideningKeeps
    <3>4. /\ q \in FieldsOf(Target) /\ IsFinite(q, Target) /\ q.neg = p.neg
          /\ MagnitudeOf(q, Target) = MagnitudeOf(p, Source)
      <4>1. q = RoundToFloat(v, Target, Dir, Sat).value
        BY <2>3, <2>9
      <4> HIDE DEF q
      <4> QED
        BY <3>3, <4>1
    <3>5. FromFloat(q, Target, Source) = p
      BY <2>3, <2>4, <2>9, <3>4, NarrowsBack
    <3>6. w = v
      BY <2>6, <2>9
    <3> HIDE DEF w, q, p
    <3>7. Holds(q, Target, w)
      BY <3>2, <3>4, <3>6 DEF Holds, Scaled
    <3> QED
      BY <3>5, <3>7 DEF w, q, p
  <2> QED
    BY <2>7, <2>8, <2>9 DEF IsFinite
<1> QED
  BY <1>1, <1>2 DEF Fp8AgreesWithCast

\* fp8.rs and cast.rs agree on every finite value of a wider float and on every pattern, and
\* what is widened narrows to what it was, for all formats.
THEOREM Fp8AlwaysAgrees == Spec => []Fp8AgreesWithCast
BY CastInvHolds, Fp8Follows, PTL
=============================================================================
