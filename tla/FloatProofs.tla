---------------------------- MODULE FloatProofs ------------------------------
(***************************************************************************)
(* The float lanes that are computed on, for any formats.                  *)
(*                                                                         *)
(* Folds: the guard of a fold in a wider dtype admits an accumulator       *)
(* exactly when the accumulator has every value of the storage dtype.      *)
(* That it does: a value of fewer bits and a smaller range is encoded as   *)
(* it is, by way of f64 and f32 too.  That it would not otherwise: a one   *)
(* with its last bit is rounded to one, the largest power of two becomes   *)
(* infinite or saturates.                                                  *)
(*                                                                         *)
(* The complex lane: conjugate operands give the conjugate result.  Both   *)
(* results are followed from the patterns of the operands, through exact   *)
(* sums, products and quotients, their rounding and every special row.     *)
(* Products and quotients have the infinities and zeros of Annex G: the    *)
(* kind of every partial product and sum is followed, and of the two lanes *)
(* of a product of a boxed infinity one never cancels.                     *)
(***************************************************************************)
EXTENDS Accumulate, Complex, NumberLemmas

-----------------------------------------------------------------------------
\* Formats.

\* A lane with infinities: all but the FP8 lane without any.
IsIeee(f) == IsLane(f) /\ f.nan = "ieee"

LEMMA LaneIs ==
  ASSUME NEW f, IsLane(f)
  PROVE  /\ f.exp \in Nat /\ f.exp >= 2 /\ f.man \in Nat /\ f.man >= 1
         /\ f.bias \in Nat /\ f.bias >= 1
         /\ AllOnes(f.exp) = 2 * f.bias + 1
         /\ AllOnes(f.man) = Power[f.man] - 1 /\ Power[f.man] \in Nat /\ Power[f.man] >= 2
         /\ Power[f.man] % 2 = 0
         /\ f.nan = "ieee" => MaxFiniteExp(f) = 2 * f.bias /\ MaxFiniteMan(f) = Power[f.man] - 1
         /\ f.nan # "ieee" => MaxFiniteExp(f) = 2 * f.bias + 1 /\ MaxFiniteMan(f) = Power[f.man] - 2
<1> DEFINE p == Power[f.exp - 1]
           q == Power[f.man - 1]
<1>1. f.exp \in Nat /\ f.exp >= 2 /\ f.man \in Nat /\ f.man >= 1 /\ f.bias = p - 1
  BY DEF IsLane
<1>2. p \in Nat /\ p >= 2
  <2>1. f.exp - 1 \in Nat /\ f.exp - 2 \in Nat /\ (f.exp - 2) + 1 = f.exp - 1
    BY <1>1
  <2> QED
    BY <2>1, PowerIs
<1>3. Power[f.exp] = 2 * p
  <2>1. f.exp - 1 \in Nat /\ (f.exp - 1) + 1 = f.exp
    BY <1>1
  <2> QED
    BY <2>1, PowerRuns
<1>4. Power[f.man] = 2 * q /\ q \in Nat /\ q >= 1
  <2>1. f.man - 1 \in Nat /\ (f.man - 1) + 1 = f.man
    BY <1>1
  <2> QED
    BY <2>1, PowerIs
<1> HIDE DEF p, q
<1>5. (2 * q) % 2 = 0
  BY <1>4
<1> QED
  BY <1>1, <1>2, <1>3, <1>4, <1>5 DEF AllOnes, MaxFiniteExp, MaxFiniteMan, IsLane

\* A greater width has a greater bias.
LEMMA BiasGrows ==
  ASSUME NEW f, NEW g, IsLane(f), IsLane(g)
  PROVE  /\ f.exp <= g.exp => f.bias <= g.bias
         /\ f.exp < g.exp => 2 * f.bias + 1 <= g.bias
<1> DEFINE a == f.exp - 1
           b == g.exp - 1
<1>1. a \in Nat /\ b \in Nat /\ f.bias = Power[a] - 1 /\ g.bias = Power[b] - 1
      /\ f.exp \in Nat /\ g.exp \in Nat
  BY DEF IsLane
<1>2. (f.exp <= g.exp => a <= b) /\ (f.exp < g.exp => a < b)
  BY <1>1
<1> HIDE DEF a, b
<1>3. Power[a] \in Nat /\ Power[b] \in Nat
  BY <1>1, PowerIs
<1>4. a <= b => Power[a] <= Power[b] /\ (a < b => 2 * Power[a] <= Power[b])
  BY <1>1, PowerGrows
<1> QED
  BY <1>1, <1>2, <1>3, <1>4

LEMMA WideLanes ==
  /\ IsIeee(F32) /\ IsIeee(F64) /\ ~F32.pinned /\ ~F64.pinned
  /\ F32.bias < F64.bias /\ F32.man < F64.man /\ F32.exp < F64.exp
  /\ MantBits \in Nat /\ F64.man + 1 < MantBits /\ F64.man + 1 \in Nat
  /\ F32 # F64
<1>1. IsLane(F32) /\ IsLane(F64)
  BY LanesAssumption
<1>2. F32.nan = "ieee" /\ F64.nan = "ieee"
  BY <1>1, LanesAssumption DEF IsLane
<1>3. F32.exp < F64.exp /\ F32.man < F64.man
  BY LanesAssumption
<1>4. 2 * F32.bias + 1 <= F64.bias /\ F32.bias \in Nat /\ F64.bias \in Nat /\ F64.man \in Nat
      /\ F32.exp \in Nat /\ F32.exp \in Nat
  BY <1>1, <1>3, BiasGrows, LaneIs
<1> QED
  BY <1>1, <1>2, <1>3, <1>4, LanesAssumption, WidthAssumption DEF IsIeee

\* The number of bits of a number.
LEMMA BitLengthIs ==
  ASSUME NEW n \in Nat, n > 0, n < Power[MantBits - 1]
  PROVE  /\ BitLength(n) \in Nat /\ BitLength(n) >= 1 /\ BitLength(n) < MantBits
         /\ n < Power[BitLength(n)] /\ n >= Power[BitLength(n) - 1]
<1> DEFINE Lengths == {b \in Nat : n < Power[b]}
<1>1. MantBits - 1 \in Lengths /\ MantBits \in Nat /\ MantBits - 1 \in Nat
  BY WideLanes
<1>2. PICK b \in Lengths : \A c \in Lengths : b <= c
  <2> HIDE DEF Lengths
  <2>1. Lengths \in SUBSET Nat
    BY DEF Lengths
  <2> QED
    BY <1>1, <2>1, LeastNatural
<1>3. b # 0
  BY <1>2, PowerRuns
<1>4. b - 1 \in Nat /\ b - 1 \notin Lengths /\ b \in 0..MantBits
  BY <1>1, <1>2, <1>3
<1>5. n < Power[b] /\ (b > 0 => n >= Power[b - 1])
  BY <1>2, <1>4, PowerIs
<1>6. /\ BitLength(n) \in 0..MantBits /\ n < Power[BitLength(n)]
      /\ BitLength(n) > 0 => n >= Power[BitLength(n) - 1]
  BY <1>4, <1>5 DEF BitLength
<1> HIDE DEF Lengths
<1> DEFINE l == BitLength(n)
<1>7. l \in 0..MantBits /\ n < Power[l] /\ (l > 0 => n >= Power[l - 1]) /\ l # 0
  BY <1>6, PowerRuns
<1> HIDE DEF l
<1>8. l # MantBits
  BY <1>1, <1>7, PowerIs
<1> QED
  BY <1>1, <1>7, <1>8 DEF l

\* Which number of bits it is: the powers around it tell.
LEMMA BitLengthTells ==
  ASSUME NEW n \in Nat, NEW b \in Nat, b >= 1, n < Power[b], n >= Power[b - 1],
         n < Power[MantBits - 1]
  PROVE  BitLength(n) = b
<1> DEFINE l == BitLength(n)
<1>1. b - 1 \in Nat
  OBVIOUS
<1>2. n > 0
  BY <1>1, PowerIs
<1>3. l \in Nat /\ l >= 1 /\ n < Power[l] /\ n >= Power[l - 1]
  BY <1>2, BitLengthIs
<1> HIDE DEF l
<1>4. l - 1 \in Nat
  BY <1>3
<1>5. Power[l - 1] < Power[b] /\ Power[b - 1] < Power[l]
  BY <1>1, <1>3, <1>4, PowerIs
<1>6. l - 1 < b /\ b - 1 < l
  BY <1>1, <1>3, <1>4, <1>5, PowerOrders
<1> QED
  BY <1>3, <1>6 DEF l

-----------------------------------------------------------------------------
\* Encoding.

Encoded(v, f) == EncodeFloat(v, f, "nearest_even", "none")

\* The significand, in units of its place: what is encoded before a carry.
Units(mant, exp, place, neg) ==
  IF place <= exp THEN mant * Power[exp - place]
  ELSE RoundShift(mant, place - exp, neg, "nearest_even")

LEMMA EncodedIs ==
  ASSUME NEW f, NEW neg, NEW mant \in Nat, mant > 0, NEW exp \in Int,
         NEW place, place = LastPlace(mant, exp, f),
         NEW u, u = Units(mant, exp, place, neg)
  PROVE  Encoded(Fin(neg, mant, exp), f) = Carry(neg, u, place, f, "nearest_even", "none")
<1> DEFINE v == Fin(neg, mant, exp)
<1>1. v.class = "fin" /\ v.neg = neg /\ v.mant = mant /\ v.exp = exp
  BY DEF Fin
<1> HIDE DEF v
<1>2. EncodeFloat(v, f, "nearest_even", "none") = RoundToFloat(v, f, "nearest_even", "none")
  BY <1>1 DEF EncodeFloat
<1> QED
  BY <1>1, <1>2 DEF Encoded, RoundToFloat, RoundToPlace, Units, v

\* A significand of the width of the format that is not past the largest exponent is packed
\* as it is.
LEMMA Packed ==
  ASSUME NEW f, IsIeee(f), NEW neg \in BOOLEAN, NEW u \in Nat, u > 0, u < Power[f.man + 1],
         NEW place \in Int, place >= 1 - f.bias - f.man,
         u < Power[f.man] => place = 1 - f.bias - f.man,
         place + f.man <= f.bias
  PROVE  LET q == [neg |-> neg, e |-> IF u < Power[f.man] THEN 0 ELSE place + f.man + f.bias,
                   m |-> IF u < Power[f.man] THEN u ELSE u - Power[f.man]]
         IN  /\ Carry(neg, u, place, f, "nearest_even", "none") = Value(q)
             /\ q \in Patterns(f)
             /\ DecodeFloat(q, f) = Fin(neg, u, place)
<1> DEFINE e == IF u < Power[f.man] THEN 0 ELSE place + f.man + f.bias
           m == IF u < Power[f.man] THEN u ELSE u - Power[f.man]
           q == [neg |-> neg, e |-> e, m |-> m]
<1>1. /\ f.bias \in Nat /\ f.bias >= 1 /\ f.man \in Nat /\ AllOnes(f.exp) = 2 * f.bias + 1
      /\ AllOnes(f.man) = Power[f.man] - 1 /\ Power[f.man] \in Nat
      /\ MaxFiniteExp(f) = 2 * f.bias /\ MaxFiniteMan(f) = Power[f.man] - 1 /\ f.nan = "ieee"
  BY LaneIs DEF IsIeee
<1>2. Power[f.man + 1] = 2 * Power[f.man]
  BY <1>1, PowerIs
<1>3. e \in 0..(2 * f.bias) /\ m \in 0..(Power[f.man] - 1)
  BY <1>1, <1>2
<1>4. Carry(neg, u, place, f, "nearest_even", "none") = Pack(neg, u, place, f, "nearest_even", "none")
  <2>1. ~(u >= Power[f.man + 1])
    BY <1>1, <1>2
  <2> QED
    BY <2>1 DEF Carry
<1>5. Pack(neg, u, place, f, "nearest_even", "none") = Fit(neg, e, m, f, "nearest_even", "none")
  <2>1. u # 0
    OBVIOUS
  <2> QED
    BY <2>1 DEF Pack
<1>6. Fit(neg, e, m, f, "nearest_even", "none") = Value(q)
  <2> HIDE DEF e, m
  <2>1. ~(e > MaxFiniteExp(f)) /\ ~(m > MaxFiniteMan(f))
    BY <1>1, <1>3
  <2> QED
    BY <2>1 DEF Fit
<1>7. q.neg = neg /\ q.e = e /\ q.m = m /\ q \in Patterns(f)
  <2> HIDE DEF e, m
  <2>1. e \in 0..AllOnes(f.exp) /\ m \in 0..AllOnes(f.man)
    BY <1>1, <1>3
  <2> QED
    BY <2>1 DEF Patterns
<1>8. DecodeFloat(q, f) = Fin(neg, u, place)
  <2> HIDE DEF q
  <2>1. e # AllOnes(f.exp)
    <3> HIDE DEF e
    <3> QED
      BY <1>1, <1>3
  <2>2. DecodeFloat(q, f) = IF e = 0 THEN Fin(neg, m, 1 - f.bias - f.man)
                            ELSE Fin(neg, m + Power[f.man], e - f.bias - f.man)
    <3> HIDE DEF e, m
    <3> QED
      BY <1>7, <2>1 DEF DecodeFloat
  <2>3. CASE u < Power[f.man]
    <3>1. e = 0 /\ m = u /\ place = 1 - f.bias - f.man
      BY <2>3
    <3> QED
      BY <2>2, <3>1
  <2>4. CASE ~(u < Power[f.man])
    <3>1. e # 0 /\ m + Power[f.man] = u /\ e - f.bias - f.man = place
      BY <1>1, <2>4
    <3> QED
      BY <2>2, <3>1
  <2> QED
    BY <2>3, <2>4
<1> HIDE DEF e, m
<1> QED
  BY <1>4, <1>5, <1>6, <1>7, <1>8 DEF e, m, q

\* A significand of the width of the format that is past the largest exponent is infinite.
LEMMA Overflown ==
  ASSUME NEW f, IsIeee(f), NEW neg \in BOOLEAN, NEW u \in Nat, u >= Power[f.man],
         u < Power[f.man + 1], NEW place \in Int, place + f.man > f.bias
  PROVE  Carry(neg, u, place, f, "nearest_even", "none") = Value(Infinity(f, neg))
<1> DEFINE e == place + f.man + f.bias
           m == u - Power[f.man]
<1>1. /\ f.bias \in Nat /\ f.man \in Nat /\ Power[f.man] \in Nat /\ Power[f.man] >= 2
      /\ MaxFiniteExp(f) = 2 * f.bias /\ f.nan = "ieee" /\ f.hasInf
  BY LaneIs DEF IsIeee, IsLane
<1>2. Power[f.man + 1] = 2 * Power[f.man]
  BY <1>1, PowerIs
<1>3. ~(u >= Power[f.man + 1]) /\ u # 0 /\ ~(u < Power[f.man])
  BY <1>1, <1>2
<1>4. Carry(neg, u, place, f, "nearest_even", "none") = Fit(neg, e, m, f, "nearest_even", "none")
  BY <1>3 DEF Carry, Pack
<1>5. e > MaxFiniteExp(f)
  BY <1>1
<1> HIDE DEF e, m
<1> QED
  BY <1>1, <1>4, <1>5 DEF Fit, Overflow

\* A multiple of the unit is kept in every direction.
LEMMA MultiplesAreKept ==
  ASSUME NEW k \in Nat, NEW unit \in Nat, unit > 0, NEW neg, NEW r
  PROVE  RoundUnit(k * unit, unit, neg, r) = k
<1> DEFINE v == k * unit
<1>1. v \in Int /\ v = k * unit + 0 /\ 0 \in 0..(unit - 1)
  OBVIOUS
<1> HIDE DEF v
<1>2. v % unit = 0 /\ v \div unit = k
  BY <1>1, DivisionIs
<1> QED
  BY <1>2 DEF RoundUnit, Bumped, Bumps, Rest, v

\* More bits for the same value.
LEMMA LongerBy ==
  ASSUME NEW k \in Nat, k > 0, NEW t \in Nat, k * Power[t] < Power[MantBits - 1]
  PROVE  /\ k < Power[MantBits - 1] /\ k * Power[t] \in Nat /\ k * Power[t] > 0
         /\ BitLength(k * Power[t]) = BitLength(k) + t
         /\ t < MantBits - 1
<1> DEFINE p == Power[t]
           n == k * p
           b == BitLength(k)
           w == Power[MantBits - 1]
<1>1. p \in Nat /\ p >= 1 /\ MantBits - 1 \in Nat /\ w \in Nat
  BY PowerIs, WideLanes
<1>2. n \in Nat /\ n >= k /\ n >= p
  <2> HIDE DEF p
  <2>1. (k - 1) * p >= 0 /\ k * p = (k - 1) * p + p /\ k * (p - 1) >= 0 /\ k * p = k * (p - 1) + k
    BY <1>1
  <2> QED
    BY <1>1, <2>1
<1> HIDE DEF n
<1>3. n < w
  BY DEF n
<1>4. k < w /\ p < w
  <2> HIDE DEF w, p
  <2> QED
    BY <1>1, <1>2, <1>3
<1>5. b \in Nat /\ b >= 1 /\ k < Power[b] /\ k >= Power[b - 1]
  BY <1>4, BitLengthIs
<1> HIDE DEF b
<1>6. b - 1 \in Nat /\ b + t \in Nat /\ (b + t) - 1 = (b - 1) + t /\ (b - 1) + t \in Nat
  BY <1>5
<1>7. Power[b + t] = Power[b] * p /\ Power[(b - 1) + t] = Power[b - 1] * p
  BY <1>5, <1>6, PowerAdds
<1>8. n < Power[b + t] /\ n >= Power[(b + t) - 1]
  <2> DEFINE x == Power[b]
             y == Power[b - 1]
  <2>1. x \in Nat /\ y \in Nat
    BY <1>5, <1>6, PowerIs
  <2> HIDE DEF x, y, p
  <2>2. k < x /\ k >= y
    BY <1>5 DEF x, y
  <2>3. k * p < x * p /\ k * p >= y * p
    BY <1>1, <2>1, <2>2
  <2> QED
    BY <1>6, <1>7, <2>3 DEF n, p, x, y
<1>9. BitLength(n) = b + t
  <2>1. b + t >= 1
    BY <1>5
  <2> QED
    BY <1>2, <1>3, <1>6, <1>8, <2>1, BitLengthTells
<1>10. t < MantBits - 1
  BY <1>1, <1>4, PowerOrders
<1> QED
  BY <1>2, <1>4, <1>9, <1>10 DEF n, p, b, w

-----------------------------------------------------------------------------
\* What is encoded as it is.

\* The value k * 2^x in finer units is the same number of units of a place it reaches.
LEMMA ExactUnits ==
  ASSUME NEW k \in Nat, k > 0, NEW x \in Int, NEW p \in Int, p <= x, NEW place \in Int, place <= x,
         NEW neg, k * Power[x - p] < Power[MantBits - 1]
  PROVE  Units(k * Power[x - p], p, place, neg) = k * Power[x - place]
<1> DEFINE mant == k * Power[x - p]
<1>1. x - p \in Nat /\ x - place \in Nat
  OBVIOUS
<1>2. mant \in Nat /\ x - p < MantBits - 1
  BY <1>1, LongerBy
<1>3. CASE place <= p
  <2> DEFINE a == x - p
             b == p - place
  <2>1. a \in Nat /\ b \in Nat /\ x - place = a + b
    BY <1>3
  <2>2. Power[a + b] = Power[a] * Power[b] /\ Power[a] \in Nat /\ Power[b] \in Nat
    BY <2>1, PowerAdds, PowerIs
  <2>3. Units(mant, p, place, neg) = mant * Power[b]
    <3> HIDE DEF mant
    <3> QED
      BY <1>3 DEF Units
  <2> HIDE DEF a, b
  <2>4. (k * Power[a]) * Power[b] = k * (Power[a] * Power[b])
    BY <2>2
  <2> QED
    BY <2>1, <2>2, <2>3, <2>4 DEF a
<1>4. CASE ~(place <= p)
  <2> DEFINE a == x - place
             b == place - p
             q == k * Power[a]
  <2>1. a \in Nat /\ b \in Nat /\ x - p = a + b /\ b <= x - p
    BY <1>4
  <2>2. Power[a + b] = Power[a] * Power[b] /\ Power[a] \in Nat /\ Power[b] \in Nat /\ Power[b] >= 1
    BY <2>1, PowerAdds, PowerIs
  <2>3. Units(mant, p, place, neg) = RoundShift(mant, b, neg, "nearest_even")
    <3> HIDE DEF mant
    <3> QED
      BY <1>4 DEF Units
  <2>4. ~(b >= MantBits)
    <3>1. MantBits \in Nat
      BY WideLanes
    <3> HIDE DEF b
    <3> QED
      BY <1>2, <2>1, <3>1
  <2> HIDE DEF a, b
  <2>5. mant = q * Power[b] /\ q \in Nat
    <3>1. k * (Power[a] * Power[b]) = (k * Power[a]) * Power[b]
      BY <2>2
    <3>2. mant = k * (Power[a] * Power[b])
      BY <2>1, <2>2
    <3>3. k * Power[a] \in Nat
      BY <2>2
    <3> QED
      BY <3>1, <3>2, <3>3
  <2> HIDE DEF mant, q
  <2>6. RoundUnit(q * Power[b], Power[b], neg, "nearest_even") = q
    BY <2>2, <2>5, MultiplesAreKept
  <2>7. RoundShift(mant, b, neg, "nearest_even") = q
    BY <2>4, <2>5, <2>6 DEF RoundShift
  <2> QED
    BY <2>3, <2>7 DEF a, q, mant
<1> QED
  BY <1>3, <1>4

\* The last place of a value does not depend on the units it is given in.
LEMMA ExactPlace ==
  ASSUME NEW k \in Nat, k > 0, NEW x \in Int, NEW p \in Int, p <= x, NEW f, IsIeee(f),
         k * Power[x - p] < Power[MantBits - 1]
  PROVE  /\ LastPlace(k * Power[x - p], p, f) =
              (IF BitLength(k) - 1 + x >= 1 - f.bias THEN BitLength(k) - 1 + x ELSE 1 - f.bias)
                - f.man
         /\ k * Power[x - p] \in Nat /\ k * Power[x - p] > 0
         /\ BitLength(k) \in Nat /\ BitLength(k) >= 1
         /\ k < Power[BitLength(k)] /\ k >= Power[BitLength(k) - 1]
<1> DEFINE b == BitLength(k)
           mant == k * Power[x - p]
<1>1. x - p \in Nat /\ f.bias \in Nat /\ f.man \in Nat
  BY LaneIs DEF IsIeee
<1>2. k < Power[MantBits - 1] /\ mant \in Nat /\ mant > 0 /\ BitLength(mant) = b + (x - p)
  BY <1>1, LongerBy
<1>3. b \in Nat /\ b >= 1 /\ k < Power[b] /\ k >= Power[b - 1]
  BY <1>2, BitLengthIs
<1> HIDE DEF b, mant
<1>4. BitLength(mant) - 1 + p = b - 1 + x
  BY <1>1, <1>2, <1>3
<1>5. LastPlace(mant, p, f) = (IF b - 1 + x >= 1 - f.bias THEN b - 1 + x ELSE 1 - f.bias) - f.man
  BY <1>4 DEF LastPlace
<1> QED
  BY <1>2, <1>3, <1>5 DEF b, mant

\* A value of no more bits than the format and of its range is encoded as it is: the
\* pattern's value is the same number in finer units.
LEMMA ExactlyEncoded ==
  ASSUME NEW f, IsIeee(f), NEW neg \in BOOLEAN, NEW k \in Nat, k > 0, NEW x \in Int,
         NEW p \in Int, p <= x, k * Power[x - p] < Power[MantBits - 1],
         k < Power[f.man + 1], x >= 1 - f.bias - f.man, BitLength(k) - 1 + x <= f.bias
  PROVE  LET r == Encoded(Fin(neg, k * Power[x - p], p), f)
         IN  /\ r.value \in Patterns(f)
             /\ \E place \in Int : /\ place <= x
                                   /\ k * Power[x - place] < Power[f.man + 1]
                                   /\ DecodeFloat(r.value, f) = Fin(neg, k * Power[x - place], place)
<1> DEFINE b == BitLength(k)
           lead == b - 1 + x
           place == (IF lead >= 1 - f.bias THEN lead ELSE 1 - f.bias) - f.man
           mant == k * Power[x - p]
           d == x - place
           u == k * Power[d]
<1>1. f.bias \in Nat /\ f.bias >= 1 /\ f.man \in Nat /\ f.man >= 1
  BY LaneIs DEF IsIeee
<1>2. /\ LastPlace(mant, p, f) = place /\ mant \in Nat /\ mant > 0
      /\ b \in Nat /\ b >= 1 /\ k < Power[b] /\ k >= Power[b - 1]
  BY ExactPlace
<1> HIDE DEF b
<1>3. lead \in Int /\ place \in Int /\ lead <= f.bias
  BY <1>1, <1>2 DEF b
<1>4. b <= f.man + 1
  <2>1. Power[b - 1] < Power[f.man + 1] /\ b - 1 \in Nat /\ f.man + 1 \in Nat
    <3>1. b - 1 \in Nat /\ f.man + 1 \in Nat
      BY <1>1, <1>2
    <3> QED
      BY <1>2, <3>1, PowerIs
  <2>2. b - 1 < f.man + 1
    BY <2>1, PowerOrders
  <2> QED
    BY <1>1, <1>2, <2>2
<1>5. place <= x
  BY <1>1, <1>2, <1>3, <1>4
<1>6. d \in Nat /\ u \in Nat /\ u > 0
  <2>1. d \in Nat
    BY <1>3, <1>5
  <2> HIDE DEF d
  <2>2. Power[d] \in Nat /\ Power[d] >= 1
    BY <2>1, PowerIs
  <2>3. k * Power[d] \in Nat /\ k * Power[d] > 0
    BY <2>2
  <2> QED
    BY <2>1, <2>3
<1>7. /\ u < Power[f.man + 1]
      /\ u < Power[f.man] <=> lead < 1 - f.bias
  <2>1. Power[b + d] = Power[b] * Power[d] /\ Power[(b - 1) + d] = Power[b - 1] * Power[d]
    <3>1. b - 1 \in Nat
      BY <1>2
    <3> HIDE DEF d
    <3> QED
      BY <1>2, <1>6, <3>1, PowerAdds
  <2>2. u < Power[b + d] /\ u >= Power[(b - 1) + d]
    <3>1. Power[d] \in Nat /\ Power[d] >= 1 /\ Power[b] \in Nat /\ Power[b - 1] \in Nat
      <4>1. b - 1 \in Nat
        BY <1>2
      <4> HIDE DEF d
      <4> QED
        BY <1>2, <1>6, <4>1, PowerIs
    <3>2. \A s, t, w \in Nat : (s < t /\ w >= 1 => s * w < t * w) /\ (s >= t => s * w >= t * w)
      OBVIOUS
    <3>3. k * Power[d] < Power[b] * Power[d] /\ k * Power[d] >= Power[b - 1] * Power[d]
      <4> HIDE DEF d
      <4> QED
        BY <1>2, <3>1, <3>2
    <3> QED
      BY <2>1, <3>3
  <2>3. CASE lead >= 1 - f.bias
    <3>1. b + d = f.man + 1 /\ (b - 1) + d = f.man
      BY <1>1, <1>2, <2>3
    <3>2. ~(lead < 1 - f.bias)
      BY <1>1, <1>3, <2>3
    <3>3. Power[f.man] \in Nat
      BY <1>1, PowerIs
    <3> HIDE DEF u, d, lead
    <3> QED
      BY <1>6, <2>2, <3>1, <3>2, <3>3
  <2>4. CASE ~(lead >= 1 - f.bias)
    <3>1. b + d <= f.man /\ b + d \in Nat
      BY <1>1, <1>2, <1>6, <2>4
    <3>2. lead < 1 - f.bias
      BY <1>1, <1>3, <2>4
    <3>3. Power[b + d] <= Power[f.man] /\ Power[f.man] <= Power[f.man + 1]
      <4>1. f.man <= f.man + 1 /\ f.man + 1 \in Nat
        BY <1>1
      <4> HIDE DEF d
      <4> QED
        BY <1>1, <3>1, <4>1, PowerGrows
    <3>4. Power[f.man] \in Nat /\ Power[b + d] \in Nat /\ Power[f.man + 1] \in Nat
      <4>1. f.man + 1 \in Nat
        BY <1>1
      <4> HIDE DEF d
      <4> QED
        BY <1>1, <3>1, <4>1, PowerIs
    <3> HIDE DEF u, d, lead
    <3> QED
      BY <1>6, <2>2, <3>2, <3>3, <3>4
  <2> QED
    BY <2>3, <2>4
<1>8. Units(mant, p, place, neg) = u
  <2> HIDE DEF place, u, d, mant, lead
  <2>1. place \in Int /\ place <= x
    BY <1>3, <1>5
  <2>2. Units(k * Power[x - p], p, place, neg) = k * Power[x - place]
    BY <2>1, ExactUnits, Zenon
  <2> QED
    BY <2>2, Zenon DEF u, d, mant
<1>9. Encoded(Fin(neg, mant, p), f) = Carry(neg, u, place, f, "nearest_even", "none")
  <2> HIDE DEF mant, u, place
  <2> QED
    BY <1>2, <1>8, EncodedIs
<1>10. place >= 1 - f.bias - f.man /\ place + f.man <= f.bias
       /\ (lead < 1 - f.bias => place = 1 - f.bias - f.man)
  BY <1>1, <1>3
<1> DEFINE q == [neg |-> neg, e |-> IF u < Power[f.man] THEN 0 ELSE place + f.man + f.bias,
                 m |-> IF u < Power[f.man] THEN u ELSE u - Power[f.man]]
<1>11. /\ Carry(neg, u, place, f, "nearest_even", "none") = Value(q)
       /\ q \in Patterns(f)
       /\ DecodeFloat(q, f) = Fin(neg, u, place)
  <2> HIDE DEF u, place, lead
  <2> QED
    BY <1>3, <1>6, <1>7, <1>10, Packed DEF q
<1> HIDE DEF q
<1>12. Encoded(Fin(neg, mant, p), f).value = q
  BY <1>9, <1>11 DEF Value
<1> HIDE DEF place
<1> QED
  BY <1>3, <1>5, <1>7, <1>11, <1>12

-----------------------------------------------------------------------------
\* An admitted accumulator has every value.

\* The pattern q stands for the value k * 2^x.
StandsFor(q, f, neg, k, x) ==
  /\ q \in Patterns(f)
  /\ \E place \in Int : /\ place <= x
                        /\ k * Power[x - place] < Power[MantBits - 1]
                        /\ DecodeFloat(q, f) = Fin(neg, k * Power[x - place], place)

\* k * 2^x has no more bits than a value of the format, and its range.
Fits(k, x, f) ==
  /\ k < Power[f.man + 1] /\ x >= 1 - f.bias - f.man
  /\ k > 0 => BitLength(k) - 1 + x <= f.bias

LEMMA ZeroDecoded ==
  ASSUME NEW f, IsLane(f), NEW neg \in BOOLEAN
  PROVE  /\ Zero(neg) \in Patterns(f)
         /\ DecodeFloat(Zero(neg), f) = Fin(neg, 0, 1 - f.bias - f.man)
<1> DEFINE q == Zero(neg)
<1>1. f.bias \in Nat /\ AllOnes(f.exp) = 2 * f.bias + 1 /\ AllOnes(f.man) = Power[f.man] - 1
      /\ Power[f.man] \in Nat /\ Power[f.man] >= 2
  BY LaneIs
<1>2. 0 # AllOnes(f.exp) /\ 0 \in 0..AllOnes(f.exp) /\ 0 \in 0..AllOnes(f.man)
  BY <1>1
<1>3. q.neg = neg /\ q.e = 0 /\ q.m = 0
  BY DEF Zero
<1>4. q \in Patterns(f)
  BY <1>2 DEF Patterns, Zero
<1> HIDE DEF q
<1>5. DecodeFloat(q, f) = Fin(neg, 0, 1 - f.bias - f.man)
  BY <1>2, <1>3 DEF DecodeFloat
<1> QED
  BY <1>4, <1>5 DEF q

\* The mantissas of a lane are far below the width of a decoded one.
LEMMA MantissaFits ==
  ASSUME NEW f, f \in Lanes
  PROVE  /\ f.man + 1 \in Nat /\ Power[f.man + 1] <= Power[MantBits - 1]
         /\ f.man <= F64.man /\ f.exp <= F64.exp /\ f.bias <= F64.bias
<1>1. f.man \in Nat /\ f.exp \in Nat /\ IsLane(f) /\ F64.man \in Nat /\ F64.exp \in Nat
      /\ F32.man \in Nat /\ F32.exp \in Nat /\ IsLane(F64)
  <2>1. IsLane(f) /\ IsLane(F64) /\ IsLane(F32)
    BY LanesAssumption
  <2> QED
    BY <2>1, LaneIs
<1>2. f.man <= F64.man /\ f.exp <= F64.exp
  BY <1>1, LanesAssumption
<1>3. f.man + 1 \in Nat /\ MantBits - 1 \in Nat /\ f.man + 1 <= MantBits - 1
  BY <1>1, <1>2, WideLanes
<1> QED
  BY <1>1, <1>2, <1>3, PowerGrows, BiasGrows

\* A pattern is passed on to a format its value fits.
LEMMA PassesOn ==
  ASSUME NEW g, NEW f, f \in Lanes, IsIeee(f), NEW q, NEW neg \in BOOLEAN,
         NEW k \in Nat, NEW x \in Int, StandsFor(q, g, neg, k, x), Fits(k, x, f)
  PROVE  StandsFor(Rne(DecodeFloat(q, g), f), f, neg, k, x)
<1>1. PICK p \in Int : /\ p <= x /\ k * Power[x - p] < Power[MantBits - 1]
                       /\ DecodeFloat(q, g) = Fin(neg, k * Power[x - p], p)
  BY DEF StandsFor
<1> DEFINE mant == k * Power[x - p]
           r == Encoded(Fin(neg, mant, p), f)
<1>2. Rne(DecodeFloat(q, g), f) = r.value
  BY <1>1 DEF Rne, Encoded
<1>3. f.bias \in Nat /\ f.man \in Nat /\ IsLane(f)
  BY LaneIs DEF IsIeee
<1>4. CASE k > 0
  <2>1. r.value \in Patterns(f)
        /\ \E place \in Int : /\ place <= x
                              /\ k * Power[x - place] < Power[f.man + 1]
                              /\ DecodeFloat(r.value, f) = Fin(neg, k * Power[x - place], place)
    BY <1>1, <1>4, ExactlyEncoded DEF Fits
  <2>2. PICK place \in Int : /\ place <= x
                             /\ k * Power[x - place] < Power[f.man + 1]
                             /\ DecodeFloat(r.value, f) = Fin(neg, k * Power[x - place], place)
    BY <2>1
  <2>3. k * Power[x - place] < Power[MantBits - 1]
    <3> DEFINE d == x - place
               a == Power[d]
               b == Power[f.man + 1]
               c == Power[MantBits - 1]
    <3>1. d \in Nat /\ f.man + 1 \in Nat /\ MantBits - 1 \in Nat
      BY <1>3, <2>2, WideLanes
    <3> HIDE DEF d
    <3>2. a \in Nat /\ b \in Nat /\ c \in Nat
      BY <3>1, PowerIs
    <3>3. b <= c
      BY MantissaFits
    <3>4. k * a < b
      BY <2>2 DEF d
    <3>5. k * a \in Nat
      <4> HIDE DEF a
      <4> QED
        BY <3>2
    <3>6. k * a < c
      <4> HIDE DEF a, b, c
      <4> QED
        BY <3>2, <3>3, <3>4, <3>5
    <3> QED
      BY <3>6 DEF d
  <2> HIDE DEF r
  <2> QED
    BY <1>2, <2>1, <2>2, <2>3 DEF StandsFor
<1>5. CASE k = 0
  <2> DEFINE v == Fin(neg, mant, p)
             place == 1 - f.bias - f.man
             d == x - place
  <2>1. x - p \in Nat
    BY <1>1
  <2>2. mant = 0
    BY <1>5, <2>1, PowerIs
  <2>3. v.class = "fin" /\ v.neg = neg /\ v.mant = 0
    BY <2>2 DEF Fin
  <2> HIDE DEF v
  <2>4. Encoded(v, f) = Value(Zero(neg))
    BY <2>3 DEF Encoded, EncodeFloat, RoundToFloat
  <2>5. r.value = Zero(neg)
    BY <2>4 DEF v, Value
  <2>6. Zero(neg) \in Patterns(f) /\ DecodeFloat(Zero(neg), f) = Fin(neg, 0, place)
    BY <1>3, ZeroDecoded
  <2>7. place \in Int /\ place <= x /\ d \in Nat
    BY <1>3 DEF Fits
  <2> HIDE DEF place
  <2>8. k * Power[x - place] = 0
    <3> HIDE DEF d
    <3>1. Power[d] \in Nat
      BY <2>7, PowerIs
    <3>2. k * Power[d] = 0
      BY <1>5, <3>1
    <3> QED
      BY <3>2 DEF d
  <2>9. 0 < Power[MantBits - 1]
    <3>1. MantBits - 1 \in Nat
      BY WideLanes
    <3> QED
      BY <3>1, PowerIs
  <2> HIDE DEF r, d, mant
  <2> QED
    BY <1>2, <2>5, <2>6, <2>7, <2>8, <2>9 DEF StandsFor
<1> QED
  BY <1>4, <1>5

\* The patterns of a lane are infinities, NaNs or fit every lane as wide.
LEMMA StorageIs ==
  ASSUME NEW s, s \in Lanes, NEW q, q \in Patterns(s), NEW v, v = DecodeFloat(q, s)
  PROVE  \/ v.class = "nan"
         \/ s.nan = "ieee" /\ \E neg \in BOOLEAN : v = Inf(neg)
         \/ \E neg \in BOOLEAN, k \in Nat, x \in Int :
              /\ v = Fin(neg, k, x) /\ k < Power[s.man + 1] /\ x >= 1 - s.bias - s.man
              /\ k > 0 => /\ s.nan = "ieee" => BitLength(k) - 1 + x <= s.bias
                          /\ BitLength(k) - 1 + x <= s.bias + 1
<1>1. /\ s.man \in Nat /\ s.man >= 1 /\ s.bias \in Nat /\ s.bias >= 1
      /\ AllOnes(s.exp) = 2 * s.bias + 1 /\ AllOnes(s.man) = Power[s.man] - 1
      /\ Power[s.man] \in Nat /\ Power[s.man] >= 2 /\ s.nan \in {"ieee", "all_ones"}
  <2>1. IsLane(s)
    BY LanesAssumption
  <2> QED
    BY <2>1, LaneIs DEF IsLane
<1>2. /\ q.neg \in BOOLEAN /\ q.e \in 0..(2 * s.bias + 1) /\ q.m \in 0..(Power[s.man] - 1)
  BY <1>1 DEF Patterns
<1>3. Power[s.man + 1] = 2 * Power[s.man]
  BY <1>1, PowerIs
<1>4. Power[s.man + 1] <= Power[MantBits - 1] /\ Power[MantBits - 1] \in Nat
  <2>1. MantBits - 1 \in Nat
    BY WideLanes
  <2> QED
    BY <2>1, MantissaFits, PowerIs
<1> DEFINE k == IF q.e = 0 THEN q.m ELSE q.m + Power[s.man]
           x == IF q.e = 0 THEN 1 - s.bias - s.man ELSE q.e - s.bias - s.man
           b == BitLength(k)
<1>5. CASE q.e = AllOnes(s.exp) /\ s.nan = "ieee"
  <2>1. v = IF q.m = 0 THEN Inf(q.neg) ELSE Nan(q.neg, q.m, s.man)
    BY <1>5 DEF DecodeFloat
  <2> QED
    BY <1>2, <1>5, <2>1 DEF Nan
<1>6. CASE q.e = AllOnes(s.exp) /\ s.nan = "all_ones" /\ q.m = AllOnes(s.man)
  <2>1. v = Nan(q.neg, q.m, s.man)
    BY <1>6 DEF DecodeFloat
  <2> QED
    BY <2>1 DEF Nan
<1>7. CASE /\ ~(q.e = AllOnes(s.exp) /\ s.nan = "ieee")
           /\ ~(q.e = AllOnes(s.exp) /\ s.nan = "all_ones" /\ q.m = AllOnes(s.man))
  <2>1. v = Fin(q.neg, k, x)
    BY <1>7 DEF DecodeFloat
  <2>2. k \in Nat /\ k < Power[s.man + 1] /\ x \in Int /\ x >= 1 - s.bias - s.man
        /\ (q.e = 0 => k < Power[s.man])
    BY <1>1, <1>2, <1>3
  <2>3. ASSUME k > 0
        PROVE  /\ b \in Nat /\ b <= s.man + 1 /\ (q.e = 0 => b <= s.man)
    <3> HIDE DEF k
    <3>1. b \in Nat /\ b >= 1 /\ k >= Power[b - 1] /\ b - 1 \in Nat
      <4>1. k < Power[MantBits - 1]
        BY <1>1, <1>3, <1>4, <2>2
      <4> QED
        BY <2>2, <2>3, <4>1, BitLengthIs
    <3> HIDE DEF b
    <3>2. Power[b - 1] < Power[s.man + 1] /\ (q.e = 0 => Power[b - 1] < Power[s.man])
      BY <1>1, <1>3, <2>2, <3>1, PowerIs
    <3>3. b - 1 < s.man + 1 /\ (q.e = 0 => b - 1 < s.man)
      <4>1. s.man + 1 \in Nat
        BY <1>1
      <4> QED
        BY <1>1, <3>1, <3>2, <4>1, PowerOrders
    <3> QED
      BY <1>1, <3>1, <3>3
  <2>4. k > 0 => /\ s.nan = "ieee" => b - 1 + x <= s.bias
                 /\ b - 1 + x <= s.bias + 1
    <3> SUFFICES ASSUME k > 0
                 PROVE  /\ s.nan = "ieee" => b - 1 + x <= s.bias
                        /\ b - 1 + x <= s.bias + 1
      OBVIOUS
    <3>1. b \in Nat /\ b <= s.man + 1 /\ (q.e = 0 => b <= s.man)
      BY <2>3
    <3>2. s.nan = "ieee" => q.e <= 2 * s.bias
      BY <1>1, <1>2, <1>7
    <3> HIDE DEF b
    <3> QED
      BY <1>1, <1>2, <3>1, <3>2
  <2> HIDE DEF k, x
  <2> QED
    BY <1>2, <2>1, <2>2, <2>4 DEF b
<1> QED
  BY <1>1, <1>5, <1>6, <1>7

\* A lane no narrower has room for the values.
LEMMA WiderFits ==
  ASSUME NEW s, s \in Lanes, NEW f, f \in Lanes, s.exp <= f.exp, s.man <= f.man,
         s.nan = "ieee" \/ s.exp < f.exp,
         NEW k \in Nat, NEW x \in Int, k < Power[s.man + 1], x >= 1 - s.bias - s.man,
         k > 0 => /\ s.nan = "ieee" => BitLength(k) - 1 + x <= s.bias
                  /\ BitLength(k) - 1 + x <= s.bias + 1
  PROVE  Fits(k, x, f)
<1>1. IsLane(s) /\ IsLane(f)
  BY LanesAssumption
<1>2. s.bias \in Nat /\ f.bias \in Nat /\ s.man \in Nat /\ f.man \in Nat /\ s.bias >= 1
  BY <1>1, LaneIs
<1>3. s.bias <= f.bias /\ (s.nan # "ieee" => 2 * s.bias + 1 <= f.bias)
  BY <1>1, BiasGrows
<1>4. k < Power[f.man + 1]
  <2>1. s.man + 1 \in Nat /\ f.man + 1 \in Nat /\ s.man + 1 <= f.man + 1
    BY <1>2
  <2>2. Power[s.man + 1] <= Power[f.man + 1] /\ Power[s.man + 1] \in Nat /\ Power[f.man + 1] \in Nat
    BY <2>1, PowerGrows, PowerIs
  <2> QED
    BY <2>2
<1>5. x >= 1 - f.bias - f.man
  BY <1>2, <1>3
<1>6. ASSUME k > 0 PROVE BitLength(k) - 1 + x <= f.bias
  <2> DEFINE b == BitLength(k)
  <2>1. b \in Nat
    <3>1. k < Power[MantBits - 1]
      <4>1. s.man + 1 \in Nat /\ MantBits - 1 \in Nat
        BY <1>2, WideLanes
      <4>2. Power[s.man + 1] <= Power[MantBits - 1]
            /\ Power[s.man + 1] \in Nat /\ Power[MantBits - 1] \in Nat
        BY <4>1, MantissaFits, PowerIs
      <4> QED
        BY <4>2
    <3> QED
      BY <1>6, <3>1, BitLengthIs
  <2>2. /\ s.nan = "ieee" => b - 1 + x <= s.bias
        /\ b - 1 + x <= s.bias + 1
    BY <1>6
  <2> HIDE DEF b
  <2>3. b - 1 + x <= f.bias
    BY <1>2, <1>3, <2>1, <2>2
  <2> QED
    BY <2>3 DEF b
<1> QED
  BY <1>4, <1>5, <1>6 DEF Fits

\* Which lane an accumulator no narrower than the storage dtype is.
LEMMA AdmittedIs ==
  ASSUME NEW s, s \in Lanes, NEW a, a \in Lanes, s # a, s.exp <= a.exp, s.man <= a.man
  PROVE  /\ IsIeee(a) /\ ~a.pinned /\ s # F64
         /\ s.nan = "ieee" \/ s.exp < a.exp
         /\ s.exp <= F32.exp /\ s.man <= F32.man /\ (s.nan = "ieee" \/ s.exp < F32.exp)
         /\ s.exp <= F64.exp /\ s.man <= F64.man /\ (s.nan = "ieee" \/ s.exp < F64.exp)
<1>1. IsLane(s) /\ IsLane(a) /\ IsLane(F32) /\ IsLane(F64) /\ F32 \in Lanes /\ F64 \in Lanes
  BY LanesAssumption
<1>2. /\ s.exp \in Nat /\ s.man \in Nat /\ a.exp \in Nat /\ a.man \in Nat
      /\ F32.exp \in Nat /\ F64.exp \in Nat /\ F32.man \in Nat /\ F64.man \in Nat
  BY <1>1, LaneIs
<1>3. ~a.pinned
  <2>1. a.pinned => a.exp < s.exp \/ a.man < s.man
    BY LanesAssumption
  <2> QED
    BY <1>2, <2>1
<1>4. IsIeee(a)
  BY <1>1, <1>3 DEF IsLane, IsIeee
<1>5. s # F64
  <2>1. a # F64 => a.exp <= F32.exp /\ F32.exp < F64.exp
    BY LanesAssumption
  <2> QED
    BY <1>2, <2>1
<1>6. s.exp <= F32.exp /\ s.man <= F32.man /\ s.exp <= F64.exp /\ s.man <= F64.man
  BY <1>2, <1>5, LanesAssumption
<1>7. s.nan # "ieee" => \A g \in Lanes : g # s => s.exp < g.exp
  BY <1>1, LanesAssumption DEF IsLane
<1>8. s.nan # "ieee" => s # F32 /\ s # F64
  BY WideLanes DEF IsIeee
<1> QED
  BY <1>1, <1>3, <1>4, <1>5, <1>6, <1>7, <1>8

LEMMA InfinityPasses ==
  ASSUME NEW f, IsIeee(f), NEW neg \in BOOLEAN
  PROVE  /\ Rne(Inf(neg), f) = Infinity(f, neg)
         /\ DecodeFloat(Infinity(f, neg), f) = Inf(neg)
<1>1. f.nan = "ieee" /\ f.hasInf
  BY DEF IsIeee, IsLane
<1>2. Inf(neg).class = "inf" /\ Inf(neg).neg = neg
  BY DEF Inf
<1>3. EncodeFloat(Inf(neg), f, "nearest_even", "none") = Value(Infinity(f, neg))
  BY <1>1, <1>2 DEF EncodeFloat, EncodeInf
<1>4. Rne(Inf(neg), f) = Infinity(f, neg)
  BY <1>3 DEF Rne, Value
<1>5. DecodeFloat(Infinity(f, neg), f) = Inf(neg)
  BY <1>1 DEF DecodeFloat, Infinity
<1> QED
  BY <1>4, <1>5

\* A finer grid has the same value.
LEMMA StandsForEquals ==
  ASSUME NEW q, NEW f, NEW neg \in BOOLEAN, NEW k \in Nat, NEW x \in Int,
         StandsFor(q, f, neg, k, x)
  PROVE  Equals(DecodeFloat(q, f), Fin(neg, k, x))
<1>1. PICK p \in Int : p <= x /\ DecodeFloat(q, f) = Fin(neg, k * Power[x - p], p)
  BY DEF StandsFor
<1> DEFINE v == DecodeFloat(q, f)
           w == Fin(neg, k, x)
           m == k * Power[x - p]
<1>2. x - p \in Nat /\ Power[x - p] \in Nat /\ m \in Nat
  <2>1. x - p \in Nat
    BY <1>1
  <2>2. Power[x - p] \in Nat
    BY <2>1, PowerIs
  <2> QED
    BY <2>1, <2>2
<1>3. /\ v.class = "fin" /\ v.neg = neg /\ v.mant = m /\ v.exp = p
      /\ w.class = "fin" /\ w.neg = neg /\ w.mant = k /\ w.exp = x
  BY <1>1 DEF Fin
<1> HIDE DEF v, w, m
<1>4. Aligned(v, p) = IF neg THEN -m ELSE m
  <2>1. p - p = 0 /\ Power[0] = 1
    BY PowerRuns
  <2>2. Aligned(v, p) = (IF neg THEN -m ELSE m) * Power[p - p]
    BY <1>3 DEF Aligned
  <2> QED
    BY <1>2, <2>1, <2>2
<1>5. Aligned(w, p) = IF neg THEN -m ELSE m
  <2>1. Aligned(w, p) = (IF neg THEN -k ELSE k) * Power[x - p]
    BY <1>3 DEF Aligned
  <2>2. (-k) * Power[x - p] = -(k * Power[x - p])
    BY <1>2
  <2> QED
    BY <2>1, <2>2 DEF m
<1>6. ~Below(v, w)
  <2>1. Below(v, w) <=> Aligned(v, IF v.exp < w.exp THEN v.exp ELSE w.exp)
                          < Aligned(w, IF v.exp < w.exp THEN v.exp ELSE w.exp)
    BY DEF Below
  <2>2. (IF v.exp < w.exp THEN v.exp ELSE w.exp) = p
    BY <1>1, <1>3
  <2> QED
    BY <1>2, <1>4, <1>5, <2>1, <2>2
<1>7. ~Below(w, v)
  <2>1. Below(w, v) <=> Aligned(w, IF w.exp < v.exp THEN w.exp ELSE v.exp)
                          < Aligned(v, IF w.exp < v.exp THEN w.exp ELSE v.exp)
    BY DEF Below
  <2>2. (IF w.exp < v.exp THEN w.exp ELSE v.exp) = p
    BY <1>1, <1>3
  <2> QED
    BY <1>2, <1>4, <1>5, <2>1, <2>2
<1> QED
  BY <1>3, <1>6, <1>7 DEF Equals, v, w

\* The way of a pattern through f64, and f32 where the accumulator is narrower still.
LEMMA WidenSteps ==
  ASSUME NEW q, NEW s, NEW a,
         NEW q64, q64 = Rne(DecodeFloat(q, s), F64),
         NEW q32, q32 = Rne(DecodeFloat(q64, F64), F32)
  PROVE  Widen(q, s, a) = IF a = F64 THEN q64 ELSE IF a = F32 THEN q32 ELSE FromF32(q32, a)
<1>1. F32 # F64
  BY WideLanes
<1>2. AsF64(q, s) = q64 /\ AsF32(q64) = q32
  BY DEF AsF64, AsF32
<1> QED
  BY <1>1, <1>2 DEF Widen, FromF64

LEMMA WidenIs ==
  ASSUME NEW q, NEW s, NEW a, ~a.pinned
  PROVE  LET q64 == Rne(DecodeFloat(q, s), F64)
             q32 == Rne(DecodeFloat(q64, F64), F32)
         IN  Widen(q, s, a) = IF a = F64 THEN q64 ELSE IF a = F32 THEN q32
                              ELSE Rne(DecodeFloat(q32, F32), a)
<1> DEFINE q64 == Rne(DecodeFloat(q, s), F64)
           q32 == Rne(DecodeFloat(q64, F64), F32)
<1>1. FromF32(q32, a) = Rne(DecodeFloat(q32, F32), a)
  BY DEF FromF32
<1>2. q64 = Rne(DecodeFloat(q, s), F64) /\ q32 = Rne(DecodeFloat(q64, F64), F32)
  OBVIOUS
<1> HIDE DEF q64, q32
<1>3. Widen(q, s, a) = IF a = F64 THEN q64 ELSE IF a = F32 THEN q32 ELSE FromF32(q32, a)
  BY <1>2, WidenSteps
<1> QED
  BY <1>1, <1>3 DEF q64, q32

\* A dtype that is narrower in neither field holds every value of the storage dtype.
LEMMA AdmittedHolds ==
  ASSUME NEW s, s \in Lanes, NEW a, a \in Lanes, s # a, s.exp <= a.exp, s.man <= a.man
  PROVE  Holds[<<s, a>>]
<1>1. /\ IsIeee(a) /\ ~a.pinned
      /\ s.nan = "ieee" \/ s.exp < a.exp
      /\ s.exp <= F32.exp /\ s.man <= F32.man /\ (s.nan = "ieee" \/ s.exp < F32.exp)
      /\ s.exp <= F64.exp /\ s.man <= F64.man /\ (s.nan = "ieee" \/ s.exp < F64.exp)
  BY AdmittedIs
<1>2. F32 \in Lanes /\ F64 \in Lanes /\ IsIeee(F32) /\ IsIeee(F64)
  BY LanesAssumption, WideLanes
<1>3. ASSUME NEW q \in Patterns(s)
      PROVE  LET v == DecodeFloat(q, s)
             IN  v.class = "nan" \/ Equals(DecodeFloat(Widen(q, s, a), a), v)
  <2> DEFINE v == DecodeFloat(q, s)
             q64 == Rne(v, F64)
             q32 == Rne(DecodeFloat(q64, F64), F32)
             qa == Rne(DecodeFloat(q32, F32), a)
  <2>1. q \in Patterns(s)
    BY DEF Patterns
  <2>2. Widen(q, s, a) = IF a = F64 THEN q64 ELSE IF a = F32 THEN q32 ELSE qa
    BY <1>1, WidenIs
  <2>3. ASSUME s.nan = "ieee", NEW neg \in BOOLEAN, v = Inf(neg)
        PROVE  Equals(DecodeFloat(Widen(q, s, a), a), v)
    <3>1. DecodeFloat(q64, F64) = Inf(neg)
      BY <1>2, <2>3, InfinityPasses
    <3>2. DecodeFloat(q32, F32) = Inf(neg)
      <4> HIDE DEF q64
      <4> QED
        BY <1>2, <3>1, InfinityPasses
    <3>3. DecodeFloat(qa, a) = Inf(neg)
      <4> HIDE DEF q32
      <4> QED
        BY <1>1, <3>2, InfinityPasses
    <3> HIDE DEF q64, q32, qa, v
    <3>4. DecodeFloat(Widen(q, s, a), a) = v
      BY <2>2, <2>3, <3>1, <3>2, <3>3
    <3>5. v.class = "inf"
      BY <2>3 DEF Inf
    <3> QED
      BY <3>4, <3>5 DEF Equals
  <2>4. ASSUME NEW neg \in BOOLEAN, NEW k \in Nat, NEW x \in Int,
               v = Fin(neg, k, x), k < Power[s.man + 1], x >= 1 - s.bias - s.man,
               k > 0 => /\ s.nan = "ieee" => BitLength(k) - 1 + x <= s.bias
                        /\ BitLength(k) - 1 + x <= s.bias + 1
        PROVE  Equals(DecodeFloat(Widen(q, s, a), a), v)
    <3>1. Fits(k, x, F64) /\ Fits(k, x, F32) /\ Fits(k, x, a)
      BY <1>1, <1>2, <2>4, WiderFits
    <3>2. StandsFor(q, s, neg, k, x)
      <4>1. x - x = 0 /\ k * 1 = k /\ Power[0] = 1
        BY PowerRuns
      <4>2. k < Power[MantBits - 1]
        <5>1. s.man \in Nat
          <6>1. IsLane(s)
            BY LanesAssumption
          <6> QED
            BY <6>1, LaneIs
        <5>2. s.man + 1 \in Nat /\ MantBits - 1 \in Nat
          BY <5>1, WideLanes
        <5>3. Power[s.man + 1] <= Power[MantBits - 1]
              /\ Power[s.man + 1] \in Nat /\ Power[MantBits - 1] \in Nat
          BY <5>2, MantissaFits, PowerIs
        <5> QED
          BY <2>4, <5>3
      <4>3. k * Power[x - x] = k
        BY <4>1
      <4> QED
        BY <2>1, <2>4, <4>2, <4>3 DEF StandsFor
    <3>3. StandsFor(q64, F64, neg, k, x)
      BY <1>2, <3>1, <3>2, PassesOn
    <3>4. StandsFor(q32, F32, neg, k, x)
      <4> HIDE DEF q64
      <4> QED
        BY <1>2, <3>1, <3>3, PassesOn
    <3>5. StandsFor(qa, a, neg, k, x)
      <4> HIDE DEF q32
      <4> QED
        BY <1>1, <3>1, <3>4, PassesOn
    <3> HIDE DEF q64, q32, qa, v
    <3>6. StandsFor(Widen(q, s, a), a, neg, k, x)
      BY <2>2, <3>3, <3>4, <3>5
    <3> QED
      BY <2>4, <3>6, StandsForEquals
  <2>5. \/ v.class = "nan"
        \/ s.nan = "ieee" /\ \E neg \in BOOLEAN : v = Inf(neg)
        \/ \E neg \in BOOLEAN, k \in Nat, x \in Int :
             /\ v = Fin(neg, k, x) /\ k < Power[s.man + 1] /\ x >= 1 - s.bias - s.man
             /\ k > 0 => /\ s.nan = "ieee" => BitLength(k) - 1 + x <= s.bias
                         /\ BitLength(k) - 1 + x <= s.bias + 1
    BY <2>1, StorageIs
  <2> HIDE DEF v, q64, q32, qa
  <2>6. v.class = "nan" \/ Equals(DecodeFloat(Widen(q, s, a), a), v)
    BY <2>3, <2>4, <2>5
  <2> QED
    BY <2>6 DEF v
<1>4. <<s, a>> \in Lanes \X Lanes /\ <<s, a>>[1] = s /\ <<s, a>>[2] = a
  OBVIOUS
<1> QED
  BY <1>3, <1>4 DEF Holds

-----------------------------------------------------------------------------
\* A power of two and a rest below it.

\* The significand 2^n + r in a format of `bits` bits: it fits, is cut at zeros or is
\* rounded down to the power.
Rounds(n, r, bits, t) ==
  /\ t \in 0..(Power[bits] - 1)
  /\ n <= bits => t = r * Power[bits - n]
  /\ n > bits => (2 * r <= Power[n - bits] /\ t = 0) \/ r = t * Power[n - bits]

LEMMA LeadingUnits ==
  ASSUME NEW neg \in BOOLEAN, NEW n \in Nat, n < MantBits - 1, NEW r \in Nat, r < Power[n],
         NEW bits \in Nat, bits >= 1, NEW t \in Nat, Rounds(n, r, bits, t), NEW exp \in Int,
         NEW place \in Int, place = n + exp - bits, NEW mant \in Nat, mant = Power[n] + r
  PROVE  Units(mant, exp, place, neg) = Power[bits] + t
<1>1. Power[n] \in Nat /\ Power[n] >= 1 /\ mant \in Nat /\ r \in Nat /\ t \in Nat
      /\ Power[bits] \in Nat
  BY PowerIs DEF Rounds
<1>2. CASE n <= bits
  <2> DEFINE d == bits - n
  <2>1. d \in Nat /\ exp - place = d /\ place <= exp /\ n + d = bits
    BY <1>2
  <2> HIDE DEF d
  <2>2. Power[d] \in Nat /\ Power[bits] = Power[n] * Power[d]
    <3>1. Power[n + d] = Power[n] * Power[d]
      BY <2>1, PowerAdds
    <3> QED
      BY <2>1, <3>1, PowerIs
  <2>3. t = r * Power[d]
    BY <1>2 DEF Rounds, d
  <2>4. (Power[n] + r) * Power[d] = Power[n] * Power[d] + r * Power[d]
    BY <1>1, <2>2
  <2>5. Units(mant, exp, place, neg) = mant * Power[d]
    BY <2>1 DEF Units
  <2> QED
    BY <2>2, <2>3, <2>4, <2>5
<1>3. CASE n > bits
  <2> DEFINE d == n - bits
             unit == Power[d]
             top == Power[bits]
  <2>1. d \in Nat /\ d >= 1 /\ place - exp = d /\ ~(place <= exp) /\ bits + d = n
    BY <1>3
  <2>2. ~(d >= MantBits)
    <3>1. MantBits \in Nat
      BY WideLanes
    <3> QED
      BY <3>1
  <2> HIDE DEF d
  <2>3. unit \in Nat /\ unit >= 1 /\ Power[n] = top * unit
    <3>1. Power[bits + d] = Power[bits] * Power[d]
      BY <2>1, PowerAdds
    <3> QED
      BY <2>1, <3>1, PowerIs
  <2>4. Units(mant, exp, place, neg) = RoundUnit(mant, unit, neg, "nearest_even")
    <3> HIDE DEF unit
    <3>1. Units(mant, exp, place, neg) = RoundShift(mant, d, neg, "nearest_even")
      BY <2>1 DEF Units
    <3> QED
      BY <2>2, <3>1 DEF RoundShift, unit
  <2>5. (2 * r <= unit /\ t = 0) \/ r = t * unit
    BY <1>3 DEF Rounds, d
  <2> HIDE DEF unit
  <2>6. CASE r = t * unit
    <3>1. mant = (top + t) * unit
      <4>1. (top + t) * unit = top * unit + t * unit
        BY <1>1, <2>3
      <4> QED
        BY <2>3, <2>6, <4>1
    <3> DEFINE w == top + t
    <3>2. w \in Nat
      BY <1>1
    <3> HIDE DEF w
    <3>3. RoundUnit(w * unit, unit, neg, "nearest_even") = w
      BY <2>3, <3>2, MultiplesAreKept
    <3>4. mant = w * unit
      BY <3>1 DEF w
    <3> QED
      BY <2>4, <3>3, <3>4 DEF w
  <2>7. CASE 2 * r <= unit /\ t = 0
    <3>1. unit >= 2
      BY <2>1, PowerRuns, PowerGrows, PowerIs DEF unit
    <3>2. top % 2 = 0
      <4>1. bits - 1 \in Nat /\ (bits - 1) + 1 = bits
        OBVIOUS
      <4>2. top = 2 * Power[bits - 1] /\ Power[bits - 1] \in Nat
        BY <4>1, PowerIs
      <4> QED
        BY <4>2
    <3> HIDE DEF top
    <3>3. top \in Nat
      BY <1>1 DEF top
    <3>4. r \in 0..(unit - 1) /\ mant = top * unit + r /\ mant \in Int
      BY <1>1, <2>3, <2>7, <3>1, <3>3
    <3>5. mant % unit = r /\ mant \div unit = top
      BY <2>3, <3>3, <3>4, DivisionIs
    <3>6. ~Bumps(top, Rest(r, unit), neg, "nearest_even")
      BY <1>1, <2>3, <2>7, <3>2 DEF Bumps, Rest
    <3>7. RoundUnit(mant, unit, neg, "nearest_even") = top
      BY <3>5, <3>6 DEF RoundUnit, Bumped
    <3>8. top + t = top
      BY <2>7, <3>3
    <3> QED
      BY <2>4, <3>7, <3>8 DEF top
  <2> QED
    BY <2>5, <2>6, <2>7
<1> QED
  BY <1>2, <1>3

\* The pattern of the positive value 2^lead * (1 + m / 2^man).
Leading(f, lead, m) == [neg |-> FALSE, e |-> lead + f.bias, m |-> m]

LEMMA LeadingDecoded ==
  ASSUME NEW f, IsLane(f), NEW lead \in Int, lead >= 1 - f.bias, lead <= f.bias,
         NEW m \in 0..(Power[f.man] - 1)
  PROVE  /\ Leading(f, lead, m) \in Patterns(f)
         /\ DecodeFloat(Leading(f, lead, m), f) = Fin(FALSE, Power[f.man] + m, lead - f.man)
<1> DEFINE q == Leading(f, lead, m)
           e == lead + f.bias
<1>1. /\ f.bias \in Nat /\ f.man \in Nat /\ AllOnes(f.exp) = 2 * f.bias + 1
      /\ AllOnes(f.man) = Power[f.man] - 1 /\ Power[f.man] \in Nat
  BY LaneIs
<1>2. q.neg = FALSE /\ q.e = e /\ q.m = m
  BY DEF Leading
<1>3. e \in 0..AllOnes(f.exp) /\ m \in 0..AllOnes(f.man) /\ e # AllOnes(f.exp) /\ e # 0
      /\ e - f.bias = lead /\ m + Power[f.man] = Power[f.man] + m
  BY <1>1
<1>4. q \in Patterns(f)
  BY <1>3 DEF Patterns, Leading
<1> HIDE DEF q, e
<1>5. DecodeFloat(q, f) = Fin(FALSE, m + Power[f.man], e - f.bias - f.man)
  BY <1>2, <1>3 DEF DecodeFloat
<1> QED
  BY <1>3, <1>4, <1>5 DEF q

\* From one lane to another: the value is rounded, or past the largest.
LEMMA LeadingPasses ==
  ASSUME NEW g, g \in Lanes, NEW f, f \in Lanes, IsIeee(f),
         NEW lead \in Int, lead >= 1 - g.bias, lead <= g.bias, lead >= 1 - f.bias,
         NEW r \in 0..(Power[g.man] - 1), NEW t, Rounds(g.man, r, f.man, t)
  PROVE  Rne(DecodeFloat(Leading(g, lead, r), g), f) =
           IF lead <= f.bias THEN Leading(f, lead, t) ELSE Infinity(f, FALSE)
<1> DEFINE n == g.man
           exp == lead - n
           mant == Power[n] + r
           place == n + exp - f.man
           u == Power[f.man] + t
<1>1. IsLane(g) /\ IsLane(f) /\ g.man \in Nat /\ f.man \in Nat /\ f.man >= 1
      /\ f.bias \in Nat /\ f.bias >= 1 /\ g.bias \in Nat
  BY LanesAssumption, LaneIs
<1>2. DecodeFloat(Leading(g, lead, r), g) = Fin(FALSE, mant, exp)
  BY <1>1, LeadingDecoded
<1>3. n < MantBits - 1 /\ n + 1 <= MantBits - 1 /\ n + 1 \in Nat /\ MantBits - 1 \in Nat
  <2>1. g.man <= F64.man /\ F64.man + 1 < MantBits /\ MantBits \in Nat /\ F64.man \in Nat
    BY MantissaFits, WideLanes, LaneIs DEF IsIeee
  <2> QED
    BY <1>1, <2>1
<1>4. Power[n] \in Nat /\ Power[n] >= 1 /\ Power[n + 1] = 2 * Power[n]
  BY <1>1, PowerIs
<1>5. mant \in Nat /\ mant > 0 /\ mant >= Power[n] /\ mant < Power[n + 1]
  BY <1>4
<1>6. BitLength(mant) = n + 1
  <2>1. Power[n + 1] <= Power[MantBits - 1] /\ Power[n + 1] \in Nat /\ Power[MantBits - 1] \in Nat
    BY <1>3, PowerGrows, PowerIs
  <2>2. mant < Power[MantBits - 1] /\ (n + 1) - 1 = n /\ n + 1 >= 1
    BY <1>1, <1>4, <1>5, <2>1
  <2> HIDE DEF mant, n
  <2> QED
    BY <1>3, <1>5, <2>2, BitLengthTells
<1>7. exp \in Int /\ place \in Int /\ n + exp = lead /\ place = lead - f.man
  BY <1>1
<1>8. LastPlace(mant, exp, f) = place
  <2> HIDE DEF mant
  <2>1. BitLength(mant) - 1 + exp = lead
    BY <1>1, <1>6
  <2> QED
    BY <1>1, <1>7, <2>1 DEF LastPlace
<1> PICK no \in BOOLEAN : no = FALSE
  OBVIOUS
<1>9. Units(mant, exp, place, no) = u
  <2> HIDE DEF exp
  <2>1. exp \in Int /\ n < MantBits - 1 /\ place = n + exp - f.man /\ mant = Power[n] + r
    BY <1>3, <1>7
  <2>2. r \in Nat /\ r < Power[n] /\ t \in Nat /\ mant \in Nat /\ place \in Int
    BY <1>4, <1>5, <1>7 DEF Rounds
  <2> DEFINE bits == f.man
  <2>3. n \in Nat /\ bits \in Nat /\ bits >= 1 /\ Rounds(n, r, bits, t)
        /\ place = n + exp - bits
    BY <1>1, <2>1
  <2> HIDE DEF mant, place, n, bits
  <2>4. Units(mant, exp, place, no) = Power[bits] + t
    BY <2>1, <2>2, <2>3, LeadingUnits
  <2> QED
    BY <2>4 DEF bits
<1>10. t \in 0..(Power[f.man] - 1) /\ Power[f.man] \in Nat /\ Power[f.man] >= 1
       /\ Power[f.man + 1] = 2 * Power[f.man]
  BY <1>1, PowerIs DEF Rounds
<1>11. u \in Nat /\ u > 0 /\ u < Power[f.man + 1] /\ u >= Power[f.man] /\ ~(u < Power[f.man])
       /\ u - Power[f.man] = t
  BY <1>10
<1> HIDE DEF mant, exp, place, u
<1>12. Encoded(Fin(FALSE, mant, exp), f) = Carry(FALSE, u, place, f, "nearest_even", "none")
  <2>1. place = LastPlace(mant, exp, f) /\ u = Units(mant, exp, place, no)
    BY <1>8, <1>9
  <2>2. Encoded(Fin(no, mant, exp), f) = Carry(no, u, place, f, "nearest_even", "none")
    BY <1>5, <1>7, <2>1, EncodedIs
  <2> QED
    BY <2>2
<1>13. Rne(DecodeFloat(Leading(g, lead, r), g), f)
         = Carry(FALSE, u, place, f, "nearest_even", "none").value
  BY <1>2, <1>12 DEF Rne, Encoded
<1>14. CASE lead <= f.bias
  <2> DEFINE q == [neg |-> FALSE, e |-> IF u < Power[f.man] THEN 0 ELSE place + f.man + f.bias,
                   m |-> IF u < Power[f.man] THEN u ELSE u - Power[f.man]]
  <2>1. place >= 1 - f.bias - f.man /\ place + f.man <= f.bias /\ place + f.man + f.bias = lead + f.bias
    BY <1>1, <1>7, <1>14
  <2>2. Carry(FALSE, u, place, f, "nearest_even", "none") = Value(q)
    BY <1>7, <1>11, <2>1, Packed
  <2>3. q = Leading(f, lead, t)
    BY <1>11, <2>1 DEF Leading
  <2> HIDE DEF q
  <2> QED
    <3>1. Value(Leading(f, lead, t)).value = Leading(f, lead, t)
      BY DEF Value
    <3> QED
      BY <1>13, <1>14, <2>2, <2>3, <3>1
<1>15. CASE ~(lead <= f.bias)
  <2>1. place + f.man > f.bias
    BY <1>1, <1>7, <1>15
  <2>2. Carry(FALSE, u, place, f, "nearest_even", "none") = Value(Infinity(f, FALSE))
    BY <1>7, <1>11, <2>1, Overflown
  <2> QED
    <3>1. Value(Infinity(f, FALSE)).value = Infinity(f, FALSE)
      BY DEF Value
    <3> QED
      BY <1>13, <1>15, <2>2, <3>1
<1> QED
  BY <1>14, <1>15

-----------------------------------------------------------------------------
\* Below what the accumulator has room for.

\* Fewer bits and a smaller exponent: a smaller value.
LEMMA BelowPower ==
  ASSUME NEW k \in Nat, NEW m \in Nat, m < Power[k], NEW x \in Int,
         NEW n \in Nat, NEW j \in Nat, j >= Power[n], NEW y \in Int, k + x <= n + y
  PROVE  ~Equals(Fin(FALSE, m, x), Fin(FALSE, j, y))
<1> DEFINE v == Fin(FALSE, m, x)
           w == Fin(FALSE, j, y)
<1>1. /\ v.class = "fin" /\ v.neg = FALSE /\ v.mant = m /\ v.exp = x
      /\ w.class = "fin" /\ w.neg = FALSE /\ w.mant = j /\ w.exp = y
  BY DEF Fin
<1> HIDE DEF v, w
<1>2. Power[k] \in Nat /\ Power[n] \in Nat /\ Power[0] = 1
  BY PowerIs, PowerRuns
<1>3. Below(v, w)
  <2>1. CASE x <= y
    <3> DEFINE d == y - x
               p == Power[d]
    <3>1. d \in Nat /\ k <= n + d /\ n + d \in Nat /\ x - x = 0
      BY <2>1
    <3>2. Aligned(v, x) = m * Power[x - x] /\ Aligned(w, x) = j * p
      BY <1>1 DEF Aligned
    <3> HIDE DEF d
    <3>3. Power[n + d] = Power[n] * p /\ p \in Nat /\ p >= 1
      BY <3>1, PowerAdds, PowerIs
    <3>4. Power[k] <= Power[n + d] /\ Power[n + d] \in Nat
      BY <3>1, PowerGrows, PowerIs
    <3> HIDE DEF p
    <3>5. Power[n] * p <= j * p
      <4> DEFINE top == Power[n]
      <4> HIDE DEF top
      <4>1. top \in Nat /\ j >= top
        BY <1>2 DEF top
      <4>2. (j - top) * p >= 0 /\ (j - top) * p = j * p - top * p
        BY <3>3, <4>1
      <4>3. j * p \in Int /\ top * p \in Int
        BY <3>3, <4>1
      <4> QED
        BY <4>2, <4>3 DEF top
    <3>6. Aligned(v, x) = m
      BY <1>2, <3>1, <3>2
    <3> DEFINE jp == j * p
    <3>7. jp \in Int /\ Aligned(w, x) = jp /\ Power[n + d] <= jp
      BY <3>2, <3>3, <3>5
    <3> HIDE DEF jp
    <3>8. Aligned(v, x) < Aligned(w, x)
      BY <1>2, <3>4, <3>6, <3>7
    <3>9. (IF v.exp < w.exp THEN v.exp ELSE w.exp) = x
      BY <1>1, <2>1
    <3> QED
      BY <3>8, <3>9 DEF Below
  <2>2. CASE y < x
    <3> DEFINE d == x - y
               p == Power[d]
    <3>1. d \in Nat /\ k + d <= n /\ k + d \in Nat /\ y - y = 0
      BY <2>2
    <3>2. Aligned(v, y) = m * p /\ Aligned(w, y) = j * Power[y - y]
      BY <1>1 DEF Aligned
    <3> HIDE DEF d
    <3>3. Power[k + d] = Power[k] * p /\ p \in Nat /\ p >= 1
      BY <3>1, PowerAdds, PowerIs
    <3>4. Power[k + d] <= Power[n] /\ Power[k + d] \in Nat
      BY <3>1, PowerGrows, PowerIs
    <3> HIDE DEF p
    <3>5. m * p < Power[k] * p /\ m * p \in Int
      <4> DEFINE top == Power[k]
      <4> HIDE DEF top
      <4>1. top \in Nat /\ top - m >= 1 /\ top - m \in Int
        BY <1>2 DEF top
      <4>2. (top - m) * p >= 1 /\ (top - m) * p = top * p - m * p
        BY <3>3, <4>1
      <4>3. m * p \in Int /\ top * p \in Int
        BY <3>3, <4>1
      <4> QED
        BY <4>2, <4>3 DEF top
    <3>6. Aligned(w, y) = j
      BY <1>2, <3>1, <3>2
    <3> DEFINE mp == m * p
    <3>7. mp \in Int /\ Aligned(v, y) = mp /\ mp < Power[k + d]
      BY <3>2, <3>3, <3>5
    <3> HIDE DEF mp
    <3>8. Aligned(v, y) < Aligned(w, y)
      BY <1>2, <3>4, <3>6, <3>7
    <3>9. (IF v.exp < w.exp THEN v.exp ELSE w.exp) = y
      BY <1>1, <2>2
    <3> QED
      BY <3>8, <3>9 DEF Below
  <2> QED
    BY <2>1, <2>2
<1>4. ~Equals(v, w)
  BY <1>1, <1>3 DEF Equals
<1> QED
  BY <1>4 DEF v, w

\* The largest finite value is below the power after the exponents.
LEMMA LargestDecoded ==
  ASSUME NEW f, IsLane(f)
  PROVE  \E m \in Nat, x \in Int :
           /\ DecodeFloat(MaxFinite(f, FALSE), f) = Fin(FALSE, m, x)
           /\ m < Power[f.man + 1] /\ f.man + 1 + x <= f.bias + 2
<1> DEFINE q == MaxFinite(f, FALSE)
           e == MaxFiniteExp(f)
           m == MaxFiniteMan(f)
<1>1. /\ f.bias \in Nat /\ f.bias >= 1 /\ f.man \in Nat /\ AllOnes(f.exp) = 2 * f.bias + 1
      /\ AllOnes(f.man) = Power[f.man] - 1 /\ Power[f.man] \in Nat /\ Power[f.man] >= 2
      /\ f.nan = "ieee" => e = 2 * f.bias /\ m = Power[f.man] - 1
      /\ f.nan # "ieee" => e = 2 * f.bias + 1 /\ m = Power[f.man] - 2
  BY LaneIs
<1>2. Power[f.man + 1] = 2 * Power[f.man]
  BY <1>1, PowerIs
<1>3. q.neg = FALSE /\ q.e = e /\ q.m = m
  BY DEF MaxFinite
<1> HIDE DEF q, e, m
<1>4. e # 0 /\ (f.nan = "ieee" => e # AllOnes(f.exp)) /\ (f.nan # "ieee" => m # AllOnes(f.man))
  BY <1>1
<1>5. DecodeFloat(q, f) = Fin(FALSE, m + Power[f.man], e - f.bias - f.man)
  BY <1>3, <1>4 DEF DecodeFloat
<1>6. /\ m + Power[f.man] \in Nat /\ e - f.bias - f.man \in Int
      /\ m + Power[f.man] < Power[f.man + 1] /\ f.man + 1 + (e - f.bias - f.man) <= f.bias + 2
  BY <1>1, <1>2
<1> QED
  BY <1>5, <1>6 DEF q

\* The hand-written codec saturates past the largest exponent.
LEMMA Saturates ==
  ASSUME NEW f, IsLane(f), NEW lead \in Int, lead >= 0, lead <= F32.bias,
         lead > f.bias + 1, NEW r \in 0..(Power[F32.man] - 1)
  PROVE  FromFloat(Leading(F32, lead, r), F32, f) = MaxFinite(f, FALSE)
<1> DEFINE q == Leading(F32, lead, r)
           te == lead + f.bias
<1>1. /\ F32.bias \in Nat /\ F32.bias >= 1 /\ F32.man \in Nat /\ AllOnes(F32.exp) = 2 * F32.bias + 1
      /\ Power[F32.man] \in Nat /\ Power[F32.man] >= 2 /\ f.bias \in Nat
      /\ MaxFiniteExp(f) \in Int /\ MaxFiniteExp(f) <= 2 * f.bias + 1
  BY WideLanes, LaneIs DEF IsIeee
<1>2. q.neg = FALSE /\ q.e = lead + F32.bias /\ q.m = r
  BY DEF Leading
<1> HIDE DEF q
<1>3. q.e # AllOnes(F32.exp) /\ q.e # 0 /\ q.m + Power[F32.man] # 0
  BY <1>1, <1>2
<1>4. te = (q.e - F32.bias) + f.bias /\ te \in Int /\ ~(te <= 0) /\ te > MaxFiniteExp(f)
      /\ te + 1 > MaxFiniteExp(f)
  BY <1>1, <1>2
<1> HIDE DEF te
<1>5. RoundMag(q, F32, f) = MaxFinite(f, q.neg)
  BY <1>3, <1>4 DEF RoundMag
<1> QED
  BY <1>2, <1>3, <1>5 DEF FromFloat, q

\* A power of two and at most half of what is cut: the power is kept.
LEMMA PowerKept ==
  ASSUME NEW n \in Nat, n >= 1, NEW d \in Nat, d >= 1, NEW r \in Nat, 2 * r <= Power[d]
  PROVE  Kept(r + Power[n + d], d) = Power[n]
<1> DEFINE top == Power[n]
           half == Power[d - 1]
           unit == 2 * half
           sig == r + Power[n + d]
<1>1. /\ d - 1 \in Nat /\ half \in Nat /\ half >= 1 /\ top \in Nat /\ top >= 2 /\ top % 2 = 0
      /\ Power[d] = unit /\ Power[n + d] = top * unit
  <2>1. d - 1 \in Nat /\ n - 1 \in Nat /\ (d - 1) + 1 = d /\ (n - 1) + 1 = n
    OBVIOUS
  <2>2. Power[d] = 2 * Power[d - 1] /\ Power[d - 1] \in Nat /\ Power[d - 1] >= 1
    BY <2>1, PowerIs
  <2>3. Power[n] = 2 * Power[n - 1] /\ Power[n - 1] \in Nat /\ Power[n - 1] >= 1
    BY <2>1, PowerIs
  <2>4. Power[n + d] = Power[n] * Power[d]
    BY PowerAdds
  <2>5. top \in Nat /\ top >= 2 /\ top % 2 = 0
    BY <2>3
  <2> QED
    BY <2>1, <2>2, <2>4, <2>5
<1>2. sig = top * unit + r /\ r <= half
  BY <1>1
<1> HIDE DEF top, half, sig
<1>3. top * unit = (2 * top) * half /\ unit \in Nat /\ unit > 0 /\ r < unit
      /\ top * unit \in Int /\ (2 * top) * half \in Int
  BY <1>1, <1>2
<1>4. sig \div unit = top
  <2> HIDE DEF unit
  <2>1. r \in 0..(unit - 1) /\ sig \in Int
    BY <1>2, <1>3
  <2> QED
    BY <1>1, <1>2, <1>3, <2>1, DivisionIs
<1>5. (sig \div half) % 2 = 1 => sig % half = 0
  <2> DEFINE even == 2 * top
  <2>1. even \in Int /\ even % 2 = 0 /\ (even + 1) % 2 = 1
    BY <1>1
  <2>2. sig \in Int /\ sig = even * half + r
    BY <1>2, <1>3
  <2>3. ASSUME r = half PROVE sig % half = 0
    <3> DEFINE odd == even + 1
    <3>1. even * half + half = (even + 1) * half
      BY <1>1
    <3>2. odd \in Int /\ sig = odd * half
      BY <1>1, <2>1, <2>2, <2>3, <3>1
    <3> HIDE DEF odd, even
    <3>3. sig \in Int /\ half \in Nat /\ half > 0 /\ sig = odd * half + 0 /\ 0 \in 0..(half - 1)
      BY <1>1, <2>2, <3>2
    <3> QED
      BY <3>2, <3>3, DivisionIs
  <2>4. ASSUME r < half PROVE (sig \div half) % 2 # 1
    <3>1. r \in 0..(half - 1)
      BY <1>1, <2>4
    <3> HIDE DEF even
    <3>2. sig \div half = even
      BY <1>1, <2>1, <2>2, <3>1, DivisionIs
    <3> QED
      BY <2>1, <3>2
  <2>5. r = half \/ r < half
    BY <1>1, <1>2
  <2> QED
    BY <2>3, <2>4, <2>5, Zenon
<1>6. Kept(sig, d) = top
  <2>1. top % 2 # 1 /\ sig \div (2 * half) = top
    BY <1>1, <1>4
  <2> QED
    BY <1>5, <2>1 DEF Kept, half
<1> QED
  BY <1>6 DEF sig, top

\* The hand-written codec rounds it to one.
LEMMA KeptAtOne ==
  ASSUME NEW f, IsLane(f), f.man < F32.man, NEW r \in Nat, 2 * r <= Power[F32.man - f.man],
         r < Power[F32.man]
  PROVE  FromFloat(Leading(F32, 0, r), F32, f) = Leading(f, 0, 0)
<1> DEFINE q == Leading(F32, 0, r)
           d == F32.man - f.man
           top == Power[f.man]
           te == f.bias
<1>1. /\ F32.bias \in Nat /\ F32.bias >= 1 /\ F32.man \in Nat /\ AllOnes(F32.exp) = 2 * F32.bias + 1
      /\ f.bias \in Nat /\ f.bias >= 1 /\ f.man \in Nat /\ f.man >= 1
      /\ MaxFiniteExp(f) \in Int /\ MaxFiniteExp(f) >= 2 * f.bias
      /\ top \in Nat /\ top >= 2 /\ AllOnes(f.man) = top - 1
  BY WideLanes, LaneIs DEF IsIeee
<1>2. q.neg = FALSE /\ q.e = 0 + F32.bias /\ q.m = r
  BY DEF Leading
<1> HIDE DEF q
<1>3. q.e # AllOnes(F32.exp) /\ q.e # 0 /\ (q.e - F32.bias) + f.bias = te
  BY <1>1, <1>2
<1>4. d \in Nat /\ d >= 1 /\ f.man + d = F32.man
  BY <1>1
<1>5. Kept(q.m + Power[F32.man], d) = top
  <2>1. 2 * r <= Power[d]
    OBVIOUS
  <2> DEFINE n == f.man
  <2>2. n \in Nat /\ n >= 1 /\ n + d = F32.man
    BY <1>1, <1>4
  <2> HIDE DEF d, n
  <2>3. Kept(r + Power[n + d], d) = Power[n]
    BY <1>4, <2>1, <2>2, PowerKept
  <2>4. r + Power[n + d] = q.m + Power[F32.man]
    BY <1>2, <2>2
  <2> QED
    BY <2>3, <2>4 DEF n
<1>6. q.m + Power[F32.man] # 0
  BY <1>1, <1>2, PowerIs
<1>7. Power[f.man + 1] = 2 * top
  BY <1>1, PowerIs
<1>8. ~(top >= Power[f.man + 1]) /\ top % top = 0 /\ ~(te <= 0) /\ ~(te > MaxFiniteExp(f))
      /\ te # MaxFiniteExp(f)
  <2>1. top = 1 * top + 0 /\ 0 \in 0..(top - 1) /\ 1 \in Int /\ top \in Int /\ top > 0
    BY <1>1
  <2> HIDE DEF top
  <2>2. PICK one \in Int : one = 1
    OBVIOUS
  <2>3. top % top = 0
    BY <1>1, <2>1, <2>2, DivisionIs
  <2> QED
    BY <1>1, <1>7, <2>3
<1>9. RoundMag(q, F32, f) = [neg |-> q.neg, e |-> te, m |-> top % top]
  <2> HIDE DEF te
  <2>1. F32.man - f.man = d
    OBVIOUS
  <2> HIDE DEF d
  <2>2. Kept(q.m + Power[F32.man], F32.man - f.man) = top
    BY <1>5, <2>1
  <2> QED
    BY <1>3, <1>6, <1>8, <2>2 DEF RoundMag
<1>10. te = 0 + f.bias
  BY <1>1
<1> HIDE DEF te, top
<1> QED
  BY <1>2, <1>3, <1>8, <1>9, <1>10 DEF FromFloat, Leading, q

\* A value that another lane does not have.
LEMMA Refuted ==
  ASSUME NEW s, s \in Lanes, NEW a, a \in Lanes, NEW q, q \in Patterns(s),
         DecodeFloat(q, s).class = "fin",
         ~Equals(DecodeFloat(Widen(q, s, a), a), DecodeFloat(q, s))
  PROVE  ~Holds[<<s, a>>]
<1>1. <<s, a>> \in Lanes \X Lanes /\ <<s, a>>[1] = s /\ <<s, a>>[2] = a
  OBVIOUS
<1>2. q \in Patterns(s) /\ "fin" # "nan"
  BY DEF Patterns
<1> QED
  BY <1>1, <1>2 DEF Holds

\* A power of two fits any number of bits.
LEMMA PowerRounds ==
  ASSUME NEW n \in Nat, NEW bits \in Nat
  PROVE  Rounds(n, 0, bits, 0)
<1>1. Power[bits] \in Nat /\ Power[bits] >= 1
  BY PowerIs
<1>2. n <= bits => 0 = 0 * Power[bits - n]
  <2>1. n <= bits => bits - n \in Nat
    OBVIOUS
  <2> QED
    BY <2>1, PowerIs
<1>3. n > bits => 2 * 0 <= Power[n - bits]
  <2>1. n > bits => n - bits \in Nat
    OBVIOUS
  <2> QED
    BY <2>1, PowerIs
<1> QED
  BY <1>1, <1>2, <1>3 DEF Rounds

\* Fewer exponents: the greatest power of two of the storage dtype is past the largest.
LEMMA TooFewExponents ==
  ASSUME NEW s, s \in Lanes, NEW a, a \in Lanes, a.exp < s.exp
  PROVE  ~Holds[<<s, a>>]
<1> DEFINE lead == s.bias
           q == Leading(s, lead, 0)
           q64 == Rne(DecodeFloat(q, s), F64)
           q32 == Rne(DecodeFloat(q64, F64), F32)
           n == s.man
<1>1. /\ IsLane(s) /\ IsLane(a) /\ IsLane(F32) /\ IsLane(F64) /\ F32 \in Lanes /\ F64 \in Lanes
      /\ IsIeee(F32) /\ IsIeee(F64)
  BY LanesAssumption, WideLanes
<1>2. /\ s.bias \in Nat /\ s.bias >= 1 /\ a.bias \in Nat /\ a.bias >= 1
      /\ F32.bias \in Nat /\ F32.bias >= 1 /\ F64.bias \in Nat /\ F64.bias >= 1
      /\ s.man \in Nat /\ a.man \in Nat /\ F32.man \in Nat /\ F64.man \in Nat
      /\ Power[s.man] \in Nat /\ Power[s.man] >= 2
      /\ Power[F64.man] \in Nat /\ Power[F64.man] >= 2
      /\ Power[F32.man] \in Nat /\ Power[F32.man] >= 2
      /\ a.exp \in Nat /\ s.exp \in Nat /\ F32.exp \in Nat /\ F64.exp \in Nat
  BY <1>1, LaneIs
<1>3. lead > a.bias + 1 /\ lead <= F64.bias /\ lead \in Int /\ lead >= 1
  <2>1. 2 * a.bias + 1 <= s.bias
    BY <1>1, BiasGrows
  <2>2. s.bias <= F64.bias
    BY MantissaFits
  <2> QED
    BY <1>2, <2>1, <2>2
<1>4. a # F64
  <2>1. s.exp <= F64.exp
    BY MantissaFits
  <2> QED
    BY <1>2, <2>1
<1>5. q \in Patterns(s) /\ DecodeFloat(q, s) = Fin(FALSE, Power[n] + 0, lead - n)
  <2>1. 0 \in 0..(Power[s.man] - 1) /\ lead >= 1 - s.bias /\ lead <= s.bias
    BY <1>2, <1>3
  <2> QED
    BY <1>1, <1>3, <2>1, LeadingDecoded
<1>6. q64 = Leading(F64, lead, 0)
  <2>1. Rounds(s.man, 0, F64.man, 0)
    BY <1>2, PowerRounds
  <2>2. 0 \in 0..(Power[s.man] - 1) /\ lead >= 1 - s.bias /\ lead <= s.bias /\ lead >= 1 - F64.bias
    BY <1>2, <1>3
  <2> HIDE DEF lead
  <2> QED
    BY <1>1, <1>3, <2>1, <2>2, LeadingPasses
<1>7. q32 = IF lead <= F32.bias THEN Leading(F32, lead, 0) ELSE Infinity(F32, FALSE)
  <2>1. Rounds(F64.man, 0, F32.man, 0)
    BY <1>2, PowerRounds
  <2>2. 0 \in 0..(Power[F64.man] - 1) /\ lead >= 1 - F64.bias /\ lead >= 1 - F32.bias
    BY <1>2, <1>3
  <2> HIDE DEF lead, q64
  <2>3. Rne(DecodeFloat(Leading(F64, lead, 0), F64), F32)
          = IF lead <= F32.bias THEN Leading(F32, lead, 0) ELSE Infinity(F32, FALSE)
    BY <1>1, <1>3, <2>1, <2>2, LeadingPasses
  <2> QED
    BY <1>6, <2>3
<1> DEFINE w == Widen(q, s, a)
<1>8. w = IF a = F32 THEN q32 ELSE FromF32(q32, a)
  <2>1. q64 = Rne(DecodeFloat(q, s), F64) /\ q32 = Rne(DecodeFloat(q64, F64), F32)
    OBVIOUS
  <2> HIDE DEF q64, q32, q
  <2> QED
    BY <1>4, <2>1, WidenSteps
<1> HIDE DEF q, q64, q32, lead, n, w
<1>9. IsIeee(a) => DecodeFloat(Infinity(a, FALSE), a) = Inf(FALSE)
  BY InfinityPasses
<1>10. IsIeee(a) => Rne(DecodeFloat(Infinity(F32, FALSE), F32), a) = Infinity(a, FALSE)
  <2>1. DecodeFloat(Infinity(F32, FALSE), F32) = Inf(FALSE)
    BY <1>1, InfinityPasses
  <2>2. IsIeee(a) => Rne(Inf(FALSE), a) = Infinity(a, FALSE)
    BY InfinityPasses
  <2> QED
    BY <1>1, <2>1, <2>2
<1>11. (IsIeee(a) /\ w = Infinity(a, FALSE)) \/ w = MaxFinite(a, FALSE)
  <2>1. CASE a = F32
    <3>1. ~(lead <= F32.bias)
      BY <1>2, <1>3, <2>1
    <3> QED
      BY <1>1, <1>7, <1>8, <2>1, <3>1
  <2>2. CASE a # F32 /\ ~a.pinned
    <3>1. IsIeee(a)
      BY <1>1, <2>2 DEF IsLane, IsIeee
    <3>2. w = Rne(DecodeFloat(q32, F32), a)
      BY <1>8, <2>2 DEF FromF32
    <3>3. CASE ~(lead <= F32.bias)
      BY <1>7, <1>10, <3>1, <3>2, <3>3
    <3>4. CASE lead <= F32.bias
      <4>1. Rounds(F32.man, 0, a.man, 0)
        BY <1>2, PowerRounds
      <4>2. /\ 0 \in 0..(Power[F32.man] - 1) /\ lead >= 1 - F32.bias /\ lead >= 1 - a.bias
            /\ ~(lead <= a.bias)
        BY <1>2, <1>3
      <4>3. Rne(DecodeFloat(Leading(F32, lead, 0), F32), a) = Infinity(a, FALSE)
        BY <1>1, <1>3, <3>1, <3>4, <4>1, <4>2, LeadingPasses
      <4> QED
        BY <1>7, <3>1, <3>2, <3>4, <4>3
    <3> QED
      BY <3>3, <3>4
  <2>3. CASE a # F32 /\ a.pinned
    <3>1. w = FromFloat(q32, F32, a)
      BY <1>8, <2>3 DEF FromF32
    <3>2. CASE ~(lead <= F32.bias)
      <4>1. Infinity(F32, FALSE).e = AllOnes(F32.exp) /\ Infinity(F32, FALSE).m = 0
            /\ Infinity(F32, FALSE).neg = FALSE
        BY DEF Infinity
      <4>2. FromFloat(Infinity(F32, FALSE), F32, a)
              = IF a.hasInf THEN Infinity(a, FALSE) ELSE MaxFinite(a, FALSE)
        BY <4>1 DEF FromFloat
      <4>3. a.hasInf => IsIeee(a)
        BY <1>1 DEF IsLane, IsIeee
      <4> QED
        BY <1>7, <3>1, <3>2, <4>2, <4>3
    <3>3. CASE lead <= F32.bias
      <4>1. 0 \in 0..(Power[F32.man] - 1) /\ lead >= 0
        BY <1>2, <1>3
      <4>2. FromFloat(Leading(F32, lead, 0), F32, a) = MaxFinite(a, FALSE)
        BY <1>1, <1>3, <3>3, <4>1, Saturates
      <4> QED
        BY <1>7, <3>1, <3>3, <4>2
    <3> QED
      BY <3>2, <3>3
  <2> QED
    BY <2>1, <2>2, <2>3
<1>12. DecodeFloat(q, s).class = "fin"
  BY <1>5 DEF Fin
<1>13. CASE IsIeee(a) /\ w = Infinity(a, FALSE)
  <2>1. DecodeFloat(w, a).class = "inf" /\ "inf" # "fin"
    <3>1. DecodeFloat(w, a) = Inf(FALSE)
      BY <1>9, <1>13, Zenon
    <3>2. Inf(FALSE).class = "inf"
      BY DEF Inf
    <3> QED
      BY <3>1, <3>2
  <2>2. ~Equals(DecodeFloat(w, a), DecodeFloat(q, s))
    BY <1>12, <2>1 DEF Equals
  <2> QED
    BY <1>5, <1>12, <2>2, Refuted DEF w
<1>14. CASE w = MaxFinite(a, FALSE)
  <2>1. PICK m \in Nat, x \in Int :
          /\ DecodeFloat(MaxFinite(a, FALSE), a) = Fin(FALSE, m, x)
          /\ m < Power[a.man + 1] /\ a.man + 1 + x <= a.bias + 2
    BY <1>1, LargestDecoded
  <2> DEFINE j == Power[n] + 0
             y == lead - n
             k == a.man + 1
  <2>2. n \in Nat /\ j \in Nat /\ j >= Power[n] /\ y \in Int /\ n + y = lead
    BY <1>2, <1>3 DEF n
  <2>3. k \in Nat /\ m < Power[k] /\ k + x <= n + y
    BY <1>2, <1>3, <2>1, <2>2
  <2>4. DecodeFloat(q, s) = Fin(FALSE, j, y)
    BY <1>5
  <2> HIDE DEF j, y, k
  <2>5. ~Equals(Fin(FALSE, m, x), Fin(FALSE, j, y))
    BY <2>2, <2>3, BelowPower
  <2>6. ~Equals(DecodeFloat(w, a), DecodeFloat(q, s))
    BY <1>14, <2>1, <2>4, <2>5
  <2> QED
    BY <1>5, <1>12, <2>6, Refuted DEF w
<1> QED
  BY <1>11, <1>13, <1>14

\* Fewer bits: a one with the last bit of the storage dtype is rounded to one.
LEMMA TooFewBits ==
  ASSUME NEW s, s \in Lanes, NEW a, a \in Lanes, a.man < s.man
  PROVE  ~Holds[<<s, a>>]
<1> DEFINE n == s.man
           wide == F64.man
           mid == F32.man
           k == a.man
           r64 == Power[wide - n]
           r32 == IF s = F64 THEN 0 ELSE Power[mid - n]
           q == Leading(s, 0, 1)
           q64 == Rne(DecodeFloat(q, s), F64)
           q32 == Rne(DecodeFloat(q64, F64), F32)
           w == Widen(q, s, a)
<1>1. /\ IsLane(s) /\ IsLane(a) /\ IsLane(F32) /\ IsLane(F64) /\ F32 \in Lanes /\ F64 \in Lanes
      /\ IsIeee(F32) /\ IsIeee(F64)
  BY LanesAssumption, WideLanes
<1>2. /\ s.bias \in Nat /\ s.bias >= 1 /\ a.bias \in Nat /\ a.bias >= 1
      /\ F32.bias \in Nat /\ F32.bias >= 1 /\ F64.bias \in Nat /\ F64.bias >= 1
      /\ n \in Nat /\ k \in Nat /\ k >= 1 /\ mid \in Nat /\ mid >= 1 /\ wide \in Nat /\ wide >= 1
      /\ n >= 1 /\ k < n
      /\ Power[n] \in Nat /\ Power[n] >= 2
      /\ Power[k] \in Nat /\ Power[k] >= 2
  BY <1>1, LaneIs
<1>3. n <= wide /\ mid < wide /\ k < wide /\ a # F64
  <2>1. s.man <= F64.man /\ F32.man < F64.man
    BY MantissaFits, WideLanes
  <2> QED
    BY <1>2, <2>1
<1>4. (s # F64 => n <= mid) /\ (a # F32 => k <= mid) /\ (a = F32 => s = F64)
      /\ (a # F32 /\ a.pinned => k < mid) /\ (a.pinned => a # F32)
  <2>1. s # F64 => s.man <= F32.man
    BY LanesAssumption
  <2>2. a # F32 => a.man <= F32.man
    BY <1>3, LanesAssumption
  <2>3. a.pinned => a.man < F32.man
    BY LanesAssumption
  <2> QED
    BY <1>2, <2>1, <2>2, <2>3
<1>5. n = wide => r64 = 1
  <2>1. n = wide => wide - n = 0
    BY <1>2
  <2>2. Power[0] = 1
    BY PowerRuns
  <2> QED
    BY <2>1, <2>2
<1>6. s = F64 => n = wide
  OBVIOUS
<1>7. /\ r64 \in Nat /\ r64 >= 1 /\ r64 < Power[wide] /\ Power[wide] \in Nat
      /\ Rounds(n, 1, wide, r64)
  <2> DEFINE d == wide - n
  <2>1. d \in Nat /\ d < wide
    BY <1>2, <1>3
  <2> HIDE DEF d, n, wide
  <2>2. Power[d] \in Nat /\ Power[d] >= 1 /\ Power[wide] \in Nat
    BY <1>2, <2>1, PowerIs
  <2>3. 2 * Power[d] <= Power[wide]
    BY <1>2, <2>1, PowerGrows
  <2>4. Power[d] \in 0..(Power[wide] - 1) /\ Power[d] = 1 * Power[d] /\ Power[d] < Power[wide]
    BY <2>2, <2>3
  <2>5. Power[d] = Power[wide - n]
    BY DEF d
  <2> QED
    BY <1>3, <1>2, <2>2, <2>4, <2>5 DEF Rounds
<1>8. /\ r32 \in Nat /\ r32 < Power[mid] /\ Power[mid] \in Nat
      /\ Rounds(wide, r64, mid, r32)
  <2> DEFINE d == wide - mid
             cut == Power[d]
  <2>1. d \in Nat /\ d >= 1 /\ ~(wide <= mid)
    BY <1>2, <1>3
  <2>2. cut \in Nat /\ Power[mid] \in Nat /\ Power[mid] >= 2 /\ Power[d] >= 2
    <3>1. d - 1 \in Nat /\ (d - 1) + 1 = d /\ mid - 1 \in Nat /\ (mid - 1) + 1 = mid
      BY <1>2, <2>1
    <3> QED
      BY <3>1, PowerIs
  <2>3. CASE s = F64
    <3>1. r64 = 1 /\ r32 = 0
      BY <1>5, <1>6, <2>3
    <3>2. 2 * r64 <= Power[wide - mid] /\ r32 = 0 /\ r32 \in 0..(Power[mid] - 1)
      BY <2>2, <3>1
    <3> HIDE DEF r64, r32, d, cut
    <3> QED
      BY <2>1, <2>2, <3>2 DEF Rounds
  <2>4. CASE s # F64
    <3> DEFINE c == mid - n
    <3>1. c \in Nat /\ c < mid /\ c + d = wide - n /\ r32 = Power[c]
      BY <1>2, <1>3, <1>4, <2>4
    <3>2. Power[c + d] = Power[c] * Power[d]
      <4> HIDE DEF c, d
      <4> QED
        BY <2>1, <3>1, PowerAdds
    <3>3. r64 = r32 * Power[wide - mid]
      BY <3>1, <3>2
    <3>4. Power[c] \in Nat /\ 2 * Power[c] <= Power[mid] /\ Power[c] >= 1
      <4> HIDE DEF c, mid
      <4> QED
        BY <1>2, <3>1, PowerGrows, PowerIs
    <3>5. r32 \in 0..(Power[mid] - 1) /\ r32 \in Nat /\ r32 < Power[mid]
      BY <2>2, <3>1, <3>4
    <3> HIDE DEF r64, r32, c, d, cut
    <3> QED
      BY <2>1, <2>2, <3>3, <3>5 DEF Rounds
  <2> QED
    BY <2>3, <2>4
<1>9. a # F32 => /\ Rounds(mid, r32, k, 0)
                 /\ k < mid => 2 * r32 <= Power[mid - k]
  <2> SUFFICES ASSUME a # F32
               PROVE  Rounds(mid, r32, k, 0) /\ (k < mid => 2 * r32 <= Power[mid - k])
    OBVIOUS
  <2>1. k <= mid /\ mid - k \in Nat
    BY <1>2, <1>4
  <2>2. Power[mid - k] \in Nat
    <3> DEFINE e == mid - k
    <3> HIDE DEF e
    <3>1. Power[e] \in Nat
      BY <2>1, PowerIs DEF e
    <3> QED
      BY <3>1 DEF e
  <2>3. CASE s = F64
    <3>1. r32 = 0
      BY <2>3
    <3>2. 2 * r32 <= Power[mid - k]
      BY <2>2, <3>1
    <3>3. Rounds(mid, r32, k, 0)
      <4> HIDE DEF mid, k, r32
      <4> QED
        BY <1>2, <3>1, PowerRounds
    <3> QED
      BY <3>2, <3>3
  <2>4. CASE s # F64
    <3> DEFINE c == mid - n
               d == mid - k
    <3>1. c \in Nat /\ d \in Nat /\ c < d /\ k < mid /\ r32 = Power[c]
      BY <1>2, <1>4, <2>4
    <3>2. 2 * Power[c] <= Power[d]
      <4> HIDE DEF c, d
      <4> QED
        BY <3>1, PowerGrows
    <3>3. 2 * r32 <= Power[mid - k]
      BY <3>1, <3>2
    <3>4. 0 \in 0..(Power[k] - 1)
      BY <1>2
    <3> HIDE DEF mid, k, r32, c, d
    <3> QED
      BY <1>2, <3>1, <3>3, <3>4 DEF Rounds
  <2> QED
    BY <2>3, <2>4
<1> HIDE DEF r64, r32
<1> PICK nought \in Int : nought = 0
  OBVIOUS
<1>10. q \in Patterns(s) /\ DecodeFloat(q, s) = Fin(FALSE, Power[n] + 1, 0 - n)
  <2>1. 1 \in 0..(Power[s.man] - 1) /\ nought >= 1 - s.bias /\ nought <= s.bias
    BY <1>2
  <2>2. /\ Leading(s, nought, 1) \in Patterns(s)
        /\ DecodeFloat(Leading(s, nought, 1), s) = Fin(FALSE, Power[s.man] + 1, nought - s.man)
    BY <1>1, <2>1, LeadingDecoded
  <2> QED
    BY <2>2
<1>11. q64 = Leading(F64, 0, r64)
  <2>1. /\ 1 \in 0..(Power[s.man] - 1) /\ nought >= 1 - s.bias /\ nought <= s.bias
        /\ nought >= 1 - F64.bias /\ nought <= F64.bias
    BY <1>2
  <2>2. Rounds(s.man, 1, F64.man, r64)
    BY <1>7
  <2>3. Rne(DecodeFloat(Leading(s, nought, 1), s), F64) = Leading(F64, nought, r64)
    BY <1>1, <2>1, <2>2, LeadingPasses
  <2> QED
    BY <2>3
<1>12. q32 = Leading(F32, 0, r32)
  <2>1. /\ r64 \in 0..(Power[F64.man] - 1) /\ nought >= 1 - F64.bias /\ nought <= F64.bias
        /\ nought >= 1 - F32.bias /\ nought <= F32.bias
    BY <1>2, <1>7
  <2>2. Rounds(F64.man, r64, F32.man, r32)
    BY <1>8
  <2> HIDE DEF q64
  <2>3. Rne(DecodeFloat(Leading(F64, nought, r64), F64), F32) = Leading(F32, nought, r32)
    BY <1>1, <2>1, <2>2, LeadingPasses
  <2> QED
    BY <1>11, <2>3
<1>13. w = IF a = F32 THEN q32 ELSE FromF32(q32, a)
  <2>1. q64 = Rne(DecodeFloat(q, s), F64) /\ q32 = Rne(DecodeFloat(q64, F64), F32)
    OBVIOUS
  <2> HIDE DEF q64, q32, q
  <2> QED
    BY <1>3, <2>1, WidenSteps
<1> HIDE DEF q, q64, q32, w
<1>14. w = Leading(a, 0, 0)
  <2>1. CASE a = F32
    <3>1. r32 = 0
      BY <1>4, <2>1 DEF r32
    <3> QED
      BY <1>12, <1>13, <2>1, <3>1
  <2>2. CASE a # F32 /\ ~a.pinned
    <3>1. IsIeee(a)
      BY <1>1, <2>2 DEF IsLane, IsIeee
    <3>2. w = Rne(DecodeFloat(q32, F32), a)
      BY <1>13, <2>2 DEF FromF32
    <3>3. /\ r32 \in 0..(Power[F32.man] - 1) /\ nought >= 1 - F32.bias /\ nought <= F32.bias
          /\ nought >= 1 - a.bias /\ nought <= a.bias
      BY <1>2, <1>8
    <3>4. Rounds(F32.man, r32, a.man, 0)
      BY <1>9, <2>2
    <3>5. Rne(DecodeFloat(Leading(F32, nought, r32), F32), a) = Leading(a, nought, 0)
      BY <1>1, <3>1, <3>3, <3>4, LeadingPasses
    <3> QED
      BY <1>12, <3>2, <3>5
  <2>3. CASE a # F32 /\ a.pinned
    <3>1. w = FromFloat(q32, F32, a)
      BY <1>13, <2>3 DEF FromF32
    <3>2. a.man < F32.man /\ r32 \in Nat /\ 2 * r32 <= Power[F32.man - a.man] /\ r32 < Power[F32.man]
      BY <1>4, <1>8, <1>9, <2>3
    <3>3. FromFloat(Leading(F32, 0, r32), F32, a) = Leading(a, 0, 0)
      BY <1>1, <3>2, KeptAtOne
    <3> QED
      BY <1>12, <3>1, <3>3
  <2> QED
    BY <2>1, <2>2, <2>3
<1>15. DecodeFloat(w, a) = Fin(FALSE, Power[k] + 0, 0 - k)
  <2>1. 0 \in 0..(Power[a.man] - 1) /\ nought >= 1 - a.bias /\ nought <= a.bias
    BY <1>2
  <2>2. DecodeFloat(Leading(a, nought, 0), a) = Fin(FALSE, Power[a.man] + 0, nought - a.man)
    BY <1>1, <2>1, LeadingDecoded
  <2> QED
    BY <1>14, <2>2
<1> DEFINE u == DecodeFloat(w, a)
           v == DecodeFloat(q, s)
           d == n - k
<1>16. /\ u.class = "fin" /\ u.neg = FALSE /\ u.mant = Power[k] + 0 /\ u.exp = 0 - k
       /\ v.class = "fin" /\ v.neg = FALSE /\ v.mant = Power[n] + 1 /\ v.exp = 0 - n
  BY <1>10, <1>15 DEF Fin
<1> HIDE DEF u, v
<1>17. d \in Nat /\ Power[n] = Power[k] * Power[d] /\ Power[d] \in Nat
  <2>1. d \in Nat /\ k + d = n
    BY <1>2
  <2> HIDE DEF d, n, k
  <2>2. Power[k + d] = Power[k] * Power[d]
    BY <1>2, <2>1, PowerAdds
  <2> QED
    BY <2>1, <2>2, PowerIs
<1>18. Below(u, v)
  <2> DEFINE e == 0 - n
  <2>1. (IF u.exp < v.exp THEN u.exp ELSE v.exp) = e /\ u.exp - e = d /\ v.exp - e = 0
    BY <1>2, <1>16
  <2> HIDE DEF e, d
  <2>2. Aligned(u, e) = (Power[k] + 0) * Power[d] /\ Aligned(v, e) = (Power[n] + 1) * Power[0]
    BY <1>16, <2>1 DEF Aligned
  <2>3. Aligned(u, e) = Power[n] /\ Aligned(v, e) = Power[n] + 1
    <3>1. (Power[k] + 0) * Power[d] = Power[k] * Power[d] /\ (Power[n] + 1) * 1 = Power[n] + 1
      BY <1>2, <1>17
    <3>2. Power[0] = 1
      BY PowerRuns
    <3> QED
      BY <1>17, <2>2, <3>1, <3>2
  <2>4. Aligned(u, e) < Aligned(v, e)
    BY <1>2, <2>3
  <2> QED
    BY <2>1, <2>4 DEF Below
<1>19. ~Equals(u, v) /\ v.class = "fin"
  BY <1>16, <1>18 DEF Equals
<1> QED
  BY <1>10, <1>19, Refuted DEF u, v, w

-----------------------------------------------------------------------------
\* The requests, and what the guard said of them.
Admitted ==
  /\ request.storage \in Lanes /\ request.acc \in Lanes \cup NoLanes
  /\ status = "folding" => ~IsVerbatim /\ GuardAccumulator(Storage, Wide) = "none"
  /\ error = "AccumulatorTooNarrow" =>
       GuardAccumulator(Storage, Wide) = "AccumulatorTooNarrow"

\* What the guard says of a pair of dtypes.
LEMMA GuardTells ==
  ASSUME NEW s, s \in Lanes, NEW a
  PROVE  /\ GuardAccumulator(s, a) = "none" => a \in Lanes /\ s.exp <= a.exp /\ s.man <= a.man
         /\ GuardAccumulator(s, a) = "AccumulatorTooNarrow" =>
              a \in Lanes /\ (a.exp < s.exp \/ a.man < s.man)
<1>1. a \in Lanes => a.kind = "float" /\ a.exp \in Nat /\ a.man \in Nat
  BY LanesAssumption DEF IsLane
<1>2. s.exp \in Nat /\ s.man \in Nat
  BY LanesAssumption DEF IsLane
<1>3. CASE a.kind = "reserved"
  <2>1. GuardAccumulator(s, a) = "ReservedOrScaleDtype"
    BY <1>1, <1>3 DEF GuardAccumulator
  <2> QED
    BY <2>1
<1>4. CASE a.kind # "reserved" /\ a \notin Lanes
  <2>1. GuardAccumulator(s, a) = "NonFloatAccumulator"
    BY <1>4 DEF GuardAccumulator
  <2> QED
    BY <2>1
<1>5. CASE a \in Lanes /\ (a.exp < s.exp \/ a.man < s.man)
  <2>1. GuardAccumulator(s, a) = "AccumulatorTooNarrow"
    BY <1>1, <1>5 DEF GuardAccumulator
  <2> QED
    BY <1>5, <2>1
<1>6. CASE a \in Lanes /\ ~(a.exp < s.exp \/ a.man < s.man)
  <2>1. GuardAccumulator(s, a) = "none"
    BY <1>1, <1>6 DEF GuardAccumulator
  <2> QED
    BY <1>1, <1>2, <1>6, <2>1
<1> QED
  BY <1>3, <1>4, <1>5, <1>6

LEMMA AdmittedInit == Init => Admitted
  BY DEF Init, Admitted

LEMMA AdmittedNext == Admitted /\ [Next]_vars => Admitted'
<1> SUFFICES ASSUME Admitted, [Next]_vars PROVE Admitted'
  OBVIOUS
<1> USE DEF Admitted, IsVerbatim, Storage, Wide
<1>1. CASE Verbatim
  BY <1>1 DEF Verbatim
<1>2. CASE Decline
  BY <1>2 DEF Decline
<1>3. CASE Begin
  BY <1>3 DEF Begin
<1>4. CASE Fold
  BY <1>4 DEF Fold
<1>5. CASE Return
  BY <1>5 DEF Return
<1>6. CASE UNCHANGED vars
  BY <1>6 DEF vars
<1> QED
  BY <1>1, <1>2, <1>3, <1>4, <1>5, <1>6 DEF Next

LEMMA AdmittedDecides == Admitted => AdmittedHoldsStorage
<1> SUFFICES ASSUME Admitted PROVE AdmittedHoldsStorage
  OBVIOUS
<1>1. Storage \in Lanes
  BY DEF Admitted, Storage
<1>2. ASSUME status = "folding" PROVE Holds[<<Storage, Wide>>]
  <2>1. Storage # Wide /\ GuardAccumulator(Storage, Wide) = "none"
    BY <1>2 DEF Admitted, IsVerbatim
  <2>2. Wide \in Lanes /\ Storage.exp <= Wide.exp /\ Storage.man <= Wide.man
    BY <1>1, <2>1, GuardTells
  <2> QED
    BY <1>1, <2>1, <2>2, AdmittedHolds
<1>3. ASSUME error = "AccumulatorTooNarrow" PROVE ~Holds[<<Storage, Wide>>]
  <2>1. GuardAccumulator(Storage, Wide) = "AccumulatorTooNarrow"
    BY <1>3 DEF Admitted
  <2>2. Wide \in Lanes /\ (Wide.exp < Storage.exp \/ Wide.man < Storage.man)
    BY <1>1, <2>1, GuardTells
  <2> QED
    BY <1>1, <2>2, TooFewExponents, TooFewBits
<1> QED
  BY <1>2, <1>3 DEF AdmittedHoldsStorage

\* The guard compares the widths of two fields and is right to: an accumulator it admits has
\* every value of the storage dtype, one it calls too narrow misses one.
THEOREM AdmittedAlwaysHolds == Spec => []AdmittedHoldsStorage
<1>1. Spec => []Admitted
  BY AdmittedInit, AdmittedNext, PTL DEF Spec
<1> QED
  BY <1>1, AdmittedDecides, PTL
-----------------------------------------------------------------------------
(***************************************************************************)
(* The complex lane.                                                       *)
(***************************************************************************)
\* The sum of two significands of one exponent; what a zero is.
Total(a, b, exp, minus) ==
  Fin(IF a + b = 0 THEN minus ELSE a + b < 0, IF a + b < 0 THEN -(a + b) ELSE a + b, exp)

-----------------------------------------------------------------------------
\* Patterns and values with a sign, and the same with the other sign.
IsFields(x) == x.neg \in BOOLEAN /\ x = [neg |-> x.neg, e |-> x.e, m |-> x.m]
IsDecoded(v) ==
  /\ v.neg \in BOOLEAN
  /\ v = Nan(v.neg, v.m, v.bits) \/ v = Inf(v.neg) \/ v = Fin(v.neg, v.mant, v.exp)
Minus(x) == [x EXCEPT !.neg = ~x.neg]

LEMMA MinusFields ==
  ASSUME NEW x, IsFields(x)
  PROVE  /\ IsFields(Minus(x)) /\ Minus(Minus(x)) = x
         /\ Minus(x).neg = ~x.neg /\ Minus(x).e = x.e /\ Minus(x).m = x.m
<1>0. PICK n \in BOOLEAN : \E e, m : x = [neg |-> n, e |-> e, m |-> m]
  BY DEF IsFields
<1>1. PICK e, m : x = [neg |-> n, e |-> e, m |-> m]
  BY <1>0
<1>2. x.neg = n /\ x.e = e /\ x.m = m
  BY <1>1
<1>3. Minus(x) = [neg |-> ~n, e |-> e, m |-> m]
  BY <1>1 DEF Minus
<1> DEFINE y == Minus(x)
<1>4. y.neg = ~n /\ y.e = e /\ y.m = m
  BY <1>3
<1> HIDE DEF y
<1>5. Minus(y) = [neg |-> ~~n, e |-> e, m |-> m]
  <2>1. y = [neg |-> ~n, e |-> e, m |-> m]
    BY <1>3 DEF y
  <2>2. \A k : Minus([neg |-> k, e |-> e, m |-> m]) = [neg |-> ~k, e |-> e, m |-> m]
    BY DEF Minus
  <2> QED
    BY <2>1, <2>2, Zenon
<1>6. (~n) \in BOOLEAN /\ (~~n) = n
  OBVIOUS
<1>7. IsFields(y)
  BY <1>3, <1>4, <1>6 DEF IsFields, y
<1> QED
  BY <1>1, <1>2, <1>4, <1>5, <1>6, <1>7 DEF y

LEMMA MinusForms ==
  ASSUME NEW n \in BOOLEAN, NEW a, NEW b
  PROVE  /\ Minus(Nan(n, a, b)) = Nan(~n, a, b) /\ IsDecoded(Nan(n, a, b))
         /\ Minus(Inf(n)) = Inf(~n) /\ IsDecoded(Inf(n))
         /\ Minus(Fin(n, a, b)) = Fin(~n, a, b) /\ IsDecoded(Fin(n, a, b))
<1>1. Minus(Nan(n, a, b)) = Nan(~n, a, b) /\ IsDecoded(Nan(n, a, b))
  BY DEF Minus, Nan, IsDecoded
<1>2. Minus(Inf(n)) = Inf(~n) /\ IsDecoded(Inf(n))
  BY DEF Minus, Inf, IsDecoded
<1>3. Minus(Fin(n, a, b)) = Fin(~n, a, b) /\ IsDecoded(Fin(n, a, b))
  BY DEF Minus, Fin, IsDecoded
<1> QED
  BY <1>1, <1>2, <1>3

LEMMA DecodedIs ==
  ASSUME NEW v, IsDecoded(v)
  PROVE  /\ v.class = "nan" => \E n \in BOOLEAN : \E a, b : v = Nan(n, a, b)
         /\ v.class = "inf" => \E n \in BOOLEAN : v = Inf(n)
         /\ v.class = "fin" => \E n \in BOOLEAN : \E a, b : v = Fin(n, a, b)
         /\ v.class \in {"nan", "inf", "fin"}
         /\ IsDecoded(Minus(v)) /\ Minus(v).class = v.class /\ Minus(v).neg = ~v.neg
         /\ Minus(Minus(v)) = v
<1>1. CASE v = Nan(v.neg, v.m, v.bits)
  <2>0. PICK n \in BOOLEAN : \E a, b : v = Nan(n, a, b)
    BY <1>1 DEF IsDecoded
  <2>1. PICK a, b : v = Nan(n, a, b)
    BY <2>0
  <2>2. Minus(v) = Nan(~n, a, b)
    BY <2>1, MinusForms, Zenon
  <2>3. (~n) \in BOOLEAN /\ (~~n) = n
    OBVIOUS
  <2>4. Minus(Minus(v)) = Nan(~~n, a, b)
    BY <2>2, <2>3, MinusForms, Zenon
  <2>5. v.class = "nan" /\ v.neg = n
    BY <2>1 DEF Nan
  <2>6. Minus(v).class = "nan" /\ Minus(v).neg = ~n
    BY <2>2 DEF Nan
  <2>7. IsDecoded(Minus(v))
    <3> DEFINE k == ~n
    <3>1. k \in BOOLEAN /\ Minus(v) = Nan(k, a, b)
      BY <2>2, <2>3
    <3> HIDE DEF k
    <3>2. IsDecoded(Nan(k, a, b))
      BY <3>1, MinusForms
    <3> QED
      BY <3>1, <3>2
  <2>8. Minus(Minus(v)) = v
    BY <2>1, <2>3, <2>4
  <2> QED
    BY <2>1, <2>5, <2>6, <2>7, <2>8
<1>2. CASE v = Inf(v.neg)
  <2>1. PICK n \in BOOLEAN : v = Inf(n)
    BY <1>2 DEF IsDecoded
  <2>2. Minus(v) = Inf(~n)
    BY <2>1, MinusForms, Zenon
  <2>3. (~n) \in BOOLEAN /\ (~~n) = n
    OBVIOUS
  <2>4. Minus(Minus(v)) = Inf(~~n)
    BY <2>2, <2>3, MinusForms, Zenon
  <2>5. v.class = "inf" /\ v.neg = n
    BY <2>1 DEF Inf
  <2>6. Minus(v).class = "inf" /\ Minus(v).neg = ~n
    BY <2>2 DEF Inf
  <2>7. IsDecoded(Minus(v))
    <3> DEFINE k == ~n
    <3>1. k \in BOOLEAN /\ Minus(v) = Inf(k)
      BY <2>2, <2>3
    <3> HIDE DEF k
    <3>2. IsDecoded(Inf(k))
      BY <3>1, MinusForms
    <3> QED
      BY <3>1, <3>2
  <2>8. Minus(Minus(v)) = v
    BY <2>1, <2>3, <2>4
  <2> QED
    BY <2>1, <2>5, <2>6, <2>7, <2>8
<1>3. CASE v = Fin(v.neg, v.mant, v.exp)
  <2>0. PICK n \in BOOLEAN : \E a, b : v = Fin(n, a, b)
    BY <1>3 DEF IsDecoded
  <2>1. PICK a, b : v = Fin(n, a, b)
    BY <2>0
  <2>2. Minus(v) = Fin(~n, a, b)
    BY <2>1, MinusForms, Zenon
  <2>3. (~n) \in BOOLEAN /\ (~~n) = n
    OBVIOUS
  <2>4. Minus(Minus(v)) = Fin(~~n, a, b)
    BY <2>2, <2>3, MinusForms, Zenon
  <2>5. v.class = "fin" /\ v.neg = n
    BY <2>1 DEF Fin
  <2>6. Minus(v).class = "fin" /\ Minus(v).neg = ~n
    BY <2>2 DEF Fin
  <2>7. IsDecoded(Minus(v))
    <3> DEFINE k == ~n
    <3>1. k \in BOOLEAN /\ Minus(v) = Fin(k, a, b)
      BY <2>2, <2>3
    <3> HIDE DEF k
    <3>2. IsDecoded(Fin(k, a, b))
      BY <3>1, MinusForms
    <3> QED
      BY <3>1, <3>2
  <2>8. Minus(Minus(v)) = v
    BY <2>1, <2>3, <2>4
  <2> QED
    BY <2>1, <2>5, <2>6, <2>7, <2>8
<1> QED
  BY <1>1, <1>2, <1>3 DEF IsDecoded

\* A pattern of the other sign has the value of the other sign.
LEMMA MinusDecodes ==
  ASSUME NEW x, IsFields(x), NEW f
  PROVE  /\ IsDecoded(DecodeFloat(x, f))
         /\ DecodeFloat(Minus(x), f) = Minus(DecodeFloat(x, f))
<1> DEFINE y == Minus(x)
<1>1. y.neg = ~x.neg /\ y.e = x.e /\ y.m = x.m /\ x.neg \in BOOLEAN
  BY MinusFields DEF IsFields
<1> HIDE DEF y
<1>2. \A a, b : /\ Minus(Nan(x.neg, a, b)) = Nan(y.neg, a, b) /\ IsDecoded(Nan(x.neg, a, b))
                /\ Minus(Inf(x.neg)) = Inf(y.neg) /\ IsDecoded(Inf(x.neg))
                /\ Minus(Fin(x.neg, a, b)) = Fin(y.neg, a, b) /\ IsDecoded(Fin(x.neg, a, b))
  BY <1>1, MinusForms
<1>3. IsDecoded(DecodeFloat(x, f))
  BY <1>2, Zenon DEF DecodeFloat
<1>4. DecodeFloat(y, f) = Minus(DecodeFloat(x, f))
  BY <1>1, <1>2 DEF DecodeFloat
<1> QED
  BY <1>3, <1>4 DEF y

\* Rounding to even does not look at the sign.
LEMMA EitherSign ==
  ASSUME NEW mant, NEW shift, NEW n, NEW k
  PROVE  RoundShift(mant, shift, n, "nearest_even") = RoundShift(mant, shift, k, "nearest_even")
<1>1. \A q, rest : Bumped(q, rest, n, "nearest_even") = Bumped(q, rest, k, "nearest_even")
  BY DEF Bumped, Bumps
<1> QED
  BY <1>1 DEF RoundShift, RoundFar, RoundUnit

LEMMA CarriedMinus ==
  ASSUME NEW n \in BOOLEAN, NEW u, NEW place, NEW f, f.hasInf
  PROVE  LET r == Carry(n, u, place, f, "nearest_even", "none")
         IN  /\ IsFields(r.value)
             /\ Carry(~n, u, place, f, "nearest_even", "none").value = Minus(r.value)
<1> DEFINE Made(k, e, m) == [neg |-> k, e |-> e, m |-> m]
<1>1. \A e, m : Made(~n, e, m) = Minus(Made(n, e, m)) /\ IsFields(Made(n, e, m))
  BY DEF IsFields, Minus
<1>2. \A x : Value(x).value = x
  BY DEF Value
<1>3. \A k : Overflow(f, k, "nearest_even", "none") = Value(Made(k, AllOnes(f.exp), 0))
  BY DEF Overflow, Infinity
<1>4. \A k : Zero(k) = Made(k, 0, 0)
  BY DEF Zero
<1> DEFINE Good(F(_)) == IsFields(F(n).value) /\ F(~n).value = Minus(F(n).value)
<1>5. \A e, m : /\ IsFields(Fit(n, e, m, f, "nearest_even", "none").value)
                /\ Fit(~n, e, m, f, "nearest_even", "none").value
                     = Minus(Fit(n, e, m, f, "nearest_even", "none").value)
  <2> TAKE e, m
  <2>1. CASE e > MaxFiniteExp(f) \/ (e = MaxFiniteExp(f) /\ m > MaxFiniteMan(f))
    <3>1. \A k : Fit(k, e, m, f, "nearest_even", "none") = Value(Made(k, AllOnes(f.exp), 0))
      BY <1>3, <2>1 DEF Fit
    <3> HIDE DEF Made
    <3> QED
      BY <1>1, <1>2, <3>1
  <2>2. CASE ~(e > MaxFiniteExp(f) \/ (e = MaxFiniteExp(f) /\ m > MaxFiniteMan(f)))
    <3>1. \A k : Fit(k, e, m, f, "nearest_even", "none") = Value(Made(k, e, m))
      BY <2>2 DEF Fit
    <3> HIDE DEF Made
    <3> QED
      BY <1>1, <1>2, <3>1
  <2> QED
    BY <2>1, <2>2
<1>6. \A c, p : /\ IsFields(Pack(n, c, p, f, "nearest_even", "none").value)
                /\ Pack(~n, c, p, f, "nearest_even", "none").value
                     = Minus(Pack(n, c, p, f, "nearest_even", "none").value)
  <2> TAKE c, p
  <2> HIDE DEF Made
  <2>1. CASE c = 0
    <3>1. \A k : Pack(k, c, p, f, "nearest_even", "none") = Value(Made(k, 0, 0))
      BY <1>4, <2>1, Zenon DEF Pack
    <3> QED
      BY <1>1, <1>2, <3>1
  <2>2. CASE c # 0
    <3> DEFINE e == IF c < Power[f.man] THEN 0 ELSE p + f.man + f.bias
               m == IF c < Power[f.man] THEN c ELSE c - Power[f.man]
    <3>1. \A k : Pack(k, c, p, f, "nearest_even", "none") = Fit(k, e, m, f, "nearest_even", "none")
      BY <2>2, Zenon DEF Pack
    <3> HIDE DEF e, m
    <3> QED
      BY <1>5, <3>1
  <2> QED
    BY <2>1, <2>2
<1> DEFINE c == IF u >= Power[f.man + 1] THEN u \div 2 ELSE u
           p == IF u >= Power[f.man + 1] THEN place + 1 ELSE place
<1>7. \A k : Carry(k, u, place, f, "nearest_even", "none") = Pack(k, c, p, f, "nearest_even", "none")
  BY Zenon DEF Carry
<1> HIDE DEF c, p
<1> QED
  BY <1>6, <1>7

\* A value of the other sign is rounded to the pattern of the other sign.
LEMMA MinusRounded ==
  ASSUME NEW v, IsDecoded(v), NEW f, f.nan = "ieee", f.hasInf
  PROVE  IsFields(Rne(v, f)) /\ Rne(Minus(v), f) = Minus(Rne(v, f))
<1>1. \A x : Value(x).value = x
  BY DEF Value
<1>2. \A n \in BOOLEAN : \A e, m : /\ IsFields([neg |-> n, e |-> e, m |-> m])
                           /\ Minus([neg |-> n, e |-> e, m |-> m]) = [neg |-> ~n, e |-> e, m |-> m]
  BY DEF IsFields, Minus
<1>3. CASE v.class = "nan"
  <2>0. PICK n \in BOOLEAN : \E a, b : v = Nan(n, a, b)
    BY <1>3, DecodedIs
  <2>1. PICK a, b : v = Nan(n, a, b)
    BY <2>0
  <2> DEFINE top == IF f.man >= b THEN a * Power[f.man - b] ELSE a \div Power[b - f.man]
             m == IF top >= Power[f.man - 1] THEN top ELSE top + Power[f.man - 1]
             e == AllOnes(f.exp)
  <2>2. \A k : Rne(Nan(k, a, b), f) = [neg |-> k, e |-> e, m |-> m]
    <3> TAKE k
    <3>1. Nan(k, a, b).class = "nan" /\ Nan(k, a, b).neg = k /\ Nan(k, a, b).m = a
          /\ Nan(k, a, b).bits = b
      BY DEF Nan
    <3>2. TopOfPayload(Nan(k, a, b), f) = top
      BY <3>1, Zenon DEF TopOfPayload
    <3>3. QuietNan(Nan(k, a, b), f) = [neg |-> k, e |-> e, m |-> m]
      <4> HIDE DEF top
      <4> QED
        BY <3>1, <3>2, Zenon DEF QuietNan
    <3>4. EncodeFloat(Nan(k, a, b), f, "nearest_even", "none") = Value([neg |-> k, e |-> e, m |-> m])
      <4> HIDE DEF top, m, e
      <4> QED
        BY <3>1, <3>3 DEF EncodeFloat, EncodeNan
    <3> HIDE DEF top, m, e
    <3> QED
      BY <1>1, <3>4 DEF Rne
  <2> HIDE DEF top, m, e
  <2> QED
    BY <1>2, <2>1, <2>2, MinusForms
<1>4. CASE v.class = "inf"
  <2>1. PICK n \in BOOLEAN : v = Inf(n)
    BY <1>4, DecodedIs
  <2>2. \A k : Rne(Inf(k), f) = [neg |-> k, e |-> AllOnes(f.exp), m |-> 0]
    BY <1>1 DEF Rne, EncodeFloat, EncodeInf, Infinity, Inf
  <2> QED
    BY <1>2, <2>1, <2>2, MinusForms
<1>5. CASE v.class = "fin"
  <2>0. PICK n \in BOOLEAN : \E a, b : v = Fin(n, a, b)
    BY <1>5, DecodedIs
  <2>1. PICK a, b : v = Fin(n, a, b)
    BY <2>0
  <2>2. \A k : Fin(k, a, b).class = "fin" /\ Fin(k, a, b).neg = k /\ Fin(k, a, b).mant = a
               /\ Fin(k, a, b).exp = b
    BY DEF Fin
  <2>3. \A k : Rne(Fin(k, a, b), f) = RoundToFloat(Fin(k, a, b), f, "nearest_even", "none").value
    BY <2>2 DEF Rne, EncodeFloat
  <2>4. CASE a = 0
    <3>1. \A k : Rne(Fin(k, a, b), f) = [neg |-> k, e |-> 0, m |-> 0]
      <4> TAKE k
      <4>1. RoundToFloat(Fin(k, a, b), f, "nearest_even", "none") = Value([neg |-> k, e |-> 0, m |-> 0])
        BY <2>2, <2>4, Zenon DEF RoundToFloat, Zero
      <4> QED
        BY <1>1, <2>3, <4>1
    <3> QED
      BY <1>2, <2>1, <3>1, MinusForms
  <2>5. CASE a # 0
    <3> DEFINE place == LastPlace(a, b, f)
               u == IF place <= b THEN a * Power[b - place]
                    ELSE RoundShift(a, place - b, n, "nearest_even")
    <3>1. \A k : RoundToFloat(Fin(k, a, b), f, "nearest_even", "none")
                   = Carry(k, u, place, f, "nearest_even", "none")
      <4> TAKE k
      <4>1. RoundShift(a, place - b, k, "nearest_even") = RoundShift(a, place - b, n, "nearest_even")
        BY EitherSign
      <4> HIDE DEF place
      <4>2. RoundToPlace(Fin(k, a, b), place, f, "nearest_even", "none")
              = Carry(k, u, place, f, "nearest_even", "none")
        BY <2>2, <4>1, Zenon DEF RoundToPlace
      <4> QED
        BY <2>2, <2>5, <4>2, Zenon DEF RoundToFloat, place
    <3> HIDE DEF place, u
    <3>2. /\ IsFields(Carry(n, u, place, f, "nearest_even", "none").value)
          /\ Carry(~n, u, place, f, "nearest_even", "none").value
               = Minus(Carry(n, u, place, f, "nearest_even", "none").value)
      BY CarriedMinus
    <3> QED
      BY <2>1, <2>3, <3>1, <3>2, MinusForms
  <2> QED
    BY <2>4, <2>5
<1> QED
  BY <1>3, <1>4, <1>5, DecodedIs

-----------------------------------------------------------------------------
\* Sums, products and quotients before they are rounded.
IsValue(v) == IsDecoded(v) /\ (v.class = "fin" => v.mant \in Nat /\ v.exp \in Int)
TheNan == Nan(FALSE, 1, 1)

\* Both NaN, or of opposite signs; or both zero.
Reflected(s, t) == (s = TheNan /\ t = TheNan) \/ (IsDecoded(s) /\ t = Minus(s))
BothNought(s, t) ==
  \E n, k \in BOOLEAN : \E a, b : s = Fin(n, 0, a) /\ t = Fin(k, 0, b)

LEMMA FormsAre ==
  ASSUME NEW n, NEW a, NEW b
  PROVE  /\ Nan(n, a, b).class = "nan"
         /\ Inf(n).class = "inf" /\ Inf(n).neg = n
         /\ Fin(n, a, b).class = "fin" /\ Fin(n, a, b).neg = n
         /\ Fin(n, a, b).mant = a /\ Fin(n, a, b).exp = b
BY DEF Nan, Inf, Fin

LEMMA ApartMinus ==
  ASSUME NEW v, NEW w, IsDecoded(v), IsDecoded(w)
  PROVE  /\ Apart(Minus(v), w) = ~Apart(v, w) /\ Apart(v, Minus(w)) = ~Apart(v, w)
         /\ Apart(Minus(v), Minus(w)) = Apart(v, w) /\ Apart(v, w) \in BOOLEAN
<1>1. v.neg \in BOOLEAN /\ w.neg \in BOOLEAN /\ Minus(v).neg = ~v.neg /\ Minus(w).neg = ~w.neg
  BY DecodedIs DEF IsDecoded
<1> QED
  BY <1>1 DEF Apart

LEMMA FinMinus ==
  ASSUME NEW v, IsDecoded(v), v.class # "nan"
  PROVE  /\ IsNought(Minus(v)) = IsNought(v)
         /\ v.class = "fin" => /\ Minus(v).mant = v.mant /\ Minus(v).exp = v.exp
                               /\ v = Fin(v.neg, v.mant, v.exp)
<1>1. CASE v.class = "fin"
  <2>0. PICK n \in BOOLEAN : \E a, b : v = Fin(n, a, b)
    BY <1>1, DecodedIs
  <2>1. PICK a, b : v = Fin(n, a, b)
    BY <2>0
  <2>2. Minus(v) = Fin(~n, a, b)
    BY <2>1, MinusForms, Zenon
  <2>3. v.mant = a /\ v.exp = b /\ v.neg = n
    BY <2>1, FormsAre
  <2>4. Minus(v).mant = a /\ Minus(v).exp = b /\ Minus(v).class = "fin"
    BY <2>2, FormsAre
  <2> QED
    BY <1>1, <2>1, <2>3, <2>4 DEF IsNought
<1>2. CASE v.class = "inf"
  BY <1>2, DecodedIs DEF IsNought
<1> QED
  BY <1>1, <1>2, DecodedIs

\* The product of a value of the other sign is of the other sign.
LEMMA ProductMinus ==
  ASSUME NEW v, NEW w, IsDecoded(v), IsDecoded(w), v.class # "nan", w.class # "nan"
  PROVE  /\ Reflected(ExactProduct(v, w), ExactProduct(Minus(v), w))
         /\ Reflected(ExactProduct(v, w), ExactProduct(v, Minus(w)))
         /\ ExactProduct(Minus(v), Minus(w)) = ExactProduct(v, w)
<1> DEFINE p == Apart(v, w)
           r == Minus(v)
           q == Minus(w)
<1>1. /\ p \in BOOLEAN /\ Apart(r, w) = ~p /\ Apart(v, q) = ~p /\ Apart(r, q) = p
      /\ r.class = v.class /\ q.class = w.class
      /\ IsNought(r) = IsNought(v) /\ IsNought(q) = IsNought(w)
      /\ v.class = "fin" => r.mant = v.mant /\ r.exp = v.exp
      /\ w.class = "fin" => q.mant = w.mant /\ q.exp = w.exp
      /\ v.class \in {"inf", "fin"} /\ w.class \in {"inf", "fin"}
  BY ApartMinus, FinMinus, DecodedIs
<1> HIDE DEF r, q
<1> DEFINE Endless == v.class = "inf" \/ w.class = "inf"
           Nothing == IsNought(v) \/ IsNought(w)
<1>2. CASE Endless /\ Nothing
  <2>1. /\ ExactProduct(v, w) = TheNan /\ ExactProduct(r, w) = TheNan
        /\ ExactProduct(v, q) = TheNan /\ ExactProduct(r, q) = TheNan
    BY <1>1, <1>2 DEF ExactProduct, TheNan
  <2> QED
    BY <2>1 DEF Reflected, r, q
<1>3. CASE Endless /\ ~Nothing
  <2>1. /\ ExactProduct(v, w) = Inf(p) /\ ExactProduct(r, w) = Inf(Apart(r, w))
        /\ ExactProduct(v, q) = Inf(Apart(v, q)) /\ ExactProduct(r, q) = Inf(Apart(r, q))
    BY <1>1, <1>3 DEF ExactProduct
  <2> QED
    BY <1>1, <2>1, MinusForms DEF Reflected, r, q
<1>4. CASE ~Endless
  <2> DEFINE m == v.mant * w.mant
             e == v.exp + w.exp
  <2>1. /\ ExactProduct(v, w) = Fin(p, m, e) /\ ExactProduct(r, w) = Fin(Apart(r, w), m, e)
        /\ ExactProduct(v, q) = Fin(Apart(v, q), m, e) /\ ExactProduct(r, q) = Fin(Apart(r, q), m, e)
    BY <1>1, <1>4 DEF ExactProduct
  <2> HIDE DEF m, e
  <2> QED
    BY <1>1, <2>1, MinusForms DEF Reflected, r, q
<1> QED
  BY <1>2, <1>3, <1>4

\* The quotient of a value of the other sign is of the other sign.
LEMMA QuotientMinus ==
  ASSUME NEW v, NEW w, IsDecoded(v), IsDecoded(w), v.class # "nan", w.class # "nan"
  PROVE  Reflected(ExactQuotient(v, w), ExactQuotient(Minus(v), w))
<1> DEFINE p == Apart(v, w)
           r == Minus(v)
<1>1. /\ p \in BOOLEAN /\ Apart(r, w) = ~p
      /\ r.class = v.class
      /\ v.class = "fin" => r.mant = v.mant /\ r.exp = v.exp
      /\ v.class \in {"inf", "fin"} /\ w.class \in {"inf", "fin"}
  BY ApartMinus, FinMinus, DecodedIs
<1> HIDE DEF r
<1>2. CASE v.class = "inf" /\ w.class = "inf"
  <2>1. ExactQuotient(v, w) = TheNan /\ ExactQuotient(r, w) = TheNan
    BY <1>1, <1>2, Zenon DEF ExactQuotient, TheNan
  <2> QED
    BY <2>1 DEF Reflected, r
<1>3. CASE v.class = "inf" /\ w.class # "inf"
  <2>1. ExactQuotient(v, w) = Inf(p) /\ ExactQuotient(r, w) = Inf(Apart(r, w))
    BY <1>1, <1>3, Zenon DEF ExactQuotient
  <2> QED
    BY <1>1, <2>1, MinusForms DEF Reflected, r
<1>4. CASE v.class # "inf"
  <2>1. v.class = "fin" /\ r.mant = v.mant /\ r.exp = v.exp /\ r.class # "inf"
    BY <1>1, <1>4
  <2>2. CASE w.class = "inf"
    <3>1. ExactQuotient(v, w) = Fin(p, 0, 0) /\ ExactQuotient(r, w) = Fin(Apart(r, w), 0, 0)
      BY <1>4, <2>1, <2>2, Zenon DEF ExactQuotient
    <3> QED
      BY <1>1, <3>1, MinusForms DEF Reflected, r
  <2>3. CASE w.class # "inf" /\ w.mant = 0
    <3>1. CASE v.mant = 0
      <4>1. ExactQuotient(v, w) = TheNan /\ ExactQuotient(r, w) = TheNan
        BY <1>4, <2>1, <2>3, <3>1, Zenon DEF ExactQuotient, TheNan
      <4> QED
        BY <4>1 DEF Reflected, r
    <3>2. CASE v.mant # 0
      <4>1. ExactQuotient(v, w) = Inf(p) /\ ExactQuotient(r, w) = Inf(Apart(r, w))
        BY <1>4, <2>1, <2>3, <3>2, Zenon DEF ExactQuotient
      <4> QED
        BY <1>1, <4>1, MinusForms DEF Reflected, r
    <3> QED
      BY <3>1, <3>2
  <2>4. CASE w.class # "inf" /\ w.mant # 0
    <3> DEFINE n == v.mant * Power[QuotientBits]
               m == 2 * (n \div w.mant) + (IF n % w.mant = 0 THEN 0 ELSE 1)
               e == v.exp - w.exp - QuotientBits - 1
    <3>1. ExactQuotient(v, w) = Fin(p, m, e)
      BY <1>4, <2>1, <2>4, Zenon DEF ExactQuotient
    <3>2. ExactQuotient(r, w) = Fin(Apart(r, w), m, e)
      BY <2>1, <2>4, Zenon DEF ExactQuotient
    <3> HIDE DEF m, e
    <3> QED
      BY <1>1, <3>1, <3>2, MinusForms DEF Reflected, r
  <2> QED
    BY <2>2, <2>3, <2>4
<1> QED
  BY <1>2, <1>3, <1>4

LEMMA AlignedMinus ==
  ASSUME NEW v, IsValue(v), v.class = "fin", NEW exp \in Int, exp <= v.exp
  PROVE  Aligned(v, exp) \in Int /\ Aligned(Minus(v), exp) = -Aligned(v, exp)
<1> DEFINE d == v.exp - exp
           m == v.mant
           p == Power[d]
           r == Minus(v)
<1>1. d \in Nat /\ m \in Nat /\ v.neg \in BOOLEAN
  BY DEF IsValue, IsDecoded
<1>2. p \in Nat
  BY <1>1, PowerIs
<1>3. r.neg = ~v.neg /\ r.mant = m /\ r.exp = v.exp
  BY FinMinus, DecodedIs DEF IsValue
<1>4. Aligned(v, exp) = (IF v.neg THEN -m ELSE m) * p
  BY Zenon DEF Aligned
<1>5. Aligned(r, exp) = (IF ~v.neg THEN -m ELSE m) * p
  BY <1>3, Zenon DEF Aligned
<1> HIDE DEF d, m, p, r
<1>6. (-m) * p = -(m * p) /\ m * p \in Int
  BY <1>1, <1>2
<1> QED
  BY <1>1, <1>2, <1>4, <1>5, <1>6 DEF r

LEMMA TotalMinus ==
  ASSUME NEW a \in Int, NEW b \in Int, NEW exp, NEW n \in BOOLEAN, NEW k \in BOOLEAN
  PROVE  LET s == Total(a, b, exp, n)
             t == Total(-a, -b, exp, k)
         IN  Reflected(s, t) \/ BothNought(s, t)
<1> DEFINE s == Total(a, b, exp, n)
           t == Total(-a, -b, exp, k)
<1>1. CASE a + b = 0
  <2>1. s = Fin(n, 0, exp) /\ t = Fin(k, 0, exp)
    <3>1. -a + -b = 0 /\ ~(a + b < 0) /\ ~(-a + -b < 0)
      BY <1>1
    <3> QED
      BY <1>1, <3>1, Zenon DEF Total
  <2> QED
    BY <2>1 DEF BothNought
<1>2. CASE a + b < 0
  <2> DEFINE m == -(a + b)
  <2>1. s = Fin(TRUE, m, exp)
    <3>1. ~(a + b = 0) /\ (a + b < 0) = TRUE
      BY <1>2
    <3> QED
      BY <1>2, <3>1, Zenon DEF Total
  <2>2. t = Fin(FALSE, m, exp)
    <3>1. ~(-a + -b = 0) /\ (-a + -b < 0) = FALSE /\ -a + -b = m /\ ~(-a + -b < 0)
      BY <1>2
    <3> QED
      BY <3>1, Zenon DEF Total
  <2> HIDE DEF m, s, t
  <2>3. Minus(s) = Fin(FALSE, m, exp) /\ IsDecoded(s)
    <3> DEFINE sign == TRUE
    <3>1. sign \in BOOLEAN /\ s = Fin(sign, m, exp) /\ (~sign) = FALSE
      BY <2>1
    <3> HIDE DEF sign
    <3>2. Minus(Fin(sign, m, exp)) = Fin(~sign, m, exp) /\ IsDecoded(Fin(sign, m, exp))
      BY <3>1, MinusForms
    <3> QED
      BY <3>1, <3>2, Zenon
  <2>4. Reflected(s, t)
    BY <2>2, <2>3 DEF Reflected
  <2> QED
    BY <2>4 DEF s, t
<1>3. CASE a + b > 0
  <2> DEFINE m == a + b
  <2>1. s = Fin(FALSE, m, exp)
    <3>1. ~(a + b = 0) /\ (a + b < 0) = FALSE /\ ~(a + b < 0)
      BY <1>3
    <3> QED
      BY <3>1, Zenon DEF Total
  <2>2. t = Fin(TRUE, m, exp)
    <3>1. ~(-a + -b = 0) /\ (-a + -b < 0) = TRUE /\ -(-a + -b) = m /\ -a + -b < 0
      BY <1>3
    <3> QED
      BY <3>1, Zenon DEF Total
  <2> HIDE DEF m, s, t
  <2>3. Minus(s) = Fin(TRUE, m, exp) /\ IsDecoded(s)
    <3> DEFINE sign == FALSE
    <3>1. sign \in BOOLEAN /\ s = Fin(sign, m, exp) /\ (~sign) = TRUE
      BY <2>1
    <3> HIDE DEF sign
    <3>2. Minus(Fin(sign, m, exp)) = Fin(~sign, m, exp) /\ IsDecoded(Fin(sign, m, exp))
      BY <3>1, MinusForms
    <3> QED
      BY <3>1, <3>2, Zenon
  <2>4. Reflected(s, t)
    BY <2>2, <2>3 DEF Reflected
  <2> QED
    BY <2>4 DEF s, t
<1> QED
  BY <1>1, <1>2, <1>3

\* A sum that is computed, and not taken over from an operand.
IsTaken(v, w) == v.class = "inf" \/ w.class = "inf" \/ ~(IsNought(v) <=> IsNought(w))
Lower(v, w) == IF v.exp < w.exp THEN v.exp ELSE w.exp

LEMMA SumComputed ==
  ASSUME NEW v, NEW w, ~IsTaken(v, w)
  PROVE  ExactSum(v, w)
           = Total(Aligned(v, Lower(v, w)), Aligned(w, Lower(v, w)), Lower(v, w), v.neg /\ w.neg)
<1>1. ~(v.class = "inf") /\ ~(w.class = "inf" \/ (IsNought(v) /\ ~IsNought(w)))
      /\ ~(IsNought(w) /\ ~IsNought(v))
  BY DEF IsTaken
<1> QED
  BY <1>1, Zenon DEF ExactSum, Total, Lower

\* The sum of values of the other signs is of the other sign, or zero.
LEMMA SumMinus ==
  ASSUME NEW v, NEW w, IsValue(v), IsValue(w), v.class # "nan", w.class # "nan"
  PROVE  LET s == ExactSum(v, w)
             t == ExactSum(Minus(v), Minus(w))
         IN  Reflected(s, t) \/ BothNought(s, t)
<1> DEFINE r == Minus(v)
           q == Minus(w)
           s == ExactSum(v, w)
           t == ExactSum(r, q)
<1>1. /\ IsDecoded(v) /\ IsDecoded(w) /\ Apart(r, q) = Apart(v, w)
      /\ r.class = v.class /\ q.class = w.class
      /\ IsNought(r) = IsNought(v) /\ IsNought(q) = IsNought(w)
      /\ v.class = "fin" => r.mant = v.mant /\ r.exp = v.exp
      /\ w.class = "fin" => q.mant = w.mant /\ q.exp = w.exp
      /\ v.class \in {"inf", "fin"} /\ w.class \in {"inf", "fin"}
      /\ v.neg \in BOOLEAN /\ w.neg \in BOOLEAN /\ r.neg = ~v.neg /\ q.neg = ~w.neg
  BY ApartMinus, FinMinus, DecodedIs DEF IsValue, IsDecoded
<1>2. CASE IsTaken(v, w)
  <2>1. (s = TheNan /\ t = TheNan) \/ (s = v /\ t = r) \/ (s = w /\ t = q)
    <3> HIDE DEF r, q
    <3> QED
      BY <1>1, <1>2 DEF ExactSum, IsTaken, TheNan
  <2> QED
    BY <1>1, <2>1 DEF Reflected
<1>3. CASE ~IsTaken(v, w)
  <2> DEFINE e == Lower(v, w)
             a == Aligned(v, e)
             b == Aligned(w, e)
  <2>1. v.class = "fin" /\ w.class = "fin" /\ v.exp \in Int /\ w.exp \in Int
    BY <1>1, <1>3 DEF IsTaken, IsValue
  <2>2. e \in Int /\ e <= v.exp /\ e <= w.exp /\ Lower(r, q) = e
    BY <1>1, <2>1 DEF Lower
  <2>3. ~IsTaken(r, q)
    <3> HIDE DEF r, q
    <3> QED
      BY <1>1, <1>3 DEF IsTaken
  <2> HIDE DEF e
  <2>4. a \in Int /\ b \in Int /\ Aligned(r, e) = -a /\ Aligned(q, e) = -b
    BY <2>1, <2>2, AlignedMinus
  <2>5. s = Total(a, b, e, v.neg /\ w.neg)
    BY <1>3, SumComputed DEF e
  <2>6. t = Total(-a, -b, e, r.neg /\ q.neg)
    <3>1. t = Total(Aligned(r, e), Aligned(q, e), e, r.neg /\ q.neg)
      BY <2>2, <2>3, SumComputed
    <3> QED
      BY <3>1, <2>4
  <2> HIDE DEF a, b, r, q
  <2> DEFINE n == v.neg /\ w.neg
             k == r.neg /\ q.neg
  <2>7. n \in BOOLEAN /\ k \in BOOLEAN
    OBVIOUS
  <2> HIDE DEF n, k, s, t
  <2>8. Reflected(Total(a, b, e, n), Total(-a, -b, e, k)) \/ BothNought(Total(a, b, e, n), Total(-a, -b, e, k))
    BY <2>4, <2>7, TotalMinus
  <2> QED
    BY <2>5, <2>6, <2>8 DEF n, k, s, t, r, q
<1> QED
  BY <1>2, <1>3

-----------------------------------------------------------------------------
\* Patterns are rounded to patterns.
LEMMA RoundsBeside ==
  ASSUME NEW mant \in Nat, NEW unit \in Nat, unit > 0, NEW neg, NEW r
  PROVE  LET u == RoundUnit(mant, unit, neg, r)
         IN  u = mant \div unit \/ u = mant \div unit + 1
BY DEF RoundUnit, Bumped

LEMMA QuotientBetween ==
  ASSUME NEW mant \in Nat, NEW p \in Nat, p > 0, NEW w \in Nat
  PROVE  LET q == mant \div p
         IN  q \in Nat /\ (mant < (2 * w) * p => q < 2 * w) /\ (w * p <= mant => w <= q)
<1> DEFINE q == mant \div p
           low == mant % p
<1>1. q \in Nat /\ low \in 0..(p - 1) /\ mant = q * p + low
  BY Brackets
<1> HIDE DEF q, low
<1>2. ASSUME q >= 2 * w PROVE (2 * w) * p <= q * p
  <2>1. (q - 2 * w) * p >= 0 /\ q * p = (q - 2 * w) * p + (2 * w) * p
    BY <1>1, <1>2
  <2> QED
    BY <1>1, <2>1
<1>3. ASSUME q + 1 <= w PROVE (q + 1) * p <= w * p
  <2>1. (w - (q + 1)) * p >= 0 /\ w * p = (w - (q + 1)) * p + (q + 1) * p
    BY <1>1, <1>3
  <2> QED
    BY <1>1, <2>1
<1>4. (q + 1) * p = q * p + p /\ q * p \in Nat /\ w * p \in Nat /\ (2 * w) * p \in Nat
  BY <1>1
<1> QED
  BY <1>1, <1>2, <1>3, <1>4 DEF q

\* A rounded significand has the bits of the format or is the next power of two, and has
\* fewer only where the subnormals are.
LEMMA UnitsBound ==
  ASSUME NEW f, IsIeee(f), NEW neg, NEW mant \in Nat, mant > 0, mant < Power[MantBits - 1],
         NEW exp \in Int, NEW place, place = LastPlace(mant, exp, f),
         NEW u, u = Units(mant, exp, place, neg)
  PROVE  /\ u \in Nat /\ u <= Power[f.man + 1]
         /\ place \in Int /\ place >= 1 - f.bias - f.man
         /\ u < Power[f.man] => place = 1 - f.bias - f.man
<1> DEFINE l == BitLength(mant)
           least == 1 - f.bias
           lead == l - 1 + exp
           whole == Power[f.man]
<1>1. f.man \in Nat /\ f.bias \in Nat /\ whole \in Nat /\ whole >= 2 /\ Power[f.man + 1] = 2 * whole
      /\ f.man + 1 \in Nat
  <2>1. f.man \in Nat /\ f.bias \in Nat /\ whole \in Nat /\ whole >= 2
    BY LaneIs DEF IsIeee
  <2> QED
    BY <2>1, PowerIs
<1>2. l \in Nat /\ l >= 1 /\ l < MantBits /\ mant < Power[l] /\ mant >= Power[l - 1]
      /\ MantBits \in Nat /\ l - 1 \in Nat
  BY BitLengthIs, WideLanes
<1>3. place = (IF lead >= least THEN lead ELSE least) - f.man
  BY Zenon DEF LastPlace
<1> HIDE DEF l
<1>4. place \in Int /\ place >= least - f.man /\ place >= lead - f.man
      /\ (place # least - f.man => place = lead - f.man)
  BY <1>1, <1>2, <1>3
<1>5. CASE place <= exp
  <2> DEFINE d == exp - place
             p == Power[d]
  <2>1. d \in Nat /\ l + d <= f.man + 1 /\ (place # least - f.man => (l - 1) + d = f.man)
        /\ l + d \in Nat
    BY <1>1, <1>2, <1>4, <1>5
  <2> HIDE DEF d
  <2>2. p \in Nat /\ p >= 1 /\ Power[l] \in Nat /\ Power[l - 1] \in Nat
    BY <1>2, <2>1, PowerIs
  <2>3. Power[l] * p <= 2 * whole
    <3>1. Power[l + d] = Power[l] * p
      BY <1>2, <2>1, PowerAdds
    <3>2. Power[l + d] <= Power[f.man + 1]
      BY <1>1, <2>1, PowerGrows
    <3> QED
      BY <1>1, <3>1, <3>2
  <2>4. place # least - f.man => Power[l - 1] * p = whole
    <3>1. Power[(l - 1) + d] = Power[l - 1] * p
      BY <1>2, <2>1, PowerAdds
    <3> QED
      BY <2>1, <3>1
  <2>5. u = mant * p
    BY <1>5, Zenon DEF Units, d
  <2> HIDE DEF p, least, lead
  <2>6. mant * p <= Power[l] * p /\ Power[l - 1] * p <= mant * p /\ mant * p \in Nat
    BY <1>2, <2>2
  <2> HIDE DEF whole
  <2>7. u \in Nat /\ u <= Power[f.man + 1]
    <3>1. Power[l] * p \in Nat
      BY <2>2
    <3> QED
      BY <1>1, <2>3, <2>5, <2>6, <3>1
  <2>8. u < whole => place = least - f.man
    BY <1>1, <2>4, <2>5, <2>6
  <2> QED
    BY <1>4, <2>7, <2>8 DEF least, whole
<1>6. CASE ~(place <= exp)
  <2> DEFINE d == place - exp
             p == Power[d]
             q == mant \div p
  <2>1. d \in Nat /\ l <= f.man + 1 + d /\ (place # least - f.man => l - 1 = f.man + d)
        /\ f.man + d \in Nat
    BY <1>1, <1>2, <1>4, <1>6
  <2>2. u = RoundShift(mant, d, neg, "nearest_even")
    BY <1>6, Zenon DEF Units
  <2> HIDE DEF d
  <2>3. p \in Nat /\ p >= 1 /\ Power[l] \in Nat /\ Power[l - 1] \in Nat
    BY <1>2, <2>1, PowerIs
  <2>4. CASE d >= MantBits
    <3>1. u = 0 \/ u = 1
      BY <2>2, <2>4 DEF RoundShift, RoundFar, Bumped
    <3>2. place = least - f.man
      BY <1>1, <1>2, <2>1, <2>4
    <3> QED
      BY <1>1, <1>4, <3>1, <3>2
  <2>5. CASE ~(d >= MantBits)
    <3>1. u = q \/ u = q + 1
      <4>1. u = RoundUnit(mant, p, neg, "nearest_even")
        BY <2>2, <2>5, Zenon DEF RoundShift
      <4> HIDE DEF p
      <4> QED
        BY <2>3, <4>1, RoundsBeside
    <3>2. Power[l] <= (2 * whole) * p
      <4>1. Power[l] <= Power[f.man + 1 + d]
        BY <1>1, <1>2, <2>1, PowerGrows
      <4>2. Power[(f.man + 1) + d] = Power[f.man + 1] * p
        BY <1>1, <2>1, PowerAdds
      <4> QED
        BY <1>1, <4>1, <4>2
    <3>3. place # least - f.man => Power[l - 1] = whole * p
      <4>1. Power[f.man + d] = whole * p
        BY <1>1, <2>1, PowerAdds
      <4> QED
        BY <2>1, <4>1
    <3> HIDE DEF p, least, lead, whole
    <3>4. q \in Nat /\ (mant < (2 * whole) * p => q < 2 * whole) /\ (whole * p <= mant => whole <= q)
      <4>1. p > 0
        BY <2>3
      <4> QED
        BY <1>1, <2>3, <4>1, QuotientBetween
    <3> HIDE DEF q
    <3>5. (2 * whole) * p \in Nat /\ whole * p \in Nat
      BY <1>1, <2>3
    <3>6. u \in Nat /\ u <= Power[f.man + 1]
      BY <1>1, <1>2, <2>3, <3>1, <3>2, <3>4, <3>5
    <3>7. u < whole => place = least - f.man
      BY <1>1, <1>2, <2>3, <3>1, <3>3, <3>4, <3>5
    <3> QED
      BY <1>4, <3>6, <3>7 DEF least, whole
  <2> QED
    BY <2>4, <2>5
<1> QED
  BY <1>5, <1>6

LEMMA RoundedIsPattern ==
  ASSUME NEW f, IsIeee(f), NEW neg \in BOOLEAN, NEW mant \in Nat, mant < Power[MantBits - 1],
         NEW exp \in Int
  PROVE  Rne(Fin(neg, mant, exp), f) \in Patterns(f)
<1> DEFINE v == Fin(neg, mant, exp)
           least == 1 - f.bias - f.man
<1>1. \A x : Value(x).value = x
  BY DEF Value
<1>2. f.man \in Nat /\ f.bias \in Nat /\ f.bias >= 1 /\ Power[f.man] \in Nat /\ Power[f.man] >= 2
      /\ Power[f.man + 1] = 2 * Power[f.man]
  <2>1. f.man \in Nat /\ f.bias \in Nat /\ f.bias >= 1 /\ Power[f.man] \in Nat /\ Power[f.man] >= 2
    BY LaneIs DEF IsIeee
  <2> QED
    BY <2>1, PowerIs
<1>3. Zero(neg) \in Patterns(f)
  BY ZeroDecoded DEF IsIeee
<1>4. Infinity(f, neg) \in Patterns(f)
  <2>1. AllOnes(f.exp) \in Nat /\ AllOnes(f.man) \in Nat
    BY <1>2, LaneIs DEF IsIeee
  <2> QED
    BY <2>1 DEF Infinity, Patterns
<1>5. CASE mant = 0
  <2>1. v.class = "fin" /\ v.mant = 0 /\ v.neg = neg
    BY <1>5, FormsAre
  <2>2. EncodeFloat(v, f, "nearest_even", "none") = Value(Zero(neg))
    <3> HIDE DEF v
    <3> QED
      BY <2>1 DEF EncodeFloat, RoundToFloat
  <2> HIDE DEF v
  <2> QED
    BY <1>1, <1>3, <2>2 DEF Rne, v
<1>6. CASE mant > 0
  <2> DEFINE place == LastPlace(mant, exp, f)
             u == Units(mant, exp, place, neg)
  <2>1. /\ u \in Nat /\ u <= Power[f.man + 1] /\ place \in Int /\ place >= least
        /\ u < Power[f.man] => place = least
    BY <1>6, UnitsBound
  <2>2. Encoded(Fin(neg, mant, exp), f) = Carry(neg, u, place, f, "nearest_even", "none")
    <3> HIDE DEF place
    <3>1. \A p : p = LastPlace(mant, exp, f) =>
            Encoded(Fin(neg, mant, exp), f)
              = Carry(neg, Units(mant, exp, p, neg), p, f, "nearest_even", "none")
      BY <1>6, EncodedIs
    <3> QED
      BY <3>1 DEF place
  <2> HIDE DEF place, u
  <2> DEFINE Rounded(k, p) == Carry(neg, k, p, f, "nearest_even", "none").value
  <2>3. ASSUME NEW k \in Nat, k > 0, k < Power[f.man + 1], NEW p \in Int, p >= least,
               k < Power[f.man] => p = least
        PROVE  Rounded(k, p) \in Patterns(f)
    <3>1. CASE p + f.man <= f.bias
      <4> DEFINE q == [neg |-> neg, e |-> IF k < Power[f.man] THEN 0 ELSE p + f.man + f.bias,
                       m |-> IF k < Power[f.man] THEN k ELSE k - Power[f.man]]
      <4>1. Carry(neg, k, p, f, "nearest_even", "none") = Value(q) /\ q \in Patterns(f)
        BY <2>3, <3>1, Packed
      <4> HIDE DEF q
      <4> QED
        BY <1>1, <4>1
    <3>2. CASE p + f.man > f.bias
      <4>1. k >= Power[f.man]
        BY <1>2, <2>3, <3>2
      <4>2. Carry(neg, k, p, f, "nearest_even", "none") = Value(Infinity(f, neg))
        BY <2>3, <3>2, <4>1, Overflown
      <4> QED
        BY <1>1, <1>4, <4>2
    <3> QED
      BY <1>2, <3>1, <3>2
  <2>4. Rne(Fin(neg, mant, exp), f) = Rounded(u, place)
    BY <2>2 DEF Rne, Encoded
  <2>5. CASE u = 0
    <3>1. ~(u >= Power[f.man + 1])
      BY <1>2, <2>5
    <3>2. Carry(neg, u, place, f, "nearest_even", "none") = Value(Zero(neg))
      BY <2>5, <3>1, Zenon DEF Carry, Pack
    <3> QED
      BY <1>1, <1>3, <2>4, <3>2
  <2>6. CASE u > 0 /\ u < Power[f.man + 1]
    <3> HIDE DEF Rounded
    <3> QED
      BY <2>1, <2>3, <2>4, <2>6
  <2>7. CASE u = Power[f.man + 1]
    <3> DEFINE k == Power[f.man]
               p == place + 1
    <3>1. u >= Power[f.man + 1] /\ u \div 2 = k /\ ~(k >= Power[f.man + 1])
      BY <1>2, <2>7
    <3>2. Carry(neg, u, place, f, "nearest_even", "none") = Pack(neg, k, p, f, "nearest_even", "none")
      BY <3>1, Zenon DEF Carry
    <3>3. Carry(neg, k, p, f, "nearest_even", "none") = Pack(neg, k, p, f, "nearest_even", "none")
      BY <3>1, Zenon DEF Carry
    <3>4. k \in Nat /\ k > 0 /\ k < Power[f.man + 1] /\ ~(k < Power[f.man]) /\ p \in Int /\ p >= least
      BY <1>2, <2>1
    <3>5. Rounded(k, p) \in Patterns(f)
      <4> HIDE DEF k, p, Rounded
      <4>1. k < Power[f.man] => p = least
        BY <3>4
      <4> QED
        BY <2>3, <3>4, <4>1
    <3> QED
      BY <2>4, <3>2, <3>3, <3>5
  <2> QED
    BY <1>2, <2>1, <2>5, <2>6, <2>7
<1> QED
  BY <1>5, <1>6

-----------------------------------------------------------------------------
\* The lanes of a result, by the lanes of the operands.
IsNan(x, f) == DecodeFloat(x, f).class = "nan"
NanOf(f) == Rne(TheNan, f)

\* Two patterns of opposite signs, or NaNs; or zeros of any sign.
Opposite(x, y, f) ==
  /\ IsFields(x) /\ IsFields(y)
  /\ y = Minus(x) \/ (IsNan(x, f) /\ IsNan(y, f))
AlikeOpposite(x, y, f) ==
  /\ IsFields(x) /\ IsFields(y)
  /\ y = Minus(x) \/ (IsNan(x, f) /\ IsNan(y, f)) \/ (IsZero(x) /\ IsZero(y))

LEMMA NanOfIs ==
  ASSUME NEW f, IsIeee(f)
  PROVE  NanOf(f) \in Patterns(f) /\ IsFields(NanOf(f)) /\ IsNan(NanOf(f), f)
<1> DEFINE h == Power[f.man - 1]
           r == [neg |-> FALSE, e |-> AllOnes(f.exp), m |-> h]
<1>1. /\ f.man \in Nat /\ f.man >= 1 /\ AllOnes(f.exp) \in Nat /\ AllOnes(f.man) = Power[f.man] - 1
      /\ f.nan = "ieee" /\ f.man - 1 \in Nat
  BY LaneIs DEF IsIeee
<1>2. h \in Nat /\ h >= 1 /\ Power[f.man] = 2 * h
  <2>1. (f.man - 1) + 1 = f.man
    BY <1>1
  <2> QED
    BY <1>1, <2>1, PowerIs
<1>3. TheNan.class = "nan" /\ TheNan.neg = FALSE /\ TheNan.m = 1 /\ TheNan.bits = 1
  BY DEF TheNan, Nan
<1>4. TopOfPayload(TheNan, f) = h
  <2>1. TopOfPayload(TheNan, f) = 1 * Power[f.man - 1]
    BY <1>1, <1>3 DEF TopOfPayload
  <2> QED
    BY <1>2, <2>1
<1> HIDE DEF h
<1>5. QuietNan(TheNan, f) = r
  <2>1. h >= h
    BY <1>2
  <2> QED
    BY <1>3, <1>4, <2>1, Zenon DEF QuietNan, h
<1>6. NanOf(f) = r
  <2>1. EncodeFloat(TheNan, f, "nearest_even", "none") = Value(r)
    <3> HIDE DEF r
    <3> QED
      BY <1>1, <1>3, <1>5 DEF EncodeFloat, EncodeNan
  <2> HIDE DEF r
  <2> QED
    BY <2>1 DEF NanOf, Rne, Value
<1>7. r \in Patterns(f) /\ r.e = AllOnes(f.exp) /\ r.m = h /\ r.neg = FALSE
  BY <1>1, <1>2 DEF Patterns
<1>8. IsFields(r)
  BY DEF IsFields
<1>9. IsNan(r, f)
  <2> HIDE DEF r
  <2>1. ~(r.m = 0)
    BY <1>2, <1>7
  <2>2. DecodeFloat(r, f) = Nan(r.neg, r.m, f.man)
    BY <1>1, <1>7, <2>1, Zenon DEF DecodeFloat
  <2> QED
    BY <2>2, FormsAre DEF IsNan
<1> QED
  BY <1>6, <1>7, <1>8, <1>9

LEMMA NanIsDecoded == IsDecoded(TheNan)
<1> DEFINE n == FALSE
<1>1. n \in BOOLEAN
  OBVIOUS
<1> HIDE DEF n
<1>2. \A a, b : IsDecoded(Nan(n, a, b))
  BY <1>1, MinusForms
<1> QED
  BY <1>2 DEF TheNan, n

LEMMA ReflectedRounds ==
  ASSUME NEW f, IsIeee(f), NEW s, NEW t, Reflected(s, t)
  PROVE  Opposite(Rne(s, f), Rne(t, f), f) /\ IsDecoded(s) /\ IsDecoded(t)
<1>1. f.nan = "ieee" /\ f.hasInf
  BY DEF IsIeee, IsLane
<1>2. CASE s = TheNan /\ t = TheNan
  BY <1>2, NanOfIs, NanIsDecoded DEF NanOf, Opposite
<1>3. CASE IsDecoded(s) /\ t = Minus(s)
  <2>1. IsFields(Rne(s, f)) /\ Rne(t, f) = Minus(Rne(s, f)) /\ IsDecoded(t)
    BY <1>1, <1>3, MinusRounded, DecodedIs
  <2>2. IsFields(Rne(t, f))
    BY <2>1, MinusFields
  <2> QED
    BY <1>3, <2>1, <2>2 DEF Opposite
<1> QED
  BY <1>2, <1>3 DEF Reflected

LEMMA NoughtRounds ==
  ASSUME NEW f, NEW n \in BOOLEAN, NEW a
  PROVE  IsZero(Rne(Fin(n, 0, a), f)) /\ IsFields(Rne(Fin(n, 0, a), f))
<1> DEFINE v == Fin(n, 0, a)
<1>1. v.class = "fin" /\ v.mant = 0 /\ v.neg = n
  BY FormsAre
<1> HIDE DEF v
<1>2. EncodeFloat(v, f, "nearest_even", "none") = Value(Zero(n))
  BY <1>1 DEF EncodeFloat, RoundToFloat
<1>3. Rne(v, f) = Zero(n)
  BY <1>2 DEF Rne, Value
<1>4. IsZero(Zero(n)) /\ IsFields(Zero(n))
  BY DEF IsZero, Zero, IsFields
<1> QED
  BY <1>3, <1>4 DEF v

LEMMA MinusOperand ==
  ASSUME NEW x, NEW y, NEW f, Opposite(x, y, f)
  PROVE  LET v == DecodeFloat(x, f)
             w == DecodeFloat(y, f)
         IN  /\ IsDecoded(v) /\ IsDecoded(w)
             /\ (v.class = "nan" /\ w.class = "nan") \/ (v.class # "nan" /\ w = Minus(v) /\ w.class = v.class)
<1> DEFINE v == DecodeFloat(x, f)
           w == DecodeFloat(y, f)
<1>1. IsDecoded(v) /\ IsDecoded(w)
  BY MinusDecodes DEF Opposite
<1>2. CASE y = Minus(x)
  <2>1. w = Minus(v)
    BY <1>2, MinusDecodes DEF Opposite
  <2>2. w.class = v.class
    BY <1>1, <2>1, DecodedIs
  <2> HIDE DEF v, w
  <2> QED
    BY <1>1, <2>1, <2>2 DEF v, w
<1>3. CASE IsNan(x, f) /\ IsNan(y, f)
  BY <1>1, <1>3 DEF IsNan
<1> QED
  BY <1>2, <1>3 DEF Opposite

\* The operations on patterns.
LEMMA ArithIs ==
  ASSUME NEW x, NEW y, NEW f, NEW v, v = DecodeFloat(x, f), NEW w, w = DecodeFloat(y, f)
  PROVE  /\ v.class = "nan" \/ w.class = "nan" =>
              /\ WideArith("add", x, y, f) = NanOf(f) /\ WideArith("mul", x, y, f) = NanOf(f)
              /\ WideArith("div", x, y, f) = NanOf(f)
         /\ v.class # "nan" /\ w.class # "nan" =>
              /\ WideArith("add", x, y, f) = Rne(ExactSum(v, w), f)
              /\ WideArith("mul", x, y, f) = Rne(ExactProduct(v, w), f)
              /\ WideArith("div", x, y, f) = Rne(ExactQuotient(v, w), f)
<1>1. CASE v.class = "nan" \/ w.class = "nan"
  BY <1>1 DEF WideArith, ExactResult, NanOf, TheNan
<1>2. CASE v.class # "nan" /\ w.class # "nan"
  BY <1>2 DEF WideArith, ExactResult
<1> QED
  BY <1>1, <1>2

LEMMA SubIsAdd ==
  ASSUME NEW x, NEW y, NEW f, IsFields(y)
  PROVE  WideArith("sub", x, y, f) = WideArith("add", x, Minus(y), f)
<1> DEFINE v == DecodeFloat(x, f)
           w == DecodeFloat(y, f)
<1>1. DecodeFloat(Minus(y), f) = Minus(w) /\ Minus(w).class = w.class
  BY MinusDecodes, DecodedIs
<1>2. WideArith("sub", x, y, f) = Rne(ExactResult("sub", v, w), f)
      /\ WideArith("add", x, Minus(y), f) = Rne(ExactResult("add", v, Minus(w)), f)
  BY <1>1 DEF WideArith
<1> HIDE DEF v, w
<1>3. ExactResult("sub", v, w) = ExactResult("add", v, Minus(w))
  BY <1>1 DEF ExactResult, Minus
<1> QED
  BY <1>2, <1>3

LEMMA MulOpposite ==
  ASSUME NEW f, IsIeee(f), NEW x, IsFields(x), NEW y, NEW z, Opposite(y, z, f)
  PROVE  /\ Opposite(WideArith("mul", x, y, f), WideArith("mul", x, z, f), f)
         /\ Opposite(WideArith("mul", y, x, f), WideArith("mul", z, x, f), f)
<1> DEFINE u == DecodeFloat(x, f)
           v == DecodeFloat(y, f)
           w == DecodeFloat(z, f)
<1>1. IsDecoded(u) /\ IsDecoded(v) /\ IsDecoded(w)
      /\ ((v.class = "nan" /\ w.class = "nan") \/ (v.class # "nan" /\ w = Minus(v) /\ w.class = v.class))
  BY MinusDecodes, MinusOperand
<1>2. CASE u.class = "nan" \/ v.class = "nan"
  <2>1. u.class = "nan" \/ (v.class = "nan" /\ w.class = "nan")
    BY <1>1, <1>2
  <2>2. /\ WideArith("mul", x, y, f) = NanOf(f) /\ WideArith("mul", x, z, f) = NanOf(f)
        /\ WideArith("mul", y, x, f) = NanOf(f) /\ WideArith("mul", z, x, f) = NanOf(f)
    BY <2>1, ArithIs
  <2> QED
    BY <2>2, NanOfIs DEF Opposite
<1>3. CASE u.class # "nan" /\ v.class # "nan"
  <2>1. w = Minus(v) /\ w.class # "nan"
    BY <1>1, <1>3
  <2>2. /\ WideArith("mul", x, y, f) = Rne(ExactProduct(u, v), f)
        /\ WideArith("mul", x, z, f) = Rne(ExactProduct(u, w), f)
        /\ WideArith("mul", y, x, f) = Rne(ExactProduct(v, u), f)
        /\ WideArith("mul", z, x, f) = Rne(ExactProduct(w, u), f)
    BY <1>3, <2>1, ArithIs
  <2>3. Reflected(ExactProduct(u, v), ExactProduct(u, w)) /\ Reflected(ExactProduct(v, u), ExactProduct(w, u))
    <3> HIDE DEF u, v, w
    <3> QED
      BY <1>1, <1>3, <2>1, ProductMinus
  <2> HIDE DEF u, v, w
  <2> QED
    BY <2>2, <2>3, ReflectedRounds
<1> QED
  BY <1>2, <1>3

LEMMA MulSame ==
  ASSUME NEW f, NEW x, IsFields(x), NEW y, IsFields(y)
  PROVE  WideArith("mul", Minus(x), Minus(y), f) = WideArith("mul", x, y, f)
<1> DEFINE v == DecodeFloat(x, f)
           w == DecodeFloat(y, f)
<1>1. /\ IsDecoded(v) /\ IsDecoded(w)
      /\ DecodeFloat(Minus(x), f) = Minus(v) /\ DecodeFloat(Minus(y), f) = Minus(w)
      /\ Minus(v).class = v.class /\ Minus(w).class = w.class
  BY MinusDecodes, DecodedIs
<1>2. CASE v.class = "nan" \/ w.class = "nan"
  <2>1. WideArith("mul", x, y, f) = NanOf(f)
    BY <1>2, ArithIs
  <2>2. WideArith("mul", Minus(x), Minus(y), f) = NanOf(f)
    BY <1>1, <1>2, ArithIs
  <2> QED
    BY <2>1, <2>2
<1>3. CASE v.class # "nan" /\ w.class # "nan"
  <2>1. WideArith("mul", x, y, f) = Rne(ExactProduct(v, w), f)
    BY <1>3, ArithIs
  <2>2. WideArith("mul", Minus(x), Minus(y), f) = Rne(ExactProduct(Minus(v), Minus(w)), f)
    BY <1>1, <1>3, ArithIs
  <2>3. ExactProduct(Minus(v), Minus(w)) = ExactProduct(v, w)
    BY <1>1, <1>3, ProductMinus
  <2> QED
    BY <2>1, <2>2, <2>3
<1> QED
  BY <1>2, <1>3

LEMMA DivOpposite ==
  ASSUME NEW f, IsIeee(f), NEW x, IsFields(x), NEW y, NEW z, Opposite(y, z, f)
  PROVE  Opposite(WideArith("div", y, x, f), WideArith("div", z, x, f), f)
<1> DEFINE u == DecodeFloat(x, f)
           v == DecodeFloat(y, f)
           w == DecodeFloat(z, f)
<1>1. IsDecoded(u) /\ IsDecoded(v) /\ IsDecoded(w)
      /\ ((v.class = "nan" /\ w.class = "nan") \/ (v.class # "nan" /\ w = Minus(v) /\ w.class = v.class))
  BY MinusDecodes, MinusOperand
<1>2. CASE u.class = "nan" \/ v.class = "nan"
  <2>1. u.class = "nan" \/ (v.class = "nan" /\ w.class = "nan")
    BY <1>1, <1>2
  <2>2. WideArith("div", y, x, f) = NanOf(f) /\ WideArith("div", z, x, f) = NanOf(f)
    BY <2>1, ArithIs
  <2> QED
    BY <2>2, NanOfIs DEF Opposite
<1>3. CASE u.class # "nan" /\ v.class # "nan"
  <2>1. w = Minus(v) /\ w.class # "nan"
    BY <1>1, <1>3
  <2>2. /\ WideArith("div", y, x, f) = Rne(ExactQuotient(v, u), f)
        /\ WideArith("div", z, x, f) = Rne(ExactQuotient(w, u), f)
    BY <1>3, <2>1, ArithIs
  <2>3. Reflected(ExactQuotient(v, u), ExactQuotient(w, u))
    <3> HIDE DEF u, v, w
    <3> QED
      BY <1>1, <1>3, <2>1, QuotientMinus
  <2> HIDE DEF u, v, w
  <2> QED
    BY <2>2, <2>3, ReflectedRounds
<1> QED
  BY <1>2, <1>3

\* What a pattern of a lane with infinities stands for.
LEMMA PatternIs ==
  ASSUME NEW f, IsIeee(f), NEW q \in Patterns(f)
  PROVE  LET v == DecodeFloat(q, f)
         IN  /\ IsFields(q) /\ IsValue(v)
             /\ v.class = "fin" => /\ v.mant < Power[f.man + 1]
                                   /\ v.exp >= 1 - f.bias - f.man /\ v.exp <= f.bias - f.man
             /\ IsZero(q) <=> v.class = "fin" /\ v.mant = 0
             /\ IsZero(q) => v = Fin(q.neg, 0, 1 - f.bias - f.man)
<1> DEFINE v == DecodeFloat(q, f)
<1>1. /\ f.bias \in Nat /\ f.bias >= 1 /\ f.man \in Nat /\ AllOnes(f.exp) = 2 * f.bias + 1
      /\ AllOnes(f.man) = Power[f.man] - 1 /\ Power[f.man] \in Nat /\ Power[f.man] >= 2
      /\ f.nan = "ieee"
  BY LaneIs DEF IsIeee
<1>2. Power[f.man + 1] = 2 * Power[f.man]
  BY <1>1, PowerIs
<1>3. /\ q.neg \in BOOLEAN /\ q.e \in 0..(2 * f.bias + 1) /\ q.m \in 0..(Power[f.man] - 1)
      /\ IsFields(q)
  BY <1>1 DEF Patterns, IsFields
<1>4. IsDecoded(v)
  BY <1>3, MinusDecodes
<1>5. CASE q.e = AllOnes(f.exp)
  <2>1. v = Inf(q.neg) \/ v = Nan(q.neg, q.m, f.man)
    BY <1>1, <1>5 DEF DecodeFloat
  <2>2. v.class # "fin" /\ ~IsZero(q)
    BY <1>1, <1>5, <2>1, FormsAre DEF IsZero
  <2> QED
    BY <1>3, <1>4, <2>2 DEF IsValue
<1>6. CASE q.e = 0
  <2>1. v = Fin(q.neg, q.m, 1 - f.bias - f.man)
    BY <1>1, <1>6 DEF DecodeFloat
  <2>2. v.class = "fin" /\ v.mant = q.m /\ v.exp = 1 - f.bias - f.man /\ (IsZero(q) <=> q.m = 0)
    BY <1>6, <2>1, FormsAre DEF IsZero
  <2> HIDE DEF v
  <2> QED
    BY <1>1, <1>2, <1>3, <1>4, <2>1, <2>2 DEF IsValue, v
<1>7. CASE q.e # 0 /\ q.e # AllOnes(f.exp)
  <2>1. v = Fin(q.neg, q.m + Power[f.man], q.e - f.bias - f.man)
    BY <1>1, <1>7 DEF DecodeFloat
  <2>2. v.class = "fin" /\ v.mant = q.m + Power[f.man] /\ v.exp = q.e - f.bias - f.man /\ ~IsZero(q)
    BY <1>7, <2>1, FormsAre DEF IsZero
  <2> HIDE DEF v
  <2>3. v.mant \in Nat /\ v.mant # 0 /\ v.exp \in Int /\ v.mant < Power[f.man + 1]
        /\ v.exp >= 1 - f.bias - f.man /\ v.exp <= f.bias - f.man
    BY <1>1, <1>2, <1>3, <1>7, <2>2
  <2> QED
    BY <1>3, <1>4, <2>2, <2>3 DEF IsValue, v
<1> QED
  BY <1>5, <1>6, <1>7

LEMMA ZeroIs ==
  ASSUME NEW f, IsIeee(f), NEW x, IsFields(x), IsZero(x)
  PROVE  x \in Patterns(f) /\ \E n \in BOOLEAN : DecodeFloat(x, f) = Fin(n, 0, 1 - f.bias - f.man)
<1>1. x = Zero(x.neg) /\ x.neg \in BOOLEAN
  BY DEF IsFields, IsZero, Zero
<1>2. x \in Patterns(f)
  BY <1>1, ZeroDecoded DEF IsIeee
<1>3. DecodeFloat(x, f) = Fin(x.neg, 0, 1 - f.bias - f.man)
  BY <1>2, PatternIs
<1> QED
  BY <1>1, <1>2, <1>3

LEMMA MulAlike ==
  ASSUME NEW f, IsIeee(f), NEW x \in Patterns(f), NEW y, NEW z, AlikeOpposite(y, z, f)
  PROVE  AlikeOpposite(WideArith("mul", x, y, f), WideArith("mul", x, z, f), f)
<1> DEFINE u == DecodeFloat(x, f)
           exp == 1 - f.bias - f.man
<1>1. IsFields(x) /\ IsValue(u)
  BY PatternIs
<1>2. CASE Opposite(y, z, f)
  BY <1>1, <1>2, MulOpposite DEF Opposite, AlikeOpposite
<1>3. CASE IsZero(y) /\ IsZero(z)
  <2>1. PICK n \in BOOLEAN : DecodeFloat(y, f) = Fin(n, 0, exp)
    BY <1>3, ZeroIs DEF AlikeOpposite
  <2>2. PICK k \in BOOLEAN : DecodeFloat(z, f) = Fin(k, 0, exp)
    BY <1>3, ZeroIs DEF AlikeOpposite
  <2> HIDE DEF exp
  <2> DEFINE v == Fin(n, 0, exp)
             w == Fin(k, 0, exp)
  <2>3. /\ v.class = "fin" /\ v.mant = 0 /\ v.neg = n /\ v.exp = exp
        /\ w.class = "fin" /\ w.mant = 0 /\ w.neg = k /\ w.exp = exp
    BY FormsAre
  <2> HIDE DEF v, w, u
  <2>4. CASE u.class = "nan"
    <3>1. WideArith("mul", x, y, f) = NanOf(f) /\ WideArith("mul", x, z, f) = NanOf(f)
      BY <2>4, ArithIs DEF u
    <3> QED
      BY <3>1, NanOfIs DEF AlikeOpposite
  <2>5. CASE u.class # "nan"
    <3>1. WideArith("mul", x, y, f) = Rne(ExactProduct(u, v), f)
          /\ WideArith("mul", x, z, f) = Rne(ExactProduct(u, w), f)
      BY <2>1, <2>2, <2>3, <2>5, ArithIs DEF u, v, w
    <3>2. CASE u.class = "inf"
      <4>1. ExactProduct(u, v) = TheNan /\ ExactProduct(u, w) = TheNan
        BY <2>3, <3>2 DEF ExactProduct, IsNought, TheNan
      <4> QED
        BY <3>1, <4>1, NanOfIs DEF NanOf, AlikeOpposite
    <3>3. CASE u.class # "inf"
      <4>1. u.mant * 0 = 0 /\ u.neg \in BOOLEAN
        BY <1>1, <2>5, <3>3, DecodedIs DEF IsValue, IsDecoded
      <4> DEFINE p == Apart(u, v)
                 q == Apart(u, w)
                 a == u.exp + exp
      <4>2. ExactProduct(u, v) = Fin(p, 0, a) /\ ExactProduct(u, w) = Fin(q, 0, a)
        BY <2>3, <3>3, <4>1 DEF ExactProduct
      <4>3. p \in BOOLEAN /\ q \in BOOLEAN
        BY DEF Apart
      <4> HIDE DEF p, q, a
      <4> QED
        BY <3>1, <4>2, <4>3, NoughtRounds DEF AlikeOpposite
    <3> QED
      BY <3>2, <3>3
  <2> QED
    BY <2>4, <2>5
<1> QED
  BY <1>2, <1>3 DEF Opposite, AlikeOpposite

LEMMA DivAlike ==
  ASSUME NEW f, IsIeee(f), QuotientBits \in Nat, NEW x \in Patterns(f), ~IsZero(x),
         NEW y, NEW z, AlikeOpposite(y, z, f)
  PROVE  AlikeOpposite(WideArith("div", y, x, f), WideArith("div", z, x, f), f)
<1> DEFINE u == DecodeFloat(x, f)
           exp == 1 - f.bias - f.man
<1>1. IsFields(x) /\ IsValue(u) /\ ~(u.class = "fin" /\ u.mant = 0)
  BY PatternIs
<1>2. CASE Opposite(y, z, f)
  BY <1>1, <1>2, DivOpposite DEF Opposite, AlikeOpposite
<1>3. CASE IsZero(y) /\ IsZero(z)
  <2>1. PICK n \in BOOLEAN : DecodeFloat(y, f) = Fin(n, 0, exp)
    BY <1>3, ZeroIs DEF AlikeOpposite
  <2>2. PICK k \in BOOLEAN : DecodeFloat(z, f) = Fin(k, 0, exp)
    BY <1>3, ZeroIs DEF AlikeOpposite
  <2> HIDE DEF exp
  <2> DEFINE v == Fin(n, 0, exp)
             w == Fin(k, 0, exp)
  <2>3. /\ v.class = "fin" /\ v.mant = 0 /\ v.neg = n /\ v.exp = exp
        /\ w.class = "fin" /\ w.mant = 0 /\ w.neg = k /\ w.exp = exp
    BY FormsAre
  <2> HIDE DEF v, w, u
  <2>4. CASE u.class = "nan"
    <3>1. WideArith("div", y, x, f) = NanOf(f) /\ WideArith("div", z, x, f) = NanOf(f)
      BY <2>4, ArithIs DEF u
    <3> QED
      BY <3>1, NanOfIs DEF AlikeOpposite
  <2>5. CASE u.class # "nan"
    <3>1. WideArith("div", y, x, f) = Rne(ExactQuotient(v, u), f)
          /\ WideArith("div", z, x, f) = Rne(ExactQuotient(w, u), f)
      BY <2>1, <2>2, <2>3, <2>5, ArithIs DEF u, v, w
    <3>2. ASSUME NEW r, r.class = "fin", r.mant = 0, r.exp = exp
          PROVE  \E a : ExactQuotient(r, u) = Fin(Apart(r, u), 0, a)
      <4>1. CASE u.class = "inf"
        <5>1. ExactQuotient(r, u) = Fin(Apart(r, u), 0, 0)
          BY <3>2, <4>1, Zenon DEF ExactQuotient
        <5> QED
          BY <5>1
      <4>2. CASE u.class # "inf"
        <5>1. u.mant \in Nat /\ u.mant # 0
          BY <1>1, <2>5, <4>2, DecodedIs DEF IsValue
        <5> DEFINE t == r.mant * Power[QuotientBits]
                   m == 2 * (t \div u.mant) + (IF t % u.mant = 0 THEN 0 ELSE 1)
                   a == r.exp - u.exp - QuotientBits - 1
        <5>2. ExactQuotient(r, u) = Fin(Apart(r, u), m, a)
          BY <3>2, <4>2, <5>1, Zenon DEF ExactQuotient
        <5>3. t = 0
          BY <3>2, PowerIs
        <5>4. m = 0
          <6> HIDE DEF t
          <6> DEFINE d == u.mant
          <6>1. d \in Nat /\ d > 0 /\ t \in Nat
            BY <5>1, <5>3
          <6> HIDE DEF d
          <6> DEFINE q == t \div d
                     low == t % d
          <6>2. q \in Nat /\ low \in 0..(d - 1) /\ t = q * d + low
            BY <6>1, Brackets
          <6> HIDE DEF q, low
          <6>3. q = 0 /\ low = 0
            <7>1. q > 0 => (q - 1) * d >= 0 /\ q * d = (q - 1) * d + d
              BY <6>1, <6>2
            <7> QED
              BY <5>3, <6>1, <6>2, <7>1
          <6> QED
            BY <6>3 DEF q, low, d
        <5> HIDE DEF m, a
        <5> QED
          BY <5>2, <5>4
      <4> QED
        BY <4>1, <4>2
    <3>3. PICK a : ExactQuotient(v, u) = Fin(Apart(v, u), 0, a)
      BY <2>3, <3>2
    <3>4. PICK b : ExactQuotient(w, u) = Fin(Apart(w, u), 0, b)
      BY <2>3, <3>2
    <3> DEFINE p == Apart(v, u)
               q == Apart(w, u)
    <3>5. p \in BOOLEAN /\ q \in BOOLEAN
      BY DEF Apart
    <3> HIDE DEF p, q
    <3>6. ExactQuotient(v, u) = Fin(p, 0, a) /\ ExactQuotient(w, u) = Fin(q, 0, b)
      BY <3>3, <3>4 DEF p, q
    <3> QED
      BY <3>1, <3>5, <3>6, NoughtRounds DEF AlikeOpposite
  <2> QED
    BY <2>4, <2>5
<1> QED
  BY <1>2, <1>3 DEF Opposite, AlikeOpposite

LEMMA AddAlike ==
  ASSUME NEW f, IsIeee(f), NEW x \in Patterns(f), NEW y \in Patterns(f),
         NEW p, NEW q, Opposite(x, p, f), Opposite(y, q, f)
  PROVE  AlikeOpposite(WideArith("add", x, y, f), WideArith("add", p, q, f), f)
<1> DEFINE v == DecodeFloat(x, f)
           w == DecodeFloat(y, f)
           r == DecodeFloat(p, f)
           s == DecodeFloat(q, f)
<1>1. IsValue(v) /\ IsValue(w)
  BY PatternIs
<1>2. /\ (v.class = "nan" /\ r.class = "nan") \/ (v.class # "nan" /\ r = Minus(v) /\ r.class = v.class)
      /\ (w.class = "nan" /\ s.class = "nan") \/ (w.class # "nan" /\ s = Minus(w) /\ s.class = w.class)
  BY MinusOperand
<1>3. CASE v.class = "nan" \/ w.class = "nan"
  <2>1. r.class = "nan" \/ s.class = "nan"
    BY <1>2, <1>3
  <2>2. WideArith("add", x, y, f) = NanOf(f) /\ WideArith("add", p, q, f) = NanOf(f)
    BY <1>3, <2>1, ArithIs
  <2> QED
    BY <2>2, NanOfIs DEF AlikeOpposite
<1>4. CASE v.class # "nan" /\ w.class # "nan"
  <2>1. r = Minus(v) /\ s = Minus(w) /\ r.class # "nan" /\ s.class # "nan"
    BY <1>2, <1>4
  <2> DEFINE a == ExactSum(v, w)
             b == ExactSum(r, s)
  <2>2. WideArith("add", x, y, f) = Rne(a, f) /\ WideArith("add", p, q, f) = Rne(b, f)
    BY <1>4, <2>1, ArithIs
  <2> HIDE DEF v, w, r, s
  <2>3. Reflected(a, b) \/ BothNought(a, b)
    BY <1>1, <1>4, <2>1, SumMinus
  <2> HIDE DEF a, b
  <2>4. CASE Reflected(a, b)
    BY <2>2, <2>4, ReflectedRounds DEF Opposite, AlikeOpposite
  <2>5. CASE BothNought(a, b)
    BY <2>2, <2>5, NoughtRounds DEF BothNought, AlikeOpposite
  <2> QED
    BY <2>3, <2>4, <2>5
<1> QED
  BY <1>3, <1>4

\* Sums and products of patterns are patterns, when the mantissa holds the exact ones.
ExactFits(f) ==
  IsIeee(f) /\ f.man + AllOnes(f.exp) < MantBits /\ 2 * f.man + 2 < MantBits

LEMMA InfinityIsPattern ==
  ASSUME NEW f, IsIeee(f), NEW n \in BOOLEAN
  PROVE  Rne(Inf(n), f) = Infinity(f, n) /\ Infinity(f, n) \in Patterns(f)
<1>1. f.hasInf /\ AllOnes(f.exp) \in Nat /\ AllOnes(f.man) \in Nat
  BY LaneIs DEF IsIeee, IsLane
<1>2. Inf(n).class = "inf" /\ Inf(n).neg = n
  BY FormsAre
<1>3. EncodeFloat(Inf(n), f, "nearest_even", "none") = Value(Infinity(f, n))
  BY <1>1, <1>2 DEF EncodeFloat, EncodeInf
<1>4. Rne(Inf(n), f) = Infinity(f, n)
  BY <1>3 DEF Rne, Value
<1>5. Infinity(f, n) \in Patterns(f)
  BY <1>1 DEF Infinity, Patterns
<1> QED
  BY <1>4, <1>5

\* What two finite values of a lane multiply to has fewer digits than are counted.
LEMMA ProductBounded ==
  ASSUME NEW f, ExactFits(f), NEW a \in Nat, a < Power[f.man + 1],
         NEW b \in Nat, b < Power[f.man + 1]
  PROVE  a * b \in Nat /\ a * b < Power[MantBits - 1]
<1> DEFINE p == Power[f.man + 1]
<1>1. p \in Nat /\ p * p <= Power[MantBits - 1] /\ Power[MantBits - 1] \in Nat
  <2>1. f.man + 1 \in Nat /\ MantBits - 1 \in Nat /\ (f.man + 1) + (f.man + 1) <= MantBits - 1
    BY LaneIs, WideLanes DEF ExactFits, IsIeee
  <2> DEFINE k == f.man + 1
  <2>2. Power[k + k] = Power[k] * Power[k]
    BY <2>1, PowerAdds
  <2>3. k + k \in Nat /\ k + k <= MantBits - 1
    BY <2>1
  <2> HIDE DEF k
  <2>4. Power[k + k] <= Power[MantBits - 1]
    BY <2>1, <2>3, PowerGrows
  <2> QED
    BY <2>1, <2>2, <2>4, PowerIs DEF k
<1>2. a < p /\ b < p
  OBVIOUS
<1> HIDE DEF p
<1>3. a * b \in Nat /\ a * b < p * p /\ p * p \in Nat
  <2>1. a * (p - b) >= 0 /\ a * p = a * b + a * (p - b) /\ (p - a) * p > 0
        /\ p * p = a * p + (p - a) * p /\ a * b \in Nat
    BY <1>1, <1>2
  <2> QED
    BY <1>1, <1>2, <2>1
<1> QED
  BY <1>1, <1>3

LEMMA MulIsPattern ==
  ASSUME NEW f, ExactFits(f), NEW x \in Patterns(f), NEW y \in Patterns(f)
  PROVE  WideArith("mul", x, y, f) \in Patterns(f)
<1> DEFINE v == DecodeFloat(x, f)
           w == DecodeFloat(y, f)
           p == Power[f.man + 1]
<1>1. IsIeee(f) /\ IsValue(v) /\ IsValue(w)
      /\ (v.class = "fin" => v.mant < p) /\ (w.class = "fin" => w.mant < p)
  BY PatternIs DEF ExactFits
<1>3. CASE v.class = "nan" \/ w.class = "nan"
  <2>1. WideArith("mul", x, y, f) = NanOf(f)
    BY <1>3, ArithIs
  <2> QED
    BY <1>1, <2>1, NanOfIs
<1>4. CASE v.class # "nan" /\ w.class # "nan"
  <2>1. WideArith("mul", x, y, f) = Rne(ExactProduct(v, w), f)
    BY <1>4, ArithIs
  <2> HIDE DEF v, w
  <2>2. CASE v.class = "inf" \/ w.class = "inf"
    <3> DEFINE n == Apart(v, w)
    <3>1. n \in BOOLEAN
      BY DEF Apart
    <3>2. ExactProduct(v, w) = TheNan \/ ExactProduct(v, w) = Inf(n)
      BY <2>2 DEF ExactProduct, TheNan
    <3> HIDE DEF n
    <3>3. NanOf(f) \in Patterns(f) /\ Rne(Inf(n), f) \in Patterns(f)
      BY <1>1, <3>1, NanOfIs, InfinityIsPattern
    <3> QED
      BY <2>1, <3>2, <3>3 DEF NanOf
  <2>3. CASE ~(v.class = "inf" \/ w.class = "inf")
    <3>1. /\ v.mant \in Nat /\ v.mant < p /\ v.exp \in Int
          /\ w.mant \in Nat /\ w.mant < p /\ w.exp \in Int
      BY <1>1, <1>4, <2>3, DecodedIs DEF IsValue
    <3> DEFINE n == Apart(v, w)
               m == v.mant * w.mant
               e == v.exp + w.exp
    <3>2. ExactProduct(v, w) = Fin(n, m, e)
      BY <2>3 DEF ExactProduct
    <3>3. n \in BOOLEAN /\ e \in Int
      BY <3>1 DEF Apart
    <3>4. m \in Nat /\ m < Power[MantBits - 1]
      BY <3>1, ProductBounded
    <3> HIDE DEF n, m, e
    <3> QED
      BY <1>1, <2>1, <3>2, <3>3, <3>4, RoundedIsPattern
  <2> QED
    BY <2>2, <2>3
<1> QED
  BY <1>3, <1>4

LEMMA AlignedBound ==
  ASSUME NEW v, IsValue(v), v.class = "fin", NEW k \in Nat, v.mant < Power[k],
         NEW exp \in Int, exp <= v.exp, NEW d \in Nat, v.exp - exp <= d
  PROVE  /\ Aligned(v, exp) \in Int
         /\ Aligned(v, exp) < Power[k + d] /\ -Aligned(v, exp) < Power[k + d]
<1> DEFINE j == v.exp - exp
           m == v.mant
           p == Power[j]
           r == Power[d]
<1>1. j \in Nat /\ j <= d /\ m \in Nat /\ v.neg \in BOOLEAN
  BY DEF IsValue, IsDecoded
<1>2. Aligned(v, exp) = (IF v.neg THEN -m ELSE m) * p
  BY Zenon DEF Aligned
<1> HIDE DEF j, m
<1>3. p \in Nat /\ p >= 1 /\ p <= r /\ r \in Nat /\ Power[k] \in Nat
  BY <1>1, PowerIs, PowerGrows
<1>4. Power[k + d] = Power[k] * r
  BY PowerAdds
<1> HIDE DEF p, r
<1>5. m < Power[k]
  BY DEF m
<1>6. (-m) * p = -(m * p) /\ m * p \in Nat /\ m * p < Power[k] * r
  <2> DEFINE q == Power[k]
  <2>1. q \in Nat /\ m < q
    BY <1>3, <1>5
  <2> HIDE DEF q
  <2>2. m * p <= m * r /\ m * r < q * r /\ m * p \in Nat /\ m * r \in Nat /\ q * r \in Nat
    <3>1. m * (r - p) >= 0 /\ m * r = m * p + m * (r - p) /\ (q - m) * r > 0
          /\ q * r = m * r + (q - m) * r
      BY <1>1, <1>3, <2>1
    <3> QED
      BY <1>1, <1>3, <2>1, <3>1
  <2> QED
    BY <1>1, <1>3, <2>2 DEF q
<1>7. Power[k] * r \in Nat
  BY <1>3
<1> QED
  BY <1>1, <1>2, <1>4, <1>6, <1>7

\* What two finite values of a lane add up to has fewer digits than are counted.
LEMMA SumBounded ==
  ASSUME NEW f, ExactFits(f), NEW v, NEW w, IsValue(v), IsValue(w),
         v.class = "fin", v.mant < Power[f.man + 1],
         v.exp >= 1 - f.bias - f.man, v.exp <= f.bias - f.man,
         w.class = "fin", w.mant < Power[f.man + 1],
         w.exp >= 1 - f.bias - f.man, w.exp <= f.bias - f.man, ~IsTaken(v, w)
  PROVE  LET e == Lower(v, w)
             s == Aligned(v, e) + Aligned(w, e)
             m == IF s < 0 THEN -s ELSE s
         IN  /\ \E sign \in BOOLEAN : ExactSum(v, w) = Fin(sign, m, e)
             /\ e \in Int /\ m \in Nat /\ m < Power[MantBits - 1]
<1> DEFINE e == Lower(v, w)
           a == Aligned(v, e)
           b == Aligned(w, e)
           d == 2 * f.bias - 1
           top == Power[f.man + 1 + d]
           n == v.neg /\ w.neg
<1>1. /\ f.man \in Nat /\ f.bias \in Nat /\ f.bias >= 1 /\ AllOnes(f.exp) = 2 * f.bias + 1
      /\ f.man + 1 \in Nat /\ MantBits - 1 \in Nat /\ f.man + 1 <= MantBits - 1
      /\ f.man + 2 * f.bias + 1 <= MantBits - 1
  BY LaneIs, WideLanes DEF ExactFits, IsIeee
<1>2. v.exp \in Int /\ w.exp \in Int /\ v.neg \in BOOLEAN /\ w.neg \in BOOLEAN
  BY DEF IsValue, IsDecoded
<1>3. e \in Int /\ e <= v.exp /\ e <= w.exp /\ d \in Nat /\ v.exp - e <= d /\ w.exp - e <= d
  BY <1>1, <1>2 DEF Lower
<1> HIDE DEF e, d
<1>4. a \in Int /\ a < top /\ -a < top /\ b \in Int /\ b < top /\ -b < top
  BY <1>1, <1>2, <1>3, AlignedBound
<1>5. top \in Nat /\ 2 * top <= Power[MantBits - 1] /\ Power[MantBits - 1] \in Nat
  <2> DEFINE k == f.man + 1 + d
  <2>1. k \in Nat /\ k + 1 <= MantBits - 1 /\ k + 1 \in Nat
    BY <1>1, <1>3 DEF d
  <2> HIDE DEF k
  <2>2. Power[k + 1] = 2 * Power[k] /\ Power[k] \in Nat
    BY <2>1, PowerIs
  <2>3. Power[k + 1] <= Power[MantBits - 1]
    BY <1>1, <2>1, PowerGrows
  <2> QED
    BY <1>1, <2>2, <2>3, PowerIs DEF k
<1>6. ExactSum(v, w) = Total(a, b, e, n)
  BY SumComputed DEF e
<1> HIDE DEF a, b, top
<1> DEFINE sign == IF a + b = 0 THEN n ELSE a + b < 0
           m == IF a + b < 0 THEN -(a + b) ELSE a + b
<1>7. ExactSum(v, w) = Fin(sign, m, e)
  BY <1>6, Zenon DEF Total
<1>8. m \in Nat /\ m < Power[MantBits - 1]
  BY <1>4, <1>5
<1>9. sign \in BOOLEAN
  <2>1. n \in BOOLEAN
    BY <1>2
  <2> HIDE DEF n
  <2>2. CASE a + b = 0
    BY <2>1, <2>2, Zenon
  <2>3. CASE a + b < 0
    <3>1. ~(a + b = 0) /\ (a + b < 0) = TRUE
      BY <1>4, <2>3
    <3> QED
      BY <3>1, Zenon
  <2>4. CASE a + b > 0
    <3>1. ~(a + b = 0) /\ (a + b < 0) = FALSE
      BY <1>4, <2>4
    <3> QED
      BY <3>1, Zenon
  <2> QED
    BY <1>4, <2>2, <2>3, <2>4
<1> HIDE DEF sign
<1> QED
  BY <1>3, <1>7, <1>8, <1>9 DEF a, b, e

LEMMA AddIsPattern ==
  ASSUME NEW f, ExactFits(f), NEW x \in Patterns(f), NEW y \in Patterns(f)
  PROVE  WideArith("add", x, y, f) \in Patterns(f)
<1> DEFINE v == DecodeFloat(x, f)
           w == DecodeFloat(y, f)
           least == 1 - f.bias - f.man
           most == f.bias - f.man
<1>1. /\ IsIeee(f) /\ IsValue(v) /\ IsValue(w)
      /\ v.class = "fin" => v.mant < Power[f.man + 1] /\ v.exp >= least /\ v.exp <= most
      /\ w.class = "fin" => w.mant < Power[f.man + 1] /\ w.exp >= least /\ w.exp <= most
  BY PatternIs DEF ExactFits
<1>2. /\ f.man \in Nat /\ f.bias \in Nat /\ f.bias >= 1 /\ AllOnes(f.exp) = 2 * f.bias + 1
      /\ f.man + 1 \in Nat /\ MantBits - 1 \in Nat /\ f.man + 1 <= MantBits - 1
      /\ f.man + 2 * f.bias + 1 <= MantBits - 1
  BY <1>1, LaneIs, WideLanes DEF ExactFits, IsIeee
<1>3. CASE v.class = "nan" \/ w.class = "nan"
  <2>1. WideArith("add", x, y, f) = NanOf(f)
    BY <1>3, ArithIs
  <2> QED
    BY <1>1, <2>1, NanOfIs
<1>4. CASE v.class # "nan" /\ w.class # "nan"
  <2>1. WideArith("add", x, y, f) = Rne(ExactSum(v, w), f)
    BY <1>4, ArithIs
  <2> HIDE DEF v, w
  <2>2. CASE IsTaken(v, w)
    <3>1. ExactSum(v, w) \in {TheNan, v, w}
      BY <2>2 DEF ExactSum, IsTaken, TheNan
    <3>2. ASSUME NEW u, IsValue(u), u.class # "nan", u.class = "fin" => u.mant < Power[f.man + 1]
          PROVE  Rne(u, f) \in Patterns(f)
      <4>1. CASE u.class = "inf"
        <5>1. PICK n \in BOOLEAN : u = Inf(n)
          BY <3>2, <4>1, DecodedIs DEF IsValue
        <5> QED
          BY <1>1, <5>1, InfinityIsPattern
      <4>2. CASE u.class = "fin"
        <5>1. u = Fin(u.neg, u.mant, u.exp) /\ u.neg \in BOOLEAN /\ u.mant \in Nat /\ u.exp \in Int
          BY <3>2, <4>2, FinMinus DEF IsValue, IsDecoded
        <5>2. u.mant < Power[MantBits - 1]
          <6>1. Power[f.man + 1] <= Power[MantBits - 1] /\ Power[f.man + 1] \in Nat
                /\ Power[MantBits - 1] \in Nat
            BY <1>2, PowerGrows, PowerIs
          <6> QED
            BY <3>2, <4>2, <5>1, <6>1
        <5>3. Rne(Fin(u.neg, u.mant, u.exp), f) \in Patterns(f)
          BY <1>1, <5>1, <5>2, RoundedIsPattern
        <5> QED
          BY <5>1, <5>3
      <4> QED
        BY <3>2, <4>1, <4>2, DecodedIs DEF IsValue
    <3> QED
      BY <1>1, <1>4, <2>1, <3>1, <3>2, NanOfIs DEF NanOf
  <2>3. CASE ~IsTaken(v, w)
    <3>1. v.class = "fin" /\ w.class = "fin"
      BY <1>1, <1>4, <2>3, DecodedIs DEF IsTaken, IsValue
    <3>2. PICK sign \in BOOLEAN, m \in Nat, e \in Int :
            ExactSum(v, w) = Fin(sign, m, e) /\ m < Power[MantBits - 1]
      BY <1>1, <2>3, <3>1, SumBounded
    <3> QED
      BY <1>1, <2>1, <3>2, RoundedIsPattern
  <2> QED
    BY <2>2, <2>3
<1> QED
  BY <1>3, <1>4

-----------------------------------------------------------------------------
\* The operators of the complex lane.
LEMMA LaneOps ==
  /\ \A x, y : /\ Add(x, y) = WideArith("add", x, y, Lane)
               /\ Sub(x, y) = WideArith("sub", x, y, Lane)
               /\ Mul(x, y) = WideArith("mul", x, y, Lane)
               /\ Div(x, y) = WideArith("div", x, y, Lane)
  /\ \A x : Neg(x) = Minus(x)
  /\ NanLane = NanOf(Lane) /\ PosInf = Infinity(Lane, FALSE)
<1>1. \A x, y : /\ Add(x, y) = WideArith("add", x, y, Lane)
                /\ Sub(x, y) = WideArith("sub", x, y, Lane)
                /\ Mul(x, y) = WideArith("mul", x, y, Lane)
                /\ Div(x, y) = WideArith("div", x, y, Lane)
  BY DEF Add, Sub, Mul, Div
<1> QED
  BY <1>1 DEF Neg, Minus, NanLane, NanOf, TheNan, PosInf

LEMMA LaneKinds ==
  ASSUME NEW x
  PROVE  /\ IsNanLane(x) <=> IsNan(x, Lane)
         /\ IsInf(x) <=> DecodeFloat(x, Lane).class = "inf"
         /\ IsFin(x) <=> DecodeFloat(x, Lane).class = "fin"
BY DEF IsNanLane, IsNan, IsInf, IsFin, IsFiniteIn

LEMMA KindsMinus ==
  ASSUME NEW x, IsFields(x)
  PROVE  /\ IsNanLane(Minus(x)) <=> IsNanLane(x)
         /\ IsInf(Minus(x)) <=> IsInf(x)
         /\ IsFin(Minus(x)) <=> IsFin(x)
         /\ IsZero(Minus(x)) <=> IsZero(x)
         /\ IsZero(Minus(x)) <=> IsZero(x)
<1>1. DecodeFloat(Minus(x), Lane).class = DecodeFloat(x, Lane).class
  BY MinusDecodes, DecodedIs
<1>2. Minus(x).e = x.e /\ Minus(x).m = x.m
  BY MinusFields
<1>3. IsZero(Minus(x)) <=> IsZero(x)
  BY <1>2 DEF IsZero
<1>4. IsNan(Minus(x), Lane) <=> IsNan(x, Lane)
  BY <1>1 DEF IsNan
<1> QED
  BY <1>1, <1>3, <1>4, LaneKinds

LEMMA OppositeMinus ==
  ASSUME NEW x, IsFields(x)
  PROVE  Opposite(x, Minus(x), Lane) /\ AlikeOpposite(x, Minus(x), Lane)
BY MinusFields DEF Opposite, AlikeOpposite

LEMMA MinusOpposite ==
  ASSUME NEW x, NEW y, Opposite(x, y, Lane)
  PROVE  Opposite(Minus(x), Minus(y), Lane)
<1>1. IsFields(x) /\ IsFields(y) /\ IsFields(Minus(x)) /\ IsFields(Minus(y))
  BY MinusFields DEF Opposite
<1>2. CASE y = Minus(x)
  BY <1>1, <1>2 DEF Opposite
<1>3. CASE IsNan(x, Lane) /\ IsNan(y, Lane)
  <2>1. IsNan(Minus(x), Lane) /\ IsNan(Minus(y), Lane)
    BY <1>1, <1>3, KindsMinus, LaneKinds
  <2> QED
    BY <1>1, <2>1 DEF Opposite
<1> QED
  BY <1>2, <1>3 DEF Opposite

LEMMA PatternMinus ==
  ASSUME IsIeee(Lane), NEW x \in Patterns(Lane)
  PROVE  Minus(x) \in Patterns(Lane) /\ IsFields(x)
<1>1. IsFields(x)
  BY PatternIs
<1>2. Minus(x) = [neg |-> ~x.neg, e |-> x.e, m |-> x.m]
  BY DEF Patterns, Minus
<1>3. x.e \in 0..AllOnes(Lane.exp) /\ x.m \in 0..AllOnes(Lane.man) /\ x.neg \in BOOLEAN
  BY DEF Patterns
<1>4. (~x.neg) \in BOOLEAN
  OBVIOUS
<1> QED
  BY <1>1, <1>2, <1>3, <1>4 DEF Patterns

\* The named patterns, and those with the sign of another.
LEMMA NamedPatterns ==
  ASSUME IsIeee(Lane)
  PROVE  /\ Unit \in Patterns(Lane) /\ PosInf \in Patterns(Lane)
         /\ Zero(FALSE) \in Patterns(Lane) /\ NanLane \in Patterns(Lane)
         /\ IsNanLane(NanLane) /\ IsZero(Zero(FALSE))
<1> DEFINE n == FALSE
<1>1. n \in BOOLEAN
  OBVIOUS
<1>2. Unit = [neg |-> n, e |-> Lane.bias, m |-> 0]
  BY DEF Unit, One
<1> HIDE DEF n
<1>3. Unit \in Patterns(Lane)
  <2>1. Lane.bias \in 0..AllOnes(Lane.exp) /\ 0 \in 0..AllOnes(Lane.man)
    BY LaneIs DEF IsIeee
  <2> QED
    BY <1>1, <1>2, <2>1 DEF Patterns
<1>4. Infinity(Lane, n) \in Patterns(Lane)
  BY <1>1, InfinityIsPattern
<1>5. Zero(n) \in Patterns(Lane)
  BY <1>1, ZeroDecoded DEF IsIeee
<1>6. NanOf(Lane) \in Patterns(Lane) /\ IsNan(NanOf(Lane), Lane)
  BY NanOfIs
<1>7. IsZero(Zero(n))
  BY DEF IsZero, Zero
<1> QED
  BY <1>3, <1>4, <1>5, <1>6, <1>7, LaneOps, LaneKinds DEF n

LEMMA SignCopied ==
  ASSUME IsIeee(Lane), NEW x, IsFields(x), NEW s, IsFields(s)
  PROVE  /\ IsFields(CopySign(x, s))
         /\ CopySign(x, Minus(s)) = Minus(CopySign(x, s))
         /\ x \in Patterns(Lane) => CopySign(x, s) \in Patterns(Lane)
         /\ CopySign(x, s).e = x.e /\ CopySign(x, s).m = x.m
<1> DEFINE k == s.neg
           y == CopySign(x, s)
<1>1. k \in BOOLEAN /\ Minus(s).neg = ~k
  BY MinusFields DEF IsFields
<1>2. y = [neg |-> k, e |-> x.e, m |-> x.m]
  BY DEF CopySign, IsFields
<1>3. CopySign(x, Minus(s)) = [neg |-> ~k, e |-> x.e, m |-> x.m]
  <2>1. CopySign(x, Minus(s)) = [x EXCEPT !.neg = Minus(s).neg]
    BY DEF CopySign
  <2>2. x = [neg |-> x.neg, e |-> x.e, m |-> x.m]
    BY DEF IsFields
  <2> QED
    BY <1>1, <2>1, <2>2
<1> HIDE DEF k, y
<1>4. y.neg = k /\ y.e = x.e /\ y.m = x.m /\ IsFields(y)
  BY <1>1, <1>2 DEF IsFields
<1>5. Minus(y) = [neg |-> ~k, e |-> x.e, m |-> x.m]
  BY <1>2 DEF Minus
<1>6. x \in Patterns(Lane) => y \in Patterns(Lane)
  BY <1>1, <1>2 DEF Patterns
<1> QED
  BY <1>3, <1>4, <1>5, <1>6 DEF y

-----------------------------------------------------------------------------
\* Complex values, and results that are conjugates.
IsComplex(z) == z = Cplx(z.re, z.im) /\ z.re \in Patterns(Lane) /\ z.im \in Patterns(Lane)
Conjugate(q, p) ==
  \E a, b, d : p = Cplx(a, b) /\ q = Cplx(a, d) /\ Opposite(b, d, Lane)
AlikeConjugate(q, p) ==
  \E a, b, d : p = Cplx(a, b) /\ q = Cplx(a, d) /\ AlikeOpposite(b, d, Lane)

LEMMA CplxIs ==
  ASSUME NEW a, NEW b
  PROVE  Cplx(a, b).re = a /\ Cplx(a, b).im = b /\ DOMAIN Cplx(a, b) = {"re", "im"}
         /\ CConj(Cplx(a, b)) = Cplx(a, Minus(b))
<1>1. Cplx(a, b).re = a /\ Cplx(a, b).im = b /\ DOMAIN Cplx(a, b) = {"re", "im"}
  BY DEF Cplx
<1> QED
  BY <1>1, LaneOps DEF CConj

LEMMA ConjugateAgrees ==
  ASSUME NEW p, NEW q
  PROVE  /\ Conjugate(q, p) => Same(q, CConj(p)) /\ AlikeConjugate(q, p)
         /\ AlikeConjugate(q, p) => Alike(q, CConj(p))
<1>1. ASSUME NEW b, NEW d, AlikeOpposite(b, d, Lane)
      PROVE  AlikeLane(d, Minus(b)) /\ (Opposite(b, d, Lane) => SameLane(d, Minus(b)))
  <2>1. /\ IsNanLane(Minus(b)) <=> IsNan(b, Lane)
        /\ IsZero(Minus(b)) <=> IsZero(b)
        /\ IsNanLane(d) <=> IsNan(d, Lane)
        /\ IsZero(d) <=> IsZero(d)
    BY <1>1, KindsMinus, LaneKinds DEF AlikeOpposite
  <2> QED
    BY <1>1, <2>1 DEF AlikeOpposite, Opposite, AlikeLane, SameLane
<1>2. ASSUME Conjugate(q, p) PROVE Same(q, CConj(p)) /\ AlikeConjugate(q, p)
  <2>1. PICK a, b, d : p = Cplx(a, b) /\ q = Cplx(a, d) /\ Opposite(b, d, Lane)
    BY <1>2 DEF Conjugate
  <2>2. AlikeOpposite(b, d, Lane)
    BY <2>1 DEF Opposite, AlikeOpposite
  <2>3. CConj(p) = Cplx(a, Minus(b))
    BY <2>1, CplxIs
  <2>4. SameLane(d, Minus(b)) /\ SameLane(a, a)
    BY <1>1, <2>1, <2>2 DEF SameLane
  <2>5. Same(q, CConj(p))
    BY <2>1, <2>3, <2>4, CplxIs DEF Same
  <2> QED
    BY <2>1, <2>2, <2>5 DEF AlikeConjugate
<1>3. ASSUME AlikeConjugate(q, p) PROVE Alike(q, CConj(p))
  <2>1. PICK a, b, d : p = Cplx(a, b) /\ q = Cplx(a, d) /\ AlikeOpposite(b, d, Lane)
    BY <1>3 DEF AlikeConjugate
  <2>2. CConj(p) = Cplx(a, Minus(b))
    BY <2>1, CplxIs
  <2>3. AlikeLane(d, Minus(b)) /\ AlikeLane(a, a)
    BY <1>1, <2>1 DEF AlikeLane, SameLane
  <2> QED
    BY <2>1, <2>2, <2>3, CplxIs DEF Alike
<1> QED
  BY <1>2, <1>3

LEMMA ComplexConj ==
  ASSUME IsIeee(Lane), NEW z, IsComplex(z)
  PROVE  /\ IsComplex(CConj(z)) /\ CConj(z).re = z.re /\ CConj(z).im = Minus(z.im)
         /\ IsFields(z.re) /\ IsFields(z.im) /\ z.re \in Patterns(Lane) /\ z.im \in Patterns(Lane)
         /\ Conjugate(CConj(z), z)
<1>1. z = Cplx(z.re, z.im) /\ z.re \in Patterns(Lane) /\ z.im \in Patterns(Lane)
  BY DEF IsComplex
<1>2. CConj(z) = Cplx(z.re, Minus(z.im))
  BY LaneOps DEF CConj
<1>3. IsFields(z.re) /\ IsFields(z.im) /\ Minus(z.im) \in Patterns(Lane)
  BY <1>1, PatternMinus
<1>4. CConj(z).re = z.re /\ CConj(z).im = Minus(z.im)
  BY <1>2, CplxIs
<1>5. Conjugate(CConj(z), z)
  BY <1>1, <1>2, <1>3, OppositeMinus DEF Conjugate
<1> QED
  BY <1>1, <1>2, <1>3, <1>4, <1>5 DEF IsComplex

LEMMA KindsConj ==
  ASSUME IsIeee(Lane), NEW z, IsComplex(z)
  PROVE  /\ HasInf(CConj(z)) <=> HasInf(z)
         /\ IsFinite(CConj(z)) <=> IsFinite(z)
         /\ BothNan(CConj(z)) <=> BothNan(z)
<1>1. CConj(z).re = z.re /\ CConj(z).im = Minus(z.im) /\ IsFields(z.im)
  BY ComplexConj
<1>2. /\ IsNanLane(Minus(z.im)) <=> IsNanLane(z.im)
      /\ IsInf(Minus(z.im)) <=> IsInf(z.im)
      /\ IsFin(Minus(z.im)) <=> IsFin(z.im)
  BY <1>1, KindsMinus
<1> QED
  BY <1>1, <1>2 DEF HasInf, IsFinite, BothNan

LEMMA BothNanAlike ==
  ASSUME NEW p, NEW q, AlikeConjugate(q, p), IsIeee(Lane)
  PROVE  BothNan(q) <=> BothNan(p)
<1>1. PICK a, b, d : p = Cplx(a, b) /\ q = Cplx(a, d) /\ AlikeOpposite(b, d, Lane)
  BY DEF AlikeConjugate
<1>2. IsNan(d, Lane) <=> IsNan(b, Lane)
  <2>1. CASE d = Minus(b)
    BY <1>1, <2>1, KindsMinus, LaneKinds DEF AlikeOpposite
  <2>2. CASE IsZero(b) /\ IsZero(d)
    <3>1. ASSUME NEW x, IsFields(x), IsZero(x) PROVE ~IsNan(x, Lane)
      BY <3>1, ZeroIs, FormsAre DEF IsNan
    <3> QED
      BY <1>1, <2>2, <3>1 DEF AlikeOpposite
  <2> QED
    BY <1>1, <2>1, <2>2 DEF AlikeOpposite
<1>3. IsNanLane(d) <=> IsNanLane(b)
  BY <1>2, LaneKinds
<1> QED
  BY <1>1, <1>3, CplxIs DEF BothNan

LEMMA BoxedConj ==
  ASSUME IsIeee(Lane), NEW z, IsComplex(z)
  PROVE  /\ Boxed(CConj(z)) = CConj(Boxed(z)) /\ IsComplex(Boxed(z))
         /\ NansToZero(CConj(z)) = CConj(NansToZero(z)) /\ IsComplex(NansToZero(z))
<1> DEFINE a == z.re
           b == z.im
<1>1. /\ CConj(z).re = a /\ CConj(z).im = Minus(b)
      /\ IsFields(a) /\ IsFields(b) /\ a \in Patterns(Lane) /\ b \in Patterns(Lane)
  BY ComplexConj
<1> HIDE DEF a, b
<1>2. ASSUME NEW x, x \in Patterns(Lane)
      PROVE  /\ BoxInf(Minus(x)) = Minus(BoxInf(x)) /\ BoxInf(x) \in Patterns(Lane)
             /\ BoxNanToZero(Minus(x)) = Minus(BoxNanToZero(x))
             /\ BoxNanToZero(x) \in Patterns(Lane)
  <2>1. IsFields(x) /\ IsFields(Unit) /\ IsFields(Zero(FALSE))
        /\ Unit \in Patterns(Lane) /\ Zero(FALSE) \in Patterns(Lane)
    BY <1>2, NamedPatterns, PatternMinus
  <2>2. (IsInf(Minus(x)) <=> IsInf(x)) /\ (IsNanLane(Minus(x)) <=> IsNanLane(x))
    BY <2>1, KindsMinus
  <2>3. \A y : y = Unit \/ y = Zero(FALSE) =>
          CopySign(y, Minus(x)) = Minus(CopySign(y, x)) /\ CopySign(y, x) \in Patterns(Lane)
    BY <2>1, SignCopied
  <2>4. BoxInf(Minus(x)) = Minus(BoxInf(x)) /\ BoxInf(x) \in Patterns(Lane)
    BY <2>2, <2>3 DEF BoxInf
  <2>5. BoxNanToZero(Minus(x)) = Minus(BoxNanToZero(x)) /\ BoxNanToZero(x) \in Patterns(Lane)
    BY <1>2, <2>2, <2>3 DEF BoxNanToZero
  <2> QED
    BY <2>4, <2>5
<1>3. Boxed(z) = Cplx(BoxInf(a), BoxInf(b))
      /\ Boxed(CConj(z)) = Cplx(BoxInf(a), BoxInf(Minus(b)))
  BY <1>1 DEF Boxed, a, b
<1>4. NansToZero(z) = Cplx(BoxNanToZero(a), BoxNanToZero(b))
      /\ NansToZero(CConj(z)) = Cplx(BoxNanToZero(a), BoxNanToZero(Minus(b)))
  BY <1>1 DEF NansToZero, a, b
<1>5. /\ BoxInf(Minus(b)) = Minus(BoxInf(b)) /\ BoxInf(b) \in Patterns(Lane)
      /\ BoxNanToZero(Minus(b)) = Minus(BoxNanToZero(b)) /\ BoxNanToZero(b) \in Patterns(Lane)
      /\ BoxInf(a) \in Patterns(Lane) /\ BoxNanToZero(a) \in Patterns(Lane)
  BY <1>1, <1>2
<1>6. CConj(Boxed(z)) = Cplx(BoxInf(a), Minus(BoxInf(b)))
      /\ CConj(NansToZero(z)) = Cplx(BoxNanToZero(a), Minus(BoxNanToZero(b)))
  BY <1>3, <1>4, CplxIs
<1>7. IsComplex(Boxed(z))
  BY <1>3, <1>5, CplxIs DEF IsComplex
<1>8. IsComplex(NansToZero(z))
  BY <1>4, <1>5, CplxIs DEF IsComplex
<1> QED
  BY <1>3, <1>4, <1>5, <1>6, <1>7, <1>8

\* Sums, differences, products and quotients of conjugates.
LEMMA SumConj ==
  ASSUME IsIeee(Lane), NEW z, IsComplex(z), NEW w, IsComplex(w)
  PROVE  /\ AlikeConjugate(CAdd(CConj(z), CConj(w)), CAdd(z, w))
         /\ AlikeConjugate(CSub(CConj(z), CConj(w)), CSub(z, w))
<1>1. /\ CConj(z).re = z.re /\ CConj(z).im = Minus(z.im)
      /\ IsFields(z.re) /\ IsFields(z.im) /\ z.re \in Patterns(Lane) /\ z.im \in Patterns(Lane)
  BY ComplexConj
<1>2. /\ CConj(w).re = w.re /\ CConj(w).im = Minus(w.im)
      /\ IsFields(w.re) /\ IsFields(w.im) /\ w.re \in Patterns(Lane) /\ w.im \in Patterns(Lane)
  BY ComplexConj
<1>3. Opposite(z.im, Minus(z.im), Lane) /\ Opposite(w.im, Minus(w.im), Lane)
  BY <1>1, <1>2, OppositeMinus
<1>4. AlikeConjugate(CAdd(CConj(z), CConj(w)), CAdd(z, w))
  <2>1. AlikeOpposite(Add(z.im, w.im), Add(Minus(z.im), Minus(w.im)), Lane)
    BY <1>1, <1>2, <1>3, AddAlike, LaneOps
  <2> QED
    BY <1>1, <1>2, <2>1 DEF CAdd, AlikeConjugate
<1>5. AlikeConjugate(CSub(CConj(z), CConj(w)), CSub(z, w))
  <2>1. Sub(z.im, w.im) = WideArith("add", z.im, Minus(w.im), Lane)
        /\ Sub(Minus(z.im), Minus(w.im)) = WideArith("add", Minus(z.im), Minus(Minus(w.im)), Lane)
    BY <1>2, SubIsAdd, MinusFields, LaneOps
  <2>2. Opposite(Minus(w.im), Minus(Minus(w.im)), Lane) /\ Minus(w.im) \in Patterns(Lane)
    BY <1>2, <1>3, MinusOpposite, PatternMinus
  <2>3. AlikeOpposite(Sub(z.im, w.im), Sub(Minus(z.im), Minus(w.im)), Lane)
    BY <1>1, <1>3, <2>1, <2>2, AddAlike
  <2> QED
    BY <1>1, <1>2, <2>3 DEF CSub, AlikeConjugate
<1> QED
  BY <1>4, <1>5

LEMMA ProductConj ==
  ASSUME ExactFits(Lane), NEW z, IsComplex(z), NEW w, IsComplex(w)
  PROVE  /\ AlikeConjugate(Product(CConj(z), CConj(w)), Product(z, w))
         /\ AlikeConjugate(Crossed(CConj(z), CConj(w)), Crossed(z, w))
<1> DEFINE a == z.re
           b == z.im
           c == w.re
           d == w.im
<1>0. IsIeee(Lane)
  BY DEF ExactFits
<1>1. /\ CConj(z).re = a /\ CConj(z).im = Minus(b)
      /\ IsFields(a) /\ IsFields(b) /\ a \in Patterns(Lane) /\ b \in Patterns(Lane)
  BY <1>0, ComplexConj
<1>2. /\ CConj(w).re = c /\ CConj(w).im = Minus(d)
      /\ IsFields(c) /\ IsFields(d) /\ c \in Patterns(Lane) /\ d \in Patterns(Lane)
  BY <1>0, ComplexConj
<1>3. /\ Product(z, w) = Cplx(Sub(Mul(a, c), Mul(b, d)), Add(Mul(a, d), Mul(b, c)))
      /\ Product(CConj(z), CConj(w))
           = Cplx(Sub(Mul(a, c), Mul(Minus(b), Minus(d))),
                    Add(Mul(a, Minus(d)), Mul(Minus(b), c)))
  BY <1>1, <1>2 DEF Product
<1>4. /\ Crossed(z, w) = Cplx(Add(Mul(a, c), Mul(b, d)), Sub(Mul(b, c), Mul(a, d)))
      /\ Crossed(CConj(z), CConj(w))
           = Cplx(Add(Mul(a, c), Mul(Minus(b), Minus(d))),
                    Sub(Mul(Minus(b), c), Mul(a, Minus(d))))
  BY <1>1, <1>2 DEF Crossed
<1> HIDE DEF a, b, c, d
<1>5. Mul(Minus(b), Minus(d)) = Mul(b, d)
  BY <1>1, <1>2, MulSame, LaneOps
<1> DEFINE x == Mul(a, d)
           y == Mul(b, c)
           p == Mul(a, Minus(d))
           q == Mul(Minus(b), c)
<1>6. x \in Patterns(Lane) /\ y \in Patterns(Lane) /\ IsFields(x)
  BY <1>0, <1>1, <1>2, MulIsPattern, PatternMinus, LaneOps
<1>7. Opposite(x, p, Lane) /\ Opposite(y, q, Lane)
  BY <1>0, <1>1, <1>2, OppositeMinus, MulOpposite, LaneOps
<1> HIDE DEF x, y, p, q
<1>8. AlikeOpposite(Add(x, y), Add(p, q), Lane)
  BY <1>0, <1>6, <1>7, AddAlike, LaneOps
<1>9. AlikeOpposite(Sub(y, x), Sub(q, p), Lane)
  <2>1. IsFields(p)
    BY <1>7 DEF Opposite
  <2>2. Sub(y, x) = WideArith("add", y, Minus(x), Lane)
        /\ Sub(q, p) = WideArith("add", q, Minus(p), Lane)
    BY <1>6, <2>1, SubIsAdd, LaneOps
  <2>3. Opposite(Minus(x), Minus(p), Lane) /\ Minus(x) \in Patterns(Lane)
    BY <1>0, <1>6, <1>7, MinusOpposite, PatternMinus
  <2> QED
    BY <1>0, <1>6, <1>7, <2>2, <2>3, AddAlike
<1>10. AlikeConjugate(Product(CConj(z), CConj(w)), Product(z, w))
  BY <1>3, <1>5, <1>8 DEF AlikeConjugate, x, y, p, q
<1>11. AlikeConjugate(Crossed(CConj(z), CConj(w)), Crossed(z, w))
  BY <1>4, <1>5, <1>9 DEF AlikeConjugate, x, y, p, q
<1> QED
  BY <1>10, <1>11

LEMMA ScaledConj ==
  ASSUME IsIeee(Lane), NEW x \in Patterns(Lane), NEW p, NEW q, AlikeConjugate(q, p)
  PROVE  AlikeConjugate(Scaled(x, q), Scaled(x, p))
<1>1. PICK a, b, d : p = Cplx(a, b) /\ q = Cplx(a, d) /\ AlikeOpposite(b, d, Lane)
  BY DEF AlikeConjugate
<1>2. Scaled(x, q) = Cplx(Mul(x, a), Mul(x, d)) /\ Scaled(x, p) = Cplx(Mul(x, a), Mul(x, b))
  BY <1>1, CplxIs DEF Scaled
<1>3. AlikeOpposite(Mul(x, b), Mul(x, d), Lane)
  BY <1>1, MulAlike, LaneOps
<1> QED
  BY <1>2, <1>3 DEF AlikeConjugate

LEMMA MulConj ==
  ASSUME ExactFits(Lane), NEW z, IsComplex(z), NEW w, IsComplex(w)
  PROVE  AlikeConjugate(CMul(CConj(z), CConj(w)), CMul(z, w))
<1> DEFINE p == Product(z, w)
           z1 == IF HasInf(z) THEN Boxed(z) ELSE z
           w1 == IF HasInf(z) THEN NansToZero(w) ELSE w
           z2 == IF HasInf(w1) THEN NansToZero(z1) ELSE z1
           w2 == IF HasInf(w1) THEN Boxed(w1) ELSE w1
           zc == CConj(z)
           wc == CConj(w)
           pc == Product(zc, wc)
           z1c == IF HasInf(zc) THEN Boxed(zc) ELSE zc
           w1c == IF HasInf(zc) THEN NansToZero(wc) ELSE wc
           z2c == IF HasInf(w1c) THEN NansToZero(z1c) ELSE z1c
           w2c == IF HasInf(w1c) THEN Boxed(w1c) ELSE w1c
<1>0. IsIeee(Lane)
  BY DEF ExactFits
<1>1. /\ CMul(z, w) = IF ~BothNan(p) \/ ~(HasInf(z) \/ HasInf(w1)) THEN p
                        ELSE Scaled(PosInf, Product(z2, w2))
      /\ CMul(zc, wc) = IF ~BothNan(pc) \/ ~(HasInf(zc) \/ HasInf(w1c)) THEN pc
                          ELSE Scaled(PosInf, Product(z2c, w2c))
  BY Zenon DEF CMul
<1>2. AlikeConjugate(pc, p) /\ (BothNan(pc) <=> BothNan(p))
  BY <1>0, ProductConj, BothNanAlike
<1>3. HasInf(zc) <=> HasInf(z)
  BY <1>0, KindsConj
<1>4. IsComplex(z1) /\ IsComplex(w1) /\ z1c = CConj(z1) /\ w1c = CConj(w1)
  BY <1>0, <1>3, BoxedConj
<1> HIDE DEF z1, w1, z1c, w1c
<1>5. HasInf(w1c) <=> HasInf(w1)
  BY <1>0, <1>4, KindsConj
<1>6. IsComplex(z2) /\ IsComplex(w2) /\ z2c = CConj(z2) /\ w2c = CConj(w2)
  BY <1>0, <1>4, <1>5, BoxedConj
<1> HIDE DEF z2, w2, z2c, w2c
<1>7. AlikeConjugate(Scaled(PosInf, Product(z2c, w2c)), Scaled(PosInf, Product(z2, w2)))
  BY <1>0, <1>6, ProductConj, ScaledConj, NamedPatterns
<1> HIDE DEF p, pc, zc, wc
<1>8. AlikeConjugate(CMul(zc, wc), CMul(z, w))
  BY <1>1, <1>2, <1>3, <1>5, <1>7
<1> QED
  BY <1>8 DEF zc, wc

LEMMA DivConj ==
  ASSUME ExactFits(Lane), QuotientBits \in Nat, NEW z, IsComplex(z), NEW w, IsComplex(w)
  PROVE  AlikeConjugate(CDiv(CConj(z), CConj(w)), CDiv(z, w))
<1> DEFINE t == Add(Mul(w.re, w.re), Mul(w.im, w.im))
           zc == CConj(z)
           wc == CConj(w)
           q == Over(Crossed(z, w), t)
           qc == Over(Crossed(zc, wc), t)
<1>0. IsIeee(Lane)
  BY DEF ExactFits
<1>1. /\ wc.re = w.re /\ wc.im = Minus(w.im) /\ IsComplex(wc) /\ IsComplex(zc)
      /\ IsFields(w.re) /\ IsFields(w.im) /\ w.re \in Patterns(Lane) /\ w.im \in Patterns(Lane)
  BY <1>0, ComplexConj
<1>2. CDiv(z, w) = Recovered(z, w, t, q) /\ CDiv(zc, wc) = Recovered(zc, wc, t, qc)
  <2>1. Mul(wc.im, wc.im) = Mul(w.im, w.im)
    BY <1>1, MulSame, LaneOps
  <2>2. Add(Mul(wc.re, wc.re), Mul(wc.im, wc.im)) = t
    BY <1>1, <2>1
  <2> QED
    BY <2>2, Zenon DEF CDiv
<1>3. t \in Patterns(Lane)
  BY <1>1, MulIsPattern, AddIsPattern, LaneOps
<1> DEFINE r == Crossed(z, w)
           rc == Crossed(zc, wc)
<1>4. AlikeConjugate(rc, r)
  BY ProductConj
<1>5. AlikeConjugate(Crossed(Boxed(zc), wc), Crossed(Boxed(z), w))
      /\ AlikeConjugate(Crossed(zc, Boxed(wc)), Crossed(z, Boxed(w)))
  BY <1>0, ProductConj, BoxedConj
<1>6. /\ HasInf(zc) <=> HasInf(z)
      /\ HasInf(wc) <=> HasInf(w)
      /\ IsFinite(zc) <=> IsFinite(z)
      /\ IsFinite(wc) <=> IsFinite(w)
      /\ BothNan(zc) <=> BothNan(z)
  BY <1>0, KindsConj
<1>7. AlikeConjugate(zc, z)
  BY <1>0, ComplexConj, ConjugateAgrees
<1> HIDE DEF t, zc, wc, r, rc
<1>8. AlikeConjugate(qc, q)
  <2>1. PICK a, b, d : r = Cplx(a, b) /\ rc = Cplx(a, d) /\ AlikeOpposite(b, d, Lane)
    BY <1>4 DEF AlikeConjugate
  <2>2. CASE IsZero(t)
    <3> DEFINE n == NanLane
    <3>1. q = Cplx(n, n) /\ qc = Cplx(n, n)
      BY <2>2 DEF Over
    <3>2. AlikeOpposite(n, n, Lane)
      BY <1>0, NamedPatterns, PatternMinus, LaneKinds DEF AlikeOpposite
    <3> HIDE DEF n
    <3> QED
      BY <3>1, <3>2 DEF AlikeConjugate
  <2>3. CASE ~IsZero(t)
    <3>1. q = Cplx(Div(a, t), Div(b, t)) /\ qc = Cplx(Div(a, t), Div(d, t))
      BY <2>1, <2>3, CplxIs DEF Over, r, rc
    <3>2. ~IsZero(t)
      BY <2>3, LaneKinds
    <3>3. AlikeOpposite(Div(b, t), Div(d, t), Lane)
      BY <1>0, <1>3, <2>1, <3>2, DivAlike, LaneOps
    <3> QED
      BY <3>1, <3>3 DEF AlikeConjugate
  <2> QED
    BY <2>2, <2>3
<1>9. BothNan(qc) <=> BothNan(q)
  BY <1>0, <1>8, BothNanAlike
<1> HIDE DEF q, qc
<1>10. /\ PosInf \in Patterns(Lane) /\ Zero(FALSE) \in Patterns(Lane)
       /\ CopySign(PosInf, w.re) \in Patterns(Lane)
  BY <1>0, <1>1, NamedPatterns, SignCopied, PatternMinus
<1> DEFINE s1 == Scaled(CopySign(PosInf, w.re), z)
           s2 == Scaled(PosInf, Crossed(Boxed(z), w))
           s3 == Scaled(Zero(FALSE), Crossed(z, Boxed(w)))
           c1 == Scaled(CopySign(PosInf, w.re), zc)
           c2 == Scaled(PosInf, Crossed(Boxed(zc), wc))
           c3 == Scaled(Zero(FALSE), Crossed(zc, Boxed(wc)))
<1>11. AlikeConjugate(c1, s1) /\ AlikeConjugate(c2, s2) /\ AlikeConjugate(c3, s3)
  BY <1>0, <1>5, <1>7, <1>10, ScaledConj
<1> DEFINE G1 == BothNan(q) /\ IsZero(t) /\ ~BothNan(z)
           G2 == BothNan(q) /\ ~IsZero(t) /\ HasInf(z) /\ IsFinite(w)
           G3 == BothNan(q) /\ ~IsZero(t) /\ HasInf(w) /\ IsFinite(z)
<1>12. /\ Recovered(z, w, t, q) = CASE ~BothNan(q) -> q [] G1 -> s1 [] G2 -> s2 [] G3 -> s3 [] OTHER -> q
       /\ Recovered(zc, wc, t, qc)
            = CASE ~BothNan(q) -> qc [] G1 -> c1 [] G2 -> c2 [] G3 -> c3 [] OTHER -> qc
  BY <1>1, <1>6, <1>9 DEF Recovered
<1>13. ~(G2 /\ G3)
  <2>1. IsFinite(w) => ~HasInf(w)
    BY LaneKinds DEF IsFinite, HasInf
  <2> QED
    BY <2>1
<1> HIDE DEF s1, s2, s3, c1, c2, c3
<1> DEFINE Got == Recovered(z, w, t, q)
           Gotten == Recovered(zc, wc, t, qc)
<1>14. (Got = q /\ Gotten = qc) \/ (Got = s1 /\ Gotten = c1) \/ (Got = s2 /\ Gotten = c2)
       \/ (Got = s3 /\ Gotten = c3)
  BY <1>12, <1>13
<1> HIDE DEF Got, Gotten
<1>15. AlikeConjugate(Gotten, Got)
  BY <1>8, <1>11, <1>14
<1> QED
  BY <1>2, <1>15 DEF Got, Gotten, zc, wc

-----------------------------------------------------------------------------
\* Moduli, angles, roots, logarithms and exponentials of conjugates.
LEMMA ExternalIs ==
  ASSUME IsIeee(Lane), NEW e \in ExternalSet
  PROVE  IsFields(e.sin) /\ IsFields(e.above) /\ IsFields(e.below) /\ IsFields(e.angle)
<1>1. e.sin \in Patterns(Lane) /\ e.above \in Patterns(Lane) /\ e.below \in Patterns(Lane)
      /\ e.angle \in Patterns(Lane)
  BY DEF ExternalSet
<1> QED
  BY <1>1, PatternMinus

LEMMA SquareMinus ==
  ASSUME NEW v, IsDecoded(v), v.class # "nan"
  PROVE  ExactProduct(Minus(v), Minus(v)) = ExactProduct(v, v)
BY ProductMinus

LEMMA ModulusConj ==
  ASSUME IsIeee(Lane), NEW z, IsComplex(z)
  PROVE  CAbs(CConj(z)) = CAbs(z)
<1> DEFINE x == z.re
           y == z.im
           k == Minus(y)
<1>1. CConj(z).re = x /\ CConj(z).im = k /\ IsFields(y)
  BY ComplexConj
<1>2. CAbs(z) = Hypot(x, y) /\ CAbs(CConj(z)) = Hypot(x, k)
  BY <1>1 DEF CAbs
<1>3. (IsInf(k) <=> IsInf(y)) /\ (IsNanLane(k) <=> IsNanLane(y))
  BY <1>1, KindsMinus
<1>4. CASE IsInf(y) \/ IsNanLane(y)
  <2> HIDE DEF x, y, k
  <2>1. Hypot(x, k) = Hypot(x, y)
    BY <1>3, <1>4, Zenon DEF Hypot
  <2> QED
    BY <1>2, <2>1
<1>5. CASE ~(IsInf(y) \/ IsNanLane(y))
  <2> DEFINE w == DecodeFloat(y, Lane)
             u == DecodeFloat(k, Lane)
  <2>2. IsDecoded(w) /\ w.class # "nan" /\ u = Minus(w)
    BY <1>1, <1>5, MinusDecodes, LaneKinds DEF IsNan
  <2> HIDE DEF w, u
  <2>3. ExactProduct(u, u) = ExactProduct(w, w)
    BY <2>2, SquareMinus
  <2> HIDE DEF x, y, k
  <2>4. Hypot(x, k) = Hypot(x, y)
    BY <1>3, <1>5, <2>3, Zenon DEF Hypot, w, u
  <2> QED
    BY <1>2, <2>4
<1> QED
  BY <1>4, <1>5

LEMMA AngleConj ==
  ASSUME IsIeee(Lane), IsFields(Pi), NEW e \in ExternalSet, NEW y, IsFields(y), NEW x
  PROVE  Opposite(Atan2(y, x, e), Atan2(Minus(y), x, e), Lane)
<1>1. /\ IsNanLane(Minus(y)) <=> IsNanLane(y)
      /\ IsFin(Minus(y)) <=> IsFin(y)
      /\ IsZero(Minus(y)) <=> IsZero(y)
  BY KindsMinus
<1>2. IsFields(Pi) /\ IsFields(e.angle) /\ IsFields(Zero(FALSE)) /\ IsFields(NanLane)
      /\ IsNan(NanLane, Lane)
  BY ExternalIs, NamedPatterns, PatternMinus, LaneKinds
<1>3. ASSUME NEW u, IsFields(u)
      PROVE  Opposite(CopySign(u, y), CopySign(u, Minus(y)), Lane)
  BY <1>3, SignCopied, OppositeMinus
<1>4. /\ Opposite(NanLane, NanLane, Lane) /\ Opposite(y, Minus(y), Lane)
      /\ Opposite(CopySign(Pi, y), CopySign(Pi, Minus(y)), Lane)
      /\ Opposite(CopySign(e.angle, y), CopySign(e.angle, Minus(y)), Lane)
      /\ Opposite(CopySign(Zero(FALSE), y), CopySign(Zero(FALSE), Minus(y)), Lane)
  BY <1>2, <1>3, OppositeMinus DEF Opposite
<1>5. CASE IsNanLane(y) \/ IsNanLane(x)
  BY <1>1, <1>4, <1>5 DEF Atan2
<1>6. CASE ~(IsNanLane(y) \/ IsNanLane(x)) /\ IsZero(y)
  BY <1>1, <1>4, <1>6 DEF Atan2
<1>7. CASE ~(IsNanLane(y) \/ IsNanLane(x)) /\ ~IsZero(y)
  BY <1>1, <1>4, <1>7 DEF Atan2
<1> QED
  BY <1>5, <1>6, <1>7

LEMMA LogConj ==
  ASSUME IsIeee(Lane), IsFields(Pi), NEW e \in ExternalSet, NEW z, IsComplex(z)
  PROVE  /\ Opposite(CArg(z, e), CArg(CConj(z), e), Lane)
         /\ Conjugate(CLog(CConj(z), e), CLog(z, e))
<1>1. CConj(z).re = z.re /\ CConj(z).im = Minus(z.im) /\ IsFields(z.im)
  BY ComplexConj
<1>2. Opposite(CArg(z, e), CArg(CConj(z), e), Lane)
  BY <1>1, AngleConj DEF CArg
<1>3. CLog(z, e) = Cplx(Log(CAbs(z), e), CArg(z, e))
      /\ CLog(CConj(z), e) = Cplx(Log(CAbs(z), e), CArg(CConj(z), e))
  BY ModulusConj DEF CLog
<1> QED
  BY <1>2, <1>3 DEF Conjugate

LEMMA RotatedConj ==
  ASSUME IsIeee(Lane), NEW e \in ExternalSet, NEW r, IsFields(r), NEW y, IsFields(y)
  PROVE  Conjugate(Rotated(r, Minus(y), e), Rotated(r, y, e))
<1>1. (IsZero(Minus(y)) <=> IsZero(y)) /\ Minus(y).neg = ~y.neg
      /\ Minus(Minus(e.sin)) = e.sin /\ IsFields(e.sin) /\ y.neg \in BOOLEAN
  BY KindsMinus, MinusFields, ExternalIs DEF IsFields
<1>2. Cos(Minus(y), e) = Cos(y, e)
  BY <1>1 DEF Cos
<1>3. Sin(Minus(y), e) = Minus(Sin(y, e)) /\ IsFields(Sin(y, e))
  <2>1. \A x : Neg(x) = Minus(x)
    BY LaneOps
  <2>2. IsFields(Minus(e.sin))
    BY <1>1, MinusFields
  <2> QED
    BY <1>1, <2>1, <2>2 DEF Sin
<1>4. Opposite(Mul(r, Sin(y, e)), Mul(r, Sin(Minus(y), e)), Lane)
  BY <1>3, OppositeMinus, MulOpposite, LaneOps
<1> QED
  BY <1>2, <1>4 DEF Rotated, Conjugate

LEMMA ExpConj ==
  ASSUME IsIeee(Lane), NEW e \in ExternalSet, NEW z, IsComplex(z),
         ~(IsInf(z.re) /\ z.re.neg /\ ~IsFin(z.im))
  PROVE  Conjugate(CExp(CConj(z), e), CExp(z, e))
<1> DEFINE a == z.re
           b == z.im
           c == Minus(b)
           w == CConj(z)
           n == NanLane
           o == Zero(FALSE)
           h == PosInf
<1>1. w.re = a /\ w.im = c /\ IsFields(a) /\ IsFields(b) /\ a.neg \in BOOLEAN
  BY ComplexConj DEF IsFields
<1>2. (IsFin(c) <=> IsFin(b)) /\ (IsZero(c) <=> IsZero(b))
  BY <1>1, KindsMinus
<1>3. IsFields(n) /\ IsNan(n, Lane) /\ IsFields(o) /\ IsFields(h) /\ IsFields(Unit)
  BY NamedPatterns, PatternMinus, LaneKinds
<1>4. /\ IsNanLane(a) => ~IsFin(a) /\ ~IsInf(a)
      /\ IsFin(a) => ~IsInf(a)
      /\ IsNanLane(a) \/ IsFin(a) \/ IsInf(a)
  <2>1. DecodeFloat(a, Lane).class \in {"nan", "inf", "fin"}
    BY <1>1, MinusDecodes, DecodedIs
  <2> QED
    BY <2>1, LaneKinds DEF IsNan
<1>5. Opposite(b, c, Lane) /\ Opposite(n, n, Lane)
  BY <1>1, <1>3, OppositeMinus DEF Opposite
<1>6. \A x : Conjugate(Cplx(x, c), Cplx(x, b)) /\ Conjugate(Cplx(x, n), Cplx(x, n))
  BY <1>5 DEF Conjugate
<1>7. ASSUME NEW r, IsFields(r) PROVE Conjugate(Rotated(r, c, e), Rotated(r, b, e))
  BY <1>1, <1>7, RotatedConj
<1>8. IsFields(Exp(a, e))
  BY <1>3, ExternalIs DEF Exp
<1>9. Conjugate(Rotated(Exp(a, e), c, e), Rotated(Exp(a, e), b, e))
      /\ Conjugate(Rotated(h, c, e), Rotated(h, b, e))
      /\ Conjugate(Rotated(o, c, e), Rotated(o, b, e))
  BY <1>3, <1>7, <1>8
<1> HIDE DEF a, b, c, w, n, o, h
<1>10. CASE IsNanLane(a)
  <2>1. /\ CExp(z, e) = Cplx(n, IF IsZero(b) THEN b ELSE n)
        /\ CExp(w, e) = Cplx(n, IF IsZero(c) THEN c ELSE n)
    BY <1>1, <1>4, <1>10 DEF CExp, a, b, n
  <2> QED
    BY <1>2, <1>6, <2>1 DEF w
<1>11. CASE IsFin(a)
  <2>1. /\ CExp(z, e) = IF IsFin(b) THEN Rotated(Exp(a, e), b, e) ELSE Cplx(n, n)
        /\ CExp(w, e) = IF IsFin(c) THEN Rotated(Exp(a, e), c, e) ELSE Cplx(n, n)
    BY <1>1, <1>4, <1>11 DEF CExp, a, b, n
  <2> QED
    BY <1>2, <1>6, <1>9, <2>1 DEF w
<1>12. CASE IsInf(a) /\ ~a.neg
  <2>1. /\ CExp(z, e) = IF ~IsFin(b) THEN Cplx(h, n)
                          ELSE IF IsZero(b) THEN Cplx(h, b) ELSE Rotated(h, b, e)
        /\ CExp(w, e) = IF ~IsFin(c) THEN Cplx(h, n)
                          ELSE IF IsZero(c) THEN Cplx(h, c) ELSE Rotated(h, c, e)
    BY <1>1, <1>4, <1>12 DEF CExp, a, b, n, h
  <2> QED
    BY <1>2, <1>6, <1>9, <2>1 DEF w
<1>13. CASE IsInf(a) /\ a.neg
  <2>1. IsFin(b) /\ IsFin(c)
    BY <1>2, <1>13 DEF a, b
  <2>2. CExp(z, e) = Rotated(o, b, e) /\ CExp(w, e) = Rotated(o, c, e)
    BY <1>1, <1>4, <1>13, <2>1 DEF CExp, a, b, o
  <2> QED
    BY <1>9, <2>2 DEF w
<1> QED
  BY <1>1, <1>4, <1>10, <1>11, <1>12, <1>13

LEMMA RootIsFields ==
  ASSUME IsIeee(Lane), NEW v
  PROVE  IsFields(SqrtOfValue(v))
<1>1. IsFields(PosInf) /\ IsFields(NanLane)
  BY NamedPatterns, PatternMinus
<1>2. IsFields(Zero(TRUE))
  BY DEF Zero, IsFields
<1>3. IsFields(Rne(Root(v), Lane))
  <2>0. PICK n \in BOOLEAN : \E m, e : Root(v) = Fin(n, m, e)
    BY Zenon DEF Root
  <2>1. PICK m, e : Root(v) = Fin(n, m, e)
    BY <2>0
  <2>3. IsDecoded(Root(v))
    BY <2>1, MinusForms
  <2>4. Lane.nan = "ieee" /\ Lane.hasInf
    BY DEF IsIeee, IsLane
  <2> QED
    BY <2>3, <2>4, MinusRounded
<1> QED
  BY <1>1, <1>2, <1>3 DEF SqrtOfValue

LEMMA SqrtConj ==
  ASSUME IsIeee(Lane), NEW z, IsComplex(z)
  PROVE  Conjugate(CSqrt(CConj(z)), CSqrt(z))
<1> DEFINE a == z.re
           b == z.im
           c == Minus(b)
           w == CConj(z)
           n == NanLane
           o == Zero(FALSE)
           h == PosInf
<1>1. w.re = a /\ w.im = c /\ IsFields(a) /\ IsFields(b)
  BY ComplexConj
<1>2. (IsInf(c) <=> IsInf(b)) /\ (IsNanLane(c) <=> IsNanLane(b))
  BY <1>1, KindsMinus
<1>3. IsFields(n) /\ IsNan(n, Lane) /\ IsFields(o) /\ IsFields(h) /\ IsFields(Unit)
  BY NamedPatterns, PatternMinus, LaneKinds
<1>4. ASSUME NEW u, IsFields(u)
      PROVE  Opposite(CopySign(u, b), CopySign(u, c), Lane)
  BY <1>1, <1>4, SignCopied, OppositeMinus
<1>5. Opposite(n, n, Lane)
  BY <1>3 DEF Opposite
<1>6. \A x : /\ Conjugate(Cplx(x, n), Cplx(x, n))
             /\ Conjugate(Cplx(x, CopySign(h, c)), Cplx(x, CopySign(h, b)))
             /\ Conjugate(Cplx(x, CopySign(o, c)), Cplx(x, CopySign(o, b)))
  BY <1>3, <1>4, <1>5 DEF Conjugate
<1>7. Conjugate(FiniteRoot(w), FiniteRoot(z))
  <2> DEFINE m == CAbs(z)
             r == Sqrt(Div(Add(m, a), Two))
             s == Sqrt(Div(Sub(m, a), Two))
             k == CopySign(Unit, b)
             j == CopySign(Unit, c)
  <2>1. CAbs(w) = m
    BY ModulusConj
  <2>2. FiniteRoot(z) = Cplx(r, Mul(k, s)) /\ FiniteRoot(w) = Cplx(r, Mul(j, s))
    BY <1>1, <2>1, Zenon DEF FiniteRoot
  <2>3. IsFields(s)
    BY RootIsFields, Zenon DEF Sqrt
  <2>4. Opposite(k, j, Lane)
    BY <1>3, <1>4
  <2> HIDE DEF r, s, k, j
  <2>5. Opposite(Mul(k, s), Mul(j, s), Lane)
    BY <2>3, <2>4, MulOpposite, LaneOps
  <2> QED
    BY <2>2, <2>5 DEF Conjugate
<1> DEFINE Row(y, p, q, root) ==
             IF IsInf(y) THEN p
             ELSE IF IsNanLane(a) THEN Cplx(n, n)
             ELSE IF IsNanLane(y)
             THEN IF IsPosInf(a) THEN Cplx(h, n) ELSE Cplx(n, CopySign(h, y))
             ELSE IF IsInf(a)
             THEN IF a.neg THEN Cplx(o, CopySign(h, y)) ELSE q
             ELSE root
<1>8. /\ CSqrt(z) = Row(b, Cplx(h, CopySign(h, b)), Cplx(h, CopySign(o, b)), FiniteRoot(z))
      /\ CSqrt(w) = Row(c, Cplx(h, CopySign(h, c)), Cplx(h, CopySign(o, c)), FiniteRoot(w))
  BY <1>1, Zenon DEF CSqrt
<1> HIDE DEF a, b, c, w, n, o, h
<1> QED
  BY <1>2, <1>6, <1>7, <1>8 DEF w

-----------------------------------------------------------------------------
\* The invariant of a call: what the result is a result of.
IsOperands(a) ==
  \E x \in ComplexSet : a = <<x>> \/ \E y \in ComplexSet : a = <<x, y>>
Called ==
  /\ IsOperands(args)
  /\ op \in Transcendentals => ext \in Externals
  /\ result # NoResult => result = EvalComplexOp(op, args, ext)

LEMMA LaneFits ==
  IsIeee(Lane) /\ ExactFits(Lane) /\ QuotientBits \in Nat /\ IsFields(Pi)
<1>1. IsIeee(Lane) /\ ExactFits(Lane) /\ QuotientBits \in Nat
  BY LaneAssumption DEF IsIeee, ExactFits
<1> QED
  BY <1>1, PatternMinus, OperandsAssumption

LEMMA CalledInit ==
  ComplexInit => Called
<1> SUFFICES ASSUME ComplexInit PROVE Called
  OBVIOUS
<1>1. op = "called" /\ result = NoResult /\ \E z \in Lefts : args = <<z>>
  BY DEF ComplexInit
<1>2. op \notin Transcendentals
  BY <1>1 DEF Transcendentals
<1>3. IsOperands(args)
  BY <1>1, OperandsAssumption DEF IsOperands
<1> QED
  BY <1>1, <1>2, <1>3 DEF Called

LEMMA CalledNext ==
  Called /\ [ComplexNext]_complexVars => Called'
<1> SUFFICES ASSUME Called, [ComplexNext]_complexVars PROVE Called'
  OBVIOUS
<1>1. CASE Evaluate
  <2>1. PICK x \in ComplexSet : args[1] = x
    BY DEF Called, IsOperands
  <2>2. args' = args \/ \E y \in ComplexSet : args' = <<x, y>>
    BY <1>1, <2>1, OperandsAssumption DEF Evaluate
  <2>3. IsOperands(args')
    BY <2>2 DEF Called, IsOperands
  <2>4. op' \in Transcendentals => ext' \in Externals
    BY <1>1 DEF Evaluate
  <2>5. result' = EvalComplexOp(op', args', ext')
    BY <1>1 DEF Evaluate
  <2> QED
    BY <2>3, <2>4, <2>5 DEF Called
<1>2. CASE UNCHANGED complexVars
  BY <1>2 DEF Called, complexVars
<1> QED
  BY <1>1, <1>2 DEF ComplexNext

\* Of the operations, one at a time.
LEMMA ResultIs ==
  ASSUME NEW o, NEW a, NEW e, EvalComplexOp(o, a, e).ok
  PROVE  /\ o \in Unaries \cup Binaries /\ Len(a) = ArityOf(o)
         /\ \A b : Len(b) = Len(a) =>
              EvalComplexOp(o, b, e).value = Apply(o, b[1], b[Len(b)], e)
<1>1. \A x : Error(x).ok = FALSE
  BY DEF Error
<1>2. o \in Unaries \cup Binaries
  BY <1>1 DEF EvalComplexOp
<1>3. Len(a) = ArityOf(o)
  BY <1>1, <1>2 DEF EvalComplexOp
<1>4. ASSUME NEW b, Len(b) = Len(a)
      PROVE  EvalComplexOp(o, b, e).value = Apply(o, b[1], b[Len(b)], e)
  <2>1. EvalComplexOp(o, b, e) = Value(Apply(o, b[1], b[Len(b)], e))
    BY <1>2, <1>3, <1>4 DEF EvalComplexOp
  <2> QED
    BY <2>1 DEF Value
<1> QED
  BY <1>2, <1>3, <1>4

LEMMA OperandsConj ==
  ASSUME NEW a, IsOperands(a), IsIeee(Lane), NEW b, b = [i \in DOMAIN a |-> CConj(a[i])]
  PROVE  /\ Len(b) = Len(a) /\ Len(a) \in DOMAIN a /\ 1 \in DOMAIN a
         /\ b[1] = CConj(a[1]) /\ b[Len(b)] = CConj(a[Len(a)])
         /\ IsComplex(a[1]) /\ IsComplex(a[Len(a)])
<1>1. PICK x \in ComplexSet : a = <<x>> \/ \E y \in ComplexSet : a = <<x, y>>
  BY DEF IsOperands
<1>2. ASSUME NEW z \in ComplexSet PROVE IsComplex(z)
  BY DEF ComplexSet, IsComplex, Cplx
<1>3. CASE a = <<x>>
  <2>1. Len(a) = 1 /\ DOMAIN a = 1..1 /\ a[1] = x
    BY <1>3
  <2>2. b = <<CConj(x)>>
    BY <2>1
  <2> QED
    BY <1>2, <2>1, <2>2
<1>4. CASE \E y \in ComplexSet : a = <<x, y>>
  <2>1. PICK y \in ComplexSet : a = <<x, y>>
    BY <1>4
  <2>2. Len(a) = 2 /\ DOMAIN a = 1..2 /\ a[1] = x /\ a[2] = y
    BY <2>1
  <2>3. b = <<CConj(x), CConj(y)>>
    BY <2>2
  <2> QED
    BY <1>2, <2>2, <2>3
<1> QED
  BY <1>1, <1>3, <1>4

LEMMA RealAgrees ==
  ASSUME NEW x, NEW y
  PROVE  /\ Same(Real(x), Real(x)) /\ Real(x).re = x
         /\ Opposite(x, y, Lane) => Same(Real(y), Real(Minus(x)))
<1>1. Real(x).re = x /\ Real(y).re = y /\ DOMAIN Real(x) = {"re"} /\ DOMAIN Real(y) = {"re"}
      /\ Real(Minus(x)).re = Minus(x)
  BY DEF Real
<1>2. Same(Real(x), Real(x))
  BY <1>1 DEF Same, SameLane
<1>3. ASSUME Opposite(x, y, Lane) PROVE Same(Real(y), Real(Minus(x)))
  <2>1. SameLane(y, Minus(x))
    BY <1>3, KindsMinus, LaneKinds DEF Opposite, SameLane
  <2> QED
    BY <1>1, <2>1 DEF Same
<1> QED
  BY <1>1, <1>2, <1>3

LEMMA CalledDecides ==
  Called => ConjugatesAgree
<1> SUFFICES ASSUME Called, Done, ~SignsAreFree
             PROVE  AgreeLanes(EvalComplexOp(op, Conjugates, ext).value, ConjOf(answer))
  BY DEF ConjugatesAgree
<1> DEFINE x == args[1]
           y == args[Len(args)]
           p == Apply(op, x, y, ext)
           q == Apply(op, CConj(x), CConj(y), ext)
<1>1. IsIeee(Lane) /\ ExactFits(Lane) /\ QuotientBits \in Nat /\ IsFields(Pi)
  BY LaneFits
<1>2. IsComplex(x) /\ IsComplex(y) /\ Len(Conjugates) = Len(args)
      /\ Conjugates[1] = CConj(x) /\ Conjugates[Len(Conjugates)] = CConj(y)
  BY <1>1, OperandsConj DEF Called, Conjugates
<1>3. result = EvalComplexOp(op, args, ext) /\ EvalComplexOp(op, args, ext).ok
  BY DEF Called, Done
<1>4. op \in Unaries \cup Binaries /\ Len(args) = ArityOf(op) /\ answer = p
      /\ EvalComplexOp(op, Conjugates, ext).value = q
  BY <1>2, <1>3, ResultIs DEF answer
<1>5. op \in Transcendentals => ext \in ExternalSet
  BY OperandsAssumption DEF Called
<1>6. first = x
  BY DEF first
<1> HIDE DEF x, y
<1>7. AgreeLanes(q, ConjOf(p))
  <2>1. CASE op = "cneg"
    <3>1. p = Cplx(Minus(x.re), Minus(x.im)) /\ q = Cplx(Minus(x.re), Minus(Minus(x.im)))
      <4>1. p = CNeg(x) /\ q = CNeg(CConj(x))
        BY <2>1 DEF Apply
      <4> QED
        BY <1>1, <1>2, <4>1, ComplexConj, LaneOps DEF CNeg
    <3>2. IsFields(Minus(x.im))
      BY <1>1, <1>2, ComplexConj, MinusFields
    <3>3. Conjugate(q, p)
      BY <3>1, <3>2, OppositeMinus DEF Conjugate
    <3> QED
      BY <2>1, <3>3, ConjugateAgrees DEF AgreeLanes, SumsMayCancel, ConjOf
  <2>2. CASE op = "cconj"
    <3>1. p = CConj(x) /\ q = CConj(CConj(x))
      BY <2>2 DEF Apply
    <3>2. Conjugate(q, p)
      BY <1>1, <1>2, <3>1, ComplexConj
    <3> QED
      BY <2>2, <3>2, ConjugateAgrees DEF AgreeLanes, SumsMayCancel, ConjOf
  <2>3. CASE op = "cexp"
    <3>1. p = CExp(x, ext) /\ q = CExp(CConj(x), ext) /\ ext \in ExternalSet
      BY <1>5, <2>3 DEF Apply, Transcendentals
    <3>2. ~(IsInf(x.re) /\ x.re.neg /\ ~IsFin(x.im))
      BY <1>6, <2>3 DEF SignsAreFree
    <3>3. Conjugate(q, p)
      BY <1>1, <1>2, <3>1, <3>2, ExpConj
    <3> QED
      BY <2>3, <3>3, ConjugateAgrees DEF AgreeLanes, SumsMayCancel, ConjOf
  <2>4. CASE op = "clog"
    <3>1. p = CLog(x, ext) /\ q = CLog(CConj(x), ext) /\ ext \in ExternalSet
      BY <1>5, <2>4 DEF Apply, Transcendentals
    <3>2. Conjugate(q, p)
      BY <1>1, <1>2, <3>1, LogConj
    <3> QED
      BY <2>4, <3>2, ConjugateAgrees DEF AgreeLanes, SumsMayCancel, ConjOf
  <2>5. CASE op = "csqrt"
    <3>1. p = CSqrt(x) /\ q = CSqrt(CConj(x))
      BY <2>5 DEF Apply
    <3>2. Conjugate(q, p)
      BY <1>1, <1>2, <3>1, SqrtConj
    <3> QED
      BY <2>5, <3>2, ConjugateAgrees DEF AgreeLanes, SumsMayCancel, ConjOf
  <2>6. CASE op = "cabs"
    <3>1. p = Real(CAbs(x)) /\ q = Real(CAbs(CConj(x)))
      BY <2>6 DEF Apply
    <3>2. q = p
      BY <1>1, <1>2, <3>1, ModulusConj
    <3> QED
      BY <2>6, <3>1, <3>2, RealAgrees DEF AgreeLanes, SumsMayCancel, ConjOf
  <2>7. CASE op = "carg"
    <3>1. p = Real(CArg(x, ext)) /\ q = Real(CArg(CConj(x), ext)) /\ ext \in ExternalSet
      BY <1>5, <2>7 DEF Apply, Transcendentals
    <3>2. Opposite(CArg(x, ext), CArg(CConj(x), ext), Lane)
      BY <1>1, <1>2, <3>1, LogConj
    <3>3. ConjOf(p) = Real(Minus(CArg(x, ext)))
      BY <2>7, <3>1, RealAgrees, LaneOps DEF ConjOf
    <3>4. Same(q, ConjOf(p))
      BY <3>1, <3>2, <3>3, RealAgrees
    <3> QED
      BY <2>7, <3>4 DEF AgreeLanes, SumsMayCancel
  <2>8. CASE op = "cadd" \/ op = "csub"
    <3>1. /\ op = "cadd" => p = CAdd(x, y) /\ q = CAdd(CConj(x), CConj(y))
          /\ op = "csub" => p = CSub(x, y) /\ q = CSub(CConj(x), CConj(y))
      BY <2>8 DEF Apply
    <3>2. AlikeConjugate(q, p)
      BY <1>1, <1>2, <2>8, <3>1, SumConj
    <3> QED
      BY <2>8, <3>2, ConjugateAgrees DEF AgreeLanes, SumsMayCancel, ConjOf
  <2>9. CASE op = "cmul"
    <3>1. p = CMul(x, y) /\ q = CMul(CConj(x), CConj(y))
      BY <2>9 DEF Apply
    <3>2. AlikeConjugate(q, p)
      BY <1>1, <1>2, <3>1, MulConj
    <3> QED
      BY <2>9, <3>2, ConjugateAgrees DEF AgreeLanes, SumsMayCancel, ConjOf
  <2>10. CASE op = "cdiv"
    <3>1. p = CDiv(x, y) /\ q = CDiv(CConj(x), CConj(y))
      BY <2>10 DEF Apply
    <3>2. AlikeConjugate(q, p)
      BY <1>1, <1>2, <3>1, DivConj
    <3> QED
      BY <2>10, <3>2, ConjugateAgrees DEF AgreeLanes, SumsMayCancel, ConjOf
  <2>11. CASE op = "cpow"
    BY <2>11 DEF SignsAreFree
  <2> QED
    BY <1>4, <2>1, <2>2, <2>3, <2>4, <2>5, <2>6, <2>7, <2>8, <2>9, <2>10, <2>11
    DEF Unaries, Binaries
<1> QED
  BY <1>4, <1>7

\* The symmetry of the plane, for every format of the lane, every value of the functions outside
\* the code and any operands: in every row of every operation of complex.rs whose signs the
\* code fixes, conjugate operands give the conjugate result, lane by lane; only the zeros of
\* sums may have either sign.
THEOREM ConjugatesAlwaysAgree ==
  ComplexSpec => []ConjugatesAgree
<1>1. ComplexInit => Called
  BY CalledInit
<1>2. Called /\ [ComplexNext]_complexVars => Called'
  BY CalledNext
<1>3. Called => ConjugatesAgree
  BY CalledDecides
<1> QED
  BY <1>1, <1>2, <1>3, PTL DEF ComplexSpec

-----------------------------------------------------------------------------
\* The infinities of products and quotients.

\* A finite value, however it is scaled, is rounded to the pattern it came from.
LEMMA Reencoded ==
  ASSUME NEW f, IsIeee(f), NEW c \in Patterns(f), ~IsZero(c),
         NEW v, v = DecodeFloat(c, f), v.class = "fin",
         NEW p \in Int, p <= v.exp, v.mant * Power[v.exp - p] < Power[MantBits - 1]
  PROVE  Rne(Fin(c.neg, v.mant * Power[v.exp - p], p), f) = c
<1> DEFINE k == v.mant
           x == v.exp
           n == c.neg
           whole == Power[f.man]
           least == 1 - f.bias - f.man
           q == [neg |-> n, e |-> IF k < whole THEN 0 ELSE x + f.man + f.bias,
                 m |-> IF k < whole THEN k ELSE k - whole]
<1>1. /\ f.bias \in Nat /\ f.bias >= 1 /\ f.man \in Nat /\ AllOnes(f.exp) = 2 * f.bias + 1
      /\ AllOnes(f.man) = whole - 1 /\ whole \in Nat /\ whole >= 2 /\ f.man + 1 \in Nat
      /\ f.nan = "ieee"
  BY LaneIs DEF IsIeee
<1>2. Power[f.man + 1] = 2 * whole
  BY <1>1, PowerIs
<1>3. n \in BOOLEAN /\ c.e \in 0..(2 * f.bias + 1) /\ c.m \in 0..(whole - 1)
      /\ c = [neg |-> n, e |-> c.e, m |-> c.m]
  BY <1>1 DEF Patterns
<1>4. c.e # AllOnes(f.exp)
  <2>1. \A a, b : Inf(a).class # "fin" /\ Nan(a, b, b).class # "fin" /\ Nan(a, b, f.man).class # "fin"
    BY FormsAre
  <2> QED
    BY <1>1, <2>1 DEF DecodeFloat
<1>5. /\ v = Fin(n, k, x) /\ k \in Nat /\ k > 0 /\ k < Power[f.man + 1] /\ x \in Int
      /\ (k < whole => x = least) /\ x >= least /\ x + f.man <= f.bias
      /\ c = q
  <2>1. CASE c.e = 0
    <3>1. v = Fin(n, c.m, least)
      BY <1>1, <1>4, <2>1 DEF DecodeFloat
    <3>2. k = c.m /\ x = least /\ v = Fin(n, k, x)
      BY <3>1, FormsAre
    <3>3. c.m # 0 /\ k < whole
      BY <1>1, <1>3, <2>1, <3>2 DEF IsZero
    <3> HIDE DEF k, x, whole
    <3>4. q = [neg |-> n, e |-> 0, m |-> k]
      BY <3>3
    <3> QED
      BY <1>1, <1>2, <1>3, <2>1, <3>2, <3>3, <3>4
  <2>2. CASE c.e # 0
    <3>1. v = Fin(n, c.m + whole, c.e - f.bias - f.man)
      BY <1>1, <1>4, <2>2 DEF DecodeFloat
    <3>2. k = c.m + whole /\ x = c.e - f.bias - f.man /\ v = Fin(n, k, x)
      BY <3>1, FormsAre
    <3> HIDE DEF k, x, whole
    <3>3. ~(k < whole) /\ k - whole = c.m /\ x + f.man + f.bias = c.e
      BY <1>1, <1>3, <3>2
    <3>4. q = [neg |-> n, e |-> c.e, m |-> c.m]
      BY <3>3
    <3> QED
      BY <1>1, <1>2, <1>3, <1>4, <2>2, <3>2, <3>3, <3>4
  <2> QED
    BY <2>1, <2>2
<1> HIDE DEF q, whole
<1>6. k * Power[x - p] < Power[MantBits - 1] /\ p <= x
  OBVIOUS
<1> HIDE DEF k, x
<1> DEFINE mant == k * Power[x - p]
           b == BitLength(k)
<1>7. /\ LastPlace(mant, p, f) = (IF b - 1 + x >= 1 - f.bias THEN b - 1 + x ELSE 1 - f.bias) - f.man
      /\ mant \in Nat /\ mant > 0 /\ b \in Nat /\ b >= 1
      /\ k < Power[b] /\ k >= Power[b - 1]
  BY <1>5, <1>6, ExactPlace
<1>8. Units(mant, p, x, n) = k
  <2>1. Units(mant, p, x, n) = k * Power[x - x]
    <3>1. ASSUME NEW s \in Int, s <= x PROVE Units(mant, p, s, n) = k * Power[x - s]
      <4> k \in Nat /\ k > 0 /\ x \in Int /\ p <= x /\ k * Power[x - p] < Power[MantBits - 1]
        BY <1>5, <1>6
      <4> QED
        BY <3>1, ExactUnits
    <3>2. x \in Int /\ x <= x
      BY <1>5
    <3> HIDE DEF mant
    <3> QED
      BY <3>1, <3>2
  <2>2. x - x = 0 /\ Power[0] = 1
    BY <1>5, PowerRuns
  <2>3. k * 1 = k
    BY <1>5
  <2> QED
    BY <2>1, <2>2, <2>3
<1> HIDE DEF mant, b
<1>9. LastPlace(mant, p, f) = x
  <2>1. Power[b] \in Nat /\ Power[b - 1] \in Nat /\ b - 1 \in Nat
    BY <1>7, PowerIs
  <2>2. CASE k < whole
    <3>1. Power[b - 1] < Power[f.man]
      BY <1>1, <1>5, <1>7, <2>1, <2>2 DEF whole
    <3>2. b - 1 < f.man
      BY <1>1, <2>1, <3>1, PowerOrders
    <3> QED
      BY <1>1, <1>5, <1>7, <2>2, <3>2
  <2>3. CASE ~(k < whole)
    <3>1. Power[b - 1] < Power[f.man + 1] /\ Power[f.man] < Power[b]
      BY <1>1, <1>2, <1>5, <1>7, <2>1, <2>3 DEF whole
    <3>2. b - 1 < f.man + 1 /\ f.man < b
      BY <1>1, <1>7, <2>1, <3>1, PowerOrders
    <3> QED
      BY <1>1, <1>5, <1>7, <3>2
  <2> QED
    BY <2>2, <2>3
<1>10. Encoded(Fin(n, mant, p), f) = Carry(n, k, x, f, "nearest_even", "none")
  BY <1>7, <1>8, <1>9, EncodedIs
<1>11. Carry(n, k, x, f, "nearest_even", "none") = Value(q)
  BY <1>1, <1>3, <1>5, Packed DEF q, whole
<1> QED
  BY <1>5, <1>10, <1>11 DEF Rne, Encoded, Value, mant, k, x, n

\* A rounded value: zero when no unit of the last place is left, infinite past the largest.
LEMMA RoundedKinds ==
  ASSUME NEW f, IsIeee(f), NEW neg \in BOOLEAN, NEW mant \in Nat, mant > 0,
         mant < Power[MantBits - 1], NEW exp \in Int,
         NEW place, place = LastPlace(mant, exp, f), NEW u, u = Units(mant, exp, place, neg)
  PROVE  LET r == Rne(Fin(neg, mant, exp), f)
         IN  /\ r \in Patterns(f) /\ r.neg = neg
             /\ DecodeFloat(r, f).class \in {"fin", "inf"}
             /\ u > 0 => ~IsZero(r)
             /\ place + f.man <= f.bias /\ u < Power[f.man + 1] => DecodeFloat(r, f).class = "fin"
             /\ place + 1 + f.man <= f.bias => DecodeFloat(r, f).class = "fin"
<1> DEFINE r == Rne(Fin(neg, mant, exp), f)
           least == 1 - f.bias - f.man
           Rounded(j, p) == Carry(neg, j, p, f, "nearest_even", "none").value
           IsDone(q, j, p) == /\ q \in Patterns(f) /\ q.neg = neg /\ DecodeFloat(q, f).class \in {"fin", "inf"}
                              /\ ~IsZero(q)
                              /\ p + f.man <= f.bias => DecodeFloat(q, f).class = "fin"
<1>1. \A x : Value(x).value = x
  BY DEF Value
<1>2. f.man \in Nat /\ f.bias \in Nat /\ f.bias >= 1 /\ Power[f.man] \in Nat /\ Power[f.man] >= 2
      /\ Power[f.man + 1] = 2 * Power[f.man]
  <2>1. f.man \in Nat /\ f.bias \in Nat /\ f.bias >= 1 /\ Power[f.man] \in Nat /\ Power[f.man] >= 2
    BY LaneIs DEF IsIeee
  <2> QED
    BY <2>1, PowerIs
<1>3. /\ u \in Nat /\ u <= Power[f.man + 1] /\ place \in Int /\ place >= least
      /\ u < Power[f.man] => place = least
  BY UnitsBound
<1>4. r = Rounded(u, place)
  BY EncodedIs DEF Rne, Encoded
<1>5. ASSUME NEW k \in Nat, k > 0, k < Power[f.man + 1], NEW p \in Int, p >= least,
             k < Power[f.man] => p = least
      PROVE  IsDone(Rounded(k, p), k, p)
  <2>1. CASE p + f.man <= f.bias
    <3> DEFINE q == [neg |-> neg, e |-> IF k < Power[f.man] THEN 0 ELSE p + f.man + f.bias,
                     m |-> IF k < Power[f.man] THEN k ELSE k - Power[f.man]]
    <3>1. Carry(neg, k, p, f, "nearest_even", "none") = Value(q) /\ q \in Patterns(f)
          /\ DecodeFloat(q, f) = Fin(neg, k, p)
      BY <1>5, <2>1, Packed
    <3>2. q.neg = neg
      OBVIOUS
    <3> HIDE DEF q
    <3>3. DecodeFloat(q, f).class = "fin" /\ DecodeFloat(q, f).mant = k
      BY <3>1, FormsAre
    <3>4. ~IsZero(q)
      BY <1>5, <3>1, <3>3, PatternIs
    <3> QED
      BY <1>1, <3>1, <3>2, <3>3, <3>4
  <2>2. CASE p + f.man > f.bias
    <3>1. k >= Power[f.man] /\ ~(p + f.man <= f.bias)
      BY <1>2, <1>5, <2>2
    <3>2. Carry(neg, k, p, f, "nearest_even", "none") = Value(Infinity(f, neg))
      BY <1>5, <2>2, <3>1, Overflown
    <3>3. Infinity(f, neg) \in Patterns(f) /\ DecodeFloat(Infinity(f, neg), f) = Inf(neg)
      BY InfinityPasses, InfinityIsPattern
    <3>4. Infinity(f, neg).neg = neg
      BY DEF Infinity
    <3>5. DecodeFloat(Infinity(f, neg), f).class = "inf"
      BY <3>3, FormsAre
    <3>6. ~IsZero(Infinity(f, neg))
      BY <3>3, <3>5, PatternIs
    <3> QED
      BY <1>1, <3>1, <3>2, <3>3, <3>4, <3>5, <3>6
  <2> QED
    BY <1>2, <1>5, <2>1, <2>2
<1> HIDE DEF r
<1>6. CASE u = 0
  <2>1. ~(u >= Power[f.man + 1]) /\ ~(u > 0)
    BY <1>2, <1>6
  <2>2. Carry(neg, u, place, f, "nearest_even", "none") = Value(Zero(neg))
    BY <1>6, <2>1, Zenon DEF Carry, Pack
  <2>3. Zero(neg) \in Patterns(f) /\ DecodeFloat(Zero(neg), f) = Fin(neg, 0, least)
    BY ZeroDecoded DEF IsIeee
  <2>4. Zero(neg).neg = neg
    BY DEF Zero
  <2> QED
    BY <1>1, <1>4, <2>1, <2>2, <2>3, <2>4, FormsAre DEF r
<1>7. CASE u > 0 /\ u < Power[f.man + 1]
  <2> HIDE DEF Rounded
  <2>1. IsDone(Rounded(u, place), u, place)
    <3> HIDE DEF IsDone
    <3> QED
      BY <1>3, <1>5, <1>7
  <2>2. place + 1 + f.man <= f.bias => place + f.man <= f.bias
    BY <1>2, <1>3
  <2> QED
    BY <1>4, <2>1, <2>2 DEF r
<1>8. CASE u = Power[f.man + 1]
  <2> DEFINE k == Power[f.man]
             p == place + 1
  <2>1. u >= Power[f.man + 1] /\ u \div 2 = k /\ ~(k >= Power[f.man + 1])
    BY <1>2, <1>8
  <2>2. Carry(neg, u, place, f, "nearest_even", "none") = Pack(neg, k, p, f, "nearest_even", "none")
    BY <2>1, Zenon DEF Carry
  <2>3. Carry(neg, k, p, f, "nearest_even", "none") = Pack(neg, k, p, f, "nearest_even", "none")
    BY <2>1, Zenon DEF Carry
  <2>4. k \in Nat /\ k > 0 /\ k < Power[f.man + 1] /\ ~(k < Power[f.man]) /\ p \in Int /\ p >= least
    BY <1>2, <1>3
  <2>5. IsDone(Rounded(k, p), k, p)
    <3> HIDE DEF k, p, Rounded, IsDone
    <3>1. k < Power[f.man] => p = least
      BY <2>4
    <3> QED
      BY <1>5, <2>4, <3>1
  <2>6. r = Rounded(k, p)
    BY <1>4, <2>2, <2>3
  <2>7. ~(u < Power[f.man + 1])
    BY <1>2, <1>8
  <2> QED
    BY <2>5, <2>6, <2>7 DEF r
<1>9. u = 0 \/ (u > 0 /\ u < Power[f.man + 1]) \/ u = Power[f.man + 1]
  BY <1>2, <1>3
<1> QED
  BY <1>6, <1>7, <1>8, <1>9

LEMMA DivisionBelow ==
  ASSUME NEW mant \in Nat, NEW p \in Nat, p > 0, NEW k \in Nat, mant <= k * p
  PROVE  LET q == mant \div p
         IN  q \in Nat /\ q <= k /\ (q = k => mant = k * p)
<1> DEFINE q == mant \div p
           low == mant % p
<1>1. q \in Nat /\ low \in 0..(p - 1) /\ mant = q * p + low
  BY Brackets
<1> HIDE DEF q, low
<1>2. ASSUME q >= k + 1 PROVE FALSE
  <2>1. (q - (k + 1)) * p >= 0 /\ q * p = (q - (k + 1)) * p + (k + 1) * p
        /\ (k + 1) * p = k * p + p
    BY <1>1, <1>2
  <2> QED
    BY <1>1, <2>1
<1> QED
  BY <1>1, <1>2 DEF q

\* The rounded units of a value are not above those of a bound on the grid.
LEMMA UnitsBelow ==
  ASSUME NEW f, IsIeee(f), NEW neg, NEW mant \in Nat, mant > 0, mant < Power[MantBits - 1],
         NEW exp \in Int, NEW k \in Nat, k < Power[f.man + 1], NEW x \in Int, exp <= x,
         x >= 1 - f.bias - f.man, mant <= k * Power[x - exp],
         NEW place, place = LastPlace(mant, exp, f), NEW u, u = Units(mant, exp, place, neg)
  PROVE  place <= x /\ (place = x => u <= k)
<1> DEFINE l == BitLength(mant)
           d == x - exp
           p == Power[d]
           lead == l - 1 + exp
<1>1. f.man \in Nat /\ f.bias \in Nat /\ f.man + 1 \in Nat /\ Power[f.man + 1] \in Nat
      /\ d \in Nat /\ p \in Nat /\ p >= 1
  BY LaneIs, PowerIs DEF IsIeee
<1>2. l \in Nat /\ l >= 1 /\ mant >= Power[l - 1] /\ l - 1 \in Nat /\ Power[l - 1] \in Nat
      /\ MantBits \in Nat
  BY BitLengthIs, WideLanes, PowerIs
<1>3. place = (IF lead >= 1 - f.bias THEN lead ELSE 1 - f.bias) - f.man
  BY Zenon DEF LastPlace
<1>4. mant < Power[f.man + 1] * p
  <2> DEFINE w == Power[f.man + 1]
  <2>1. k < w /\ w \in Nat
    BY <1>1
  <2> HIDE DEF w
  <2>2. (w - k) * p > 0 /\ w * p = k * p + (w - k) * p /\ k * p \in Nat
    <3> HIDE DEF p
    <3> QED
      BY <1>1, <2>1
  <2>3. mant <= k * p
    BY DEF p
  <2> HIDE DEF p
  <2>4. w * p \in Nat
    BY <1>1, <2>1
  <2> QED
    BY <1>1, <2>1, <2>2, <2>3, <2>4 DEF w
<1> HIDE DEF l, p
<1>5. l - 1 < f.man + 1 + d
  <2>1. Power[f.man + 1 + d] = Power[f.man + 1] * p /\ f.man + 1 + d \in Nat
    <3> DEFINE a == f.man + 1
    <3> HIDE DEF d, a
    <3>1. a \in Nat /\ d \in Nat
      BY <1>1 DEF a
    <3>2. Power[a + d] = Power[a] * Power[d]
      BY <3>1, PowerAdds
    <3> QED
      BY <3>1, <3>2 DEF p, a
  <2>2. Power[f.man + 1] * p \in Nat
    BY <1>1
  <2> HIDE DEF d
  <2>3. Power[l - 1] < Power[f.man + 1 + d]
    BY <1>2, <1>4, <2>1, <2>2
  <2> QED
    BY <1>2, <2>1, <2>3, PowerOrders
<1>6. place <= x
  BY <1>1, <1>2, <1>3, <1>5
<1>7. ASSUME place = x PROVE u <= k
  <2>1. CASE d = 0
    <3>1. u = mant * Power[exp - place] /\ exp - place = 0 /\ p = Power[0]
      BY <1>7, <2>1 DEF Units, p
    <3>2. Power[0] = 1
      BY PowerRuns
    <3> QED
      BY <1>1, <3>1, <3>2 DEF p
  <2>2. CASE d # 0
    <3>1. ~(place <= exp) /\ place - exp = d
      BY <1>1, <1>7, <2>2
    <3>2. u = RoundShift(mant, d, neg, "nearest_even")
      BY <3>1, Zenon DEF Units
    <3>3. mant <= k * p
      BY DEF p
    <3> HIDE DEF d
    <3>4. mant \div p \in Nat /\ (mant \div p <= k) /\ (mant \div p = k => mant = k * p)
      <4> p > 0
        BY <1>1
      <4> QED
        BY <1>1, <3>3, DivisionBelow
    <3>5. CASE d >= MantBits
      <4>1. u = 0 \/ u = 1
        BY <3>2, <3>5 DEF RoundShift, RoundFar, Bumped
      <4>2. k # 0
        BY <1>1, <3>3
      <4> QED
        BY <4>1, <4>2
    <3>6. CASE ~(d >= MantBits)
      <4>1. u = RoundUnit(mant, p, neg, "nearest_even")
        BY <3>2, <3>6, Zenon DEF RoundShift, p
      <4>2. u = mant \div p \/ u = mant \div p + 1
        BY <1>1, <4>1, RoundsBeside
      <4>3. CASE mant \div p = k
        <5>1. mant = k * p /\ p > 0
          BY <1>1, <3>4, <4>3
        <5>2. RoundUnit(k * p, p, neg, "nearest_even") = k
          BY <1>1, <5>1, MultiplesAreKept
        <5> QED
          BY <4>1, <5>1, <5>2
      <4> QED
        BY <3>4, <4>2, <4>3
    <3> QED
      BY <3>5, <3>6
  <2> QED
    BY <2>1, <2>2
<1> QED
  BY <1>6, <1>7

\* A value with its last place no lower than a subnormal's is not rounded to zero.
LEMMA UnitsAbove ==
  ASSUME NEW f, IsIeee(f), NEW neg, NEW mant \in Nat, mant > 0, mant < Power[MantBits - 1],
         NEW exp \in Int, exp >= 1 - f.bias - f.man,
         NEW place, place = LastPlace(mant, exp, f), NEW u, u = Units(mant, exp, place, neg)
  PROVE  u > 0
<1>1. f.man \in Nat /\ f.bias \in Nat /\ Power[f.man] \in Nat /\ Power[f.man] >= 1
  BY LaneIs DEF IsIeee
<1>2. /\ u \in Nat /\ place \in Int
      /\ u < Power[f.man] => place = 1 - f.bias - f.man
  BY UnitsBound
<1>3. CASE u < Power[f.man]
  <2>1. place <= exp /\ exp - place \in Nat
    BY <1>1, <1>2, <1>3
  <2>2. u = mant * Power[exp - place]
    BY <2>1, Zenon DEF Units
  <2>3. Power[exp - place] \in Nat /\ Power[exp - place] >= 1
    BY <2>1, PowerIs
  <2> DEFINE p == Power[exp - place]
  <2> HIDE DEF p
  <2>4. mant * p >= 1
    BY <2>3 DEF p
  <2> QED
    BY <2>2, <2>4 DEF p
<1> QED
  BY <1>1, <1>2, <1>3

-----------------------------------------------------------------------------
\* Sums and products of the patterns of a lane.
Class(x) == DecodeFloat(x, Lane).class
\* The last place of a sum of finite values, and the value in it.
Level(x, y) == Lower(DecodeFloat(x, Lane), DecodeFloat(y, Lane))
At(x, e) == Aligned(DecodeFloat(x, Lane), e)

LEMMA ClassIs ==
  ASSUME IsIeee(Lane), NEW x \in Patterns(Lane)
  PROVE  /\ Class(x) \in {"nan", "inf", "fin"}
         /\ IsNanLane(x) <=> Class(x) = "nan"
         /\ IsInf(x) <=> Class(x) = "inf"
         /\ IsFin(x) <=> Class(x) = "fin"
         /\ IsZero(x) => Class(x) = "fin"
         /\ DecodeFloat(x, Lane).neg = x.neg /\ x.neg \in BOOLEAN
<1> DEFINE v == DecodeFloat(x, Lane)
<1>1. IsFields(x) /\ IsValue(v) /\ (IsZero(x) => v.class = "fin")
  BY PatternIs
<1>2. v.class \in {"nan", "inf", "fin"}
  BY <1>1, DecodedIs DEF IsValue
<1>3. v.neg = x.neg
  <2>1. \A b, m : Inf(b).neg = b /\ Nan(b, m, Lane.man).neg = b /\ Fin(b, m, 1 - Lane.bias - Lane.man).neg = b
                  /\ Fin(b, m, x.e - Lane.bias - Lane.man).neg = b
    BY DEF Inf, Nan, Fin
  <2> QED
    BY <2>1 DEF DecodeFloat
<1>4. x.neg \in BOOLEAN
  BY <1>1 DEF IsFields
<1>5. /\ IsNanLane(x) <=> v.class = "nan"
      /\ IsInf(x) <=> v.class = "inf"
      /\ IsFin(x) <=> v.class = "fin"
  BY LaneKinds DEF IsNan
<1> QED
  BY <1>1, <1>2, <1>3, <1>4, <1>5 DEF Class

\* A finite pattern's value.
LEMMA FiniteIs ==
  ASSUME IsIeee(Lane), NEW x \in Patterns(Lane), Class(x) = "fin"
  PROVE  LET v == DecodeFloat(x, Lane)
         IN  /\ v = Fin(x.neg, v.mant, v.exp) /\ v.mant \in Nat /\ v.exp \in Int
             /\ v.mant < Power[Lane.man + 1] /\ v.exp >= 1 - Lane.bias - Lane.man
             /\ v.exp <= Lane.bias - Lane.man
             /\ IsZero(x) <=> v.mant = 0
<1> DEFINE v == DecodeFloat(x, Lane)
<1>1. IsValue(v) /\ v.class = "fin" /\ v.neg = x.neg
  BY PatternIs, ClassIs DEF Class
<1>2. v = Fin(v.neg, v.mant, v.exp)
  BY <1>1, FinMinus DEF IsValue
<1> QED
  BY <1>1, <1>2, PatternIs DEF IsValue

LEMMA AtIs ==
  ASSUME IsIeee(Lane), NEW x \in Patterns(Lane), Class(x) = "fin",
         NEW e \in Int, e <= DecodeFloat(x, Lane).exp
  PROVE  LET v == DecodeFloat(x, Lane)
             k == v.mant * Power[v.exp - e]
         IN  /\ k \in Nat /\ At(x, e) = (IF x.neg THEN -k ELSE k)
             /\ At(x, e) = 0 <=> IsZero(x)
<1> DEFINE v == DecodeFloat(x, Lane)
           m == v.mant
           p == Power[v.exp - e]
<1>1. v = Fin(x.neg, m, v.exp) /\ m \in Nat /\ v.exp \in Int /\ (IsZero(x) <=> m = 0)
  BY FiniteIs
<1>2. v.neg = x.neg /\ x.neg \in BOOLEAN
  BY ClassIs
<1>3. p \in Nat /\ p >= 1
  <2>1. v.exp - e \in Nat
    BY <1>1
  <2> QED
    BY <2>1, PowerIs
<1>4. At(x, e) = (IF x.neg THEN -m ELSE m) * p
  BY <1>2, Zenon DEF At, Aligned
<1> HIDE DEF m, p
<1>5. (-m) * p = -(m * p) /\ m * p \in Nat /\ (m * p = 0 <=> m = 0)
  <2>1. m # 0 => m * p # 0
    BY <1>1, <1>3
  <2> QED
    BY <1>1, <1>3, <2>1
<1> DEFINE q == m * p
<1>6. At(x, e) = (IF x.neg THEN -q ELSE q)
  BY <1>2, <1>4, <1>5
<1> HIDE DEF q
<1>7. At(x, e) = 0 <=> m = 0
  BY <1>2, <1>5, <1>6 DEF q
<1> QED
  BY <1>1, <1>5, <1>6, <1>7 DEF q, m, p

LEMMA LevelIs ==
  ASSUME IsIeee(Lane), NEW x \in Patterns(Lane), Class(x) = "fin",
         NEW y \in Patterns(Lane), Class(y) = "fin"
  PROVE  LET e == Level(x, y)
         IN  /\ e \in Int /\ e >= 1 - Lane.bias - Lane.man
             /\ e <= DecodeFloat(x, Lane).exp /\ e <= DecodeFloat(y, Lane).exp
             /\ Level(y, x) = e /\ Level(Minus(x), y) = e /\ Level(x, Minus(y)) = e
             /\ Level(Minus(x), Minus(y)) = e
<1> DEFINE v == DecodeFloat(x, Lane)
           w == DecodeFloat(y, Lane)
<1>1. IsFields(x) /\ IsFields(y) /\ IsDecoded(v) /\ IsDecoded(w) /\ v.class = "fin" /\ w.class = "fin"
  BY PatternMinus, PatternIs DEF IsValue, Class
<1>2. DecodeFloat(Minus(x), Lane).exp = v.exp /\ DecodeFloat(Minus(y), Lane).exp = w.exp
  BY <1>1, MinusDecodes, FinMinus
<1>3. v.exp \in Int /\ w.exp \in Int /\ v.exp >= 1 - Lane.bias - Lane.man
      /\ w.exp >= 1 - Lane.bias - Lane.man
  BY FiniteIs
<1>4. Lane.bias \in Nat /\ Lane.man \in Nat
  BY LaneIs DEF IsIeee
<1> HIDE DEF v, w
<1>5. /\ Lower(v, w) \in Int /\ Lower(v, w) >= 1 - Lane.bias - Lane.man
      /\ Lower(v, w) <= v.exp /\ Lower(v, w) <= w.exp /\ Lower(w, v) = Lower(v, w)
  BY <1>3, <1>4 DEF Lower
<1> QED
  BY <1>2, <1>5 DEF Level, Lower, v, w

\* One of two bounded integers of opposite signs, or one that is zero.
LEMMA FiniteSum ==
  ASSUME ExactFits(Lane), NEW x \in Patterns(Lane), Class(x) = "fin",
         NEW y \in Patterns(Lane), Class(y) = "fin"
  PROVE  LET r == Add(x, y)
             e == Level(x, y)
         IN  /\ r \in Patterns(Lane) /\ Class(r) \in {"fin", "inf"}
             /\ At(x, e) \in Int /\ At(y, e) \in Int
             /\ IsZero(r) <=> At(x, e) + At(y, e) = 0
             /\ x.neg # y.neg \/ IsZero(x) \/ IsZero(y) => Class(r) = "fin"
<1> DEFINE r == Add(x, y)
           e == Level(x, y)
           v == DecodeFloat(x, Lane)
           w == DecodeFloat(y, Lane)
           a == At(x, e)
           b == At(y, e)
           jv == v.mant * Power[v.exp - e]
           jw == w.mant * Power[w.exp - e]
           least == 1 - Lane.bias - Lane.man
           m == IF a + b < 0 THEN -(a + b) ELSE a + b
<1>1. IsIeee(Lane) /\ IsValue(v) /\ IsValue(w) /\ v.class = "fin" /\ w.class = "fin"
      /\ IsDecoded(v) /\ IsDecoded(w)
  BY PatternIs DEF ExactFits, Class, IsValue
<1>2. /\ e \in Int /\ e >= least /\ e <= v.exp /\ e <= w.exp
  BY <1>1, LevelIs
<1>3. /\ v = Fin(x.neg, v.mant, v.exp) /\ v.mant \in Nat /\ v.exp \in Int
      /\ v.mant < Power[Lane.man + 1] /\ v.exp >= least /\ v.exp <= Lane.bias - Lane.man
      /\ (IsZero(x) <=> v.mant = 0) /\ x.neg \in BOOLEAN
  BY <1>1, FiniteIs, ClassIs
<1>4. /\ w = Fin(y.neg, w.mant, w.exp) /\ w.mant \in Nat /\ w.exp \in Int
      /\ w.mant < Power[Lane.man + 1] /\ w.exp >= least /\ w.exp <= Lane.bias - Lane.man
      /\ (IsZero(y) <=> w.mant = 0) /\ y.neg \in BOOLEAN
  BY <1>1, FiniteIs, ClassIs
<1>5. jv \in Nat /\ a = (IF x.neg THEN -jv ELSE jv) /\ (a = 0 <=> IsZero(x))
  <2> HIDE DEF e
  <2> QED
    BY <1>1, <1>2, AtIs
<1>6. jw \in Nat /\ b = (IF y.neg THEN -jw ELSE jw) /\ (b = 0 <=> IsZero(y))
  <2> HIDE DEF e
  <2> QED
    BY <1>1, <1>2, AtIs
<1>7. r \in Patterns(Lane) /\ r = Rne(ExactSum(v, w), Lane)
  BY <1>1, AddIsPattern, ArithIs, LaneOps
<1>8. (IsZero(x) <=> IsNought(v)) /\ (IsZero(y) <=> IsNought(w))
  BY <1>1, <1>3, <1>4 DEF IsNought
<1>9. a \in Int /\ b \in Int
  <2> HIDE DEF jv, jw, a, b
  <2> QED
    BY <1>3, <1>4, <1>5, <1>6
<1>10. CASE IsTaken(v, w)
  <2>1. ASSUME NEW c \in Patterns(Lane), NEW s, s = DecodeFloat(c, Lane), s.class = "fin", ~IsZero(c)
        PROVE  Rne(s, Lane) = c
    <3>1. s = Fin(c.neg, s.mant, s.exp) /\ s.mant \in Nat /\ s.exp \in Int
          /\ s.mant < Power[Lane.man + 1]
      BY <1>1, <2>1, FiniteIs DEF Class
    <3>2. s.exp - s.exp = 0 /\ Power[0] = 1 /\ s.mant * 1 = s.mant /\ s.exp <= s.exp
      BY <3>1, PowerRuns
    <3>3. s.mant < Power[MantBits - 1]
      <4>1. Lane.man + 1 \in Nat /\ MantBits - 1 \in Nat /\ Lane.man + 1 <= MantBits - 1
        BY <1>1, LaneIs, WideLanes DEF ExactFits, IsIeee
      <4>2. Power[Lane.man + 1] <= Power[MantBits - 1] /\ Power[Lane.man + 1] \in Nat
            /\ Power[MantBits - 1] \in Nat
        BY <4>1, PowerGrows, PowerIs
      <4> QED
        BY <3>1, <4>2
    <3>4. s.mant * Power[s.exp - s.exp] = s.mant
      BY <3>2
    <3>5. Rne(Fin(c.neg, s.mant * Power[s.exp - s.exp], s.exp), Lane) = c
      BY <1>1, <2>1, <3>1, <3>2, <3>3, <3>4, Reencoded
    <3> QED
      BY <3>1, <3>4, <3>5
  <2>2. CASE IsZero(x) /\ ~IsZero(y)
    <3>1. ExactSum(v, w) = w
      BY <1>1, <1>8, <2>2 DEF ExactSum
    <3>2. r = y
      BY <1>1, <1>7, <2>1, <2>2, <3>1
    <3> HIDE DEF a, b, r, e
    <3>3. ~(a + b = 0)
      BY <1>5, <1>6, <1>9, <2>2
    <3> QED
      BY <1>7, <1>9, <2>2, <3>2, <3>3 DEF a, b, r, e
  <2>3. CASE ~IsZero(x) /\ IsZero(y)
    <3>1. ExactSum(v, w) = v
      BY <1>1, <1>8, <2>3 DEF ExactSum
    <3>2. r = x
      BY <1>1, <1>7, <2>1, <2>3, <3>1
    <3> HIDE DEF a, b, r, e
    <3>3. ~(a + b = 0)
      BY <1>5, <1>6, <1>9, <2>3
    <3> QED
      BY <1>7, <1>9, <2>3, <3>2, <3>3 DEF a, b, r, e
  <2> QED
    BY <1>1, <1>8, <1>10, <2>2, <2>3 DEF IsTaken
<1>11. CASE ~IsTaken(v, w)
  <2>1. (\E sign \in BOOLEAN : ExactSum(v, w) = Fin(sign, m, e)) /\ m \in Nat /\ m < Power[MantBits - 1]
    BY <1>1, <1>3, <1>4, <1>11, SumBounded DEF Level, At
  <2>2. PICK sign \in BOOLEAN : ExactSum(v, w) = Fin(sign, m, e)
    BY <2>1
  <2>3. m = 0 <=> a + b = 0
    <3> HIDE DEF a, b
    <3> QED
      BY <1>9
  <2>4. CASE m = 0
    <3>1. IsZero(r)
      <4> HIDE DEF m, e
      <4> QED
        BY <1>7, <2>2, <2>4, NoughtRounds
    <3>2. Class(r) = "fin"
      <4> HIDE DEF r
      <4> QED
        BY <1>1, <1>7, <3>1, ClassIs
    <3> HIDE DEF r, a, b, e
    <3> QED
      BY <1>7, <1>9, <2>3, <2>4, <3>1, <3>2 DEF r, a, b, e
  <2>5. CASE m # 0
    <3> DEFINE place == LastPlace(m, e, Lane)
               u == Units(m, e, place, sign)
    <3>1. m > 0
      <4> HIDE DEF m
      <4> QED
        BY <2>1, <2>5
    <3> HIDE DEF m, e
    <3>2. u > 0
      BY <1>1, <1>2, <2>1, <3>1, UnitsAbove
    <3>3. /\ r.neg = sign
          /\ DecodeFloat(r, Lane).class \in {"fin", "inf"}
          /\ u > 0 => ~IsZero(r)
          /\ place + Lane.man <= Lane.bias /\ u < Power[Lane.man + 1] => DecodeFloat(r, Lane).class = "fin"
          /\ place + 1 + Lane.man <= Lane.bias => DecodeFloat(r, Lane).class = "fin"
      BY <1>1, <1>2, <1>7, <2>1, <2>2, <3>1, RoundedKinds
    <3>4. ASSUME NEW k \in Nat, k < Power[Lane.man + 1], NEW z \in Int, e <= z, z >= least,
                 z <= Lane.bias - Lane.man, m <= k * Power[z - e]
          PROVE  Class(r) = "fin"
      <4>1. place <= z /\ (place = z => u <= k)
        BY <1>1, <1>2, <2>1, <3>1, <3>4, UnitsBelow
      <4>2. u \in Nat /\ place \in Int /\ Power[Lane.man + 1] \in Nat /\ Lane.man \in Nat /\ Lane.bias \in Nat
        <5>1. Lane.man \in Nat /\ Lane.bias \in Nat /\ Lane.man + 1 \in Nat
          BY <1>1, LaneIs DEF IsIeee
        <5> QED
          BY <1>1, <1>2, <2>1, <3>1, <5>1, UnitsBound, PowerIs
      <4> HIDE DEF u, place
      <4>3. CASE place = z
        BY <3>3, <3>4, <4>1, <4>2, <4>3 DEF Class
      <4>4. CASE place # z
        BY <3>3, <3>4, <4>1, <4>2, <4>4 DEF Class
      <4> QED
        BY <4>3, <4>4
    <3>5. ASSUME x.neg # y.neg \/ IsZero(x) \/ IsZero(y)
          PROVE  Class(r) = "fin"
      <4>1. m <= jv \/ m <= jw
        <5> HIDE DEF a, b, jv, jw
        <5> QED
          BY <1>3, <1>4, <1>5, <1>6, <1>9, <3>5 DEF m
      <4>2. CASE m <= jv
        BY <1>2, <1>3, <3>4, <4>2
      <4>3. CASE m <= jw
        BY <1>2, <1>4, <3>4, <4>3
      <4> QED
        BY <4>1, <4>2, <4>3
    <3>6. ~IsZero(r) /\ ~(a + b = 0)
      BY <2>3, <2>5, <3>2, <3>3
    <3> HIDE DEF r, a, b, u, place
    <3> QED
      BY <1>7, <1>9, <3>3, <3>5, <3>6 DEF r, a, b, e, Class
  <2> QED
    BY <2>4, <2>5
<1> QED
  BY <1>10, <1>11

LEMMA ProductCommutes ==
  ASSUME NEW v, IsValue(v), v.class # "nan", NEW w, IsValue(w), w.class # "nan"
  PROVE  ExactProduct(v, w) = ExactProduct(w, v)
<1>1. Apart(v, w) = Apart(w, v)
  BY DEF Apart
<1>2. CASE v.class = "inf" \/ w.class = "inf"
  BY <1>1, <1>2 DEF ExactProduct
<1>3. CASE ~(v.class = "inf" \/ w.class = "inf")
  <2>1. /\ v.mant \in Nat /\ v.exp \in Int /\ w.mant \in Nat /\ w.exp \in Int
    BY <1>3, DecodedIs DEF IsValue
  <2>2. v.mant * w.mant = w.mant * v.mant /\ v.exp + w.exp = w.exp + v.exp
    BY <2>1
  <2> QED
    BY <1>1, <1>3, <2>2 DEF ExactProduct
<1> QED
  BY <1>2, <1>3

LEMMA SumCommutes ==
  ASSUME NEW v, IsValue(v), v.class # "nan", NEW w, IsValue(w), w.class # "nan"
  PROVE  ExactSum(v, w) = ExactSum(w, v)
<1>1. CASE IsTaken(v, w)
  <2>1. CASE v.class = "inf" /\ w.class = "inf"
    <3>1. (Apart(v, w) <=> Apart(w, v)) /\ (~Apart(v, w) => v = w)
      <4>1. v = Inf(v.neg) /\ w = Inf(w.neg)
        <5>1. (\E n \in BOOLEAN : v = Inf(n)) /\ (\E n \in BOOLEAN : w = Inf(n))
          BY <2>1, DecodedIs DEF IsValue
        <5> QED
          BY <5>1, FormsAre
      <4> QED
        BY <4>1 DEF Apart
    <3> QED
      BY <2>1, <3>1 DEF ExactSum
  <2>2. CASE ~(v.class = "inf" /\ w.class = "inf")
    <3>1. \A n : (IsNought(v) => v.class # "inf") /\ (IsNought(w) => w.class # "inf")
      BY DEF IsNought
    <3> QED
      BY <1>1, <2>2, <3>1 DEF ExactSum, IsTaken
  <2> QED
    BY <2>1, <2>2
<1>2. CASE ~IsTaken(v, w)
  <2>1. v.class = "fin" /\ w.class = "fin" /\ v.exp \in Int /\ w.exp \in Int
        /\ v.neg \in BOOLEAN /\ w.neg \in BOOLEAN
    BY <1>2, DecodedIs DEF IsTaken, IsValue, IsDecoded
  <2> DEFINE e == Lower(v, w)
             a == Aligned(v, e)
             b == Aligned(w, e)
  <2>2. Lower(w, v) = e /\ e \in Int /\ e <= v.exp /\ e <= w.exp
    BY <2>1 DEF Lower
  <2> HIDE DEF e
  <2>3. a \in Int /\ b \in Int
    BY <2>1, <2>2, AlignedMinus
  <2>4. ExactSum(v, w) = Total(a, b, e, v.neg /\ w.neg)
    BY <1>2, SumComputed DEF e
  <2>5. ExactSum(w, v) = Total(b, a, e, w.neg /\ v.neg)
    <3>1. ~IsTaken(w, v)
      BY <1>2 DEF IsTaken
    <3> QED
      BY <2>2, <3>1, SumComputed
  <2> DEFINE n == v.neg /\ w.neg
             k == w.neg /\ v.neg
  <2> HIDE DEF a, b
  <2>6. a + b = b + a
    BY <2>3
  <2>7. n = k
    BY <2>1
  <2> HIDE DEF n, k
  <2>8. Total(a, b, e, n) = Total(b, a, e, k)
    BY <2>6, <2>7, Zenon DEF Total
  <2> QED
    BY <2>4, <2>5, <2>8 DEF n, k
<1> QED
  BY <1>1, <1>2

\* Sums and products of patterns commute.
LEMMA Commutes ==
  ASSUME IsIeee(Lane), NEW x \in Patterns(Lane), NEW y \in Patterns(Lane)
  PROVE  Mul(x, y) = Mul(y, x) /\ Add(x, y) = Add(y, x)
<1> DEFINE v == DecodeFloat(x, Lane)
           w == DecodeFloat(y, Lane)
<1>1. IsValue(v) /\ IsValue(w)
  BY PatternIs
<1>2. /\ v.class = "nan" \/ w.class = "nan" =>
           /\ Add(x, y) = NanOf(Lane) /\ Mul(x, y) = NanOf(Lane)
           /\ Add(y, x) = NanOf(Lane) /\ Mul(y, x) = NanOf(Lane)
      /\ v.class # "nan" /\ w.class # "nan" =>
           /\ Add(x, y) = Rne(ExactSum(v, w), Lane) /\ Mul(x, y) = Rne(ExactProduct(v, w), Lane)
           /\ Add(y, x) = Rne(ExactSum(w, v), Lane) /\ Mul(y, x) = Rne(ExactProduct(w, v), Lane)
  BY ArithIs, LaneOps
<1> QED
  BY <1>1, <1>2, ProductCommutes, SumCommutes

LEMMA InfinityClass ==
  ASSUME IsIeee(Lane), NEW n \in BOOLEAN
  PROVE  /\ Class(Rne(Inf(n), Lane)) = "inf" /\ Class(Infinity(Lane, n)) = "inf"
         /\ Class(NanOf(Lane)) = "nan" /\ Class(Rne(TheNan, Lane)) = "nan"
<1>1. Rne(Inf(n), Lane) = Infinity(Lane, n) /\ DecodeFloat(Infinity(Lane, n), Lane) = Inf(n)
  BY InfinityPasses
<1>2. DecodeFloat(Infinity(Lane, n), Lane).class = "inf"
  BY <1>1, FormsAre
<1> QED
  BY <1>1, <1>2, NanOfIs DEF Class, IsNan, NanOf

LEMMA MulKinds ==
  ASSUME ExactFits(Lane), NEW x \in Patterns(Lane), NEW y \in Patterns(Lane)
  PROVE  LET r == Mul(x, y)
         IN  /\ r \in Patterns(Lane)
             /\ Class(x) = "nan" \/ Class(y) = "nan" => Class(r) = "nan"
             /\ Class(x) = "inf" \/ Class(y) = "inf" => Class(r) \in {"inf", "nan"}
             /\ Class(x) = "inf" /\ Class(y) # "nan" /\ ~IsZero(y) => Class(r) = "inf"
             /\ Class(x) = "fin" /\ Class(y) = "fin" => Class(r) \in {"fin", "inf"}
             /\ Class(x) = "fin" /\ Class(y) = "fin" /\ (IsZero(x) \/ IsZero(y)) => IsZero(r)
<1> DEFINE v == DecodeFloat(x, Lane)
           w == DecodeFloat(y, Lane)
           r == Mul(x, y)
           n == Apart(v, w)
<1>1. IsIeee(Lane) /\ IsValue(v) /\ IsValue(w) /\ r \in Patterns(Lane)
      /\ v.class \in {"nan", "inf", "fin"} /\ w.class \in {"nan", "inf", "fin"}
      /\ (IsZero(x) <=> IsNought(v)) /\ (IsZero(y) <=> IsNought(w)) /\ n \in BOOLEAN
  BY PatternIs, MulIsPattern, LaneOps, DecodedIs DEF ExactFits, IsValue, IsNought, Apart
<1>2. CASE v.class = "nan" \/ w.class = "nan"
  <2>1. r = NanOf(Lane)
    BY <1>2, ArithIs, LaneOps
  <2> QED
    BY <1>1, <1>2, <2>1, InfinityClass DEF Class
<1>3. CASE v.class # "nan" /\ w.class # "nan" /\ (v.class = "inf" \/ w.class = "inf")
  <2>1. r = Rne(ExactProduct(v, w), Lane)
    BY <1>3, ArithIs, LaneOps
  <2>2. ExactProduct(v, w) = IF IsNought(v) \/ IsNought(w) THEN TheNan ELSE Inf(n)
    BY <1>3 DEF ExactProduct, TheNan
  <2>3. v.class = "inf" => ~IsNought(v)
    BY DEF IsNought
  <2> HIDE DEF v, w, n, r
  <2> QED
    BY <1>1, <1>3, <2>1, <2>2, <2>3, InfinityClass DEF Class, v, w, r
<1>4. CASE v.class = "fin" /\ w.class = "fin"
  <2> DEFINE m == v.mant * w.mant
             e == v.exp + w.exp
  <2>1. r = Rne(ExactProduct(v, w), Lane)
    BY <1>4, ArithIs, LaneOps
  <2>2. ExactProduct(v, w) = Fin(n, m, e)
    BY <1>4 DEF ExactProduct
  <2>3. /\ v.mant \in Nat /\ v.mant < Power[Lane.man + 1] /\ v.exp \in Int
        /\ w.mant \in Nat /\ w.mant < Power[Lane.man + 1] /\ w.exp \in Int
    BY <1>1, <1>4, FiniteIs DEF Class
  <2>4. m \in Nat /\ e \in Int /\ m < Power[MantBits - 1]
    BY <2>3, ProductBounded
  <2>5. (IsNought(v) => m = 0) /\ (IsNought(w) => m = 0)
    BY <2>3 DEF IsNought
  <2> HIDE DEF v, w, n, m, e
  <2>6. CASE m = 0
    <3>1. IsZero(r)
      BY <1>1, <2>1, <2>2, <2>6, NoughtRounds
    <3>2. Class(r) = "fin"
      <4> HIDE DEF r
      <4> QED
        BY <1>1, <3>1, ClassIs
    <3> QED
      BY <1>1, <1>4, <3>1, <3>2 DEF Class, v, w
  <2>7. CASE m # 0
    <3>1. m > 0
      BY <2>4, <2>7
    <3>2. DecodeFloat(Rne(Fin(n, m, e), Lane), Lane).class \in {"fin", "inf"}
      BY <1>1, <2>4, <3>1, RoundedKinds
    <3>3. Class(r) \in {"fin", "inf"}
      BY <2>1, <2>2, <3>2 DEF Class
    <3> QED
      BY <1>1, <1>4, <2>5, <2>7, <3>3 DEF Class, v, w
  <2> QED
    BY <2>6, <2>7
<1> QED
  BY <1>1, <1>2, <1>3, <1>4

LEMMA AddKinds ==
  ASSUME ExactFits(Lane), NEW x \in Patterns(Lane), NEW y \in Patterns(Lane)
  PROVE  LET r == Add(x, y)
         IN  /\ r \in Patterns(Lane)
             /\ Class(x) = "nan" \/ Class(y) = "nan" => Class(r) = "nan"
             /\ Class(x) # "fin" \/ Class(y) # "fin" => Class(r) \in {"inf", "nan"}
<1> DEFINE v == DecodeFloat(x, Lane)
           w == DecodeFloat(y, Lane)
           r == Add(x, y)
<1>1. IsIeee(Lane) /\ IsValue(v) /\ IsValue(w) /\ r \in Patterns(Lane)
      /\ v.class \in {"nan", "inf", "fin"} /\ w.class \in {"nan", "inf", "fin"}
  BY PatternIs, AddIsPattern, LaneOps, DecodedIs DEF ExactFits, IsValue
<1>2. CASE v.class = "nan" \/ w.class = "nan"
  <2>1. r = NanOf(Lane)
    BY <1>2, ArithIs, LaneOps
  <2> QED
    BY <1>1, <1>2, <2>1, InfinityClass DEF Class
<1>3. CASE v.class # "nan" /\ w.class # "nan" /\ (v.class = "inf" \/ w.class = "inf")
  <2>1. r = Rne(ExactSum(v, w), Lane)
    BY <1>3, ArithIs, LaneOps
  <2>2. ExactSum(v, w) = TheNan \/ (ExactSum(v, w) = v /\ v.class = "inf")
          \/ (ExactSum(v, w) = w /\ w.class = "inf")
    BY <1>3 DEF ExactSum, TheNan
  <2>3. \A u : IsValue(u) /\ u.class = "inf" => \E n \in BOOLEAN : u = Inf(n)
    BY DecodedIs DEF IsValue
  <2> HIDE DEF v, w
  <2>4. Class(r) \in {"inf", "nan"}
    <3> HIDE DEF r
    <3>1. CASE ExactSum(v, w) = TheNan
      BY <1>1, <2>1, <3>1, InfinityClass DEF r
    <3>2. CASE ExactSum(v, w) = v /\ v.class = "inf"
      BY <1>1, <2>1, <2>3, <3>2, InfinityClass
    <3>3. CASE ExactSum(v, w) = w /\ w.class = "inf"
      BY <1>1, <2>1, <2>3, <3>3, InfinityClass
    <3> QED
      BY <2>2, <3>1, <3>2, <3>3
  <2> QED
    BY <1>1, <1>3, <2>4 DEF Class, v, w
<1> QED
  BY <1>1, <1>2, <1>3 DEF Class

LEMMA DivKinds ==
  ASSUME ExactFits(Lane), NEW x \in Patterns(Lane), NEW y \in Patterns(Lane),
         Class(x) \in {"inf", "nan"}
  PROVE  /\ Class(Div(x, y)) \in {"inf", "nan"}
         /\ Class(y) \in {"inf", "nan"} => Class(Div(x, y)) = "nan"
<1> DEFINE v == DecodeFloat(x, Lane)
           w == DecodeFloat(y, Lane)
           r == Div(x, y)
           n == Apart(v, w)
<1>1. IsIeee(Lane) /\ n \in BOOLEAN
  BY DEF ExactFits, Apart
<1>2. CASE v.class = "nan" \/ w.class = "nan"
  <2>1. r = NanOf(Lane)
    BY <1>2, ArithIs, LaneOps
  <2> QED
    BY <1>1, <1>2, <2>1, InfinityClass
<1>3. CASE v.class # "nan" /\ w.class # "nan"
  <2>1. r = Rne(ExactQuotient(v, w), Lane) /\ v.class = "inf"
    BY <1>3, ArithIs, LaneOps DEF Class
  <2>2. ExactQuotient(v, w) = IF w.class = "inf" THEN TheNan ELSE Inf(n)
    BY <2>1 DEF ExactQuotient, TheNan
  <2> HIDE DEF v, w, n, r
  <2> QED
    BY <1>1, <1>3, <2>1, <2>2, InfinityClass DEF Class, v, w, r
<1> QED
  BY <1>2, <1>3

LEMMA UnitIs ==
  ASSUME IsIeee(Lane)
  PROVE  /\ DecodeFloat(Unit, Lane) = Fin(FALSE, Power[Lane.man], -Lane.man)
         /\ Class(Unit) = "fin" /\ ~IsZero(Unit) /\ Class(Minus(Unit)) = "fin" /\ ~IsZero(Minus(Unit))
         /\ Unit.neg = FALSE /\ Unit \in Patterns(Lane) /\ Minus(Unit) \in Patterns(Lane)
         /\ IsFields(Unit)
<1>1. Lane.bias \in Nat /\ Lane.bias >= 1 /\ AllOnes(Lane.exp) = 2 * Lane.bias + 1
      /\ Lane.man \in Nat /\ Power[Lane.man] \in Nat
  BY LaneIs DEF IsIeee
<1>2. Lane.bias # AllOnes(Lane.exp) /\ Lane.bias # 0
      /\ Lane.bias - Lane.bias - Lane.man = -Lane.man /\ 0 + Power[Lane.man] = Power[Lane.man]
  BY <1>1
<1>3. Unit.e = Lane.bias /\ Unit.m = 0 /\ Unit.neg = FALSE
  BY DEF Unit, One
<1>4. DecodeFloat(Unit, Lane) = Fin(FALSE, Power[Lane.man], -Lane.man)
  BY <1>2, <1>3 DEF DecodeFloat
<1>5. Class(Unit) = "fin" /\ ~IsZero(Unit)
  BY <1>2, <1>3, <1>4 DEF Class, Fin, IsZero
<1>6. Unit \in Patterns(Lane) /\ Minus(Unit) \in Patterns(Lane) /\ IsFields(Unit)
  BY NamedPatterns, PatternMinus
<1>7. Class(Minus(Unit)) = "fin" /\ ~IsZero(Minus(Unit))
  BY <1>5, <1>6, ClassIs, KindsMinus
<1> QED
  BY <1>3, <1>4, <1>5, <1>6, <1>7

\* A unit of either sign keeps a finite value, or negates it.
LEMMA TimesUnit ==
  ASSUME ExactFits(Lane), NEW c \in Patterns(Lane), Class(c) = "fin", ~IsZero(c)
  PROVE  Mul(Unit, c) = c /\ Mul(Minus(Unit), c) = Minus(c)
<1> DEFINE u == DecodeFloat(Unit, Lane)
           w == DecodeFloat(c, Lane)
<1>1. IsIeee(Lane) /\ Unit \in Patterns(Lane) /\ IsFields(Unit) /\ IsFields(c)
  BY NamedPatterns, PatternMinus DEF ExactFits
<1>2. u = Fin(FALSE, Power[Lane.man], -Lane.man)
  BY <1>1, UnitIs
<1>3. w = Fin(c.neg, w.mant, w.exp) /\ w.mant \in Nat /\ w.exp \in Int
      /\ w.mant < Power[Lane.man + 1] /\ c.neg \in BOOLEAN /\ w.class = "fin" /\ w.neg = c.neg
  BY <1>1, FiniteIs, ClassIs DEF Class
<1>4. u.class = "fin" /\ u.neg = FALSE /\ u.mant = Power[Lane.man] /\ u.exp = -Lane.man
  <2> HIDE DEF u
  <2> QED
    BY <1>2 DEF Fin
<1> DEFINE p == w.exp - Lane.man
<1>5. Lane.man \in Nat /\ p \in Int /\ p <= w.exp /\ w.exp - p = Lane.man /\ u.exp + w.exp = p
      /\ Power[Lane.man] \in Nat
  <2>1. Lane.man \in Nat /\ Power[Lane.man] \in Nat
    BY <1>1, LaneIs DEF IsIeee
  <2> QED
    BY <1>3, <1>4, <2>1
<1>6. ExactProduct(u, w) = Fin(c.neg, w.mant * Power[w.exp - p], p)
  <2>1. Apart(u, w) = c.neg
    BY <1>3, <1>4 DEF Apart
  <2>2. u.mant * w.mant = w.mant * Power[w.exp - p]
    BY <1>3, <1>4, <1>5
  <2> HIDE DEF u, w, p
  <2> QED
    BY <1>3, <1>4, <1>5, <2>1, <2>2 DEF ExactProduct
<1>7. w.mant * Power[w.exp - p] < Power[MantBits - 1]
  <2>1. Power[Lane.man] < Power[Lane.man + 1]
    BY <1>5, PowerIs
  <2>2. w.mant * Power[Lane.man] < Power[MantBits - 1]
    BY <1>3, <1>5, <2>1, ProductBounded
  <2> QED
    BY <1>5, <2>2
<1>8. Rne(Fin(c.neg, w.mant * Power[w.exp - p], p), Lane) = c
  <2> HIDE DEF p
  <2> QED
    BY <1>1, <1>3, <1>5, <1>7, Reencoded
<1>9. Mul(Unit, c) = c
  <2>1. Mul(Unit, c) = Rne(ExactProduct(u, w), Lane)
    <3>1. u.class # "nan" /\ w.class # "nan"
      BY <1>3, <1>4
    <3> QED
      BY <3>1, ArithIs, LaneOps
  <2> HIDE DEF u, w, p
  <2> QED
    BY <1>6, <1>8, <2>1
<1>10. Opposite(Mul(Unit, c), Mul(Minus(Unit), c), Lane)
  <2>1. Opposite(Unit, Minus(Unit), Lane)
    BY <1>1, OppositeMinus
  <2> QED
    BY <1>1, <2>1, MulOpposite, LaneOps
<1>11. ~IsNan(c, Lane)
  BY DEF IsNan, Class
<1> QED
  BY <1>9, <1>10, <1>11 DEF Opposite

\* The sums of two finite patterns x and y and of their opposites, of values a and b.
SumsAre(x, y, a, b) ==
  /\ a = 0 <=> IsZero(x)
  /\ b = 0 <=> IsZero(y)
  /\ \A p \in {x, Minus(x)}, q \in {y, Minus(y)} :
       /\ p \in Patterns(Lane) /\ Class(p) = "fin" /\ q \in Patterns(Lane) /\ Class(q) = "fin"
       /\ Class(Add(p, q)) \in {"fin", "inf"} /\ Add(p, q) \in Patterns(Lane)
  /\ IsZero(Add(x, y)) <=> a + b = 0
  /\ IsZero(Add(x, Minus(y))) <=> a - b = 0
  /\ IsZero(Add(Minus(x), y)) <=> b - a = 0
  /\ IsZero(Add(Minus(x), Minus(y))) <=> a + b = 0

LEMMA SignedSums ==
  ASSUME ExactFits(Lane), NEW x \in Patterns(Lane), Class(x) = "fin",
         NEW y \in Patterns(Lane), Class(y) = "fin"
  PROVE  \E a, b \in Int : SumsAre(x, y, a, b)
<1> DEFINE e == Level(x, y)
           a == At(x, e)
           b == At(y, e)
<1>1. IsIeee(Lane)
  BY DEF ExactFits
<1>2. /\ e \in Int /\ e <= DecodeFloat(x, Lane).exp /\ e <= DecodeFloat(y, Lane).exp
      /\ Level(Minus(x), y) = e /\ Level(x, Minus(y)) = e /\ Level(Minus(x), Minus(y)) = e
  BY <1>1, LevelIs
<1>3. ASSUME NEW p \in Patterns(Lane), Class(p) = "fin", e <= DecodeFloat(p, Lane).exp
      PROVE  /\ Minus(p) \in Patterns(Lane) /\ Class(Minus(p)) = "fin"
             /\ At(p, e) \in Int /\ At(Minus(p), e) = -At(p, e)
             /\ At(p, e) = 0 <=> IsZero(p)
  <2> DEFINE v == DecodeFloat(p, Lane)
  <2>1. Minus(p) \in Patterns(Lane) /\ IsFields(p)
    BY <1>1, PatternMinus
  <2>2. IsValue(v) /\ v.class = "fin" /\ IsDecoded(v)
    BY <1>1, <1>3, PatternIs DEF Class, IsValue
  <2>3. DecodeFloat(Minus(p), Lane) = Minus(v)
    BY <2>1, MinusDecodes
  <2>4. Class(Minus(p)) = "fin"
    BY <2>2, <2>3, DecodedIs DEF Class
  <2> HIDE DEF v, e
  <2>5. Aligned(v, e) \in Int /\ Aligned(Minus(v), e) = -Aligned(v, e)
    BY <1>2, <1>3, <2>2, AlignedMinus DEF v
  <2>6. At(p, e) = 0 <=> IsZero(p)
    BY <1>1, <1>2, <1>3, AtIs
  <2> QED
    BY <2>1, <2>3, <2>4, <2>5, <2>6 DEF At, v
<1>4. /\ a \in Int /\ b \in Int /\ (a = 0 <=> IsZero(x)) /\ (b = 0 <=> IsZero(y))
      /\ At(Minus(x), e) = -a /\ At(Minus(y), e) = -b
      /\ Minus(x) \in Patterns(Lane) /\ Class(Minus(x)) = "fin"
      /\ Minus(y) \in Patterns(Lane) /\ Class(Minus(y)) = "fin"
  <2> HIDE DEF e
  <2> QED
    BY <1>2, <1>3
<1> HIDE DEF e
<1>5. ASSUME NEW p \in {x, Minus(x)}, NEW q \in {y, Minus(y)}
      PROVE  /\ p \in Patterns(Lane) /\ Class(p) = "fin" /\ q \in Patterns(Lane) /\ Class(q) = "fin"
             /\ Class(Add(p, q)) \in {"fin", "inf"} /\ Add(p, q) \in Patterns(Lane)
             /\ IsZero(Add(p, q)) <=> At(p, e) + At(q, e) = 0
  <2>1. p \in Patterns(Lane) /\ Class(p) = "fin" /\ q \in Patterns(Lane) /\ Class(q) = "fin"
        /\ Level(p, q) = e
    BY <1>2, <1>4 DEF e
  <2> QED
    BY <2>1, FiniteSum
<1> HIDE DEF a, b
<1>6. /\ IsZero(Add(x, y)) <=> a + b = 0
      /\ IsZero(Add(x, Minus(y))) <=> a - b = 0
      /\ IsZero(Add(Minus(x), y)) <=> b - a = 0
      /\ IsZero(Add(Minus(x), Minus(y))) <=> a + b = 0
  <2>1. /\ IsZero(Add(x, y)) <=> a + b = 0
        /\ IsZero(Add(x, Minus(y))) <=> a + (-b) = 0
        /\ IsZero(Add(Minus(x), y)) <=> (-a) + b = 0
        /\ IsZero(Add(Minus(x), Minus(y))) <=> (-a) + (-b) = 0
    BY <1>4, <1>5 DEF a, b
  <2> QED
    BY <1>4, <2>1
<1>7. \A p \in {x, Minus(x)}, q \in {y, Minus(y)} :
         /\ p \in Patterns(Lane) /\ Class(p) = "fin" /\ q \in Patterns(Lane) /\ Class(q) = "fin"
         /\ Class(Add(p, q)) \in {"fin", "inf"} /\ Add(p, q) \in Patterns(Lane)
  BY <1>5
<1> QED
  BY <1>4, <1>6, <1>7 DEF SumsAre

\* A lane of a boxed value: a one or a zero, of either sign.
IsUnit(a) == a = Unit \/ a = Minus(Unit)
IsBoxed(a) == a \in Patterns(Lane) /\ (IsUnit(a) \/ IsZero(a))

LEMMA TimesBoxed ==
  ASSUME ExactFits(Lane), NEW a, IsBoxed(a), NEW c \in Patterns(Lane), Class(c) = "fin"
  PROVE  /\ Mul(a, c) \in Patterns(Lane) /\ Class(Mul(a, c)) = "fin"
         /\ IsZero(a) \/ IsZero(c) => IsZero(Mul(a, c))
         /\ ~IsZero(c) /\ a = Unit => Mul(a, c) = c
         /\ ~IsZero(c) /\ a = Minus(Unit) => Mul(a, c) = Minus(c)
         /\ IsZero(a) <=> ~IsUnit(a)
<1>1. IsIeee(Lane)
  BY DEF ExactFits
<1>2. ~IsZero(Unit) /\ ~IsZero(Minus(Unit)) /\ Class(Unit) = "fin" /\ Class(Minus(Unit)) = "fin"
  BY <1>1, UnitIs
<1>3. Class(a) = "fin" /\ (IsZero(a) <=> ~IsUnit(a)) /\ a \in Patterns(Lane)
  BY <1>1, <1>2, ClassIs DEF IsBoxed, IsUnit
<1>4. Mul(a, c) \in Patterns(Lane) /\ (IsZero(a) \/ IsZero(c) => IsZero(Mul(a, c)))
  BY <1>3, MulKinds
<1>5. /\ ~IsZero(c) /\ a = Unit => Mul(a, c) = c
      /\ ~IsZero(c) /\ a = Minus(Unit) => Mul(a, c) = Minus(c)
  BY TimesUnit
<1>6. Class(Mul(a, c)) = "fin"
  <2>1. CASE IsZero(a) \/ IsZero(c)
    BY <1>1, <1>4, <2>1, ClassIs
  <2>2. CASE ~IsZero(a) /\ ~IsZero(c)
    <3>1. IsFields(c) /\ Minus(c) \in Patterns(Lane)
      BY <1>1, PatternMinus
    <3>2. Class(Minus(c)) = "fin"
      BY <1>1, <3>1, ClassIs, KindsMinus
    <3> QED
      BY <1>3, <1>5, <2>2, <3>2 DEF IsUnit
  <2> QED
    BY <2>1, <2>2
<1> QED
  BY <1>3, <1>4, <1>5, <1>6

\* Of the two lanes of a product of a boxed value and a finite one, both nonzero, one at
\* least is not zero; and neither is a NaN.
LEMMA NotBothVanish ==
  ASSUME ExactFits(Lane), NEW a, IsBoxed(a), NEW b, IsBoxed(b), IsUnit(a) \/ IsUnit(b),
         NEW c \in Patterns(Lane), Class(c) = "fin", NEW d \in Patterns(Lane), Class(d) = "fin",
         ~IsZero(c) \/ ~IsZero(d)
  PROVE  LET r == Add(Mul(a, c), Minus(Mul(b, d)))
             s == Add(Mul(a, d), Mul(b, c))
         IN  /\ r \in Patterns(Lane) /\ Class(r) \in {"fin", "inf"}
             /\ s \in Patterns(Lane) /\ Class(s) \in {"fin", "inf"}
             /\ ~IsZero(r) \/ ~IsZero(s)
<1> DEFINE p == Mul(a, c)
           q == Mul(b, d)
           u == Mul(a, d)
           w == Mul(b, c)
           r == Add(p, Minus(q))
           s == Add(u, w)
<1>1. IsIeee(Lane)
  BY DEF ExactFits
<1>2. /\ p \in Patterns(Lane) /\ Class(p) = "fin" /\ q \in Patterns(Lane) /\ Class(q) = "fin"
      /\ u \in Patterns(Lane) /\ Class(u) = "fin" /\ w \in Patterns(Lane) /\ Class(w) = "fin"
  BY TimesBoxed
<1>3. /\ \E i, j \in Int : /\ i = 0 <=> IsZero(p)
                           /\ j = 0 <=> IsZero(q)
                           /\ IsZero(r) <=> i - j = 0
      /\ r \in Patterns(Lane) /\ Class(r) \in {"fin", "inf"}
  <2> HIDE DEF p, q
  <2>1. PICK i, j \in Int : SumsAre(p, q, i, j)
    BY <1>2, SignedSums
  <2> QED
    BY <2>1 DEF SumsAre
<1>4. /\ \E i, j \in Int : /\ i = 0 <=> IsZero(u)
                           /\ j = 0 <=> IsZero(w)
                           /\ IsZero(s) <=> i + j = 0
      /\ s \in Patterns(Lane) /\ Class(s) \in {"fin", "inf"}
  <2> HIDE DEF u, w
  <2>1. PICK i, j \in Int : SumsAre(u, w, i, j)
    BY <1>2, SignedSums
  <2> QED
    BY <2>1 DEF SumsAre
<1>5. /\ (IsZero(a) <=> ~IsUnit(a)) /\ (IsZero(b) <=> ~IsUnit(b))
  BY TimesBoxed
<1>6. /\ (IsZero(p) <=> IsZero(a) \/ IsZero(c)) /\ (IsZero(q) <=> IsZero(b) \/ IsZero(d))
      /\ (IsZero(u) <=> IsZero(a) \/ IsZero(d)) /\ (IsZero(w) <=> IsZero(b) \/ IsZero(c))
  <2>1. ASSUME NEW x, IsBoxed(x), NEW y \in Patterns(Lane), Class(y) = "fin"
        PROVE  IsZero(Mul(x, y)) <=> IsZero(x) \/ IsZero(y)
    <3>1. /\ IsZero(x) \/ IsZero(y) => IsZero(Mul(x, y))
          /\ ~IsZero(y) /\ x = Unit => Mul(x, y) = y
          /\ ~IsZero(y) /\ x = Minus(Unit) => Mul(x, y) = Minus(y)
          /\ IsZero(x) <=> ~IsUnit(x)
      BY <2>1, TimesBoxed
    <3>2. IsZero(Minus(y)) <=> IsZero(y)
      BY <1>1, <2>1, PatternMinus, KindsMinus
    <3> QED
      BY <3>1, <3>2 DEF IsUnit
  <2> QED
    BY <2>1
<1>7. CASE ~(IsUnit(a) /\ IsUnit(b) /\ ~IsZero(c) /\ ~IsZero(d))
  <2>1. ~(IsZero(p) <=> IsZero(q)) \/ ~(IsZero(u) <=> IsZero(w))
    BY <1>5, <1>6, <1>7
  <2>2. ~(IsZero(p) <=> IsZero(q)) => ~IsZero(r)
    <3> HIDE DEF p, q, r
    <3>1. PICK i, j \in Int : (i = 0 <=> IsZero(p)) /\ (j = 0 <=> IsZero(q)) /\ (IsZero(r) <=> i - j = 0)
      BY <1>3
    <3> QED
      BY <3>1
  <2>3. ~(IsZero(u) <=> IsZero(w)) => ~IsZero(s)
    <3> HIDE DEF u, w, s
    <3>1. PICK i, j \in Int : (i = 0 <=> IsZero(u)) /\ (j = 0 <=> IsZero(w)) /\ (IsZero(s) <=> i + j = 0)
      BY <1>4
    <3> QED
      BY <3>1
  <2> QED
    BY <1>3, <1>4, <2>1, <2>2, <2>3
<1>8. CASE IsUnit(a) /\ IsUnit(b) /\ ~IsZero(c) /\ ~IsZero(d)
  <2>0. PICK i, j \in Int : SumsAre(c, d, i, j)
    BY SignedSums
  <2>1. /\ i = 0 <=> IsZero(c)
        /\ j = 0 <=> IsZero(d)
        /\ IsZero(Add(c, d)) <=> i + j = 0
        /\ IsZero(Add(c, Minus(d))) <=> i - j = 0
        /\ IsZero(Add(Minus(c), d)) <=> j - i = 0
        /\ IsZero(Add(Minus(c), Minus(d))) <=> i + j = 0
    BY <2>0 DEF SumsAre
  <2>2. /\ a = Unit => p = c /\ u = d
        /\ a = Minus(Unit) => p = Minus(c) /\ u = Minus(d)
        /\ b = Unit => q = d /\ w = c
        /\ b = Minus(Unit) => q = Minus(d) /\ w = Minus(c)
    BY <1>8, TimesBoxed
  <2>3. /\ Minus(c) \in Patterns(Lane) /\ Minus(d) \in Patterns(Lane) /\ Minus(Minus(d)) = d
    BY <1>1, PatternMinus, MinusFields
  <2>4. /\ Add(d, c) = Add(c, d) /\ Add(d, Minus(c)) = Add(Minus(c), d)
        /\ Add(Minus(d), c) = Add(c, Minus(d)) /\ Add(Minus(d), Minus(c)) = Add(Minus(c), Minus(d))
    BY <1>1, <2>3, Commutes
  <2> HIDE DEF p, q, u, w
  <2>5. ~IsZero(r) \/ ~IsZero(s)
    <3>1. CASE a = Unit /\ b = Unit
      <4>1. r = Add(c, Minus(d)) /\ s = Add(c, d)
        BY <2>2, <2>4, <3>1
      <4> HIDE DEF r, s
      <4> QED
        BY <1>8, <2>1, <4>1
    <3>2. CASE a = Unit /\ b = Minus(Unit)
      <4>1. r = Add(c, d) /\ s = Add(Minus(c), d)
        BY <2>2, <2>3, <2>4, <3>2
      <4> HIDE DEF r, s
      <4> QED
        BY <1>8, <2>1, <4>1
    <3>3. CASE a = Minus(Unit) /\ b = Unit
      <4>1. r = Add(Minus(c), Minus(d)) /\ s = Add(c, Minus(d))
        BY <2>2, <2>4, <3>3
      <4> HIDE DEF r, s
      <4> QED
        BY <1>8, <2>1, <4>1
    <3>4. CASE a = Minus(Unit) /\ b = Minus(Unit)
      <4>1. r = Add(Minus(c), d) /\ s = Add(Minus(c), Minus(d))
        BY <2>2, <2>3, <2>4, <3>4
      <4> HIDE DEF r, s
      <4> QED
        BY <1>8, <2>1, <4>1
    <3> QED
      BY <1>8, <3>1, <3>2, <3>3, <3>4 DEF IsUnit
  <2> HIDE DEF r, s
  <2> QED
    BY <1>3, <1>4, <2>5 DEF r, s, p, q, u, w
<1> QED
  BY <1>7, <1>8

\* What boxing and clearing do to a lane.
LEMMA BoxIs ==
  ASSUME IsIeee(Lane), NEW x \in Patterns(Lane)
  PROVE  /\ IsBoxed(BoxInf(x)) /\ (IsUnit(BoxInf(x)) <=> IsInf(x)) /\ Class(BoxInf(x)) = "fin"
         /\ BoxNanToZero(x) \in Patterns(Lane) /\ (IsInf(BoxNanToZero(x)) <=> IsInf(x))
         /\ BoxNanToZero(BoxInf(x)) = BoxInf(x) /\ BoxInf(BoxNanToZero(x)) = BoxInf(x)
         /\ ~IsNanLane(x) => BoxNanToZero(x) = x
<1> DEFINE o == CopySign(Zero(FALSE), x)
           i == CopySign(Unit, x)
<1>1. IsFields(x) /\ IsFields(Unit) /\ IsFields(Zero(FALSE)) /\ Zero(FALSE) \in Patterns(Lane)
      /\ Unit \in Patterns(Lane) /\ IsZero(Zero(FALSE)) /\ ~IsZero(Unit)
  BY NamedPatterns, PatternMinus, UnitIs
<1>2. o \in Patterns(Lane) /\ IsZero(o) /\ i \in Patterns(Lane) /\ ~IsZero(i)
  BY <1>1, SignCopied DEF IsZero
<1>3. i = Unit \/ i = Minus(Unit)
  <2>1. Unit.neg = FALSE /\ Unit = [neg |-> Unit.neg, e |-> Unit.e, m |-> Unit.m]
    BY <1>1, UnitIs DEF IsFields
  <2>2. x.neg = TRUE \/ x.neg = FALSE
    BY <1>1 DEF IsFields
  <2> QED
    BY <2>1, <2>2 DEF CopySign, Minus
<1>4. Class(o) = "fin" /\ Class(i) = "fin"
  BY <1>2, <1>3, ClassIs, UnitIs
<1>5. o.neg = x.neg
  BY <1>1 DEF CopySign, Zero
<1>6. BoxInf(x) = IF IsInf(x) THEN i ELSE o
  BY DEF BoxInf
<1>7. BoxNanToZero(x) = IF IsNanLane(x) THEN o ELSE x
  BY DEF BoxNanToZero
<1> HIDE DEF o, i
<1>8. ~IsUnit(o) /\ IsUnit(i)
  BY <1>2, <1>3, UnitIs DEF IsUnit
<1>9. /\ ~IsNanLane(o) /\ ~IsNanLane(i) /\ ~IsInf(o) /\ ~IsInf(i)
      /\ ~(IsInf(x) /\ IsNanLane(x))
  BY <1>2, <1>4, ClassIs
<1>10. BoxInf(o) = o
  <2>1. CopySign(Zero(FALSE), o) = o
    BY <1>5, Zenon DEF o, CopySign
  <2> QED
    BY <1>9, <2>1 DEF BoxInf
<1>11. BoxNanToZero(BoxInf(x)) = BoxInf(x)
  BY <1>6, <1>9 DEF BoxNanToZero
<1>12. BoxInf(BoxNanToZero(x)) = BoxInf(x)
  BY <1>6, <1>7, <1>9, <1>10
<1> QED
  BY <1>2, <1>4, <1>6, <1>7, <1>8, <1>9, <1>11, <1>12 DEF IsBoxed

-----------------------------------------------------------------------------
\* Complex products.
LEMMA ComplexLanes ==
  ASSUME ExactFits(Lane), NEW z, IsComplex(z)
  PROVE  /\ z.re \in Patterns(Lane) /\ z.im \in Patterns(Lane)
         /\ HasInf(z) <=> Class(z.re) = "inf" \/ Class(z.im) = "inf"
         /\ IsFinite(z) <=> Class(z.re) = "fin" /\ Class(z.im) = "fin"
         /\ BothNan(z) <=> Class(z.re) = "nan" /\ Class(z.im) = "nan"
         /\ IsFinite(z) => ~HasInf(z) /\ NansToZero(z) = z
         /\ HasInf(z) => ~IsFinite(z) /\ ~BothNan(z)
<1>1. z.re \in Patterns(Lane) /\ z.im \in Patterns(Lane) /\ IsIeee(Lane) /\ z = Cplx(z.re, z.im)
  BY DEF IsComplex, ExactFits
<1>2. /\ IsNanLane(z.re) <=> Class(z.re) = "nan"
      /\ IsInf(z.re) <=> Class(z.re) = "inf"
      /\ IsFin(z.re) <=> Class(z.re) = "fin"
      /\ IsNanLane(z.im) <=> Class(z.im) = "nan"
      /\ IsInf(z.im) <=> Class(z.im) = "inf"
      /\ IsFin(z.im) <=> Class(z.im) = "fin"
  BY <1>1, ClassIs
<1>3. IsFinite(z) => NansToZero(z) = z
  BY <1>1, <1>2, BoxIs DEF NansToZero, IsFinite
<1> QED
  BY <1>1, <1>2, <1>3 DEF HasInf, IsFinite, BothNan

LEMMA BoxedIs ==
  ASSUME ExactFits(Lane), NEW z, IsComplex(z)
  PROVE  LET u == Boxed(z)
             n == NansToZero(z)
         IN  /\ IsComplex(u) /\ IsBoxed(u.re) /\ IsBoxed(u.im) /\ IsFinite(u) /\ ~HasInf(u)
             /\ HasInf(z) => IsUnit(u.re) \/ IsUnit(u.im)
             /\ HasInf(z) => IsNonzeroFinite(u)
             /\ NansToZero(u) = u /\ Boxed(n) = u /\ IsComplex(n) /\ (HasInf(n) <=> HasInf(z))
<1> DEFINE a == z.re
           b == z.im
           u == Boxed(z)
           n == NansToZero(z)
<1>1. a \in Patterns(Lane) /\ b \in Patterns(Lane) /\ IsIeee(Lane)
  BY DEF IsComplex, ExactFits
<1>2. IsComplex(u) /\ IsComplex(n)
  BY <1>1, BoxedConj
<1>3. /\ u = Cplx(BoxInf(a), BoxInf(b)) /\ u.re = BoxInf(a) /\ u.im = BoxInf(b)
      /\ n = Cplx(BoxNanToZero(a), BoxNanToZero(b)) /\ n.re = BoxNanToZero(a) /\ n.im = BoxNanToZero(b)
  BY CplxIs DEF Boxed, NansToZero
<1> HIDE DEF a, b, u, n
<1>4. /\ IsBoxed(u.re) /\ (IsUnit(u.re) <=> IsInf(a)) /\ Class(u.re) = "fin"
      /\ IsBoxed(u.im) /\ (IsUnit(u.im) <=> IsInf(b)) /\ Class(u.im) = "fin"
      /\ (IsInf(n.re) <=> IsInf(a)) /\ (IsInf(n.im) <=> IsInf(b))
      /\ BoxNanToZero(u.re) = u.re /\ BoxInf(n.re) = u.re
      /\ BoxNanToZero(u.im) = u.im /\ BoxInf(n.im) = u.im
  BY <1>1, <1>3, BoxIs
<1>5. u = Cplx(u.re, u.im)
  BY <1>2 DEF IsComplex
<1>6. NansToZero(u) = u /\ Boxed(n) = u
  BY <1>4, <1>5 DEF NansToZero, Boxed
<1>7. IsFinite(u) /\ ~HasInf(u)
  BY <1>2, <1>4, ComplexLanes
<1>8. (HasInf(n) <=> HasInf(z)) /\ (HasInf(z) => IsUnit(u.re) \/ IsUnit(u.im))
  BY <1>4 DEF HasInf, a, b
<1>9. HasInf(z) => IsNonzeroFinite(u)
  <2>1. \A x : IsUnit(x) => ~IsZero(x)
    BY <1>1, UnitIs DEF IsUnit
  <2> QED
    BY <1>7, <1>8, <2>1 DEF IsNonzeroFinite, IsOrigin
<1> QED
  BY <1>2, <1>4, <1>6, <1>7, <1>8, <1>9 DEF u, n

LEMMA SubIs ==
  ASSUME IsIeee(Lane), NEW x \in Patterns(Lane), NEW y \in Patterns(Lane)
  PROVE  Sub(x, y) = Add(x, Minus(y)) /\ Minus(y) \in Patterns(Lane)
         /\ Class(Minus(y)) = Class(y)
<1>1. IsFields(y) /\ Minus(y) \in Patterns(Lane)
  BY PatternMinus
<1>2. Class(Minus(y)) = Class(y)
  BY <1>1, ClassIs, KindsMinus
<1> QED
  BY <1>1, <1>2, SubIsAdd, LaneOps

\* The lanes of the two products.
LEMMA ProductLanes ==
  ASSUME ExactFits(Lane), NEW z, IsComplex(z), NEW w, IsComplex(w)
  PROVE  LET p == Product(z, w)
             q == Crossed(z, w)
         IN  /\ p.re = Add(Mul(z.re, w.re), Minus(Mul(z.im, w.im)))
             /\ p.im = Add(Mul(z.re, w.im), Mul(z.im, w.re))
             /\ q.re = Add(Mul(z.im, w.im), Mul(z.re, w.re))
             /\ q.im = Add(Mul(z.im, w.re), Minus(Mul(z.re, w.im)))
             /\ p = Cplx(p.re, p.im) /\ IsComplex(p) /\ IsComplex(q)
             /\ Product(w, z) = p
<1> DEFINE ac == Mul(z.re, w.re)
           ad == Mul(z.re, w.im)
           bc == Mul(z.im, w.re)
           bd == Mul(z.im, w.im)
           p == Product(z, w)
           q == Crossed(z, w)
<1>1. /\ IsIeee(Lane) /\ z.re \in Patterns(Lane) /\ z.im \in Patterns(Lane)
      /\ w.re \in Patterns(Lane) /\ w.im \in Patterns(Lane)
  BY DEF ExactFits, IsComplex
<1>2. /\ ac \in Patterns(Lane) /\ ad \in Patterns(Lane)
      /\ bc \in Patterns(Lane) /\ bd \in Patterns(Lane)
      /\ Mul(w.re, z.re) = ac /\ Mul(w.im, z.re) = ad /\ Mul(w.re, z.im) = bc /\ Mul(w.im, z.im) = bd
  BY <1>1, MulKinds, Commutes
<1>3. /\ p = Cplx(Sub(ac, bd), Add(ad, bc)) /\ Product(w, z) = Cplx(Sub(ac, bd), Add(bc, ad))
      /\ q = Cplx(Add(ac, bd), Sub(bc, ad))
  BY <1>2 DEF Product, Crossed
<1> HIDE DEF ac, ad, bc, bd, p, q
<1>4. /\ Sub(ac, bd) = Add(ac, Minus(bd)) /\ Sub(bc, ad) = Add(bc, Minus(ad))
      /\ Minus(bd) \in Patterns(Lane) /\ Minus(ad) \in Patterns(Lane)
      /\ Add(bc, ad) = Add(ad, bc) /\ Add(ac, bd) = Add(bd, ac)
  BY <1>1, <1>2, SubIs, Commutes
<1>5. /\ Add(ac, Minus(bd)) \in Patterns(Lane) /\ Add(bc, Minus(ad)) \in Patterns(Lane)
      /\ Add(ad, bc) \in Patterns(Lane) /\ Add(bd, ac) \in Patterns(Lane)
  BY <1>2, <1>4, AddKinds
<1>6. /\ p.re = Add(ac, Minus(bd)) /\ p.im = Add(ad, bc) /\ p = Cplx(p.re, p.im)
      /\ q.re = Add(bd, ac) /\ q.im = Add(bc, Minus(ad)) /\ q = Cplx(q.re, q.im)
      /\ Product(w, z) = p
  BY <1>3, <1>4, CplxIs
<1>7. IsComplex(p) /\ IsComplex(q)
  BY <1>5, <1>6 DEF IsComplex
<1> QED
  BY <1>6, <1>7 DEF ac, ad, bc, bd, p, q

\* With an infinite operand each lane is an infinity or a NaN.
LEMMA ProductInfinite ==
  ASSUME ExactFits(Lane), NEW z, IsComplex(z), NEW w, IsComplex(w), HasInf(z) \/ HasInf(w)
  PROVE  LET p == Product(z, w)
             q == Crossed(z, w)
         IN  /\ Class(p.re) \in {"inf", "nan"} /\ Class(p.im) \in {"inf", "nan"}
             /\ Class(q.re) \in {"inf", "nan"} /\ Class(q.im) \in {"inf", "nan"}
             /\ ~BothNan(p) => HasInf(p)
<1> DEFINE ac == Mul(z.re, w.re)
           ad == Mul(z.re, w.im)
           bc == Mul(z.im, w.re)
           bd == Mul(z.im, w.im)
           p == Product(z, w)
           q == Crossed(z, w)
<1>1. /\ IsIeee(Lane) /\ z.re \in Patterns(Lane) /\ z.im \in Patterns(Lane)
      /\ w.re \in Patterns(Lane) /\ w.im \in Patterns(Lane)
  BY DEF ExactFits, IsComplex
<1>2. /\ ac \in Patterns(Lane) /\ ad \in Patterns(Lane)
      /\ bc \in Patterns(Lane) /\ bd \in Patterns(Lane)
  BY <1>1, MulKinds
<1>3. /\ p.re = Add(ac, Minus(bd)) /\ p.im = Add(ad, bc)
      /\ q.re = Add(bd, ac) /\ q.im = Add(bc, Minus(ad))
      /\ IsComplex(p) /\ IsComplex(q)
  BY ProductLanes
<1>4. (Class(z.re) = "inf" \/ Class(z.im) = "inf") \/ (Class(w.re) = "inf" \/ Class(w.im) = "inf")
  BY ComplexLanes
<1>5. /\ Class(ac) # "fin" \/ Class(bd) # "fin"
      /\ Class(ad) # "fin" \/ Class(bc) # "fin"
  <2>1. /\ Class(z.re) = "inf" \/ Class(w.re) = "inf" => Class(ac) \in {"inf", "nan"}
        /\ Class(z.re) = "inf" \/ Class(w.im) = "inf" => Class(ad) \in {"inf", "nan"}
        /\ Class(z.im) = "inf" \/ Class(w.re) = "inf" => Class(bc) \in {"inf", "nan"}
        /\ Class(z.im) = "inf" \/ Class(w.im) = "inf" => Class(bd) \in {"inf", "nan"}
    BY <1>1, MulKinds
  <2> HIDE DEF ac, ad, bc, bd
  <2> QED
    BY <1>4, <2>1
<1> HIDE DEF ac, ad, bc, bd, p, q
<1>6. /\ Minus(bd) \in Patterns(Lane) /\ Class(Minus(bd)) = Class(bd)
      /\ Minus(ad) \in Patterns(Lane) /\ Class(Minus(ad)) = Class(ad)
  BY <1>1, <1>2, SubIs
<1>7. /\ Class(p.re) \in {"inf", "nan"} /\ Class(p.im) \in {"inf", "nan"}
      /\ Class(q.re) \in {"inf", "nan"} /\ Class(q.im) \in {"inf", "nan"}
  BY <1>2, <1>3, <1>5, <1>6, AddKinds
<1>8. ~BothNan(p) => HasInf(p)
  BY <1>3, <1>7, ComplexLanes
<1> QED
  BY <1>7, <1>8 DEF p, q

\* Scaling by an infinity makes a lane infinite that is neither zero nor a NaN.
LEMMA ScaledInfinite ==
  ASSUME ExactFits(Lane), NEW n \in BOOLEAN, NEW x, x = Infinity(Lane, n), NEW p, IsComplex(p),
         \/ Class(p.re) \in {"fin", "inf"} /\ ~IsZero(p.re)
         \/ Class(p.im) \in {"fin", "inf"} /\ ~IsZero(p.im)
  PROVE  HasInf(Scaled(x, p))
<1>1. IsIeee(Lane) /\ p.re \in Patterns(Lane) /\ p.im \in Patterns(Lane)
  BY DEF IsComplex, ExactFits
<1>2. x \in Patterns(Lane) /\ Class(x) = "inf"
  BY <1>1, InfinityIsPattern, InfinityClass
<1>3. Scaled(x, p).re = Mul(x, p.re) /\ Scaled(x, p).im = Mul(x, p.im)
  BY CplxIs DEF Scaled
<1>4. Class(Mul(x, p.re)) = "inf" \/ Class(Mul(x, p.im)) = "inf"
  BY <1>1, <1>2, MulKinds
<1>5. Mul(x, p.re) \in Patterns(Lane) /\ Mul(x, p.im) \in Patterns(Lane)
  BY <1>1, <1>2, MulKinds
<1>6. IsInf(Mul(x, p.re)) \/ IsInf(Mul(x, p.im))
  BY <1>1, <1>4, <1>5, ClassIs
<1> QED
  BY <1>3, <1>6 DEF HasInf

\* A boxed infinity by a nonzero finite value, by either product, has a lane to scale.
LEMMA ProductRecovers ==
  ASSUME ExactFits(Lane), NEW z, IsComplex(z), HasInf(z), NEW w, IsComplex(w), IsNonzeroFinite(w)
  PROVE  /\ HasInf(Scaled(PosInf, Product(Boxed(z), w)))
         /\ HasInf(Scaled(PosInf, Crossed(Boxed(z), w)))
<1> DEFINE u == Boxed(z)
           p == Product(u, w)
           q == Crossed(u, w)
           a == u.re
           b == u.im
           c == w.re
           d == w.im
           n == FALSE
<1>1. IsComplex(u) /\ IsBoxed(a) /\ IsBoxed(b) /\ (IsUnit(a) \/ IsUnit(b)) /\ IsIeee(Lane)
      /\ a \in Patterns(Lane) /\ b \in Patterns(Lane)
  BY BoxedIs DEF ExactFits, IsComplex
<1>2. /\ c \in Patterns(Lane) /\ Class(c) = "fin" /\ d \in Patterns(Lane) /\ Class(d) = "fin"
      /\ ~IsZero(c) \/ ~IsZero(d)
  BY ComplexLanes DEF IsNonzeroFinite, IsOrigin
<1>3. /\ p.re = Add(Mul(a, c), Minus(Mul(b, d))) /\ p.im = Add(Mul(a, d), Mul(b, c))
      /\ q.re = Add(Mul(b, d), Mul(a, c)) /\ q.im = Add(Mul(b, c), Minus(Mul(a, d)))
      /\ IsComplex(p) /\ IsComplex(q)
  <2> HIDE DEF u
  <2> QED
    BY <1>1, ProductLanes
<1> HIDE DEF u, a, b, c, d, p, q
<1>4. /\ Class(p.re) \in {"fin", "inf"} /\ Class(p.im) \in {"fin", "inf"}
      /\ ~IsZero(p.re) \/ ~IsZero(p.im)
  BY <1>1, <1>2, <1>3, NotBothVanish
<1>5. /\ Class(q.re) \in {"fin", "inf"} /\ Class(q.im) \in {"fin", "inf"}
      /\ ~IsZero(q.re) \/ ~IsZero(q.im)
  BY <1>1, <1>2, <1>3, NotBothVanish
<1>6. PosInf = Infinity(Lane, n) /\ n \in BOOLEAN
  BY LaneOps
<1> HIDE DEF n
<1>7. HasInf(Scaled(PosInf, p)) /\ HasInf(Scaled(PosInf, q))
  BY <1>3, <1>4, <1>5, <1>6, ScaledInfinite
<1> QED
  BY <1>7 DEF p, q, u

\* cmul, by the infinite operands.
LEMMA RecoveredProduct ==
  ASSUME ExactFits(Lane), NEW z, IsComplex(z), NEW w, IsComplex(w)
  PROVE  LET p == Product(z, w)
         IN  /\ ~BothNan(p) \/ ~(HasInf(z) \/ HasInf(w)) => CMul(z, w) = p
             /\ BothNan(p) /\ HasInf(z) /\ HasInf(w) =>
                  CMul(z, w) = Scaled(PosInf, Product(Boxed(z), Boxed(w)))
             /\ BothNan(p) /\ HasInf(z) /\ ~HasInf(w) =>
                  CMul(z, w) = Scaled(PosInf, Product(Boxed(z), NansToZero(w)))
             /\ BothNan(p) /\ ~HasInf(z) /\ HasInf(w) =>
                  CMul(z, w) = Scaled(PosInf, Product(NansToZero(z), Boxed(w)))
<1>1. /\ HasInf(NansToZero(w)) <=> HasInf(w)
      /\ NansToZero(Boxed(z)) = Boxed(z) /\ Boxed(NansToZero(w)) = Boxed(w)
  BY BoxedIs
<1>2. CASE HasInf(z) /\ HasInf(w)
  BY <1>1, <1>2 DEF CMul
<1>3. CASE HasInf(z) /\ ~HasInf(w)
  BY <1>1, <1>3 DEF CMul
<1>4. CASE ~HasInf(z) /\ HasInf(w)
  BY <1>1, <1>4 DEF CMul
<1>5. CASE ~HasInf(z) /\ ~HasInf(w)
  BY <1>1, <1>5 DEF CMul
<1> QED
  BY <1>2, <1>3, <1>4, <1>5

LEMMA MulRecovers ==
  ASSUME ExactFits(Lane), NEW z, IsComplex(z), NEW w, IsComplex(w)
  PROVE  /\ HasInf(z) /\ (HasInf(w) \/ IsNonzeroFinite(w)) => HasInf(CMul(z, w))
         /\ HasInf(w) /\ IsNonzeroFinite(z) => HasInf(CMul(z, w))
         /\ CMul(z, w) = CMul(w, z)
<1> DEFINE p == Product(z, w)
<1>1. /\ IsComplex(Boxed(z)) /\ IsComplex(NansToZero(z))
      /\ IsComplex(Boxed(w)) /\ IsComplex(NansToZero(w))
  BY BoxedIs
<1>2. /\ Product(w, z) = p
      /\ Product(Boxed(w), Boxed(z)) = Product(Boxed(z), Boxed(w))
      /\ Product(NansToZero(w), Boxed(z)) = Product(Boxed(z), NansToZero(w))
      /\ Product(Boxed(w), NansToZero(z)) = Product(NansToZero(z), Boxed(w))
  BY <1>1, ProductLanes
<1>3. CMul(z, w) = CMul(w, z)
  <2> HIDE DEF p
  <2>1. CASE ~BothNan(p) \/ ~(HasInf(z) \/ HasInf(w))
    BY <1>2, <2>1, RecoveredProduct DEF p
  <2>2. CASE BothNan(p) /\ HasInf(z) /\ HasInf(w)
    BY <1>2, <2>2, RecoveredProduct DEF p
  <2>3. CASE BothNan(p) /\ HasInf(z) /\ ~HasInf(w)
    BY <1>2, <2>3, RecoveredProduct DEF p
  <2>4. CASE BothNan(p) /\ ~HasInf(z) /\ HasInf(w)
    BY <1>2, <2>4, RecoveredProduct DEF p
  <2> QED
    BY <2>1, <2>2, <2>3, <2>4
<1>4. ASSUME HasInf(z), HasInf(w) \/ IsNonzeroFinite(w) PROVE HasInf(CMul(z, w))
  <2>1. CASE ~BothNan(p)
    BY <1>4, <2>1, RecoveredProduct, ProductInfinite
  <2>2. CASE BothNan(p) /\ HasInf(w)
    <3>1. CMul(z, w) = Scaled(PosInf, Product(Boxed(z), Boxed(w)))
      BY <1>4, <2>2, RecoveredProduct
    <3>2. IsNonzeroFinite(Boxed(w))
      BY <2>2, BoxedIs
    <3> QED
      BY <1>1, <1>4, <3>1, <3>2, ProductRecovers
  <2>3. CASE BothNan(p) /\ ~HasInf(w)
    <3>1. CMul(z, w) = Scaled(PosInf, Product(Boxed(z), NansToZero(w)))
      BY <1>4, <2>3, RecoveredProduct
    <3>2. NansToZero(w) = w
      BY <1>4, <2>3, ComplexLanes DEF IsNonzeroFinite
    <3> QED
      BY <1>4, <2>3, <3>1, <3>2, ProductRecovers
  <2> QED
    BY <2>1, <2>2, <2>3
<1>5. ASSUME HasInf(w), IsNonzeroFinite(z) PROVE HasInf(CMul(z, w))
  <2>1. ~HasInf(z) /\ NansToZero(z) = z
    BY <1>5, ComplexLanes DEF IsNonzeroFinite
  <2>2. CASE ~BothNan(p)
    BY <1>5, <2>2, RecoveredProduct, ProductInfinite
  <2>3. CASE BothNan(p)
    <3>1. CMul(z, w) = Scaled(PosInf, Product(Boxed(w), z))
      BY <1>2, <1>5, <2>1, <2>3, RecoveredProduct
    <3> QED
      BY <1>5, <3>1, ProductRecovers
  <2> QED
    BY <2>2, <2>3
<1> QED
  BY <1>3, <1>4, <1>5
-----------------------------------------------------------------------------
\* Complex quotients: which recovery, by the operands and the squared modulus.
LEMMA RecoveredQuotient ==
  ASSUME ExactFits(Lane), NEW z, IsComplex(z), NEW w, IsComplex(w)
  PROVE  LET t == Add(Mul(w.re, w.re), Mul(w.im, w.im))
             q == Over(Crossed(z, w), t)
         IN  /\ ~BothNan(q) => CDiv(z, w) = q
             /\ BothNan(q) /\ IsZero(t) /\ ~BothNan(z) =>
                  CDiv(z, w) = Scaled(CopySign(PosInf, w.re), z)
             /\ BothNan(q) /\ ~IsZero(t) /\ HasInf(z) /\ IsFinite(w) =>
                  CDiv(z, w) = Scaled(PosInf, Crossed(Boxed(z), w))
             /\ BothNan(q) /\ ~IsZero(t) /\ HasInf(w) /\ IsFinite(z) =>
                  CDiv(z, w) = Scaled(Zero(FALSE), Crossed(z, Boxed(w)))
<1> DEFINE t == Add(Mul(w.re, w.re), Mul(w.im, w.im))
           q == Over(Crossed(z, w), t)
           s1 == Scaled(CopySign(PosInf, w.re), z)
           s2 == Scaled(PosInf, Crossed(Boxed(z), w))
           s3 == Scaled(Zero(FALSE), Crossed(z, Boxed(w)))
           G1 == BothNan(q) /\ IsZero(t) /\ ~BothNan(z)
           G2 == BothNan(q) /\ ~IsZero(t) /\ HasInf(z) /\ IsFinite(w)
           G3 == BothNan(q) /\ ~IsZero(t) /\ HasInf(w) /\ IsFinite(z)
           Got == CDiv(z, w)
<1>1. Got = Recovered(z, w, t, q)
  BY Zenon DEF CDiv
<1>2. ~(G2 /\ G3)
  BY ComplexLanes
<1> HIDE DEF t, q, Got
<1>3. Got = CASE ~BothNan(q) -> q [] G1 -> s1 [] G2 -> s2 [] G3 -> s3 [] OTHER -> q
  BY <1>1 DEF Recovered
<1> HIDE DEF s1, s2, s3
<1>4. /\ ~BothNan(q) => Got = q
      /\ G1 => Got = s1
      /\ G2 => Got = s2
      /\ G3 => Got = s3
  BY <1>2, <1>3
<1> QED
  BY <1>4 DEF t, q, Got, s1, s2, s3

\* The squared modulus of a divisor.
LEMMA ModulusKinds ==
  ASSUME ExactFits(Lane), NEW w, IsComplex(w)
  PROVE  LET t == Add(Mul(w.re, w.re), Mul(w.im, w.im))
         IN  /\ t \in Patterns(Lane)
             /\ IsOrigin(w) => IsZero(t)
             /\ HasInf(w) => Class(t) \in {"inf", "nan"} /\ ~IsZero(t)
<1> DEFINE a == w.re
           b == w.im
           aa == Mul(a, a)
           bb == Mul(b, b)
           t == Add(aa, bb)
<1>1. IsIeee(Lane) /\ a \in Patterns(Lane) /\ b \in Patterns(Lane)
      /\ (HasInf(w) <=> Class(a) = "inf" \/ Class(b) = "inf")
  BY ComplexLanes DEF ExactFits
<1>2. IsOrigin(w) <=> IsZero(a) /\ IsZero(b)
  BY DEF IsOrigin
<1> HIDE DEF a, b
<1>3. /\ aa \in Patterns(Lane) /\ (Class(a) = "inf" => Class(aa) \in {"inf", "nan"})
      /\ bb \in Patterns(Lane) /\ (Class(b) = "inf" => Class(bb) \in {"inf", "nan"})
      /\ IsZero(a) => IsZero(aa)
      /\ IsZero(b) => IsZero(bb)
  BY <1>1, MulKinds, ClassIs
<1> HIDE DEF aa, bb
<1>4. t \in Patterns(Lane)
      /\ (Class(aa) # "fin" \/ Class(bb) # "fin" => Class(t) \in {"inf", "nan"})
  BY <1>3, AddKinds
<1>5. ASSUME IsZero(aa), IsZero(bb) PROVE IsZero(t)
  <2>1. Class(aa) = "fin" /\ Class(bb) = "fin"
    BY <1>1, <1>3, <1>5, ClassIs
  <2>2. PICK i, j \in Int : SumsAre(aa, bb, i, j)
    BY <1>3, <2>1, SignedSums
  <2>3. i = 0 /\ j = 0 /\ (IsZero(Add(aa, bb)) <=> i + j = 0)
    BY <1>5, <2>2 DEF SumsAre
  <2> QED
    BY <2>3
<1> HIDE DEF t
<1>6. Class(t) \in {"inf", "nan"} => ~IsZero(t)
  BY <1>1, <1>4, ClassIs
<1> QED
  BY <1>1, <1>2, <1>3, <1>4, <1>5, <1>6 DEF t, aa, bb, a, b

\* An infinity with the sign of another lane, by a value with a lane to scale.
LEMMA SignedInfinity ==
  ASSUME ExactFits(Lane), NEW s \in Patterns(Lane), NEW p, IsComplex(p),
         \/ Class(p.re) \in {"fin", "inf"} /\ ~IsZero(p.re)
         \/ Class(p.im) \in {"fin", "inf"} /\ ~IsZero(p.im)
  PROVE  HasInf(Scaled(CopySign(PosInf, s), p))
<1> DEFINE n == s.neg
<1>1. n \in BOOLEAN
  BY DEF Patterns
<1>2. CopySign(PosInf, s) = Infinity(Lane, n)
  BY DEF CopySign, PosInf, Infinity
<1> QED
  BY <1>1, <1>2, ScaledInfinite

\* An infinity over a finite value.
LEMMA InfiniteQuotient ==
  ASSUME ExactFits(Lane), NEW z, IsComplex(z), HasInf(z), NEW w, IsComplex(w), IsFinite(w)
  PROVE  HasInf(CDiv(z, w))
<1> DEFINE t == Add(Mul(w.re, w.re), Mul(w.im, w.im))
           r == Crossed(z, w)
           q == Over(r, t)
<1>1. IsIeee(Lane) /\ ~BothNan(z) /\ w.re \in Patterns(Lane)
  BY ComplexLanes DEF ExactFits
<1>2. t \in Patterns(Lane) /\ (IsOrigin(w) => IsZero(t))
  BY ModulusKinds
<1>3. \/ Class(z.re) \in {"fin", "inf"} /\ ~IsZero(z.re)
      \/ Class(z.im) \in {"fin", "inf"} /\ ~IsZero(z.im)
  <2>1. Class(z.re) = "inf" \/ Class(z.im) = "inf"
    BY ComplexLanes
  <2>2. z.re \in Patterns(Lane) /\ z.im \in Patterns(Lane)
    BY ComplexLanes
  <2>3. (Class(z.re) = "inf" => ~IsZero(z.re)) /\ (Class(z.im) = "inf" => ~IsZero(z.im))
    BY <1>1, <2>2, ClassIs
  <2> QED
    BY <2>1, <2>3
<1>4. r.re \in Patterns(Lane) /\ r.im \in Patterns(Lane)
      /\ Class(r.re) \in {"inf", "nan"} /\ Class(r.im) \in {"inf", "nan"}
  BY ProductInfinite, ProductLanes DEF IsComplex
<1>5. /\ ~BothNan(q) => CDiv(z, w) = q
      /\ BothNan(q) /\ IsZero(t) /\ ~BothNan(z) => CDiv(z, w) = Scaled(CopySign(PosInf, w.re), z)
      /\ BothNan(q) /\ ~IsZero(t) /\ HasInf(z) /\ IsFinite(w) =>
           CDiv(z, w) = Scaled(PosInf, Crossed(Boxed(z), w))
  BY RecoveredQuotient
<1> HIDE DEF t, r
<1>6. CASE IsZero(t)
  <2> DEFINE n == NanLane
  <2>1. q = Cplx(n, n) /\ IsNanLane(n)
    BY <1>1, <1>6, NamedPatterns DEF Over
  <2> HIDE DEF q, n
  <2>2. BothNan(q)
    BY <2>1, CplxIs DEF BothNan
  <2>3. CDiv(z, w) = Scaled(CopySign(PosInf, w.re), z)
    BY <1>1, <1>5, <1>6, <2>2
  <2> QED
    BY <1>1, <1>3, <2>3, SignedInfinity
<1>7. CASE ~IsZero(t)
  <2> DEFINE a == Div(r.re, t)
             b == Div(r.im, t)
  <2>1. q = Cplx(a, b)
    BY <1>7 DEF Over
  <2>2. Class(a) \in {"inf", "nan"} /\ Class(b) \in {"inf", "nan"}
    BY <1>2, <1>4, DivKinds
  <2> HIDE DEF q, a, b
  <2>3. q.re = a /\ q.im = b
    BY <2>1, CplxIs
  <2>4. /\ IsNanLane(a) <=> Class(a) = "nan"
        /\ IsInf(a) <=> Class(a) = "inf"
        /\ IsNanLane(b) <=> Class(b) = "nan"
        /\ IsInf(b) <=> Class(b) = "inf"
    BY LaneKinds DEF IsNan, Class
  <2>5. CASE ~BothNan(q)
    BY <1>5, <2>2, <2>3, <2>4, <2>5 DEF BothNan, HasInf
  <2>6. CASE BothNan(q)
    <3>1. CDiv(z, w) = Scaled(PosInf, Crossed(Boxed(z), w))
      BY <1>5, <1>7, <2>6
    <3>2. IsNonzeroFinite(w)
      BY <1>2, <1>7 DEF IsNonzeroFinite
    <3> QED
      BY <3>1, <3>2, ProductRecovers
  <2> QED
    BY <2>5, <2>6
<1> QED
  BY <1>6, <1>7

\* A nonzero finite value over zero.
LEMMA OverOrigin ==
  ASSUME ExactFits(Lane), NEW z, IsComplex(z), IsNonzeroFinite(z),
         NEW w, IsComplex(w), IsOrigin(w)
  PROVE  HasInf(CDiv(z, w))
<1> DEFINE t == Add(Mul(w.re, w.re), Mul(w.im, w.im))
           r == Crossed(z, w)
           q == Over(r, t)
           n == NanLane
<1>1. IsIeee(Lane) /\ w.re \in Patterns(Lane) /\ IsZero(t)
  BY ComplexLanes, ModulusKinds DEF ExactFits
<1>2. \/ Class(z.re) \in {"fin", "inf"} /\ ~IsZero(z.re)
      \/ Class(z.im) \in {"fin", "inf"} /\ ~IsZero(z.im)
  BY ComplexLanes DEF IsNonzeroFinite, IsOrigin
<1>3. ~BothNan(z)
  BY ComplexLanes DEF IsNonzeroFinite
<1>4. BothNan(q) /\ IsZero(t) /\ ~BothNan(z) => CDiv(z, w) = Scaled(CopySign(PosInf, w.re), z)
  BY RecoveredQuotient
<1> HIDE DEF t, r
<1>5. q = Cplx(n, n) /\ IsNanLane(n)
  BY <1>1, NamedPatterns DEF Over
<1> HIDE DEF q, n
<1>6. BothNan(q)
  BY <1>5, CplxIs DEF BothNan
<1>7. CDiv(z, w) = Scaled(CopySign(PosInf, w.re), z)
  BY <1>1, <1>3, <1>4, <1>6
<1> QED
  BY <1>1, <1>2, <1>7, SignedInfinity

\* A lane, with either sign, or a zero in its place.
IsPart(p, x) == p \in Patterns(Lane) /\ (IsZero(p) \/ p = x \/ p = Minus(x))

LEMMA PartIs ==
  ASSUME IsIeee(Lane), NEW x \in Patterns(Lane), Class(x) = "fin", NEW p, IsPart(p, x)
  PROVE  /\ Class(p) = "fin" /\ p.neg \in BOOLEAN /\ p \in Patterns(Lane)
         /\ Magnitude(x) \in Patterns(Lane) /\ IsFields(Magnitude(x))
         /\ IsPart(Minus(p), x)
         /\ ~IsZero(p) /\ p.neg = FALSE => p = Magnitude(x)
         /\ ~IsZero(p) /\ p.neg = TRUE => p = Minus(Magnitude(x))
<1> DEFINE n == FALSE
           u == Magnitude(x)
<1>1. IsFields(x) /\ x.neg \in BOOLEAN /\ x.e \in 0..AllOnes(Lane.exp) /\ x.m \in 0..AllOnes(Lane.man)
      /\ x = [neg |-> x.neg, e |-> x.e, m |-> x.m] /\ Minus(x) \in Patterns(Lane)
  BY PatternMinus DEF Patterns
<1>2. n \in BOOLEAN /\ u = [neg |-> n, e |-> x.e, m |-> x.m]
      /\ Minus(u) = [neg |-> TRUE, e |-> x.e, m |-> x.m]
      /\ Minus(x) = [neg |-> ~x.neg, e |-> x.e, m |-> x.m]
  <2>1. u = [x EXCEPT !.neg = n]
    BY DEF Magnitude
  <2>2. ~n <=> TRUE
    OBVIOUS
  <2> HIDE DEF n, u
  <2>3. u = [neg |-> n, e |-> x.e, m |-> x.m]
    BY <1>1, <2>1
  <2>4. Minus(u) = [neg |-> ~n, e |-> x.e, m |-> x.m] /\ n \in BOOLEAN
    BY <2>2, <2>3 DEF Minus, n
  <2>5. Minus(x) = [neg |-> ~x.neg, e |-> x.e, m |-> x.m]
    BY <1>1 DEF Minus
  <2> QED
    BY <2>2, <2>3, <2>4, <2>5
<1>3. (x.neg = FALSE => x = u /\ Minus(x) = Minus(u)) /\ (x.neg = TRUE => x = Minus(u) /\ Minus(x) = u)
  BY <1>1, <1>2
<1>4. u \in Patterns(Lane)
  <2> HIDE DEF n, u
  <2> QED
    BY <1>1, <1>2 DEF Patterns
<1>5. IsFields(u) /\ u.neg = FALSE /\ Minus(u).neg = TRUE
  <2>1. u.neg = n /\ Minus(u).neg = TRUE
    BY <1>2
  <2>2. IsFields(u)
    BY <1>4, PatternMinus
  <2> QED
    BY <2>1, <2>2
<1>6. p \in Patterns(Lane) /\ (IsZero(p) \/ p = x \/ p = Minus(x))
  BY DEF IsPart
<1>7. Class(p) = "fin" /\ p.neg \in BOOLEAN
  BY <1>1, <1>6, ClassIs, KindsMinus
<1>8. IsFields(p) /\ Minus(p) \in Patterns(Lane)
  BY <1>6, PatternMinus
<1>9. Minus(Minus(x)) = x /\ (IsZero(p) => IsZero(Minus(p)))
  BY <1>1, <1>8, MinusFields, KindsMinus
<1>10. IsPart(Minus(p), x)
  BY <1>6, <1>8, <1>9 DEF IsPart
<1> HIDE DEF u
<1>11. ~IsZero(p) => p = u \/ p = Minus(u)
  BY <1>1, <1>3, <1>6
<1>12. /\ ~IsZero(p) /\ p.neg = FALSE => p = u
       /\ ~IsZero(p) /\ p.neg = TRUE => p = Minus(u)
  BY <1>5, <1>11
<1> QED
  BY <1>4, <1>5, <1>6, <1>7, <1>10, <1>12 DEF u

\* When the magnitudes can be added, so can the lanes with any signs, or zeros for them.
LEMMA PartsAdd ==
  ASSUME ExactFits(Lane), NEW x \in Patterns(Lane), Class(x) = "fin",
         NEW y \in Patterns(Lane), Class(y) = "fin",
         IsFin(Add(Magnitude(x), Magnitude(y))), NEW p, IsPart(p, x), NEW q, IsPart(q, y)
  PROVE  Add(p, q) \in Patterns(Lane) /\ Class(Add(p, q)) = "fin"
<1> DEFINE a == Magnitude(x)
           b == Magnitude(y)
           r == Add(a, b)
           s == Add(p, q)
<1>1. IsIeee(Lane)
  BY DEF ExactFits
<1>2. /\ Class(p) = "fin" /\ p.neg \in BOOLEAN /\ p \in Patterns(Lane) /\ a \in Patterns(Lane) /\ IsFields(a)
      /\ Class(q) = "fin" /\ q.neg \in BOOLEAN /\ q \in Patterns(Lane) /\ b \in Patterns(Lane) /\ IsFields(b)
      /\ ~IsZero(p) /\ p.neg = FALSE => p = a
      /\ ~IsZero(p) /\ p.neg = TRUE => p = Minus(a)
      /\ ~IsZero(q) /\ q.neg = FALSE => q = b
      /\ ~IsZero(q) /\ q.neg = TRUE => q = Minus(b)
  BY <1>1, PartIs
<1>3. IsFin(r)
  OBVIOUS
<1> HIDE DEF a, b
<1>4. s \in Patterns(Lane) /\ r \in Patterns(Lane)
      /\ (p.neg # q.neg \/ IsZero(p) \/ IsZero(q) => Class(s) = "fin")
  BY <1>2, FiniteSum, AddKinds
<1>5. Class(r) = "fin"
  BY <1>1, <1>3, <1>4, ClassIs
<1>6. CASE p = a /\ q = b
  BY <1>4, <1>5, <1>6
<1>7. CASE p = Minus(a) /\ q = Minus(b)
  <2>1. Opposite(a, p, Lane) /\ Opposite(b, q, Lane)
    BY <1>2, <1>7, OppositeMinus
  <2>2. AlikeOpposite(r, s, Lane)
    BY <1>1, <1>2, <2>1, AddAlike, LaneOps
  <2> HIDE DEF r, s
  <2>3. ~IsNan(r, Lane)
    BY <1>5 DEF IsNan, Class
  <2>4. IsFields(r) /\ (s = Minus(r) \/ IsZero(s))
    BY <2>2, <2>3 DEF AlikeOpposite
  <2>5. IsFin(s) \/ IsZero(s)
    BY <1>1, <1>3, <2>4, KindsMinus
  <2> QED
    BY <1>1, <1>4, <2>5, ClassIs DEF s
<1>8. p.neg # q.neg \/ IsZero(p) \/ IsZero(q) \/ (p = a /\ q = b) \/ (p = Minus(a) /\ q = Minus(b))
  BY <1>2
<1> QED
  BY <1>4, <1>6, <1>7, <1>8

LEMMA BoxedPart ==
  ASSUME ExactFits(Lane), NEW c, IsBoxed(c), NEW x \in Patterns(Lane), Class(x) = "fin"
  PROVE  IsPart(Mul(x, c), x) /\ IsPart(Minus(Mul(x, c)), x)
<1> DEFINE p == Mul(x, c)
<1>1. IsIeee(Lane) /\ c \in Patterns(Lane)
  BY DEF ExactFits, IsBoxed
<1>2. p = Mul(c, x)
  BY <1>1, Commutes
<1> HIDE DEF p
<1>3. p \in Patterns(Lane) /\ (IsZero(p) \/ p = x \/ p = Minus(x))
  BY <1>2, TimesBoxed DEF IsUnit
<1>4. IsPart(p, x)
  BY <1>3 DEF IsPart
<1> QED
  BY <1>1, <1>4, PartIs DEF p

\* A finite value over an infinity, when its lanes can be added.
LEMMA OverInfinite ==
  ASSUME ExactFits(Lane), NEW z, IsComplex(z), IsFinite(z), NEW w, IsComplex(w), HasInf(w),
         IsFin(Add(Magnitude(z.re), Magnitude(z.im)))
  PROVE  IsOrigin(CDiv(z, w))
<1> DEFINE t == Add(Mul(w.re, w.re), Mul(w.im, w.im))
           r == Crossed(z, w)
           q == Over(r, t)
           u == Boxed(w)
           v == Crossed(z, u)
           o == Zero(FALSE)
           a == z.re
           b == z.im
<1>1. /\ IsIeee(Lane) /\ a \in Patterns(Lane) /\ b \in Patterns(Lane)
      /\ Class(a) = "fin" /\ Class(b) = "fin"
  BY ComplexLanes DEF ExactFits
<1>2. t \in Patterns(Lane) /\ Class(t) \in {"inf", "nan"} /\ ~IsZero(t)
  BY ModulusKinds
<1>3. r.re \in Patterns(Lane) /\ r.im \in Patterns(Lane)
      /\ Class(r.re) \in {"inf", "nan"} /\ Class(r.im) \in {"inf", "nan"}
  BY ProductInfinite, ProductLanes DEF IsComplex
<1>4. BothNan(q) /\ ~IsZero(t) /\ HasInf(w) /\ IsFinite(z) => CDiv(z, w) = Scaled(o, v)
  BY RecoveredQuotient
<1> HIDE DEF t, r
<1>5. BothNan(q)
  <2>1. q = Cplx(Div(r.re, t), Div(r.im, t))
    BY <1>2 DEF Over
  <2>2. Class(Div(r.re, t)) = "nan" /\ Class(Div(r.im, t)) = "nan"
    BY <1>2, <1>3, DivKinds
  <2> HIDE DEF q
  <2>3. IsNanLane(q.re) /\ IsNanLane(q.im)
    BY <2>1, <2>2, CplxIs, LaneKinds DEF IsNan, Class
  <2> QED
    BY <2>3 DEF BothNan
<1>6. CDiv(z, w) = Scaled(o, v)
  BY <1>2, <1>4, <1>5
<1>7. IsComplex(u) /\ IsBoxed(u.re) /\ IsBoxed(u.im)
  BY BoxedIs
<1> HIDE DEF u
<1>8. /\ v.re = Add(Mul(b, u.im), Mul(a, u.re))
      /\ v.im = Add(Mul(b, u.re), Minus(Mul(a, u.im)))
  BY <1>7, ProductLanes
<1>9. /\ IsPart(Mul(b, u.im), b) /\ IsPart(Mul(a, u.re), a)
      /\ IsPart(Mul(b, u.re), b) /\ IsPart(Minus(Mul(a, u.im)), a)
  BY <1>1, <1>7, BoxedPart
<1>10. IsFin(Add(Magnitude(b), Magnitude(a)))
  <2>1. IsPart(a, a) /\ IsPart(b, b)
    BY <1>1 DEF IsPart
  <2>2. Magnitude(a) \in Patterns(Lane) /\ Magnitude(b) \in Patterns(Lane)
    BY <1>1, <2>1, PartIs
  <2> QED
    BY <1>1, <2>2, Commutes
<1> HIDE DEF v, a, b
<1>11. /\ v.re \in Patterns(Lane) /\ Class(v.re) = "fin"
       /\ v.im \in Patterns(Lane) /\ Class(v.im) = "fin"
  BY <1>1, <1>8, <1>9, <1>10, PartsAdd
<1>12. o \in Patterns(Lane) /\ IsZero(o)
  BY <1>1, NamedPatterns
<1> HIDE DEF o
<1>13. Class(o) = "fin"
  BY <1>1, <1>12, ClassIs
<1>14. IsZero(Mul(o, v.re)) /\ IsZero(Mul(o, v.im))
  BY <1>11, <1>12, <1>13, MulKinds
<1> QED
  BY <1>6, <1>14, CplxIs DEF Scaled, IsOrigin

-----------------------------------------------------------------------------
LEMMA CalledRecovers ==
  Called => InfinitiesAreRecovered
<1> SUFFICES ASSUME Called, Done PROVE ProductIsAnnexG /\ QuotientIsAnnexG
  BY DEF InfinitiesAreRecovered, ProductIsAnnexG, QuotientIsAnnexG
<1> DEFINE x == args[1]
           y == args[Len(args)]
<1>1. IsIeee(Lane) /\ ExactFits(Lane)
  BY LaneFits
<1>2. IsComplex(x) /\ IsComplex(y)
  BY <1>1, OperandsConj DEF Called
<1>3. result = EvalComplexOp(op, args, ext) /\ EvalComplexOp(op, args, ext).ok
  BY DEF Called, Done
<1>4. Len(args) = ArityOf(op) /\ answer = Apply(op, x, y, ext)
  BY <1>3, ResultIs DEF answer
<1>5. op \in {"cmul", "cdiv"} => Len(args) = 2
  BY <1>4 DEF ArityOf, Unaries
<1>6. first = x /\ (op \in {"cmul", "cdiv"} => second = y)
  BY <1>5 DEF first, second
<1> HIDE DEF x, y
<1>7. ProductIsAnnexG
  <2> SUFFICES ASSUME op = "cmul"
               PROVE  /\ IsInfinity(x) /\ (IsInfinity(y) \/ IsNonzeroFinite(y)) => IsInfinity(answer)
                      /\ IsInfinity(y) /\ IsNonzeroFinite(x) => IsInfinity(answer)
                      /\ Same(answer, CMul(y, x))
    BY <1>6 DEF ProductIsAnnexG
  <2>1. answer = CMul(x, y)
    BY <1>4 DEF Apply
  <2>2. answer = CMul(y, x)
    BY <1>1, <1>2, <2>1, MulRecovers
  <2>3. Same(answer, CMul(y, x))
    BY <2>2 DEF Same, SameLane
  <2> QED
    BY <1>1, <1>2, <2>1, <2>3, MulRecovers DEF IsInfinity
<1>8. QuotientIsAnnexG
  <2> SUFFICES ASSUME op = "cdiv"
               PROVE  /\ IsInfinity(x) /\ IsFinite(y) => IsInfinity(answer)
                      /\ IsNonzeroFinite(x) /\ IsOrigin(y) => IsInfinity(answer)
                      /\ IsFinite(x) /\ IsInfinity(y)
                           /\ IsFin(Add(Magnitude(x.re), Magnitude(x.im))) => IsOrigin(answer)
    BY <1>6 DEF QuotientIsAnnexG
  <2>1. answer = CDiv(x, y)
    BY <1>4 DEF Apply
  <2> QED
    BY <1>1, <1>2, <2>1, InfiniteQuotient, OverOrigin, OverInfinite DEF IsInfinity
<1> QED
  BY <1>7, <1>8

\* Annex G, for every format of the lane and any operands: a product of an infinity by an
\* infinity or a nonzero finite value is an infinity and does not depend on the order of the
\* operands; a quotient of an infinity by a finite value, or of a nonzero finite value by zero,
\* is an infinity; and a finite value whose lanes can be added is zero over an infinity,
\* whatever NaNs the lanes first come to.
THEOREM InfinitiesAlwaysRecovered ==
  ComplexSpec => []InfinitiesAreRecovered
<1>1. ComplexInit => Called
  BY CalledInit
<1>2. Called /\ [ComplexNext]_complexVars => Called'
  BY CalledNext
<1>3. Called => InfinitiesAreRecovered
  BY CalledRecovers
<1> QED
  BY <1>1, <1>2, <1>3, PTL DEF ComplexSpec
=============================================================================
