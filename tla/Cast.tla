-------------------------------- MODULE Cast --------------------------------
(***************************************************************************)
(* The conversion atom (cast.rs): every source pattern is decoded to an    *)
(* exact value, +-mant * 2^exp, and rounded once to the destination.       *)
(*                                                                         *)
(* A dtype is a record: kind, and the fields of its kind.  The pattern of  *)
(* a float is the record of its three fields; of an integer, a number.     *)
(* Apart from the atom, the conversions of the FP8 element types (fp8.rs), *)
(* written by hand: round half to even on the significand of an f32, with  *)
(* separate normal and subnormal paths, and the value of a pattern.        *)
(***************************************************************************)
EXTENDS TwosComplement

CONSTANTS
  MantBits,   \* the width of a decoded mantissa (u128)
  MaxExp      \* the magnitude above which rounded_integer gives up: 2^MaxExp

Roundings == {"nearest_even", "toward_zero", "toward_neg_inf", "toward_pos_inf"}
Saturations == {"none", "clamp"}

Value(v) == [ok |-> TRUE, value |-> v]
Error(e) == [ok |-> FALSE, error |-> e]

IsFloat(d) == d.kind = "float"

-----------------------------------------------------------------------------
\* Float formats (FloatFmt).
AllOnes(bits) == Power[bits] - 1

Zero(neg) == [neg |-> neg, e |-> 0, m |-> 0]
Infinity(f, neg) == [neg |-> neg, e |-> AllOnes(f.exp), m |-> 0]

MaxFiniteExp(f) == IF f.nan = "ieee" THEN AllOnes(f.exp) - 1 ELSE AllOnes(f.exp)
MaxFiniteMan(f) == IF f.nan = "all_ones" THEN AllOnes(f.man) - 1 ELSE AllOnes(f.man)
MaxFinite(f, neg) == [neg |-> neg, e |-> MaxFiniteExp(f), m |-> MaxFiniteMan(f)]

\* Decoded values.
Nan(neg, m, bits) == [class |-> "nan", neg |-> neg, m |-> m, bits |-> bits]
Inf(neg) == [class |-> "inf", neg |-> neg]
Fin(neg, mant, exp) == [class |-> "fin", neg |-> neg, mant |-> mant, exp |-> exp]

\* Mutant: a subnormal has the exponent its field says.
DecodeFloatFlat(p, f) ==
  IF p.e = AllOnes(f.exp) /\ f.nan = "ieee"
  THEN IF p.m = 0 THEN Inf(p.neg) ELSE Nan(p.neg, p.m, f.man)
  ELSE IF p.e = AllOnes(f.exp) /\ f.nan = "all_ones" /\ p.m = AllOnes(f.man)
       THEN Nan(p.neg, p.m, f.man)
  ELSE IF p.e = 0 THEN Fin(p.neg, p.m, -f.bias - f.man)
  ELSE Fin(p.neg, p.m + Power[f.man], p.e - f.bias - f.man)

DecodeFloat(p, f) ==
  IF p.e = AllOnes(f.exp) /\ f.nan = "ieee"
  THEN IF p.m = 0 THEN Inf(p.neg) ELSE Nan(p.neg, p.m, f.man)
  ELSE IF p.e = AllOnes(f.exp) /\ f.nan = "all_ones" /\ p.m = AllOnes(f.man)
       THEN Nan(p.neg, p.m, f.man)
  ELSE IF p.e = 0 THEN Fin(p.neg, p.m, 1 - f.bias - f.man)
  ELSE Fin(p.neg, p.m + Power[f.man], p.e - f.bias - f.man)

\* An integer, a bool included, is the value of its pattern.
IntValue(p, d) == IF d.kind = "bool" THEN IF p = 0 THEN 0 ELSE 1 ELSE Wrap(p, d)

DecodePattern(p, d) ==
  IF IsFloat(d) THEN DecodeFloat(p, d)
  ELSE LET v == IntValue(p, d) IN Fin(v < 0, IF v < 0 THEN -v ELSE v, 0)

-----------------------------------------------------------------------------
\* round_shift: the magnitude in units, the rest rounded by direction.
Rest(low, unit) ==
  IF low = 0 THEN "zero"
  ELSE IF 2 * low < unit THEN "below"
  ELSE IF 2 * low = unit THEN "half" ELSE "above"

\* Mutant: a tie rounds away from zero.
BumpsAway(q, rest, neg, r) ==
  /\ rest # "zero"
  /\ \/ r = "nearest_even" /\ rest \in {"half", "above"}
     \/ r = "toward_neg_inf" /\ neg
     \/ r = "toward_pos_inf" /\ ~neg

Bumps(q, rest, neg, r) ==
  /\ rest # "zero"
  /\ \/ r = "nearest_even" /\ (rest = "above" \/ (rest = "half" /\ q % 2 = 1))
     \/ r = "toward_neg_inf" /\ neg
     \/ r = "toward_pos_inf" /\ ~neg

Bumped(q, rest, neg, r) == IF Bumps(q, rest, neg, r) THEN q + 1 ELSE q

RoundUnit(mant, unit, neg, r) == Bumped(mant \div unit, Rest(mant % unit, unit), neg, r)

\* A shift by the whole width or more leaves less than half a unit.
RoundFar(mant, neg, r) == Bumped(0, IF mant = 0 THEN "zero" ELSE "below", neg, r)

RoundShift(mant, shift, neg, r) ==
  IF shift >= MantBits THEN RoundFar(mant, neg, r) ELSE RoundUnit(mant, Power[shift], neg, r)

-----------------------------------------------------------------------------
\* Encoding to a float.
BitLength(n) == CHOOSE b \in 0..MantBits : n < Power[b] /\ (b > 0 => n >= Power[b - 1])

Overflow(f, neg, r, s) ==
  IF s = "clamp" \/ r = "toward_zero" \/ (r = "toward_neg_inf" /\ ~neg)
       \/ (r = "toward_pos_inf" /\ neg)
  THEN Value(MaxFinite(f, neg))
  ELSE IF f.hasInf THEN Value(Infinity(f, neg)) ELSE Error("CastUnpinned")

\* The exponent of the destination's last place; no lower than a subnormal's.
LastPlace(mant, exp, f) ==
  LET lead == BitLength(mant) - 1 + exp
      least == 1 - f.bias
  IN  (IF lead >= least THEN lead ELSE least) - f.man

\* The fields of a result, unless they are past the largest.
Fit(neg, e, man, f, r, s) ==
  IF e > MaxFiniteExp(f) \/ (e = MaxFiniteExp(f) /\ man > MaxFiniteMan(f))
  THEN Overflow(f, neg, r, s)
  ELSE Value([neg |-> neg, e |-> e, m |-> man])

\* A significand of m last places of weight 2^place.
Pack(neg, m, place, f, r, s) ==
  LET subnormal == m < Power[f.man]
  IN  IF m = 0 THEN Value(Zero(neg))
      ELSE Fit(neg, IF subnormal THEN 0 ELSE place + f.man + f.bias,
               IF subnormal THEN m ELSE m - Power[f.man], f, r, s)

\* Rounding may carry into one bit more.
Carry(neg, rounded, place, f, r, s) ==
  LET carried == rounded >= Power[f.man + 1]
  IN  Pack(neg, IF carried THEN rounded \div 2 ELSE rounded,
           IF carried THEN place + 1 ELSE place, f, r, s)

RoundToPlace(v, place, f, r, s) ==
  Carry(v.neg, IF place <= v.exp THEN v.mant * Power[v.exp - place]
               ELSE RoundShift(v.mant, place - v.exp, v.neg, r), place, f, r, s)

RoundToFloat(v, f, r, s) ==
  IF v.mant = 0 THEN Value(Zero(v.neg))
  ELSE RoundToPlace(v, LastPlace(v.mant, v.exp, f), f, r, s)

\* The bits of a payload that the format has places for.
TopOfPayload(v, f) ==
  IF f.man >= v.bits THEN v.m * Power[f.man - v.bits] ELSE v.m \div Power[v.bits - f.man]

\* Mutant: the payload is cut and not made quiet.
QuietNanCut(v, f) ==
  LET top == TopOfPayload(v, f)
  IN  [neg |-> v.neg, e |-> AllOnes(f.exp), m |-> top]

\* A NaN keeps its sign and the top of its payload, and is quiet.
QuietNan(v, f) ==
  LET quiet == Power[f.man - 1]
      top == TopOfPayload(v, f)
  IN  [neg |-> v.neg, e |-> AllOnes(f.exp), m |-> IF top >= quiet THEN top ELSE top + quiet]

EncodeNan(v, f) ==
  CASE f.nan = "absent" -> Error("CastUnpinned")
    [] f.nan = "all_ones" -> Value([neg |-> v.neg, e |-> AllOnes(f.exp), m |-> AllOnes(f.man)])
    [] f.nan = "ieee" -> Value(QuietNan(v, f))

EncodeInf(v, f, s) ==
  IF s = "clamp" THEN Value(MaxFinite(f, v.neg))
  ELSE IF f.hasInf THEN Value(Infinity(f, v.neg)) ELSE Error("CastUnpinned")

EncodeFloat(v, f, r, s) ==
  CASE v.class = "nan" -> EncodeNan(v, f)
    [] v.class = "inf" -> EncodeInf(v, f, s)
    [] v.class = "fin" -> RoundToFloat(v, f, r, s)

-----------------------------------------------------------------------------
\* Encoding to an integer.  TooLarge stands for a value no i128 holds.
IsTooLarge(v) ==
  \/ v.class = "inf"
  \/ v.class = "fin" /\ v.exp >= 0 /\ v.mant # 0 /\ BitLength(v.mant) + v.exp > MaxExp

RoundedInteger(v, r) ==
  LET mag == IF v.exp >= 0 THEN v.mant * Power[v.exp] ELSE RoundShift(v.mant, -v.exp, v.neg, r)
  IN  IF v.neg THEN -mag ELSE mag

\* The bound a value outside the dtype saturates to.
Bound(below, d) == Value(Pattern(IF below THEN Lowest(d) ELSE Highest(d), d))

\* Mutant: a float wraps like an integer.
EncodeIntWrapping(v, d, fromInt, r, s) ==
  IF v.class = "nan" THEN Error("CastUnpinned")
  ELSE IF IsTooLarge(v) THEN IF s = "clamp" THEN Bound(v.neg, d) ELSE Error("CastUnpinned")
  ELSE LET x == RoundedInteger(v, r)
       IN  IF InRange(x, d) \/ s # "clamp" THEN Value(Pattern(x, d)) ELSE Bound(x < Lowest(d), d)

EncodeInt(v, d, fromInt, r, s) ==
  IF v.class = "nan" THEN Error("CastUnpinned")
  ELSE IF IsTooLarge(v) THEN IF s = "clamp" THEN Bound(v.neg, d) ELSE Error("CastUnpinned")
  ELSE LET x == RoundedInteger(v, r)
       IN  IF InRange(x, d) THEN Value(Pattern(x, d))
           ELSE IF s = "clamp" THEN Bound(x < Lowest(d), d)
           ELSE IF fromInt THEN Value(Pattern(x, d)) ELSE Error("CastUnpinned")

-----------------------------------------------------------------------------
\* check_cast: what is declined without looking at a value, in its order.
DtypeFault(d) ==
  CASE d.kind = "complex" -> "UnsupportedDtype"
    [] d.kind = "reserved" -> "ReservedOrScaleDtype"
    [] OTHER -> "none"

CastFault(src, dst, r, s) ==
  IF DtypeFault(src) # "none" THEN DtypeFault(src)
  ELSE IF DtypeFault(dst) # "none" THEN DtypeFault(dst)
  ELSE IF dst.kind = "bool" THEN "UnsupportedDtype"
  ELSE IF IsFloat(dst) /\ dst.pinned /\ r # "nearest_even" THEN "CastRoundingNotDefined"
  ELSE IF IsFloat(dst) /\ dst.pinned /\ s # "clamp" THEN "CastSaturationRequired"
  ELSE "none"

\* cast_bits, of a request that was not declined: the identity, or one rounding.
CastBits(p, src, dst, r, s) ==
  IF src = dst THEN Value(p)
  ELSE IF IsFloat(dst) THEN EncodeFloat(DecodePattern(p, src), dst, r, s)
  ELSE EncodeInt(DecodePattern(p, src), dst, ~IsFloat(src), r, s)

-----------------------------------------------------------------------------
\* The FP8 codecs.
CONSTANT FarShift   \* the shift beyond which nothing is left of a significand

\* Mutant: a tie is broken by the round bit alone.
KeptAway(sig, shift) ==
  (sig \div Power[shift]) + ((sig \div Power[shift - 1]) % 2)

\* The kept part of a significand shifted right, rounded to even by the round bit
\* and the sticky bits below it.
Kept(sig, shift) ==
  LET half == Power[shift - 1]
      kept == sig \div (2 * half)
      roundBit == (sig \div half) % 2 = 1
      sticky == sig % half # 0
  IN  IF roundBit /\ (sticky \/ kept % 2 = 1) THEN kept + 1 ELSE kept

\* round_mag: the fields of a finite magnitude of the format g in the format f.
RoundMag(p, g, f) ==
  LET sig == IF p.e = 0 THEN p.m ELSE p.m + Power[g.man]
      ue == IF p.e = 0 THEN 1 - g.bias ELSE p.e - g.bias
      drop == g.man - f.man
      te == ue + f.bias
      far == drop + (1 - te)
      small == Kept(sig, far)
      kept == Kept(sig, drop)
      carried == kept >= Power[f.man + 1]
      top == IF carried THEN te + 1 ELSE te
      man == (IF carried THEN kept \div 2 ELSE kept) % Power[f.man]
      sat == MaxFinite(f, p.neg)
  IN  IF sig = 0 THEN Zero(p.neg)
      ELSE IF te <= 0
      THEN IF far > FarShift THEN Zero(p.neg)
           ELSE IF small > AllOnes(f.man) THEN [neg |-> p.neg, e |-> 1, m |-> 0]
           ELSE [neg |-> p.neg, e |-> 0, m |-> small]
      ELSE IF top > MaxFiniteExp(f) THEN sat
      ELSE IF f.nan = "all_ones" /\ top = MaxFiniteExp(f) /\ man = AllOnes(f.man) THEN sat
      ELSE [neg |-> p.neg, e |-> top, m |-> man]

\* from_f32: the one NaN of e4m3, or the quiet one of e5m2; an infinity saturates
\* where the format has none.
FromFloat(p, g, f) ==
  IF p.e = AllOnes(g.exp) /\ p.m # 0
  THEN [neg |-> p.neg, e |-> AllOnes(f.exp),
        m |-> IF f.nan = "all_ones" THEN AllOnes(f.man) ELSE Power[f.man - 1]]
  ELSE IF p.e = AllOnes(g.exp)
  THEN IF f.hasInf THEN Infinity(f, p.neg) ELSE MaxFinite(f, p.neg)
  ELSE RoundMag(p, g, f)

\* decode: every NaN becomes the one without a sign.  The significand and its ldexpf are
\* exact in an f32, which stands here as its value.
DecodeFp8(p, f) ==
  IF p.e = AllOnes(f.exp) /\ (IF f.nan = "all_ones" THEN p.m = AllOnes(f.man) ELSE p.m # 0)
  THEN Nan(FALSE, 0, 0)
  ELSE IF p.e = AllOnes(f.exp) /\ f.nan # "all_ones" THEN Inf(p.neg)
  ELSE IF p.e = 0 THEN Fin(p.neg, p.m, (1 - f.bias) - f.man)
  ELSE Fin(p.neg, Power[f.man] + p.m, (p.e - f.bias) - f.man)
=============================================================================
