---------------------------- MODULE NarrowFloat -----------------------------
(***************************************************************************)
(* The narrow float types (scalar.rs): arithmetic by promotion to f32, and *)
(* the narrowing of an f64 by way of f32, rounded to odd.  A format is     *)
(* Cast's; the FP8 types, which are pinned, have the codec of fp8.rs, the  *)
(* others the one of the half crate.                                       *)
(***************************************************************************)
EXTENDS Cast

CONSTANTS F32, F64   \* the two wide formats

\* A lane (float_format): the bias of an exponent field of its width; infinities go with
\* the NaNs of IEEE 754, and only FP8 has none.
IsLane(f) ==
  /\ f.kind = "float" /\ f.exp \in Nat /\ f.exp >= 2 /\ f.man \in Nat /\ f.man >= 1
  /\ f.bias = Power[f.exp - 1] - 1
  /\ f.nan \in {"ieee", "all_ones"} /\ f.hasInf = (f.nan = "ieee")
  /\ f.pinned \in BOOLEAN /\ (~f.hasInf => f.pinned)

Patterns(f) == [neg : BOOLEAN, e : 0..AllOnes(f.exp), m : 0..AllOnes(f.man)]
One(f) == [neg |-> FALSE, e |-> f.bias, m |-> 0]

Rne(v, f) == EncodeFloat(v, f, "nearest_even", "none").value

\* x as f32, and the codecs of a narrow type.
AsF32(x) == Rne(DecodeFloat(x, F64), F32)
AsF64(x, f) == Rne(DecodeFloat(x, f), F64)

\* Mutant: what does not fit is cut off.
FromF32Truncating(x, f) == EncodeFloat(DecodeFloat(x, F32), f, "toward_zero", "none").value

FromF32(x, f) == IF f.pinned THEN FromFloat(x, F32, f) ELSE Rne(DecodeFloat(x, F32), f)

IsNarrow(f) == f \notin {F32, F64}
FromF64(x, f) ==
  CASE f = F64 -> x
    [] f = F32 -> AsF32(x)
    [] OTHER -> FromF32(AsF32(x), f)

-----------------------------------------------------------------------------
\* A pattern one away from or one toward zero, of the same sign.
MagnitudeUp(p, f) ==
  IF p.m < AllOnes(f.man) THEN [p EXCEPT !.m = p.m + 1] ELSE [p EXCEPT !.e = p.e + 1, !.m = 0]
MagnitudeDown(p, f) ==
  IF p.m > 0 THEN [p EXCEPT !.m = p.m - 1] ELSE [p EXCEPT !.e = p.e - 1, !.m = AllOnes(f.man)]

Least(neg) == [neg |-> neg, e |-> 0, m |-> 1]
IsZero(p) == p.e = 0 /\ p.m = 0

NextUp(p) ==
  IF IsZero(p) THEN Least(FALSE)
  ELSE IF p.neg THEN MagnitudeDown(p, F32) ELSE MagnitudeUp(p, F32)
NextDown(p) ==
  IF IsZero(p) THEN Least(TRUE)
  ELSE IF p.neg THEN MagnitudeUp(p, F32) ELSE MagnitudeDown(p, F32)

IsFiniteIn(p, f) == DecodeFloat(p, f).class = "fin"

\* The order of two finite values.
Aligned(v, exp) == (IF v.neg THEN -v.mant ELSE v.mant) * Power[v.exp - exp]
Below(v, w) ==
  LET exp == IF v.exp < w.exp THEN v.exp ELSE w.exp IN Aligned(v, exp) < Aligned(w, exp)

\* Mutant: the rounded value is taken as it is.
RoundToOddNearest(x) == AsF32(x)

\* round_to_odd_f64_to_f32: of the two values around x, the one with an odd last bit.
RoundToOdd(x) ==
  LET r == AsF32(x)
      back == AsF64(r, F32)
      other == IF Below(DecodeFloat(r, F32), DecodeFloat(x, F64)) THEN NextUp(r) ELSE NextDown(r)
  IN  IF ~IsFiniteIn(x, F64) \/ back = x THEN r
      ELSE IF ~IsFiniteIn(r, F32) THEN MaxFinite(F32, x.neg)
      ELSE IF r.m % 2 = 1 THEN r ELSE other

FromF64SingleRound(x, f) == IF IsNarrow(f) THEN FromF32(RoundToOdd(x), f) ELSE FromF64(x, f)

\* widen and narrow, between a storage type f and an accumulator type a.
Widen(x, f, a) == FromF64(AsF64(x, f), a)
Narrow(x, a, f) == FromF64SingleRound(AsF64(x, a), f)

-----------------------------------------------------------------------------
\* What an operation gives before any rounding.  A quotient keeps Kept bits and one
\* that tells whether anything is left.
CONSTANT QuotientBits

Apart(v, w) == v.neg # w.neg
IsNought(v) == v.class = "fin" /\ v.mant = 0

ExactSum(v, w) ==
  IF v.class = "inf" THEN IF w.class = "inf" /\ Apart(v, w) THEN Nan(FALSE, 1, 1) ELSE v
  ELSE IF w.class = "inf" \/ (IsNought(v) /\ ~IsNought(w)) THEN w
  ELSE IF IsNought(w) /\ ~IsNought(v) THEN v
  ELSE LET exp == IF v.exp < w.exp THEN v.exp ELSE w.exp
           sum == Aligned(v, exp) + Aligned(w, exp)
       IN  Fin(IF sum = 0 THEN v.neg /\ w.neg ELSE sum < 0, IF sum < 0 THEN -sum ELSE sum, exp)

ExactProduct(v, w) ==
  IF v.class = "inf" \/ w.class = "inf"
  THEN IF IsNought(v) \/ IsNought(w) THEN Nan(FALSE, 1, 1) ELSE Inf(Apart(v, w))
  ELSE Fin(Apart(v, w), v.mant * w.mant, v.exp + w.exp)

ExactQuotient(v, w) ==
  IF v.class = "inf"
  THEN IF w.class = "inf" THEN Nan(FALSE, 1, 1) ELSE Inf(Apart(v, w))
  ELSE IF w.class = "inf" THEN Fin(Apart(v, w), 0, 0)
  ELSE IF w.mant = 0
  THEN IF v.mant = 0 THEN Nan(FALSE, 1, 1) ELSE Inf(Apart(v, w))
  ELSE LET n == v.mant * Power[QuotientBits]
       IN  Fin(Apart(v, w), 2 * (n \div w.mant) + (IF n % w.mant = 0 THEN 0 ELSE 1),
               v.exp - w.exp - QuotientBits - 1)

ExactResult(op, v, w) ==
  IF v.class = "nan" \/ w.class = "nan" THEN Nan(FALSE, 1, 1)
  ELSE CASE op = "add" -> ExactSum(v, w)
         [] op = "sub" -> ExactSum(v, [w EXCEPT !.neg = ~w.neg])
         [] op = "mul" -> ExactProduct(v, w)
         [] op = "div" -> ExactQuotient(v, w)

\* The arithmetic of a wide type, and of a narrow one through f32.
WideArith(op, x, y, f) == Rne(ExactResult(op, DecodeFloat(x, f), DecodeFloat(y, f)), f)

ToF32(x, f) == Rne(DecodeFloat(x, f), F32)

Arith(op, x, y, f) ==
  IF IsNarrow(f) THEN FromF32(WideArith(op, ToF32(x, f), ToF32(y, f), F32), f)
  ELSE WideArith(op, x, y, f)

-----------------------------------------------------------------------------
\* One rounding of a value to a type, as the type rounds: a finite FP8 value saturates.
Direct(v, f) ==
  IF v.class = "inf" /\ ~f.hasInf THEN MaxFinite(f, v.neg)
  ELSE EncodeFloat(v, f, "nearest_even", IF f.pinned /\ v.class = "fin" THEN "clamp" ELSE "none").value
=============================================================================
