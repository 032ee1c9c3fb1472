------------------------------ MODULE CastSpec ------------------------------
(***************************************************************************)
(* cast_tensor, element by element, and what a conversion promises: the    *)
(* value of the destination that the rounding direction selects, looked up *)
(* among all values of the destination.                                    *)
(***************************************************************************)
EXTENDS Cast, Sequences

CONSTANTS
  Requests,   \* records: src, dst, rounding, saturation
  Inputs,     \* the sequences of patterns converted, for each source dtype
  Scale       \* every value is a multiple of 2^-Scale

\* A float format (float_fmt): which magnitudes are NaNs goes with whether there are
\* infinities, and the formats without them are the ones whose casts saturate.
IsFormat(f) ==
  /\ f.exp \in Nat /\ f.exp >= 2 /\ f.man \in Nat /\ f.man >= 1 /\ f.bias \in Nat
  /\ f.nan \in {"ieee", "all_ones", "absent"} /\ f.hasInf \in BOOLEAN /\ f.pinned \in BOOLEAN
  /\ f.hasInf <=> f.nan = "ieee"
  /\ ~f.hasInf => f.pinned

\* Decoded mantissas leave the top bit of MantBits unused, and every value of a float is a
\* multiple of 2^-Scale.
FormatFits(f) == f.man + 1 < MantBits /\ f.bias + f.man <= Scale + 1

\* An integer dtype, and its pattern in a mantissa; what is TooLarge is outside it.
IsWhole(d) ==
  /\ d.half \in Nat /\ d.half > 0 /\ d.signed \in BOOLEAN /\ (d.signed => d.half > 1)
  /\ Size(d) <= Power[MantBits - 1] /\ Size(d) <= Power[MaxExp]

IsCastDtype(d) ==
  /\ d.kind \in {"float", "int", "bool", "complex", "reserved"}
  /\ d.kind = "float" => IsFormat(d) /\ FormatFits(d)
  /\ d.kind = "int" => IsWhole(d)

FieldsOf(f) == [neg : BOOLEAN, e : 0..AllOnes(f.exp), m : 0..AllOnes(f.man)]
Patterns(d) ==
  CASE d.kind = "float" -> FieldsOf(d)
    [] d.kind = "int" -> 0..(Size(d) - 1)
    [] d.kind = "bool" -> 0..2   \* any byte; 2 stands for the others

ASSUME BoundsAssumption == MantBits \in Nat /\ MantBits > 1 /\ MaxExp \in Nat /\ Scale \in Nat
                             /\ FarShift \in Nat

ASSUME RequestsAssumption ==
  \A q \in Requests :
    /\ IsCastDtype(q.src) /\ IsCastDtype(q.dst)
    /\ q.rounding \in Roundings /\ q.saturation \in Saturations
    /\ DtypeFault(q.src) = "none" => Inputs[q.src] \subseteq Seq(Patterns(q.src))

VARIABLES
  request,
  data,
  status,   \* called, running, returned, declined
  error,
  out       \* the patterns converted so far

vars == <<request, data, status, error, out>>

Source == request.src
Target == request.dst
Dir == request.rounding
Sat == request.saturation

Init ==
  /\ request \in Requests /\ data \in Inputs[Source]
  /\ status = "called" /\ error = "none" /\ out = <<>>

Fail(e) == status' = "declined" /\ error' = e /\ UNCHANGED <<request, data, out>>

Decline ==
  /\ status = "called" /\ CastFault(Source, Target, Dir, Sat) # "none"
  /\ Fail(CastFault(Source, Target, Dir, Sat))

Begin ==
  /\ status = "called" /\ CastFault(Source, Target, Dir, Sat) = "none"
  /\ status' = "running" /\ UNCHANGED <<request, data, error, out>>

\* The first element that cannot be converted ends the call.
Element ==
  /\ status = "running" /\ Len(out) < Len(data)
  /\ LET r == CastBits(data[Len(out) + 1], Source, Target, Dir, Sat)
     IN  IF r.ok THEN out' = Append(out, r.value) /\ UNCHANGED <<request, data, status, error>>
         ELSE Fail(r.error)

Return ==
  /\ status = "running" /\ Len(out) = Len(data)
  /\ status' = "returned" /\ UNCHANGED <<request, data, error, out>>

Next == Decline \/ Begin \/ Element \/ Return

Spec == Init /\ [][Next]_vars

-----------------------------------------------------------------------------
\* Values, scaled to integers, straight from the fields of a pattern.
Significand(p, f) == IF p.e = 0 THEN p.m ELSE p.m + Power[f.man]
Place(p, f) == (IF p.e = 0 THEN 1 ELSE p.e) - f.bias - f.man
MagnitudeOf(p, f) == Significand(p, f) * Power[Place(p, f) + Scale]

IsNan(p, f) ==
  \/ f.nan = "ieee" /\ p.e = AllOnes(f.exp) /\ p.m # 0
  \/ f.nan = "all_ones" /\ p.e = AllOnes(f.exp) /\ p.m = AllOnes(f.man)
IsInf(p, f) == f.hasInf /\ p.e = AllOnes(f.exp) /\ p.m = 0
IsFinite(p, d) == ~IsFloat(d) \/ (~IsNan(p, d) /\ ~IsInf(p, d))

ScaledValue(p, d) ==
  CASE d.kind = "float" -> IF p.neg THEN -MagnitudeOf(p, d) ELSE MagnitudeOf(p, d)
    [] d.kind = "int" -> Wrap(p, d) * Power[Scale]
    [] d.kind = "bool" -> IF p = 0 THEN 0 ELSE Power[Scale]

Largest(f) == MagnitudeOf(MaxFinite(f, FALSE), f)
Step(f) == Power[Place(MaxFinite(f, FALSE), f) + Scale]   \* the last place of the largest

Distance(a, b) == IF a < b THEN b - a ELSE a - b

Down(x) == Dir = "toward_zero" \/ (Dir = "toward_neg_inf" /\ x > 0)
                               \/ (Dir = "toward_pos_inf" /\ x < 0)
Magn(x) == Distance(x, 0)

\* The magnitudes a format has.
Lattice ==
  [f \in {r.dst : r \in {q \in Requests : IsFloat(q.dst)}} |->
     {MagnitudeOf(p, f) : p \in {q \in FieldsOf(f) : ~q.neg /\ IsFinite(q, f)}}]

\* A value beyond the largest: with an unbounded exponent it would round to the next.
Beyond(x, f) ==
  IF Down(x) THEN Magn(x) >= Largest(f) + Step(f)
  ELSE IF Dir = "nearest_even"
       THEN LET middle == 2 * Largest(f) + Step(f)
            IN  2 * Magn(x) > middle \/ (2 * Magn(x) = middle /\ MaxFiniteMan(f) % 2 = 1)
  ELSE Magn(x) > Largest(f)

\* Of the values of the format f, q is the one x rounds to.
RoundsTo(x, q, f) ==
  LET y == MagnitudeOf(q, f)
      a == Magn(x)
  IN  IF Dir = "nearest_even"
      THEN \A w \in Lattice[f] :
             /\ Distance(y, a) <= Distance(w, a)
             /\ w # y /\ Distance(y, a) = Distance(w, a) => q.m % 2 = 0
      ELSE IF Down(x) THEN y <= a /\ \A w \in Lattice[f] : w <= a => w <= y
      ELSE y >= a /\ \A w \in Lattice[f] : w >= a => w >= y

SameSign(x, neg) == x # 0 => neg = (x < 0)

FloatIsRight(p, q) ==
  LET x == ScaledValue(p, Source)
      overflown == IF Sat = "clamp" \/ Down(x) THEN MaxFinite(Target, x < 0)
                   ELSE Infinity(Target, x < 0)
  IN  IF Beyond(x, Target) THEN q = overflown
      ELSE IsFinite(q, Target) /\ SameSign(x, q.neg) /\ RoundsTo(x, q, Target)

\* The integer x, scaled, rounds to, and what is left of one outside the dtype.
Unit == Power[Scale]
IntegerOf(x) ==
  LET low == x \div Unit
      rest == x % Unit
      up == CASE Dir = "nearest_even" -> 2 * rest > Unit \/ (2 * rest = Unit /\ low % 2 = 1)
              [] Dir = "toward_zero" -> rest # 0 /\ x < 0
              [] Dir = "toward_neg_inf" -> FALSE
              [] Dir = "toward_pos_inf" -> rest # 0
  IN  IF up THEN low + 1 ELSE low

IntIsRight(p, q) ==
  LET n == IntegerOf(ScaledValue(p, Source))
      v == Wrap(q, Target)
  IN  IF InRange(n, Target) THEN v = n
      ELSE IF Sat = "clamp" THEN v = IF n < 0 THEN Lowest(Target) ELSE Highest(Target)
      ELSE ~IsFloat(Source) /\ (n - v) % Size(Target) = 0

-----------------------------------------------------------------------------
Converted == {i \in DOMAIN out : IsFinite(data[i], Source)}

\* Every finite value is rounded once, to the value of the destination its direction
\* selects; a value beyond the destination saturates, becomes infinite or wraps as the
\* attributes say.
CorrectlyRounded ==
  Source # Target =>
    \A i \in Converted :
      IF IsFloat(Target) THEN FloatIsRight(data[i], out[i])
      ELSE IntIsRight(data[i], out[i])

\* An element whose value the destination holds comes back unchanged, its sign of zero
\* included, whatever the direction of either conversion.
RoundTrips ==
  CastFault(Target, Source, Dir, Sat) = "none" =>
    \A i \in Converted :
      /\ IsFinite(out[i], Target)
      /\ ScaledValue(out[i], Target) = ScaledValue(data[i], Source)
      => LET back == CastBits(out[i], Target, Source, Dir, Sat)
             p == data[i]
         IN  /\ back.ok
             /\ ScaledValue(back.value, Source) = ScaledValue(p, Source)
             /\ IsFloat(Source) /\ IsFloat(Target) => back.value.neg = p.neg

\* A NaN stays a NaN, with its sign, and an infinity an infinity unless it saturates.
SpecialsAreKept ==
  \A i \in DOMAIN out :
    LET p == data[i]
        q == out[i]
    IN  /\ IsFloat(Source) /\ IsNan(p, Source) =>
             IsFloat(Target) /\ IsNan(q, Target) /\ q.neg = p.neg
        /\ IsFloat(Source) /\ IsInf(p, Source) /\ IsFloat(Target) /\ Source # Target =>
             q = IF Sat = "clamp" THEN MaxFinite(Target, p.neg) ELSE Infinity(Target, p.neg)

\* CastUnpinned is declined exactly for the values the destination cannot hold: a NaN
\* without a NaN, a NaN, an infinity or an unsaturated overflow without an integer.
Unpinned(p) ==
  LET nan == IsFloat(Source) /\ IsNan(p, Source)
      inf == IsFloat(Source) /\ IsInf(p, Source)
  IN  IF IsFloat(Target) THEN nan /\ Target.nan = "absent"
      ELSE \/ nan
           \/ /\ IsFloat(Source) /\ Sat = "none"
              /\ inf \/ ~InRange(IntegerOf(ScaledValue(p, Source)), Target)

UnpinnedIsDeclined ==
  Source # Target =>
    /\ error = "CastUnpinned" => Unpinned(data[Len(out) + 1])
    /\ \A i \in DOMAIN out : ~Unpinned(data[i])

\* What the destination holds survives the conversion: values come back, specials stay
\* special, and nothing is declined that could have been kept.
ValuesAreKept == RoundTrips /\ SpecialsAreKept /\ UnpinnedIsDeclined

\* f is an FP8 format and g a wider float of which a shift by more than FarShift leaves
\* nothing (f32); and g has the exponents of f, upwards too.
NarrowsTo(g, f) ==
  /\ IsFloat(f) /\ IsFloat(g) /\ f.pinned /\ f.nan # "absent"
  /\ g.nan = "ieee" /\ g.bias > f.bias /\ g.man > f.man /\ g.man < FarShift
WidensTo(f, g) ==
  NarrowsTo(g, f) /\ MaxFiniteExp(g) - g.bias >= MaxFiniteExp(f) - f.bias

\* The pattern q of the format g holds what decode gives.
Holds(q, g, v) ==
  CASE v.class = "nan" -> IsNan(q, g)
    [] v.class = "inf" -> IsInf(q, g) /\ q.neg = v.neg
    [] v.class = "fin" -> /\ IsFinite(q, g) /\ q.neg = v.neg
                          /\ MagnitudeOf(q, g) = v.mant * Power[v.exp + Scale]

\* The two conversions to and from FP8 (fp8.rs and cast.rs) agree on every finite value of
\* a wider float and on every pattern, an infinity that is clamped aside, and what is
\* widened narrows to the pattern it was.
Fp8AgreesWithCast ==
  /\ NarrowsTo(Source, Target) =>
       \A i \in Converted : FromFloat(data[i], Source, Target) = out[i]
  /\ WidensTo(Source, Target) =>
       \A i \in {j \in DOMAIN out : IsInf(data[j], Source) => Sat = "none"} :
         /\ Holds(out[i], Target, DecodeFp8(data[i], Source))
         /\ ~IsNan(data[i], Source) => FromFloat(out[i], Target, Source) = data[i]
=============================================================================
