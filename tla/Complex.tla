------------------------------ MODULE Complex -------------------------------
(***************************************************************************)
(* The complex operations (complex.rs) and their special values, over one  *)
(* lane format.  Sums, products, quotients, roots and moduli are rounded   *)
(* exactly; exp, log, sin, cos and atan2 are external, and known by a      *)
(* record of values at the one argument a call has.                        *)
(***************************************************************************)
EXTENDS NarrowFloat, Sequences

CONSTANTS
  Lane,        \* the format of both lanes
  Externals,   \* records cos, sin, above, below, log, angle: patterns
  Pi           \* the angle of the negative axis

Add(x, y) == WideArith("add", x, y, Lane)
Sub(x, y) == WideArith("sub", x, y, Lane)
Mul(x, y) == WideArith("mul", x, y, Lane)
Div(x, y) == WideArith("div", x, y, Lane)
Neg(x) == [x EXCEPT !.neg = ~x.neg]
CopySign(x, s) == [x EXCEPT !.neg = s.neg]

Unit == One(Lane)
Two == [Unit EXCEPT !.e = Lane.bias + 1]
PosInf == Infinity(Lane, FALSE)
NanLane == Rne(Nan(FALSE, 1, 1), Lane)

IsNanLane(x) == DecodeFloat(x, Lane).class = "nan"
IsInf(x) == DecodeFloat(x, Lane).class = "inf"
IsFin(x) == IsFiniteIn(x, Lane)
IsPosInf(x) == IsInf(x) /\ ~x.neg

Cplx(re, im) == [re |-> re, im |-> im]

-----------------------------------------------------------------------------
\* External: the root of an exact value, to a few bits beyond the lane's, and the modulus.
Root(v) ==
  LET odd == v.exp % 2
      n == v.mant * 2^odd * 2^12
      root[i \in 0..15] ==   \* its bits from 15 - i up
        IF i = 0 THEN 0
        ELSE LET r == root[i - 1] + 2^(15 - i) IN IF r * r <= n THEN r ELSE root[i - 1]
      r == root[15]
  IN  Fin(FALSE, 2 * r + (IF r * r = n THEN 0 ELSE 1), ((v.exp - odd) \div 2) - 7)

SqrtOfValue(v) ==
  IF v.class = "fin" /\ ~v.neg THEN Rne(Root(v), Lane)
  ELSE IF v.class = "inf" /\ ~v.neg THEN PosInf
  ELSE IF v.class = "fin" /\ v.mant = 0 THEN Zero(TRUE) ELSE NanLane
Sqrt(x) == SqrtOfValue(DecodeFloat(x, Lane))

Hypot(x, y) ==
  IF IsInf(x) \/ IsInf(y) THEN PosInf
  ELSE IF IsNanLane(x) \/ IsNanLane(y) THEN NanLane
  ELSE LET v == DecodeFloat(x, Lane)
           w == DecodeFloat(y, Lane)
       IN  SqrtOfValue(ExactSum(ExactProduct(v, v), ExactProduct(w, w)))

\* External: the functions of which only a few values are fixed.
Cos(x, ext) == IF IsZero(x) THEN Unit ELSE ext.cos
Sin(x, ext) == IF IsZero(x) THEN x ELSE IF x.neg THEN Neg(ext.sin) ELSE ext.sin
Exp(x, ext) == IF IsZero(x) THEN Unit ELSE IF x.neg THEN ext.below ELSE ext.above
Log(x, ext) ==
  IF IsNanLane(x) \/ IsPosInf(x) THEN x
  ELSE IF IsZero(x) THEN Neg(PosInf)
  ELSE IF x = Unit THEN Zero(FALSE) ELSE [ext.log EXCEPT !.neg = x.e < Unit.e]
Atan2(y, x, ext) ==
  IF IsNanLane(y) \/ IsNanLane(x) THEN NanLane
  ELSE IF IsZero(y) THEN IF x.neg THEN CopySign(Pi, y) ELSE y
  ELSE IF IsPosInf(x) /\ IsFin(y) THEN CopySign(Zero(FALSE), y) ELSE CopySign(ext.angle, y)

-----------------------------------------------------------------------------
CAdd(z, w) == Cplx(Add(z.re, w.re), Add(z.im, w.im))
CSub(z, w) == Cplx(Sub(z.re, w.re), Sub(z.im, w.im))
CNeg(z) == Cplx(Neg(z.re), Neg(z.im))
CConj(z) == Cplx(z.re, Neg(z.im))

BoxInf(x) == CopySign(IF IsInf(x) THEN Unit ELSE Zero(FALSE), x)
BoxNanToZero(x) == IF IsNanLane(x) THEN CopySign(Zero(FALSE), x) ELSE x
HasInf(z) == IsInf(z.re) \/ IsInf(z.im)
IsFinite(z) == IsFin(z.re) /\ IsFin(z.im)
BothNan(z) == IsNanLane(z.re) /\ IsNanLane(z.im)
Boxed(z) == Cplx(BoxInf(z.re), BoxInf(z.im))
NansToZero(z) == Cplx(BoxNanToZero(z.re), BoxNanToZero(z.im))

Product(z, w) == Cplx(Sub(Mul(z.re, w.re), Mul(z.im, w.im)), Add(Mul(z.re, w.im), Mul(z.im, w.re)))
Scaled(x, z) == Cplx(Mul(x, z.re), Mul(x, z.im))

\* Mutant: only the first operand is recovered.
CMulOneSided(z, w) ==
  LET p == Product(z, w)
  IN  IF ~BothNan(p) \/ ~HasInf(z) THEN p
      ELSE Scaled(PosInf, Product(Boxed(z), NansToZero(w)))

\* cmul: the first operand is boxed, then the second, and each time the NaNs of the other
\* become zeros.
CMul(z, w) ==
  LET p == Product(z, w)
      z1 == IF HasInf(z) THEN Boxed(z) ELSE z
      w1 == IF HasInf(z) THEN NansToZero(w) ELSE w
      z2 == IF HasInf(w1) THEN NansToZero(z1) ELSE z1
      w2 == IF HasInf(w1) THEN Boxed(w1) ELSE w1
  IN  IF ~BothNan(p) \/ ~(HasInf(z) \/ HasInf(w1)) THEN p
      ELSE Scaled(PosInf, Product(z2, w2))

\* The two lanes of z by the conjugate of w.
Crossed(z, w) ==
  Cplx(Add(Mul(z.re, w.re), Mul(z.im, w.im)), Sub(Mul(z.im, w.re), Mul(z.re, w.im)))

\* Mutant: an infinite numerator must have two infinite lanes.
RecoveredBothLanes(z, w, t, q) ==
  CASE ~BothNan(q) -> q
    [] BothNan(q) /\ IsZero(t) /\ ~BothNan(z) -> Scaled(CopySign(PosInf, w.re), z)
    [] BothNan(q) /\ ~IsZero(t) /\ IsInf(z.re) /\ IsInf(z.im) /\ IsFinite(w) ->
         Scaled(PosInf, Crossed(Boxed(z), w))
    [] BothNan(q) /\ ~IsZero(t) /\ HasInf(w) /\ IsFinite(z) ->
         Scaled(Zero(FALSE), Crossed(z, Boxed(w)))
    [] OTHER -> q

\* A quotient q of two NaNs, of z by w of the squared modulus t, is recovered in three cases.
Recovered(z, w, t, q) ==
  CASE ~BothNan(q) -> q
    [] BothNan(q) /\ IsZero(t) /\ ~BothNan(z) -> Scaled(CopySign(PosInf, w.re), z)
    [] BothNan(q) /\ ~IsZero(t) /\ HasInf(z) /\ IsFinite(w) ->
         Scaled(PosInf, Crossed(Boxed(z), w))
    [] BothNan(q) /\ ~IsZero(t) /\ HasInf(w) /\ IsFinite(z) ->
         Scaled(Zero(FALSE), Crossed(z, Boxed(w)))
    [] OTHER -> q

\* cdiv: no division by a zero.
Over(x, t) == IF IsZero(t) THEN Cplx(NanLane, NanLane) ELSE Cplx(Div(x.re, t), Div(x.im, t))

CDiv(z, w) ==
  LET t == Add(Mul(w.re, w.re), Mul(w.im, w.im))
  IN  Recovered(z, w, t, Over(Crossed(z, w), t))

-----------------------------------------------------------------------------
CAbs(z) == Hypot(z.re, z.im)
CArg(z, ext) == Atan2(z.im, z.re, ext)
CLog(z, ext) == Cplx(Log(CAbs(z), ext), CArg(z, ext))

Rotated(r, y, ext) == Cplx(Mul(r, Cos(y, ext)), Mul(r, Sin(y, ext)))

\* Mutant: the zero of a real argument is always positive.
CExpPositiveZero(z, ext) ==
  LET a == z.re
      b == z.im
  IN  CASE IsNanLane(a) -> Cplx(NanLane, IF IsZero(b) THEN Zero(FALSE) ELSE NanLane)
        [] IsFin(a) -> IF IsFin(b) THEN Rotated(Exp(a, ext), b, ext) ELSE Cplx(NanLane, NanLane)
        [] IsInf(a) /\ ~a.neg ->
             IF ~IsFin(b) THEN Cplx(PosInf, NanLane)
             ELSE IF IsZero(b) THEN Cplx(PosInf, Zero(FALSE)) ELSE Rotated(PosInf, b, ext)
        [] IsInf(a) /\ a.neg ->
             IF IsFin(b) THEN Rotated(Zero(FALSE), b, ext) ELSE Cplx(Zero(FALSE), Zero(FALSE))

CExp(z, ext) ==
  LET a == z.re
      b == z.im
  IN  CASE IsNanLane(a) -> Cplx(NanLane, IF IsZero(b) THEN b ELSE NanLane)
        [] IsFin(a) -> IF IsFin(b) THEN Rotated(Exp(a, ext), b, ext) ELSE Cplx(NanLane, NanLane)
        [] IsInf(a) /\ ~a.neg ->
             IF ~IsFin(b) THEN Cplx(PosInf, NanLane)
             ELSE IF IsZero(b) THEN Cplx(PosInf, b) ELSE Rotated(PosInf, b, ext)
        [] IsInf(a) /\ a.neg ->
             IF IsFin(b) THEN Rotated(Zero(FALSE), b, ext) ELSE Cplx(Zero(FALSE), Zero(FALSE))

\* Mutant: the imaginary lane of a finite root has no sign.
FiniteRootUnsigned(z) ==
  LET m == CAbs(z)
  IN  Cplx(Sqrt(Div(Add(m, z.re), Two)), Mul(Unit, Sqrt(Div(Sub(m, z.re), Two))))

FiniteRoot(z) ==
  LET m == CAbs(z)
  IN  Cplx(Sqrt(Div(Add(m, z.re), Two)),
           Mul(CopySign(Unit, z.im), Sqrt(Div(Sub(m, z.re), Two))))

CSqrt(z) ==
  LET a == z.re
      b == z.im
  IN  IF IsInf(b) THEN Cplx(PosInf, CopySign(PosInf, b))
      ELSE IF IsNanLane(a) THEN Cplx(NanLane, NanLane)
      ELSE IF IsNanLane(b)
      THEN IF IsPosInf(a) THEN Cplx(PosInf, NanLane) ELSE Cplx(NanLane, CopySign(PosInf, b))
      ELSE IF IsInf(a)
      THEN IF a.neg THEN Cplx(Zero(FALSE), CopySign(PosInf, b))
           ELSE Cplx(PosInf, CopySign(Zero(FALSE), b))
      ELSE FiniteRoot(z)

IsOrigin(z) == IsZero(z.re) /\ IsZero(z.im)

CPow(z, w, ext) ==
  IF IsOrigin(w) THEN Cplx(Unit, Zero(FALSE))
  ELSE IF IsOrigin(z)
  THEN IF IsNanLane(w.re) \/ IsZero(w.re) THEN Cplx(NanLane, NanLane)
       ELSE IF w.re.neg THEN Cplx(PosInf, PosInf) ELSE Cplx(Zero(FALSE), Zero(FALSE))
  ELSE CExp(CMul(w, CLog(z, ext)), ext)

-----------------------------------------------------------------------------
Unaries == {"cneg", "cconj", "cexp", "clog", "csqrt", "cabs", "carg"}
Binaries == {"cadd", "csub", "cmul", "cdiv", "cpow"}
Transcendentals == {"cexp", "clog", "carg", "cpow"}

\* A real result has no imaginary lane.
Real(x) == [re |-> x]

Apply(op, z, w, ext) ==
  CASE op = "cneg" -> CNeg(z)
    [] op = "cconj" -> CConj(z)
    [] op = "cexp" -> CExp(z, ext)
    [] op = "clog" -> CLog(z, ext)
    [] op = "csqrt" -> CSqrt(z)
    [] op = "cabs" -> Real(CAbs(z))
    [] op = "carg" -> Real(CArg(z, ext))
    [] op = "cadd" -> CAdd(z, w)
    [] op = "csub" -> CSub(z, w)
    [] op = "cmul" -> CMul(z, w)
    [] op = "cdiv" -> CDiv(z, w)
    [] op = "cpow" -> CPow(z, w, ext)

ArityOf(op) == IF op \in Unaries THEN 1 ELSE 2

\* eval_complex_op, of any operation and any number of operands.
EvalComplexOp(op, args, ext) ==
  IF op \notin Unaries \cup Binaries THEN Error("Unsupported")
  ELSE IF Len(args) # ArityOf(op) THEN Error("Arity")
  ELSE Value(Apply(op, args[1], args[Len(args)], ext))

-----------------------------------------------------------------------------
(***************************************************************************)
(* One call of eval_complex_op, against what Annex G of the C standard     *)
(* and the symmetry of the plane say of it.                                *)
(***************************************************************************)
CONSTANTS
  Lefts, Rights,   \* the operands
  OtherOps         \* operations that are not complex

\* A lane with infinities (f64 or f32); what an operation gives before it is rounded has
\* fewer digits than are counted.
ASSUME LaneAssumption ==
  /\ IsLane(Lane) /\ Lane.nan = "ieee"
  /\ MantBits \in Nat /\ Lane.man + AllOnes(Lane.exp) < MantBits /\ 2 * Lane.man + 2 < MantBits
  /\ QuotientBits \in Nat

ComplexSet == [re : Patterns(Lane), im : Patterns(Lane)]
ExternalSet ==
  LET P == Patterns(Lane) IN [cos : P, sin : P, above : P, below : P, log : P, angle : P]

\* Operands, and what the functions outside return, are any patterns of the lane.
ASSUME OperandsAssumption ==
  Lefts \cup Rights \subseteq ComplexSet /\ Externals \subseteq ExternalSet /\ Pi \in Patterns(Lane)

VARIABLES op, args, ext, result
complexVars == <<op, args, ext, result>>

NoResult == <<>>

ComplexInit ==
  /\ op = "called" /\ result = NoResult /\ ext = CHOOSE e \in Externals : TRUE
  /\ \E z \in Lefts : args = <<z>>

\* The other operand and the operation are chosen with the result.
Evaluate ==
  /\ op = "called"
  /\ \/ op' \in Unaries \cup Binaries \cup OtherOps /\ args' = args
     \/ op' \in Unaries /\ args' = <<args[1], args[1]>>
     \/ op' \in Binaries /\ \E y \in Rights : args' = <<args[1], y>>
  /\ ext' \in IF op' \in Transcendentals THEN Externals ELSE {ext}
  /\ result' = EvalComplexOp(op', args', ext')

ComplexNext == Evaluate

ComplexSpec == ComplexInit /\ [][ComplexNext]_complexVars

-----------------------------------------------------------------------------
Done == result # NoResult /\ result.ok
first == args[1]
second == args[2]
answer == result.value

\* Annex G's kinds: an infinity has an infinite lane, whatever the other is.
IsInfinity(x) == HasInf(x)
IsNonzeroFinite(x) == IsFinite(x) /\ ~IsOrigin(x)

Magnitude(x) == [x EXCEPT !.neg = FALSE]

SameLane(x, y) == x = y \/ (IsNanLane(x) /\ IsNanLane(y))
AlikeLane(x, y) == SameLane(x, y) \/ (IsZero(x) /\ IsZero(y))
Same(p, q) == \A l \in DOMAIN p : SameLane(p[l], q[l])
Alike(p, q) == \A l \in DOMAIN p : AlikeLane(p[l], q[l])

Conjugates == [i \in DOMAIN args |-> CConj(args[i])]
\* The conjugate of a result: an angle is negated, a modulus is not.
ConjOf(r) ==
  IF op = "cabs" THEN r ELSE IF op = "carg" THEN Real(Neg(r.re)) ELSE CConj(r)

\* The rows whose signs the code leaves unspecified, or pins to one quadrant.
SignsAreFree ==
  \/ op = "cexp" /\ IsInf(first.re) /\ first.re.neg /\ ~IsFin(first.im)
  \/ op = "cpow"
\* The sign of a zero sum is that of no conjugate.
SumsMayCancel == op \in {"cadd", "csub", "cmul", "cdiv"}
AgreeLanes(p, q) == IF SumsMayCancel THEN Alike(p, q) ELSE Same(p, q)

-----------------------------------------------------------------------------
\* Annex G, products: an infinity by an infinity or by a nonzero finite value is an
\* infinity, whatever NaNs stand in the other lanes; and the operands may be exchanged.
ProductIsAnnexG ==
  Done /\ op = "cmul" =>
    /\ IsInfinity(first) /\ (IsInfinity(second) \/ IsNonzeroFinite(second)) => IsInfinity(answer)
    /\ IsInfinity(second) /\ IsNonzeroFinite(first) => IsInfinity(answer)
    /\ Same(answer, CMul(second, first))

\* Annex G, quotients: an infinity by a finite value, and a nonzero finite value by zero,
\* is an infinity; a finite value by an infinity is zero, when its lanes can be added.
QuotientIsAnnexG ==
  Done /\ op = "cdiv" =>
    /\ IsInfinity(first) /\ IsFinite(second) => IsInfinity(answer)
    /\ IsNonzeroFinite(first) /\ IsOrigin(second) => IsInfinity(answer)
    /\ IsFinite(first) /\ IsInfinity(second)
         /\ IsFin(Add(Magnitude(first.re), Magnitude(first.im))) => IsOrigin(answer)

\* cmul and cdiv give the infinities and zeros of Annex G in every case of the recovery.
InfinitiesAreRecovered == ProductIsAnnexG /\ QuotientIsAnnexG

\* The root is the principal one, through rounding and in every special row: its real part
\* is never negative, nor NaN without one in the operand, and its imaginary part has the
\* sign of the operand's.
RootIsPrincipal ==
  Done /\ op = "csqrt" /\ ~IsNanLane(first.im) /\ (IsNanLane(first.re) => IsInf(first.im)) =>
    /\ ~IsNanLane(answer.re) /\ ~answer.re.neg
    /\ ~IsNanLane(answer.im) /\ answer.im.neg = first.im.neg

\* Conjugate operands give the conjugate result in every row, zeros with their signs but
\* for sums that cancel.
ConjugatesAgree ==
  Done /\ ~SignsAreFree =>
    AgreeLanes(EvalComplexOp(op, Conjugates, ext).value, ConjOf(answer))

\* What complex.rs says of the third recovery: a finite numerator over an infinite denominator
\* is zero.  The lanes of the numerator are added before they meet the zero, and overflow.
FiniteOverInfiniteIsZero ==
  Done /\ op = "cdiv" /\ IsFinite(first) /\ IsInfinity(second) => IsOrigin(answer)
=============================================================================
