----------------------------- MODULE NarrowSpec -----------------------------
(***************************************************************************)
(* One conversion of an f64, or one operation of a narrow type, against    *)
(* the exact value rounded once.                                           *)
(***************************************************************************)
EXTENDS NarrowFloat

CONSTANTS
  Narrows,      \* the narrow formats
  Operations,   \* those tried on every pair of patterns
  Conversions   \* whether the f64 patterns are converted

VARIABLES format, op, x, y, result
vars == <<format, op, x, y, result>>

Unknown == Zero(FALSE)

Init ==
  /\ format \in Narrows /\ result = Unknown /\ y = Unknown
  /\ \/ op = "called" /\ x \in Patterns(format) /\ Operations # {}
     \/ op = "given" /\ x \in [neg : BOOLEAN, e : 0..AllOnes(F64.exp), m : {0}] /\ Conversions

\* The operands are chosen first, the result in the same step.
Operate ==
  /\ op = "called"
  /\ op' \in Operations /\ y' \in Patterns(format)
  /\ result' = Arith(op', x, y', format)
  /\ UNCHANGED <<format, x>>

NarrowF64 ==
  /\ op = "given" /\ op' = "narrow"
  /\ \E m \in 0..AllOnes(F64.man) : x' = [x EXCEPT !.m = m]
  /\ result' = FromF64SingleRound(x', format)
  /\ UNCHANGED <<format, y>>

Next == Operate \/ NarrowF64

Spec == Init /\ [][Next]_vars

\* A NaN is compared as one: which it is, is the codec's.
SameAs(p, q) ==
  \/ p = q
  \/ DecodeFloat(p, format).class = "nan" /\ DecodeFloat(q, format).class = "nan"

Exactly == ExactResult(op, DecodeFloat(x, format), DecodeFloat(y, format))

-----------------------------------------------------------------------------
\* The way through f32, rounded to odd, loses nothing: the result is the f64 rounded once,
\* to even, at ties, among subnormals and at overflow, saturated in FP8.
NarrowsInOneRounding == op = "narrow" => SameAs(result, Direct(DecodeFloat(x, F64), format))

\* A sum, difference, product and quotient of two narrow values, rounded to f32 and again,
\* are the exact one rounded once.
ArithRoundsOnce == op \in Operations => SameAs(result, Direct(Exactly, format))
=============================================================================
