-------------------------------- MODULE Ulp ---------------------------------
(***************************************************************************)
(* The comparators of the differential seam (diff.rs), over bit patterns.  *)
(*                                                                         *)
(* A format is a record: sign, the weight of the sign bit; top, the        *)
(* greatest magnitude that is not a NaN; quiet, the weight of the quiet    *)
(* bit; snan, whether the encoding has signaling NaNs; pi, the magnitude   *)
(* of pi.  The one macro of the narrow lanes and the code written out for  *)
(* f32 and f64 are the same function of the format.                        *)
(***************************************************************************)
EXTENDS Integers

Bits(f) == 0..(2 * f.sign - 1)
Magnitude(b, f) == b % f.sign          \* abs
IsNegative(b, f) == b >= f.sign        \* is_sign_negative
IsNan(b, f) == Magnitude(b, f) > f.top
IsQuiet(b, f) == (b \div f.quiet) % 2 = 1
IsZero(b, f) == Magnitude(b, f) = 0

\* The greatest value of the unsigned type a distance has.
Sentinel(f) == 2 * f.sign - 1

\* Mutant: the negatives keep the order of their bits.
KeyUnreversed(b, f) == IF IsNegative(b, f) THEN b - f.sign ELSE b + f.sign

\* key_f64 and its siblings: the negatives reversed below the positives.
Key(b, f) == IF IsNegative(b, f) THEN Sentinel(f) - b ELSE b + f.sign

AbsDiff(x, y) == IF x < y THEN y - x ELSE x - y

\* Mutant: only the reference is looked at.
UlpDistanceOneSided(a, b, f) ==
  IF IsNan(a, f) THEN IF IsNan(b, f) THEN 0 ELSE Sentinel(f)
  ELSE AbsDiff(Key(a, f), Key(b, f))

UlpDistance(a, b, f) ==
  IF IsNan(a, f) /\ IsNan(b, f) THEN 0
  ELSE IF IsNan(a, f) \/ IsNan(b, f) THEN Sentinel(f)
  ELSE AbsDiff(Key(a, f), Key(b, f))

-----------------------------------------------------------------------------
\* A tolerance: Tolerance::Exact, or Tolerance::Ulp(n).
Exact == [exact |-> TRUE, n |-> 0]
Within(n) == [exact |-> FALSE, n |-> n]
Tolerates(tol, d) == IF tol.exact THEN d = 0 ELSE d <= tol.n

\* Mutant: a quiet reference accepts no signaling answer, a signaling one accepts both.
ComputedNanConformsOneWay(e, g, f) ==
  IsNan(e, f) /\ IsNan(g, f) /\ (f.snan /\ IsQuiet(e, f) => IsQuiet(g, f))

ComputedNanConforms(e, g, f) ==
  IsNan(e, f) /\ IsNan(g, f) /\ (f.snan => IsQuiet(e, f) = IsQuiet(g, f))

\* Mutant: only the exact comparator looks at a NaN.
ConformsByTolerance(det, e, g, tol, f) ==
  IF tol.exact /\ (IsNan(e, f) \/ IsNan(g, f))
  THEN IF det THEN e = g ELSE ComputedNanConforms(e, g, f)
  ELSE Tolerates(tol, UlpDistance(e, g, f))

\* conforms_f64 and its copies: a NaN by its provenance, a number by the tolerance.
Conforms(det, e, g, tol, f) ==
  IF IsNan(e, f) \/ IsNan(g, f)
  THEN IF det THEN e = g ELSE ComputedNanConforms(e, g, f)
  ELSE Tolerates(tol, UlpDistance(e, g, f))

-----------------------------------------------------------------------------
\* The split comparator of the complex lanes: a component passes by its magnitude, and
\* by its sign where the reference is zero or, for an angle, at either end of the branch.
SplitComponent(e, g, n, signExact, f) ==
  /\ UlpDistance(Magnitude(e, f), Magnitude(g, f), f) <= n
  /\ signExact => IsNegative(e, f) = IsNegative(g, f)

IsPiEndpoint(b, f) == Magnitude(b, f) = f.pi

ReConforms(e, g, n, f) == SplitComponent(e, g, n, IsZero(e, f), f)

\* Mutant: the end of the branch is taken by its sign bit too.
ArgConformsAtPi(e, g, n, f) == SplitComponent(e, g, n, IsZero(e, f) \/ e = f.pi, f)

ArgConforms(e, g, n, f) == SplitComponent(e, g, n, IsZero(e, f) \/ IsPiEndpoint(e, f), f)

\* A pair is its real and its imaginary component.
ComplexConforms(e, g, n, f) == ReConforms(e[1], g[1], n, f) /\ ArgConforms(e[2], g[2], n, f)
=============================================================================
