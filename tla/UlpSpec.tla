------------------------------ MODULE UlpSpec -------------------------------
(***************************************************************************)
(* One comparison: a reference, then a candidate, of every pair of         *)
(* patterns of a format.                                                   *)
(***************************************************************************)
EXTENDS Ulp, FiniteSets

CONSTANTS
  PairFormats, \* formats that also say man, how many mantissas there are
  Ulps         \* the tolerances compared under

ASSUME FormatsAssumption ==
  \A f \in PairFormats :
    /\ f.sign \in Nat \ {0} /\ f.top \in 0..(f.sign - 2) /\ f.quiet \in Nat \ {0}
    /\ f.snan \in BOOLEAN /\ f.pi \in 0..f.top /\ f.man \in Nat \ {0}

ASSUME UlpsAssumption == Ulps \subseteq Nat

VARIABLES format, expected, got, compared
pairVars == <<format, expected, got, compared>>

PairInit ==
  /\ format \in PairFormats /\ expected \in Bits(format)
  /\ got = 0 /\ compared = FALSE

Compare ==
  /\ ~compared /\ compared' = TRUE
  /\ got' \in Bits(format) /\ UNCHANGED <<format, expected>>

PairNext == Compare

PairSpec == PairInit /\ [][PairNext]_pairVars

PairTolerances == {Exact} \cup {Within(n) : n \in Ulps \cup {Sentinel(format)}}

Verdict(det, e, g, tol) == Conforms(det, e, g, tol, format)

NumbersOf == [f \in PairFormats |-> {b \in Bits(f) : ~IsNan(b, f)}]
Numbers == NumbersOf[format]

\* The value of each number, from its fields, in units of the least subnormal; the two
\* zeros are apart, the negative one first.
Scales(f) ==
  LET scale[e \in 0..(f.sign \div f.man)] == IF e = 0 THEN 1 ELSE 2 * scale[e - 1]
  IN  scale
Significand(b, f) ==
  LET e == Magnitude(b, f) \div f.man
      m == Magnitude(b, f) % f.man
  IN  IF e = 0 THEN m ELSE (m + f.man) * Scales(f)[e - 1]
Values ==
  [f \in PairFormats |-> [b \in NumbersOf[f] |->
     IF IsNegative(b, f) THEN -1 - Significand(b, f) ELSE Significand(b, f)]]
Place(b) == Values[format][b]

-----------------------------------------------------------------------------
\* The distance of two numbers is how many numbers of the format lie past the smaller and
\* up to the greater: across zero the two zeros are one step apart, and next to an infinity
\* it is the step from the largest.  The sentinel of a NaN against a number is the distance
\* of no two numbers.
DistanceCountsNumbers ==
  /\ compared /\ expected \in Numbers /\ got \in Numbers =>
       UlpDistance(expected, got, format) =
         Cardinality({b \in Numbers :
           \/ Place(expected) < Place(b) /\ Place(b) <= Place(got)
           \/ Place(got) < Place(b) /\ Place(b) <= Place(expected)})
  /\ compared =>
       (UlpDistance(expected, got, format) = Sentinel(format)
          <=> ((expected \in Numbers) # (got \in Numbers)))

\* Which side is the reference does not matter, an answer that is the reference conforms,
\* and what conforms to a NaN that was moved conforms to one that was computed.
ProvenanceIsFair ==
  compared =>
    \A tol \in PairTolerances, det \in BOOLEAN :
      /\ Verdict(det, expected, got, tol) = Verdict(det, got, expected, tol)
      /\ expected = got => Verdict(det, expected, got, tol)
      /\ Verdict(TRUE, expected, got, tol) => Verdict(FALSE, expected, got, tol)

\* A tolerance never buys a NaN: a verdict on one is the verdict of the exact comparator
\* under every tolerance, while a wider tolerance accepts every number a narrower one does.
ToleranceIsForNumbers ==
  compared =>
    \A tol, wider \in PairTolerances, det \in BOOLEAN :
      IF {expected, got} \subseteq Numbers
      THEN tol.n <= wider.n /\ Verdict(det, expected, got, tol)
             => Verdict(det, expected, got, wider)
      ELSE Verdict(det, expected, got, tol) = Verdict(det, expected, got, Exact)

\* An angle at zero or at either end of the branch is accepted only on its own side and
\* within the ordinary distance, however great the tolerance.
BranchSideIsExact ==
  compared /\ (IsZero(expected, format) \/ Magnitude(expected, format) = format.pi) =>
    \A n \in Ulps :
      got \in Numbers /\ ArgConforms(expected, got, n, format) =>
        /\ IsNegative(expected, format) = IsNegative(got, format)
        /\ UlpDistance(expected, got, format) <= n

\* A verdict does not depend on which side is called the reference, never takes a tolerance
\* for a NaN, and on the branch cut of an angle never crosses it.
VerdictIsFair == ProvenanceIsFair /\ ToleranceIsForNumbers /\ BranchSideIsExact

-----------------------------------------------------------------------------
\* What diff.rs says of the split comparator: it must add a check of the sign only where a
\* comparator of magnitudes is blind, at a zero and at the ends of the branch; so elsewhere
\* what conforms is within the tolerance of the reference.  The code compares magnitudes
\* everywhere: 1 conforms to -1.
SplitIsBlindNowhereElse ==
  compared /\ {expected, got} \subseteq Numbers =>
    \A n \in Ulps :
      ComplexConforms(<<expected, expected>>, <<got, got>>, n, format) =>
        UlpDistance(expected, got, format) <= n
=============================================================================
