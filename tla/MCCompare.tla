----------------------------- MODULE MCCompare ------------------------------
(***************************************************************************)
(* The differential seam, a comparison of two patterns or a run over a     *)
(* batch (`part`).  The patterns: every pair of f8e4m3fn itself, and of an *)
(* IEEE format of seven bits (four of exponent, two of mantissa) for f64,  *)
(* f32, f16, bf16 and f8e5m2, whose values TLC's integers hold.  The       *)
(* batches: f8e5m2 and f8e4m3fn at their edges, the two zeros and their    *)
(* neighbours, the largest, the infinities, quiet and signaling NaNs of    *)
(* two payloads and both signs; up to two rows, and three rows of a number *)
(* and two that fail it.                                                   *)
(***************************************************************************)
EXTENDS UlpSpec, DiffSpec

VARIABLE part   \* "pair" or "batch": what is compared

-----------------------------------------------------------------------------
\* With the magnitude of pi and how many mantissas there are.
Fp8 == [sign |-> 128, top |-> 126, quiet |-> 4, snan |-> FALSE, pi |-> 69, man |-> 8]
Ieee7 == [sign |-> 64, top |-> 60, quiet |-> 2, snan |-> TRUE, pi |-> 34, man |-> 4]
ComparedFormats == {Fp8, Ieee7}

PairRests == format = <<>> /\ expected = 0 /\ got = 0 /\ compared = FALSE

-----------------------------------------------------------------------------
E5m2 == [sign |-> 128, top |-> 124, quiet |-> 2, snan |-> TRUE]
E4m3 == [sign |-> 128, top |-> 126, quiet |-> 4, snan |-> FALSE]

Edges == [f \in {E5m2, E4m3} |->
  IF f = E5m2 THEN {0, 128, 1, 124, 125, 126, 255} ELSE {0, 128, 126, 127, 255}]

Good(f, b) == {[ok |-> TRUE, value |-> p] : p \in b}
Bad == {[ok |-> FALSE, error |-> e] : e \in {"Arity", "MissingInput"}}

UpTo2(S) == {<<>>} \cup {<<x>> : x \in S} \cup {<<x, y>> : x \in S, y \in S}
Three(S) == {<<x, y, z>> : x \in S, y \in S, z \in S}

AllBatches == [f \in {E5m2, E4m3} |->
  (UpTo2(Good(f, Edges[f]) \cup Bad) \X UpTo2(Edges[f]))
    \cup (Three(Good(f, {0, 1})) \X Three({0, 2, 127}))]

BatchFormats == {E5m2, E4m3}
BatchTolerances == {Exact, Within(1), Within(255)}

ASSUME RunsAssumption == RunsAreWellFormed

BatchRests ==
  /\ call = <<>> /\ status = "evaluating" /\ error = "none"
  /\ reference = <<>> /\ row = 0 /\ report = NoReport

-----------------------------------------------------------------------------
CompareInit ==
  \/ part = "pair" /\ PairInit /\ BatchRests
  \/ part = "batch" /\ Init /\ PairRests

CompareNext ==
  /\ UNCHANGED part
  /\ \/ part = "pair" /\ PairNext /\ UNCHANGED vars
     \/ part = "batch" /\ Next /\ UNCHANGED pairVars

CompareSpec == CompareInit /\ [][CompareNext]_<<part, vars, pairVars>>
=============================================================================
