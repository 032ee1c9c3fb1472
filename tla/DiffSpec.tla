------------------------------ MODULE DiffSpec ------------------------------
(***************************************************************************)
(* A differential run (diff.rs, diff_ and diff_expr_): the reference of    *)
(* every row, then the comparison of the candidate, row by row.  The       *)
(* evaluator of a row is the resolver; here a row is its outcome, a        *)
(* pattern or an error.                                                    *)
(***************************************************************************)
EXTENDS Ulp, Sequences, FiniteSetsExt

CONSTANTS
  Formats,
  Tolerances,
  Batches    \* for each format, pairs: the outcomes of the rows, the candidate

\* A row is a value of the format or an error, a candidate a slice of such values.
RowsOf(f) == [ok : {TRUE}, value : Bits(f)] \cup [ok : {FALSE}, error : STRING]
RunsAreWellFormed ==
  /\ \A f \in Formats : f.sign \in Nat \ {0} /\ f.top \in Nat
  /\ \A t \in Tolerances : t.n \in Nat
  /\ \A f \in Formats : \A b \in Batches[f] :
       b[1] \in Seq(RowsOf(f)) /\ b[2] \in Seq(Bits(f))

VARIABLES
  call,        \* format, det, tol, rows, candidate
  status,      \* evaluating, comparing, returned, declined
  error,
  reference,   \* the outputs evaluated so far
  row,         \* the rows compared so far
  report       \* n, mismatches, max_ulp, first_mismatch: none or one row

vars == <<call, status, error, reference, row, report>>

NoReport == [n |-> 0, mismatches |-> 0, max_ulp |-> 0, first_mismatch |-> <<>>]

Init ==
  /\ \E f \in Formats, det \in BOOLEAN, t \in Tolerances :
       \E b \in Batches[f] :
         call = [format |-> f, det |-> det, tol |-> t, rows |-> b[1], candidate |-> b[2]]
  /\ status = "evaluating" /\ error = "none"
  /\ reference = <<>> /\ row = 0 /\ report = NoReport

Evaluated == Len(reference) = Len(call.rows)

Evaluate ==
  /\ status = "evaluating" /\ ~Evaluated
  /\ LET r == call.rows[Len(reference) + 1]
     IN  IF r.ok
         THEN reference' = Append(reference, r.value) /\ UNCHANGED <<status, error>>
         ELSE status' = "declined" /\ error' = r.error /\ UNCHANGED reference
  /\ UNCHANGED <<call, row, report>>

\* Mutant: the length is looked at before the rows.
DeclineLengthFirst ==
  /\ status = "evaluating" /\ reference = <<>> /\ Len(call.candidate) # Len(call.rows)
  /\ status' = "declined" /\ error' = "LengthMismatch"
  /\ UNCHANGED <<call, reference, row, report>>

DeclineLength ==
  /\ status = "evaluating" /\ Evaluated /\ Len(call.candidate) # Len(reference)
  /\ status' = "declined" /\ error' = "LengthMismatch"
  /\ UNCHANGED <<call, reference, row, report>>

Start ==
  /\ status = "evaluating" /\ Evaluated /\ Len(call.candidate) = Len(reference)
  /\ status' = "comparing" /\ report' = [NoReport EXCEPT !.n = Len(reference)]
  /\ UNCHANGED <<call, error, reference, row>>

Distance(i) == UlpDistance(reference[i], call.candidate[i], call.format)
Accepted(i) == Conforms(call.det, reference[i], call.candidate[i], call.tol, call.format)

\* What first_mismatch keeps of a value, an f64: a number is widened exactly; of a NaN only
\* that it is one, as a conversion may change its other bits.
NotANumber == -1
Shown(b) == IF IsNan(b, call.format) THEN NotANumber ELSE b

\* Mutant: the last mismatch is kept, not the first.
ReportedLast(old, i) ==
  LET d == Distance(i)
      worst == IF d > old.max_ulp THEN d ELSE old.max_ulp
  IN  IF Accepted(i) THEN [old EXCEPT !.max_ulp = worst]
      ELSE [old EXCEPT !.max_ulp = worst, !.mismatches = old.mismatches + 1,
                       !.first_mismatch = <<i, Shown(reference[i]), Shown(call.candidate[i])>>]

\* The report with row i in it.
Reported(old, i) ==
  LET d == Distance(i)
      worst == IF d > old.max_ulp THEN d ELSE old.max_ulp
      first == IF old.first_mismatch = <<>>
               THEN <<i, Shown(reference[i]), Shown(call.candidate[i])>>
               ELSE old.first_mismatch
  IN  IF Accepted(i) THEN [old EXCEPT !.max_ulp = worst]
      ELSE [old EXCEPT !.max_ulp = worst, !.mismatches = old.mismatches + 1,
                       !.first_mismatch = first]

CompareRow ==
  /\ status = "comparing" /\ row < report.n
  /\ row' = row + 1 /\ report' = Reported(report, row + 1)
  /\ UNCHANGED <<call, status, error, reference>>

Return ==
  /\ status = "comparing" /\ row = report.n
  /\ status' = "returned"
  /\ UNCHANGED <<call, error, reference, row, report>>

Next == Evaluate \/ DeclineLength \/ Start \/ CompareRow \/ Return

Spec == Init /\ [][Next]_vars

-----------------------------------------------------------------------------
Wrong == {i \in 1..row : ~Accepted(i)}

\* The report says of the rows compared how many fail, the worst distance of any row, failed
\* or not, and the failed row of the least index with both its values.
ReportIsOfTheRows ==
  /\ report.mismatches = Cardinality(Wrong)
  /\ \A i \in 1..row : Distance(i) <= report.max_ulp
  /\ report.max_ulp = 0 \/ \E i \in 1..row : Distance(i) = report.max_ulp
  /\ Wrong = {} <=> report.first_mismatch = <<>>
  /\ Wrong # {} => LET i == report.first_mismatch[1]
                   IN  /\ i \in Wrong /\ \A j \in Wrong : i <= j
                       /\ report.first_mismatch =
                            <<i, Shown(call.rows[i].value), Shown(call.candidate[i])>>

\* A report without a mismatch bounds every distance by the tolerance, and its rows hold a
\* NaN exactly where the candidate does, even under a tolerance no smaller than the
\* sentinel.
CleanReportIsTrue ==
  status = "returned" /\ report.mismatches = 0 =>
    /\ report.max_ulp <= call.tol.n
    /\ \A i \in 1..report.n :
         IsNan(reference[i], call.format) = IsNan(call.candidate[i], call.format)

\* A run is declined for its first row without a value, whatever the candidate's length;
\* for the length only when every row has one; and no row of a declined run is compared.
FirstFaultWins ==
  LET bad == {i \in DOMAIN call.rows : ~call.rows[i].ok}
  IN  /\ status = "declined" =>
           /\ row = 0
           /\ IF bad = {} THEN error = "LengthMismatch" /\ Len(call.rows) # Len(call.candidate)
              ELSE error = call.rows[Min(bad)].error
      /\ status = "returned" => bad = {} /\ row = Len(call.candidate) /\ row = Len(call.rows)

\* What a run reports is what its rows say, and what it declines is its first fault.
ReportIsTrue == ReportIsOfTheRows /\ CleanReportIsTrue /\ FirstFaultWins
=============================================================================
