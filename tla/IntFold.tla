------------------------------ MODULE IntFold -------------------------------
(***************************************************************************)
(* The accumulating loops of the integer tensor lane (tensor_int.rs):      *)
(* reduce, matmul and scatter, seen from the cells they accumulate into.   *)
(* A reduce starts each output cell at the monoid's identity, a matmul at  *)
(* zero, a scatter at the caller's dest value; every term then updates one *)
(* cell, and every update is wrapped to the dtype.                         *)
(*                                                                         *)
(* The code takes the terms in row-major order.  Here any order is taken:  *)
(* the lane is classed ExactByte, which promises that the order a backend  *)
(* accumulates in cannot be told from the result.                          *)
(***************************************************************************)
EXTENDS IntDtype

CONSTANTS
  Cells,       \* the output cells
  TermCount,   \* how many terms there are to accumulate
  Jobs         \* the calls

ASSUME TermCountAssumption == TermCount \in Nat

\* The terms are numbered in row-major order.
Terms == 1..TermCount

VARIABLES
  job,      \* the call
  acc,      \* per cell: the accumulator
  exact,    \* per cell: what unbounded integers would have accumulated
  touched,  \* the cells some term was accumulated into
  pending   \* the terms not accumulated yet

vars == <<job, acc, exact, touched, pending>>

\* A call: the dest values of a scatter, and for every term its cell and its
\* factors (only a matmul has a right one).  The elements are any i128.
Job == [kernel : {"reduce", "matmul", "scatter"},
        monoid : {"sum", "prod", "max", "min"},
        dtype  : Dtypes,
        dest   : [Cells -> I128],
        cell   : [Terms -> Cells],
        left   : [Terms -> I128],
        right  : [Terms -> I128]]

\* A matmul sums; there is no Combine::AtomicMul.
LegalJob(j) ==
  /\ j.kernel = "matmul" => j.monoid = "sum"
  /\ j.kernel = "scatter" => j.monoid # "prod"

ASSUME JobsAssumption == \A j \in Jobs : j \in Job /\ LegalJob(j)

\* Mutant: every fold starts at zero.
StartZero(j, c) == IF j.kernel = "scatter" THEN j.dest[c] ELSE 0

\* The accumulator a cell starts from.
Start(j, c) ==
  CASE j.kernel = "reduce"  -> Identity(j.monoid, j.dtype)
    [] j.kernel = "matmul"  -> 0
    [] j.kernel = "scatter" -> j.dest[c]

\* What a term brings: an element, or the wrapped product of two.
Contribution(j, t) ==
  IF j.kernel = "matmul" THEN IntMul(j.left[t], j.right[t], j.dtype)
  ELSE j.left[t]

ExactContribution(j, t) ==
  IF j.kernel = "matmul" THEN j.left[t] * j.right[t] ELSE j.left[t]

ExactCombine(monoid, a, x) ==
  CASE monoid = "sum"  -> a + x
    [] monoid = "prod" -> a * x
    [] monoid = "max"  -> IntMax(a, x)
    [] monoid = "min"  -> IntMin(a, x)

Init ==
  /\ job \in Jobs
  /\ acc = [c \in Cells |-> Start(job, c)]
  /\ exact = [c \in Cells |-> Start(job, c)]
  /\ touched = {}
  /\ pending = Terms

Accumulate(t) ==
  LET c == job.cell[t]
  IN  /\ t \in pending
      /\ acc' = [acc EXCEPT ![c] =
                   Combine(job.monoid, acc[c], Contribution(job, t), job.dtype)]
      /\ exact' = [exact EXCEPT ![c] =
                   ExactCombine(job.monoid, exact[c], ExactContribution(job, t))]
      /\ touched' = touched \cup {c}
      /\ pending' = pending \ {t}
      /\ UNCHANGED job

Next == \E t \in Terms : Accumulate(t)

Spec == Init /\ [][Next]_vars

-----------------------------------------------------------------------------
\* Every variable has its type; in particular no accumulator overflows the lane.
TypeOK ==
  /\ job \in Jobs
  /\ acc \in [Cells -> I128]
  /\ exact \in [Cells -> Int]
  /\ touched \subseteq Cells
  /\ pending \subseteq Terms

Ring == job.monoid \in {"sum", "prod"}

\* "accumulate-wide-then-truncate equals accumulate-at-width byte-for-byte": a cell
\* holds the truncation of what unbounded integers would hold, whatever order the
\* terms came in and however often the cell, or a product, wrapped on the way.
TruncatesExactly ==
  Ring => \A c \in Cells :
     acc[c] = IF c \in touched THEN Wrap(exact[c], job.dtype) ELSE exact[c]

\* The elements the call reads lie in its dtype.
OperandsInRange(j) ==
  /\ \A c \in Cells : InRange(j.dest[c], j.dtype)
  /\ \A t \in Terms : InRange(j.left[t], j.dtype) /\ InRange(j.right[t], j.dtype)

\* "there is NO wide accumulator that escapes the dtype": on operands of the dtype
\* every cell is a value of the dtype after every combine, empty folds included.
StaysInDtype ==
  OperandsInRange(job) => \A c \in Cells : InRange(acc[c], job.dtype)

\* What a cell holds before any term, for unbounded integers.
Given(j, c) == IF j.kernel = "scatter" THEN j.dest[c] ELSE IF j.monoid = "prod" THEN 1 ELSE 0

\* The exact fold of some of the terms in row-major order.
FoldOf(j, c, some) ==
  LET fold[k \in 0..TermCount] ==
        IF k = 0 THEN Given(j, c)
        ELSE IF k \in some /\ j.cell[k] = c
        THEN ExactCombine(j.monoid, fold[k - 1], ExactContribution(j, k))
        ELSE fold[k - 1]
  IN  fold[TermCount]

\* The elements an extreme is taken of.
ElementsOf(j, c, some) ==
  {ExactContribution(j, t) : t \in {u \in some : j.cell[u] = c}}
    \cup IF j.kernel = "scatter" THEN {j.dest[c]} ELSE {}

IsExtreme(monoid, v, elements) ==
  v \in elements /\ \A e \in elements : IF monoid = "max" THEN e <= v ELSE v <= e

\* "an integer reduce/matmul is both order-independent AND exact", and so is a
\* scatter with colliding indices: the result is one truncation of the exact fold in
\* row-major order, or the extreme of the elements; the identity of the monoid only
\* where there is nothing to fold.  Extremes are taken of elements of the dtype, for
\* which the seed is neutral.
OrderIndependent ==
  pending = {} /\ (Ring \/ OperandsInRange(job)) =>
    \A c \in Cells :
      IF \A t \in Terms : job.cell[t] # c THEN acc[c] = Start(job, c)
      ELSE IF Ring THEN acc[c] = Wrap(FoldOf(job, c, Terms), job.dtype)
      ELSE IsExtreme(job.monoid, acc[c], ElementsOf(job, c, Terms))

\* Part of the way, the terms taken so far are folded, in whatever order they came.
PartlyFolded ==
  LET done == Terms \ pending
  IN  /\ touched = {job.cell[t] : t \in done}
      /\ \A c \in Cells :
           /\ c \notin touched => acc[c] = Start(job, c)
           /\ IF Ring THEN exact[c] = FoldOf(job, c, done)
              ELSE IsExtreme(job.monoid, acc[c], {Start(job, c)} \cup ElementsOf(job, c, done))
=============================================================================
