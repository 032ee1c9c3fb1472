---------------------------- MODULE IntegerProofs ---------------------------
(***************************************************************************)
(* Theorems about the integer and bool lanes, for every width and every    *)
(* operand.  The folds compute the truncation of the exact result, for     *)
(* every dtype, lane width, set of calls and order of accumulation; the    *)
(* arithmetic of the wide lane is that of circuits over the bits, the      *)
(* operations evaluated directly are their decompositions, and truth       *)
(* values stay truth values.                                               *)
(*                                                                         *)
(* At the end a recipe of the integer lane, of any length and over any     *)
(* dtypes: every value that only adds and multiplies is the truncation of  *)
(* what unbounded integers give, and every value is of the dtype its node  *)
(* declares, where the nodes that hand elements on declare dtypes that     *)
(* hold them.  First what each kernel does for one dtype, then what a node *)
(* does, then the recipe as a whole.                                       *)
(***************************************************************************)
EXTENDS IntFold, BoolLane, IntRecipe, NumberLemmas, FiniteSetTheorems

\* The lane wraps by a multiple of every dtype's width.
LEMMA LaneCongruent ==
  ASSUME NEW v \in Int, NEW d \in Dtypes
  PROVE  Lane(v) \in I128 /\ \E k \in Int : Lane(v) = v + k * Size(d)
<1> DEFINE lane == [half |-> LaneHalf, signed |-> TRUE]
           s == Size(d)
           q == (2 * LaneHalf) \div s
<1>1. IsDtype(lane) /\ Lane(v) = Wrap(v, lane) /\ Size(lane) = 2 * LaneHalf
  BY LaneAssumption DEF IsDtype, Lane, Size
<1>2. s \in Nat /\ s > 0
  BY DtypesAssumption DEF Size
<1>3. q \in Int /\ 2 * LaneHalf = q * s
  <2>1. (2 * LaneHalf) % s = 0 /\ 2 * LaneHalf \in Int
    BY LaneAssumption DEF s
  <2> HIDE DEF s
  <2> QED
    BY <1>2, <2>1, Remainder
<1>4. Lane(v) \in I128
  BY <1>1, WrapInRange, LaneAssumption DEF InRange, Lowest, Highest, I128, Size
<1>5. PICK k \in Int : Lane(v) = v + k * (2 * LaneHalf)
  <2>1. PICK k \in Int : Wrap(v, lane) = v + k * Size(lane)
    BY <1>1, WrapCongruent
  <2> QED
    BY <1>1, <2>1
<1> HIDE DEF s, q, lane
<1>6. k * (q * s) = (k * q) * s /\ k * q \in Int
  BY <1>2, <1>3
<1> QED
  BY <1>3, <1>4, <1>5, <1>6 DEF s

\* Every value is congruent to itself, to its truncation and to what is left of it
\* in the lane.
LEMMA TruncationCongruent ==
  ASSUME NEW v \in Int, NEW d \in Dtypes
  PROVE  /\ IsDtype(d)
         /\ Congruent(v, v, d)
         /\ Congruent(Wrap(v, d), v, d)
         /\ Congruent(Lane(v), v, d)
         /\ Wrap(v, d) \in Int /\ Lane(v) \in Int
<1>1. IsDtype(d) /\ Size(d) \in Int
  BY DtypesAssumption DEF IsDtype, Size
<1>2. v = v + 0 * Size(d)
  BY <1>1
<1>3. Lane(v) \in Int
  BY LaneCongruent, LaneAssumption DEF I128
<1> QED
  BY <1>1, <1>2, <1>3, WrapCongruent, WrapInRange, LaneCongruent DEF Congruent

\* Addition at the dtype's width of values already truncated, or not, is the
\* truncation of the exact sum; the lane's own wrapping is not noticed.
THEOREM AddTruncates ==
  ASSUME NEW a \in Int, NEW b \in Int, NEW d \in Dtypes
  PROVE  /\ IntAdd(a, b, d) = Wrap(a + b, d)
         /\ IntAdd(Wrap(a, d), b, d) = Wrap(a + b, d)
         /\ IntAdd(a, Wrap(b, d), d) = Wrap(a + b, d)
         /\ IntAdd(Wrap(a, d), Wrap(b, d), d) = Wrap(a + b, d)
<1>1. \A x, y \in Int : IntAdd(x, y, d) = Wrap(x + y, d)
  BY TruncationCongruent, WrapUnifies DEF IntAdd
<1>2. \A x, y \in Int : Congruent(x, a, d) /\ Congruent(y, b, d)
          => Wrap(x + y, d) = Wrap(a + b, d)
  BY TruncationCongruent, RingCongruence, WrapUnifies
<1>3. /\ Wrap(a, d) \in Int /\ Congruent(Wrap(a, d), a, d) /\ Congruent(a, a, d)
      /\ Wrap(b, d) \in Int /\ Congruent(Wrap(b, d), b, d) /\ Congruent(b, b, d)
  BY TruncationCongruent
<1>4. \A x \in {a, Wrap(a, d)}, y \in {b, Wrap(b, d)} : IntAdd(x, y, d) = Wrap(a + b, d)
  BY <1>1, <1>2, <1>3
<1> QED
  BY <1>4

\* The same of multiplication.
THEOREM MulTruncates ==
  ASSUME NEW a \in Int, NEW b \in Int, NEW d \in Dtypes
  PROVE  /\ IntMul(a, b, d) = Wrap(a * b, d)
         /\ IntMul(Wrap(a, d), b, d) = Wrap(a * b, d)
<1>1. \A x, y \in Int : IntMul(x, y, d) = Wrap(x * y, d)
  <2> SUFFICES ASSUME NEW x \in Int, NEW y \in Int
               PROVE  IntMul(x, y, d) = Wrap(x * y, d)
    OBVIOUS
  <2>1. x * y \in Int
    OBVIOUS
  <2> DEFINE p == x * y
  <2> HIDE DEF p
  <2>2. Wrap(Lane(p), d) = Wrap(p, d)
    BY <2>1, TruncationCongruent, WrapUnifies DEF p
  <2> QED
    BY <2>2 DEF IntMul, p
<1>2. \A x \in Int : Congruent(x, a, d) => Wrap(x * b, d) = Wrap(a * b, d)
  <2> SUFFICES ASSUME NEW x \in Int, Congruent(x, a, d)
               PROVE  Wrap(x * b, d) = Wrap(a * b, d)
    OBVIOUS
  <2>1. IsDtype(d) /\ Congruent(b, b, d)
    BY TruncationCongruent
  <2>2. Congruent(x * b, a * b, d)
    BY <2>1, RingCongruence
  <2>3. x * b \in Int /\ a * b \in Int
    OBVIOUS
  <2> QED
    BY <2>1, <2>2, <2>3, WrapUnifies
<1> QED
  BY <1>1, <1>2, TruncationCongruent
-----------------------------------------------------------------------------

\* The values of a dtype fit the lane, and so do the neutral elements.
LEMMA DtypeFitsLane ==
  ASSUME NEW d \in Dtypes
  PROVE  /\ IsDtype(d) /\ Size(d) \in Nat /\ Size(d) > 0
         /\ \A v \in Int : InRange(v, d) => v \in I128
         /\ InRange(0, d) /\ InRange(1, d)
         /\ InRange(Lowest(d), d) /\ InRange(Highest(d), d)
         /\ 1 \in I128
         /\ Lowest(d) \in Int /\ Highest(d) \in Int
  BY DtypesAssumption, LaneAssumption
     DEF IsDtype, Size, InRange, Lowest, Highest, I128

\* What the ring combines return is a value of the dtype.
LEMMA RingStaysInDtype ==
  ASSUME NEW a \in Int, NEW b \in Int, NEW d \in Dtypes
  PROVE  /\ IntAdd(a, b, d) \in I128 /\ InRange(IntAdd(a, b, d), d)
         /\ IntMul(a, b, d) \in I128 /\ InRange(IntMul(a, b, d), d)
<1>1. \A v \in Int : Wrap(v, d) \in Int /\ InRange(Wrap(v, d), d)
  BY DtypeFitsLane, WrapInRange
<1>2. a + b \in Int /\ a * b \in Int
  OBVIOUS
<1>3. Lane(a + b) \in Int /\ Lane(a * b) \in Int
  BY <1>2, TruncationCongruent
<1> QED
  BY <1>1, <1>3, DtypeFitsLane DEF IntAdd, IntMul

\* The fields of a legal call.
LEMMA JobFields ==
  ASSUME NEW j \in Jobs
  PROVE  /\ LegalJob(j)
         /\ j.kernel \in {"reduce", "matmul", "scatter"}
         /\ j.monoid \in {"sum", "prod", "max", "min"}
         /\ j.dtype \in Dtypes
         /\ \A c \in Cells : j.dest[c] \in I128
         /\ \A t \in Terms : /\ j.cell[t] \in Cells
                             /\ j.left[t] \in I128 /\ j.right[t] \in I128
  BY JobsAssumption DEF Job

\* A cell starts within the lane, and within the dtype if its call is.
LEMMA StartFits ==
  ASSUME NEW j \in Jobs, NEW c \in Cells
  PROVE  /\ Start(j, c) \in I128
         /\ OperandsInRange(j) => InRange(Start(j, c), j.dtype)
<1>1. LegalJob(j) /\ j.dtype \in Dtypes /\ j.dest[c] \in I128
      /\ j.kernel \in {"reduce", "matmul", "scatter"}
      /\ j.monoid \in {"sum", "prod", "max", "min"}
  BY JobFields
<1>2. /\ \A v \in Int : InRange(v, j.dtype) => v \in I128
      /\ InRange(0, j.dtype) /\ InRange(1, j.dtype) /\ 1 \in I128
      /\ InRange(Lowest(j.dtype), j.dtype) /\ InRange(Highest(j.dtype), j.dtype)
      /\ Lowest(j.dtype) \in Int /\ Highest(j.dtype) \in Int
  BY <1>1, DtypeFitsLane
<1>3. Identity(j.monoid, j.dtype) \in I128
  BY <1>1, <1>2 DEF Identity
<1>4. InRange(Identity(j.monoid, j.dtype), j.dtype)
  BY <1>1, <1>2 DEF Identity
<1> QED
  BY <1>1, <1>2, <1>3, <1>4 DEF Start, OperandsInRange

-----------------------------------------------------------------------------
FoldInv == TypeOK /\ TruncatesExactly /\ StaysInDtype

LEMMA FoldInit == Init => FoldInv
<1> SUFFICES ASSUME Init PROVE FoldInv
  OBVIOUS
<1>1. job \in Jobs /\ acc = exact /\ touched = {} /\ pending = Terms
      /\ acc = [c \in Cells |-> Start(job, c)]
  BY DEF Init
<1>2. \A c \in Cells : Start(job, c) \in I128 /\ Start(job, c) \in Int
  BY <1>1, StartFits, LaneAssumption DEF I128
<1>3. TypeOK
  BY <1>1, <1>2 DEF TypeOK
<1>4. TruncatesExactly
  BY <1>1 DEF TruncatesExactly
<1>5. StaysInDtype
  BY <1>1, StartFits DEF StaysInDtype
<1> QED
  BY <1>3, <1>4, <1>5 DEF FoldInv

\* What a term brings is in the lane, and in the dtype if the call's elements are;
\* a matmul's is the truncation of the exact product.
LEMMA ContributionFits ==
  ASSUME NEW j \in Jobs, NEW t \in Terms
  PROVE  /\ Contribution(j, t) \in I128
         /\ ExactContribution(j, t) \in Int
         /\ OperandsInRange(j) => InRange(Contribution(j, t), j.dtype)
         /\ j.kernel = "matmul" =>
              Contribution(j, t) = Wrap(ExactContribution(j, t), j.dtype)
         /\ j.kernel # "matmul" => Contribution(j, t) = ExactContribution(j, t)
<1>1. j.dtype \in Dtypes /\ j.left[t] \in I128 /\ j.right[t] \in I128
  BY JobFields
<1>2. j.left[t] \in Int /\ j.right[t] \in Int
  BY <1>1, LaneAssumption DEF I128
<1>3. j.left[t] * j.right[t] \in Int
  BY <1>2
<1>4. /\ IntMul(j.left[t], j.right[t], j.dtype) \in I128
      /\ InRange(IntMul(j.left[t], j.right[t], j.dtype), j.dtype)
      /\ IntMul(j.left[t], j.right[t], j.dtype) = Wrap(j.left[t] * j.right[t], j.dtype)
  BY <1>1, <1>2, RingStaysInDtype, MulTruncates
<1> QED
  BY <1>1, <1>2, <1>3, <1>4 DEF Contribution, ExactContribution, OperandsInRange

\* One combine, on an accumulator that is exact or truncated, truncates the exact
\* combine.
LEMMA CombineTruncates ==
  ASSUME NEW j \in Jobs, NEW t \in Terms, j.monoid \in {"sum", "prod"},
         NEW a \in Int, NEW e \in Int, a \in {e, Wrap(e, j.dtype)}
  PROVE  Combine(j.monoid, a, Contribution(j, t), j.dtype)
           = Wrap(ExactCombine(j.monoid, e, ExactContribution(j, t)), j.dtype)
<1> DEFINE d == j.dtype
           x == ExactContribution(j, t)
           y == Contribution(j, t)
<1>1. d \in Dtypes /\ LegalJob(j)
  BY JobFields
<1>2. x \in Int /\ y \in {x, Wrap(x, d)}
  BY ContributionFits
<1>3. j.monoid = "prod" => y = x
  BY <1>1, ContributionFits DEF LegalJob
<1> HIDE DEF x, y
<1>4. CASE j.monoid = "sum"
  <2>1. IntAdd(a, y, d) = Wrap(e + x, d)
    BY <1>1, <1>2, AddTruncates
  <2> QED
    BY <1>4, <2>1 DEF Combine, ExactCombine, x, y
<1>5. CASE j.monoid = "prod"
  <2>1. IntMul(a, x, d) = Wrap(e * x, d)
    BY <1>1, <1>2, MulTruncates
  <2> QED
    BY <1>3, <1>5, <2>1 DEF Combine, ExactCombine, x, y
<1> QED
  BY <1>4, <1>5

LEMMA FoldStep == FoldInv /\ [Next]_vars => FoldInv'
<1> SUFFICES ASSUME FoldInv, [Next]_vars PROVE FoldInv'
  OBVIOUS
<1> USE DEF FoldInv
<1>1. CASE UNCHANGED vars
  BY <1>1 DEF vars, TypeOK, TruncatesExactly, StaysInDtype, Ring
<1>2. ASSUME NEW t \in Terms, Accumulate(t)
      PROVE  FoldInv'
  <2> DEFINE c == job.cell[t]
             x == Contribution(job, t)
             e == ExactContribution(job, t)
             d == job.dtype
  <2>1. /\ job \in Jobs /\ c \in Cells /\ d \in Dtypes
        /\ job.monoid \in {"sum", "prod", "max", "min"}
        /\ acc[c] \in I128 /\ acc[c] \in Int /\ exact[c] \in Int
        /\ x \in I128 /\ x \in Int /\ e \in Int
    BY JobFields, ContributionFits, LaneAssumption DEF TypeOK, I128
  <2>2. /\ acc' = [acc EXCEPT ![c] = Combine(job.monoid, acc[c], x, d)]
        /\ exact' = [exact EXCEPT ![c] = ExactCombine(job.monoid, exact[c], e)]
        /\ touched' = touched \cup {c}
        /\ pending' = pending \ {t}
        /\ job' = job
    BY <1>2 DEF Accumulate
  <2> DEFINE newAcc == Combine(job.monoid, acc[c], x, d)
             newExact == ExactCombine(job.monoid, exact[c], e)
  <2>3. newAcc \in I128
    BY <2>1, RingStaysInDtype DEF Combine, IntMax, IntMin
  <2>4. newExact \in Int
    BY <2>1 DEF ExactCombine, IntMax, IntMin
  <2>5. TypeOK'
    BY <2>1, <2>2, <2>3, <2>4 DEF TypeOK
  <2>6. Ring => newAcc = Wrap(newExact, d)
    <3>1. Ring => acc[c] \in {exact[c], Wrap(exact[c], d)}
      BY <2>1 DEF TruncatesExactly
    <3> QED
      BY <2>1, <3>1, CombineTruncates DEF Ring
  <2>7. OperandsInRange(job) => InRange(newAcc, d)
    <3>1. OperandsInRange(job) => InRange(acc[c], d) /\ InRange(x, d)
      BY <2>1, ContributionFits DEF StaysInDtype
    <3> QED
      BY <2>1, <3>1, RingStaysInDtype DEF Combine, IntMax, IntMin
  <2> HIDE DEF newAcc, newExact, c
  <2>8. TruncatesExactly'
    <3> SUFFICES ASSUME Ring', NEW b \in Cells
                 PROVE  acc'[b] = IF b \in touched' THEN Wrap(exact'[b], job'.dtype)
                                  ELSE exact'[b]
      BY DEF TruncatesExactly
    <3>1. Ring
      BY <2>2 DEF Ring
    <3>2. CASE b = c
      BY <2>1, <2>2, <2>6, <3>1, <3>2 DEF TypeOK, newAcc, newExact
    <3>3. CASE b # c
      BY <2>1, <2>2, <3>1, <3>3 DEF TypeOK, TruncatesExactly
    <3> QED
      BY <3>2, <3>3
  <2>9. StaysInDtype'
    <3> SUFFICES ASSUME OperandsInRange(job), NEW b \in Cells
                 PROVE  InRange(acc'[b], d)
      BY <2>2 DEF StaysInDtype
    <3>1. CASE b = c
      BY <2>1, <2>2, <2>7, <3>1 DEF TypeOK, newAcc
    <3>2. CASE b # c
      BY <2>1, <2>2, <3>2 DEF TypeOK, StaysInDtype
    <3> QED
      BY <3>1, <3>2
  <2> QED
    BY <2>5, <2>8, <2>9
<1> QED
  BY <1>1, <1>2 DEF Next

\* No accumulator ever overflows the lane's type, whatever the call.
THEOREM FoldTypeOK == Spec => []TypeOK
<1>1. FoldInv => TypeOK
  BY DEF FoldInv
<1> QED
  BY <1>1, FoldInit, FoldStep, PTL DEF Spec

\* Accumulating at the dtype's width is truncating the exact fold, whatever the
\* order the terms are taken in (recipe_int.rs, "Determinism").
THEOREM FoldTruncates == Spec => []TruncatesExactly
<1>1. FoldInv => TruncatesExactly
  BY DEF FoldInv
<1> QED
  BY <1>1, FoldInit, FoldStep, PTL DEF Spec

\* On operands of the dtype no accumulator leaves it, empty folds included
\* (tensor_int.rs, matmul).
THEOREM FoldStaysInDtype == Spec => []StaysInDtype
<1>1. FoldInv => StaysInDtype
  BY DEF FoldInv
<1> QED
  BY <1>1, FoldInit, FoldStep, PTL DEF Spec

-----------------------------------------------------------------------------
(***************************************************************************)
(* Order: part of the way, the cells hold the fold of the terms taken, as  *)
(* if they had been taken in row-major order.                              *)
(***************************************************************************)

\* The exact fold of some terms runs through the terms in turn.
Runs(f, j, c, some) ==
  /\ f \in [0..TermCount -> Int] /\ f[0] = Given(j, c)
  /\ \A k \in Terms :
       f[k] = IF k \in some /\ j.cell[k] = c
              THEN ExactCombine(j.monoid, f[k - 1], ExactContribution(j, k))
              ELSE f[k - 1]

LEMMA RingCombineIsInt ==
  ASSUME NEW j \in Jobs, j.monoid \in {"sum", "prod"}, NEW a \in Int, NEW t \in Terms
  PROVE  ExactCombine(j.monoid, a, ExactContribution(j, t)) \in Int
<1>1. ExactContribution(j, t) \in Int
  BY ContributionFits
<1> QED
  BY <1>1 DEF ExactCombine

LEMMA FoldRuns ==
  ASSUME NEW j \in Jobs, NEW c \in Cells, j.monoid \in {"sum", "prod"},
         NEW some \in SUBSET Terms
  PROVE  \E f : Runs(f, j, c, some) /\ FoldOf(j, c, some) = f[TermCount]
<1> DEFINE base == Given(j, c)
           x(k) == ExactContribution(j, k)
           mine(k) == k \in some /\ j.cell[k] = c
           step == [k \in Nat |-> [a \in Int |->
                      IF mine(k) THEN ExactCombine(j.monoid, a, x(k)) ELSE a]]
           body(f) == [k \in 0..TermCount |->
             IF k = 0 THEN Given(j, c)
             ELSE IF k \in some /\ j.cell[k] = c
             THEN ExactCombine(j.monoid, f[k - 1], ExactContribution(j, k))
             ELSE f[k - 1]]
           fold == CHOOSE f : f = body(f)
<1>1. base \in Int
  BY JobFields, LaneAssumption DEF Given, I128
<1>2. \A k \in Nat, a \in Int : mine(k) => ExactCombine(j.monoid, a, x(k)) \in Int
  BY RingCombineIsInt
<1>3. step \in [Nat -> [Int -> Int]]
  <2> HIDE DEF mine, x
  <2> QED
    BY <1>2
<1>4. TermCount \in Nat /\ Terms = 1..TermCount
  BY TermCountAssumption DEF Terms
<1>5. PICK f \in [0..TermCount -> Int] : Unrolls(f, base, step, TermCount)
  <2> HIDE DEF base, step
  <2> QED
    BY <1>1, <1>3, <1>4, RecursionOverInterval
<1>6. \A k \in 1..TermCount :
        f[k] = IF mine(k) THEN ExactCombine(j.monoid, f[k - 1], x(k)) ELSE f[k - 1]
  <2> TAKE k \in 1..TermCount
  <2>1. k \in Nat /\ k - 1 \in 0..TermCount
    BY <1>4
  <2>2. f[k - 1] \in Int /\ f[k] = step[k][f[k - 1]]
    BY <1>5, <2>1 DEF Unrolls
  <2> HIDE DEF mine, x
  <2> QED
    BY <2>1, <2>2
<1>7. f = body(f)
  <2>1. \A k \in 0..TermCount : f[k] = body(f)[k]
    <3> TAKE k \in 0..TermCount
    <3>1. CASE k = 0
      BY <1>5, <3>1 DEF Unrolls
    <3>2. CASE k # 0
      <4>1. k \in 1..TermCount
        BY <1>4, <3>2
      <4> QED
        BY <1>6, <3>2, <4>1
    <3> QED
      BY <3>1, <3>2
  <2>2. f = [k \in 0..TermCount |-> f[k]]
    BY <1>5
  <2>3. body(f) = [k \in 0..TermCount |-> body(f)[k]]
    OBVIOUS
  <2> HIDE DEF body
  <2> QED
    BY <2>1, <2>2, <2>3
<1>8. fold = body(fold)
  <2> HIDE DEF body
  <2> QED
    BY <1>7
<1>9. /\ fold[0] = base
      /\ \A k \in 1..TermCount :
           fold[k] = IF mine(k) THEN ExactCombine(j.monoid, fold[k - 1], x(k)) ELSE fold[k - 1]
  <2> HIDE DEF fold
  <2>1. \A k \in 0..TermCount : fold[k] = body(fold)[k]
    <3> HIDE DEF body
    <3> QED
      BY <1>8
  <2>2. 0 \in 0..TermCount /\ \A k \in 1..TermCount : k \in 0..TermCount /\ k # 0
    BY <1>4
  <2> QED
    BY <2>1, <2>2
<1>10. \A k \in 0..TermCount : fold[k] \in Int
  <2> DEFINE Outside == {k \in 0..TermCount : fold[k] \notin Int}
  <2> SUFFICES ASSUME Outside # {} PROVE FALSE
    OBVIOUS
  <2> HIDE DEF fold, base, mine, x
  <2>1. PICK k \in Outside : \A l \in Outside : k <= l
    <3>1. Outside \subseteq Nat
      OBVIOUS
    <3> HIDE DEF Outside
    <3> QED
      BY <3>1, LeastNatural
  <2>2. k # 0
    BY <1>1, <1>9, <2>1
  <2>3. k \in Nat /\ k \in 1..TermCount /\ k - 1 \in 0..TermCount /\ k - 1 \notin Outside
    BY <1>4, <2>1, <2>2
  <2>4. fold[k - 1] \in Int
    BY <2>3
  <2> QED
    BY <1>2, <1>9, <2>1, <2>3, <2>4
<1>11. fold = [k \in 0..TermCount |-> fold[k]]
  <2>1. body(fold) = [k \in 0..TermCount |-> body(fold)[k]]
    <3> HIDE DEF fold
    <3> QED
      OBVIOUS
  <2> HIDE DEF fold, body
  <2> QED
    BY <1>8, <2>1
<1>12. FoldOf(j, c, some) = fold[TermCount]
  BY DEF FoldOf
<1> HIDE DEF fold
<1>13. Runs(fold, j, c, some)
  BY <1>4, <1>9, <1>10, <1>11 DEF Runs
<1> QED
  BY <1>12, <1>13

\* No term taken leaves what was given.
LEMMA FoldOfNone ==
  ASSUME NEW j \in Jobs, NEW c \in Cells, j.monoid \in {"sum", "prod"}
  PROVE  FoldOf(j, c, {}) = Given(j, c)
<1>1. PICK f : Runs(f, j, c, {}) /\ FoldOf(j, c, {}) = f[TermCount]
  BY FoldRuns
<1>2. TermCount \in Nat /\ Terms = 1..TermCount
  BY TermCountAssumption DEF Terms
<1> DEFINE Moved == {k \in 0..TermCount : f[k] # Given(j, c)}
<1>3. Moved = {}
  <2> SUFFICES ASSUME Moved # {} PROVE FALSE
    OBVIOUS
  <2>1. PICK k \in Moved : \A l \in Moved : k <= l
    <3>1. Moved \subseteq Nat
      OBVIOUS
    <3> HIDE DEF Moved
    <3> QED
      BY <3>1, LeastNatural
  <2>2. k # 0
    BY <1>1, <2>1 DEF Runs
  <2>3. k \in 1..TermCount /\ k - 1 \in 0..TermCount /\ ~(k <= k - 1)
    BY <1>2, <2>1, <2>2
  <2>4. f[k] = f[k - 1]
    BY <1>1, <1>2, <2>3 DEF Runs
  <2> QED
    BY <2>1, <2>3, <2>4
<1> QED
  BY <1>1, <1>2, <1>3

\* A term folded in its turn is a term folded last: sums and products commute.
LEMMA FoldOfOneMore ==
  ASSUME NEW j \in Jobs, NEW c \in Cells, j.monoid \in {"sum", "prod"},
         NEW some \in SUBSET Terms, NEW t \in Terms, t \notin some
  PROVE  FoldOf(j, c, some \cup {t}) =
           IF j.cell[t] = c
           THEN ExactCombine(j.monoid, FoldOf(j, c, some), ExactContribution(j, t))
           ELSE FoldOf(j, c, some)
<1> DEFINE more == some \cup {t}
           x(k) == ExactContribution(j, k)
           with(a, k) == ExactCombine(j.monoid, a, x(k))
<1>1. PICK f : Runs(f, j, c, some) /\ FoldOf(j, c, some) = f[TermCount]
  BY FoldRuns
<1>2. PICK g : Runs(g, j, c, more) /\ FoldOf(j, c, more) = g[TermCount]
  <2>1. more \in SUBSET Terms
    OBVIOUS
  <2> HIDE DEF more
  <2> QED
    BY <2>1, FoldRuns
<1>3. TermCount \in Nat /\ Terms = 1..TermCount /\ t \in Nat /\ t <= TermCount
  BY TermCountAssumption DEF Terms
<1>4. \A k \in Terms : x(k) \in Int
  BY ContributionFits
<1>5. \A a \in Int, k \in Terms : with(a, k) \in Int /\ with(with(a, k), t) = with(with(a, t), k)
  <2> TAKE a \in Int, k \in Terms
  <2>1. x(k) \in Int /\ x(t) \in Int
    BY <1>4
  <2> HIDE DEF x
  <2>2. CASE j.monoid = "sum"
    BY <2>1, <2>2 DEF ExactCombine
  <2>3. CASE j.monoid = "prod"
    <3>1. with(a, k) = a * x(k) /\ with(a, t) = a * x(t)
      BY <2>3 DEF ExactCombine
    <3>2. a * x(k) \in Int /\ a * x(t) \in Int /\ (a * x(k)) * x(t) = (a * x(t)) * x(k)
      BY <2>1
    <3>3. with(a * x(k), t) = (a * x(k)) * x(t) /\ with(a * x(t), k) = (a * x(t)) * x(k)
      BY <2>3 DEF ExactCombine
    <3> QED
      BY <3>1, <3>2, <3>3
  <2> QED
    BY <2>2, <2>3
<1> HIDE DEF with
<1> DEFINE right(k) == IF t <= k /\ j.cell[t] = c THEN with(f[k], t) ELSE f[k]
           Apart == {k \in 0..TermCount : g[k] # right(k)}
<1>6. Apart = {}
  <2> SUFFICES ASSUME Apart # {} PROVE FALSE
    OBVIOUS
  <2>1. PICK k \in Apart : \A l \in Apart : k <= l
    <3>1. Apart \subseteq Nat
      OBVIOUS
    <3> HIDE DEF Apart
    <3> QED
      BY <3>1, LeastNatural
  <2>2. k # 0
    <3>1. ~(t <= 0)
      BY <1>3
    <3> QED
      BY <1>1, <1>2, <2>1, <3>1 DEF Runs
  <2>3. k \in Terms /\ k - 1 \in 0..TermCount /\ ~(k <= k - 1) /\ k \in Nat
    BY <1>3, <2>1, <2>2
  <2>4. g[k - 1] = right(k - 1) /\ f[k - 1] \in Int
    BY <1>1, <2>1, <2>3 DEF Runs
  <2>5. /\ f[k] = IF k \in some /\ j.cell[k] = c THEN with(f[k - 1], k) ELSE f[k - 1]
        /\ g[k] = IF k \in more /\ j.cell[k] = c THEN with(g[k - 1], k) ELSE g[k - 1]
    BY <1>1, <1>2, <2>3 DEF Runs, with
  <2>6. CASE k < t
    <3>1. k # t /\ ~(t <= k) /\ ~(t <= k - 1)
      BY <1>3, <2>3, <2>6
    <3> QED
      BY <2>1, <2>4, <2>5, <3>1
  <2>7. CASE k = t
    <3>1. t <= k /\ ~(t <= k - 1)
      BY <1>3, <2>3, <2>7
    <3> QED
      BY <2>1, <2>4, <2>5, <2>7, <3>1
  <2>8. CASE t < k
    <3>1. k # t /\ t <= k /\ t <= k - 1
      BY <1>3, <2>3, <2>8
    <3>2. CASE j.cell[t] = c
      <4>1. g[k - 1] = with(f[k - 1], t) /\ right(k) = with(f[k], t)
        BY <2>4, <3>1, <3>2
      <4> QED
        BY <1>5, <2>1, <2>3, <2>4, <2>5, <3>1, <4>1
    <3>3. CASE j.cell[t] # c
      BY <2>1, <2>4, <2>5, <3>1, <3>3
    <3> QED
      BY <3>2, <3>3
  <2> QED
    BY <1>3, <2>3, <2>6, <2>7, <2>8
<1>7. g[TermCount] = right(TermCount)
  BY <1>3, <1>6
<1> QED
  BY <1>1, <1>2, <1>3, <1>7 DEF with

\* A fold of sums or products starts from what was given.
LEMMA RingStartsFromGiven ==
  ASSUME NEW j \in Jobs, NEW c \in Cells, j.monoid \in {"sum", "prod"}
  PROVE  Start(j, c) = Given(j, c)
  BY JobFields DEF Start, Given, Identity, LegalJob

\* A maximum or minimum with one more element.
LEMMA ExtremeOfOneMore ==
  ASSUME NEW m \in {"max", "min"}, NEW S \in SUBSET Int, NEW v \in Int, NEW x \in Int,
         IsExtreme(m, v, S)
  PROVE  IsExtreme(m, ExactCombine(m, v, x), S \cup {x})
  BY DEF IsExtreme, ExactCombine, IntMax, IntMin

LEMMA PartlyFoldedInit == Init => PartlyFolded
<1> SUFFICES ASSUME Init PROVE PartlyFolded
  OBVIOUS
<1>1. /\ job \in Jobs /\ touched = {} /\ Terms \ pending = {}
      /\ \A c \in Cells : acc[c] = Start(job, c) /\ exact[c] = Start(job, c)
  BY DEF Init
<1>2. ASSUME NEW c \in Cells, ~Ring
      PROVE  IsExtreme(job.monoid, acc[c], {Start(job, c)} \cup ElementsOf(job, c, {}))
  <2>1. job.kernel = "scatter" => Start(job, c) = job.dest[c]
    BY DEF Start
  <2>2. \A e \in {Start(job, c)} \cup ElementsOf(job, c, {}) : e = Start(job, c)
    BY <2>1 DEF ElementsOf
  <2>3. Start(job, c) \in Int
    BY <1>1, StartFits, LaneAssumption DEF I128
  <2>4. Start(job, c) <= Start(job, c)
    BY <2>3
  <2> QED
    BY <1>1, <2>2, <2>4 DEF IsExtreme
<1>3. ASSUME NEW c \in Cells, Ring
      PROVE  exact[c] = FoldOf(job, c, {})
  BY <1>1, <1>3, RingStartsFromGiven, FoldOfNone DEF Ring
<1> QED
  BY <1>1, <1>2, <1>3 DEF PartlyFolded

LEMMA PartlyFoldedStep == FoldInv /\ PartlyFolded /\ [Next]_vars => PartlyFolded'
<1> SUFFICES ASSUME FoldInv, PartlyFolded, [Next]_vars PROVE PartlyFolded'
  OBVIOUS
<1>1. CASE UNCHANGED vars
  BY <1>1 DEF vars, PartlyFolded, Ring
<1>2. ASSUME NEW t \in Terms, Accumulate(t)
      PROVE  PartlyFolded'
  <2> DEFINE c == job.cell[t]
             done == Terms \ pending
             x == ExactContribution(job, t)
  <2>1. /\ job \in Jobs /\ c \in Cells /\ pending \subseteq Terms /\ t \in pending
        /\ job.monoid \in {"sum", "prod", "max", "min"} /\ LegalJob(job)
        /\ acc \in [Cells -> I128] /\ exact \in [Cells -> Int]
        /\ x \in Int /\ \A b \in Cells : acc[b] \in Int
    BY <1>2, JobFields, ContributionFits, LaneAssumption DEF FoldInv, TypeOK, I128, Accumulate
  <2>2. /\ acc' = [acc EXCEPT ![c] =
                     Combine(job.monoid, acc[c], Contribution(job, t), job.dtype)]
        /\ exact' = [exact EXCEPT ![c] = ExactCombine(job.monoid, exact[c], x)]
        /\ touched' = touched \cup {c}
        /\ pending' = pending \ {t}
        /\ job' = job
    BY <1>2 DEF Accumulate
  <2>3. Terms \ pending' = done \cup {t} /\ t \notin done /\ done \in SUBSET Terms
    BY <2>1, <2>2
  <2> HIDE DEF c, x, done
  <2>4. touched' = {job.cell[u] : u \in done \cup {t}}
    BY <2>2 DEF PartlyFolded, done, c
  <2>5. ASSUME NEW b \in Cells, b \notin touched'
        PROVE  acc'[b] = Start(job, b)
    BY <2>1, <2>2, <2>5 DEF PartlyFolded
  <2>6. ASSUME NEW b \in Cells, Ring
        PROVE  exact'[b] = FoldOf(job, b, done \cup {t})
    <3>1. exact[b] = FoldOf(job, b, done)
      BY <2>6 DEF PartlyFolded, done
    <3>2. FoldOf(job, b, done \cup {t}) =
            IF c = b THEN ExactCombine(job.monoid, exact[b], x) ELSE exact[b]
      BY <2>1, <2>3, <2>6, <3>1, FoldOfOneMore DEF Ring, c, x
    <3> QED
      BY <2>1, <2>2, <3>2
  <2>7. ASSUME NEW b \in Cells, ~Ring
        PROVE  IsExtreme(job.monoid, acc'[b],
                         {Start(job, b)} \cup ElementsOf(job, b, done \cup {t}))
    <3> DEFINE old == {Start(job, b)} \cup ElementsOf(job, b, done)
               new == {Start(job, b)} \cup ElementsOf(job, b, done \cup {t})
    <3>1. IsExtreme(job.monoid, acc[b], old)
      BY <2>7 DEF PartlyFolded, done
    <3>2. new = IF c = b THEN old \cup {x} ELSE old
      BY DEF ElementsOf, c, x
    <3>3. CASE b # c
      BY <2>1, <2>2, <3>1, <3>2, <3>3
    <3>4. CASE b = c
      <4>1. old \subseteq Int
        <5>1. Start(job, b) \in Int /\ job.dest[b] \in Int
          BY <2>1, StartFits, JobFields, LaneAssumption DEF I128
        <5>2. \A u \in Terms : ExactContribution(job, u) \in Int
          BY <2>1, ContributionFits
        <5> QED
          BY <2>3, <5>1, <5>2 DEF ElementsOf
      <4>2. job.monoid \in {"max", "min"}
        BY <2>1, <2>7 DEF Ring
      <4>3. job.kernel # "matmul"
        BY <2>1, <4>2 DEF LegalJob
      <4>4. Contribution(job, t) = x
        BY <2>1, <4>3, ContributionFits DEF x
      <4>5. acc'[b] = ExactCombine(job.monoid, acc[b], x)
        BY <2>1, <2>2, <3>4, <4>2, <4>4 DEF Combine, ExactCombine
      <4> HIDE DEF old, new
      <4>6. IsExtreme(job.monoid, ExactCombine(job.monoid, acc[b], x), old \cup {x})
        BY <2>1, <3>1, <4>1, <4>2, ExtremeOfOneMore
      <4>7. IsExtreme(job.monoid, acc'[b], new)
        BY <3>2, <3>4, <4>5, <4>6
      <4> QED
        BY <4>7 DEF new
    <3> QED
      BY <3>3, <3>4
  <2> QED
    BY <2>2, <2>3, <2>4, <2>5, <2>6, <2>7 DEF PartlyFolded, Ring
<1> QED
  BY <1>1, <1>2 DEF Next

\* Order cannot be told from the result: each cell holds one truncation of the row-major
\* fold, or the extreme of its elements, whatever order the terms were taken in and however
\* many collided in a cell.
THEOREM FoldIsOrderIndependent == Spec => []OrderIndependent
<1>1. FoldInv /\ PartlyFolded => OrderIndependent
  <2> SUFFICES ASSUME FoldInv, PartlyFolded, pending = {}, Ring \/ OperandsInRange(job),
                      NEW c \in Cells
               PROVE  IF \A t \in Terms : job.cell[t] # c THEN acc[c] = Start(job, c)
                      ELSE IF Ring THEN acc[c] = Wrap(FoldOf(job, c, Terms), job.dtype)
                      ELSE IsExtreme(job.monoid, acc[c], ElementsOf(job, c, Terms))
    BY DEF OrderIndependent
  <2>1. Terms \ pending = Terms
    OBVIOUS
  <2>2. c \in touched <=> \E t \in Terms : job.cell[t] = c
    BY <2>1 DEF PartlyFolded
  <2>3. ASSUME c \in touched, Ring
        PROVE  acc[c] = Wrap(FoldOf(job, c, Terms), job.dtype)
    BY <2>1, <2>3 DEF PartlyFolded, FoldInv, TruncatesExactly
  <2>4. ASSUME c \in touched, ~Ring
        PROVE  IsExtreme(job.monoid, acc[c], ElementsOf(job, c, Terms))
    <3> DEFINE all == ElementsOf(job, c, Terms)
               d == job.dtype
    <3>1. job \in Jobs /\ OperandsInRange(job)
      BY <2>4 DEF FoldInv, TypeOK
    <3>2. /\ job.monoid \in {"max", "min"} /\ job.kernel \in {"reduce", "scatter"}
          /\ d \in Dtypes
      BY <2>4, <3>1, JobFields DEF Ring, LegalJob
    <3>3. IsExtreme(job.monoid, acc[c], {Start(job, c)} \cup all)
      BY <2>1, <2>4 DEF PartlyFolded
    <3>4. CASE job.kernel = "scatter"
      <4>1. {Start(job, c)} \cup all = all
        BY <3>4 DEF Start, ElementsOf
      <4> QED
        BY <3>3, <4>1
    <3>5. CASE job.kernel = "reduce"
      <4>1. \A e \in all : e \in Int /\ Lowest(d) <= e /\ e <= Highest(d)
        <5>1. \A t \in Terms : ExactContribution(job, t) = job.left[t]
          BY <3>5 DEF ExactContribution
        <5>2. \A t \in Terms : InRange(job.left[t], d)
          BY <3>1 DEF OperandsInRange
        <5>3. Lowest(d) \in Int /\ Highest(d) \in Int
          BY <3>2, DtypeFitsLane
        <5> QED
          BY <3>5, <5>1, <5>2, <5>3 DEF ElementsOf, InRange
      <4>2. all # {}
        BY <2>2, <2>4 DEF ElementsOf
      <4>3. /\ job.monoid = "max" => Start(job, c) = Lowest(d)
            /\ job.monoid = "min" => Start(job, c) = Highest(d)
        BY <3>5 DEF Start, Identity
      <4>4. Lowest(d) \in Int /\ Highest(d) \in Int
        BY <3>2, DtypeFitsLane
      <4> HIDE DEF all, d
      <4>5. acc[c] \in all
        <5> SUFFICES ASSUME acc[c] = Start(job, c) PROVE acc[c] \in all
          BY <3>3 DEF IsExtreme
        <5>1. PICK e \in all : TRUE
          BY <4>2
        <5>2. e = acc[c]
          BY <3>2, <3>3, <4>1, <4>3, <4>4 DEF IsExtreme
        <5> QED
          BY <5>2
      <4>6. IsExtreme(job.monoid, acc[c], all)
        BY <3>3, <4>5 DEF IsExtreme
      <4> QED
        BY <4>6 DEF all
    <3> QED
      BY <3>2, <3>4, <3>5
  <2>5. c \notin touched => acc[c] = Start(job, c)
    BY DEF PartlyFolded
  <2> QED
    BY <2>2, <2>3, <2>4, <2>5
<1>2. Init => FoldInv /\ PartlyFolded
  BY FoldInit, PartlyFoldedInit
<1>3. FoldInv /\ PartlyFolded /\ [Next]_vars => (FoldInv /\ PartlyFolded)'
  BY FoldStep, PartlyFoldedStep
<1> QED
  BY <1>1, <1>2, <1>3, PTL DEF Spec

-----------------------------------------------------------------------------
\* The partial numbers of FromBits, from the top bit down.
LEMMA BitsRun ==
  ASSUME NEW ones, NEW d, d.bits \in Nat
  PROVE  \E f \in [0..d.bits -> Nat] :
           /\ f[0] = 0
           /\ \A k \in 1..d.bits : f[k] = 2 * f[k - 1] + Truth(d.bits - k \in ones)
           /\ FromBits(ones, d) = f[d.bits]
<1> DEFINE n == d.bits
           bit(k) == Truth(n - k \in ones)
           step == [k \in Nat |-> [a \in Nat |-> 2 * a + bit(k)]]
           body(f) == [k \in 0..d.bits |->
                         IF k = 0 THEN 0 ELSE 2 * f[k - 1] + Truth(d.bits - k \in ones)]
           top == CHOOSE f : f = body(f)
<1>1. \A k \in Nat : bit(k) \in Nat
  BY DEF Truth
<1>2. step \in [Nat -> [Nat -> Nat]]
  <2> HIDE DEF bit
  <2> QED
    BY <1>1
<1>3. PICK f \in [0..n -> Nat] : Unrolls(f, 0, step, n)
  <2> HIDE DEF step
  <2> QED
    BY <1>2, RecursionOverInterval
<1>4. \A k \in 1..n : f[k] = 2 * f[k - 1] + bit(k)
  <2> TAKE k \in 1..n
  <2>1. k \in Nat /\ k - 1 \in 0..n
    OBVIOUS
  <2>2. f[k - 1] \in Nat /\ f[k] = step[k][f[k - 1]]
    BY <1>3, <2>1 DEF Unrolls
  <2> HIDE DEF bit
  <2> QED
    BY <2>1, <2>2
<1>5. f = body(f)
  <2>1. \A k \in 0..n : f[k] = IF k = 0 THEN 0 ELSE 2 * f[k - 1] + bit(k)
    BY <1>3, <1>4 DEF Unrolls
  <2>2. f = [k \in 0..n |-> f[k]]
    BY <1>3
  <2> QED
    BY <2>1, <2>2
<1>6. top = body(top)
  <2> HIDE DEF body
  <2> QED
    BY <1>5
<1>7. /\ top = [k \in 0..n |-> top[k]]
      /\ top[0] = 0
      /\ \A k \in 1..n : top[k] = 2 * top[k - 1] + bit(k)
  <2> HIDE DEF top
  <2>1. \A k \in 0..n : top[k] = IF k = 0 THEN 0 ELSE 2 * top[k - 1] + bit(k)
    BY <1>6
  <2>2. top = [k \in 0..n |-> top[k]]
    <3>1. body(top) = [k \in 0..n |-> body(top)[k]]
      OBVIOUS
    <3> HIDE DEF body
    <3> QED
      BY <1>6, <3>1
  <2>3. 0 \in 0..n /\ \A k \in 1..n : k \in 0..n /\ k # 0
    OBVIOUS
  <2>4. top[0] = 0 /\ \A k \in 1..n : top[k] = 2 * top[k - 1] + bit(k)
    <3> HIDE DEF bit
    <3> QED
      BY <2>1, <2>3
  <2> HIDE DEF bit
  <2> QED
    BY <2>2, <2>4
<1>8. top \in [0..n -> Nat]
  <2> DEFINE T == {k \in 0..n : top[k] \in Nat}
  <2> HIDE DEF top, bit
  <2>1. 0 \in T
    BY <1>7
  <2>2. ASSUME NEW k \in 1..n, k - 1 \in T
        PROVE  k \in T
    <3>1. k \in Nat /\ k \in 0..n /\ top[k - 1] \in Nat
      BY <2>2
    <3>2. bit(k) \in Nat
      BY <1>1, <3>1
    <3>3. top[k] = 2 * top[k - 1] + bit(k)
      BY <1>7
    <3>4. \A a, b \in Nat : 2 * a + b \in Nat
      OBVIOUS
    <3> QED
      BY <3>1, <3>2, <3>3, <3>4
  <2>3. \A k \in 0..n : k \in T
    <3> HIDE DEF T
    <3> QED
      BY <2>1, <2>2, UpTheInterval
  <2> QED
    BY <1>7, <2>3
<1>9. FromBits(ones, d) = top[n]
  BY DEF FromBits
<1> HIDE DEF top
<1> QED
  BY <1>7, <1>8, <1>9

\* A number with a one among its bits is positive.
LEMMA FromBitsIsNat ==
  ASSUME NEW ones, NEW d, d.bits \in Nat
  PROVE  /\ FromBits(ones, d) \in Nat
         /\ \A b \in Positions(d) : b \in ones => FromBits(ones, d) > 0
<1> DEFINE n == d.bits
<1>1. PICK f \in [0..n -> Nat] :
           /\ f[0] = 0
           /\ \A k \in 1..n : f[k] = 2 * f[k - 1] + Truth(n - k \in ones)
           /\ FromBits(ones, d) = f[n]
  BY BitsRun
<1>2. ASSUME NEW b \in Positions(d), b \in ones
      PROVE  f[n] > 0
  <2> DEFINE T == {k \in 0..n : k >= n - b => f[k] > 0}
  <2>1. b \in 0..(n - 1) /\ n - b \in 1..n
    BY <1>2 DEF Positions
  <2>2. 0 \in T
    BY <2>1
  <2>3. ASSUME NEW k \in 1..n, k - 1 \in T
        PROVE  k \in T
    <3>1. f[k - 1] \in Nat /\ f[k] = 2 * f[k - 1] + Truth(n - k \in ones)
          /\ Truth(n - k \in ones) \in Nat
      BY <1>1 DEF Truth
    <3>2. k = n - b => Truth(n - k \in ones) = 1
      BY <1>2, <2>1 DEF Truth
    <3>3. k > n - b => f[k - 1] > 0
      BY <2>1, <2>3
    <3> QED
      BY <2>1, <3>1, <3>2, <3>3
  <2>4. \A k \in 0..n : k \in T
    <3> HIDE DEF T
    <3> QED
      BY <2>2, <2>3, UpTheInterval
  <2> QED
    BY <2>1, <2>4
<1> QED
  BY <1>1, <1>2

-----------------------------------------------------------------------------
\* What is wrapped is of the dtype; so are a truth value, and a number of bits.
LEMMA DtypeHolds ==
  ASSUME NEW d \in Dtypes
  PROVE  /\ d.bits \in Nat /\ Highest(d) \in Int /\ Lowest(d) \in Int
         /\ \A v \in Int : Lane(v) \in Int /\ Wrap(v, d) \in Int /\ InRange(Wrap(v, d), d)
         /\ \A v \in 0..d.bits : InRange(v, d)
         /\ InRange(0, d) /\ InRange(1, d)
<1>1. IsDtype(d) /\ d.bits \in Nat /\ d.bits <= Highest(d) /\ Highest(d) \in Int
      /\ Lowest(d) \in Int /\ InRange(0, d) /\ InRange(1, d)
  BY DtypesAssumption, DtypeFitsLane
<1>2. \A v \in Int : Lane(v) \in Int /\ Wrap(v, d) \in Int /\ InRange(Wrap(v, d), d)
  BY <1>1, TruncationCongruent, WrapInRange
<1>3. \A v \in 0..d.bits : InRange(v, d)
  BY <1>1 DEF InRange
<1> QED
  BY <1>1, <1>2, <1>3

\* The bits of a pattern: their number, the first and the last.
LEMMA BitsOfPattern ==
  ASSUME NEW d, d.bits \in Nat, NEW a
  PROVE  /\ Bits(a, d) \subseteq 0..(d.bits - 1)
         /\ Cardinality(Bits(a, d)) \in 0..d.bits
         /\ Clz(a, d) \in 0..d.bits
         /\ Ctz(a, d) \in 0..d.bits
<1> DEFINE ones == Bits(a, d)
           n == d.bits
<1>1. ones \subseteq 0..(n - 1)
  BY DEF Bits, Positions
<1> HIDE DEF ones
<1>2. Cardinality(ones) \in 0..n
  <2>1. IsFiniteSet(0..(n - 1)) /\ Cardinality(0..(n - 1)) = n
    BY FS_Interval
  <2>2. IsFiniteSet(ones) /\ Cardinality(ones) <= n
    BY <1>1, <2>1, FS_Subset
  <2>3. Cardinality(ones) \in Nat
    BY <2>2, FS_CardinalityType
  <2> QED
    BY <2>2, <2>3
<1>3. ASSUME ones # {}
      PROVE  Max(ones) \in ones /\ Min(ones) \in ones
  <2>1. PICK least \in ones : \A y \in ones : least <= y
    <3>1. ones \in SUBSET Nat
      BY <1>1
    <3> QED
      BY <1>3, <3>1, LeastNatural
  <2> DEFINE M == {n - 1 - b : b \in ones}
  <2>2. PICK m \in M : \A y \in M : m <= y
    <3>1. M \in SUBSET Nat /\ M # {}
      BY <1>1, <1>3
    <3> HIDE DEF M
    <3> QED
      BY <3>1, LeastNatural
  <2>3. PICK most \in ones : m = n - 1 - most
    BY <2>2
  <2>4. \A y \in ones : most >= y
    <3> TAKE y \in ones
    <3>1. n - 1 - most <= n - 1 - y
      BY <2>2, <2>3
    <3> QED
      BY <1>1, <3>1
  <2>5. Max(ones) \in ones
    BY <2>4 DEF Max
  <2>6. Min(ones) \in ones
    BY <2>1 DEF Min
  <2> QED
    BY <2>5, <2>6
<1>4. Clz(a, d) \in 0..n /\ Ctz(a, d) \in 0..n
  <2>1. CASE ones = {}
    BY <2>1 DEF Clz, Ctz, ones
  <2>2. CASE ones # {}
    <3>1. Max(ones) \in 0..(n - 1) /\ Min(ones) \in 0..(n - 1)
      BY <1>1, <1>3, <2>2
    <3>2. Clz(a, d) = n - 1 - Max(ones) /\ Ctz(a, d) = Min(ones)
      BY <2>2 DEF Clz, Ctz, ones
    <3> HIDE DEF n
    <3> QED
      BY <3>1, <3>2 DEF n
  <2> QED
    BY <2>1, <2>2
<1> QED
  BY <1>1, <1>2, <1>4 DEF ones

\* The operands whose value an operation may hand on.
Handed(op) ==
  IF op = "select" THEN {2, 3}
  ELSE IF op \in {"max_prop", "min_prop", "fmax_ieee", "fmin_ieee", "relu"} THEN 1..Arity(op)
  ELSE {}

\* An operation on one operand gives a value of its dtype; one that passes its operand
\* through, on an operand of the dtype.
LEMMA UnaryInDtype ==
  ASSUME NEW d \in Dtypes, NEW op \in Unary, NEW a \in Int
  PROVE  /\ EvalUnary(op, a, d) \in Int
         /\ (op = "relu" => InRange(a, d)) => InRange(EvalUnary(op, a, d), d)
<1>1. /\ d.bits \in Nat
      /\ \A v \in Int : Lane(v) \in Int /\ Wrap(v, d) \in Int /\ InRange(Wrap(v, d), d)
      /\ \A v \in 0..d.bits : InRange(v, d)
      /\ InRange(0, d) /\ InRange(1, d)
  BY DtypeHolds
<1>2. CASE op \in {"neg", "abs", "sqr"}
  <2>1. -a \in Int /\ a * a \in Int /\ (IF a < 0 THEN -a ELSE a) \in Int
    OBVIOUS
  <2> QED
    BY <1>1, <1>2, <2>1 DEF EvalUnary, IntNeg, IntAbs, IntMul
<1>3. CASE op = "bit_not"
  <2>1. FromBits(Positions(d) \ Bits(a, d), d) \in Int
    BY <1>1, FromBitsIsNat
  <2> QED
    BY <1>1, <1>3, <2>1 DEF EvalUnary
<1>4. CASE op \in {"popcount", "clz", "ctz"}
  <2>1. EvalUnary(op, a, d) \in 0..d.bits
    BY <1>1, <1>4, BitsOfPattern DEF EvalUnary
  <2> QED
    BY <1>1, <1>4, <2>1
<1>5. CASE op = "sign"
  <2>1. Truth(a > 0) - Truth(a < 0) \in Int
    BY DEF Truth
  <2> QED
    BY <1>1, <1>5, <2>1 DEF EvalUnary
<1>6. CASE op \in {"step", "logical_not"}
  BY <1>1, <1>6 DEF EvalUnary, Truth
<1>7. CASE op = "relu"
  BY <1>1, <1>7 DEF EvalUnary
<1> QED
  BY <1>2, <1>3, <1>4, <1>5, <1>6, <1>7 DEF Unary

\* So does an operation on two.
LEMMA BinaryInDtype ==
  ASSUME NEW d \in Dtypes, NEW op \in Binary, NEW a \in Int, NEW b \in Int
  PROVE  /\ EvalBinary(op, a, b, d) \in Int
         /\ op \in {"max_prop", "min_prop", "fmax_ieee", "fmin_ieee"} =>
              (InRange(a, d) /\ InRange(b, d) => InRange(EvalBinary(op, a, b, d), d))
         /\ op \notin {"max_prop", "min_prop", "fmax_ieee", "fmin_ieee"} =>
              InRange(EvalBinary(op, a, b, d), d)
<1>1. /\ d.bits \in Nat
      /\ \A v \in Int : Lane(v) \in Int /\ Wrap(v, d) \in Int /\ InRange(Wrap(v, d), d)
      /\ InRange(0, d) /\ InRange(1, d)
  BY DtypeHolds
<1>2. CASE op \in {"add", "sub", "mul"}
  <2>1. a + b \in Int /\ a - b \in Int /\ a * b \in Int
    OBVIOUS
  <2> QED
    BY <1>1, <1>2, <2>1 DEF EvalBinary, IntAdd, IntSub, IntMul
<1>3. CASE op \in {"cmp_eq", "cmp_ne", "cmp_lt", "cmp_le", "cmp_gt", "cmp_ge",
                   "logical_and", "logical_or"}
  BY <1>1, <1>3 DEF EvalBinary, Truth
<1>4. CASE op \in {"bit_and", "bit_or", "bit_xor"}
  <2>1. \A S : FromBits(S, d) \in Int
    BY <1>1, FromBitsIsNat
  <2> QED
    BY <1>1, <1>4, <2>1 DEF EvalBinary
<1>5. CASE op = "shl"
  <2>1. Weight(b, d) \in Int /\ Pattern(a, d) \in Int
    BY <1>1, FromBitsIsNat, DtypeFitsLane DEF Weight, Pattern
  <2>2. Pattern(a, d) * Weight(b, d) \in Int
    BY <2>1
  <2> QED
    BY <1>1, <1>5, <2>2 DEF EvalBinary, Shl
<1>6. CASE op = "shr"
  <2>1. ShiftInRange(b, d) => Weight(b, d) \in Nat /\ Weight(b, d) > 0
    BY <1>1, FromBitsIsNat DEF Weight, ShiftInRange
  <2>2. Pattern(a, d) \in Int
    BY DtypeFitsLane DEF Pattern
  <2>3. \A x \in Int, w \in Nat : w > 0 => x \div w \in Int
    OBVIOUS
  <2>4. (IF d.signed THEN a ELSE Pattern(a, d)) \in Int
    BY <2>2
  <2>5. ShiftInRange(b, d) =>
          (IF d.signed THEN a ELSE Pattern(a, d)) \div Weight(b, d) \in Int
    BY <2>1, <2>3, <2>4
  <2> QED
    BY <1>1, <1>6, <2>5 DEF EvalBinary, Shr
<1>7. CASE op \in {"max_prop", "fmax_ieee", "min_prop", "fmin_ieee"}
  BY <1>7 DEF EvalBinary, IntMax, IntMin
<1> QED
  BY <1>2, <1>3, <1>4, <1>5, <1>6, <1>7 DEF Binary

\* An operation keeps the dtype when the operands it may hand on are of the dtype.
LEMMA EvalIntInDtype ==
  ASSUME NEW d \in Dtypes, NEW op \in IntSupported, NEW args,
         \A k \in 1..Arity(op) : args[k] \in Int
  PROVE  /\ EvalInt(op, d, args) \in Int
         /\ (\A k \in Handed(op) : InRange(args[k], d)) => InRange(EvalInt(op, d, args), d)
<1>1. CASE op \in Unary
  <2>1. Arity(op) = 1 /\ op # "select" /\ EvalInt(op, d, args) = EvalUnary(op, args[1], d)
    BY <1>1 DEF Arity, Unary, Binary, EvalInt
  <2>2. args[1] \in Int /\ (op = "relu" => 1 \in Handed(op))
    BY <2>1 DEF Handed
  <2> QED
    BY <1>1, <2>1, <2>2, UnaryInDtype
<1>2. CASE op \in Binary
  <2>1. Arity(op) = 2 /\ EvalInt(op, d, args) = EvalBinary(op, args[1], args[2], d)
    BY <1>2 DEF Arity, Unary, Binary, EvalInt
  <2>2. args[1] \in Int /\ args[2] \in Int
    BY <2>1
  <2>3. op \in {"max_prop", "min_prop", "fmax_ieee", "fmin_ieee"} => Handed(op) = {1, 2}
    BY <2>1 DEF Handed
  <2> QED
    BY <1>2, <2>1, <2>2, <2>3, BinaryInDtype
<1>3. CASE op = "select"
  <2>1. Arity(op) = 3 /\ Handed(op) = {2, 3}
        /\ EvalInt(op, d, args) = IF args[1] # 0 THEN args[2] ELSE args[3]
    BY <1>3 DEF Arity, Handed, Unary, Binary, EvalInt
  <2> QED
    BY <2>1
<1> QED
  BY <1>1, <1>2, <1>3 DEF IntSupported

-----------------------------------------------------------------------------
(***************************************************************************)
(* The decompositions.                                                     *)
(***************************************************************************)

\* An operation on two and on three operands, and its value.
OnTwo(op, e, f) == App(op, <<e, f>>)
OnThree(op, e, f, g) == App(op, <<e, f, g>>)
OfTwo(op, d, a, b) == EvalInt(op, d, <<a, b>>)
OfThree(op, d, a, b, c) == EvalInt(op, d, <<a, b, c>>)

\* At a node that is an operation, each depth of eval_int_expr does the operation on what
\* the depth below it gives for the operands: two of them,
LEMMA AppliedToTwo ==
  ASSUME NEW op, NEW d, NEW inputs, NEW e, NEW f
  PROVE  /\ EvalOne(OnTwo(op, e, f), d, inputs)
              = OfTwo(op, d, EvalLeaf(e, inputs), EvalLeaf(f, inputs))
         /\ EvalTwo(OnTwo(op, e, f), d, inputs)
              = OfTwo(op, d, EvalOne(e, d, inputs), EvalOne(f, d, inputs))
         /\ EvalThree(OnTwo(op, e, f), d, inputs)
              = OfTwo(op, d, EvalTwo(e, d, inputs), EvalTwo(f, d, inputs))
         /\ EvalIntExpr(OnTwo(op, e, f), d, inputs)
              = OfTwo(op, d, EvalThree(e, d, inputs), EvalThree(f, d, inputs))
<1> DEFINE args == <<e, f>>
<1>1. EvalOne(OnTwo(op, e, f), d, inputs) = OfTwo(op, d, EvalLeaf(e, inputs), EvalLeaf(f, inputs))
  <2>1. [k \in DOMAIN args |-> EvalLeaf(args[k], inputs)]
          = <<EvalLeaf(e, inputs), EvalLeaf(f, inputs)>>
    OBVIOUS
  <2>2. EvalOne(App(op, args), d, inputs)
          = EvalInt(op, d, [k \in DOMAIN args |-> EvalLeaf(args[k], inputs)])
    <3> HIDE DEF args
    <3> QED
      BY DEF EvalOne, EvalNode, App
  <2> QED
    BY <2>1, <2>2 DEF OnTwo, OfTwo
<1>2. EvalTwo(OnTwo(op, e, f), d, inputs)
      = OfTwo(op, d, EvalOne(e, d, inputs), EvalOne(f, d, inputs))
  <2>1. [k \in DOMAIN args |-> EvalOne(args[k], d, inputs)]
          = <<EvalOne(e, d, inputs), EvalOne(f, d, inputs)>>
    OBVIOUS
  <2>2. EvalTwo(App(op, args), d, inputs)
          = EvalInt(op, d, [k \in DOMAIN args |-> EvalOne(args[k], d, inputs)])
    <3> HIDE DEF args
    <3> QED
      BY DEF EvalTwo, EvalNode, App
  <2> QED
    BY <2>1, <2>2 DEF OnTwo, OfTwo
<1>3. EvalThree(OnTwo(op, e, f), d, inputs)
      = OfTwo(op, d, EvalTwo(e, d, inputs), EvalTwo(f, d, inputs))
  <2>1. [k \in DOMAIN args |-> EvalTwo(args[k], d, inputs)]
          = <<EvalTwo(e, d, inputs), EvalTwo(f, d, inputs)>>
    OBVIOUS
  <2>2. EvalThree(App(op, args), d, inputs)
          = EvalInt(op, d, [k \in DOMAIN args |-> EvalTwo(args[k], d, inputs)])
    <3> HIDE DEF args
    <3> QED
      BY DEF EvalThree, EvalNode, App
  <2> QED
    BY <2>1, <2>2 DEF OnTwo, OfTwo
<1>4. EvalIntExpr(OnTwo(op, e, f), d, inputs)
      = OfTwo(op, d, EvalThree(e, d, inputs), EvalThree(f, d, inputs))
  <2>1. [k \in DOMAIN args |-> EvalThree(args[k], d, inputs)]
          = <<EvalThree(e, d, inputs), EvalThree(f, d, inputs)>>
    OBVIOUS
  <2>2. EvalIntExpr(App(op, args), d, inputs)
          = EvalInt(op, d, [k \in DOMAIN args |-> EvalThree(args[k], d, inputs)])
    <3> HIDE DEF args
    <3> QED
      BY DEF EvalIntExpr, EvalNode, App
  <2> QED
    BY <2>1, <2>2 DEF OnTwo, OfTwo
<1> QED
  BY <1>1, <1>2, <1>3, <1>4

\* and the three of a select.
LEMMA AppliedToThree ==
  ASSUME NEW op, NEW d, NEW inputs, NEW e, NEW f, NEW g
  PROVE  /\ EvalTwo(OnThree(op, e, f, g), d, inputs)
              = OfThree(op, d, EvalOne(e, d, inputs), EvalOne(f, d, inputs), EvalOne(g, d, inputs))
         /\ EvalThree(OnThree(op, e, f, g), d, inputs)
              = OfThree(op, d, EvalTwo(e, d, inputs), EvalTwo(f, d, inputs), EvalTwo(g, d, inputs))
         /\ EvalIntExpr(OnThree(op, e, f, g), d, inputs)
              = OfThree(op, d, EvalThree(e, d, inputs), EvalThree(f, d, inputs),
                        EvalThree(g, d, inputs))
<1> DEFINE args == <<e, f, g>>
<1>1. EvalTwo(OnThree(op, e, f, g), d, inputs)
      = OfThree(op, d, EvalOne(e, d, inputs), EvalOne(f, d, inputs), EvalOne(g, d, inputs))
  <2>1. [k \in DOMAIN args |-> EvalOne(args[k], d, inputs)]
          = <<EvalOne(e, d, inputs), EvalOne(f, d, inputs), EvalOne(g, d, inputs)>>
    OBVIOUS
  <2>2. EvalTwo(App(op, args), d, inputs)
          = EvalInt(op, d, [k \in DOMAIN args |-> EvalOne(args[k], d, inputs)])
    <3> HIDE DEF args
    <3> QED
      BY DEF EvalTwo, EvalNode, App
  <2> QED
    BY <2>1, <2>2 DEF OnThree, OfThree
<1>2. EvalThree(OnThree(op, e, f, g), d, inputs)
      = OfThree(op, d, EvalTwo(e, d, inputs), EvalTwo(f, d, inputs), EvalTwo(g, d, inputs))
  <2>1. [k \in DOMAIN args |-> EvalTwo(args[k], d, inputs)]
          = <<EvalTwo(e, d, inputs), EvalTwo(f, d, inputs), EvalTwo(g, d, inputs)>>
    OBVIOUS
  <2>2. EvalThree(App(op, args), d, inputs)
          = EvalInt(op, d, [k \in DOMAIN args |-> EvalTwo(args[k], d, inputs)])
    <3> HIDE DEF args
    <3> QED
      BY DEF EvalThree, EvalNode, App
  <2> QED
    BY <2>1, <2>2 DEF OnThree, OfThree
<1>3. EvalIntExpr(OnThree(op, e, f, g), d, inputs)
      = OfThree(op, d, EvalThree(e, d, inputs), EvalThree(f, d, inputs), EvalThree(g, d, inputs))
  <2>1. [k \in DOMAIN args |-> EvalThree(args[k], d, inputs)]
          = <<EvalThree(e, d, inputs), EvalThree(f, d, inputs), EvalThree(g, d, inputs)>>
    OBVIOUS
  <2>2. EvalIntExpr(App(op, args), d, inputs)
          = EvalInt(op, d, [k \in DOMAIN args |-> EvalThree(args[k], d, inputs)])
    <3> HIDE DEF args
    <3> QED
      BY DEF EvalIntExpr, EvalNode, App
  <2> QED
    BY <2>1, <2>2 DEF OnThree, OfThree
<1> QED
  BY <1>1, <1>2, <1>3

\* Inputs and constants are themselves at every depth.
LEMMA InputsAndConstants ==
  ASSUME NEW d, NEW inputs, NEW i
  PROVE  /\ EvalLeaf(Input(i), inputs) = inputs[i] /\ EvalLeaf(Const(i), inputs) = i
         /\ EvalOne(Input(i), d, inputs) = inputs[i] /\ EvalOne(Const(i), d, inputs) = i
         /\ EvalTwo(Input(i), d, inputs) = inputs[i] /\ EvalTwo(Const(i), d, inputs) = i
         /\ EvalThree(Input(i), d, inputs) = inputs[i] /\ EvalThree(Const(i), d, inputs) = i
BY DEF EvalLeaf, EvalOne, EvalTwo, EvalThree, EvalNode, Input, Const

\* The operations that decompositions are made of.
LEMMA AtomValues ==
  ASSUME NEW d, NEW a, NEW b
  PROVE  /\ OfTwo("cmp_eq", d, a, b) = Truth(a = b)
         /\ OfTwo("cmp_ne", d, a, b) = Truth(a # b)
         /\ OfTwo("cmp_lt", d, a, b) = Truth(a < b)
         /\ OfTwo("cmp_le", d, a, b) = Truth(a <= b)
         /\ OfTwo("cmp_gt", d, a, b) = Truth(a > b)
         /\ OfTwo("cmp_ge", d, a, b) = Truth(a >= b)
         /\ OfTwo("add", d, a, b) = IntAdd(a, b, d)
         /\ OfTwo("mul", d, a, b) = IntMul(a, b, d)
         /\ OfTwo("min_prop", d, a, b) = IntMin(a, b)
<1>1. {"cmp_eq", "cmp_ne", "cmp_lt", "cmp_le", "cmp_gt", "cmp_ge", "add", "mul", "min_prop"}
        \subseteq Binary
  BY DEF Binary
<1>2. \A op \in Binary : op \notin Unary /\ op # "select"
  BY DEF Unary, Binary
<1>3. ASSUME NEW op \in Binary
      PROVE  OfTwo(op, d, a, b) = EvalBinary(op, a, b, d)
  <2> DEFINE args == <<a, b>>
  <2>1. args[1] = a /\ args[2] = b
    OBVIOUS
  <2> HIDE DEF args
  <2>2. EvalInt(op, d, args) = EvalBinary(op, args[1], args[2], d)
    BY <1>2 DEF EvalInt
  <2> QED
    BY <2>1, <2>2 DEF OfTwo, args
<1>4. /\ EvalBinary("cmp_eq", a, b, d) = Truth(a = b)
      /\ EvalBinary("cmp_ne", a, b, d) = Truth(a # b)
      /\ EvalBinary("cmp_lt", a, b, d) = Truth(a < b)
      /\ EvalBinary("cmp_le", a, b, d) = Truth(a <= b)
      /\ EvalBinary("cmp_gt", a, b, d) = Truth(a > b)
      /\ EvalBinary("cmp_ge", a, b, d) = Truth(a >= b)
      /\ EvalBinary("add", a, b, d) = IntAdd(a, b, d)
      /\ EvalBinary("mul", a, b, d) = IntMul(a, b, d)
      /\ EvalBinary("min_prop", a, b, d) = IntMin(a, b)
  BY DEF EvalBinary
<1> QED
  BY <1>1, <1>3, <1>4

\* A select takes its second operand unless the first is zero.
LEMMA SelectValue ==
  ASSUME NEW d, NEW a, NEW b, NEW c
  PROVE  OfThree("select", d, c, a, b) = IF c # 0 THEN a ELSE b
BY DEF OfThree, EvalInt, Unary, Binary

\* The sum inside a logical_or does not wrap in two bits or more.
LEMMA SumOfTruths ==
  ASSUME NEW d \in Dtypes, NEW p \in BOOLEAN, NEW q \in BOOLEAN
  PROVE  /\ IntMul(Truth(p), Truth(q), d) = Truth(p /\ q)
         /\ d.bits # 1 => IntMin(1, IntAdd(Truth(p), Truth(q), d)) = Truth(p \/ q)
<1>1. IsDtype(d) /\ InRange(0, d) /\ InRange(1, d)
  BY DtypeFitsLane
<1>2. Truth(p) \in {0, 1} /\ Truth(q) \in {0, 1}
  BY DEF Truth
<1>3. IntMul(Truth(p), Truth(q), d) = Truth(p /\ q)
  <2>1. Truth(p) * Truth(q) = Truth(p /\ q) /\ Truth(p /\ q) \in {0, 1}
    BY DEF Truth
  <2>2. Wrap(Truth(p /\ q), d) = Truth(p /\ q)
    BY <1>1, <2>1, WrapIdentity
  <2> QED
    BY <1>2, <2>1, <2>2, MulTruncates
<1>4. ASSUME d.bits # 1
      PROVE  IntMin(1, IntAdd(Truth(p), Truth(q), d)) = Truth(p \/ q)
  <2>1. d.bits \in Nat /\ d.bits > 0 /\ d.bits <= Highest(d) /\ Highest(d) \in Int
        /\ Lowest(d) \in Int
    BY DtypesAssumption, BitsAssumption, DtypeFitsLane
  <2>2. InRange(2, d)
    BY <1>1, <1>4, <2>1 DEF InRange
  <2>3. Truth(p) + Truth(q) \in 0..2
    BY <1>2
  <2>4. Wrap(Truth(p) + Truth(q), d) = Truth(p) + Truth(q)
    <3>1. \A v \in {0, 1, 2} : Wrap(v, d) = v
      BY <1>1, <2>2, WrapIdentity
    <3> QED
      BY <2>3, <3>1
  <2>5. IntAdd(Truth(p), Truth(q), d) = Truth(p) + Truth(q)
    BY <1>2, <2>4, AddTruncates
  <2> QED
    BY <2>5 DEF IntMin, Truth
<1> QED
  BY <1>3, <1>4

\* A select between two that are not NaN: an integer is equal to itself.
Either(e, f, op) ==
  OnThree("select", OnTwo("cmp_ne", A, A), e,
          OnThree("select", OnTwo("cmp_ne", B, B), f,
                  OnThree("select", OnTwo(op, A, B), A, B)))

\* The decompositions in these terms.
LEMMA Decompositions ==
  /\ Decomposition("sqr") = OnTwo("mul", A, A)
  /\ Decomposition("logical_not") = OnTwo("cmp_eq", A, Const(0))
  /\ Decomposition("step") = OnThree("select", OnTwo("cmp_gt", A, Const(0)), Const(1), Const(0))
  /\ Decomposition("relu") = OnThree("select", OnTwo("cmp_lt", A, Const(0)), Const(0), A)
  /\ Decomposition("sign")
       = OnThree("select", OnTwo("cmp_gt", A, Const(0)), Const(1),
                 OnThree("select", OnTwo("cmp_lt", A, Const(0)), Const(-1), Const(0)))
  /\ Decomposition("max_prop") = Either(A, B, "cmp_ge")
  /\ Decomposition("min_prop") = Either(A, B, "cmp_le")
  /\ Decomposition("fmax_ieee") = Either(B, A, "cmp_ge")
  /\ Decomposition("fmin_ieee") = Either(B, A, "cmp_le")
  /\ Decomposition("logical_and")
       = OnTwo("mul", OnTwo("cmp_ne", A, Const(0)), OnTwo("cmp_ne", B, Const(0)))
  /\ Decomposition("logical_or")
       = OnTwo("min_prop", Const(1),
               OnTwo("add", OnTwo("cmp_ne", A, Const(0)), OnTwo("cmp_ne", B, Const(0))))
BY DEF Decomposition, OnTwo, OnThree, Pick, NotZero, Either

\* What eval_int_expr makes of them.
LEMMA DecompositionValues ==
  ASSUME NEW d, NEW inputs
  PROVE  /\ EvalIntExpr(Decomposition("sqr"), d, inputs) = IntMul(inputs[1], inputs[1], d)
         /\ EvalIntExpr(Decomposition("logical_not"), d, inputs) = Truth(inputs[1] = 0)
         /\ EvalIntExpr(Decomposition("step"), d, inputs)
              = IF Truth(inputs[1] > 0) # 0 THEN 1 ELSE 0
         /\ EvalIntExpr(Decomposition("relu"), d, inputs)
              = IF Truth(inputs[1] < 0) # 0 THEN 0 ELSE inputs[1]
         /\ EvalIntExpr(Decomposition("sign"), d, inputs)
              = IF Truth(inputs[1] > 0) # 0 THEN 1
                ELSE IF Truth(inputs[1] < 0) # 0 THEN -1 ELSE 0
         /\ EvalIntExpr(Decomposition("logical_and"), d, inputs)
              = IntMul(Truth(inputs[1] # 0), Truth(inputs[2] # 0), d)
         /\ EvalIntExpr(Decomposition("logical_or"), d, inputs)
              = IntMin(1, IntAdd(Truth(inputs[1] # 0), Truth(inputs[2] # 0), d))
         /\ \A e \in {A, B}, f \in {A, B} :
              /\ EvalIntExpr(Either(e, f, "cmp_ge"), d, inputs)
                   = IF Truth(inputs[1] >= inputs[2]) # 0 THEN inputs[1] ELSE inputs[2]
              /\ EvalIntExpr(Either(e, f, "cmp_le"), d, inputs)
                   = IF Truth(inputs[1] <= inputs[2]) # 0 THEN inputs[1] ELSE inputs[2]
<1> DEFINE a == inputs[1]
           b == inputs[2]
           zero == Const(0)
<1>1. /\ EvalLeaf(A, inputs) = a /\ EvalLeaf(B, inputs) = b /\ EvalLeaf(zero, inputs) = 0
      /\ EvalOne(A, d, inputs) = a /\ EvalOne(B, d, inputs) = b /\ EvalOne(zero, d, inputs) = 0
      /\ EvalTwo(A, d, inputs) = a /\ EvalTwo(B, d, inputs) = b /\ EvalTwo(zero, d, inputs) = 0
      /\ EvalThree(A, d, inputs) = a /\ EvalThree(B, d, inputs) = b
      /\ EvalThree(zero, d, inputs) = 0 /\ EvalThree(Const(1), d, inputs) = 1
      /\ EvalTwo(Const(-1), d, inputs) = -1
  BY InputsAndConstants DEF A, B
<1> HIDE DEF a, b, zero
<1>2. EvalIntExpr(OnTwo("mul", A, A), d, inputs) = IntMul(a, a, d)
  BY <1>1, AppliedToTwo, AtomValues
<1>3. EvalIntExpr(OnTwo("cmp_eq", A, zero), d, inputs) = Truth(a = 0)
  BY <1>1, AppliedToTwo, AtomValues
<1>4. /\ EvalThree(OnTwo("cmp_gt", A, zero), d, inputs) = Truth(a > 0)
      /\ EvalThree(OnTwo("cmp_lt", A, zero), d, inputs) = Truth(a < 0)
      /\ EvalTwo(OnTwo("cmp_lt", A, zero), d, inputs) = Truth(a < 0)
  BY <1>1, AppliedToTwo, AtomValues
<1>5. EvalIntExpr(OnThree("select", OnTwo("cmp_gt", A, zero), Const(1), zero), d, inputs)
        = IF Truth(a > 0) # 0 THEN 1 ELSE 0
  BY <1>1, <1>4, AppliedToThree, SelectValue
<1>6. EvalIntExpr(OnThree("select", OnTwo("cmp_lt", A, zero), zero, A), d, inputs)
        = IF Truth(a < 0) # 0 THEN 0 ELSE a
  BY <1>1, <1>4, AppliedToThree, SelectValue
<1>7. EvalIntExpr(OnThree("select", OnTwo("cmp_gt", A, zero), Const(1),
                          OnThree("select", OnTwo("cmp_lt", A, zero), Const(-1), zero)), d, inputs)
        = IF Truth(a > 0) # 0 THEN 1 ELSE IF Truth(a < 0) # 0 THEN -1 ELSE 0
  <2>1. EvalThree(OnThree("select", OnTwo("cmp_lt", A, zero), Const(-1), zero), d, inputs)
          = IF Truth(a < 0) # 0 THEN -1 ELSE 0
    BY <1>1, <1>4, AppliedToThree, SelectValue
  <2> QED
    BY <1>1, <1>4, <2>1, AppliedToThree, SelectValue
<1>8. EvalIntExpr(OnTwo("mul", OnTwo("cmp_ne", A, zero), OnTwo("cmp_ne", B, zero)), d, inputs)
        = IntMul(Truth(a # 0), Truth(b # 0), d)
  <2>1. /\ EvalThree(OnTwo("cmp_ne", A, zero), d, inputs) = Truth(a # 0)
        /\ EvalThree(OnTwo("cmp_ne", B, zero), d, inputs) = Truth(b # 0)
    BY <1>1, AppliedToTwo, AtomValues
  <2> QED
    BY <2>1, AppliedToTwo, AtomValues
<1>9. EvalIntExpr(OnTwo("min_prop", Const(1),
                        OnTwo("add", OnTwo("cmp_ne", A, zero), OnTwo("cmp_ne", B, zero))), d, inputs)
        = IntMin(1, IntAdd(Truth(a # 0), Truth(b # 0), d))
  <2>1. /\ EvalTwo(OnTwo("cmp_ne", A, zero), d, inputs) = Truth(a # 0)
        /\ EvalTwo(OnTwo("cmp_ne", B, zero), d, inputs) = Truth(b # 0)
    BY <1>1, AppliedToTwo, AtomValues
  <2>2. EvalThree(OnTwo("add", OnTwo("cmp_ne", A, zero), OnTwo("cmp_ne", B, zero)), d, inputs)
          = IntAdd(Truth(a # 0), Truth(b # 0), d)
    BY <2>1, AppliedToTwo, AtomValues
  <2> QED
    BY <1>1, <2>2, AppliedToTwo, AtomValues
<1>10. ASSUME NEW e \in {A, B}, NEW f \in {A, B}
       PROVE  /\ EvalIntExpr(Either(e, f, "cmp_ge"), d, inputs)
                   = IF Truth(a >= b) # 0 THEN a ELSE b
              /\ EvalIntExpr(Either(e, f, "cmp_le"), d, inputs)
                   = IF Truth(a <= b) # 0 THEN a ELSE b
  <2>1. /\ EvalThree(OnTwo("cmp_ne", A, A), d, inputs) = 0
        /\ EvalTwo(OnTwo("cmp_ne", B, B), d, inputs) = 0
    BY <1>1, AppliedToTwo, AtomValues DEF Truth
  <2>2. /\ EvalOne(OnTwo("cmp_ge", A, B), d, inputs) = Truth(a >= b)
        /\ EvalOne(OnTwo("cmp_le", A, B), d, inputs) = Truth(a <= b)
    BY <1>1, AppliedToTwo, AtomValues
  <2>3. \A op : EvalTwo(OnThree("select", OnTwo(op, A, B), A, B), d, inputs)
                  = IF EvalOne(OnTwo(op, A, B), d, inputs) # 0 THEN a ELSE b
    BY <1>1, AppliedToThree, SelectValue
  <2>4. \A op : EvalThree(OnThree("select", OnTwo("cmp_ne", B, B), f,
                            OnThree("select", OnTwo(op, A, B), A, B)), d, inputs)
                  = IF EvalOne(OnTwo(op, A, B), d, inputs) # 0 THEN a ELSE b
    BY <2>1, <2>3, AppliedToThree, SelectValue
  <2>5. \A op : EvalIntExpr(Either(e, f, op), d, inputs)
                  = IF EvalOne(OnTwo(op, A, B), d, inputs) # 0 THEN a ELSE b
    BY <2>1, <2>4, AppliedToThree, SelectValue DEF Either
  <2> QED
    BY <2>2, <2>5
<1> QED
  BY <1>2, <1>3, <1>5, <1>6, <1>7, <1>8, <1>9, <1>10, Decompositions DEF a, b, zero

\* A derived operation of one operand is its decomposition,
LEMMA UnaryIsDecomposed ==
  ASSUME NEW d \in Dtypes, NEW inputs, inputs[1] \in Int, InRange(inputs[1], d),
         NEW op \in {"sqr", "sign", "step", "relu", "logical_not"}
  PROVE  EvalUnary(op, inputs[1], d) = EvalIntExpr(Decomposition(op), d, inputs)
<1> DEFINE a == inputs[1]
<1> HIDE DEF a
<1>1. a \in Int /\ InRange(a, d) /\ IsDtype(d) /\ InRange(0, d) /\ InRange(1, d)
  BY DtypeFitsLane DEF a
<1>2. EvalUnary("sign", a, d) = IF a > 0 THEN 1 ELSE IF a < 0 THEN -1 ELSE 0
  <2>1. a < 0 => InRange(-1, d)
    BY <1>1, DtypesAssumption DEF InRange, Lowest, Highest, IsDtype
  <2>2. a < 0 => Wrap(-1, d) = -1
    BY <1>1, <2>1, WrapIdentity
  <2>3. Wrap(0, d) = 0 /\ Wrap(1, d) = 1
    BY <1>1, WrapIdentity
  <2>4. EvalUnary("sign", a, d) = Wrap(Truth(a > 0) - Truth(a < 0), d)
    BY DEF EvalUnary
  <2>5. CASE a > 0
    BY <1>1, <2>3, <2>4, <2>5 DEF Truth
  <2>6. CASE a < 0
    <3>1. Truth(a > 0) - Truth(a < 0) = -1
      BY <1>1, <2>6 DEF Truth
    <3> QED
      BY <1>1, <2>2, <2>4, <2>6, <3>1
  <2>7. CASE a = 0
    BY <1>1, <2>3, <2>4, <2>7 DEF Truth
  <2> QED
    BY <1>1, <2>5, <2>6, <2>7
<1>3. CASE op = "sign"
  BY <1>1, <1>2, <1>3, DecompositionValues DEF Truth, a
<1>4. CASE op \in {"sqr", "step", "relu", "logical_not"}
  BY <1>1, <1>4, DecompositionValues DEF EvalUnary, Truth, a
<1> QED
  BY <1>3, <1>4

\* and so is one of two, but for logical_or at one bit.
LEMMA BinaryIsDecomposed ==
  ASSUME NEW d \in Dtypes, NEW inputs, inputs[1] \in Int, inputs[2] \in Int,
         NEW op \in {"max_prop", "min_prop", "fmax_ieee", "fmin_ieee", "logical_and", "logical_or"},
         op = "logical_or" => d.bits # 1
  PROVE  EvalBinary(op, inputs[1], inputs[2], d) = EvalIntExpr(Decomposition(op), d, inputs)
<1> DEFINE a == inputs[1]
           b == inputs[2]
           is == EvalIntExpr(Decomposition(op), d, inputs)
<1>1. CASE op \in {"max_prop", "fmax_ieee"}
  <2>1. is = IF Truth(a >= b) # 0 THEN a ELSE b
    BY <1>1, DecompositionValues, Decompositions
  <2> QED
    BY <1>1, <2>1 DEF EvalBinary, IntMax, Truth
<1>2. CASE op \in {"min_prop", "fmin_ieee"}
  <2>1. is = IF Truth(a <= b) # 0 THEN a ELSE b
    BY <1>2, DecompositionValues, Decompositions
  <2> QED
    BY <1>2, <2>1 DEF EvalBinary, IntMin, Truth
<1>3. CASE op = "logical_and"
  <2>1. is = Truth(a # 0 /\ b # 0)
    BY <1>3, DecompositionValues, SumOfTruths
  <2> QED
    BY <1>3, <2>1 DEF EvalBinary
<1>4. CASE op = "logical_or"
  <2> DEFINE p == a # 0
             q == b # 0
  <2>1. is = IntMin(1, IntAdd(Truth(p), Truth(q), d))
    BY <1>4, DecompositionValues
  <2>2. p \in BOOLEAN /\ q \in BOOLEAN
    OBVIOUS
  <2>3. is = Truth(p \/ q)
    <3> HIDE DEF is, p, q
    <3> QED
      BY <1>4, <2>1, <2>2, SumOfTruths
  <2> QED
    BY <1>4, <2>3 DEF EvalBinary
<1> QED
  BY <1>1, <1>2, <1>3, <1>4

-----------------------------------------------------------------------------
(***************************************************************************)
(* One scalar call at a time.                                              *)
(***************************************************************************)

\* A call that is answered holds what eval_int_op gives.
ScalarInv ==
  /\ call \in ScalarCalls
  /\ answer \in {<<>>, <<EvalInt(call.op, call.dtype, call.args)>>}

\* It holds at every state.
LEMMA ScalarInvariant == ScalarSpec => []ScalarInv
<1>1. ScalarInit => ScalarInv
  BY DEF ScalarInit, ScalarInv
<1>2. ScalarInv /\ [Evaluate]_<<call, answer>> => ScalarInv'
  BY DEF ScalarInv, Evaluate
<1> QED
  BY <1>1, <1>2, PTL DEF ScalarSpec

\* The operands of a call, and its value once there is one.
LEMMA AnsweredCall ==
  ASSUME ScalarInv, Answered
  PROVE  /\ call.dtype \in Dtypes /\ call.op \in IntSupported
         /\ value = EvalInt(call.op, call.dtype, call.args)
         /\ DOMAIN call.args = 1..Arity(call.op) /\ Len(call.args) = Arity(call.op)
         /\ \A k \in 1..Arity(call.op) : call.args[k] \in Int /\ InRange(call.args[k], call.dtype)
<1>1. /\ call.op \in IntSupported /\ call.dtype \in Dtypes
      /\ call.args \in [1..Arity(call.op) -> Lowest(call.dtype)..Highest(call.dtype)]
  BY CallsAssumption DEF ScalarInv
<1>2. Lowest(call.dtype) \in Int /\ Highest(call.dtype) \in Int
  BY <1>1, DtypeFitsLane
<1>3. Arity(call.op) \in Nat
  BY DEF Arity
<1>4. Len(call.args) = Arity(call.op)
  BY <1>1, <1>3
<1>5. value = EvalInt(call.op, call.dtype, call.args)
  BY DEF ScalarInv, Answered, value
<1> QED
  BY <1>1, <1>2, <1>4, <1>5 DEF InRange

\* Every derived operation the integer lane evaluates directly is its reference
\* decomposition, at every width and on every operand (scalar_int.rs, decomp.rs): the guards
\* for NaN are inert, and only the sum inside logical_or at one bit is not.
THEOREM ScalarsAreDecomposed == ScalarSpec => []DecompositionsAgree
<1>1. ScalarInv => DecompositionsAgree
  <2> SUFFICES ASSUME ScalarInv, Answered, call.op \in Derived,
                      ~(call.op = "logical_or" /\ call.dtype.bits = 1)
               PROVE  value = EvalIntExpr(Decomposition(call.op), call.dtype, call.args)
    BY DEF DecompositionsAgree
  <2> DEFINE d == call.dtype
             op == call.op
             inputs == call.args
  <2>1. CASE op \in {"sqr", "sign", "step", "relu", "logical_not"}
    <3>1. op \in Unary
      BY <2>1 DEF Unary
    <3>2. Arity(op) = 1 /\ EvalInt(op, d, inputs) = EvalUnary(op, inputs[1], d)
      BY <2>1, <3>1 DEF Arity, Binary, EvalInt
    <3> QED
      BY <2>1, <3>2, AnsweredCall, UnaryIsDecomposed
  <2>2. CASE op \in {"max_prop", "min_prop", "fmax_ieee", "fmin_ieee", "logical_and", "logical_or"}
    <3>1. op \in Binary /\ op \notin Unary
      BY <2>2 DEF Unary, Binary
    <3>2. Arity(op) = 2 /\ EvalInt(op, d, inputs) = EvalBinary(op, inputs[1], inputs[2], d)
      BY <2>2, <3>1 DEF Arity, EvalInt
    <3> QED
      BY <2>2, <3>2, AnsweredCall, BinaryIsDecomposed
  <2> QED
    BY <2>1, <2>2 DEF Derived
<1> QED
  BY <1>1, ScalarInvariant, PTL

-----------------------------------------------------------------------------
(***************************************************************************)
(* The bool lane.                                                          *)
(***************************************************************************)

\* A call of the bool lane: an operation and numbers; cummax takes truth values.
BoolCall ==
  /\ "dtype" \notin DOMAIN call
  /\ call.args \in Seq(Int)
  /\ call.op = "cummax" => \A i \in DOMAIN call.args : call.args[i] \in {0, 1}

\* What a fold holds after some of the elements: before the first the identity, then the
\* quantifier over what it has seen.
AllUpTo(n) == \A i \in 1..n : True(i)
SoFarIsTruth ==
  /\ next \in 0..Len(call.args)
  /\ next = 0 => sofar = Identity(IF call.op = "all" THEN "min" ELSE "max", I64)
  /\ next > 0 /\ call.op \in {"any", "cummax"} => sofar = Truth(AnyUpTo(next))
  /\ next > 0 /\ call.op = "all" => sofar = Truth(AllUpTo(next))
  /\ call.op = "cummax" => out = [i \in 1..next |-> Truth(AnyUpTo(i))]

\* What an answer is.
BoolAnswered ==
  answer # <<>> =>
    IF call.op \in Folds
    THEN next = Len(call.args) /\ answer = IF call.op = "cummax" THEN <<out>> ELSE <<sofar>>
    ELSE BoolFault(call.op, call.args) = "none" => answer = <<EvalBool(call.op, call.args)>>

\* The inductive invariant of the lane.
BoolInv ==
  /\ BoolCall
  /\ call.op \in Folds => SoFarIsTruth
  /\ BoolAnswered

\* The accumulator holds 0 and 1, and its extremes lie outside them.
LEMMA Accumulator ==
  /\ I64 \in Dtypes /\ IsDtype(I64) /\ I64.bits # 1
  /\ Lowest(I64) \in Int /\ Lowest(I64) < 0
  /\ Highest(I64) \in Int /\ Highest(I64) >= 1
  /\ Identity("max", I64) = Lowest(I64) /\ Identity("min", I64) = Highest(I64)
<1>1. I64 \in Dtypes /\ I64.signed
  BY BoolAssumption
<1>2. I64.half \in Nat /\ I64.half > 1
  BY <1>1, DtypesAssumption
<1>3. I64.bits # 1
  <2> SUFFICES ASSUME I64.bits = 1 PROVE FALSE
    OBVIOUS
  <2>1. PICK f \in [0..I64.bits -> Nat] :
           /\ f[0] = 0
           /\ \A k \in 1..I64.bits : f[k] = 2 * f[k - 1] + Truth(I64.bits - k \in {0})
           /\ FromBits({0}, I64) = f[I64.bits]
    <3>1. I64.bits \in Nat
      BY <1>1, DtypesAssumption
    <3> QED
      BY <3>1, BitsRun
  <2>2. f[1] = 1
    BY <2>1 DEF Truth
  <2>3. I64.half = FromBits({0}, I64)
    BY <1>1, BitsAssumption DEF Weight
  <2> QED
    BY <1>2, <2>1, <2>2, <2>3
<1> QED
  BY <1>1, <1>2, <1>3, DtypeFitsLane DEF Lowest, Highest, Identity

\* The greater and the lesser of two truth values, and of one and the identity.
LEMMA ExtremesAreTruth ==
  ASSUME NEW p \in BOOLEAN, NEW q \in BOOLEAN
  PROVE  /\ IntMax(Truth(p), Truth(q)) = Truth(p \/ q)
         /\ IntMin(Truth(p), Truth(q)) = Truth(p /\ q)
         /\ IntMax(Lowest(I64), Truth(q)) = Truth(q)
         /\ IntMin(Highest(I64), Truth(q)) = Truth(q)
BY Accumulator DEF IntMax, IntMin, Truth

\* It holds before anything is folded or answered,
LEMMA BoolInitial == BoolInit => BoolInv
<1> SUFFICES ASSUME BoolInit PROVE BoolInv
  OBVIOUS
<1>1. \A x \in Elements : x \in Int
  BY BoolAssumption, Accumulator DEF InRange
<1>2. BoolCall
  <2>1. CASE \E op \in TruthOps \cup {"add", "bit_and"}, n \in 0..4 :
               \E args \in [1..n -> Elements] : call = [op |-> op, args |-> args]
    <3>1. PICK op \in TruthOps \cup {"add", "bit_and"}, n \in 0..4 :
                 \E args \in [1..n -> Elements] : call = [op |-> op, args |-> args]
      BY <2>1
    <3>2. PICK args \in [1..n -> Elements] : call = [op |-> op, args |-> args]
      BY <3>1
    <3>3. op # "cummax"
      BY <3>1 DEF TruthOps
    <3>4. args \in [1..n -> Int] /\ n \in Nat
      BY <1>1
    <3>5. args \in Seq(Int)
      BY <3>4
    <3> QED
      BY <3>2, <3>3, <3>5 DEF BoolCall
  <2>2. CASE \E op \in {"any", "all"}, n \in 0..MaxLine :
               \E args \in [1..n -> Elements] : call = [op |-> op, args |-> args]
    <3>1. PICK op \in {"any", "all"}, n \in 0..MaxLine :
                 \E args \in [1..n -> Elements] : call = [op |-> op, args |-> args]
      BY <2>2
    <3>2. PICK args \in [1..n -> Elements] : call = [op |-> op, args |-> args]
      BY <3>1
    <3>3. args \in [1..n -> Int] /\ n \in Nat
      BY <1>1, BoolAssumption
    <3>4. args \in Seq(Int)
      BY <3>3
    <3> QED
      BY <3>1, <3>2, <3>4 DEF BoolCall
  <2>3. CASE \E n \in 0..MaxLine :
               \E args \in [1..n -> {0, 1}] : call = [op |-> "cummax", args |-> args]
    <3>1. PICK n \in 0..MaxLine :
                 \E args \in [1..n -> {0, 1}] : call = [op |-> "cummax", args |-> args]
      BY <2>3
    <3>2. PICK args \in [1..n -> {0, 1}] : call = [op |-> "cummax", args |-> args]
      BY <3>1
    <3>3. args \in [1..n -> Int] /\ n \in Nat
      BY BoolAssumption
    <3>4. args \in Seq(Int)
      BY <3>3
    <3> QED
      BY <3>2, <3>4 DEF BoolCall
  <2> QED
    BY <2>1, <2>2, <2>3 DEF BoolInit
<1>3. SoFarIsTruth
  <2>1. Len(call.args) \in Nat
    BY <1>2 DEF BoolCall
  <2>2. next = 0 /\ out = <<>> /\ sofar = Identity(IF call.op = "all" THEN "min" ELSE "max", I64)
    BY DEF BoolInit
  <2>3. <<>> = [i \in 1..0 |-> Truth(AnyUpTo(i))]
    OBVIOUS
  <2> QED
    BY <2>1, <2>2, <2>3 DEF SoFarIsTruth
<1>4. BoolAnswered
  BY DEF BoolInit, BoolAnswered
<1> QED
  BY <1>2, <1>3, <1>4 DEF BoolInv

\* after one more element,
LEMMA FoldElementKeeps == BoolInv /\ FoldElement => BoolInv'
<1> SUFFICES ASSUME BoolInv, FoldElement PROVE BoolInv'
  OBVIOUS
<1>1. /\ call' = call /\ answer' = answer /\ next' = next + 1
      /\ call.op \in Folds /\ next < Len(call.args)
      /\ call.args \in Seq(Int) /\ SoFarIsTruth
  BY DEF FoldElement, BoolInv, BoolCall
<1> DEFINE op == call.op
           n == next
           line == call.args
           x == line[n + 1]
           p == IF op = "all" THEN AllUpTo(n) ELSE AnyUpTo(n)
           q == x # 0
<1>2. n \in Nat /\ Len(line) \in Nat /\ n + 1 \in 1..Len(line)
  BY <1>1 DEF SoFarIsTruth
<1>3. x \in Int /\ (op = "cummax" => x \in {0, 1})
  BY <1>1, <1>2 DEF BoolInv, BoolCall
<1>4. op = "cummax" => x = Truth(q)
  BY <1>3 DEF Truth
<1>5. Seed(x) = Truth(q)
  BY AtomValues DEF Seed, OfTwo
<1>6. sofar' = IF op = "all" THEN IntMin(sofar, Truth(q)) ELSE IntMax(sofar, Truth(q))
  <2>1. /\ op = "cummax" => sofar' = IntMax(sofar, x)
        /\ op = "all" => sofar' = IntMin(sofar, Seed(x))
        /\ op = "any" => sofar' = IntMax(sofar, Seed(x))
    BY <1>1 DEF FoldElement, Folds, Combine
  <2> HIDE DEF x, q
  <2> QED
    BY <1>1, <1>4, <1>5, <2>1 DEF Folds
<1>7. n = 0 => sofar' = Truth(q)
  <2>1. n = 0 => sofar = IF op = "all" THEN Highest(I64) ELSE Lowest(I64)
    BY <1>1, Accumulator DEF SoFarIsTruth
  <2>2. q \in BOOLEAN
    OBVIOUS
  <2> HIDE DEF q
  <2>3. IntMax(Lowest(I64), Truth(q)) = Truth(q) /\ IntMin(Highest(I64), Truth(q)) = Truth(q)
    BY <2>2, ExtremesAreTruth
  <2> QED
    BY <1>6, <2>1, <2>3
<1>8. n > 0 => sofar' = Truth(IF op = "all" THEN p /\ q ELSE p \/ q)
  <2>1. n > 0 => sofar = Truth(p)
    BY <1>1 DEF SoFarIsTruth, Folds
  <2>2. q \in BOOLEAN /\ p \in BOOLEAN
    BY DEF AllUpTo, AnyUpTo
  <2> HIDE DEF q, p
  <2>3. IntMax(Truth(p), Truth(q)) = Truth(p \/ q) /\ IntMin(Truth(p), Truth(q)) = Truth(p /\ q)
    BY <2>2, ExtremesAreTruth
  <2> QED
    BY <1>6, <2>1, <2>3
<1>9. /\ AnyUpTo(n + 1) <=> AnyUpTo(n) \/ q
      /\ AllUpTo(n + 1) <=> AllUpTo(n) /\ q
      /\ AnyUpTo(0) = FALSE /\ AllUpTo(0) = TRUE
  <2>1. 1..(n + 1) = 1..n \cup {n + 1} /\ 1..0 = {}
    BY <1>2
  <2>2. True(n + 1) <=> q
    BY DEF True
  <2> HIDE DEF q
  <2> QED
    BY <2>1, <2>2 DEF AnyUpTo, AllUpTo
<1>10. sofar' = Truth(IF op = "all" THEN AllUpTo(n + 1) ELSE AnyUpTo(n + 1))
  <2> HIDE DEF q
  <2>1. CASE n = 0
    BY <1>7, <1>9, <2>1 DEF Truth
  <2>2. CASE n > 0
    BY <1>8, <1>9, <2>2 DEF Truth
  <2> QED
    BY <1>2, <2>1, <2>2
<1>11. op = "cummax" => out' = [i \in 1..(n + 1) |-> Truth(AnyUpTo(i))]
  <2> SUFFICES ASSUME op = "cummax"
               PROVE  out' = [i \in 1..(n + 1) |-> Truth(AnyUpTo(i))]
    OBVIOUS
  <2>1. out = [i \in 1..n |-> Truth(AnyUpTo(i))] /\ out' = Append(out, sofar')
    BY <1>1 DEF SoFarIsTruth, FoldElement
  <2>2. sofar' = Truth(AnyUpTo(n + 1))
    BY <1>10
  <2> DEFINE g(i) == Truth(AnyUpTo(i))
             v == sofar'
  <2> HIDE DEF g, v
  <2>3. Append([i \in 1..n |-> g(i)], v) = [i \in 1..(n + 1) |-> IF i = n + 1 THEN v ELSE g(i)]
    BY <1>2
  <2>4. v = g(n + 1)
    BY <2>2 DEF g, v
  <2>5. [i \in 1..(n + 1) |-> IF i = n + 1 THEN v ELSE g(i)] = [i \in 1..(n + 1) |-> g(i)]
    BY <2>4
  <2> QED
    BY <2>1, <2>3, <2>5 DEF g, v
<1>12. \A i : AnyUpTo(i)' = AnyUpTo(i) /\ AllUpTo(i)' = AllUpTo(i)
  BY <1>1 DEF AnyUpTo, AllUpTo, True
<1>13. SoFarIsTruth'
  <2>1. next' \in 0..Len(call.args') /\ next' # 0 /\ next' = n + 1
    BY <1>1, <1>2
  <2>2. sofar' = Truth(IF op = "all" THEN AllUpTo(next)' ELSE AnyUpTo(next)')
    <3>1. (AnyUpTo(next)' <=> AnyUpTo(n + 1)) /\ (AllUpTo(next)' <=> AllUpTo(n + 1))
      BY <1>1 DEF AnyUpTo, AllUpTo, True
    <3> QED
      BY <1>10, <3>1 DEF Truth
  <2>3. op = "cummax" => out' = [i \in 1..next' |-> Truth(AnyUpTo(i)')]
    BY <1>11, <1>12, <2>1
  <2> QED
    BY <1>1, <2>1, <2>2, <2>3 DEF SoFarIsTruth
<1>14. BoolCall'
  BY <1>1 DEF BoolInv, BoolCall
<1>15. answer = <<>>
  BY <1>1, <1>2 DEF BoolInv, BoolAnswered
<1>16. BoolAnswered'
  BY <1>1, <1>15 DEF BoolAnswered
<1> QED
  BY <1>13, <1>14, <1>16 DEF BoolInv

\* and after any step of the lane.
LEMMA BoolStep == BoolInv /\ [BoolNext]_boolVars => BoolInv'
<1> SUFFICES ASSUME BoolInv, [BoolNext]_boolVars PROVE BoolInv'
  OBVIOUS
<1>1. CASE EvaluateTruth \/ DeclineTruth
  <2>1. call' = call /\ next' = next /\ sofar' = sofar /\ out' = out /\ call.op \notin Folds
    BY <1>1 DEF EvaluateTruth, DeclineTruth
  <2>2. BoolFault(call.op, call.args) = "none" => answer' = <<EvalBool(call.op, call.args)>>
    BY <1>1 DEF EvaluateTruth, DeclineTruth
  <2>3. BoolCall' /\ BoolAnswered'
    BY <2>1, <2>2 DEF BoolInv, BoolCall, BoolAnswered
  <2> QED
    BY <2>1, <2>3 DEF BoolInv
<1>2. CASE FoldElement
  BY <1>2, FoldElementKeeps
<1>3. CASE ReturnFold
  BY <1>3 DEF ReturnFold, BoolInv, BoolCall, BoolAnswered, SoFarIsTruth, AnyUpTo, AllUpTo, True
<1>4. CASE UNCHANGED boolVars
  BY <1>4 DEF boolVars, BoolInv, BoolCall, BoolAnswered, SoFarIsTruth, AnyUpTo, AllUpTo, True
<1> QED
  BY <1>1, <1>2, <1>3, <1>4 DEF BoolNext

\* The truth operations over truth values: what they give, normalised.
LEMMA TruthOperations ==
  ASSUME NEW p \in BOOLEAN, NEW q \in BOOLEAN, NEW r \in BOOLEAN
  PROVE  /\ Norm(EvalUnary("logical_not", Truth(p), I64)) = Truth(~p)
         /\ Norm(EvalBinary("logical_and", Truth(p), Truth(q), I64)) = Truth(p /\ q)
         /\ Norm(EvalBinary("logical_or", Truth(p), Truth(q), I64)) = Truth(p \/ q)
         /\ Norm(EvalBinary("max_prop", Truth(p), Truth(q), I64)) = Truth(p \/ q)
         /\ Norm(EvalBinary("min_prop", Truth(p), Truth(q), I64)) = Truth(p /\ q)
         /\ Norm(EvalBinary("cmp_eq", Truth(p), Truth(q), I64)) = Truth(p <=> q)
         /\ Norm(EvalBinary("cmp_ne", Truth(p), Truth(q), I64)) = Truth(~(p <=> q))
         /\ Norm(IF Truth(p) # 0 THEN Truth(q) ELSE Truth(r)) = Truth(IF p THEN q ELSE r)
BY DEF EvalUnary, EvalBinary, Norm, Truth, IntMax, IntMin

\* So an operation of the lane on as many operands as it takes is its truth function.
LEMMA BoolIsTruth ==
  ASSUME call.args \in Seq(Int), call.op \in TruthOps, Len(call.args) = Arity(call.op)
  PROVE  EvalBool(call.op, call.args) = Truth(TruthOf(call.op))
<1> DEFINE op == call.op
           args == call.args
           normal == NormOf(args)
<1>1. DOMAIN args = 1..Arity(op) /\ \A k \in DOMAIN args : normal[k] = Truth(True(k))
  BY DEF NormOf, Norm, True
<1>2. \A k \in DOMAIN args : True(k) \in BOOLEAN
  BY DEF True
<1>3. EvalBool(op, args) = Norm(EvalInt(op, I64, normal))
  BY DEF EvalBool
<1> HIDE DEF normal
<1>4. CASE op = "logical_not"
  <2>1. 1 \in DOMAIN args /\ EvalInt(op, I64, normal) = EvalUnary(op, normal[1], I64)
    BY <1>1, <1>4 DEF Arity, EvalInt, Unary, Binary
  <2> QED
    BY <1>1, <1>2, <1>3, <1>4, <2>1, TruthOperations DEF TruthOf
<1>5. CASE op \in {"logical_and", "logical_or", "max_prop", "min_prop", "cmp_eq", "cmp_ne"}
  <2>1. /\ 1 \in DOMAIN args /\ 2 \in DOMAIN args
        /\ EvalInt(op, I64, normal) = EvalBinary(op, normal[1], normal[2], I64)
    BY <1>1, <1>5 DEF Arity, EvalInt, Unary, Binary
  <2>2. EvalBool(op, args) = Norm(EvalBinary(op, Truth(True(1)), Truth(True(2)), I64))
    BY <1>1, <1>3, <2>1
  <2> DEFINE p == True(1)
             q == True(2)
  <2>3. p \in BOOLEAN /\ q \in BOOLEAN
    BY <1>2, <2>1
  <2>4. TruthOf(op) = CASE op \in {"logical_and", "min_prop"} -> p /\ q
                        [] op \in {"logical_or", "max_prop"} -> p \/ q
                        [] op = "cmp_eq" -> p <=> q
                        [] op = "cmp_ne" -> ~(p <=> q)
    BY <1>5 DEF TruthOf
  <2> HIDE DEF p, q
  <2> QED
    BY <1>5, <2>2, <2>3, <2>4, TruthOperations DEF p, q
<1>6. CASE op = "select"
  <2>1. /\ 1 \in DOMAIN args /\ 2 \in DOMAIN args /\ 3 \in DOMAIN args
        /\ EvalInt(op, I64, normal) = IF normal[1] # 0 THEN normal[2] ELSE normal[3]
    BY <1>1, <1>6 DEF Arity, EvalInt, Unary, Binary
  <2> DEFINE p == True(1)
             q == True(2)
             r == True(3)
  <2>2. p \in BOOLEAN /\ q \in BOOLEAN /\ r \in BOOLEAN
    BY <1>2, <2>1
  <2>3. TruthOf(op) = IF p THEN q ELSE r
    BY <1>6 DEF TruthOf
  <2>4. EvalBool(op, args) = Norm(IF Truth(p) # 0 THEN Truth(q) ELSE Truth(r))
    BY <1>1, <1>3, <2>1
  <2> HIDE DEF p, q, r
  <2> QED
    BY <2>2, <2>3, <2>4, TruthOperations
<1> QED
  BY <1>4, <1>5, <1>6 DEF TruthOps

\* Its decomposition, evaluated in the accumulator, is what it gives.
LEMMA BoolIsDecomposed ==
  ASSUME NEW args \in Seq(Int), NEW op \in TruthOps \cap Derived, Len(args) = Arity(op)
  PROVE  EvalBool(op, args) = Norm(EvalIntExpr(Decomposition(op), I64, NormOf(args)))
<1> DEFINE normal == NormOf(args)
<1>1. DOMAIN args = 1..Arity(op)
      /\ \A k \in DOMAIN args : normal[k] \in Int /\ InRange(normal[k], I64)
  <2>1. InRange(0, I64) /\ InRange(1, I64)
    BY Accumulator, DtypeFitsLane
  <2>2. \A x : Norm(x) \in {0, 1}
    BY DEF Norm, Truth
  <2> QED
    BY <2>1, <2>2 DEF NormOf
<1>2. EvalBool(op, args) = Norm(EvalInt(op, I64, normal))
  BY DEF EvalBool
<1> HIDE DEF normal
<1>3. CASE op = "logical_not"
  <2>1. 1 \in DOMAIN args /\ EvalInt(op, I64, normal) = EvalUnary(op, normal[1], I64)
    BY <1>1, <1>3 DEF Arity, EvalInt, Unary, Binary
  <2>2. EvalUnary(op, normal[1], I64) = EvalIntExpr(Decomposition(op), I64, normal)
    BY <1>1, <1>3, <2>1, Accumulator, UnaryIsDecomposed
  <2> QED
    BY <1>2, <2>1, <2>2 DEF normal
<1>4. CASE op \in {"max_prop", "min_prop", "logical_and", "logical_or"}
  <2>1. /\ 1 \in DOMAIN args /\ 2 \in DOMAIN args
        /\ EvalInt(op, I64, normal) = EvalBinary(op, normal[1], normal[2], I64)
    BY <1>1, <1>4 DEF Arity, EvalInt, Unary, Binary
  <2>2. EvalBinary(op, normal[1], normal[2], I64) = EvalIntExpr(Decomposition(op), I64, normal)
    BY <1>1, <1>4, <2>1, Accumulator, BinaryIsDecomposed
  <2> QED
    BY <1>2, <2>1, <2>2 DEF normal
<1> QED
  BY <1>3, <1>4 DEF TruthOps, Derived

\* Truth values go in and come out of the bool lane (boolean.rs): whatever nonzero value
\* stands for true, a truth operation and its decomposition are the truth function, and
\* any, all and cummax the quantifiers over a line of any length.
THEOREM BoolLaneKeepsTruth == BoolSpec => []TruthIsKept
<1>1. BoolInv => TruthIsCanonical
  <2> SUFFICES ASSUME BoolInv, Evaluated PROVE
               /\ value = Truth(TruthOf(call.op))
               /\ call.op \in Derived =>
                    value = Norm(EvalIntExpr(Decomposition(call.op), I64, NormOf(call.args)))
    BY DEF TruthIsCanonical
  <2>1. call.args \in Seq(Int) /\ call.op \in TruthOps /\ call.op \notin Folds
    BY DEF BoolInv, BoolCall, Evaluated, TruthOps, Folds
  <2>2. Len(call.args) = Arity(call.op)
    BY <2>1 DEF Evaluated, BoolFault
  <2>3. value = EvalBool(call.op, call.args)
    BY <2>1 DEF BoolInv, BoolAnswered, Evaluated, Answered, value
  <2>4. value = Truth(TruthOf(call.op))
    BY <2>1, <2>2, <2>3, BoolIsTruth
  <2> QED
    BY <2>1, <2>2, <2>3, <2>4, BoolIsDecomposed
<1>2. BoolInv => FoldsAreTruth
  <2> SUFFICES ASSUME BoolInv, FoldReturned, call.args # <<>> PROVE FoldIsTruth
    BY DEF FoldsAreTruth
  <2>1. /\ call.args \in Seq(Int) /\ call.op \in Folds /\ SoFarIsTruth
        /\ next = Len(call.args)
        /\ value = IF call.op = "cummax" THEN out ELSE sofar
    BY DEF BoolInv, BoolCall, BoolAnswered, FoldReturned, Answered, value
  <2>2. next \in Nat /\ next > 0 /\ DOMAIN call.args = 1..next
    BY <2>1
  <2> QED
    BY <2>1, <2>2 DEF SoFarIsTruth, FoldIsTruth, AllUpTo, Folds
<1> QED
  BY <1>1, <1>2, BoolInitial, BoolStep, PTL DEF BoolSpec, TruthIsKept

-----------------------------------------------------------------------------
(***************************************************************************)
(* Circuits: the bits of a value are its digits in base two, and what a    *)
(* circuit does to the bits is what the arithmetic does to the values.     *)
(***************************************************************************)

\* The weights of the positions of a dtype, and the next, the width.
WeightAt(k, d) == IF k = d.bits THEN Size(d) ELSE Weight(k, d)

\* The first weight is one.
LEMMA LeastWeight ==
  ASSUME NEW d, d.bits \in Nat, d.bits > 0
  PROVE  Weight(0, d) = 1
<1> DEFINE n == d.bits
<1>1. PICK f \in [0..n -> Nat] :
           /\ f[0] = 0
           /\ \A k \in 1..n : f[k] = 2 * f[k - 1] + Truth(n - k \in {0})
           /\ FromBits({0}, d) = f[n]
  BY BitsRun
<1> DEFINE T == {k \in 0..n : k < n => f[k] = 0}
<1> HIDE DEF n
<1>2. n \in Nat /\ n > 0 /\ 0 \in T
  BY <1>1 DEF n
<1>3. ASSUME NEW k \in 1..n, k - 1 \in T
      PROVE  k \in T
  <2>1. f[k - 1] = 0 /\ f[k] = 2 * f[k - 1] + Truth(n - k \in {0})
    BY <1>1, <1>2, <1>3
  <2> QED
    BY <1>2, <2>1 DEF Truth
<1>4. \A k \in 0..n : k \in T
  <2> HIDE DEF T
  <2> QED
    BY <1>2, <1>3, UpTheInterval
<1>5. f[n - 1] = 0 /\ f[n] = 2 * f[n - 1] + 1
  BY <1>1, <1>2, <1>4 DEF Truth
<1> QED
  BY <1>1, <1>5 DEF Weight, n

\* Each weight is twice the one before.
LEMMA NextWeight ==
  ASSUME NEW d, d.bits \in Nat, NEW b \in Nat, b + 1 < d.bits
  PROVE  Weight(b + 1, d) = 2 * Weight(b, d)
<1> DEFINE n == d.bits
<1>1. PICK f \in [0..n -> Nat] :
           /\ f[0] = 0
           /\ \A k \in 1..n : f[k] = 2 * f[k - 1] + Truth(n - k \in {b})
           /\ FromBits({b}, d) = f[n]
  BY BitsRun
<1>2. PICK g \in [0..n -> Nat] :
           /\ g[0] = 0
           /\ \A k \in 1..n : g[k] = 2 * g[k - 1] + Truth(n - k \in {b + 1})
           /\ FromBits({b + 1}, d) = g[n]
  BY BitsRun
<1> DEFINE T == {k \in 0..n : k > 0 => f[k] = g[k - 1]}
<1> HIDE DEF n
<1>3. n \in Nat /\ b + 1 < n /\ 0 \in T
  BY DEF n
<1>4. ASSUME NEW k \in 1..n, k - 1 \in T
      PROVE  k \in T
  <2>1. f[k] = 2 * f[k - 1] + Truth(n - k \in {b})
    BY <1>1
  <2>2. CASE k = 1
    BY <1>1, <1>2, <1>3, <2>1, <2>2 DEF Truth
  <2>3. CASE k # 1
    <3>1. k - 1 \in 1..n /\ f[k - 1] = g[k - 2]
      BY <1>3, <1>4, <2>3
    <3>2. g[k - 1] = 2 * g[k - 1 - 1] + Truth(n - (k - 1) \in {b + 1})
      BY <1>2, <3>1
    <3>3. (n - (k - 1) \in {b + 1} <=> n - k \in {b}) /\ k - 1 - 1 = k - 2
      BY <1>3
    <3>4. Truth(n - (k - 1) \in {b + 1}) = Truth(n - k \in {b})
      BY <3>3 DEF Truth
    <3> QED
      BY <2>1, <3>1, <3>2, <3>3, <3>4
  <2> QED
    BY <2>2, <2>3
<1>5. \A k \in 0..n : k \in T
  <2> HIDE DEF T
  <2> QED
    BY <1>3, <1>4, UpTheInterval
<1>6. f[n] = g[n - 1]
  BY <1>3, <1>5
<1>7. g[n] = 2 * g[n - 1] + Truth(n - n \in {b + 1})
  BY <1>2, <1>3
<1>8. Truth(n - n \in {b + 1}) = 0
  BY <1>3 DEF Truth
<1>9. g[n] = 2 * f[n]
  BY <1>1, <1>2, <1>3, <1>6, <1>7, <1>8
<1> QED
  BY <1>1, <1>2, <1>9 DEF Weight, n

\* The weights of a dtype.
LEMMA Powers ==
  ASSUME NEW d \in Dtypes
  PROVE  /\ d.bits \in Nat /\ d.bits > 0 /\ d.half \in Nat /\ Size(d) = 2 * d.half
         /\ WeightAt(0, d) = 1 /\ WeightAt(d.bits, d) = Size(d) /\ WeightAt(d.bits - 1, d) = d.half
         /\ \A k \in 0..d.bits : WeightAt(k, d) \in Nat /\ WeightAt(k, d) > 0
         /\ \A k \in 1..d.bits : WeightAt(k, d) = 2 * WeightAt(k - 1, d)
         /\ \A k \in Positions(d) : k \in 0..d.bits /\ Weight(k, d) = WeightAt(k, d)
<1> DEFINE n == d.bits
<1>1. n \in Nat /\ n > 0 /\ d.half \in Nat /\ d.half > 0 /\ Size(d) = 2 * d.half
      /\ d.half = Weight(n - 1, d)
  BY DtypesAssumption, BitsAssumption DEF Size
<1>2. Weight(0, d) = 1
  BY <1>1, LeastWeight
<1>3. \A k \in 0..(n - 2) : Weight(k + 1, d) = 2 * Weight(k, d)
  <2> TAKE k \in 0..(n - 2)
  <2>1. k \in Nat /\ k + 1 < n
    BY <1>1
  <2> QED
    BY <1>1, <2>1, NextWeight
<1>4. \A k \in 0..n : WeightAt(k, d) \in Nat /\ WeightAt(k, d) > 0
  <2> TAKE k \in 0..n
  <2>1. CASE k = n
    BY <1>1, <2>1 DEF WeightAt
  <2>2. CASE k # n
    <3>1. k \in Positions(d) /\ k \in {k}
      BY <1>1, <2>2 DEF Positions
    <3>2. FromBits({k}, d) \in Nat /\ FromBits({k}, d) > 0
      BY <1>1, <3>1, FromBitsIsNat
    <3> QED
      BY <2>2, <3>2 DEF WeightAt, Weight
  <2> QED
    BY <2>1, <2>2
<1>5. \A k \in 1..n : WeightAt(k, d) = 2 * WeightAt(k - 1, d)
  <2> TAKE k \in 1..n
  <2>1. k - 1 # n /\ WeightAt(k - 1, d) = Weight(k - 1, d)
    BY <1>1 DEF WeightAt
  <2>2. CASE k = n
    BY <1>1, <2>1, <2>2 DEF WeightAt
  <2>3. CASE k # n
    <3>1. k - 1 \in 0..(n - 2) /\ (k - 1) + 1 = k
      BY <1>1, <2>3
    <3>2. Weight(k, d) = 2 * Weight(k - 1, d)
      BY <1>3, <3>1
    <3> QED
      BY <2>1, <2>3, <3>2 DEF WeightAt
  <2> QED
    BY <2>2, <2>3
<1>6. \A k \in Positions(d) : k \in 0..n /\ Weight(k, d) = WeightAt(k, d)
  BY <1>1 DEF Positions, WeightAt
<1>7. WeightAt(0, d) = 1 /\ WeightAt(n, d) = Size(d) /\ WeightAt(n - 1, d) = d.half
  BY <1>1, <1>2 DEF WeightAt
<1> QED
  BY <1>1, <1>4, <1>5, <1>6, <1>7

\* Weights multiply where their positions add.
LEMMA PowersMultiply ==
  ASSUME NEW d \in Dtypes, NEW j \in 0..d.bits, NEW k \in 0..(d.bits - j)
  PROVE  WeightAt(j + k, d) = WeightAt(j, d) * WeightAt(k, d)
<1> DEFINE n == d.bits
           m == n - j
           pow(i) == WeightAt(i, d)
           T == {i \in 0..m : pow(j + i) = pow(j) * pow(i)}
<1>1. /\ n \in Nat /\ pow(0) = 1
      /\ \A i \in 0..n : pow(i) \in Nat
      /\ \A i \in 1..n : pow(i) = 2 * pow(i - 1)
  BY Powers
<1> HIDE DEF pow, n
<1>2. m \in Nat /\ j \in Nat /\ j \in 0..n /\ \A i \in 0..m : i \in 0..n /\ j + i \in 0..n
  BY <1>1 DEF n
<1>3. 0 \in T
  BY <1>1, <1>2
<1>4. ASSUME NEW i \in 1..m, i - 1 \in T
      PROVE  i \in T
  <2>1. i \in 1..n /\ j + i \in 1..n /\ (j + i) - 1 = j + (i - 1)
    BY <1>2
  <2>2. pow(j + i) = 2 * (pow(j) * pow(i - 1)) /\ pow(i) = 2 * pow(i - 1)
    BY <1>1, <1>4, <2>1
  <2>3. pow(j) \in Nat /\ pow(i - 1) \in Nat
    BY <1>1, <1>2, <2>1
  <2>4. \A x, y \in Nat : 2 * (x * y) = x * (2 * y)
    OBVIOUS
  <2> QED
    BY <2>2, <2>3, <2>4
<1>5. \A i \in 0..m : i \in T
  <2> HIDE DEF T, m
  <2> QED
    BY <1>2, <1>3, <1>4, UpTheInterval
<1> QED
  BY <1>5 DEF pow, n

\* The bits of a value are its digits.
LEMMA BitsAreDigits ==
  ASSUME NEW d \in Dtypes, NEW v
  PROVE  Bits(v, d) = {k \in Positions(d) : Digit(v, WeightAt(k, d)) = 1}
<1>1. \A k \in Positions(d) : Weight(k, d) = WeightAt(k, d)
  BY Powers
<1> QED
  BY <1>1 DEF Bits, Digit

\* They are the same of values that are congruent, as of a result and what is kept of it.
LEMMA BitsOfCongruent ==
  ASSUME NEW d \in Dtypes, NEW v \in Int, NEW w \in Int, Congruent(v, w, d)
  PROVE  Bits(v, d) = Bits(w, d)
<1> DEFINE n == d.bits
<1>1. n \in Nat /\ n > 0 /\ WeightAt(n, d) = Size(d)
      /\ \A k \in 0..n : WeightAt(k, d) \in Nat /\ WeightAt(k, d) > 0
  BY Powers
<1>2. \A k \in 0..n : v % WeightAt(k, d) = w % WeightAt(k, d)
  <2> TAKE k \in 0..n
  <2> DEFINE p == WeightAt(k, d)
             r == WeightAt(n - k, d)
  <2>1. n - k \in 0..n /\ k + (n - k) = n
    BY <1>1
  <2>2. Size(d) = p * r
    BY <1>1, <2>1, PowersMultiply
  <2>3. PICK m \in Int : v = w + m * Size(d)
    BY DEF Congruent
  <2>4. p \in Nat /\ p > 0 /\ r \in Nat
    BY <1>1, <2>1
  <2> HIDE DEF p, r
  <2>5. m * (p * r) = (m * r) * p /\ m * r \in Int
    BY <2>4
  <2> DEFINE i == m * r
  <2>6. i \in Int /\ v = w + i * p
    BY <2>2, <2>3, <2>5
  <2> HIDE DEF i
  <2>7. (w + i * p) % p = w % p
    BY <2>4, <2>6, RemainderOfSum
  <2> QED
    BY <2>6, <2>7 DEF p
<1>3. ASSUME NEW k \in Positions(d)
      PROVE  Digit(v, WeightAt(k, d)) = Digit(w, WeightAt(k, d))
  <2>1. k \in 0..n /\ k + 1 \in 0..n /\ WeightAt(k + 1, d) = 2 * WeightAt(k, d)
    <3>1. k \in 0..n /\ k + 1 \in 1..n /\ (k + 1) - 1 = k
      BY <1>1 DEF Positions
    <3>2. WeightAt(k + 1, d) = 2 * WeightAt((k + 1) - 1, d)
      BY <3>1, Powers
    <3> QED
      BY <3>1, <3>2
  <2> DEFINE p == WeightAt(k, d)
  <2>2. p \in Nat /\ p > 0
    BY <1>1, <2>1
  <2>3. v % p = w % p /\ v % (2 * p) = w % (2 * p)
    BY <1>2, <2>1
  <2> HIDE DEF p
  <2> DEFINE dv == Digit(v, p)
             dw == Digit(w, p)
             r == v % p
  <2>4. /\ dv \in {0, 1} /\ dw \in {0, 1} /\ r \in Int
        /\ r + (IF dv = 1 THEN p ELSE 0) = r + (IF dw = 1 THEN p ELSE 0)
    <3>1. /\ dv \in {0, 1} /\ r \in 0..(p - 1)
          /\ v % (2 * p) = r + (IF dv = 1 THEN p ELSE 0)
      BY <2>2, DigitSplits
    <3>2. /\ dw \in {0, 1}
          /\ w % (2 * p) = (w % p) + (IF dw = 1 THEN p ELSE 0)
      BY <2>2, DigitSplits
    <3>3. w % p = r
      BY <2>3
    <3> HIDE DEF dv, dw, r
    <3> QED
      BY <2>2, <2>3, <3>1, <3>2, <3>3
  <2> HIDE DEF dv, dw, r
  <2>5. dv = dw
    BY <2>2, <2>4
  <2> QED
    BY <2>5 DEF dv, dw, p
<1> QED
  BY <1>3, BitsAreDigits

\* The carries of an addition, from the first position up.
Carries(f, a, b, carryIn, d) ==
  /\ f[0] = carryIn
  /\ \A k \in 1..d.bits :
       f[k] <=> Truth(k - 1 \in a) + Truth(k - 1 \in b) + Truth(f[k - 1]) >= 2
  /\ AddBits(a, b, carryIn, d)
       = {k \in Positions(d) : Truth(k \in a) + Truth(k \in b) + Truth(f[k]) \in {1, 3}}

\* There are such carries.
LEMMA CarryRun ==
  ASSUME NEW a, NEW b, NEW carryIn \in BOOLEAN, NEW d, d.bits \in Nat
  PROVE  \E f \in [0..d.bits -> BOOLEAN] : Carries(f, a, b, carryIn, d)
<1> DEFINE n == d.bits
           over(k, c) == Truth(k - 1 \in a) + Truth(k - 1 \in b) + Truth(c) >= 2
           step == [k \in Nat |-> [c \in BOOLEAN |-> over(k, c)]]
           body(f) == [k \in 0..d.bits |->
                         IF k = 0 THEN carryIn
                         ELSE Truth(k - 1 \in a) + Truth(k - 1 \in b) + Truth(f[k - 1]) >= 2]
           carry == CHOOSE f : f = body(f)
<1>1. \A k, c : over(k, c) \in BOOLEAN
  OBVIOUS
<1>2. step \in [Nat -> [BOOLEAN -> BOOLEAN]]
  <2> HIDE DEF over
  <2> QED
    BY <1>1
<1>3. PICK f \in [0..n -> BOOLEAN] : Unrolls(f, carryIn, step, n)
  <2> HIDE DEF step
  <2> QED
    BY <1>2, RecursionOverInterval
<1>4. \A k \in 1..n : f[k] = over(k, f[k - 1])
  <2> TAKE k \in 1..n
  <2>1. k \in Nat /\ k - 1 \in 0..n
    OBVIOUS
  <2>2. f[k - 1] \in BOOLEAN /\ f[k] = step[k][f[k - 1]]
    BY <1>3, <2>1 DEF Unrolls
  <2> HIDE DEF over
  <2> QED
    BY <2>1, <2>2
<1>5. f = body(f)
  <2>1. \A k \in 0..n : f[k] = IF k = 0 THEN carryIn ELSE over(k, f[k - 1])
    BY <1>3, <1>4 DEF Unrolls
  <2>2. f = [k \in 0..n |-> f[k]]
    BY <1>3
  <2> QED
    BY <2>1, <2>2
<1>6. carry = body(carry)
  <2> HIDE DEF body
  <2> QED
    BY <1>5
<1>7. /\ carry = [k \in 0..n |-> carry[k]]
      /\ \A k \in 0..n : carry[k] = IF k = 0 THEN carryIn ELSE over(k, carry[k - 1])
  <2> HIDE DEF carry
  <2>1. \A k \in 0..n : carry[k] = IF k = 0 THEN carryIn ELSE over(k, carry[k - 1])
    BY <1>6
  <2>2. body(carry) = [k \in 0..n |-> body(carry)[k]]
    OBVIOUS
  <2> HIDE DEF body
  <2> QED
    BY <1>6, <2>1, <2>2
<1>8. AddBits(a, b, carryIn, d)
        = {k \in Positions(d) : Truth(k \in a) + Truth(k \in b) + Truth(carry[k]) \in {1, 3}}
  BY DEF AddBits
<1> HIDE DEF carry, over
<1>9. \A k \in 0..n : carry[k] \in BOOLEAN
  BY <1>1, <1>7
<1>10. carry \in [0..n -> BOOLEAN]
  BY <1>7, <1>9
<1>11. 0 \in 0..n /\ \A k \in 1..n : k \in 0..n /\ k # 0
  OBVIOUS
<1>12. carry[0] = carryIn /\ \A k \in 1..n : carry[k] <=> over(k, carry[k - 1])
  BY <1>7, <1>11
<1> QED
  BY <1>8, <1>10, <1>12 DEF Carries, over

\* A ripple-carry addition of the bits is the addition.
LEMMA AdditionIsCarried ==
  ASSUME NEW d \in Dtypes, NEW a \in Int, NEW b \in Int, NEW carryIn \in BOOLEAN
  PROVE  AddBits(Bits(a, d), Bits(b, d), carryIn, d) = Bits(a + b + Truth(carryIn), d)
<1> DEFINE n == d.bits
           c == Truth(carryIn)
           s == a + b + c
           abits == Bits(a, d)
           bbits == Bits(b, d)
           pow(k) == WeightAt(k, d)
<1>1. /\ n \in Nat /\ n > 0 /\ pow(0) = 1
      /\ \A k \in 0..n : pow(k) \in Nat /\ pow(k) > 0
      /\ \A k \in 1..n : pow(k) = 2 * pow(k - 1)
      /\ \A k \in Positions(d) : k \in 0..n
  BY Powers
<1>2. c \in {0, 1} /\ s \in Int
  BY DEF Truth
<1>3. PICK f \in [0..n -> BOOLEAN] : Carries(f, abits, bbits, carryIn, d)
  <2> HIDE DEF abits, bbits
  <2> QED
    BY <1>1, CarryRun
<1>4. /\ f[0] = carryIn
      /\ \A k \in 1..n :
           f[k] <=> Truth(k - 1 \in abits) + Truth(k - 1 \in bbits) + Truth(f[k - 1]) >= 2
      /\ AddBits(abits, bbits, carryIn, d)
           = {k \in Positions(d) : Truth(k \in abits) + Truth(k \in bbits) + Truth(f[k]) \in {1, 3}}
  BY <1>3 DEF Carries
<1> DEFINE ones(k) == Truth(k \in abits) + Truth(k \in bbits) + Truth(f[k])
           carried(k) == Added(a, b, c, Truth(f[k]), pow(k))
           T == {k \in 0..n : carried(k)}
<1>5. ASSUME NEW k \in Positions(d)
      PROVE  /\ Truth(k \in abits) = Digit(a, pow(k)) /\ Truth(k \in bbits) = Digit(b, pow(k))
             /\ k \in abits <=> Digit(a, pow(k)) = 1
             /\ k \in Bits(s, d) <=> Digit(s, pow(k)) = 1
  <2>1. pow(k) \in Nat /\ pow(k) > 0
    BY <1>1
  <2>2. Digit(a, pow(k)) \in {0, 1} /\ Digit(b, pow(k)) \in {0, 1}
    <3> HIDE DEF pow
    <3> QED
      BY <2>1, DigitSplits
  <2>3. \A v : k \in Bits(v, d) <=> Digit(v, pow(k)) = 1
    BY BitsAreDigits
  <2> QED
    BY <2>2, <2>3 DEF Truth
<1>6. ASSUME NEW k \in Positions(d), carried(k)
      PROVE  /\ k \in Bits(s, d) <=> ones(k) \in {1, 3}
             /\ Added(a, b, c, IF ones(k) >= 2 THEN 1 ELSE 0, 2 * pow(k))
  <2> DEFINE p == pow(k)
             carry == Truth(f[k])
             sum == ones(k)
  <2>1. carry \in {0, 1}
    BY DEF Truth
  <2>2. sum = Ones(a, b, carry, p)
    BY <1>5 DEF Ones
  <2>3. p \in Nat /\ p > 0
    BY <1>1
  <2>4. k \in Bits(s, d) <=> Digit(s, p) = 1
    BY <1>5
  <2>5. Added(a, b, c, carry, p)
    BY <1>6
  <2> HIDE DEF p, carry, sum, c
  <2>6. /\ Digit(a + b + c, p) = 1 <=> Ones(a, b, carry, p) \in {1, 3}
        /\ Added(a, b, c, CarryOut(a, b, carry, p), 2 * p)
    BY <1>2, <2>1, <2>3, <2>5, AddColumn
  <2> QED
    BY <2>2, <2>4, <2>6 DEF p, sum, CarryOut
<1>7. 0 \in T
  <2>1. pow(0) = 1 /\ c = Truth(f[0])
    BY <1>1, <1>4
  <2>2. \A v \in Int : v % 1 = 0
    OBVIOUS
  <2> HIDE DEF c, s, pow
  <2>3. carried(0)
    BY <1>2, <2>1, <2>2 DEF Added
  <2> QED
    BY <1>1, <2>3
<1>8. ASSUME NEW k \in 1..n, k - 1 \in T
      PROVE  k \in T
  <2>1. k - 1 \in Positions(d) /\ k \in 0..n
    BY <1>1 DEF Positions
  <2>2. f[k] <=> ones(k - 1) >= 2
    BY <1>4
  <2>3. Truth(f[k]) = IF ones(k - 1) >= 2 THEN 1 ELSE 0
    BY <2>2 DEF Truth
  <2>4. pow(k) = 2 * pow(k - 1)
    BY <1>1
  <2>5. carried(k - 1)
    BY <1>8
  <2> HIDE DEF c, s, pow, ones
  <2> DEFINE j == k - 1
  <2>6. Added(a, b, c, IF ones(j) >= 2 THEN 1 ELSE 0, 2 * pow(j))
    <3>1. j \in Positions(d) /\ carried(j)
      BY <2>1, <2>5
    <3> HIDE DEF j, carried
    <3> QED
      BY <1>6, <3>1
  <2> QED
    BY <2>1, <2>3, <2>4, <2>6
<1>9. \A k \in 0..n : k \in T
  <2> HIDE DEF T
  <2> QED
    BY <1>1, <1>7, <1>8, UpTheInterval
<1>10. \A k \in Positions(d) : k \in Bits(s, d) <=> ones(k) \in {1, 3}
  <2> TAKE k \in Positions(d)
  <2>1. carried(k)
    BY <1>1, <1>9
  <2> HIDE DEF carried, ones
  <2> QED
    BY <1>6, <2>1
<1>11. Bits(s, d) \subseteq Positions(d)
  BY DEF Bits
<1>12. AddBits(abits, bbits, carryIn, d) = {k \in Positions(d) : ones(k) \in {1, 3}}
  BY <1>4
<1> HIDE DEF ones, s
<1> QED
  BY <1>10, <1>11, <1>12 DEF s

\* The bits turned over are those of -1 - b.
LEMMA ComplementIs ==
  ASSUME NEW d \in Dtypes, NEW b \in Int
  PROVE  Complement(Bits(b, d), d) = Bits(-1 - b, d)
<1>1. ASSUME NEW k \in Positions(d)
      PROVE  Digit(-1 - b, WeightAt(k, d)) = 1 <=> ~(Digit(b, WeightAt(k, d)) = 1)
  <2> DEFINE p == WeightAt(k, d)
  <2>1. p \in Nat /\ p > 0
    BY Powers
  <2> HIDE DEF p
  <2>2. Digit(b, p) \in {0, 1} /\ Digit(-1 - b, p) = 1 - Digit(b, p)
    BY <2>1, DigitSplits, DigitOfComplement
  <2> QED
    BY <2>2 DEF p
<1> QED
  BY <1>1, BitsAreDigits DEF Complement

\* The bits of the truth values.
LEMMA BitsOfTruths ==
  ASSUME NEW d \in Dtypes
  PROVE  Bits(0, d) = {} /\ Bits(1, d) = {0}
<1>1. /\ d.bits \in Nat /\ d.bits > 0 /\ WeightAt(0, d) = 1
      /\ \A k \in 0..d.bits : WeightAt(k, d) \in Nat /\ WeightAt(k, d) > 0
      /\ \A k \in 1..d.bits : WeightAt(k, d) = 2 * WeightAt(k - 1, d)
      /\ \A k \in Positions(d) : k \in 0..d.bits
  BY Powers
<1>2. \A p \in Nat : p > 0 => Digit(0, p) = 0
  BY DEF Digit
<1>3. Digit(1, 1) = 1
  BY DEF Digit
<1>4. \A p \in Nat : p > 1 => Digit(1, p) = 0
  BY DEF Digit
<1>5. \A k \in Positions(d) : k # 0 => WeightAt(k, d) > 1
  <2> TAKE k \in Positions(d)
  <2> HAVE k # 0
  <2>1. k \in 1..d.bits /\ k - 1 \in 0..d.bits
    BY <1>1
  <2> QED
    BY <1>1, <2>1
<1>6. \A k \in Positions(d) : Digit(0, WeightAt(k, d)) = 0
  BY <1>1, <1>2
<1>7. \A k \in Positions(d) : Digit(1, WeightAt(k, d)) = 1 <=> k = 0
  BY <1>1, <1>3, <1>4, <1>5
<1>8. 0 \in Positions(d)
  BY <1>1 DEF Positions
<1> QED
  BY <1>6, <1>7, <1>8, BitsAreDigits

\* Bits moved up are those of the product with the weight.
LEMMA ShiftIs ==
  ASSUME NEW d \in Dtypes, NEW a \in Int, NEW j \in Positions(d)
  PROVE  Shifted(Bits(a, d), j, d) = Bits(a * WeightAt(j, d), d)
<1> DEFINE n == d.bits
           pow(k) == WeightAt(k, d)
           w == a * pow(j)
<1>1. /\ n \in Nat /\ n > 0
      /\ \A k \in 0..n : pow(k) \in Nat /\ pow(k) > 0
      /\ \A k \in 1..n : pow(k) = 2 * pow(k - 1)
      /\ \A k \in Positions(d) : k \in 0..n
  BY Powers
<1>2. w \in Int /\ j \in 0..(n - 1)
  <2>1. pow(j) \in Int /\ j \in 0..(n - 1)
    BY <1>1 DEF Positions
  <2> QED
    BY <2>1
<1>3. \A i \in 0..n : \A k \in 0..(n - i) : pow(i + k) = pow(i) * pow(k)
  BY PowersMultiply
<1>4. ASSUME NEW k \in Positions(d), k >= j
      PROVE  Digit(w, pow(k)) = Digit(a, pow(k - j))
  <2> DEFINE p == pow(j)
             r == pow(k - j)
  <2>1. j \in 0..n /\ k - j \in 0..(n - j) /\ k - j \in 0..n /\ j + (k - j) = k
    BY <1>1, <1>2, <1>4
  <2>2. pow(k) = p * r /\ p \in Nat /\ p > 0 /\ r \in Nat /\ r > 0
    BY <1>1, <1>3, <2>1
  <2> HIDE DEF p, r
  <2>3. (a * p) \div (p * r) = a \div r
    <3> DEFINE x == a * p
    <3>1. x \in Int /\ x \div p = a
      BY <2>2, MultipleDivided
    <3> HIDE DEF x
    <3>2. (x \div p) \div r = x \div (p * r)
      BY <2>2, <3>1, DivisionNests
    <3> QED
      BY <3>1, <3>2 DEF x
  <2> QED
    BY <2>2, <2>3 DEF Digit, p, r
<1>5. ASSUME NEW k \in Positions(d), k < j
      PROVE  Digit(w, pow(k)) = 0
  <2> DEFINE p == pow(k)
             r == pow(j - k - 1)
  <2>1. /\ k \in 0..n /\ j - k \in 0..(n - k) /\ j - k \in 1..n /\ j - k - 1 \in 0..n
        /\ k + (j - k) = j
    BY <1>1, <1>2, <1>5
  <2>2. pow(j) = p * pow(j - k) /\ pow(j - k) = 2 * r
    BY <1>1, <1>3, <2>1
  <2>3. p \in Nat /\ p > 0 /\ r \in Nat
    BY <1>1, <2>1
  <2> HIDE DEF p, r
  <2> DEFINE x == a * (2 * r)
  <2>4. w = x * p /\ x \in Int
    BY <2>2, <2>3
  <2>5. x = (a * r) * 2 /\ a * r \in Int
    BY <2>3
  <2>6. x % 2 = 0
    <3> DEFINE y == a * r
    <3> HIDE DEF y, x
    <3> QED
      BY <2>5 DEF y
  <2> HIDE DEF x
  <2>7. (x * p) \div p = x
    BY <2>3, <2>4, MultipleDivided
  <2> QED
    BY <2>4, <2>6, <2>7 DEF Digit, p
<1>6. ASSUME NEW k \in Positions(d)
      PROVE  k \in Shifted(Bits(a, d), j, d) <=> Digit(w, pow(k)) = 1
  <2>1. k \in Shifted(Bits(a, d), j, d) <=> k - j \in Bits(a, d)
    <3>1. \A i \in Bits(a, d) : i \in Nat
      BY <1>1 DEF Bits, Positions
    <3>2. k \in Nat /\ j \in Nat
      BY <1>1, <1>2
    <3> DEFINE ones == Bits(a, d)
    <3>3. Shifted(ones, j, d) = {i + j : i \in ones} \cap Positions(d)
      BY DEF Shifted
    <3> HIDE DEF ones
    <3>4. k \in {i + j : i \in ones} <=> k - j \in ones
      <4>1. k - j \in ones => k \in {i + j : i \in ones}
        <5>1. k = (k - j) + j
          BY <3>2
        <5> QED
          BY <5>1
      <4>2. ASSUME NEW i \in ones, k = i + j
            PROVE  k - j = i
        BY <3>1, <3>2, <4>2 DEF ones
      <4> QED
        BY <4>1, <4>2
    <3> QED
      BY <3>3, <3>4 DEF ones
  <2>2. k - j \in Bits(a, d) <=> k - j \in Positions(d) /\ Digit(a, pow(k - j)) = 1
    BY BitsAreDigits
  <2>3. k - j \in Positions(d) <=> k >= j
    BY <1>1, <1>2 DEF Positions
  <2>4. CASE k >= j
    BY <1>4, <2>1, <2>2, <2>3, <2>4
  <2>5. CASE k < j
    BY <1>1, <1>2, <1>5, <2>1, <2>2, <2>3, <2>5
  <2> QED
    BY <1>1, <1>2, <2>4, <2>5
<1>7. Shifted(Bits(a, d), j, d) \subseteq Positions(d)
  BY DEF Shifted
<1> HIDE DEF pow
<1>8. Bits(w, d) = {k \in Positions(d) : Digit(w, pow(k)) = 1}
  BY BitsAreDigits DEF pow
<1> QED
  BY <1>6, <1>7, <1>8 DEF pow

\* The partial sums of a multiplication.
PartialSums(f, a, b, d) ==
  /\ f[0] = {}
  /\ \A k \in 1..d.bits :
       f[k] = IF k - 1 \in b THEN AddBits(f[k - 1], Shifted(a, k - 1, d), FALSE, d) ELSE f[k - 1]
  /\ MulBits(a, b, d) = f[d.bits]

\* There are such sums.
LEMMA PartialSumsRun ==
  ASSUME NEW a, NEW b, NEW d, d.bits \in Nat
  PROVE  \E f \in [0..d.bits -> SUBSET Positions(d)] : PartialSums(f, a, b, d)
<1> DEFINE n == d.bits
           S == SUBSET Positions(d)
           more(k, x) == IF k - 1 \in b THEN AddBits(x, Shifted(a, k - 1, d), FALSE, d) ELSE x
           step == [k \in Nat |-> [x \in S |-> more(k, x)]]
           body(f) == [k \in 0..d.bits |->
                         IF k = 0 THEN {}
                         ELSE IF k - 1 \in b THEN AddBits(f[k - 1], Shifted(a, k - 1, d), FALSE, d)
                         ELSE f[k - 1]]
           sum == CHOOSE f : f = body(f)
<1>1. \A k : \A x \in S : more(k, x) \in S
  BY DEF AddBits
<1>2. step \in [Nat -> [S -> S]]
  <2> HIDE DEF more, S
  <2> QED
    BY <1>1
<1>3. PICK f \in [0..n -> S] : Unrolls(f, {}, step, n)
  <2>1. {} \in S
    OBVIOUS
  <2> HIDE DEF step, S
  <2> QED
    BY <1>2, <2>1, RecursionOverInterval
<1>4. \A k \in 1..n : f[k] = more(k, f[k - 1])
  <2> TAKE k \in 1..n
  <2>1. k \in Nat /\ k - 1 \in 0..n
    OBVIOUS
  <2>2. f[k - 1] \in S /\ f[k] = step[k][f[k - 1]]
    BY <1>3, <2>1 DEF Unrolls
  <2> HIDE DEF more, S
  <2> QED
    BY <2>1, <2>2
<1>5. f = body(f)
  <2>1. \A k \in 0..n : f[k] = IF k = 0 THEN {} ELSE more(k, f[k - 1])
    <3> HIDE DEF more, step
    <3>1. f[0] = {}
      BY <1>3 DEF Unrolls
    <3>2. \A k \in 0..n : k = 0 \/ k \in 1..n
      OBVIOUS
    <3>3. \A k \in 1..n : k # 0
      OBVIOUS
    <3> QED
      BY <1>4, <3>1, <3>2, <3>3
  <2>2. f = [k \in 0..n |-> f[k]]
    BY <1>3
  <2> QED
    BY <2>1, <2>2
<1>6. sum = body(sum)
  <2> HIDE DEF body
  <2> QED
    BY <1>5
<1>7. /\ sum = [k \in 0..n |-> sum[k]]
      /\ \A k \in 0..n : sum[k] = IF k = 0 THEN {} ELSE more(k, sum[k - 1])
  <2> HIDE DEF sum
  <2>1. \A k \in 0..n : sum[k] = IF k = 0 THEN {} ELSE more(k, sum[k - 1])
    BY <1>6
  <2>2. body(sum) = [k \in 0..n |-> body(sum)[k]]
    OBVIOUS
  <2> HIDE DEF body
  <2> QED
    BY <1>6, <2>1, <2>2
<1>8. MulBits(a, b, d) = sum[d.bits]
  BY DEF MulBits
<1> HIDE DEF sum
<1>9. 0 \in 0..n /\ \A k \in 1..n : k \in 0..n /\ k # 0
  OBVIOUS
<1>10. sum[0] = {} /\ \A k \in 1..n : sum[k] = more(k, sum[k - 1])
  <2> HIDE DEF more
  <2> QED
    BY <1>7, <1>9
<1>11. \A k \in 0..n : sum[k] \in S
  <2> DEFINE T == {k \in 0..n : sum[k] \in S}
  <2>1. 0 \in T
    BY <1>9, <1>10
  <2>2. \A k \in 1..n : k - 1 \in T => k \in T
    <3> HIDE DEF more, S
    <3> QED
      BY <1>1, <1>9, <1>10
  <2>3. \A k \in 0..n : k \in T
    <3> HIDE DEF T
    <3> QED
      BY <2>1, <2>2, UpTheInterval
  <2> QED
    BY <2>3
<1>12. sum \in [0..n -> S]
  <2> HIDE DEF S
  <2> QED
    BY <1>7, <1>11
<1>13. PartialSums(sum, a, b, d)
  BY <1>8, <1>10 DEF PartialSums
<1> HIDE DEF S
<1> QED
  BY <1>12, <1>13 DEF S

\* Shifting and adding is multiplication.
LEMMA MultiplicationIsShifted ==
  ASSUME NEW d \in Dtypes, NEW a \in Int, NEW b \in Int
  PROVE  MulBits(Bits(a, d), Bits(b, d), d) = Bits(a * b, d)
<1> DEFINE n == d.bits
           abits == Bits(a, d)
           bbits == Bits(b, d)
           pow(k) == WeightAt(k, d)
           upTo(k) == a * (b % pow(k))
<1>1. /\ n \in Nat /\ n > 0 /\ pow(0) = 1 /\ pow(n) = Size(d)
      /\ \A k \in 0..n : pow(k) \in Nat /\ pow(k) > 0
      /\ \A k \in 1..n : pow(k) = 2 * pow(k - 1)
      /\ \A k \in Positions(d) : k \in 0..n
  BY Powers
<1>2. PICK f \in [0..n -> SUBSET Positions(d)] : PartialSums(f, abits, bbits, d)
  <2> HIDE DEF abits, bbits
  <2> QED
    BY <1>1, PartialSumsRun
<1> DEFINE T == {k \in 0..n : f[k] = Bits(upTo(k), d)}
<1>3. 0 \in T
  <2>1. b % 1 = 0 /\ a * 0 = 0
    OBVIOUS
  <2>2. upTo(0) = 0 /\ 0 \in 0..n
    BY <1>1, <2>1
  <2>3. f[0] = {} /\ Bits(0, d) = {}
    BY <1>2, BitsOfTruths DEF PartialSums
  <2> HIDE DEF upTo
  <2> QED
    BY <2>2, <2>3
<1>4. ASSUME NEW k \in 1..n, k - 1 \in T
      PROVE  k \in T
  <2> DEFINE j == k - 1
             p == pow(j)
             x == b % p
  <2>1. j \in Positions(d) /\ k \in 0..n
    BY <1>1 DEF Positions
  <2>2. p \in Nat /\ p > 0 /\ pow(k) = 2 * p
    BY <1>1, <2>1
  <2>3. Digit(b, p) \in {0, 1} /\ x \in Nat /\ b % (2 * p) = x + (IF Digit(b, p) = 1 THEN p ELSE 0)
    <3> HIDE DEF p
    <3>1. /\ Digit(b, p) \in {0, 1} /\ (b % p) \in 0..(p - 1)
          /\ b % (2 * p) = (b % p) + (IF Digit(b, p) = 1 THEN p ELSE 0)
      BY <2>2, DigitSplits
    <3> QED
      BY <2>2, <3>1
  <2>4. j \in bbits <=> Digit(b, p) = 1
    BY <2>1, BitsAreDigits
  <2>5. f[j] = Bits(a * x, d)
    BY <1>4
  <2>6. f[k] = IF j \in bbits THEN AddBits(f[j], Shifted(abits, j, d), FALSE, d) ELSE f[j]
    BY <1>2 DEF PartialSums
  <2>7. Shifted(abits, j, d) = Bits(a * p, d)
    <3> HIDE DEF j
    <3> QED
      BY <2>1, ShiftIs
  <2> HIDE DEF p, x, j
  <2>8. a * x \in Int /\ a * p \in Int /\ a * x + a * p = a * (x + p)
    BY <2>2, <2>3
  <2>9. AddBits(Bits(a * x, d), Bits(a * p, d), FALSE, d) = Bits(a * (x + p), d)
    <3> DEFINE u == a * x
               v == a * p
    <3>1. u \in Int /\ v \in Int /\ u + v + 0 = a * (x + p) /\ Truth(FALSE) = 0
      BY <2>8 DEF Truth
    <3> HIDE DEF u, v
    <3>2. AddBits(Bits(u, d), Bits(v, d), FALSE, d) = Bits(u + v + Truth(FALSE), d)
      BY <3>1, AdditionIsCarried
    <3> QED
      BY <3>1, <3>2 DEF u, v
  <2>10. upTo(k) = IF Digit(b, p) = 1 THEN a * (x + p) ELSE a * x
    BY <2>2, <2>3
  <2> HIDE DEF upTo
  <2>11. f[k] = Bits(upTo(k), d)
    BY <2>4, <2>5, <2>6, <2>7, <2>9, <2>10
  <2> QED
    BY <2>1, <2>11
<1>5. \A k \in 0..n : k \in T
  <2> HIDE DEF T
  <2> QED
    BY <1>1, <1>3, <1>4, UpTheInterval
<1>6. MulBits(abits, bbits, d) = Bits(upTo(n), d)
  BY <1>1, <1>2, <1>5 DEF PartialSums
<1>7. Bits(upTo(n), d) = Bits(a * b, d)
  <2> DEFINE s == Size(d)
             q == b \div s
             r == b % s
  <2>1. s \in Nat /\ s > 0
    BY <1>1
  <2>2. r \in Int /\ q \in Int /\ b = q * s + r
    <3> HIDE DEF s
    <3> QED
      BY <2>1, Remainder
  <2>3. upTo(n) = a * r
    BY <1>1
  <2> HIDE DEF q, r, s
  <2>4. a * r = a * b + (-(a * q)) * s /\ a * r \in Int /\ a * b \in Int /\ -(a * q) \in Int
    <3>1. a * b = a * (q * s + r)
      BY <2>2
    <3>2. a * (q * s + r) = (a * q) * s + a * r
      BY <2>1, <2>2
    <3>3. a * q \in Int /\ a * r \in Int
      BY <2>2
    <3> DEFINE u == a * q
               v == a * r
    <3> HIDE DEF u, v
    <3>4. v = (u * s + v) + (-u) * s
      BY <2>1, <3>3 DEF u, v
    <3> QED
      BY <3>1, <3>2, <3>3, <3>4 DEF u, v
  <2>5. Congruent(a * r, a * b, d)
    BY <2>4 DEF Congruent, s
  <2> DEFINE v == a * r
             w == a * b
  <2> HIDE DEF v, w
  <2>6. Bits(v, d) = Bits(w, d)
    BY <2>4, <2>5, BitsOfCongruent DEF v, w
  <2> QED
    BY <2>3, <2>6 DEF v, w
<1> QED
  BY <1>6, <1>7

\* The top digit of a value of the dtype is its sign or its upper half.
LEMMA TopDigit ==
  ASSUME NEW d \in Dtypes, NEW a \in Int, InRange(a, d)
  PROVE  /\ TopBit(d) \in Positions(d) /\ (a % d.half) \in 0..(d.half - 1)
         /\ a = (a % d.half) + (IF TopBit(d) \in Bits(a, d)
                                THEN IF d.signed THEN -d.half ELSE d.half ELSE 0)
         /\ a \div d.half = IF TopBit(d) \in Bits(a, d) THEN IF d.signed THEN -1 ELSE 1 ELSE 0
         /\ d.signed => (TopBit(d) \in Bits(a, d) <=> a < 0)
<1> DEFINE h == d.half
           q == a \div h
           r == a % h
           is == TopBit(d) \in Bits(a, d)
<1>1. h \in Nat /\ h > 0 /\ d.signed \in BOOLEAN
  BY DtypesAssumption
<1>2. TopBit(d) \in Positions(d) /\ WeightAt(TopBit(d), d) = h
  BY Powers DEF TopBit, Positions
<1>3. is <=> q % 2 = 1
  BY <1>2, BitsAreDigits DEF Digit
<1>4. IF d.signed THEN a \in (-h)..(h - 1) ELSE a \in 0..(2 * h - 1)
  BY DEF InRange, Lowest, Highest, Size
<1> HIDE DEF h
<1>5. \A i \in Int : a - i * h \in 0..(h - 1) => q = i /\ r = a - i * h
  <2> TAKE i \in Int
  <2> HAVE a - i * h \in 0..(h - 1)
  <2>1. i * h \in Int
    BY <1>1
  <2> DEFINE m == i * h
             low == a - m
  <2>2. a = m + low /\ low \in 0..(h - 1)
    BY <2>1
  <2> HIDE DEF low
  <2> QED
    BY <1>1, <2>2, DivisionIs DEF low
<1>6. CASE d.signed /\ a < 0
  <2>1. a - (-1) * h \in 0..(h - 1)
    BY <1>1, <1>4, <1>6
  <2>2. q = -1 /\ r = a + h
    <3>1. q = -1 /\ r = a - (-1) * h
      BY <1>5, <2>1
    <3> QED
      BY <1>1, <3>1
  <2> HIDE DEF q, r, is
  <2>3. is /\ r \in 0..(h - 1) /\ a = r + (-h)
    BY <1>1, <1>3, <1>4, <1>6, <2>2, OddAndEven
  <2> QED
    BY <1>2, <1>6, <2>2, <2>3 DEF q, r, is, h
<1>7. CASE ~d.signed /\ a >= h
  <2>1. a - 1 * h \in 0..(h - 1)
    BY <1>1, <1>4, <1>7
  <2>2. q = 1 /\ r = a - h
    <3>1. q = 1 /\ r = a - 1 * h
      BY <1>5, <2>1
    <3> QED
      BY <1>1, <3>1
  <2> HIDE DEF q, r, is
  <2>3. is /\ r \in 0..(h - 1) /\ a = r + h
    BY <1>1, <1>3, <1>4, <1>7, <2>2
  <2> QED
    BY <1>2, <1>7, <2>2, <2>3 DEF q, r, is, h
<1>8. CASE (d.signed /\ a >= 0) \/ (~d.signed /\ a < h)
  <2>1. a - 0 * h \in 0..(h - 1)
    BY <1>1, <1>4, <1>8
  <2>2. q = 0 /\ r = a
    <3>1. q = 0 /\ r = a - 0 * h
      BY <1>5, <2>1
    <3> QED
      BY <1>1, <3>1
  <2> HIDE DEF q, r, is
  <2>3. ~is /\ r \in 0..(h - 1) /\ a = r + 0
    BY <1>1, <1>3, <1>4, <1>8, <2>2
  <2>4. d.signed => ~(a < 0)
    BY <1>8
  <2> QED
    BY <1>2, <2>2, <2>3, <2>4 DEF q, r, is, h
<1> QED
  BY <1>1, <1>6, <1>7, <1>8

\* The positions where bits differ, and the greatest of them below one.
DecidedBelow(ones, others, k) ==
  \E i \in SymDiff(ones, others) :
     i < k /\ i \in others /\ \A m \in SymDiff(ones, others) : m < k => m <= i

\* What is left of two values is ordered by the first bit, from the top, that differs.
LEMMA OrderIsDecided ==
  ASSUME NEW d \in Dtypes, NEW a \in Int, NEW b \in Int
  PROVE  \A k \in 0..d.bits :
           (a % WeightAt(k, d)) < (b % WeightAt(k, d)) <=> DecidedBelow(Bits(a, d), Bits(b, d), k)
<1> DEFINE n == d.bits
           abits == Bits(a, d)
           bbits == Bits(b, d)
           differ == SymDiff(abits, bbits)
           pow(k) == WeightAt(k, d)
           T == {k \in 0..n : (a % pow(k)) < (b % pow(k)) <=> DecidedBelow(abits, bbits, k)}
<1>1. /\ n \in Nat /\ n > 0 /\ pow(0) = 1
      /\ \A k \in 0..n : pow(k) \in Nat /\ pow(k) > 0
      /\ \A k \in 1..n : pow(k) = 2 * pow(k - 1)
      /\ \A k \in Positions(d) : k \in 0..n
  BY Powers
<1>2. abits \subseteq Positions(d) /\ bbits \subseteq Positions(d) /\ differ \subseteq Nat
  BY <1>1 DEF Bits, SymDiff, Positions
<1>3. \A k : k \in differ <=> ~(k \in abits <=> k \in bbits)
  BY DEF SymDiff
<1>4. 0 \in T
  <2>1. \A v \in Int : v % 1 = 0
    OBVIOUS
  <2>2. ~((a % pow(0)) < (b % pow(0)))
    BY <1>1, <2>1
  <2>3. ~DecidedBelow(abits, bbits, 0)
    BY <1>2 DEF DecidedBelow
  <2> QED
    BY <1>1, <2>2, <2>3
<1>5. ASSUME NEW k \in 1..n, k - 1 \in T
      PROVE  k \in T
  <2> DEFINE j == k - 1
             p == pow(j)
             da == Digit(a, p)
             db == Digit(b, p)
             ra == a % p
             rb == b % p
  <2>1. j \in Positions(d) /\ j \in Nat /\ k = j + 1 /\ k \in 0..n
    BY <1>1 DEF Positions
  <2>2. p \in Nat /\ p > 0 /\ pow(k) = 2 * p
    BY <1>1, <2>1
  <2>3. /\ da \in {0, 1} /\ ra \in 0..(p - 1) /\ a % (2 * p) = ra + (IF da = 1 THEN p ELSE 0)
        /\ db \in {0, 1} /\ rb \in 0..(p - 1) /\ b % (2 * p) = rb + (IF db = 1 THEN p ELSE 0)
    <3> HIDE DEF p
    <3>1. /\ Digit(a, p) \in {0, 1} /\ (a % p) \in 0..(p - 1)
          /\ a % (2 * p) = (a % p) + (IF Digit(a, p) = 1 THEN p ELSE 0)
      BY <2>2, DigitSplits
    <3>2. /\ Digit(b, p) \in {0, 1} /\ (b % p) \in 0..(p - 1)
          /\ b % (2 * p) = (b % p) + (IF Digit(b, p) = 1 THEN p ELSE 0)
      BY <2>2, DigitSplits
    <3> QED
      BY <3>1, <3>2
  <2>4. (j \in abits <=> da = 1) /\ (j \in bbits <=> db = 1)
    BY <2>1, BitsAreDigits
  <2>5. ra < rb <=> DecidedBelow(abits, bbits, j)
    BY <1>5
  <2> HIDE DEF p, da, db, ra, rb, j
  <2>6. CASE da = db
    <3>1. j \notin differ
      BY <1>3, <2>4, <2>6
    <3>2. \A m \in differ : m < k <=> m < j
      <4> HIDE DEF differ
      <4> QED
        BY <1>2, <2>1, <3>1
    <3>3. DecidedBelow(abits, bbits, k) <=> DecidedBelow(abits, bbits, j)
      BY <3>2 DEF DecidedBelow
    <3>4. a % (2 * p) < b % (2 * p) <=> ra < rb
      BY <2>2, <2>3, <2>6
    <3> QED
      BY <2>1, <2>2, <2>5, <3>3, <3>4
  <2>7. CASE da # db
    <3>1. j \in differ
      BY <1>3, <2>3, <2>4, <2>7
    <3>2. DecidedBelow(abits, bbits, k) <=> j \in bbits
      <4>1. ASSUME j \in bbits PROVE DecidedBelow(abits, bbits, k)
        <5>1. j < k /\ \A m \in differ : m < k => m <= j
          <6> HIDE DEF differ
          <6> QED
            BY <1>2, <2>1
        <5> QED
          BY <3>1, <4>1, <5>1 DEF DecidedBelow
      <4>2. ASSUME DecidedBelow(abits, bbits, k) PROVE j \in bbits
        <5>1. PICK i \in differ : i < k /\ i \in bbits /\ \A m \in differ : m < k => m <= i
          BY <4>2 DEF DecidedBelow
        <5> HIDE DEF differ
        <5>2. i = j
          BY <1>2, <2>1, <3>1, <5>1
        <5> QED
          BY <5>1, <5>2
      <4> QED
        BY <4>1, <4>2
    <3>3. a % (2 * p) < b % (2 * p) <=> db = 1
      BY <2>2, <2>3, <2>7
    <3> QED
      BY <2>1, <2>2, <2>4, <3>2, <3>3
  <2> QED
    BY <2>6, <2>7
<1>6. \A k \in 0..n : k \in T
  <2> HIDE DEF T
  <2> QED
    BY <1>1, <1>4, <1>5, UpTheInterval
<1> QED
  BY <1>6

\* Comparing the bits compares the values.
LEMMA LessIsDecided ==
  ASSUME NEW d \in Dtypes, NEW a \in Int, InRange(a, d), NEW b \in Int, InRange(b, d)
  PROVE  LessBits(Bits(a, d), Bits(b, d), d) <=> a < b
<1> DEFINE h == d.half
           t == TopBit(d)
           abits == Bits(a, d)
           bbits == Bits(b, d)
           differ == SymDiff(abits, bbits)
           ra == a % h
           rb == b % h
           top == IF d.signed THEN -h ELSE h
<1>1. h \in Nat /\ h > 0 /\ d.signed \in BOOLEAN
  BY DtypesAssumption
<1>2. /\ ra \in 0..(h - 1) /\ a = ra + (IF t \in abits THEN top ELSE 0)
      /\ rb \in 0..(h - 1) /\ b = rb + (IF t \in bbits THEN top ELSE 0)
  BY TopDigit
<1>3. ra < rb <=> DecidedBelow(abits, bbits, t)
  <2>1. t \in 0..d.bits /\ WeightAt(t, d) = h
    BY Powers DEF TopBit
  <2> QED
    BY <2>1, OrderIsDecided
<1>4. \A k \in differ : k \in Int /\ k <= t
  <2>1. d.bits \in Nat
    BY Powers
  <2> QED
    BY <2>1 DEF Bits, SymDiff, Positions, TopBit
<1>5. \A k : k \in differ <=> ~(k \in abits <=> k \in bbits)
  BY DEF SymDiff
<1>6. t \in Int
  BY Powers DEF TopBit
<1>7. LessBits(abits, bbits, d)
        <=> \E k \in differ : /\ \A m \in differ : m <= k
                              /\ IF d.signed /\ k = t THEN k \in abits ELSE k \in bbits
  BY DEF LessBits
<1>8. DecidedBelow(abits, bbits, t)
        <=> \E k \in differ : k < t /\ k \in bbits /\ \A m \in differ : m < t => m <= k
  BY DEF DecidedBelow
<1> HIDE DEF h, t, differ, ra, rb
<1>9. CASE t \in abits <=> t \in bbits
  <2>1. \A m \in differ : m < t
    BY <1>4, <1>5, <1>6, <1>9
  <2>2. LessBits(abits, bbits, d) <=> DecidedBelow(abits, bbits, t)
    <3>1. \A k \in differ : k # t
      BY <1>5, <1>9
    <3> HIDE DEF abits, bbits
    <3> QED
      BY <1>7, <1>8, <2>1, <3>1
  <2>3. a < b <=> ra < rb
    BY <1>1, <1>2, <1>9
  <2> QED
    BY <1>3, <2>2, <2>3
<1>10. CASE ~(t \in abits <=> t \in bbits)
  <2>1. t \in differ
    BY <1>5, <1>10
  <2>2. \A k \in differ : (\A m \in differ : m <= k) <=> k = t
    BY <1>4, <1>6, <2>1
  <2>3. LessBits(abits, bbits, d) <=> IF d.signed THEN t \in abits ELSE t \in bbits
    <3> HIDE DEF abits, bbits
    <3> QED
      BY <1>7, <2>1, <2>2
  <2>4. a < b <=> IF d.signed THEN t \in abits ELSE t \in bbits
    BY <1>1, <1>2, <1>10
  <2> QED
    BY <2>3, <2>4
<1> QED
  BY <1>9, <1>10

\* Bits moved down, the sign filling in, are those of the quotient by the weight.
LEMMA RightShiftIs ==
  ASSUME NEW d \in Dtypes, NEW a \in Int, InRange(a, d), NEW sh \in Positions(d)
  PROVE  ShrBits(Bits(a, d), sh, d) = Bits(a \div WeightAt(sh, d), d)
<1> DEFINE n == d.bits
           t == TopBit(d)
           pow(k) == WeightAt(k, d)
           v == a \div pow(sh)
           abits == Bits(a, d)
<1>1. /\ n \in Nat /\ n > 0 /\ t = n - 1 /\ pow(t) = d.half
      /\ \A k \in 0..n : pow(k) \in Nat /\ pow(k) > 0
      /\ \A k \in 1..n : pow(k) = 2 * pow(k - 1)
      /\ \A k \in Positions(d) : k \in 0..n
  BY Powers DEF TopBit
<1>2. sh \in 0..(n - 1) /\ Positions(d) = 0..(n - 1)
  BY <1>1 DEF Positions
<1>3. \A i \in 0..n : \A k \in 0..(n - i) : pow(i + k) = pow(i) * pow(k)
  BY PowersMultiply
<1>4. \A i \in 0..n : \A x \in Int : \A k \in 0..n :
        (x \div pow(i)) \div pow(k) = x \div (pow(i) * pow(k)) /\ x \div pow(i) \in Int
  <2> TAKE i \in 0..n
  <2> TAKE x \in Int
  <2> TAKE k \in 0..n
  <2>1. pow(i) \in Nat /\ pow(i) > 0 /\ pow(k) \in Nat /\ pow(k) > 0
    BY <1>1
  <2> HIDE DEF pow
  <2> QED
    BY <2>1, DivisionNests
<1>5. \A k : k \in abits <=> k \in Positions(d) /\ Digit(a, pow(k)) = 1
  BY BitsAreDigits
<1>6. ASSUME NEW k \in Positions(d), k + sh <= t
      PROVE  Digit(v, pow(k)) = 1 <=> k + sh \in abits
  <2>1. sh \in 0..n /\ k \in 0..(n - sh) /\ k \in 0..n /\ sh + k = k + sh /\ k + sh \in Positions(d)
    BY <1>1, <1>2, <1>6
  <2>2. pow(k + sh) = pow(sh) * pow(k)
    BY <1>3, <2>1
  <2>3. v \div pow(k) = a \div pow(k + sh)
    <3>1. (a \div pow(sh)) \div pow(k) = a \div (pow(sh) * pow(k))
      <4> HIDE DEF pow
      <4> QED
        BY <1>4, <2>1
    <3> QED
      BY <2>2, <3>1
  <2> QED
    BY <1>5, <2>1, <2>3 DEF Digit
<1>7. ASSUME NEW k \in Positions(d), k + sh > t
      PROVE  Digit(v, pow(k)) = 1 <=> d.signed /\ t \in abits
  <2> DEFINE e == t - sh
             j == k - e
             q == a \div d.half
  <2>1. /\ sh \in 0..n /\ e \in 0..(n - sh) /\ e \in 0..n /\ sh + e = t
        /\ j \in 1..n /\ j \in 0..n /\ j \in 0..(n - e) /\ e + j = k /\ j - 1 \in 0..n
    <3>1. n \in Nat /\ t = n - 1 /\ sh \in 0..(n - 1) /\ k \in 0..(n - 1) /\ k + sh > t
      BY <1>1, <1>2, <1>7
    <3> HIDE DEF n, t
    <3> QED
      BY <3>1
  <2>2. pow(sh) * pow(e) = d.half /\ pow(e) * pow(j) = pow(k)
    <3> HIDE DEF e, j
    <3>1. pow(sh + e) = pow(sh) * pow(e) /\ pow(e + j) = pow(e) * pow(j)
      BY <1>3, <2>1
    <3> QED
      BY <1>1, <2>1, <3>1
  <2> HIDE DEF e, j
  <2>3. v \div pow(e) = q /\ v \in Int
    BY <1>4, <2>1, <2>2
  <2>4. v \div pow(k) = q \div pow(j)
    <3>1. (v \div pow(e)) \div pow(j) = v \div (pow(e) * pow(j))
      <4> HIDE DEF v, pow
      <4> QED
        BY <1>4, <2>1, <2>3
    <3> QED
      BY <2>2, <2>3, <3>1
  <2>5. q = IF t \in abits THEN IF d.signed THEN -1 ELSE 1 ELSE 0
    BY TopDigit
  <2>6. pow(j) \in Nat /\ pow(j) > 1
    BY <1>1, <2>1
  <2>7. \A p \in Nat : p > 1 => (-1) \div p = -1 /\ 0 \div p = 0 /\ 1 \div p = 0
    <3> TAKE p \in Nat
    <3> HAVE p > 1
    <3>1. -1 = (-1) * p + (p - 1) /\ 0 = 0 * p + 0 /\ 1 = 0 * p + 1
      OBVIOUS
    <3>2. p - 1 \in 0..(p - 1) /\ 0 \in 0..(p - 1) /\ 1 \in 0..(p - 1)
      OBVIOUS
    <3> QED
      OBVIOUS
  <2>8. (v \div pow(k)) % 2 = 1 <=> q = -1
    <3> DEFINE p == pow(j)
    <3>1. p \in Nat /\ p > 1 /\ v \div pow(k) = q \div p
      BY <2>4, <2>6
    <3> HIDE DEF p, q, v, pow
    <3>2. q \in {-1, 0, 1}
      BY <2>5
    <3>3. q \div p = IF q = -1 THEN -1 ELSE 0
      BY <2>7, <3>1, <3>2
    <3> QED
      BY <3>1, <3>3, OddAndEven
  <2>9. q = -1 <=> d.signed /\ t \in abits
    BY <2>5
  <2> QED
    BY <2>8, <2>9 DEF Digit
<1>8. ASSUME NEW k \in Positions(d)
      PROVE  Digit(v, pow(k)) = 1
               <=> k + sh \in abits \/ (k + sh > t /\ d.signed /\ t \in abits)
  <2>1. k + sh \in Int /\ t \in Int /\ (k + sh > t => k + sh \notin Positions(d))
    BY <1>1, <1>2
  <2>2. k + sh > t => k + sh \notin abits
    BY <1>5, <2>1
  <2>3. k + sh <= t \/ k + sh > t
    BY <2>1
  <2>4. ~(k + sh <= t /\ k + sh > t)
    BY <2>1
  <2> QED
    BY <1>6, <1>7, <2>2, <2>3, <2>4
<1>9. Bits(v, d) = {k \in Positions(d) : Digit(v, pow(k)) = 1}
  BY BitsAreDigits
<1> HIDE DEF pow, v, abits, t
<1>10. ShrBits(abits, sh, d)
         = {k \in Positions(d) : k + sh \in abits \/ (k + sh > t /\ d.signed /\ t \in abits)}
  BY DEF ShrBits, t
<1> QED
  BY <1>8, <1>9, <1>10 DEF v, pow, abits

\* Wrapping, in the lane and to the dtype, keeps the bits.
LEMMA KeptBits ==
  ASSUME NEW d \in Dtypes, NEW v \in Int
  PROVE  Bits(Wrap(v, d), d) = Bits(v, d) /\ Bits(Wrap(Lane(v), d), d) = Bits(v, d)
<1>1. Lane(v) \in Int /\ Congruent(Lane(v), v, d)
      /\ Wrap(v, d) \in Int /\ Congruent(Wrap(v, d), v, d)
  BY TruncationCongruent
<1>2. Wrap(Lane(v), d) \in Int /\ Congruent(Wrap(Lane(v), d), Lane(v), d)
  BY <1>1, TruncationCongruent
<1>3. Bits(Wrap(v, d), d) = Bits(v, d) /\ Bits(Lane(v), d) = Bits(v, d)
  BY <1>1, BitsOfCongruent
<1>4. Bits(Wrap(Lane(v), d), d) = Bits(Lane(v), d)
  BY <1>1, <1>2, BitsOfCongruent
<1> QED
  BY <1>3, <1>4

\* Subtraction and negation add the complement and one.
LEMMA SubtractionIsCarried ==
  ASSUME NEW d \in Dtypes, NEW a \in Int, NEW b \in Int
  PROVE  /\ AddBits(Bits(a, d), Complement(Bits(b, d), d), TRUE, d) = Bits(a - b, d)
         /\ NegBits(Bits(a, d), d) = Bits(-a, d)
<1>1. \A x, y \in Int : AddBits(Bits(x, d), Complement(Bits(y, d), d), TRUE, d) = Bits(x - y, d)
  <2> SUFFICES ASSUME NEW x \in Int, NEW y \in Int
               PROVE  AddBits(Bits(x, d), Complement(Bits(y, d), d), TRUE, d) = Bits(x - y, d)
    OBVIOUS
  <2> DEFINE z == -1 - y
  <2>1. z \in Int /\ x + z + 1 = x - y /\ Truth(TRUE) = 1
    BY DEF Truth
  <2>2. Complement(Bits(y, d), d) = Bits(z, d)
    BY ComplementIs
  <2> HIDE DEF z
  <2>3. AddBits(Bits(x, d), Bits(z, d), TRUE, d) = Bits(x + z + Truth(TRUE), d)
    BY <2>1, AdditionIsCarried
  <2> QED
    BY <2>1, <2>2, <2>3
<1>2. NegBits(Bits(a, d), d) = AddBits(Bits(0, d), Complement(Bits(a, d), d), TRUE, d)
  BY BitsOfTruths DEF NegBits
<1>3. 0 - a = -a /\ 0 \in Int
  OBVIOUS
<1> QED
  BY <1>1, <1>2, <1>3

\* An operation on one operand does what its circuit does,
LEMMA UnaryIsCircuit ==
  ASSUME NEW d \in Dtypes, NEW a \in Int, InRange(a, d), NEW op \in {"neg", "abs", "sqr"}
  PROVE  Bits(EvalUnary(op, a, d), d) = Circuit(op, Bits(a, d), Bits(a, d), a, d)
<1> DEFINE abits == Bits(a, d)
<1>1. -a \in Int /\ a * a \in Int /\ (IF a < 0 THEN -a ELSE a) \in Int
  OBVIOUS
<1>2. CASE op = "neg"
  <2>1. Bits(EvalUnary(op, a, d), d) = Bits(-a, d)
    BY <1>1, <1>2, KeptBits DEF EvalUnary, IntNeg
  <2>2. Circuit(op, abits, abits, a, d) = NegBits(abits, d)
    BY <1>2 DEF Circuit
  <2> QED
    BY <2>1, <2>2, SubtractionIsCarried
<1>3. CASE op = "abs"
  <2> DEFINE size == IF a < 0 THEN -a ELSE a
  <2>1. Bits(EvalUnary(op, a, d), d) = Bits(size, d)
    <3>1. EvalUnary(op, a, d) = Wrap(Lane(size), d)
      BY <1>3 DEF EvalUnary, IntAbs
    <3>2. size \in Int
      BY <1>1
    <3> HIDE DEF size
    <3> QED
      BY <3>1, <3>2, KeptBits
  <2>2. Circuit(op, abits, abits, a, d)
          = IF d.signed /\ TopBit(d) \in abits THEN NegBits(abits, d) ELSE abits
    BY <1>3 DEF Circuit
  <2>3. a < 0 <=> d.signed /\ TopBit(d) \in abits
    <3>1. d.signed \in BOOLEAN /\ (~d.signed => a >= 0)
      BY DtypesAssumption DEF InRange, Lowest, Highest, Size
    <3> QED
      BY <3>1, TopDigit
  <2>4. NegBits(abits, d) = Bits(-a, d)
    BY SubtractionIsCarried
  <2> HIDE DEF abits
  <2> QED
    BY <2>1, <2>2, <2>3, <2>4 DEF abits
<1>4. CASE op = "sqr"
  <2> DEFINE sq == a * a
  <2>1. Bits(EvalUnary(op, a, d), d) = Bits(sq, d)
    <3>1. EvalUnary(op, a, d) = Wrap(Lane(sq), d) /\ sq \in Int
      BY <1>4 DEF EvalUnary, IntMul
    <3> HIDE DEF sq
    <3> QED
      BY <3>1, KeptBits
  <2>2. Circuit(op, abits, abits, a, d) = MulBits(abits, abits, d)
    BY <1>4 DEF Circuit
  <2> QED
    BY <2>1, <2>2, MultiplicationIsShifted
<1> QED
  BY <1>2, <1>3, <1>4

\* and so does one on two.
LEMMA BinaryIsCircuit ==
  ASSUME NEW d \in Dtypes, NEW a \in Int, InRange(a, d), NEW b \in Int, InRange(b, d),
         NEW op \in {"add", "sub", "mul", "cmp_lt", "cmp_ge", "max_prop", "shl", "shr"}
  PROVE  Bits(EvalBinary(op, a, b, d), d) = Circuit(op, Bits(a, d), Bits(b, d), b, d)
<1> DEFINE abits == Bits(a, d)
           bbits == Bits(b, d)
           sum == a + b
           difference == a - b
           product == a * b
<1>1. sum \in Int /\ difference \in Int /\ product \in Int
  OBVIOUS
<1>2. CASE op = "add"
  <2>1. EvalBinary(op, a, b, d) = Wrap(Lane(sum), d)
        /\ Circuit(op, abits, bbits, b, d) = AddBits(abits, bbits, FALSE, d)
    BY <1>2 DEF EvalBinary, IntAdd, Circuit
  <2>2. AddBits(abits, bbits, FALSE, d) = Bits(sum, d)
    <3>1. AddBits(abits, bbits, FALSE, d) = Bits(a + b + Truth(FALSE), d)
      BY AdditionIsCarried
    <3>2. a + b + Truth(FALSE) = sum
      BY DEF Truth
    <3> QED
      BY <3>1, <3>2
  <2> HIDE DEF sum
  <2> QED
    BY <1>1, <2>1, <2>2, KeptBits
<1>3. CASE op = "sub"
  <2>1. EvalBinary(op, a, b, d) = Wrap(Lane(difference), d)
        /\ Circuit(op, abits, bbits, b, d) = AddBits(abits, Complement(bbits, d), TRUE, d)
    BY <1>3 DEF EvalBinary, IntSub, Circuit
  <2>2. AddBits(abits, Complement(bbits, d), TRUE, d) = Bits(difference, d)
    BY SubtractionIsCarried
  <2> HIDE DEF difference
  <2> QED
    BY <1>1, <2>1, <2>2, KeptBits
<1>4. CASE op = "mul"
  <2>1. EvalBinary(op, a, b, d) = Wrap(Lane(product), d)
        /\ Circuit(op, abits, bbits, b, d) = MulBits(abits, bbits, d)
    BY <1>4 DEF EvalBinary, IntMul, Circuit
  <2>2. MulBits(abits, bbits, d) = Bits(product, d)
    BY MultiplicationIsShifted
  <2> HIDE DEF product
  <2> QED
    BY <1>1, <2>1, <2>2, KeptBits
<1>5. CASE op \in {"cmp_lt", "cmp_ge", "max_prop"}
  <2>1. LessBits(abits, bbits, d) <=> a < b
    BY LessIsDecided
  <2>2. Bits(0, d) = {} /\ Bits(1, d) = {0}
    BY BitsOfTruths
  <2>3. CASE op = "cmp_lt"
    <3>1. EvalBinary(op, a, b, d) = IF a < b THEN 1 ELSE 0
      BY <2>3 DEF EvalBinary, Truth
    <3>2. Circuit(op, abits, bbits, b, d) = IF LessBits(abits, bbits, d) THEN {0} ELSE {}
      BY <2>3 DEF Circuit
    <3> QED
      BY <2>1, <2>2, <3>1, <3>2
  <2>4. CASE op = "cmp_ge"
    <3>1. EvalBinary(op, a, b, d) = IF a < b THEN 0 ELSE 1
      BY <2>4 DEF EvalBinary, Truth
    <3>2. Circuit(op, abits, bbits, b, d) = IF LessBits(abits, bbits, d) THEN {} ELSE {0}
      BY <2>4 DEF Circuit
    <3> QED
      BY <2>1, <2>2, <3>1, <3>2
  <2>5. CASE op = "max_prop"
    <3>1. EvalBinary(op, a, b, d) = IF a < b THEN b ELSE a
      BY <2>5 DEF EvalBinary, IntMax
    <3>2. Circuit(op, abits, bbits, b, d) = IF LessBits(abits, bbits, d) THEN bbits ELSE abits
      BY <2>5 DEF Circuit
    <3> QED
      BY <2>1, <3>1, <3>2
  <2> QED
    BY <1>5, <2>3, <2>4, <2>5
<1>6. CASE op = "shl"
  <2>1. EvalBinary(op, a, b, d) = Shl(a, b, d)
        /\ Circuit(op, abits, bbits, b, d) = IF ShiftInRange(b, d) THEN Shifted(abits, b, d) ELSE {}
    BY <1>6 DEF EvalBinary, Circuit
  <2>2. CASE b \notin Positions(d)
    <3>1. Shl(a, b, d) = 0 /\ Circuit(op, abits, bbits, b, d) = {}
      BY <2>1, <2>2 DEF Shl, ShiftInRange
    <3> QED
      BY <2>1, <3>1, BitsOfTruths
  <2>3. CASE b \in Positions(d)
    <3> DEFINE p == Pattern(a, d)
               w == WeightAt(b, d)
               x == p * w
               y == a * w
    <3>1. w = Weight(b, d) /\ w \in Nat
      BY <2>3, Powers
    <3>2. Shl(a, b, d) = Wrap(Lane(x), d)
      BY <2>3, <3>1 DEF Shl, ShiftInRange
    <3>3. IsDtype(d) /\ p \in Int /\ Congruent(p, a, d) /\ Congruent(w, w, d)
      <4>1. IsDtype(d) /\ Size(d) \in Nat /\ Size(d) > 0
        BY DtypeFitsLane
      <4> DEFINE q == a \div Size(d)
      <4>2. p \in 0..(Size(d) - 1) /\ q \in Int /\ a = q * Size(d) + p
        BY <4>1, Remainder DEF Pattern
      <4> HIDE DEF p, q, w
      <4>3. p = a + (-q) * Size(d) /\ -q \in Int
        BY <4>1, <4>2
      <4>4. Congruent(p, a, d)
        BY <4>3 DEF Congruent
      <4>5. Congruent(w, w, d)
        BY <3>1, TruncationCongruent
      <4> QED
        BY <4>1, <4>2, <4>4, <4>5
    <3>4. x \in Int /\ y \in Int /\ Congruent(x, y, d)
      <4> HIDE DEF p, w
      <4>1. w \in Int
        BY <3>1
      <4>2. Congruent(p * w, a * w, d)
        BY <3>3, <4>1, RingCongruence
      <4>3. p * w \in Int /\ a * w \in Int
        BY <3>3, <4>1
      <4> QED
        BY <4>2, <4>3
    <3>5. Shifted(abits, b, d) = Bits(y, d)
      BY <2>3, ShiftIs
    <3> HIDE DEF x, y
    <3>6. Bits(x, d) = Bits(y, d)
      BY <3>4, BitsOfCongruent
    <3>7. Bits(Wrap(Lane(x), d), d) = Bits(x, d)
      BY <3>4, KeptBits
    <3>8. Circuit(op, abits, bbits, b, d) = Shifted(abits, b, d)
      BY <2>1, <2>3 DEF ShiftInRange
    <3> QED
      BY <2>1, <3>2, <3>5, <3>6, <3>7, <3>8
  <2> QED
    BY <2>2, <2>3
<1>7. CASE op = "shr"
  <2>1. EvalBinary(op, a, b, d) = Shr(a, b, d)
        /\ Circuit(op, abits, bbits, b, d) = IF ShiftInRange(b, d) THEN ShrBits(abits, b, d) ELSE {}
    BY <1>7 DEF EvalBinary, Circuit
  <2>2. CASE b \notin Positions(d)
    <3>1. Shr(a, b, d) = 0 /\ Circuit(op, abits, bbits, b, d) = {}
      BY <2>1, <2>2 DEF Shr, ShiftInRange
    <3> QED
      BY <2>1, <3>1, BitsOfTruths
  <2>3. CASE b \in Positions(d)
    <3> DEFINE w == WeightAt(b, d)
               x == a \div w
    <3>1. w = Weight(b, d) /\ w \in Nat /\ w > 0
      BY <2>3, Powers
    <3>2. ~d.signed => Pattern(a, d) = a
      <4>1. IsDtype(d) /\ Size(d) \in Nat /\ Size(d) > 0
        BY DtypeFitsLane
      <4>2. ~d.signed => Wrap(a, d) = a
        BY <4>1, WrapIdentity
      <4> QED
        BY <4>2 DEF Wrap, Pattern
    <3>3. Shr(a, b, d) = Wrap(x, d)
      BY <2>3, <3>1, <3>2 DEF Shr, ShiftInRange
    <3>4. x \in Int
      <4> HIDE DEF w
      <4> QED
        BY <3>1, Remainder
    <3>5. ShrBits(abits, b, d) = Bits(x, d)
      BY <2>3, RightShiftIs
    <3> HIDE DEF x
    <3>6. Bits(Wrap(x, d), d) = Bits(x, d)
      BY <3>4, KeptBits
    <3>7. Circuit(op, abits, bbits, b, d) = ShrBits(abits, b, d)
      BY <2>1, <2>3 DEF ShiftInRange
    <3> QED
      BY <2>1, <3>3, <3>5, <3>6, <3>7
  <2> QED
    BY <2>2, <2>3
<1> QED
  BY <1>2, <1>3, <1>4, <1>5, <1>6, <1>7

\* The arithmetic, comparisons and shifts of eval_int_op (scalar_int.rs), done in a wide
\* lane and wrapped, are at every width what ripple-carry, shift-and-add and bitwise
\* circuits of that width compute.
THEOREM ScalarsMatchCircuits == ScalarSpec => []MatchesCircuit
<1>1. ScalarInv => MatchesCircuit
  <2> SUFFICES ASSUME ScalarInv, Answered, call.op \in CircuitOps
               PROVE  LET d == call.dtype
                          last == call.args[Len(call.args)]
                      IN  Bits(value, d) =
                            Circuit(call.op, Bits(call.args[1], d), Bits(last, d), last, d)
    BY DEF MatchesCircuit
  <2> DEFINE d == call.dtype
             op == call.op
             last == call.args[Len(call.args)]
  <2> SUFFICES Bits(value, d) = Circuit(op, Bits(call.args[1], d), Bits(last, d), last, d)
    OBVIOUS
  <2>1. CASE op \in {"neg", "abs", "sqr"}
    <3>1. op \in Unary
      BY <2>1 DEF Unary
    <3>2. Arity(op) = 1 /\ EvalInt(op, d, call.args) = EvalUnary(op, call.args[1], d)
      BY <2>1, <3>1 DEF Arity, Binary, EvalInt
    <3>3. last = call.args[1] /\ value = EvalUnary(op, call.args[1], d)
          /\ d \in Dtypes /\ call.args[1] \in Int /\ InRange(call.args[1], d)
      BY <3>2, AnsweredCall
    <3> HIDE DEF last
    <3> QED
      BY <2>1, <3>3, UnaryIsCircuit
  <2>2. CASE op \in {"add", "sub", "mul", "cmp_lt", "cmp_ge", "max_prop", "shl", "shr"}
    <3>1. op \in Binary /\ op \notin Unary
      BY <2>2 DEF Unary, Binary
    <3>2. Arity(op) = 2 /\ EvalInt(op, d, call.args) = EvalBinary(op, call.args[1], call.args[2], d)
      BY <2>2, <3>1 DEF Arity, EvalInt
    <3>3. last = call.args[2] /\ value = EvalBinary(op, call.args[1], call.args[2], d)
          /\ d \in Dtypes /\ call.args[1] \in Int /\ InRange(call.args[1], d)
          /\ call.args[2] \in Int /\ InRange(call.args[2], d)
      BY <3>2, AnsweredCall
    <3> HIDE DEF last
    <3> QED
      BY <2>2, <3>3, BinaryIsCircuit
  <2> QED
    BY <2>1, <2>2 DEF CircuitOps
<1> QED
  BY <1>1, ScalarInvariant, PTL

-----------------------------------------------------------------------------
\* Recipes.

\* The length of a vector.
LEMMA VectorLen ==
  ASSUME NEW n \in Nat, NEW S, NEW x \in [1..n -> S]
  PROVE  Len(x) = n /\ x \in Seq(S) /\ DOMAIN x = 1..n
  OBVIOUS

\* A lane operation on congruent operands gives the truncation of the exact result.
LEMMA RingOpTruncates ==
  ASSUME NEW d \in Dtypes, NEW a \in Int, NEW b \in Int, NEW x \in Int, NEW y \in Int,
         Congruent(a, x, d), Congruent(b, y, d)
  PROVE  /\ IntAdd(a, b, d) = Wrap(x + y, d)
         /\ IntMul(a, b, d) = Wrap(x * y, d)
         /\ IntSub(a, b, d) = Wrap(x - y, d)
         /\ IntNeg(a, d) = Wrap(-x, d)
<1>1. IsDtype(d) /\ \A v \in Int : Lane(v) \in Int /\ Congruent(Lane(v), v, d)
  BY TruncationCongruent
<1>2. IntAdd(a, b, d) = Wrap(x + y, d)
  <2>1. Congruent(a + b, x + y, d)
    BY <1>1, RingCongruence
  <2> QED
    BY <1>1, <2>1, AddTruncates, WrapUnifies
<1>3. IntMul(a, b, d) = Wrap(x * y, d)
  <2>1. Congruent(a * b, x * y, d) /\ a * b \in Int /\ x * y \in Int
    BY <1>1, RingCongruence
  <2> QED
    BY <1>1, <2>1, MulTruncates, WrapUnifies
<1>4. /\ Congruent(a - b, x - y, d) /\ Congruent(-a, -x, d)
  <2> DEFINE s == Size(d)
  <2>1. s \in Int
    BY <1>1 DEF IsDtype, Size
  <2>2. PICK k \in Int : a = x + k * s
    BY DEF Congruent
  <2>3. PICK l \in Int : b = y + l * s
    BY DEF Congruent
  <2> HIDE DEF s
  <2>4. a - b = (x - y) + (k - l) * s /\ k - l \in Int
    BY <2>1, <2>2, <2>3
  <2>5. -a = -x + (-k) * s /\ -k \in Int
    BY <2>1, <2>2
  <2> QED
    BY <2>4, <2>5 DEF Congruent, s
<1>5. \A u, v \in Int : Congruent(u, v, d) => Wrap(Lane(u), d) = Wrap(v, d)
  <2> SUFFICES ASSUME NEW u \in Int, NEW v \in Int, Congruent(u, v, d)
               PROVE  Wrap(Lane(u), d) = Wrap(v, d)
    OBVIOUS
  <2>1. Wrap(Lane(u), d) = Wrap(u, d)
    BY <1>1, WrapUnifies
  <2>2. Wrap(u, d) = Wrap(v, d)
    BY <1>1, WrapUnifies
  <2> QED
    BY <2>1, <2>2
<1>6. a - b \in Int /\ x - y \in Int /\ -a \in Int /\ -x \in Int
  OBVIOUS
<1> QED
  BY <1>2, <1>3, <1>4, <1>5, <1>6 DEF IntSub, IntNeg

\* One combine of a fold, in its dtype.
LEMMA CombineInDtype ==
  ASSUME NEW d \in Dtypes, NEW m \in Monoids, NEW a \in Int, NEW v \in Int
  PROVE  /\ Combine(m, a, v, d) \in Int
         /\ m \in {"sum", "prod"} => InRange(Combine(m, a, v, d), d)
         /\ InRange(a, d) /\ InRange(v, d) => InRange(Combine(m, a, v, d), d)
         /\ Identity(m, d) \in Int /\ InRange(Identity(m, d), d)
<1>1. IntAdd(a, v, d) \in Int /\ InRange(IntAdd(a, v, d), d)
      /\ IntMul(a, v, d) \in Int /\ InRange(IntMul(a, v, d), d)
  BY RingStaysInDtype, LaneAssumption DEF I128
<1>2. InRange(0, d) /\ InRange(1, d) /\ InRange(Lowest(d), d) /\ InRange(Highest(d), d)
      /\ Lowest(d) \in Int /\ Highest(d) \in Int
  BY DtypeFitsLane
<1> QED
  BY <1>1, <1>2 DEF Combine, Monoids, Identity, IntMax, IntMin

\* The accumulators of a fold.
LEMMA FoldedRuns ==
  ASSUME NEW d \in Dtypes, NEW m \in Monoids, NEW n \in Nat, NEW x \in [1..n -> Int]
  PROVE  /\ Folded(m, d, x) \in [0..n -> Int]
         /\ Folded(m, d, x)[0] = Identity(m, d)
         /\ \A k \in 1..n :
              Folded(m, d, x)[k] = Combine(m, Folded(m, d, x)[k - 1], x[k], d)
<1> DEFINE base == Identity(m, d)
           step == [k \in Nat |-> [a \in Int |->
                      IF k \in 1..n THEN Combine(m, a, x[k], d) ELSE a]]
           body(f) == [k \in 0..Len(x) |->
             IF k = 0 THEN Identity(m, d) ELSE Combine(m, f[k - 1], x[k], d)]
           folded == CHOOSE f : f = body(f)
<1>1. Len(x) = n
  BY VectorLen
<1>2. base \in Int /\ \A a, v \in Int : Combine(m, a, v, d) \in Int
  BY CombineInDtype
<1>3. step \in [Nat -> [Int -> Int]]
  BY <1>2
<1>4. PICK f \in [0..n -> Int] : Unrolls(f, base, step, n)
  <2> HIDE DEF base, step
  <2> QED
    BY <1>2, <1>3, RecursionOverInterval
<1>5. \A k \in 1..n : f[k] = Combine(m, f[k - 1], x[k], d)
  <2> TAKE k \in 1..n
  <2>1. k \in Nat /\ k - 1 \in 0..n
    OBVIOUS
  <2>2. f[k - 1] \in Int /\ f[k] = step[k][f[k - 1]]
    BY <1>4, <2>1 DEF Unrolls
  <2> QED
    BY <2>1, <2>2
<1>6. f = body(f)
  <2>1. \A k \in 0..n : f[k] = IF k = 0 THEN base ELSE Combine(m, f[k - 1], x[k], d)
    BY <1>4, <1>5 DEF Unrolls
  <2>2. f = [k \in 0..n |-> f[k]]
    BY <1>4
  <2> QED
    BY <1>1, <2>1, <2>2
<1>7. folded = body(folded)
  <2> HIDE DEF body
  <2> QED
    BY <1>6
<1>8. /\ folded = [k \in 0..n |-> folded[k]]
      /\ folded[0] = base
      /\ \A k \in 1..n : folded[k] = Combine(m, folded[k - 1], x[k], d)
  <2> HIDE DEF folded
  <2>1. \A k \in 0..n : folded[k] = IF k = 0 THEN base ELSE Combine(m, folded[k - 1], x[k], d)
    BY <1>1, <1>7
  <2>2. folded = [k \in 0..n |-> folded[k]]
    <3>1. body(folded) = [k \in 0..n |-> body(folded)[k]]
      BY <1>1
    <3> HIDE DEF body
    <3> QED
      BY <1>7, <3>1
  <2>3. 0 \in 0..n /\ \A k \in 1..n : k \in 0..n /\ k # 0
    OBVIOUS
  <2> QED
    BY <2>1, <2>2, <2>3
<1>9. folded \in [0..n -> Int]
  <2> DEFINE T == {k \in 0..n : folded[k] \in Int}
  <2> HIDE DEF folded, base
  <2>1. 0 \in T
    BY <1>2, <1>8
  <2>2. ASSUME NEW k \in 1..n, k - 1 \in T
        PROVE  k \in T
    <3>1. x[k] \in Int /\ k \in 0..n /\ folded[k - 1] \in Int
      BY <2>2
    <3> QED
      BY <1>2, <1>8, <3>1
  <2>3. \A k \in 0..n : k \in T
    <3> HIDE DEF T
    <3> QED
      BY <2>1, <2>2, UpTheInterval
  <2> QED
    BY <1>8, <2>3
<1>10. Folded(m, d, x) = folded
  BY DEF Folded
<1> HIDE DEF folded
<1> QED
  BY <1>8, <1>9, <1>10

\* A fold over the dtype stays in it; one that adds or multiplies enters it.
LEMMA FoldedInDtype ==
  ASSUME NEW d \in Dtypes, NEW m \in Monoids, NEW n \in Nat, NEW x \in [1..n -> Int],
         m \notin {"sum", "prod"} => \A k \in 1..n : InRange(x[k], d)
  PROVE  \A k \in 0..n : Folded(m, d, x)[k] \in Int /\ InRange(Folded(m, d, x)[k], d)
<1> DEFINE folded == Folded(m, d, x)
           T == {k \in 0..n : InRange(folded[k], d)}
<1>1. /\ folded \in [0..n -> Int] /\ folded[0] = Identity(m, d)
      /\ \A k \in 1..n : folded[k] = Combine(m, folded[k - 1], x[k], d)
  BY FoldedRuns
<1> HIDE DEF folded
<1>2. 0 \in T
  BY <1>1, CombineInDtype
<1>3. ASSUME NEW k \in 1..n, k - 1 \in T
      PROVE  k \in T
  <2>1. folded[k - 1] \in Int /\ x[k] \in Int /\ InRange(folded[k - 1], d) /\ k \in 0..n
    BY <1>1, <1>3
  <2>2. InRange(Combine(m, folded[k - 1], x[k], d), d)
    BY <2>1, CombineInDtype
  <2> QED
    BY <1>1, <2>1, <2>2
<1>4. \A k \in 0..n : k \in T
  <2> HIDE DEF T
  <2> QED
    BY <1>2, <1>3, UpTheInterval
<1> QED
  BY <1>1, <1>4 DEF folded

\* The accumulators of the fold over unbounded integers.
LEMMA ExactFoldedRuns ==
  ASSUME NEW m \in {"sum", "prod"}, NEW n \in Nat, NEW x \in [1..n -> Int]
  PROVE  /\ ExactFolded(m, x) \in [0..n -> Int]
         /\ ExactFolded(m, x)[0] = IF m = "sum" THEN 0 ELSE 1
         /\ \A k \in 1..n :
              ExactFolded(m, x)[k] = ExactOp(m, ExactFolded(m, x)[k - 1], x[k])
<1> DEFINE base == IF m = "sum" THEN 0 ELSE 1
           step == [k \in Nat |-> [a \in Int |->
                      IF k \in 1..n THEN ExactOp(m, a, x[k]) ELSE a]]
           body(f) == [k \in 0..Len(x) |->
             IF k = 0 THEN IF m = "sum" THEN 0 ELSE 1 ELSE ExactOp(m, f[k - 1], x[k])]
           folded == CHOOSE f : f = body(f)
<1>1. Len(x) = n
  BY VectorLen
<1>2. base \in Int /\ \A a, v \in Int : ExactOp(m, a, v) \in Int
  BY DEF ExactOp
<1>3. step \in [Nat -> [Int -> Int]]
  BY <1>2
<1>4. PICK f \in [0..n -> Int] : Unrolls(f, base, step, n)
  <2> HIDE DEF base, step
  <2> QED
    BY <1>2, <1>3, RecursionOverInterval
<1>5. \A k \in 1..n : f[k] = ExactOp(m, f[k - 1], x[k])
  <2> TAKE k \in 1..n
  <2>1. k \in Nat /\ k - 1 \in 0..n
    OBVIOUS
  <2>2. f[k - 1] \in Int /\ f[k] = step[k][f[k - 1]]
    BY <1>4, <2>1 DEF Unrolls
  <2> QED
    BY <2>1, <2>2
<1>6. f = body(f)
  <2>1. \A k \in 0..n : f[k] = IF k = 0 THEN base ELSE ExactOp(m, f[k - 1], x[k])
    BY <1>4, <1>5 DEF Unrolls
  <2>2. f = [k \in 0..n |-> f[k]]
    BY <1>4
  <2> QED
    BY <1>1, <2>1, <2>2
<1>7. folded = body(folded)
  <2> HIDE DEF body
  <2> QED
    BY <1>6
<1>8. /\ folded = [k \in 0..n |-> folded[k]]
      /\ folded[0] = base
      /\ \A k \in 1..n : folded[k] = ExactOp(m, folded[k - 1], x[k])
  <2> HIDE DEF folded
  <2>1. \A k \in 0..n : folded[k] = IF k = 0 THEN base ELSE ExactOp(m, folded[k - 1], x[k])
    BY <1>1, <1>7
  <2>2. folded = [k \in 0..n |-> folded[k]]
    <3>1. body(folded) = [k \in 0..n |-> body(folded)[k]]
      BY <1>1
    <3> HIDE DEF body
    <3> QED
      BY <1>7, <3>1
  <2>3. 0 \in 0..n /\ \A k \in 1..n : k \in 0..n /\ k # 0
    OBVIOUS
  <2> QED
    BY <2>1, <2>2, <2>3
<1>9. folded \in [0..n -> Int]
  <2> DEFINE T == {k \in 0..n : folded[k] \in Int}
  <2> HIDE DEF folded, base
  <2>1. 0 \in T
    BY <1>2, <1>8
  <2>2. ASSUME NEW k \in 1..n, k - 1 \in T
        PROVE  k \in T
    <3>1. x[k] \in Int /\ k \in 0..n /\ folded[k - 1] \in Int
      BY <2>2
    <3> QED
      BY <1>2, <1>8, <3>1
  <2>3. \A k \in 0..n : k \in T
    <3> HIDE DEF T
    <3> QED
      BY <2>1, <2>2, UpTheInterval
  <2> QED
    BY <1>8, <2>3
<1>10. ExactFolded(m, x) = folded
  BY DEF ExactFolded
<1> HIDE DEF folded
<1> QED
  BY <1>8, <1>9, <1>10

\* "accumulate-wide-then-truncate equals accumulate-at-width byte-for-byte": after every
\* element the fold of a line is the truncation of the exact one over elements congruent
\* to its own.
LEMMA FoldedTruncates ==
  ASSUME NEW d \in Dtypes, NEW m \in {"sum", "prod"}, NEW n \in Nat,
         NEW x \in [1..n -> Int], NEW y \in [1..n -> Int],
         \A k \in 1..n : Congruent(x[k], y[k], d)
  PROVE  \A k \in 0..n : /\ ExactFolded(m, y)[k] \in Int
                         /\ Folded(m, d, x)[k] = Wrap(ExactFolded(m, y)[k], d)
<1> DEFINE folded == Folded(m, d, x)
           exactly == ExactFolded(m, y)
           T == {k \in 0..n : folded[k] = Wrap(exactly[k], d)}
<1>1. /\ folded \in [0..n -> Int] /\ folded[0] = Identity(m, d)
      /\ \A k \in 1..n : folded[k] = Combine(m, folded[k - 1], x[k], d)
  <2>1. m \in Monoids
    BY DEF Monoids
  <2> QED
    BY <2>1, FoldedRuns
<1>2. /\ exactly \in [0..n -> Int] /\ exactly[0] = IF m = "sum" THEN 0 ELSE 1
      /\ \A k \in 1..n : exactly[k] = ExactOp(m, exactly[k - 1], y[k])
  BY ExactFoldedRuns
<1> HIDE DEF folded, exactly
<1>3. 0 \in T
  <2>1. Wrap(0, d) = 0 /\ Wrap(1, d) = 1
    BY DtypeFitsLane, WrapIdentity
  <2> QED
    BY <1>1, <1>2, <2>1 DEF Identity
<1>4. ASSUME NEW k \in 1..n, k - 1 \in T
      PROVE  k \in T
  <2>1. folded[k - 1] \in Int /\ exactly[k - 1] \in Int /\ x[k] \in Int /\ y[k] \in Int
        /\ k \in 0..n /\ folded[k - 1] = Wrap(exactly[k - 1], d)
    BY <1>1, <1>2, <1>4
  <2>2. Congruent(folded[k - 1], exactly[k - 1], d)
    BY <2>1, TruncationCongruent
  <2>3. /\ IntAdd(folded[k - 1], x[k], d) = Wrap(exactly[k - 1] + y[k], d)
        /\ IntMul(folded[k - 1], x[k], d) = Wrap(exactly[k - 1] * y[k], d)
    BY <2>1, <2>2, RingOpTruncates
  <2> QED
    BY <1>1, <1>2, <2>1, <2>3 DEF Combine, ExactOp
<1>5. \A k \in 0..n : k \in T
  <2> HIDE DEF T
  <2> QED
    BY <1>3, <1>4, UpTheInterval
<1> QED
  BY <1>2, <1>5 DEF folded, exactly

-----------------------------------------------------------------------------
\* A line can be sorted: each place is inserted after those it does not precede.
LEMMA LineCanBeSorted ==
  ASSUME NEW n \in Nat, NEW x \in [1..n -> Int], NEW descending \in BOOLEAN
  PROVE  \E f \in [1..n -> 1..n] : InOrder(x, descending, f)
<1> DEFINE Before(i, j) == \/ IF descending THEN x[i] > x[j] ELSE x[i] < x[j]
                           \/ x[i] = x[j] /\ i < j
           Orders(m) == {f \in [1..m -> 1..m] :
                           \A a, b \in 1..m : a < b => Before(f[a], f[b])}
           T == {m \in 0..n : Orders(m) # {}}
<1>1. \A i, j, k \in 1..n : Before(i, j) /\ Before(j, k) => Before(i, k)
  OBVIOUS
<1>2. \A i, j \in 1..n : i < j => Before(i, j) \/ Before(j, i)
  OBVIOUS
<1> HIDE DEF Before
<1>3. 0 \in T
  <2> DEFINE f == [a \in 1..0 |-> a]
  <2>1. f \in Orders(0)
    OBVIOUS
  <2>2. 0 \in 0..n
    OBVIOUS
  <2> HIDE DEF f, Orders
  <2> QED
    BY <2>1, <2>2
<1>4. ASSUME NEW m \in 1..n, m - 1 \in T
      PROVE  m \in T
  <2>1. PICK f \in [1..(m - 1) -> 1..(m - 1)] :
           \A a, b \in 1..(m - 1) : a < b => Before(f[a], f[b])
    BY <1>4
  <2> DEFINE Starts == {q \in 0..(m - 1) : \A a \in (q + 1)..(m - 1) : ~Before(f[a], m)}
  <2>2. PICK p \in Starts : \A q \in Starts : p <= q
    <3>1. m - 1 \in Starts /\ Starts \in SUBSET Nat
      OBVIOUS
    <3> HIDE DEF Starts
    <3> QED
      BY <3>1, LeastNatural
  <2>3. p \in 0..(m - 1) /\ \A a \in (p + 1)..(m - 1) : ~Before(f[a], m)
    BY <2>2
  <2>4. p > 0 => Before(f[p], m)
    <3> SUFFICES ASSUME p > 0, ~Before(f[p], m) PROVE FALSE
      OBVIOUS
    <3>1. p - 1 \in 0..(m - 1) /\ \A a \in (p - 1 + 1)..(m - 1) : a = p \/ a \in (p + 1)..(m - 1)
      BY <2>3
    <3>2. p - 1 \in Starts
      BY <2>3, <3>1
    <3>3. p <= p - 1
      BY <2>2, <3>2
    <3> QED
      BY <2>3, <3>3
  <2> HIDE DEF Starts
  <2> DEFINE g == [a \in 1..m |-> IF a <= p THEN f[a] ELSE IF a = p + 1 THEN m ELSE f[a - 1]]
  <2>5. /\ \A a \in 1..m : a <= p => a \in 1..(m - 1)
        /\ \A a \in 1..m : a > p + 1 => a - 1 \in 1..(m - 1) /\ a - 1 \in (p + 1)..(m - 1)
        /\ p + 1 \in 1..m /\ m \in 1..n /\ \A a \in 1..(m - 1) : f[a] \in 1..n /\ f[a] < m
    BY <2>3
  <2>6. g \in [1..m -> 1..m]
    <3>1. ASSUME NEW a \in 1..m
          PROVE  (IF a <= p THEN f[a] ELSE IF a = p + 1 THEN m ELSE f[a - 1]) \in 1..m
      <4>1. \A b \in 1..(m - 1) : f[b] \in 1..m
        OBVIOUS
      <4>2. m \in 1..m
        OBVIOUS
      <4>3. a <= p \/ a = p + 1 \/ a > p + 1
        BY <2>3
      <4> QED
        BY <2>5, <4>1, <4>2, <4>3
    <3> QED
      BY <3>1
  <2>7. ASSUME NEW a \in 1..m, NEW b \in 1..m, a < b
        PROVE  Before(g[a], g[b])
    <3>1. CASE b <= p
      <4>1. a \in 1..(m - 1) /\ b \in 1..(m - 1) /\ g[a] = f[a] /\ g[b] = f[b]
        BY <2>3, <2>5, <2>7, <3>1
      <4> QED
        BY <2>1, <2>7, <4>1
    <3>2. CASE a <= p /\ b = p + 1
      <4>1. a \in 1..(m - 1) /\ p \in 1..(m - 1) /\ g[a] = f[a] /\ g[b] = m /\ p > 0
        BY <2>3, <2>5, <3>2
      <4>2. a # p => Before(f[a], f[p])
        BY <2>1, <3>2, <4>1
      <4> QED
        BY <1>1, <2>4, <2>5, <4>1, <4>2
    <3>3. CASE a <= p /\ b > p + 1
      <4>1. a \in 1..(m - 1) /\ b - 1 \in 1..(m - 1) /\ a < b - 1
            /\ g[a] = f[a] /\ g[b] = f[b - 1]
        BY <2>3, <2>5, <3>3
      <4> QED
        BY <2>1, <4>1
    <3>4. CASE a = p + 1
      <4>1. b - 1 \in (p + 1)..(m - 1) /\ b - 1 \in 1..(m - 1) /\ g[a] = m /\ g[b] = f[b - 1]
        BY <2>3, <2>5, <2>7, <3>4
      <4>2. ~Before(f[b - 1], m) /\ f[b - 1] \in 1..n /\ f[b - 1] < m
        BY <2>3, <2>5, <4>1
      <4> QED
        BY <1>2, <4>1, <4>2
    <3>5. CASE a > p + 1
      <4>1. a - 1 \in 1..(m - 1) /\ b - 1 \in 1..(m - 1) /\ a - 1 < b - 1
            /\ g[a] = f[a - 1] /\ g[b] = f[b - 1]
        BY <2>3, <2>5, <2>7, <3>5
      <4> QED
        BY <2>1, <4>1
    <3>6. b <= p \/ (a <= p /\ b = p + 1) \/ (a <= p /\ b > p + 1) \/ a = p + 1 \/ a > p + 1
      BY <2>3
    <3> QED
      BY <3>1, <3>2, <3>3, <3>4, <3>5, <3>6
  <2>8. g \in Orders(m)
    <3> HIDE DEF g
    <3> QED
      BY <2>6, <2>7
  <2>9. m \in 0..n
    OBVIOUS
  <2> HIDE DEF g, Orders
  <2> QED
    BY <2>8, <2>9
<1>5. n \in T
  <2> HIDE DEF T
  <2>1. n \in 0..n
    OBVIOUS
  <2>2. \A m \in 0..n : m \in T
    BY <1>3, <1>4, UpTheInterval
  <2> QED
    BY <2>1, <2>2
<1>6. PICK f \in [1..n -> 1..n] : \A a, b \in 1..n : a < b => Before(f[a], f[b])
  BY <1>5
<1>7. InOrder(x, descending, f)
  BY <1>6 DEF InOrder, Before
<1> QED
  BY <1>7

\* A sort permutes: each of its elements is one of the line's.
LEMMA SortMoves ==
  ASSUME NEW n \in Nat, NEW x \in [1..n -> Int], NEW descending \in BOOLEAN
  PROVE  /\ SortValue(x, descending) \in [1..n -> Int]
         /\ \A k \in 1..n : \E j \in 1..n : SortValue(x, descending)[k] = x[j]
<1> DEFINE p == CHOOSE f \in [DOMAIN x -> DOMAIN x] : InOrder(x, descending, f)
<1>1. p \in [1..n -> 1..n]
  BY LineCanBeSorted
<1> HIDE DEF p
<1>2. SortValue(x, descending) = [k \in 1..n |-> x[p[k]]]
  BY DEF SortValue, p
<1> QED
  BY <1>1, <1>2

-----------------------------------------------------------------------------
\* Every element is of the dtype.
Within(v, d) == \A k \in DOMAIN v : InRange(v[k], d)

\* A vector has one element or Extent of them.
LEMMA VectorCases ==
  ASSUME NEW x \in Vectors
  PROVE  \E n \in {1, Extent} :
           n \in Nat /\ n > 0 /\ x \in [1..n -> Int] /\ Len(x) = n /\ DOMAIN x = 1..n
<1>1. Extent \in Nat /\ Extent > 0
  BY RecipeAssumption
<1>2. CASE x \in [1..1 -> Int]
  <2>1. Len(x) = 1 /\ DOMAIN x = 1..1
    BY <1>2, VectorLen
  <2> QED
    BY <1>2, <2>1
<1>3. CASE x \in [1..Extent -> Int]
  <2>1. Len(x) = Extent /\ DOMAIN x = 1..Extent
    BY <1>1, <1>3, VectorLen
  <2> QED
    BY <1>1, <1>3, <2>1
<1> QED
  BY <1>2, <1>3 DEF Vectors

\* Where At reads, which depends on the length of the vector only.
Place(x, k) == IF Len(x) = 1 THEN 1 ELSE k

\* At reads an element.
LEMMA AtReads ==
  ASSUME NEW x \in Vectors, NEW k \in 1..Extent
  PROVE  Place(x, k) \in DOMAIN x /\ At(x, k) = x[Place(x, k)] /\ At(x, k) \in Int
<1>1. PICK n \in {1, Extent} : n > 0 /\ x \in [1..n -> Int] /\ Len(x) = n /\ DOMAIN x = 1..n
  BY VectorCases
<1> QED
  BY <1>1, RecipeAssumption DEF Place, At

\* A scatter of elements of the dtype into elements of the dtype stays in it.
LEMMA ScatterInDtype ==
  ASSUME NEW d \in Dtypes, NEW c \in {"assign"} \cup (Monoids \ {"prod"}),
         NEW index \in [1..Extent -> Int], NEW n \in Nat, NEW dest \in [1..n -> Int],
         NEW updates \in Vectors
  PROVE  /\ ScatterValue(c, index, d, dest, updates) \in [1..n -> Int]
         /\ Within(dest, d) /\ Within(updates, d) =>
              Within(ScatterValue(c, index, d, dest, updates), d)
<1> DEFINE S == [1..n -> Int]
           v(k) == At(updates, k)
           put(a, k) == IF c = "assign" THEN v(k) ELSE Combine(c, a[index[k]], v(k), d)
           into(a, k) == IF index[k] \notin DOMAIN dest THEN a
                         ELSE [a EXCEPT ![index[k]] = put(a, k)]
           step == [k \in Nat |-> [a \in S |-> IF k \in 1..Extent THEN into(a, k) ELSE a]]
           body(f) == [k \in 0..Len(index) |->
             IF k = 0 THEN dest
             ELSE IF index[k] \notin DOMAIN dest THEN f[k - 1]
             ELSE [f[k - 1] EXCEPT ![index[k]] =
                     IF c = "assign" THEN At(updates, k)
                     ELSE Combine(c, f[k - 1][index[k]], At(updates, k), d)]]
           data == CHOOSE f : f = body(f)
<1>1. Extent \in Nat /\ Len(index) = Extent /\ DOMAIN dest = 1..n
  BY RecipeAssumption, VectorLen
<1>2. \A k \in 1..Extent : /\ v(k) \in Int /\ index[k] \in Int
                           /\ Within(updates, d) => InRange(v(k), d)
  BY AtReads DEF Within
<1> HIDE DEF v
<1>3. ASSUME NEW k \in 1..Extent, NEW a \in S
      PROVE  /\ into(a, k) \in S
             /\ Within(a, d) /\ Within(updates, d) => Within(into(a, k), d)
  <2> DEFINE i == index[k]
             u == put(a, k)
  <2>1. CASE i \in 1..n
    <3>1. a[i] \in Int
      BY <2>1
    <3>2. c # "assign" => c \in Monoids
      OBVIOUS
    <3>3. u \in Int
      BY <1>2, <3>1, <3>2, CombineInDtype
    <3>4. Within(a, d) => InRange(a[i], d)
      BY <2>1 DEF Within
    <3>5. Within(a, d) /\ Within(updates, d) => InRange(u, d)
      BY <1>2, <3>1, <3>2, <3>4, CombineInDtype
    <3>6. into(a, k) = [a EXCEPT ![i] = u]
      BY <1>1, <2>1
    <3> HIDE DEF into, u, i
    <3>7. [a EXCEPT ![i] = u] \in S
      BY <2>1, <3>3
    <3>8. ASSUME Within(a, d), Within(updates, d)
          PROVE  Within([a EXCEPT ![i] = u], d)
      BY <2>1, <3>5, <3>8 DEF Within
    <3> QED
      BY <3>6, <3>7, <3>8
  <2>2. CASE i \notin 1..n
    <3>1. into(a, k) = a
      BY <1>1, <2>2
    <3> HIDE DEF into
    <3> QED
      BY <3>1
  <2> QED
    BY <2>1, <2>2
<1>4. step \in [Nat -> [S -> S]]
  <2> HIDE DEF into, S
  <2> QED
    BY <1>3
<1>5. PICK f \in [0..Extent -> S] : Unrolls(f, dest, step, Extent)
  <2> HIDE DEF step
  <2>1. dest \in S
    OBVIOUS
  <2> HIDE DEF S
  <2> QED
    BY <1>1, <1>4, <2>1, RecursionOverInterval
<1>6. \A k \in 1..Extent : f[k] = into(f[k - 1], k)
  <2> TAKE k \in 1..Extent
  <2>1. k \in Nat /\ k - 1 \in 0..Extent
    BY <1>1
  <2>2. f[k - 1] \in S /\ f[k] = step[k][f[k - 1]]
    BY <1>5, <2>1 DEF Unrolls
  <2> HIDE DEF S, into
  <2> QED
    BY <2>1, <2>2
<1>7. \A g : body(g) = [k \in 0..Extent |-> IF k = 0 THEN dest ELSE into(g[k - 1], k)]
  BY <1>1 DEF v
<1> HIDE DEF body, into
<1>8. f = body(f)
  <2>1. \A k \in 0..Extent : f[k] = IF k = 0 THEN dest ELSE into(f[k - 1], k)
    BY <1>1, <1>5, <1>6 DEF Unrolls
  <2>2. f = [k \in 0..Extent |-> f[k]]
    BY <1>5
  <2> QED
    BY <1>7, <2>1, <2>2
<1>9. data = body(data)
  BY <1>8
<1>10. ScatterValue(c, index, d, dest, updates) = data[Extent]
  BY <1>1 DEF ScatterValue, body
<1> HIDE DEF data
<1>11. /\ data[0] = dest
       /\ \A k \in 1..Extent : data[k] = into(data[k - 1], k)
  <2>1. \A k \in 0..Extent : data[k] = IF k = 0 THEN dest ELSE into(data[k - 1], k)
    BY <1>7, <1>9
  <2>2. 0 \in 0..Extent /\ \A k \in 1..Extent : k \in 0..Extent /\ k # 0
    BY <1>1
  <2> QED
    BY <2>1, <2>2
<1> DEFINE Good(a) == a \in S /\ (Within(dest, d) /\ Within(updates, d) => Within(a, d))
           T == {k \in 0..Extent : Good(data[k])}
<1>12. 0 \in T
  BY <1>1, <1>11
<1>13. ASSUME NEW k \in 1..Extent, k - 1 \in T
       PROVE  k \in T
  <2>1. Good(data[k - 1]) /\ k \in 0..Extent
    BY <1>1, <1>13
  <2>2. Good(into(data[k - 1], k))
    <3> HIDE DEF S
    <3> QED
      BY <1>3, <2>1
  <2> QED
    BY <1>11, <2>1, <2>2
<1>14. Extent \in T
  <2> HIDE DEF T
  <2>1. Extent \in 0..Extent
    BY <1>1
  <2>2. \A k \in 0..Extent : k \in T
    BY <1>1, <1>12, <1>13, UpTheInterval
  <2> QED
    BY <2>1, <2>2
<1> QED
  BY <1>10, <1>14

\* The kernels give vectors, and elements of the dtype for elements of the dtype; those
\* that wrap, for any: a leaf first.
LEMMA BindInDtype ==
  ASSUME NEW d \in Dtypes, NEW x \in Vectors
  PROVE  /\ BindValue(x, d) \in Vectors /\ DOMAIN BindValue(x, d) = DOMAIN x
         /\ Within(BindValue(x, d), d)
         /\ \A k \in DOMAIN x : BindValue(x, d)[k] = Wrap(x[k], d)
<1>1. PICK n \in {1, Extent} : x \in [1..n -> Int] /\ DOMAIN x = 1..n
  BY VectorCases
<1>2. \A v \in Int : Wrap(v, d) \in Int /\ InRange(Wrap(v, d), d)
  BY DtypeHolds
<1>3. BindValue(x, d) = [k \in 1..n |-> Wrap(x[k], d)]
  BY <1>1 DEF BindValue
<1> QED
  BY <1>1, <1>2, <1>3 DEF Within, Vectors

\* A reduction gives one element; those that choose an element need a line of the dtype.
LEMMA ReduceInDtype ==
  ASSUME NEW d \in Dtypes, NEW m \in Monoids, NEW x \in Vectors
  PROVE  /\ ReduceValue(m, d, x) \in Vectors /\ DOMAIN ReduceValue(m, d, x) = 1..1
         /\ (m \notin {"sum", "prod"} => Within(x, d)) => Within(ReduceValue(m, d, x), d)
<1>1. PICK n \in {1, Extent} : n \in Nat /\ x \in [1..n -> Int] /\ DOMAIN x = 1..n /\ Len(x) = n
  BY VectorCases
<1> DEFINE v == Folded(m, d, x)[n]
<1>2. v \in Int
  BY <1>1, FoldedRuns
<1>3. (m \notin {"sum", "prod"} => Within(x, d)) => InRange(v, d)
  <2> SUFFICES ASSUME m \notin {"sum", "prod"} => Within(x, d) PROVE InRange(v, d)
    OBVIOUS
  <2>1. m \notin {"sum", "prod"} => \A k \in 1..n : InRange(x[k], d)
    BY <1>1 DEF Within
  <2>2. \A k \in 0..n : InRange(Folded(m, d, x)[k], d)
    BY <1>1, <2>1, FoldedInDtype
  <2> QED
    BY <1>1, <2>2
<1>4. ReduceValue(m, d, x) = <<v>>
  BY <1>1 DEF ReduceValue
<1> HIDE DEF v
<1>5. DOMAIN <<v>> = 1..1 /\ <<v>>[1] = v /\ <<v>> \in [1..1 -> Int]
  BY <1>2
<1> QED
  BY <1>3, <1>4, <1>5 DEF Vectors, Within

\* So does a scan, of every element.
LEMMA ScanInDtype ==
  ASSUME NEW d \in Dtypes, NEW m \in Monoids, NEW x \in Vectors, NEW exclusive \in BOOLEAN
  PROVE  /\ ScanValue(m, exclusive, d, x) \in Vectors
         /\ DOMAIN ScanValue(m, exclusive, d, x) = DOMAIN x
         /\ (m \notin {"sum", "prod"} => Within(x, d)) =>
              Within(ScanValue(m, exclusive, d, x), d)
<1>1. PICK n \in {1, Extent} : n \in Nat /\ x \in [1..n -> Int] /\ DOMAIN x = 1..n /\ Len(x) = n
  BY VectorCases
<1> DEFINE folded == Folded(m, d, x)
           at(k) == IF exclusive THEN k - 1 ELSE k
<1>2. folded \in [0..n -> Int]
  BY <1>1, FoldedRuns
<1>3. (m \notin {"sum", "prod"} => Within(x, d)) => \A k \in 0..n : InRange(folded[k], d)
  <2> SUFFICES ASSUME m \notin {"sum", "prod"} => Within(x, d)
               PROVE  \A k \in 0..n : InRange(folded[k], d)
    OBVIOUS
  <2>1. m \notin {"sum", "prod"} => \A k \in 1..n : InRange(x[k], d)
    BY <1>1 DEF Within
  <2> QED
    BY <1>1, <2>1, FoldedInDtype
<1>4. \A k \in 1..n : at(k) \in 0..n
  BY <1>1
<1>5. ScanValue(m, exclusive, d, x) = [k \in 1..n |-> folded[at(k)]]
  BY <1>1 DEF ScanValue
<1> HIDE DEF folded, at
<1> QED
  BY <1>1, <1>2, <1>3, <1>4, <1>5 DEF Vectors, Within

\* A product of a row by a column is of the dtype, whatever the factors.
LEMMA DotInDtype ==
  ASSUME NEW d \in Dtypes, NEW x \in Vectors, NEW y \in Vectors, Len(x) = Len(y)
  PROVE  /\ DotValue(d, x, y) \in Vectors /\ DOMAIN DotValue(d, x, y) = 1..1
         /\ Within(DotValue(d, x, y), d)
<1>1. PICK n \in {1, Extent} : n \in Nat /\ x \in [1..n -> Int] /\ DOMAIN x = 1..n /\ Len(x) = n
  BY VectorCases
<1>2. PICK l \in {1, Extent} : y \in [1..l -> Int] /\ Len(y) = l
  BY VectorCases
<1> DEFINE products == [k \in DOMAIN x |-> IntMul(x[k], y[k], d)]
<1>3. products \in [1..n -> Int]
  <2>1. \A k \in 1..n : x[k] \in Int /\ y[k] \in Int
    BY <1>1, <1>2
  <2>2. \A a, b \in Int : IntMul(a, b, d) \in Int
    BY RingStaysInDtype, LaneAssumption DEF I128
  <2> QED
    BY <1>1, <2>1, <2>2
<1>4. products \in Vectors
  BY <1>3 DEF Vectors
<1> HIDE DEF products
<1>5. "sum" \in Monoids
  BY DEF Monoids
<1> QED
  BY <1>4, <1>5, ReduceInDtype DEF DotValue, products

\* Positions are wrapped; flips and sorts hand on the elements they are given.
LEMMA MovesInDtype ==
  ASSUME NEW d \in Dtypes, NEW x \in Vectors, NEW descending \in BOOLEAN
  PROVE  /\ IotaValue(d, x) \in Vectors /\ Within(IotaValue(d, x), d)
         /\ FlipValue(x) \in Vectors
         /\ Within(x, d) => Within(FlipValue(x), d)
         /\ SortValue(x, descending) \in Vectors
         /\ Within(x, d) => Within(SortValue(x, descending), d)
<1>1. PICK n \in {1, Extent} : n \in Nat /\ x \in [1..n -> Int] /\ DOMAIN x = 1..n /\ Len(x) = n
  BY VectorCases
<1>2. IotaValue(d, x) \in Vectors /\ Within(IotaValue(d, x), d)
  <2>1. \A v \in Int : Wrap(v, d) \in Int /\ InRange(Wrap(v, d), d)
    BY DtypeHolds
  <2>2. IotaValue(d, x) = [k \in 1..n |-> Wrap(k - 1, d)]
    BY <1>1 DEF IotaValue
  <2>3. \A k \in 1..n : k - 1 \in Int
    OBVIOUS
  <2> QED
    BY <2>1, <2>2, <2>3 DEF Within, Vectors
<1>3. FlipValue(x) \in Vectors /\ (Within(x, d) => Within(FlipValue(x), d))
  <2>1. FlipValue(x) = [k \in 1..n |-> x[n + 1 - k]]
    BY <1>1 DEF FlipValue
  <2>2. \A k \in 1..n : n + 1 - k \in 1..n
    BY <1>1
  <2> QED
    BY <1>1, <2>1, <2>2 DEF Within, Vectors
<1>4. SortValue(x, descending) \in Vectors /\ (Within(x, d) => Within(SortValue(x, descending), d))
  <2>1. /\ SortValue(x, descending) \in [1..n -> Int]
        /\ \A k \in 1..n : \E j \in 1..n : SortValue(x, descending)[k] = x[j]
    BY <1>1, SortMoves
  <2> QED
    BY <1>1, <2>1 DEF Within, Vectors
<1> QED
  BY <1>2, <1>3, <1>4

\* A gather hands on elements of its operand and its base, and zeros.
LEMMA GatherInDtype ==
  ASSUME NEW d \in Dtypes, NEW policy \in {"clamp", "zero_fill", "skip"},
         NEW index \in [1..Extent -> Int], NEW x \in Vectors, NEW base \in Vectors
  PROVE  /\ GatherValue(policy, index, x, base) \in Vectors
         /\ Within(x, d) /\ Within(base, d) => Within(GatherValue(policy, index, x, base), d)
<1>1. PICK n \in {1, Extent} : n \in Nat /\ n > 0 /\ x \in [1..n -> Int]
                               /\ DOMAIN x = 1..n /\ Len(x) = n
  BY VectorCases
<1> DEFINE v == GatherValue(policy, index, x, base)
<1>2. \A k \in 1..Extent : Place(base, k) \in DOMAIN base /\ At(base, k) = base[Place(base, k)]
                           /\ At(base, k) \in Int
  BY AtReads
<1>3. \A k \in 1..Extent :
         \/ v[k] = 0
         \/ \E j \in 1..n : v[k] = x[j]
         \/ v[k] = At(base, k)
  <2> TAKE k \in 1..Extent
  <2>1. 1 \in 1..n /\ n \in 1..n
    BY <1>1
  <2> QED
    BY <1>1, <2>1 DEF GatherValue
<1>4. v = [k \in 1..Extent |-> v[k]]
  BY DEF GatherValue
<1> HIDE DEF v
<1>5. v \in [1..Extent -> Int] /\ DOMAIN v = 1..Extent
  <2>1. \A k \in 1..Extent : v[k] \in Int
    BY <1>1, <1>2, <1>3
  <2> QED
    BY <1>4, <2>1
<1>6. ASSUME Within(x, d), Within(base, d)
      PROVE  Within(v, d)
  <2>1. InRange(0, d)
    BY DtypeHolds
  <2> QED
    BY <1>1, <1>2, <1>3, <1>5, <1>6, <2>1 DEF Within
<1> QED
  BY <1>5, <1>6 DEF v, Vectors

\* Tensors broadcast to a vector that no operand is longer than.
LEMMA Broadcasts ==
  ASSUME NEW n \in Nat, NEW xs \in [1..n -> Vectors]
  PROVE  /\ Broadcast(xs) \in {1, Extent} /\ Broadcast(xs) \in Nat
         /\ \A k \in 1..Broadcast(xs) : k \in 1..Extent
<1>1. Extent \in Nat /\ Extent > 0
  BY RecipeAssumption
<1> QED
  BY <1>1 DEF Broadcast

\* An operation applied along the elements of its operands.
LEMMA ApplyInDtype ==
  ASSUME NEW d \in Dtypes, NEW op \in IntSupported, NEW xs \in [1..Arity(op) -> Vectors]
  PROVE  /\ ApplyValue(op, d, xs) \in Vectors
         /\ DOMAIN ApplyValue(op, d, xs) = 1..Broadcast(xs)
         /\ (\A m \in Handed(op) : Within(xs[m], d)) => Within(ApplyValue(op, d, xs), d)
<1> DEFINE args(k) == [m \in DOMAIN xs |-> At(xs[m], k)]
           v == ApplyValue(op, d, xs)
<1>1. Arity(op) \in 1..3 /\ DOMAIN xs = 1..Arity(op) /\ Handed(op) \subseteq 1..Arity(op)
  BY DEF Arity, Handed
<1>2. Broadcast(xs) \in {1, Extent} /\ \A k \in 1..Broadcast(xs) : k \in 1..Extent
  BY <1>1, Broadcasts
<1>3. ASSUME NEW k \in 1..Broadcast(xs)
      PROVE  /\ EvalInt(op, d, args(k)) \in Int
             /\ (\A m \in Handed(op) : Within(xs[m], d)) => InRange(EvalInt(op, d, args(k)), d)
  <2>1. \A m \in 1..Arity(op) : /\ args(k)[m] = xs[m][Place(xs[m], k)]
                                /\ Place(xs[m], k) \in DOMAIN xs[m]
                                /\ args(k)[m] \in Int
    BY <1>1, <1>2, AtReads
  <2>2. \A m \in Handed(op) : Within(xs[m], d) => InRange(args(k)[m], d)
    BY <1>1, <2>1 DEF Within
  <2> HIDE DEF args
  <2> QED
    BY <2>1, <2>2, EvalIntInDtype
<1>4. v = [k \in 1..Broadcast(xs) |-> EvalInt(op, d, args(k))]
  BY DEF ApplyValue
<1> HIDE DEF v, args
<1>5. v \in [1..Broadcast(xs) -> Int]
  BY <1>3, <1>4
<1>6. v \in Vectors
  BY <1>2, <1>5 DEF Vectors
<1>7. (\A m \in Handed(op) : Within(xs[m], d)) => Within(v, d)
  BY <1>3, <1>4 DEF Within
<1> QED
  BY <1>5, <1>6, <1>7 DEF v

\* What vectors of one shape share: their length, and where they are read.
LEMMA SameShape ==
  ASSUME NEW x \in Vectors, NEW y \in Vectors, DOMAIN x = DOMAIN y
  PROVE  Len(x) = Len(y) /\ \A k : Place(x, k) = Place(y, k)
<1>1. PICK n \in {1, Extent} : n \in Nat /\ n > 0 /\ Len(x) = n /\ DOMAIN x = 1..n
  BY VectorCases
<1>2. PICK l \in {1, Extent} : l \in Nat /\ l > 0 /\ Len(y) = l /\ DOMAIN y = 1..l
  BY VectorCases
<1>3. n \in 1..l /\ l \in 1..n
  <2>1. n \in 1..n /\ l \in 1..l
    BY <1>1, <1>2
  <2>2. 1..n = 1..l
    BY <1>1, <1>2
  <2> QED
    BY <2>1, <2>2
<1>4. n = l
  BY <1>1, <1>2, <1>3
<1> QED
  BY <1>1, <1>2, <1>4 DEF Place

\* Vectors of one shape whose elements differ by multiples of the width.
Alike(x, y, d) == DOMAIN x = DOMAIN y /\ \A k \in DOMAIN x : Congruent(x[k], y[k], d)

RingOps == {"add", "sub", "mul", "neg", "sqr"}

\* An operation that adds or multiplies gives the truncation of the exact result wherever
\* its operands agree with the exact ones up to multiples of the width.
LEMMA ApplyTruncates ==
  ASSUME NEW d \in Dtypes, NEW op \in RingOps, NEW xs \in [1..Arity(op) -> Vectors],
         NEW ys \in [1..Arity(op) -> Vectors], \A m \in 1..Arity(op) : Alike(xs[m], ys[m], d)
  PROVE  /\ op \in IntSupported /\ Arity(op) \in 1..2
         /\ Broadcast(<<ys[1], ys[Arity(op)]>>) = Broadcast(xs)
         /\ \A k \in 1..Broadcast(xs) :
              LET e == ExactOp(op, At(ys[1], k), At(ys[Arity(op)], k))
              IN  e \in Int /\ ApplyValue(op, d, xs)[k] = Wrap(e, d)
<1> DEFINE n == Arity(op)
<1>1. op \in IntSupported /\ n \in 1..2 /\ (op \in {"add", "sub", "mul"} => n = 2)
  BY DEF RingOps, IntSupported, Unary, Binary, Arity
<1>2. \A m \in 1..n : Len(xs[m]) = Len(ys[m]) /\ \A k : Place(xs[m], k) = Place(ys[m], k)
  BY SameShape DEF Alike
<1>3. Broadcast(<<ys[1], ys[n]>>) = Broadcast(xs)
  <2>1. 1 \in 1..n /\ n \in 1..n /\ \A m \in 1..n : m = 1 \/ m = n
    BY <1>1
  <2>2. DOMAIN xs = 1..n /\ DOMAIN <<ys[1], ys[n]>> = {1, 2}
    OBVIOUS
  <2>3. (\E m \in DOMAIN xs : Len(xs[m]) > 1) <=> Len(ys[1]) > 1 \/ Len(ys[n]) > 1
    BY <1>2, <2>1, <2>2
  <2>4. (\E m \in DOMAIN <<ys[1], ys[n]>> : Len(<<ys[1], ys[n]>>[m]) > 1)
          <=> Len(ys[1]) > 1 \/ Len(ys[n]) > 1
    BY <2>2
  <2> QED
    BY <2>3, <2>4 DEF Broadcast
<1>4. ASSUME NEW k \in 1..Broadcast(xs)
      PROVE  LET e == ExactOp(op, At(ys[1], k), At(ys[n], k))
             IN  e \in Int /\ ApplyValue(op, d, xs)[k] = Wrap(e, d)
  <2> DEFINE args == [m \in DOMAIN xs |-> At(xs[m], k)]
             a == At(ys[1], k)
             b == At(ys[n], k)
  <2>1. k \in 1..Extent
    BY <1>1, Broadcasts
  <2>2. ASSUME NEW m \in 1..n
        PROVE  /\ args[m] \in Int /\ At(ys[m], k) \in Int
               /\ Congruent(args[m], At(ys[m], k), d)
    <3>1. /\ Place(xs[m], k) \in DOMAIN xs[m] /\ At(xs[m], k) = xs[m][Place(xs[m], k)]
          /\ At(xs[m], k) \in Int
      BY <2>1, AtReads
    <3>2. At(ys[m], k) = ys[m][Place(ys[m], k)] /\ At(ys[m], k) \in Int
      BY <2>1, AtReads
    <3>3. Place(xs[m], k) = Place(ys[m], k)
      BY <1>2
    <3> QED
      BY <3>1, <3>2, <3>3 DEF Alike
  <2>3. 1 \in 1..n /\ n \in 1..n
    BY <1>1
  <2>4. ApplyValue(op, d, xs)[k] = EvalInt(op, d, args)
    BY DEF ApplyValue
  <2> HIDE DEF args, a, b
  <2>5. /\ args[1] \in Int /\ args[n] \in Int /\ a \in Int /\ b \in Int
        /\ Congruent(args[1], a, d) /\ Congruent(args[n], b, d)
    BY <2>2, <2>3 DEF a, b
  <2>6. /\ IntAdd(args[1], args[n], d) = Wrap(a + b, d)
        /\ IntMul(args[1], args[n], d) = Wrap(a * b, d)
        /\ IntSub(args[1], args[n], d) = Wrap(a - b, d)
        /\ IntNeg(args[1], d) = Wrap(-a, d)
        /\ IntMul(args[1], args[1], d) = Wrap(a * a, d)
    BY <2>5, RingOpTruncates
  <2>7. EvalInt(op, d, args) = Wrap(ExactOp(op, a, b), d)
    BY <1>1, <2>6 DEF EvalInt, EvalUnary, EvalBinary, Unary, Binary, ExactOp, RingOps
  <2>8. ExactOp(op, a, b) \in Int
    BY <2>5 DEF ExactOp, RingOps
  <2> QED
    BY <2>4, <2>7, <2>8 DEF a, b
<1> QED
  BY <1>1, <1>3, <1>4

\* The folds of a line.
LEMMA LinesTruncate ==
  ASSUME NEW d \in Dtypes, NEW m \in {"sum", "prod"}, NEW x \in Vectors, NEW y \in Vectors,
         Alike(x, y, d)
  PROVE  /\ ExactFolded(m, y)[Len(y)] \in Int
         /\ ReduceValue(m, d, x)[1] = Wrap(ExactFolded(m, y)[Len(y)], d)
         /\ \A exclusive \in BOOLEAN, k \in DOMAIN y :
              LET e == ExactFolded(m, y)[IF exclusive THEN k - 1 ELSE k]
              IN  e \in Int /\ ScanValue(m, exclusive, d, x)[k] = Wrap(e, d)
<1>1. PICK n \in {1, Extent} : n \in Nat /\ x \in [1..n -> Int] /\ DOMAIN x = 1..n /\ Len(x) = n
  BY VectorCases
<1>2. Len(y) = n /\ DOMAIN y = 1..n
  BY <1>1, SameShape DEF Alike
<1>3. y \in [1..n -> Int]
  <2>1. PICK l \in {1, Extent} : y \in [1..l -> Int]
    BY VectorCases
  <2> QED
    BY <1>2, <2>1
<1>4. \A k \in 1..n : Congruent(x[k], y[k], d)
  BY <1>1 DEF Alike
<1>5. \A k \in 0..n : /\ ExactFolded(m, y)[k] \in Int
                      /\ Folded(m, d, x)[k] = Wrap(ExactFolded(m, y)[k], d)
  BY <1>1, <1>3, <1>4, FoldedTruncates
<1>6. n \in 0..n
  BY <1>1
<1>7. ReduceValue(m, d, x)[1] = Folded(m, d, x)[n]
  BY <1>1 DEF ReduceValue
<1>8. ASSUME NEW exclusive \in BOOLEAN, NEW k \in 1..n
      PROVE  LET e == ExactFolded(m, y)[IF exclusive THEN k - 1 ELSE k]
             IN  e \in Int /\ ScanValue(m, exclusive, d, x)[k] = Wrap(e, d)
  <2> DEFINE at == IF exclusive THEN k - 1 ELSE k
  <2>1. at \in 0..n
    BY <1>1
  <2>2. ScanValue(m, exclusive, d, x)[k] = Folded(m, d, x)[at]
    BY <1>1 DEF ScanValue
  <2> HIDE DEF at
  <2>3. ExactFolded(m, y)[at] \in Int
        /\ ScanValue(m, exclusive, d, x)[k] = Wrap(ExactFolded(m, y)[at], d)
    BY <1>5, <2>1, <2>2
  <2> QED
    BY <2>3 DEF at
<1> QED
  BY <1>2, <1>5, <1>6, <1>7, <1>8

\* The sum of the wrapped products is the truncation of that of the exact ones.
LEMMA DotTruncates ==
  ASSUME NEW d \in Dtypes, NEW x \in Vectors, NEW y \in Vectors, NEW u \in Vectors,
         NEW v \in Vectors, Len(x) = Len(y), Alike(x, u, d), Alike(y, v, d)
  PROVE  LET e == ExactFolded("sum", [k \in DOMAIN u |-> u[k] * v[k]])[Len(u)]
         IN  e \in Int /\ DotValue(d, x, y)[1] = Wrap(e, d)
<1> DEFINE lane == [k \in DOMAIN x |-> IntMul(x[k], y[k], d)]
           free == [k \in DOMAIN u |-> u[k] * v[k]]
<1>1. PICK n \in {1, Extent} : n \in Nat /\ x \in [1..n -> Int] /\ DOMAIN x = 1..n /\ Len(x) = n
  BY VectorCases
<1>2. PICK l \in {1, Extent} : y \in [1..l -> Int] /\ Len(y) = l /\ DOMAIN y = 1..l
  BY VectorCases
<1>3. PICK p \in {1, Extent} : u \in [1..p -> Int] /\ Len(u) = p /\ DOMAIN u = 1..p
  BY VectorCases
<1>4. PICK q \in {1, Extent} : v \in [1..q -> Int] /\ Len(v) = q /\ DOMAIN v = 1..q
  BY VectorCases
<1>5. Len(u) = n /\ Len(v) = n /\ l = n
  BY <1>1, <1>2, SameShape DEF Alike
<1>6. ASSUME NEW k \in 1..n
      PROVE  /\ IntMul(x[k], y[k], d) \in Int /\ u[k] * v[k] \in Int
             /\ Congruent(IntMul(x[k], y[k], d), u[k] * v[k], d)
  <2>1. x[k] \in Int /\ y[k] \in Int /\ u[k] \in Int /\ v[k] \in Int
    BY <1>1, <1>2, <1>3, <1>4, <1>5
  <2>2. Congruent(x[k], u[k], d) /\ Congruent(y[k], v[k], d)
    BY <1>1, <1>2, <1>5 DEF Alike
  <2>3. u[k] * v[k] \in Int
    BY <2>1
  <2>4. IntMul(x[k], y[k], d) = Wrap(u[k] * v[k], d)
    BY <2>1, <2>2, RingOpTruncates
  <2>5. /\ Wrap(u[k] * v[k], d) \in Int
        /\ Congruent(Wrap(u[k] * v[k], d), u[k] * v[k], d)
    <3> DEFINE w == u[k] * v[k]
    <3> HIDE DEF w
    <3>1. w \in Int
      BY <2>3 DEF w
    <3>2. Wrap(w, d) \in Int /\ Congruent(Wrap(w, d), w, d)
      BY <3>1, TruncationCongruent
    <3> QED
      BY <3>2 DEF w
  <2> QED
    BY <2>3, <2>4, <2>5
<1>7. lane \in [1..n -> Int] /\ free \in [1..n -> Int] /\ DOMAIN lane = DOMAIN free
      /\ \A k \in DOMAIN lane : Congruent(lane[k], free[k], d)
  BY <1>1, <1>3, <1>5, <1>6
<1>8. lane \in Vectors /\ free \in Vectors /\ Alike(lane, free, d)
  BY <1>7 DEF Vectors, Alike
<1>9. Len(free) = Len(u)
  <2> HIDE DEF lane, free
  <2>1. Len(free) = n
    BY <1>1, <1>7, VectorLen
  <2> QED
    BY <1>5, <2>1
<1>10. DotValue(d, x, y)[1] = ReduceValue("sum", d, lane)[1]
  BY DEF DotValue
<1>11. /\ ExactFolded("sum", free)[Len(free)] \in Int
       /\ ReduceValue("sum", d, lane)[1] = Wrap(ExactFolded("sum", free)[Len(free)], d)
  <2> HIDE DEF lane, free
  <2> QED
    BY <1>8, LinesTruncate
<1> QED
  BY <1>9, <1>10, <1>11

-----------------------------------------------------------------------------
\* The nodes a recipe may have, whatever numbers they name.
BoundNodes ==
  {[kind |-> "bind", dtype |-> d, raw |-> raw, kids |-> <<>>] : raw \in Binds, d \in Dtypes}
InnerNodes ==
  UNION {{[kind |-> p.kind, op |-> p.op, index |-> p.index, flag |-> p.flag, dtype |-> d,
           kids |-> kids] : d \in Dtypes, kids \in [1..p.arity -> Nat]} : p \in OpNodes}
AnyNode == BoundNodes \cup InnerNodes

\* The kids of a node are among the first n.
Follows(node, n) == \A k \in DOMAIN node.kids : node.kids[k] \in 1..n

\* What each kind of node comes with, kids included.
LEMMA NodeShape ==
  ASSUME NEW node \in AnyNode
  PROVE  /\ node.dtype \in Dtypes
         /\ \E a \in 0..3 : node.kids \in [1..a -> Nat] /\ Len(node.kids) = a
         /\ \/ node.kind = "bind" /\ node.raw \in Vectors /\ Len(node.kids) = 0
            \/ node.kind = "apply" /\ Len(node.kids) \in 1..3
            \/ /\ node.kind \in {"reduce", "scan"} /\ node.op \in Monoids /\ Len(node.kids) = 1
               /\ node.flag \in BOOLEAN
            \/ node.kind = "matmul" /\ Len(node.kids) = 2
            \/ /\ node.kind \in {"iota", "flip", "sort"} /\ Len(node.kids) = 1
               /\ node.flag \in BOOLEAN
            \/ /\ node.kind = "gather" /\ node.op \in {"clamp", "zero_fill", "skip"}
               /\ Len(node.kids) \in 1..2 /\ node.index \in [1..Extent -> Int]
            \/ /\ node.kind = "scatter" /\ node.op \in {"assign"} \cup (Monoids \ {"prod"})
               /\ Len(node.kids) = 2 /\ node.index \in [1..Extent -> Int]
<1>1. CASE node \in BoundNodes
  <2>1. PICK raw \in Binds, d \in Dtypes :
           node = [kind |-> "bind", dtype |-> d, raw |-> raw, kids |-> <<>>]
    BY <1>1 DEF BoundNodes
  <2>2. raw \in Vectors /\ Len(<<>>) = 0 /\ <<>> \in [1..0 -> Nat]
    BY RecipeAssumption
  <2> QED
    BY <2>1, <2>2
<1>2. CASE node \in InnerNodes
  <2>0. PICK p \in OpNodes : \E d \in Dtypes, kids \in [1..p.arity -> Nat] :
           node = [kind |-> p.kind, op |-> p.op, index |-> p.index, flag |-> p.flag,
                   dtype |-> d, kids |-> kids]
    BY <1>2 DEF InnerNodes
  <2>1. PICK d \in Dtypes, kids \in [1..p.arity -> Nat] :
           node = [kind |-> p.kind, op |-> p.op, index |-> p.index, flag |-> p.flag,
                   dtype |-> d, kids |-> kids]
    BY <2>0
  <2>2. /\ node.kind = p.kind /\ node.op = p.op /\ node.index = p.index /\ node.flag = p.flag
        /\ node.dtype = d /\ node.kids = kids
    BY <2>1
  <2>3. p.arity \in 1..3
    BY RecipeAssumption
  <2>4. Len(kids) = p.arity
    BY <2>3, VectorLen
  <2>5. \E a \in 0..3 : node.kids \in [1..a -> Nat] /\ Len(node.kids) = a
    BY <2>2, <2>3, <2>4
  <2>6. Len(node.kids) = p.arity
    BY <2>2, <2>4
  <2>7. /\ p.flag \in BOOLEAN
        /\ \/ p.kind = "apply" /\ p.arity \in 1..3
           \/ p.kind \in {"reduce", "scan"} /\ p.op \in Monoids /\ p.arity = 1
           \/ p.kind = "matmul" /\ p.arity = 2
           \/ p.kind \in {"iota", "flip", "sort"} /\ p.arity = 1
           \/ /\ p.kind = "gather" /\ p.op \in {"clamp", "zero_fill", "skip"}
              /\ p.arity \in 1..2 /\ p.index \in [1..Extent -> Int]
           \/ /\ p.kind = "scatter" /\ p.op \in {"assign"} \cup (Monoids \ {"prod"})
              /\ p.arity = 2 /\ p.index \in [1..Extent -> Int]
    BY RecipeAssumption
  <2> QED
    BY <2>2, <2>5, <2>6, <2>7
<1> QED
  BY <1>1, <1>2 DEF AnyNode

\* The kids' tensors are vectors.
LEMMA KidsAreVectors ==
  ASSUME vals \in Seq(Vectors), NEW node \in AnyNode, Follows(node, Len(vals))
  PROVE  /\ DOMAIN node.kids = 1..Len(node.kids) /\ Len(node.kids) \in 0..3
         /\ \A k \in 1..Len(node.kids) : node.kids[k] \in 1..Len(vals) /\ Kid(node, k) \in Vectors
         /\ KidVals(node) \in [1..Len(node.kids) -> Vectors]
         /\ \A k \in 1..Len(node.kids) : KidVals(node)[k] = Kid(node, k)
<1>1. PICK a \in 0..3 : node.kids \in [1..a -> Nat] /\ Len(node.kids) = a
  BY NodeShape
<1>2. DOMAIN node.kids = 1..a
  BY <1>1
<1>3. \A k \in 1..a : node.kids[k] \in 1..Len(vals)
  BY <1>2 DEF Follows
<1>4. \A i \in 1..Len(vals) : vals[i] \in Vectors
  OBVIOUS
<1>5. \A k \in 1..a : Kid(node, k) \in Vectors
  BY <1>3, <1>4 DEF Kid
<1>6. KidVals(node) = [k \in 1..a |-> Kid(node, k)]
  BY <1>2 DEF KidVals
<1> QED
  BY <1>1, <1>2, <1>3, <1>5, <1>6

\* Whatever a recipe names, a node that is not declined has a vector for a value, of its
\* dtype when the elements it hands on are.
LEMMA NodeInDtype ==
  ASSUME vals \in Seq(Vectors), NEW node \in AnyNode, Follows(node, Len(vals)), Accepts(node)
  PROVE  /\ NodeValue(node) \in Vectors
         /\ (\A k \in Forwarded(node) : Within(vals[node.kids[k]], node.dtype)) =>
              Within(NodeValue(node), node.dtype)
<1> DEFINE d == node.dtype
           a == Len(node.kids)
           xs == KidVals(node)
           Held == \A k \in Forwarded(node) : Within(vals[node.kids[k]], d)
<1>1. /\ DOMAIN node.kids = 1..a /\ a \in 0..3 /\ d \in Dtypes
      /\ \A k \in 1..a : Kid(node, k) \in Vectors /\ xs[k] = Kid(node, k)
      /\ xs \in [1..a -> Vectors]
  BY KidsAreVectors, NodeShape
<1>2. Held => \A k \in Forwarded(node) : Within(Kid(node, k), d)
  BY DEF Kid
<1> HIDE DEF d, xs, a
<1>3. CASE node.kind = "bind"
  <2>1. node.raw \in Vectors /\ NodeValue(node) = BindValue(node.raw, d)
    BY <1>3, NodeShape DEF NodeValue, a, d
  <2> QED
    BY <1>1, <2>1, BindInDtype DEF d
<1>4. CASE node.kind = "apply"
  <2>1. /\ node.op \in IntSupported /\ a = Arity(node.op)
        /\ NodeValue(node) = ApplyValue(node.op, d, xs)
    BY <1>4 DEF Accepts, NodeValue, d, xs, a
  <2>2. Forwarded(node) = Handed(node.op)
    <3>1. DOMAIN node.kids = 1..Arity(node.op)
      BY <1>1, <2>1
    <3> QED
      BY <1>4, <3>1 DEF Forwarded, Handed
  <2>3. Handed(node.op) \subseteq 1..a
    BY <2>1 DEF Handed, Arity
  <2>4. Held => \A k \in Handed(node.op) : Within(xs[k], d)
    BY <1>1, <1>2, <2>2, <2>3
  <2> QED
    BY <1>1, <2>1, <2>4, ApplyInDtype DEF d
<1>5. CASE node.kind = "reduce"
  <2>1. node.op \in Monoids /\ a = 1 /\ NodeValue(node) = ReduceValue(node.op, d, Kid(node, 1))
    BY <1>5, NodeShape DEF NodeValue, a, d
  <2>2. Kid(node, 1) \in Vectors
    BY <1>1, <2>1
  <2>3. node.op \notin {"sum", "prod"} => Forwarded(node) = {1}
    BY <1>5, <2>1 DEF Forwarded, Monoids
  <2>4. Held => (node.op \notin {"sum", "prod"} => Within(Kid(node, 1), d))
    BY <1>2, <2>3
  <2> QED
    BY <1>1, <2>1, <2>2, <2>4, ReduceInDtype DEF d
<1>6. CASE node.kind = "scan"
  <2>1. node.op \in Monoids /\ a = 1 /\ node.flag \in BOOLEAN
        /\ NodeValue(node) = ScanValue(node.op, node.flag, d, Kid(node, 1))
    BY <1>6, NodeShape DEF NodeValue, a, d
  <2>2. Kid(node, 1) \in Vectors
    BY <1>1, <2>1
  <2>3. node.op \notin {"sum", "prod"} => Forwarded(node) = {1}
    BY <1>6, <2>1 DEF Forwarded, Monoids
  <2>4. Held => (node.op \notin {"sum", "prod"} => Within(Kid(node, 1), d))
    BY <1>2, <2>3
  <2> QED
    BY <1>1, <2>1, <2>2, <2>4, ScanInDtype DEF d
<1>7. CASE node.kind = "matmul"
  <2>1. a = 2 /\ NodeValue(node) = DotValue(d, Kid(node, 1), Kid(node, 2))
        /\ Len(Kid(node, 1)) = Len(Kid(node, 2))
    BY <1>7, NodeShape DEF NodeValue, a, d, Accepts
  <2>2. Kid(node, 1) \in Vectors /\ Kid(node, 2) \in Vectors
    BY <1>1, <2>1
  <2> QED
    BY <1>1, <2>1, <2>2, DotInDtype DEF d
<1>8. CASE node.kind \in {"iota", "flip", "sort"}
  <2>1. a = 1 /\ node.flag \in BOOLEAN
        /\ NodeValue(node) = CASE node.kind = "iota" -> IotaValue(d, Kid(node, 1))
                                [] node.kind = "flip" -> FlipValue(Kid(node, 1))
                                [] node.kind = "sort" -> SortValue(Kid(node, 1), node.flag)
    BY <1>8, NodeShape DEF NodeValue, a, d
  <2>2. Kid(node, 1) \in Vectors
    BY <1>1, <2>1
  <2>3. node.kind # "iota" => Forwarded(node) = {1}
    BY <1>8 DEF Forwarded
  <2>4. Held => (node.kind # "iota" => Within(Kid(node, 1), d))
    BY <1>2, <2>3
  <2>5. /\ IotaValue(d, Kid(node, 1)) \in Vectors /\ Within(IotaValue(d, Kid(node, 1)), d)
        /\ FlipValue(Kid(node, 1)) \in Vectors
        /\ Within(Kid(node, 1), d) => Within(FlipValue(Kid(node, 1)), d)
        /\ SortValue(Kid(node, 1), node.flag) \in Vectors
        /\ Within(Kid(node, 1), d) => Within(SortValue(Kid(node, 1), node.flag), d)
    BY <1>1, <2>1, <2>2, MovesInDtype
  <2> QED
    BY <1>8, <2>1, <2>4, <2>5 DEF d
<1>9. CASE node.kind = "gather"
  <2>1. /\ node.op \in {"clamp", "zero_fill", "skip"} /\ a \in 1..2
        /\ node.index \in [1..Extent -> Int]
        /\ NodeValue(node) = GatherValue(node.op, node.index, Kid(node, 1), xs[a])
    BY <1>9, NodeShape DEF NodeValue, a, xs
  <2>2. 1 \in 1..a /\ a \in 1..a
    BY <1>1, <2>1
  <2>3. Kid(node, 1) \in Vectors /\ xs[a] \in Vectors
    BY <1>1, <2>2
  <2>4. Forwarded(node) = 1..a
    BY <1>1, <1>9 DEF Forwarded
  <2>5. Held => Within(Kid(node, 1), d) /\ Within(xs[a], d)
    BY <1>1, <1>2, <2>2, <2>4
  <2> QED
    BY <1>1, <2>1, <2>3, <2>5, GatherInDtype DEF d
<1>10. CASE node.kind = "scatter"
  <2>1. /\ node.op \in {"assign"} \cup (Monoids \ {"prod"}) /\ a = 2
        /\ node.index \in [1..Extent -> Int]
        /\ NodeValue(node) = ScatterValue(node.op, node.index, d, Kid(node, 1), Kid(node, 2))
    BY <1>10, NodeShape DEF NodeValue, a, d
  <2>2. Kid(node, 1) \in Vectors /\ Kid(node, 2) \in Vectors
    BY <1>1, <2>1
  <2>3. Forwarded(node) = 1..2
    BY <1>1, <1>10, <2>1 DEF Forwarded
  <2>4. Held => Within(Kid(node, 1), d) /\ Within(Kid(node, 2), d)
    BY <1>2, <2>3
  <2>5. PICK n \in {1, Extent} : n \in Nat /\ Kid(node, 1) \in [1..n -> Int]
    BY <2>2, VectorCases
  <2>6. /\ NodeValue(node) \in [1..n -> Int]
        /\ Within(Kid(node, 1), d) /\ Within(Kid(node, 2), d) => Within(NodeValue(node), d)
    <3> DEFINE op == node.op
               index == node.index
               x == Kid(node, 1)
               y == Kid(node, 2)
    <3>1. /\ op \in {"assign"} \cup (Monoids \ {"prod"}) /\ index \in [1..Extent -> Int]
          /\ x \in [1..n -> Int] /\ y \in Vectors /\ d \in Dtypes
      BY <1>1, <2>1, <2>2, <2>5
    <3> HIDE DEF op, index, x, y
    <3>2. /\ ScatterValue(op, index, d, x, y) \in [1..n -> Int]
          /\ Within(x, d) /\ Within(y, d) => Within(ScatterValue(op, index, d, x, y), d)
      BY <2>5, <3>1, ScatterInDtype
    <3> QED
      BY <2>1, <3>2 DEF op, index, x, y
  <2>7. NodeValue(node) \in Vectors
    BY <2>5, <2>6 DEF Vectors
  <2> QED
    BY <2>4, <2>6, <2>7 DEF d
<1>11. node.kind \in {"bind", "apply", "reduce", "scan", "matmul", "iota", "flip", "sort",
                      "gather", "scatter"}
  BY NodeShape
<1> QED
  BY <1>3, <1>4, <1>5, <1>6, <1>7, <1>8, <1>9, <1>10, <1>11

\* Over unbounded integers a ring node has a value of the shape of its tensor; when those
\* of its kids agree with their tensors up to multiples of its width, the tensor is its
\* truncation.
LEMMA RingNodeTruncates ==
  ASSUME vals \in Seq(Vectors), unbounded \in Seq(Vectors), Len(unbounded) = Len(vals),
         \A i \in 1..Len(vals) : DOMAIN unbounded[i] = DOMAIN vals[i],
         NEW node \in AnyNode, Follows(node, Len(vals)), Accepts(node), InRing(node)
  PROVE  /\ ExactValue(node) \in Vectors
         /\ DOMAIN ExactValue(node) = DOMAIN NodeValue(node)
         /\ (\A k \in 1..Len(node.kids) :
                Alike(Kid(node, k), unbounded[node.kids[k]], node.dtype)) =>
              \A e \in DOMAIN ExactValue(node) :
                 NodeValue(node)[e] = Wrap(ExactValue(node)[e], node.dtype)
<1> DEFINE d == node.dtype
           a == Len(node.kids)
           xs == KidVals(node)
           ys == [k \in 1..a |-> unbounded[node.kids[k]]]
           Agree == \A k \in 1..a : Alike(xs[k], ys[k], d)
           Truncated == \A e \in DOMAIN ExactValue(node) :
                           NodeValue(node)[e] = Wrap(ExactValue(node)[e], d)
<1>1. /\ DOMAIN node.kids = 1..a /\ a \in 0..3 /\ d \in Dtypes
      /\ \A k \in 1..a : node.kids[k] \in 1..Len(vals)
      /\ \A k \in 1..a : xs[k] = Kid(node, k)
      /\ xs \in [1..a -> Vectors]
  BY KidsAreVectors, NodeShape
<1>2. /\ ys \in [1..a -> Vectors]
      /\ \A k \in 1..a : DOMAIN ys[k] = DOMAIN xs[k]
  <2>1. \A i \in 1..Len(vals) : unbounded[i] \in Vectors
    OBVIOUS
  <2> QED
    BY <1>1, <2>1 DEF Kid
<1>3. \A y \in Vectors : Alike(y, y, d)
  <2> SUFFICES ASSUME NEW y \in Vectors PROVE Alike(y, y, d)
    OBVIOUS
  <2>1. \A k \in DOMAIN y : y[k] \in Int
    BY VectorCases
  <2> QED
    BY <1>1, <2>1, TruncationCongruent DEF Alike
<1>4. \A k \in 1..a : Alike(ys[k], ys[k], d)
  BY <1>2, <1>3
<1>5. (\A k \in 1..a : Alike(Kid(node, k), unbounded[node.kids[k]], d)) <=> Agree
  BY <1>1
<1>6. ys[1] = unbounded[node.kids[1]] /\ ys[a] = unbounded[node.kids[a]]
  <2>1. a # 0
    <3>1. node.kind # "bind"
      BY DEF InRing
    <3> HIDE DEF d, xs, ys
    <3> QED
      BY <3>1, NodeShape
  <2>2. 1 \in 1..a /\ a \in 1..a
    BY <1>1, <2>1
  <2> QED
    BY <2>2
<1> HIDE DEF d, xs, ys
<1>7. CASE node.kind = "apply"
  <2> DEFINE op == node.op
             n == Broadcast(xs)
             e(k) == ExactOp(op, At(ys[1], k), At(ys[a], k))
  <2>1. op \in RingOps /\ a = Arity(op) /\ NodeValue(node) = ApplyValue(op, d, xs)
    BY <1>7 DEF InRing, Accepts, NodeValue, RingOps, d, xs
  <2>2. ExactValue(node) = [k \in 1..Broadcast(<<ys[1], ys[a]>>) |-> e(k)]
    BY <1>6, <1>7 DEF ExactValue
  <2>3. Broadcast(ys) = n
    <3>1. \A k \in 1..a : Len(ys[k]) = Len(xs[k])
      BY <1>1, <1>2, SameShape
    <3>2. DOMAIN ys = 1..a /\ DOMAIN xs = 1..a
      BY <1>1, <1>2
    <3> QED
      BY <3>1, <3>2 DEF Broadcast
  <2> HIDE DEF op, n, a, Agree, Truncated
  <2>4. /\ Broadcast(<<ys[1], ys[a]>>) = n /\ op \in IntSupported
        /\ \A k \in 1..n : e(k) \in Int
    <3>1. ys \in [1..Arity(op) -> Vectors] /\ \A k \in 1..Arity(op) : Alike(ys[k], ys[k], d)
      BY <1>2, <1>4, <2>1
    <3> QED
      BY <1>1, <2>1, <2>3, <3>1, ApplyTruncates
  <2>5. ExactValue(node) = [k \in 1..n |-> e(k)]
    BY <2>2, <2>4
  <2>6. DOMAIN NodeValue(node) = 1..n /\ n \in {1, Extent}
    <3>1. xs \in [1..Arity(op) -> Vectors]
      BY <1>1, <2>1
    <3>2. DOMAIN NodeValue(node) = 1..n
      BY <1>1, <2>1, <2>4, <3>1, ApplyInDtype DEF n
    <3>3. a \in Nat
      BY <1>1
    <3> QED
      BY <1>1, <3>2, <3>3, Broadcasts DEF n
  <2>7. ExactValue(node) \in [1..n -> Int]
    BY <2>4, <2>5
  <2>8. ExactValue(node) \in Vectors
    BY <2>6, <2>7 DEF Vectors
  <2>9. ASSUME Agree PROVE Truncated
    <3>1. /\ xs \in [1..Arity(op) -> Vectors] /\ ys \in [1..Arity(op) -> Vectors]
          /\ \A k \in 1..Arity(op) : Alike(xs[k], ys[k], d)
      BY <1>1, <1>2, <2>1, <2>9 DEF Agree
    <3>2. \A k \in 1..n : ApplyValue(op, d, xs)[k] = Wrap(e(k), d)
      BY <1>1, <2>1, <3>1, ApplyTruncates DEF n
    <3> QED
      BY <2>1, <2>5, <3>2 DEF Truncated
  <2> QED
    BY <1>5, <2>6, <2>7, <2>8, <2>9 DEF d, a, Truncated
<1>8. CASE node.kind \in {"reduce", "scan"}
  <2> DEFINE m == node.op
             x == xs[1]
             y == ys[1]
             flag == node.flag
             total == ExactFolded(m, y)[Len(y)]
             at(k) == ExactFolded(m, y)[IF flag THEN k - 1 ELSE k]
  <2>1. m \in {"sum", "prod"} /\ m \in Monoids /\ flag \in BOOLEAN /\ a = 1
    BY <1>8, NodeShape DEF InRing, Monoids
  <2>2. x \in Vectors /\ y \in Vectors /\ DOMAIN x = DOMAIN y /\ Alike(y, y, d) /\ x = Kid(node, 1)
    BY <1>1, <1>2, <1>4, <2>1
  <2>3. /\ node.kind = "reduce" => /\ NodeValue(node) = ReduceValue(m, d, x)
                                   /\ ExactValue(node) = <<total>>
        /\ node.kind = "scan" => /\ NodeValue(node) = ScanValue(m, flag, d, x)
                                 /\ ExactValue(node) = [k \in DOMAIN y |-> at(k)]
    BY <1>6, <1>8, <2>1, <2>2 DEF NodeValue, ExactValue, d
  <2> HIDE DEF m, x, y, flag, a
  <2>4. total \in Int /\ \A k \in DOMAIN y : at(k) \in Int
    BY <1>1, <2>1, <2>2, LinesTruncate
  <2>5. Agree => /\ ReduceValue(m, d, x)[1] = Wrap(total, d)
                 /\ \A k \in DOMAIN y : ScanValue(m, flag, d, x)[k] = Wrap(at(k), d)
    <3> SUFFICES ASSUME Agree
                 PROVE  /\ ReduceValue(m, d, x)[1] = Wrap(total, d)
                        /\ \A k \in DOMAIN y : ScanValue(m, flag, d, x)[k] = Wrap(at(k), d)
      OBVIOUS
    <3>1. Alike(x, y, d)
      BY <2>1 DEF x, y
    <3> HIDE DEF Agree
    <3> QED
      BY <1>1, <2>1, <2>2, <3>1, LinesTruncate
  <2>6. DOMAIN ReduceValue(m, d, x) = 1..1 /\ DOMAIN ScanValue(m, flag, d, x) = DOMAIN x
    BY <1>1, <2>1, <2>2, ReduceInDtype, ScanInDtype
  <2>7. PICK n \in {1, Extent} : DOMAIN y = 1..n
    BY <2>2, VectorCases
  <2> HIDE DEF total, at, Agree, Truncated
  <2>8. CASE node.kind = "reduce"
    <3>1. ExactValue(node) \in [1..1 -> Int]
          /\ DOMAIN ExactValue(node) = 1..1 /\ ExactValue(node)[1] = total
      BY <2>3, <2>4, <2>8
    <3>2. Agree => Truncated
      BY <2>3, <2>5, <2>8, <3>1 DEF Truncated
    <3> QED
      BY <1>5, <2>3, <2>6, <2>8, <3>1, <3>2 DEF Vectors, Truncated, d, a
  <2>9. CASE node.kind = "scan"
    <3>1. ExactValue(node) \in [1..n -> Int] /\ ExactValue(node) = [k \in 1..n |-> at(k)]
      BY <2>3, <2>4, <2>7, <2>9
    <3>2. Agree => Truncated
      BY <2>3, <2>5, <2>7, <2>9, <3>1 DEF Truncated
    <3> QED
      BY <1>5, <2>2, <2>3, <2>6, <2>7, <2>9, <3>1, <3>2 DEF Vectors, Truncated, d, a
  <2> QED
    BY <1>8, <2>8, <2>9
<1>9. CASE node.kind = "matmul"
  <2> DEFINE x == xs[1]
             y == xs[2]
             u == ys[1]
             v == ys[2]
             e == ExactFolded("sum", [k \in DOMAIN u |-> u[k] * v[k]])[Len(u)]
  <2>1. a = 2 /\ Len(Kid(node, 1)) = Len(Kid(node, 2))
    BY <1>9, NodeShape DEF Accepts
  <2>2. /\ x \in Vectors /\ y \in Vectors /\ u \in Vectors /\ v \in Vectors
        /\ x = Kid(node, 1) /\ y = Kid(node, 2) /\ Len(x) = Len(y)
        /\ DOMAIN x = DOMAIN u /\ DOMAIN y = DOMAIN v
        /\ Alike(u, u, d) /\ Alike(v, v, d)
    BY <1>1, <1>2, <1>4, <2>1
  <2>3. NodeValue(node) = DotValue(d, x, y) /\ ExactValue(node) = <<e>>
    BY <1>6, <1>9, <2>1, <2>2 DEF NodeValue, ExactValue, d
  <2> HIDE DEF x, y, u, v, a
  <2>4. Len(u) = Len(v)
    BY <2>2, SameShape
  <2>5. e \in Int
    <3>1. u \in Vectors /\ v \in Vectors /\ Alike(u, u, d) /\ Alike(v, v, d)
      BY <2>2
    <3>2. LET w == ExactFolded("sum", [k \in DOMAIN u |-> u[k] * v[k]])[Len(u)]
          IN  w \in Int /\ DotValue(d, u, v)[1] = Wrap(w, d)
      BY <1>1, <2>4, <3>1, DotTruncates
    <3> QED
      BY <3>2
  <2>6. Agree => DotValue(d, x, y)[1] = Wrap(e, d)
    <3> SUFFICES ASSUME Agree PROVE DotValue(d, x, y)[1] = Wrap(e, d)
      OBVIOUS
    <3>1. Alike(x, u, d) /\ Alike(y, v, d)
      BY <2>1 DEF x, y, u, v
    <3> HIDE DEF Agree
    <3> QED
      BY <1>1, <2>2, <3>1, DotTruncates
  <2>7. DOMAIN DotValue(d, x, y) = 1..1
    BY <1>1, <2>2, DotInDtype
  <2> HIDE DEF e, Agree, Truncated
  <2>8. ExactValue(node) \in [1..1 -> Int]
        /\ DOMAIN ExactValue(node) = 1..1 /\ ExactValue(node)[1] = e
    BY <2>3, <2>5
  <2>9. Agree => Truncated
    BY <2>3, <2>6, <2>8 DEF Truncated
  <2> QED
    BY <1>5, <2>3, <2>7, <2>8, <2>9 DEF Vectors, Truncated, d, a
<1> QED
  BY <1>7, <1>8, <1>9 DEF InRing

-----------------------------------------------------------------------------
\* What is memoized: a vector for every node, of the shape of its reference, computed from
\* nodes before it.
RecipeTyped ==
  /\ nodes \in Seq(AnyNode) /\ vals \in Seq(Vectors) /\ unbounded \in Seq(Vectors)
  /\ Len(vals) = N /\ Len(unbounded) = N
  /\ error \in BOOLEAN
  /\ \A i \in 1..N : /\ Follows(nodes[i], i - 1)
                     /\ Forwarded(nodes[i]) \subseteq DOMAIN nodes[i].kids
                     /\ DOMAIN unbounded[i] = DOMAIN vals[i]

\* The tensor of a node is the truncation of its reference.
Truncates(i) ==
  vals[i] = [k \in DOMAIN unbounded[i] |-> Wrap(unbounded[i][k], nodes[i].dtype)]

\* The inductive invariant: besides RecipeIsExact, what the ring nodes start from.
RecipeInv ==
  /\ RecipeTyped
  /\ \A i \in 1..N : nodes[i].kind = "bind" => Truncates(i)
  /\ \A i \in 1..N : nodes[i].kind # "bind" /\ ~InRing(nodes[i]) => unbounded[i] = vals[i]
  /\ RecipeIsExact

\* A node that is not declined names the children it hands on.
LEMMA ForwardedAreKids ==
  ASSUME NEW node \in AnyNode, Accepts(node)
  PROVE  Forwarded(node) \subseteq DOMAIN node.kids
<1> DEFINE a == Len(node.kids)
<1>1. DOMAIN node.kids = 1..a /\ a \in Nat
  <2>1. PICK n \in 0..3 : node.kids \in [1..n -> Nat] /\ a = n
    BY NodeShape
  <2> QED
    BY <2>1
<1> HIDE DEF a
<1>2. CASE node.kind = "apply"
  <2>1. a = Arity(node.op)
    BY <1>2 DEF Accepts, a
  <2> QED
    BY <1>1, <1>2, <2>1 DEF Forwarded, Arity
<1>3. CASE node.kind \in {"flip", "sort", "reduce", "scan"}
  <2>1. a = 1
    BY <1>3, NodeShape DEF a
  <2> QED
    BY <1>1, <1>3, <2>1 DEF Forwarded
<1>4. CASE node.kind \in {"gather", "scatter"}
  BY <1>4 DEF Forwarded
<1>5. CASE node.kind \in {"bind", "matmul", "iota"}
  BY <1>5 DEF Forwarded
<1>6. node.kind \in {"bind", "apply", "reduce", "scan", "matmul", "iota", "flip", "sort",
                     "gather", "scatter"}
  BY NodeShape
<1> QED
  BY <1>2, <1>3, <1>4, <1>5, <1>6

\* A truncation to a width agrees with what it truncates up to multiples of any lesser one.
LEMMA TruncationNarrows ==
  ASSUME NEW c \in Dtypes, NEW d \in Dtypes, Size(c) >= Size(d), NEW v \in Int
  PROVE  Congruent(Wrap(v, c), v, d)
<1> DEFINE s == Size(d)
           q == Size(c) \div s
<1>1. s \in Nat /\ s > 0 /\ Size(c) \in Nat
  BY DtypeFitsLane
<1>2. Size(c) = q * s /\ q \in Int
  <2>1. Size(c) % s = 0
    BY DtypesAssumption
  <2> HIDE DEF s
  <2> QED
    BY <1>1, <2>1, Remainder
<1>3. PICK k \in Int : Wrap(v, c) = v + k * Size(c)
  BY TruncationCongruent, WrapCongruent
<1> HIDE DEF q, s
<1>4. k * Size(c) = (k * q) * s /\ k * q \in Int
  BY <1>1, <1>2
<1> QED
  BY <1>3, <1>4 DEF Congruent, s

\* The empty recipe satisfies the invariant.
LEMMA RecipeStarts == RecipeInit => RecipeInv
<1> SUFFICES ASSUME RecipeInit PROVE RecipeInv
  OBVIOUS
<1>1. nodes = <<>> /\ vals = <<>> /\ unbounded = <<>> /\ error = FALSE /\ N = 0
  BY DEF RecipeInit, N
<1>2. 1..N = {}
  BY <1>1
<1>3. RecipeTyped
  <2>1. Len(<<>>) = 0 /\ \A S : <<>> \in Seq(S)
    OBVIOUS
  <2>2. /\ nodes \in Seq(AnyNode) /\ vals \in Seq(Vectors) /\ unbounded \in Seq(Vectors)
        /\ Len(vals) = N /\ Len(unbounded) = N /\ error \in BOOLEAN
    BY <1>1, <2>1
  <2> QED
    BY <1>2, <2>2 DEF RecipeTyped
<1>4. RecipeIsExact
  BY <1>1, <1>2 DEF RecipeIsExact, RingIsExact, Traceable, DeclaredNodesInRange, EveryNodeInRange
<1> QED
  BY <1>2, <1>3, <1>4 DEF RecipeInv

\* Where the reference of a kid may be relied on, it agrees with its tensor up to multiples
\* of the parent's width.
LEMMA KidsAgree ==
  ASSUME RecipeInv, NEW i \in 1..N, NEW d \in Dtypes,
         \/ ~InRing(nodes[i]) /\ nodes[i].kind # "bind"
         \/ i \in Traceable /\ Size(nodes[i].dtype) >= Size(d)
  PROVE  Alike(vals[i], unbounded[i], d)
<1>1. /\ nodes[i] \in AnyNode /\ vals[i] \in Vectors /\ unbounded[i] \in Vectors
      /\ DOMAIN unbounded[i] = DOMAIN vals[i]
  BY DEF RecipeInv, RecipeTyped, N
<1>2. \A k \in DOMAIN unbounded[i] : unbounded[i][k] \in Int
  BY <1>1, VectorCases
<1>3. CASE ~InRing(nodes[i]) /\ nodes[i].kind # "bind"
  <2>1. unbounded[i] = vals[i]
    BY <1>3 DEF RecipeInv
  <2> QED
    BY <1>2, <2>1, TruncationCongruent DEF Alike
<1>4. CASE /\ i \in Traceable /\ Size(nodes[i].dtype) >= Size(d)
           /\ InRing(nodes[i]) \/ nodes[i].kind = "bind"
  <2>1. vals[i] = [k \in DOMAIN unbounded[i] |-> Wrap(unbounded[i][k], nodes[i].dtype)]
    BY <1>4 DEF RecipeInv, RecipeIsExact, RingIsExact, Truncates
  <2>2. nodes[i].dtype \in Dtypes
    BY <1>1, NodeShape
  <2>3. \A k \in DOMAIN unbounded[i] :
           Congruent(Wrap(unbounded[i][k], nodes[i].dtype), unbounded[i][k], d)
    BY <1>2, <1>4, <2>2, TruncationNarrows
  <2> QED
    BY <1>1, <2>1, <2>3 DEF Alike
<1> QED
  BY <1>3, <1>4

\* A step that evaluates a node of the numbers evaluated so far keeps the invariant.
LEMMA ComputeKeeps ==
  ASSUME RecipeInv, NEW node \in AnyNode, Follows(node, N), Compute(node)
  PROVE  RecipeInv'
<1> DEFINE n == Len(nodes)
           d == node.dtype
           tensor == NodeValue(node)
           ideal == CASE node.kind = "bind" -> node.raw
                      [] InRing(node) -> ExactValue(node)
                      [] OTHER -> NodeValue(node)
<1>1. /\ nodes \in Seq(AnyNode) /\ vals \in Seq(Vectors) /\ unbounded \in Seq(Vectors)
      /\ Len(vals) = n /\ Len(unbounded) = n /\ n \in Nat /\ N = n
      /\ \A i \in 1..n : Follows(nodes[i], i - 1) /\ DOMAIN unbounded[i] = DOMAIN vals[i]
      /\ error \in BOOLEAN
  BY DEF RecipeInv, RecipeTyped, N
<1>2. CASE ~Accepts(node)
  <2>1. error' \in BOOLEAN /\ UNCHANGED <<nodes, vals, unbounded>>
    BY <1>2 DEF Compute
  <2> QED
    BY <2>1 DEF RecipeInv, RecipeTyped, N, Truncates, RecipeIsExact, RingIsExact, Traceable, Traced,
       DeclaredNodesInRange, EveryNodeInRange, WellDeclared
<1>3. CASE Accepts(node)
  <2>1. /\ nodes' = Append(nodes, node) /\ vals' = Append(vals, tensor)
        /\ unbounded' = Append(unbounded, ideal) /\ error' = error
    BY <1>3 DEF Compute
  <2>2. /\ tensor \in Vectors /\ d \in Dtypes
        /\ (\A k \in Forwarded(node) : Within(vals[node.kids[k]], d)) => Within(tensor, d)
    BY <1>1, <1>3, NodeInDtype, NodeShape
  <2>3. ASSUME node.kind = "bind"
        PROVE  ideal = node.raw /\ node.raw \in Vectors /\ tensor = BindValue(node.raw, d)
    <3>1. node.raw \in Vectors
      BY <2>3, NodeShape
    <3>2. tensor = BindValue(node.raw, d)
      BY <2>3 DEF NodeValue
    <3>3. ideal = node.raw
      BY <2>3 DEF InRing
    <3> QED
      BY <3>1, <3>2, <3>3
  <2>4. InRing(node) => ideal = ExactValue(node) /\ node.kind # "bind"
    BY DEF InRing
  <2>5. node.kind # "bind" /\ ~InRing(node) => ideal = tensor
    OBVIOUS
  <2> HIDE DEF d, tensor, ideal
  <2>6. /\ InRing(node) => ideal \in Vectors /\ DOMAIN ideal = DOMAIN tensor
        /\ InRing(node) /\ (\A k \in 1..Len(node.kids) :
                                 Alike(vals[node.kids[k]], unbounded[node.kids[k]], d)) =>
             \A e \in DOMAIN ideal : tensor[e] = Wrap(ideal[e], d)
    <3> SUFFICES ASSUME InRing(node)
                 PROVE  /\ ideal \in Vectors /\ DOMAIN ideal = DOMAIN tensor
                        /\ (\A k \in 1..Len(node.kids) :
                               Alike(vals[node.kids[k]], unbounded[node.kids[k]], d)) =>
                             \A e \in DOMAIN ideal : tensor[e] = Wrap(ideal[e], d)
      OBVIOUS
    <3>1. /\ ExactValue(node) \in Vectors
          /\ DOMAIN ExactValue(node) = DOMAIN NodeValue(node)
          /\ (\A k \in 1..Len(node.kids) :
                 Alike(Kid(node, k), unbounded[node.kids[k]], node.dtype)) =>
               \A e \in DOMAIN ExactValue(node) :
                  NodeValue(node)[e] = Wrap(ExactValue(node)[e], node.dtype)
      BY <1>1, <1>3, RingNodeTruncates
    <3> QED
      BY <2>4, <3>1 DEF Kid, d, tensor
  <2>7. ideal \in Vectors /\ DOMAIN ideal = DOMAIN tensor
    BY <2>2, <2>3, <2>5, <2>6, BindInDtype
  <2>8. /\ nodes' \in Seq(AnyNode) /\ vals' \in Seq(Vectors) /\ unbounded' \in Seq(Vectors)
        /\ Len(nodes') = n + 1 /\ Len(vals') = n + 1 /\ Len(unbounded') = n + 1
    BY <1>1, <2>1, <2>2, <2>7
  <2>9. /\ \A i \in 1..n : /\ nodes'[i] = nodes[i] /\ vals'[i] = vals[i]
                           /\ unbounded'[i] = unbounded[i]
        /\ nodes'[n + 1] = node /\ vals'[n + 1] = tensor /\ unbounded'[n + 1] = ideal
    BY <1>1, <2>1
  <2>10. \A i \in 1..(n + 1) : i \in 1..n \/ i = n + 1
    BY <1>1
  <2>11. N' = n + 1
    BY <2>8 DEF N
  <2> HIDE DEF n
  <2>12. RecipeTyped'
    <3>1. \A i \in 1..(n + 1) : /\ Follows(nodes'[i], i - 1)
                               /\ Forwarded(nodes'[i]) \subseteq DOMAIN nodes'[i].kids
                               /\ DOMAIN unbounded'[i] = DOMAIN vals'[i]
      <4>1. \A i \in 1..n : Forwarded(nodes[i]) \subseteq DOMAIN nodes[i].kids
        BY <1>1 DEF RecipeInv, RecipeTyped
      <4> QED
        <5>1. \A i \in 1..n : /\ Follows(nodes'[i], i - 1)
                             /\ Forwarded(nodes'[i]) \subseteq DOMAIN nodes'[i].kids
                             /\ DOMAIN unbounded'[i] = DOMAIN vals'[i]
          BY <1>1, <2>9, <4>1
        <5>2. Follows(nodes'[n + 1], n) /\ DOMAIN unbounded'[n + 1] = DOMAIN vals'[n + 1]
          BY <1>1, <2>7, <2>9
        <5>3. Forwarded(nodes'[n + 1]) \subseteq DOMAIN nodes'[n + 1].kids
          BY <1>3, <2>9, ForwardedAreKids
        <5> QED
          <6> TAKE i \in 1..(n + 1)
          <6>1. CASE i \in 1..n
            BY <5>1, <6>1
          <6>2. CASE i = n + 1
            <7>1. i - 1 = n
              BY <1>1, <6>2
            <7> QED
              BY <5>2, <5>3, <6>2, <7>1
          <6> QED
            BY <2>10, <6>1, <6>2
    <3> QED
      BY <1>1, <2>1, <2>8, <2>11, <3>1 DEF RecipeTyped
  <2>13. \A i \in 1..N' : nodes'[i].kind = "bind" => Truncates(i)'
    <3>1. node.kind = "bind" => tensor = [k \in DOMAIN ideal |-> Wrap(ideal[k], d)]
      BY <2>3 DEF BindValue
    <3>2. \A i \in 1..n : nodes[i].kind = "bind" => Truncates(i)
      BY <1>1 DEF RecipeInv
    <3> QED
      BY <2>9, <2>10, <2>11, <3>1, <3>2 DEF Truncates, d
  <2>14. \A i \in 1..N' : nodes'[i].kind # "bind" /\ ~InRing(nodes'[i]) => unbounded'[i] = vals'[i]
    <3>1. \A i \in 1..n : nodes[i].kind # "bind" /\ ~InRing(nodes[i]) => unbounded[i] = vals[i]
      BY <1>1 DEF RecipeInv
    <3> QED
      BY <2>5, <2>9, <2>10, <2>11, <3>1
  <2>15. RingIsExact'
    <3> SUFFICES ASSUME NEW S \in SUBSET (1..(n + 1)), Traced(S)', NEW i \in S, InRing(nodes'[i])
                 PROVE  vals'[i] = [k \in DOMAIN unbounded'[i] |->
                                      Wrap(unbounded'[i][k], nodes'[i].dtype)]
      BY <2>11 DEF RingIsExact, Traceable
    <3> DEFINE T == S \cap (1..n)
    <3>1. Traced(T)
      <4> SUFFICES ASSUME NEW j \in T, InRing(nodes[j]), NEW k \in DOMAIN nodes[j].kids
                   PROVE  LET c == nodes[j].kids[k]
                          IN  \/ ~InRing(nodes[c]) /\ nodes[c].kind # "bind"
                              \/ c \in T /\ Size(nodes[c].dtype) >= Size(nodes[j].dtype)
        BY DEF Traced
      <4> DEFINE c == nodes[j].kids[k]
      <4>1. c \in 1..n
        <5>1. c \in 1..(j - 1)
          BY <1>1 DEF Follows
        <5> QED
          BY <1>1, <5>1
      <4>2. \/ ~InRing(nodes'[c]) /\ nodes'[c].kind # "bind"
            \/ c \in S /\ Size(nodes'[c].dtype) >= Size(nodes'[j].dtype)
        BY <2>9 DEF Traced
      <4> QED
        BY <2>9, <4>1, <4>2
    <3>2. T \subseteq Traceable
      BY <1>1, <3>1 DEF Traceable
    <3>3. CASE i \in 1..n
      <4>1. i \in Traceable /\ InRing(nodes[i])
        BY <2>9, <3>2, <3>3
      <4>2. vals[i] = [k \in DOMAIN unbounded[i] |-> Wrap(unbounded[i][k], nodes[i].dtype)]
        BY <4>1 DEF RecipeInv, RecipeIsExact, RingIsExact
      <4> QED
        BY <2>9, <3>3, <4>2
    <3>4. CASE i = n + 1
      <4>1. ASSUME NEW k \in 1..Len(node.kids)
            PROVE  Alike(vals[node.kids[k]], unbounded[node.kids[k]], d)
        <5> DEFINE c == node.kids[k]
        <5>1. c \in 1..n /\ k \in DOMAIN node.kids
          BY <1>1, KidsAreVectors
        <5>2. \/ ~InRing(nodes'[c]) /\ nodes'[c].kind # "bind"
              \/ c \in S /\ Size(nodes'[c].dtype) >= Size(d)
          BY <2>9, <3>4, <5>1 DEF Traced, d
        <5>3. \/ ~InRing(nodes[c]) /\ nodes[c].kind # "bind"
              \/ c \in Traceable /\ Size(nodes[c].dtype) >= Size(d)
          BY <2>9, <3>2, <5>1, <5>2
        <5> QED
          BY <1>1, <2>2, <5>1, <5>3, KidsAgree
      <4>2. InRing(node)
        BY <2>9, <3>4
      <4>3. \A e \in DOMAIN ideal : tensor[e] = Wrap(ideal[e], d)
        BY <2>6, <4>1, <4>2
      <4>4. tensor = [k \in DOMAIN tensor |-> tensor[k]]
        BY <2>2 DEF Vectors
      <4> QED
        BY <2>7, <2>9, <3>4, <4>3, <4>4 DEF d
    <3> QED
      BY <2>10, <3>3, <3>4
  <2>16. DeclaredNodesInRange'
    <3> SUFFICES ASSUME \A i \in 1..N' : WellDeclared(nodes[i])'
                 PROVE  EveryNodeInRange'
      BY DEF DeclaredNodesInRange
    <3>1. ASSUME NEW i \in 1..(n + 1), NEW k \in Forwarded(nodes'[i])
          PROVE  Includes(nodes'[i].dtype, nodes'[nodes'[i].kids[k]].dtype)
      BY <2>11 DEF WellDeclared
    <3>2. ASSUME NEW i \in 1..n, NEW k \in Forwarded(nodes[i])
          PROVE  Includes(nodes[i].dtype, nodes[nodes[i].kids[k]].dtype)
      <4>1. nodes[i].kids[k] \in 1..n
        <5>1. k \in DOMAIN nodes[i].kids
          BY <1>1, <3>2 DEF RecipeInv, RecipeTyped
        <5>2. nodes[i].kids[k] \in 1..(i - 1)
          BY <1>1, <5>1 DEF Follows
        <5> QED
          BY <1>1, <5>2
      <4> QED
        <5>1. i \in 1..(n + 1) /\ nodes'[i] = nodes[i]
          BY <1>1, <2>9
        <5>2. Includes(nodes'[i].dtype, nodes'[nodes'[i].kids[k]].dtype)
          BY <3>1, <3>2, <5>1
        <5>3. nodes'[nodes[i].kids[k]] = nodes[nodes[i].kids[k]]
          BY <2>9, <4>1
        <5> QED
          BY <5>1, <5>2, <5>3
    <3>3. EveryNodeInRange
      BY <1>1, <3>2 DEF RecipeInv, RecipeIsExact, DeclaredNodesInRange, WellDeclared
    <3>4. ASSUME NEW k \in Forwarded(node)
          PROVE  Within(vals[node.kids[k]], d)
      <4> DEFINE c == node.kids[k]
      <4>1. c \in 1..n
        BY <1>1, <1>3, ForwardedAreKids DEF Follows
      <4>2. Includes(d, nodes[c].dtype)
        <5>1. n + 1 \in 1..(n + 1) /\ nodes'[n + 1] = node
          BY <1>1, <2>9
        <5>2. Includes(nodes'[n + 1].dtype, nodes'[nodes'[n + 1].kids[k]].dtype)
          BY <3>1, <3>4, <5>1
        <5>3. nodes'[c] = nodes[c]
          BY <2>9, <4>1
        <5> QED
          BY <5>1, <5>2, <5>3 DEF d
      <4>3. \A e \in DOMAIN vals[c] : InRange(vals[c][e], nodes[c].dtype)
        BY <1>1, <3>3, <4>1 DEF EveryNodeInRange
      <4>4. /\ nodes[c].dtype \in Dtypes /\ vals[c] \in Vectors
        <5>1. \A i \in 1..n : nodes[i] \in AnyNode /\ vals[i] \in Vectors
          BY <1>1 DEF n
        <5> QED
          BY <4>1, <5>1, NodeShape
      <4> HIDE DEF c
      <4>5. /\ Lowest(d) \in Int /\ Highest(d) \in Int
            /\ Lowest(nodes[c].dtype) \in Int /\ Highest(nodes[c].dtype) \in Int
        BY <2>2, <4>4, DtypeHolds
      <4>6. \A e \in DOMAIN vals[c] : InRange(vals[c][e], d)
        BY <4>2, <4>3, <4>5 DEF Includes, InRange
      <4> QED
        BY <4>6 DEF Within, c
    <3>5. Within(tensor, d)
      BY <2>2, <3>4
    <3>6. \A i \in 1..(n + 1) : \A k \in DOMAIN vals'[i] : InRange(vals'[i][k], nodes'[i].dtype)
      BY <1>1, <2>9, <2>10, <3>3, <3>5 DEF EveryNodeInRange, Within, d
    <3> QED
      BY <2>11, <3>6 DEF EveryNodeInRange
  <2> QED
    BY <2>12, <2>13, <2>14, <2>15, <2>16 DEF RecipeInv, RecipeIsExact
<1> QED
  BY <1>2, <1>3

\* Every step of a recipe keeps the invariant.
LEMMA RecipeStep == RecipeInv /\ [RecipeNext]_recipeVars => RecipeInv'
<1> SUFFICES ASSUME RecipeInv, [RecipeNext]_recipeVars PROVE RecipeInv'
  OBVIOUS
<1>1. CASE UNCHANGED recipeVars
  BY <1>1 DEF recipeVars, RecipeInv, RecipeTyped, N, Truncates, RecipeIsExact, RingIsExact,
     Traceable, Traced, DeclaredNodesInRange, EveryNodeInRange, WellDeclared
<1>2. CASE Leaf
  <2>1. PICK raw \in Binds, d \in Dtypes :
           Compute([kind |-> "bind", dtype |-> d, raw |-> raw, kids |-> <<>>])
    BY <1>2 DEF Leaf
  <2> DEFINE node == [kind |-> "bind", dtype |-> d, raw |-> raw, kids |-> <<>>]
  <2>2. node \in AnyNode
    BY DEF AnyNode, BoundNodes
  <2>3. Follows(node, N)
    BY DEF Follows
  <2> HIDE DEF node
  <2>4. Compute(node)
    BY <2>1 DEF node
  <2> QED
    BY <2>2, <2>3, <2>4, ComputeKeeps
<1>3. CASE Inner
  <2>1. PICK p \in OpNodes, d \in Dtypes : \E kids \in [1..p.arity -> 1..N] :
           Compute([kind |-> p.kind, op |-> p.op, index |-> p.index, flag |-> p.flag,
                    dtype |-> d, kids |-> kids])
    BY <1>3 DEF Inner
  <2>2. PICK kids \in [1..p.arity -> 1..N] :
           Compute([kind |-> p.kind, op |-> p.op, index |-> p.index, flag |-> p.flag,
                    dtype |-> d, kids |-> kids])
    BY <2>1
  <2> DEFINE node == [kind |-> p.kind, op |-> p.op, index |-> p.index, flag |-> p.flag,
                      dtype |-> d, kids |-> kids]
  <2>3. node \in AnyNode
    <3>1. kids \in [1..p.arity -> Nat]
      BY <2>2
    <3> QED
      BY <3>1 DEF AnyNode, InnerNodes
  <2>4. Follows(node, N)
    BY <2>2 DEF Follows
  <2> HIDE DEF node
  <2>5. Compute(node)
    BY <2>2 DEF node
  <2> QED
    BY <2>3, <2>4, <2>5, ComputeKeeps
<1> QED
  BY <1>1, <1>2, <1>3 DEF RecipeNext

\* In every recipe, of any length, whatever its nodes and their dtypes, the tensor of every
\* ring node is the truncation of what unbounded integers give ("Integer two's-complement
\* arithmetic is a ring homomorphism", recipe_int.rs), and every element is of the dtype its
\* node declares as soon as no node hands on elements of a dtype its own does not include
\* (compute_node_int).
THEOREM RecipesAreExact == RecipeSpec => []RecipeIsExact
<1>1. RecipeInv => RecipeIsExact
  BY DEF RecipeInv
<1> QED
  BY <1>1, RecipeStarts, RecipeStep, PTL DEF RecipeSpec
=============================================================================
