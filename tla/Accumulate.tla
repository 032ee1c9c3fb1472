----------------------------- MODULE Accumulate -----------------------------
(***************************************************************************)
(* Folding in a dtype wider than the storage dtype (kernels.rs and         *)
(* tensor_ops.rs): reduce_ref, prefix_scan_ref and matmul_ref, along the   *)
(* one line of a cell.  Which elements make the line is Kernels'; the      *)
(* diagonal and the picking monoids go to the kernels there.               *)
(***************************************************************************)
EXTENDS NarrowFloat, Sequences

CONSTANTS
  Lanes,      \* the formats of the six float lanes
  NoLanes,    \* dtypes that are none of them
  Lines(_),   \* the lines tried on a storage format
  Factors(_)  \* what a matmul multiplies them by

\* The six lanes: f64 is wider than f32 and f32 than the others; an FP8 lane holds no
\* other lane, and what has no infinities has fewer exponents than any other.
ASSUME LanesAssumption ==
  /\ \A f \in Lanes : IsLane(f)
  /\ F32 \in Lanes /\ F64 \in Lanes /\ ~F32.pinned /\ ~F64.pinned
  /\ F32.exp < F64.exp /\ F32.man < F64.man
  /\ \A f \in Lanes \ {F64} : f.exp <= F32.exp /\ f.man <= F32.man
  /\ \A f \in Lanes : f.pinned => f.exp < F32.exp /\ f.man < F32.man
  /\ \A f, g \in Lanes :
       f # g => /\ f.pinned => f.exp < g.exp \/ f.man < g.man
                /\ ~f.hasInf => f.exp < g.exp

\* Decoded mantissas leave the top bit of MantBits unused.
ASSUME WidthAssumption == MantBits \in Nat /\ F64.man + 1 < MantBits

VARIABLES
  request,
  status,     \* called, folding, returned, verbatim, declined
  error,
  acc,        \* the accumulator, a pattern of the dtype request.acc
  next,       \* the elements folded so far
  out

vars == <<request, status, error, acc, next, out>>

Storage == request.storage
Wide == request.acc

\* Mutant: the exponents are not compared.
GuardAccumulatorByMantissa(s, a) ==
  CASE a.kind = "reserved" -> "ReservedOrScaleDtype"
    [] a \notin Lanes /\ a.kind # "reserved" -> "NonFloatAccumulator"
    [] a \in Lanes /\ a.man < s.man -> "AccumulatorTooNarrow"
    [] OTHER -> "none"

\* guard_accumulator: the dtype s folded in the dtype a.
GuardAccumulator(s, a) ==
  CASE a.kind = "reserved" -> "ReservedOrScaleDtype"
    [] a \notin Lanes /\ a.kind # "reserved" -> "NonFloatAccumulator"
    [] a \in Lanes /\ (a.exp < s.exp \/ a.man < s.man) -> "AccumulatorTooNarrow"
    [] OTHER -> "none"

IsVerbatim ==
  \/ Wide = Storage
  \/ request.kind # "matmul" /\ request.monoid \in {"max", "min"}

Init ==
  /\ \E k \in {"reduce", "inclusive", "exclusive", "matmul"}, m \in {"sum", "prod", "max"},
        s \in Lanes, a \in Lanes \cup NoLanes :
       /\ k = "matmul" => m = "sum"
       /\ \E l \in IF a \in NoLanes THEN {<<>>} ELSE Lines(s) :
            request = [kind |-> k, monoid |-> m, storage |-> s, acc |-> a,
                       line |-> l, other |-> Factors(s)]
  /\ status = "called" /\ error = "none" /\ acc = Zero(FALSE) /\ next = 0 /\ out = <<>>

Verbatim ==
  /\ status = "called" /\ IsVerbatim
  /\ status' = "verbatim" /\ UNCHANGED <<request, error, acc, next, out>>

Decline ==
  /\ status = "called" /\ ~IsVerbatim /\ GuardAccumulator(Storage, Wide) # "none"
  /\ status' = "declined" /\ error' = GuardAccumulator(Storage, Wide)
  /\ UNCHANGED <<request, acc, next, out>>

Identity == IF request.monoid = "prod" THEN One(Wide) ELSE Zero(FALSE)

Begin ==
  /\ status = "called" /\ ~IsVerbatim /\ GuardAccumulator(Storage, Wide) = "none"
  /\ status' = "folding" /\ acc' = Identity
  /\ UNCHANGED <<request, error, next, out>>

Element(i) == Widen(request.line[i], Storage, Wide)

\* The accumulator after element i: a matmul rounds its product, then its sum.
Combined(i) ==
  IF request.kind = "matmul"
  THEN LET product == Arith("mul", Element(i), Widen(request.other[i], Storage, Wide), Wide)
       IN  Arith("add", acc, product, Wide)
  ELSE Arith(IF request.monoid = "prod" THEN "mul" ELSE "add", acc, Element(i), Wide)

Result(a) == Narrow(a, Wide, Storage)

\* Mutant: the accumulator is narrowed after every element.
FoldNarrowed ==
  /\ status = "folding" /\ next < Len(request.line)
  /\ next' = next + 1
  /\ acc' = Widen(Result(Combined(next')), Storage, Wide)
  /\ out' = IF request.kind = "exclusive" THEN Append(out, Result(acc))
            ELSE IF request.kind = "inclusive" THEN Append(out, Result(acc'))
            ELSE out
  /\ UNCHANGED <<request, status, error>>

\* A scan writes the accumulator before or after the element, narrowed; it goes on with
\* what was not narrowed.
Fold ==
  /\ status = "folding" /\ next < Len(request.line)
  /\ next' = next + 1 /\ acc' = Combined(next')
  /\ out' = IF request.kind = "exclusive" THEN Append(out, Result(acc))
            ELSE IF request.kind = "inclusive" THEN Append(out, Result(acc'))
            ELSE out
  /\ UNCHANGED <<request, status, error>>

Return ==
  /\ status = "folding" /\ next = Len(request.line)
  /\ status' = "returned"
  /\ out' = IF request.kind \in {"reduce", "matmul"} THEN <<Result(acc)>> ELSE out
  /\ UNCHANGED <<request, error, acc, next>>

Next == Verbatim \/ Decline \/ Begin \/ Fold \/ Return

Spec == Init /\ [][Next]_vars

-----------------------------------------------------------------------------
Equals(v, w) == v.class = w.class /\ (v.class = "fin" => ~Below(v, w) /\ ~Below(w, v))

\* The storage dtypes every value of which each lane holds, its infinities included.
Holds ==
  [p \in Lanes \X Lanes |->
     \A x \in Patterns(p[1]) :
       LET v == DecodeFloat(x, p[1])
       IN  v.class = "nan" \/ Equals(DecodeFloat(Widen(x, p[1], p[2]), p[2]), v)]

\* The exact value of a fold of the first n elements; Lost if a partial result is not a
\* value of the accumulator.
Lost == [class |-> "lost"]
IsHeld(v) == v.class = "fin" /\ Equals(DecodeFloat(Rne(v, Wide), Wide), v)
Factor(i) == DecodeFloat(request.line[i], Storage)
Term(i) ==
  IF request.kind = "matmul"
  THEN ExactResult("mul", Factor(i), DecodeFloat(request.other[i], Storage))
  ELSE Factor(i)
ExactFold ==
  LET op == IF request.kind # "matmul" /\ request.monoid = "prod" THEN "mul" ELSE "add"
      fold[n \in 0..Len(request.line)] ==
        IF n = 0 THEN DecodeFloat(Identity, Wide)
        ELSE IF fold[n - 1] = Lost \/ ~IsHeld(Term(n)) THEN Lost
        ELSE LET v == ExactResult(op, fold[n - 1], Term(n)) IN IF IsHeld(v) THEN v ELSE Lost
  IN  fold

\* How many elements the output at place i stands for.
Covered(i) ==
  CASE request.kind = "exclusive" -> i - 1
    [] request.kind = "inclusive" -> i
    [] OTHER -> Len(request.line)

-----------------------------------------------------------------------------
\* The guard compares the widths of two fields; it admits a dtype exactly when each value of
\* the storage dtype, infinities and subnormals included, is a value of the accumulator.
AdmittedHoldsStorage ==
  /\ status = "folding" => Holds[<<Storage, Wide>>]
  /\ error = "AccumulatorTooNarrow" => ~Holds[<<Storage, Wide>>]

\* As long as the accumulator holds every partial result, an output is the exact sum or
\* product of its elements, rounded once to the storage dtype; a scan never goes on from
\* what it rounded.
OnlyTheResultRounds ==
  \A i \in DOMAIN out :
    LET exact == ExactFold[Covered(i)]
    IN  exact # Lost =>
          Equals(DecodeFloat(out[i], Storage), DecodeFloat(Direct(exact, Storage), Storage))
=============================================================================
