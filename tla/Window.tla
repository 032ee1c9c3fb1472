------------------------------- MODULE Window -------------------------------
(***************************************************************************)
(* The window family, one call at a time: avg_pool, max_pool and im2col    *)
(* (window.rs), whose loops tensor_int.rs repeats on integers.  Every step *)
(* is one turn of a loop: one tap of a pooled cell, the end of its window, *)
(* or one cell of an im2col.                                               *)
(*                                                                         *)
(* usize is 0..UsizeMax, isize its two's complement.  Elements are         *)
(* symbolic: a cell lists the elements folded into it, in order.           *)
(***************************************************************************)
EXTENDS Tensor, TwosComplement, FiniteSets

CONSTANT Calls   \* records: op, x, axes, kernel, stride, padding, dilation, includePad

ASSUME UsizeAssumption == UsizeMax \in Nat /\ UsizeMax % 2 = 1
ASSUME CallsAssumption ==
  \A c \in Calls :
    /\ c.op \in {"avg_pool", "max_pool", "im2col"}
    /\ c.x.shape \in Seq(Nat) /\ c.axes \in Seq(Nat)
    /\ \A p \in {c.kernel, c.stride, c.padding, c.dilation} : p \in Seq(Nat)

VARIABLES
  call,
  status,   \* called, running, returned, declined
  error,    \* the Error of a declined call
  lin,      \* the turns of the output's odometer
  tap,      \* the turns of the window's odometer, for the current cell
  acc,      \* the elements accumulated in the current cell
  out       \* the output buffer

vars == <<call, status, error, lin, tap, acc, out>>

-----------------------------------------------------------------------------
\* pool_out_dim: what stops it, and its result.
Effective(k, dil) == dil * (k - 1) + 1
Padded(in, p) == in + 2 * p

\* Mutant: a window wider than the padded input is refused.
PoolFaultWide(in, k, s, p, dil) ==
  IF s = 0 \/ k = 0 \/ Padded(in, p) < Effective(k, dil) THEN "ShapeMismatch"
  ELSE IF Effective(k, dil) > UsizeMax \/ Padded(in, p) > UsizeMax THEN "ShapeOverflow"
  ELSE "none"

\* Mutant: the effective window forgets the last tap.
PoolOutDimWide(in, k, s, p, dil) ==
  IF Padded(in, p) < dil * (k - 1) THEN 0 ELSE (Padded(in, p) - dil * (k - 1)) \div s + 1

PoolOutDim(in, k, s, p, dil) ==
  IF Padded(in, p) < Effective(k, dil) THEN 0
  ELSE (Padded(in, p) - Effective(k, dil)) \div s + 1

PoolFault(in, k, s, p, dil) ==
  IF s = 0 \/ k = 0 THEN "ShapeMismatch"
  ELSE IF \/ Effective(k, dil) > UsizeMax
          \/ Padded(in, p) > UsizeMax
          \/ PoolOutDim(in, k, s, p, dil) > UsizeMax
       THEN "ShapeOverflow"
  ELSE "none"

\* tap_pos: a position, or None, in wrapping isize arithmetic.
Isize == [half |-> (UsizeMax + 1) \div 2, signed |-> TRUE]
AsIsize(v) == Wrap(v, Isize)
None == -1

\* Mutant: the extent itself is in bounds.
TapPosInclusive(o, t, s, dil, p, extent) ==
  LET pos == AsIsize(o * s + t * dil - p)
  IN  IF pos < 0 \/ pos > AsIsize(extent) THEN None ELSE pos

TapPos(o, t, s, dil, p, extent) ==
  LET origin == AsIsize(AsIsize(o) * AsIsize(s))
      offset == AsIsize(AsIsize(t) * AsIsize(dil))
      pos    == AsIsize(AsIsize(origin + offset) - AsIsize(p))
  IN  IF pos < 0 \/ pos >= AsIsize(extent) THEN None ELSE pos

-----------------------------------------------------------------------------
X == call.x
WindowAxes == {call.axes[i] : i \in DOMAIN call.axes}

\* The entry of the parameter arrays that counts for an axis: the last.
EntryOf(axis) ==
  CHOOSE i \in DOMAIN call.axes :
    call.axes[i] = axis /\ \A j \in DOMAIN call.axes : j > i => call.axes[j] # axis

LengthsAgree ==
  \A p \in {call.kernel, call.stride, call.padding, call.dilation} : Len(p) = Len(call.axes)

AxisFault(i) ==
  IF call.axes[i] \notin Axes(X.shape) THEN "AxisOutOfRange"
  ELSE PoolFault(X.shape[call.axes[i]], call.kernel[i], call.stride[i],
                 call.padding[i], call.dilation[i])
AxesAreSound == \A i \in DOMAIN call.axes : AxisFault(i) = "none"
FirstAxisFault ==
  AxisFault(CHOOSE i \in DOMAIN call.axes :
              AxisFault(i) # "none" /\ \A j \in 1..(i - 1) : AxisFault(j) = "none")

PooledExtent(i) ==
  PoolOutDim(X.shape[call.axes[i]], call.kernel[i], call.stride[i],
             call.padding[i], call.dilation[i])

\* window_out_shape.
PooledShape ==
  [k \in Axes(X.shape) |-> IF k \in WindowAxes THEN PooledExtent(EntryOf(k)) ELSE X.shape[k]]

OutShape == IF call.op = "im2col" THEN PooledShape \o call.kernel ELSE PooledShape

\* The checks before the loop, in their order.
Fault ==
  IF ~LengthsAgree THEN "ShapeMismatch"
  ELSE IF ~AxesAreSound THEN FirstAxisFault
  ELSE IF call.op = "avg_pool" /\ NumelOverflows(call.kernel) THEN "ShapeOverflow"
  ELSE IF call.op = "im2col" /\ Len(OutShape) > MaxRank THEN "RankExceeded"
  ELSE IF NumelOverflows(OutShape) THEN "ShapeOverflow"
  ELSE "none"

\* The window's own odometer is made for every cell.
WindowFault ==
  IF Len(call.kernel) > MaxRank THEN "RankExceeded"
  ELSE IF NumelOverflows(call.kernel) THEN "ShapeOverflow"
  ELSE "none"

Fail(e) == status' = "declined" /\ error' = e /\ UNCHANGED <<call, lin, tap, acc, out>>

Decline == status = "called" /\ Fault # "none" /\ Fail(Fault)

Begin ==
  /\ status = "called" /\ Fault = "none"
  /\ status' = "running" /\ UNCHANGED <<call, error, lin, tap, acc, out>>

\* The allocator refuses the buffer of the output.
Refuse ==
  /\ status = "called" /\ Fault = "none" /\ Product(OutShape) > 0
  /\ Fail("ShapeOverflow")

-----------------------------------------------------------------------------
\* The elements a tap of the window at a coordinate reads: one, or none.
TapOn(i, at, tapAt) ==
  TapPos(at[call.axes[i]], tapAt[i], call.stride[i], call.dilation[i],
         call.padding[i], X.shape[call.axes[i]])

Tapped(at, tapAt) ==
  IF \E i \in DOMAIN call.axes : TapOn(i, at, tapAt) = None THEN <<>>
  ELSE <<Read(X, [k \in Axes(X.shape) |->
                    IF k \in WindowAxes THEN TapOn(EntryOf(k), at, tapAt) ELSE at[k]])>>

Walking == status = "running" /\ lin < Product(OutShape)
coord == Decode(lin, OutShape)

\* A read outside the buffer is the error the loop ends with.
Accumulates(read) == Missing \notin {read[m] : m \in DOMAIN read}

OpenWindow ==
  /\ Walking /\ call.op # "im2col" /\ WindowFault # "none"
  /\ Fail(WindowFault)

Tap ==
  /\ Walking /\ call.op # "im2col" /\ WindowFault = "none"
  /\ tap < Product(call.kernel)
  /\ LET read == Tapped(coord, Decode(tap, call.kernel))
     IN  IF Accumulates(read)
         THEN /\ acc' = acc \o read /\ tap' = tap + 1
              /\ UNCHANGED <<call, status, error, lin, out>>
         ELSE Fail("ShapeMismatch")

\* Mutant: the two divisors are swapped.
DivisorSwapped == IF call.includePad THEN Len(acc) ELSE Product(call.kernel)

\* What avg_pool divides by: the whole window, or the taps that were in bounds.
Divisor == IF call.includePad THEN Product(call.kernel) ELSE Len(acc)

Cell ==
  IF call.op = "avg_pool" THEN [terms |-> acc, divisor |-> Divisor] ELSE [terms |-> acc]

CloseWindow ==
  /\ Walking /\ call.op # "im2col" /\ WindowFault = "none"
  /\ tap = Product(call.kernel)
  /\ out' = Append(out, Cell) /\ lin' = lin + 1 /\ tap' = 0 /\ acc' = <<>>
  /\ UNCHANGED <<call, status, error>>

\* A cell of im2col is one tap; out of bounds it is zero, which takes no element.
Im2colStep ==
  /\ Walking /\ call.op = "im2col"
  /\ LET rank == Len(X.shape)
         read == Tapped(SubSeq(coord, 1, rank), SubSeq(coord, rank + 1, Len(coord)))
     IN  IF Accumulates(read)
         THEN /\ out' = Append(out, [terms |-> read]) /\ lin' = lin + 1
              /\ UNCHANGED <<call, status, error, tap, acc>>
         ELSE Fail("ShapeMismatch")

Return ==
  /\ status = "running" /\ lin = Product(OutShape)
  /\ status' = "returned" /\ UNCHANGED <<call, error, lin, tap, acc, out>>

Init ==
  /\ call \in Calls
  /\ status = "called" /\ error = "none"
  /\ lin = 0 /\ tap = 0 /\ acc = <<>> /\ out = <<>>

Next ==
  \/ Decline \/ Begin \/ Refuse
  \/ OpenWindow \/ Tap \/ CloseWindow \/ Im2colStep
  \/ Return

Spec == Init /\ [][Next]_vars

-----------------------------------------------------------------------------
(***************************************************************************)
(* What the window family promises: a kernel slides over the padded input  *)
(* and reads the positions it covers, in exact integers.                   *)
(***************************************************************************)
\* The positions, in exact integers: "o*stride + t*dilation - padding", and
\* "None (out of bounds) if negative or >= extent" (window.rs, of tap_pos).
ExactTap(o, t, s, dil, p, extent) ==
  LET pos == o * s + t * dil - p
  IN  IF pos \in 0..(extent - 1) THEN pos ELSE None

IsizeMax == Highest(Isize)

\* No axis is listed twice, and isize can hold every pooled extent.
DistinctAxes ==
  \A i, j \in DOMAIN call.axes : call.axes[i] = call.axes[j] => i = j
ExtentsFitIsize == \A i \in DOMAIN call.axes : X.shape[call.axes[i]] <= IsizeMax

Accepted == status \in {"running", "returned"}

\* Every tap of every window is found where exact arithmetic finds it.
EveryTapIsExact ==
  \A i \in DOMAIN call.axes :
    \A o \in 0..(PooledExtent(i) - 1), t \in 0..(call.kernel[i] - 1) :
      LET extent == X.shape[call.axes[i]]
      IN  TapPos(o, t, call.stride[i], call.dilation[i], call.padding[i], extent)
            = ExactTap(o, t, call.stride[i], call.dilation[i], call.padding[i], extent)

\* The elements a window covers, in the order of its taps.
Covered(at, tapAt) ==
  LET pos(i) == at[call.axes[i]] * call.stride[i] + tapAt[i] * call.dilation[i]
                  - call.padding[i]
      covers == \A i \in DOMAIN call.axes : pos(i) \in 0..(X.shape[call.axes[i]] - 1)
      source == [k \in Axes(X.shape) |->
                   IF k \in WindowAxes
                   THEN pos(CHOOSE i \in DOMAIN call.axes : call.axes[i] = k)
                   ELSE at[k]]
  IN  IF covers THEN <<Read(X, source)>> ELSE <<>>

\* What the first n taps of a window cover, for every n.
CoveredUpTo(at) ==
  LET upTo[n \in 0..Product(call.kernel)] ==
        IF n = 0 THEN <<>> ELSE upTo[n - 1] \o Covered(at, Decode(n - 1, call.kernel))
  IN  upTo

CoveredFrom(at) == CoveredUpTo(at)[Product(call.kernel)]

\* What the cell at a coordinate of the output must be.
CellIsCovered(cell, at) ==
  LET rank == Len(X.shape)
      terms == CoveredFrom(at)
  IN  CASE call.op = "im2col" ->
             cell.terms = Covered(SubSeq(at, 1, rank), SubSeq(at, rank + 1, Len(at)))
        [] call.op = "max_pool" -> cell.terms = terms
        [] call.op = "avg_pool" ->
             /\ cell.terms = terms
             /\ cell.divisor = IF call.includePad THEN Product(call.kernel) ELSE Len(terms)

-----------------------------------------------------------------------------
\* The extent of a pooled axis is the number of places the window fits in the
\* padded input: none if it is larger than it.
OutputCountsPlacements ==
  Accepted =>
    \A i \in DOMAIN call.axes :
      PooledExtent(i) =
        Cardinality({o \in 0..UsizeMax :
          o * call.stride[i] + call.dilation[i] * (call.kernel[i] - 1)
            < X.shape[call.axes[i]] + 2 * call.padding[i]})

\* The wrapping isize arithmetic of tap_pos loses no tap and invents none, for every
\* call that was accepted and whose extents an isize can hold.
TapsAreExact == Accepted /\ ExtentsFitIsize => EveryTapIsExact

\* A returned pool holds, for every window, the elements it covers in the order of its
\* taps, and avg_pool divides by their number or by the size of the window; im2col
\* lists the taps one by one.
CellsAreCovered ==
  status = "returned" /\ DistinctAxes /\ ExtentsFitIsize =>
    /\ Len(out) = Product(OutShape)
    /\ \A n \in DOMAIN out : CellIsCovered(out[n], Decode(n - 1, OutShape))

\* From its first tap to its last a window is longer than a usize counts, or the input with
\* the padding on both its ends is.
ReachRunsOver ==
  \E i \in DOMAIN call.axes :
    /\ call.axes[i] \in Axes(X.shape)
    /\ \/ 1 + call.dilation[i] * (call.kernel[i] - 1) > UsizeMax
       \/ call.padding[i] + X.shape[call.axes[i]] + call.padding[i] > UsizeMax

\* A call is declined for a reason of its own.  In particular no tap that is found
\* in bounds reads outside the buffer.
\* An overflow is that of a window, of a padded input or of a count, or a buffer with
\* elements that the allocator refused: before anything is allocated it is not the last.  A
\* call of which a window, a padded input or the count of the result overflows never returns.
DeclinesNameTheFault ==
  /\ status = "called" /\ Fault = "ShapeOverflow" =>
       \/ ReachRunsOver \/ TooMany(OutShape)
       \/ call.op = "avg_pool" /\ TooMany(call.kernel)
  /\ error = "ShapeOverflow" =>
       ReachRunsOver \/ TooMany(call.kernel) \/ TooMany(OutShape) \/ Coords(OutShape) # {}
  /\ status = "returned" => ~ReachRunsOver /\ ~TooMany(OutShape)
  /\ error = "ShapeMismatch" =>
       \/ ~LengthsAgree
       \/ \E i \in DOMAIN call.axes : call.kernel[i] = 0 \/ call.stride[i] = 0
  /\ error = "AxisOutOfRange" => \E a \in WindowAxes : a > Len(X.shape)
  /\ error = "RankExceeded" =>
       Len(call.axes) + (IF call.op = "im2col" THEN Len(X.shape) ELSE 0) > MaxRank
=============================================================================
