------------------------------ MODULE Kernels -------------------------------
(***************************************************************************)
(* The structural kernels, one call at a time: the float ones of           *)
(* kernels.rs and tensor_ops.rs, whose loops tensor_int.rs repeats, and    *)
(* the movements of cast.rs.  Every step is one turn of the odometer loop: *)
(* one output cell, one line of a scan or sort, one source of a scatter.   *)
(*                                                                         *)
(* Elements are symbolic.  A cell holds the terms folded into it, in the   *)
(* order they were: a term is the tuple of elements an operation took.     *)
(* What a fold of these terms is as a number is the subject of IntFold.    *)
(***************************************************************************)
EXTENDS Tensor, SequencesExt

CONSTANTS
  MaxOperands,   \* MAX_OPERANDS
  Calls          \* the calls: records, whose fields depend on the kernel

VARIABLES
  call,
  status,   \* called, running, returned, declined, aborted
  error,    \* the Error of a declined call
  lin,      \* the turns the odometer has made
  out       \* the output buffer: a sequence of cells

vars == <<call, status, error, lin, out>>

\* The operands of a call are views.
X == call.x
Y == call.y

ArgKernels == {"argmax", "argmin"}
SortKernels == {"sort"} \cup ArgKernels

-----------------------------------------------------------------------------
\* Shapes.
ReducedAxes == ToSet(call.axes)
ReducedShape ==
  LET kept == SetToSortSeq(ReducedAxes, <)
  IN  [i \in DOMAIN kept |-> X.shape[kept[i]]]

Collapsed(shape, axes) == [k \in Axes(shape) |-> IF k \in axes THEN 1 ELSE shape[k]]

GatherShape ==
  SubSeq(X.shape, 1, call.axis - 1) \o call.index.shape
    \o SubSeq(X.shape, call.axis + 1, Len(X.shape))

Batch(shape) == SubSeq(shape, 1, Len(shape) - 2)
Rows(shape) == shape[Len(shape) - 1]
Columns(shape) == shape[Len(shape)]
MatmulBatch == BroadcastShapes(Batch(X.shape), Batch(Y.shape))

\* concat: the extents of the first k inputs, one after the other.
Joined(k) == Dot([i \in 1..k |-> call.xs[i].shape[call.axis]], [i \in 1..k |-> 1])
ConcatShape == OnAxis(call.xs[1].shape, call.axis, Joined(Len(call.xs)))

\* squeeze and unsqueeze: call.mask is the set of the axes named.
SqueezedShape ==
  LET kept == SetToSortSeq(Axes(X.shape) \ call.mask, <)
  IN  [i \in DOMAIN kept |-> X.shape[kept[i]]]
UnsqueezedRank == Len(X.shape) + Cardinality(call.mask)
UnsqueezedShape ==
  [k \in 1..UnsqueezedRank |->
     IF k \in call.mask THEN 1 ELSE X.shape[k - Cardinality({a \in call.mask : a < k})]]

OutShape ==
  CASE call.kernel = "map" -> call.target
    [] call.kernel = "reduce" -> Collapsed(X.shape, ReducedAxes)
    [] call.kernel \in {"scan", "sort", "flip"} -> X.shape
    [] call.kernel \in ArgKernels -> Collapsed(X.shape, {call.axis})
    [] call.kernel = "gather" -> GatherShape
    [] call.kernel = "scatter" -> call.dest
    [] call.kernel = "matmul" -> MatmulBatch \o <<Rows(X.shape), Columns(Y.shape)>>
    [] call.kernel = "concat" -> ConcatShape
    [] call.kernel = "squeeze" -> SqueezedShape
    [] call.kernel = "unsqueeze" -> UnsqueezedShape

\* What the odometer turns over: the lines of a scan or sort, the sources of a
\* scatter, the cells of the operand that is squeezed or not, those of the output
\* otherwise.
WalkShape ==
  CASE call.kernel \in {"scan"} \cup SortKernels -> Collapsed(X.shape, {call.axis})
    [] call.kernel = "scatter" -> OnAxis(call.dest, call.axis, Len(call.index.values))
    [] call.kernel \in {"squeeze", "unsqueeze"} -> X.shape
    [] OTHER -> OutShape

\* The cells allocated at the start; a sort of nothing returns before its loop.
BufferCount == Product(IF call.kernel \in SortKernels THEN X.shape ELSE OutShape)
WalkCount ==
  IF call.kernel \in SortKernels /\ BufferCount = 0 THEN 0 ELSE Product(WalkShape)

-----------------------------------------------------------------------------
\* The checks before the loop, in their order.
AxisChecked(shape, rest) == IF call.axis \in Axes(shape) THEN rest ELSE "AxisOutOfRange"
CountChecked(shape) == IF NumelOverflows(shape) THEN "ShapeOverflow" ELSE "none"

MapFault ==
  IF Len(call.xs) > MaxOperands \/ Len(call.target) > MaxRank THEN "RankExceeded"
  ELSE IF \E k \in DOMAIN call.xs : ~Broadcastable(call.xs[k].shape, call.target)
       THEN "BroadcastIncompatible"
  ELSE CountChecked(call.target)

ReduceFault ==
  IF call.axes = <<>> THEN "EmptyAxesMask"
  ELSE IF ~(ReducedAxes \subseteq Axes(X.shape)) THEN "AxisOutOfRange"
  ELSE IF NumelOverflows(ReducedShape) THEN "ShapeOverflow"
  ELSE CountChecked(OutShape)

ScanFault ==
  AxisChecked(X.shape,
    IF NumelOverflows(X.shape) THEN "ShapeOverflow" ELSE CountChecked(WalkShape))

GatherFault ==
  AxisChecked(X.shape,
    IF Len(GatherShape) > MaxRank THEN "RankExceeded"
    ELSE IF call.hasBase /\ ~Broadcastable(call.base.shape, GatherShape)
         THEN "BroadcastIncompatible"
    ELSE CountChecked(GatherShape))

ScatterFault ==
  AxisChecked(call.dest,
    IF Len(call.index.shape) # 1 THEN "ShapeMismatch"
    ELSE IF ~Broadcastable(X.shape, WalkShape) THEN "BroadcastIncompatible"
    ELSE CountChecked(WalkShape))

MatmulFault ==
  IF Len(X.shape) < 2 \/ Len(Y.shape) < 2 THEN "ShapeMismatch"
  ELSE IF Columns(X.shape) # Rows(Y.shape) THEN "ShapeMismatch"
  ELSE IF BroadcastShapesFails(Batch(X.shape), Batch(Y.shape)) THEN "BroadcastIncompatible"
  ELSE CountChecked(OutShape)

\* An input of another rank, or of another extent off the axis.
Mismatched(k) ==
  LET first == call.xs[1].shape
      shape == call.xs[k].shape
  IN  Len(shape) # Len(first) \/ \E a \in Axes(first) \ {call.axis} : shape[a] # first[a]

\* The inputs are met in order: the sum of the extents may overflow before a mismatch.
ConcatFault ==
  IF Len(call.xs) \notin 2..(MaxOperands - 1) THEN "Arity"
  ELSE AxisChecked(call.xs[1].shape,
    LET matched == {k \in DOMAIN call.xs : \A j \in 1..k : ~Mismatched(j)}
    IN  IF \E k \in matched : Joined(k) > UsizeMax THEN "ShapeOverflow"
        ELSE IF matched # DOMAIN call.xs THEN "ShapeMismatch"
        ELSE CountChecked(ConcatShape))

SqueezeFault ==
  IF call.mask = {} THEN "AxesMaskEmpty"
  ELSE IF ~(call.mask \subseteq Axes(X.shape)) THEN "AxesMaskBitOutOfRange"
  ELSE IF \E k \in call.mask : X.shape[k] # 1 THEN "SqueezeExtentNotOne"
  ELSE CountChecked(X.shape)

UnsqueezeFault ==
  IF call.mask = {} THEN "AxesMaskEmpty"
  ELSE IF UnsqueezedRank > MaxRank THEN "RankExceeded"
  ELSE IF ~(call.mask \subseteq 1..UnsqueezedRank) THEN "AxesMaskBitOutOfRange"
  ELSE CountChecked(X.shape)

Fault ==
  CASE call.kernel = "map" -> MapFault
    [] call.kernel = "reduce" -> ReduceFault
    [] call.kernel = "scan" -> ScanFault
    [] call.kernel \in SortKernels \cup {"flip"} -> AxisChecked(X.shape, CountChecked(X.shape))
    [] call.kernel = "gather" -> GatherFault
    [] call.kernel = "scatter" -> ScatterFault
    [] call.kernel = "matmul" -> MatmulFault
    [] call.kernel = "concat" -> ConcatFault
    [] call.kernel = "squeeze" -> SqueezeFault
    [] call.kernel = "unsqueeze" -> UnsqueezeFault

Fail(e) == status' = "declined" /\ error' = e /\ UNCHANGED <<call, lin, out>>

Decline == status = "called" /\ Fault # "none" /\ Fail(Fault)

-----------------------------------------------------------------------------
\* Allocation.  A scan starts from a buffer of identities, a sort from one of its
\* first key, a scatter from dest, the others from an empty one.
InitialBuffer ==
  CASE call.kernel = "scan" -> [i \in 1..BufferCount |-> <<>>]
    [] call.kernel \in SortKernels ->
         [i \in 1..BufferCount |->
            <<<<Read(X, [k \in Axes(X.shape) |-> 0]), <<"index", 0>>>>>>]
    [] call.kernel = "scatter" -> [i \in 1..BufferCount |-> <<<<<<"dest", i - 1>>>>>>]
    [] OTHER -> <<>>

Begin ==
  /\ status = "called" /\ Fault = "none"
  /\ status' = "running" /\ out' = InitialBuffer
  /\ UNCHANGED <<call, error, lin>>

\* The kernels whose buffer is a vec![value; count] instead of an alloc_exact.
PlainVecKernels == {"scan"} \cup SortKernels

\* The allocator refuses the buffer.
Refuse ==
  /\ status = "called" /\ Fault = "none"
  /\ call.kernel # "scatter" /\ BufferCount > 0
  /\ IF call.kernel \in PlainVecKernels
     THEN status' = "aborted" /\ UNCHANGED <<call, error, lin, out>>
     ELSE Fail("ShapeOverflow")

\* It refuses the pairs of a line to sort.
RefuseLine ==
  /\ status = "running" /\ call.kernel \in SortKernels /\ lin < WalkCount
  /\ Fail("ShapeOverflow")

-----------------------------------------------------------------------------
\* The loops.
Walks(kernels) == status = "running" /\ call.kernel \in kernels /\ lin < WalkCount
coord == Decode(lin, WalkShape)

Lands(buffer) ==
  \A i \in DOMAIN buffer : \A m \in DOMAIN buffer[i] : Missing \notin ToSet(buffer[i][m])

\* A read outside the buffer is the error the loop ends with.
Write(buffer) ==
  IF Lands(buffer)
  THEN out' = buffer /\ lin' = lin + 1 /\ UNCHANGED <<call, status, error>>
  ELSE Fail("ShapeMismatch")
Push(cell) == Write(Append(out, cell))

MapStep ==
  /\ Walks({"map"})
  /\ Push(<<[k \in DOMAIN call.xs |->
              Read(BroadcastTo(call.xs[k], call.target), coord)]>>)

\* The coordinate the r-th combination of reduced positions belongs to.
ReducedCoord(r) ==
  [k \in Axes(X.shape) |->
     IF k \in ReducedAxes
     THEN Decode(r, ReducedShape)[Cardinality({a \in ReducedAxes : a <= k})]
     ELSE coord[k]]

ReduceStep ==
  /\ Walks({"reduce"})
  /\ Push([r \in 1..Product(ReducedShape) |-> <<Read(X, ReducedCoord(r - 1))>>])

\* The linear position, from 1, of the j-th element of the current line.
LinePosition(j) == 1 + RowMajorIndex(OnAxis(coord, call.axis, j), X.shape)
LineElement(j) == Read(X, OnAxis(coord, call.axis, j))
LineExtent == X.shape[call.axis]

WriteLine(Cell(_)) ==
  Write([i \in DOMAIN out |->
           LET at == {j \in 0..(LineExtent - 1) : LinePosition(j) = i}
           IN  IF at = {} THEN out[i] ELSE Cell(CHOOSE j \in at : TRUE)])

ScanStep ==
  /\ Walks({"scan"})
  /\ WriteLine(LAMBDA j :
       [p \in 1..(IF call.exclusive THEN j ELSE j + 1) |-> <<LineElement(p - 1)>>])

\* The key of an element.  NaN is the greatest key, and equal to itself; the two
\* zeros are one key.
Key(element) == call.keys[element[2] + 1]

\* sort_by is stable, in both directions.
Descending == call.kernel = "argmax" \/ (call.kernel = "sort" /\ call.descending)
\* Mutant: a descending sort is the ascending one reversed.
SortedLineReversed ==
  LET ascending ==
        SortSeq([j \in 1..LineExtent |-> <<LineElement(j - 1), <<"index", j - 1>>>>],
                LAMBDA p, q :
                  LET a == Key(p[1])
                      b == Key(q[1])
                  IN  IF a # b THEN a < b ELSE p[2][2] < q[2][2])
  IN  IF Descending THEN Reverse(ascending) ELSE ascending

SortedLine ==
  SortSeq([j \in 1..LineExtent |-> <<LineElement(j - 1), <<"index", j - 1>>>>],
          LAMBDA p, q :
            LET a == Key(p[1])
                b == Key(q[1])
            IN  IF a # b THEN (a < b) # Descending ELSE p[2][2] < q[2][2])

SortStep ==
  /\ Walks(SortKernels)
  /\ LET sorted == SortedLine IN WriteLine(LAMBDA j : <<sorted[j + 1]>>)

\* Mutant: the extent itself is in bounds.
InBoundsInclusive(value, extent) == value \in 0..extent

\* resolve_index: a position to read, or what to do instead.
InBounds(value, extent) == value \in 0..(extent - 1)
ClampTo(value, extent) == IF value < 0 THEN 0 ELSE extent - 1

GatherStep ==
  /\ Walks({"gather"})
  /\ LET rank == Len(call.index.shape)
         inner == SubSeq(coord, call.axis, call.axis + rank - 1)
         value == call.index.values[1 + RowMajorIndex(inner, call.index.shape)]
         extent == X.shape[call.axis]
         from(s) == <<<<Read(X, SubSeq(coord, 1, call.axis - 1) \o <<s>>
                                \o SubSeq(coord, call.axis + rank, Len(coord)))>>>>
     IN  \/ InBounds(value, extent) /\ Push(from(value))
         \/ /\ ~InBounds(value, extent) /\ call.oob = "clamp"
            /\ IF extent = 0 THEN Fail("AxisOutOfRange") ELSE Push(from(ClampTo(value, extent)))
         \/ ~InBounds(value, extent) /\ call.oob = "zero_fill" /\ Push(<<>>)
         \/ /\ ~InBounds(value, extent) /\ call.oob = "skip"
            /\ IF call.hasBase
               THEN Push(<<<<Read(BroadcastTo(call.base, GatherShape), coord)>>>>)
               ELSE Fail("GatherSkipNoBase")

ScatterStep ==
  /\ Walks({"scatter"})
  /\ LET value == call.index.values[1 + coord[call.axis]]
         at == 1 + RowMajorIndex(OnAxis(coord, call.axis, value), call.dest)
         update == <<Read(BroadcastTo(X, WalkShape), coord)>>
     IN  \/ /\ ~InBounds(value, call.dest[call.axis])
            /\ lin' = lin + 1 /\ UNCHANGED <<call, status, error, out>>
         \/ /\ InBounds(value, call.dest[call.axis])
            /\ Write([out EXCEPT ![at] = IF call.combine = "assign" THEN <<update>>
                                          ELSE Append(@, update)])

MatmulStep ==
  /\ Walks({"matmul"})
  /\ LET inner == Columns(X.shape)
         batch == SubSeq(coord, 1, Len(coord) - 2)
         row == coord[Len(coord) - 1]
         column == coord[Len(coord)]
         left == BroadcastTo(X, MatmulBatch \o <<Rows(X.shape), inner>>)
         right == BroadcastTo(Y, MatmulBatch \o <<inner, Columns(Y.shape)>>)
     IN  Push([p \in 1..inner |-> <<Read(left, batch \o <<row, p - 1>>),
                                    Read(right, batch \o <<p - 1, column>>)>>])

FlipStep ==
  /\ Walks({"flip"})
  /\ Push(<<<<Read(X, OnAxis(coord, call.axis, X.shape[call.axis] - 1 - coord[call.axis]))>>>>)

\* The input a position along the axis lies in: the first whose end is beyond it.
InputAt(at) ==
  CHOOSE k \in DOMAIN call.xs : at < Joined(k) /\ \A j \in 1..(k - 1) : at >= Joined(j)

ConcatStep ==
  /\ Walks({"concat"})
  /\ LET k == InputAt(coord[call.axis])
     IN  Push(<<<<Read(call.xs[k],
                       OnAxis(coord, call.axis, coord[call.axis] - Joined(k - 1)))>>>>)

\* reshape_copy.
ReshapeStep ==
  /\ Walks({"squeeze", "unsqueeze"})
  /\ Push(<<<<Read(X, coord)>>>>)

-----------------------------------------------------------------------------
\* The end.  argmax and argmin keep the index sorted first on every line.
Finished == status = "running" /\ lin = WalkCount

Return ==
  /\ Finished /\ call.kernel \notin ArgKernels
  /\ IF Len(out) # Product(OutShape) THEN Fail("ShapeMismatch")
     ELSE status' = "returned" /\ UNCHANGED <<call, error, lin, out>>

\* An axis of extent 0 has no extreme: the sort returned nothing to read.
Firsts ==
  [i \in 1..Product(OutShape) |->
     LET at == 1 + RowMajorIndex(Decode(i - 1, OutShape), X.shape)
     IN  IF at \in DOMAIN out THEN <<<<out[at][1][2]>>>> ELSE <<<<Missing>>>>]

ReturnIndex ==
  /\ Finished /\ call.kernel \in ArgKernels
  /\ IF NumelOverflows(OutShape) THEN Fail("ShapeOverflow")
     ELSE IF ~Lands(Firsts) THEN Fail("ShapeMismatch")
     ELSE status' = "returned" /\ out' = Firsts /\ UNCHANGED <<call, error, lin>>

\* The allocator refuses the buffer of the indices.
RefuseIndex ==
  /\ Finished /\ call.kernel \in ArgKernels
  /\ ~NumelOverflows(OutShape) /\ Product(OutShape) > 0
  /\ Fail("ShapeOverflow")

Init ==
  /\ call \in Calls
  /\ status = "called" /\ error = "none" /\ lin = 0 /\ out = <<>>

Next ==
  \/ Decline \/ Begin \/ Refuse \/ RefuseLine
  \/ MapStep \/ ReduceStep \/ ScanStep \/ SortStep
  \/ GatherStep \/ ScatterStep \/ MatmulStep \/ FlipStep
  \/ ConcatStep \/ ReshapeStep
  \/ Return \/ ReturnIndex \/ RefuseIndex

Spec == Init /\ [][Next]_vars
=============================================================================
