---------------------------- MODULE KernelSpec ------------------------------
(***************************************************************************)
(* What the structural kernels promise, index by index: sets of            *)
(* coordinates and their lexicographic order, without strides, linear      *)
(* positions, an odometer or a buffer.                                     *)
(***************************************************************************)
EXTENDS Kernels

Before(c, d) ==
  \E k \in DOMAIN c : c[k] < d[k] /\ \A m \in 1..(k - 1) : c[m] = d[m]

\* The coordinates of a set, in order.
InOrder(cs) ==
  [m \in 1..Cardinality(cs) |->
     CHOOSE c \in cs : Cardinality({d \in cs : Before(d, c)}) = m - 1]

\* Where row-major order puts a coordinate.
Place(c, shape) == LET cs == Coords(shape) IN Cardinality({d \in cs : Before(d, c)})

Agree(c, d, axes) == DOMAIN c = DOMAIN d /\ \A k \in DOMAIN c \ axes : c[k] = d[k]

\* The element an operand, seen in a shape it broadcasts to, has at a coordinate:
\* axes are aligned from the right, and an extent of 1 has only one position.
Element(v, c) ==
  LET s == v.own
      own == [k \in Axes(s) |-> IF s[k] = 1 THEN 0 ELSE c[k + Len(c) - Len(s)]]
  IN  <<v.name, Place(own, s)>>

XShape == X.shape
XAt(c) == Element(X, c)
LineOf(c) == {d \in Coords(XShape) : Agree(c, d, {call.axis})}

\* The order a sort puts two elements of a line in.
ComesFirst(c, d) ==
  LET a == Key(XAt(c))
      b == Key(XAt(d))
  IN  IF a = b THEN c[call.axis] < d[call.axis] ELSE IF Descending THEN b < a ELSE a < b
Ranked(c) == Cardinality({d \in LineOf(c) : ComesFirst(d, c)})

IndexValue(c) == call.index.values[1 + Place(c, call.index.shape)]
Nearest(v, extent) == IF v < 0 THEN 0 ELSE IF v >= extent THEN extent - 1 ELSE v

GatherCell(oc) ==
  LET r == Len(call.index.shape)
      v == IndexValue(SubSeq(oc, call.axis, call.axis + r - 1))
      extent == XShape[call.axis]
      at(p) == [k \in DOMAIN XShape |->
                  IF k < call.axis THEN oc[k] ELSE IF k = call.axis THEN p ELSE oc[k + r - 1]]
  IN  CASE v \in 0..(extent - 1) -> <<<<XAt(at(v))>>>>
        [] v \notin 0..(extent - 1) /\ call.oob = "clamp" -> <<<<XAt(at(Nearest(v, extent)))>>>>
        [] v \notin 0..(extent - 1) /\ call.oob = "zero_fill" -> <<>>
        [] v \notin 0..(extent - 1) /\ call.oob = "skip" -> <<<<Element(call.base, oc)>>>>

\* The sources a scatter writes to a cell: an index out of bounds writes nowhere.
ScatterCell(oc) ==
  LET sources == {u \in Coords(OnAxis(call.dest, call.axis, Len(call.index.values))) :
                    Agree(u, oc, {call.axis}) /\ IndexValue(<<u[call.axis]>>) = oc[call.axis]}
      order == InOrder(sources)
      terms == [m \in DOMAIN order |-> <<XAt(order[m])>>]
      old == <<"dest", Place(oc, call.dest)>>
  IN  IF call.combine = "assign" /\ sources # {} THEN <<Last(terms)>>
      ELSE <<<<old>>>> \o terms

\* The inputs of a concat end to end: which input, and where in it.
Slots ==
  InOrder(UNION {{<<k, p>> : p \in 0..(call.xs[k].shape[call.axis] - 1)} : k \in DOMAIN call.xs})

\* The m-th of the axes that are not named.
Unnamed(axes, m) ==
  CHOOSE k \in axes \ call.mask : Cardinality({a \in axes \ call.mask : a <= k}) = m

\* The terms a cell of the result is folded from, in the order promised.
SpecCell(oc) ==
  CASE call.kernel = "map" ->
         <<[k \in DOMAIN call.xs |-> Element(call.xs[k], oc)]>>
    [] call.kernel = "reduce" ->
         LET cs == InOrder({c \in Coords(XShape) : Agree(c, oc, ToSet(call.axes))})
         IN  [m \in DOMAIN cs |-> <<XAt(cs[m])>>]
    [] call.kernel = "scan" ->
         LET cs == InOrder({c \in LineOf(oc) :
                     \/ c[call.axis] < oc[call.axis]
                     \/ c[call.axis] = oc[call.axis] /\ ~call.exclusive})
         IN  [m \in DOMAIN cs |-> <<XAt(cs[m])>>]
    [] call.kernel = "sort" ->
         LET c == CHOOSE d \in LineOf(oc) : Ranked(d) = oc[call.axis]
         IN  <<<<XAt(c), <<"index", c[call.axis]>>>>>>
    [] call.kernel \in ArgKernels ->
         LET c == CHOOSE d \in LineOf(oc) : Ranked(d) = 0
         IN  <<<<<<"index", c[call.axis]>>>>>>
    [] call.kernel = "gather" -> GatherCell(oc)
    [] call.kernel = "scatter" -> ScatterCell(oc)
    [] call.kernel = "matmul" ->
         LET b == SubSeq(oc, 1, Len(oc) - 2)
         IN  [p \in 1..Columns(XShape) |->
                <<XAt(b \o <<oc[Len(oc) - 1], p - 1>>),
                  Element(Y, b \o <<p - 1, oc[Len(oc)]>>)>>]
    [] call.kernel = "flip" ->
         LET c == CHOOSE d \in LineOf(oc) :
                    d[call.axis] + oc[call.axis] = XShape[call.axis] - 1
         IN  <<<<XAt(c)>>>>
    [] call.kernel = "concat" ->
         LET slot == Slots[1 + oc[call.axis]]
         IN  <<<<Element(call.xs[slot[1]], OnAxis(oc, call.axis, slot[2]))>>>>
    [] call.kernel = "squeeze" ->
         LET c == CHOOSE d \in Coords(XShape) :
                    \A m \in DOMAIN oc : d[Unnamed(Axes(XShape), m)] = oc[m]
         IN  <<<<XAt(c)>>>>
    [] call.kernel = "unsqueeze" ->
         <<<<XAt([m \in Axes(XShape) |-> oc[Unnamed(DOMAIN oc, m)]])>>>>

-----------------------------------------------------------------------------
\* A returned tensor holds, at every coordinate, the terms its definition names, in
\* the order it pins: broadcast operands read one element many times, a later
\* source of a scatter wins, equal keys keep their order in both directions.
ResultIsSpec ==
  status = "returned" =>
    LET shape == OutShape
        coords == Coords(shape)
    IN  /\ Len(out) = Cardinality(coords)
        /\ \A oc \in coords : out[1 + Place(oc, shape)] = SpecCell(oc)

\* The shapes a kernel counts: that of its result, and what it walks or folds besides.
Counted ==
  {OutShape} \cup
  CASE call.kernel = "reduce" -> {ReducedShape}
    [] call.kernel = "scan" -> {XShape, WalkShape}
    [] call.kernel \in SortKernels \cup {"flip", "squeeze", "unsqueeze"} -> {XShape}
    [] call.kernel = "scatter" -> {WalkShape}
    [] OTHER -> {}

\* The extents of the first inputs of a concat, put end to end.
ExtentsRunOver ==
  call.kernel = "concat" /\ \E k \in DOMAIN call.xs :
    /\ \A j \in 1..k : call.axis \in Axes(call.xs[j].shape)
    /\ Cardinality(UNION {{<<j, p>> : p \in 0..(call.xs[j].shape[call.axis] - 1)} : j \in 1..k})
         > UsizeMax

CountRunsOver == ExtentsRunOver \/ \E s \in Counted : TooMany(s)

\* Some index of a gather is out of bounds.
IndicesMiss == \E m \in DOMAIN call.index.values :
                  call.index.values[m] \notin 0..(XShape[call.axis] - 1)

\* A call is declined for a reason of its own.  In particular no read or write inside
\* a loop ever misses a buffer: a ShapeMismatch is one of the arguments, or an
\* extreme asked of an axis of extent 0.
\* An overflow is one in the order the extents are multiplied, an extent of 0 notwithstanding,
\* or a buffer with elements that the allocator refused: before anything is allocated it can
\* only be the first; and a call that overflows never returns.
DeclinesNameTheFault ==
  /\ status = "called" /\ Fault = "ShapeOverflow" => CountRunsOver
  /\ error = "ShapeOverflow" =>
       \/ CountRunsOver
       \/ call.kernel \notin {"scan", "scatter"} /\ Coords(OutShape) # {}
  /\ status = "returned" => ~CountRunsOver
  /\ error = "EmptyAxesMask" => call.kernel = "reduce" /\ call.axes = <<>>
  /\ error = "AxisOutOfRange" =>
       CASE call.kernel = "reduce" -> \E a \in ToSet(call.axes) : a > Len(XShape)
         [] call.kernel = "scatter" -> call.axis > Len(call.dest)
         [] call.kernel = "concat" -> call.axis > Len(call.xs[1].shape)
         [] call.kernel = "gather" ->
              call.axis > Len(XShape) \/ (XShape[call.axis] = 0 /\ call.oob = "clamp")
         [] OTHER -> call.axis > Len(XShape)
  /\ error = "RankExceeded" =>
       CASE call.kernel = "map" -> Len(call.target) > MaxRank \/ Len(call.xs) > MaxOperands
         [] call.kernel = "gather" -> Len(XShape) - 1 + Len(call.index.shape) > MaxRank
         [] call.kernel = "unsqueeze" -> Len(XShape) + Cardinality(call.mask) > MaxRank
         [] OTHER -> FALSE
  /\ error = "GatherSkipNoBase" =>
       call.kernel = "gather" /\ call.oob = "skip" /\ ~call.hasBase /\ IndicesMiss
  /\ error = "ShapeMismatch" =>
       CASE call.kernel = "matmul" ->
              Len(XShape) < 2 \/ Len(Y.shape) < 2 \/ Columns(XShape) # Rows(Y.shape)
         [] call.kernel = "scatter" -> Len(call.index.shape) # 1
         [] call.kernel \in ArgKernels -> XShape[call.axis] = 0
         [] call.kernel = "concat" ->
              \E v, w \in ToSet(call.xs) : ~Agree(v.shape, w.shape, {call.axis})
         [] OTHER -> FALSE
  /\ error = "SqueezeExtentNotOne" => \E a \in call.mask : XShape[a] # 1
  /\ error = "BroadcastIncompatible" => call.kernel \in {"map", "gather", "scatter", "matmul"}

\* The count a mean divides by (reduced_count, and the ReducedCount node).
ReducedCount(shape, axes) == Product([k \in DOMAIN axes |-> shape[axes[k]]])

\* "The number of elements folded away by reducing shape over axes" (tensor_ops.rs).
ReducedCountIsFolded ==
  status = "returned" /\ call.kernel = "reduce" =>
    \A i \in DOMAIN out : Len(out[i]) = ReducedCount(XShape, call.axes)
=============================================================================
