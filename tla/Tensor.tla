------------------------------- MODULE Tensor -------------------------------
(***************************************************************************)
(* Shapes, strided views, broadcasting and the odometer (tensor.rs).       *)
(*                                                                         *)
(* Extents, coordinates and linear positions count from 0, as in the code; *)
(* axes count from 1, so that a shape or a coordinate is a sequence over   *)
(* them.  Products are exact: the wrapping ones of the code (strides,      *)
(* row_major_index) could only wrap on a shape with an extent of 0, which  *)
(* has no coordinate to read.                                              *)
(***************************************************************************)
EXTENDS Integers, Sequences, FiniteSets

CONSTANTS
  MaxRank,    \* MAX_RANK
  UsizeMax    \* the greatest element count

Axes(shape) == DOMAIN shape

Product(shape) ==
  LET upTo[k \in 0..Len(shape)] == IF k = 0 THEN 1 ELSE upTo[k - 1] * shape[k]
  IN  upTo[Len(shape)]

\* Mutant: only the whole product is looked at.
NumelOverflowsAtTheEnd(shape) == Product(shape) > UsizeMax

\* Mutant: a count that a usize just holds is refused.
NumelOverflowsAtTheLimit(shape) ==
  \E k \in Axes(shape) : Product(SubSeq(shape, 1, k)) >= UsizeMax

\* numel fails: the count overflows on the way, even if an extent of 0 follows.
NumelOverflows(shape) ==
  \E k \in Axes(shape) : Product(SubSeq(shape, 1, k)) > UsizeMax

ContiguousStrides(shape) ==
  [k \in Axes(shape) |-> Product(SubSeq(shape, k + 1, Len(shape)))]

Dot(c, s) ==
  LET upTo[k \in 0..Len(c)] == IF k = 0 THEN 0 ELSE upTo[k - 1] + c[k] * s[k]
  IN  upTo[Len(c)]

RowMajorIndex(coord, shape) == Dot(coord, ContiguousStrides(shape))

\* decode: the lin-th coordinate an odometer yields.
Decode(lin, shape) ==
  LET strides == ContiguousStrides(shape)
  IN  [k \in Axes(shape) |-> (lin \div strides[k]) % shape[k]]

OnAxis(coord, axis, i) == [coord EXCEPT ![axis] = i]

\* A view: the tensor it reads, the length of its buffer, shape and strides; own,
\* the tensor's own shape, is for the reference only.
Contiguous(name, shape) ==
  [name |-> name, len |-> Product(shape), shape |-> shape,
   strides |-> ContiguousStrides(shape), own |-> shape]

Pad(shape, target) == Len(target) - Len(shape)

\* broadcast_to succeeds.
Broadcastable(shape, target) ==
  /\ Len(target) \in Len(shape)..MaxRank
  /\ \A k \in Axes(shape) : shape[k] \in {1, target[k + Pad(shape, target)]}

\* broadcast_to: an axis that is added or stretched gets the stride 0.
BroadcastTo(v, target) ==
  LET pad == Pad(v.shape, target)
  IN  [v EXCEPT !.shape = target,
                !.strides = [k \in Axes(target) |->
                               IF k <= pad THEN 0
                               ELSE IF v.shape[k - pad] = target[k] THEN v.strides[k - pad]
                               ELSE 0]]

\* broadcast_shapes of two shapes: on every axis, from the right, their extents
\* other than 1 agree.
CommonRank(s, t) == IF Len(s) >= Len(t) THEN Len(s) ELSE Len(t)
ExtentsAt(s, t, k) ==
  {u[k - (CommonRank(s, t) - Len(u))] : u \in {v \in {s, t} : k > CommonRank(s, t) - Len(v)}}
Stretched(s, t, k) == ExtentsAt(s, t, k) \ {1}

BroadcastShapesFails(s, t) ==
  \E k \in 1..CommonRank(s, t) : \E d, e \in Stretched(s, t, k) : d # e
BroadcastShapes(s, t) ==
  [k \in 1..CommonRank(s, t) |->
     IF Stretched(s, t, k) = {} THEN 1 ELSE CHOOSE d \in Stretched(s, t, k) : TRUE]

\* View::read: the element at a coordinate, or Missing outside the buffer.
Missing == <<"missing", 0>>
Read(v, coord) ==
  LET i == Dot(coord, v.strides)
  IN  IF i \in 0..(v.len - 1) THEN <<v.name, i>> ELSE Missing

-----------------------------------------------------------------------------
\* The reference: a shape as the set of its coordinates.
Coords(shape) ==
  {c \in [Axes(shape) -> UNION {0..(shape[k] - 1) : k \in Axes(shape)}] :
     \A k \in Axes(shape) : c[k] < shape[k]}

\* The coordinates over some of the first axes are more than a usize counts, whatever
\* axis of extent 0 comes after them.
TooMany(shape) == \E k \in Axes(shape) : Cardinality(Coords(SubSeq(shape, 1, k))) > UsizeMax
=============================================================================
