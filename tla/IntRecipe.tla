----------------------------- MODULE IntRecipe ------------------------------
(***************************************************************************)
(* The integer lane of the recipe evaluator (recipe_int.rs,                *)
(* compute_node_int): every node declares a dtype of its own, and its      *)
(* tensor is computed in the i128 lane from the tensors of its children.   *)
(*                                                                         *)
(* Nodes are evaluated here in the order they are numbered; that the walk  *)
(* visits children first, whatever the numbering, is RecipeWalk's subject. *)
(* A tensor is a vector: one element (rank 0, broadcast) or Extent of      *)
(* them; shapes are the subject of Tensor.                                 *)
(***************************************************************************)
EXTENDS IntScalar

CONSTANTS
  Extent,   \* the length of the vectors
  MaxNodes, \* the length of a recipe
  Binds,    \* what Bind and RuntimeScalar bind: tensors of i128, of any value
  OpNodes   \* the other nodes a recipe may contain, without their children

Monoids == {"sum", "prod", "max", "min"}

\* The vectors: one element, or Extent of them.
Vectors == [1..1 -> Int] \cup [1..Extent -> Int]

\* A node names as many operands as its kind takes; an apply may name any number of
\* them, of any operation, but an operation has three at most and one at least.
ASSUME RecipeAssumption ==
  /\ Extent \in Nat \ {0}
  /\ Binds \subseteq Vectors
  /\ \A p \in OpNodes :
        /\ p.flag \in BOOLEAN
        /\ \/ p.kind = "apply" /\ p.arity \in 1..3
           \/ p.kind \in {"reduce", "scan"} /\ p.op \in Monoids /\ p.arity = 1
           \/ p.kind = "matmul" /\ p.arity = 2
           \/ p.kind \in {"iota", "flip", "sort"} /\ p.arity = 1
           \/ /\ p.kind = "gather" /\ p.op \in {"clamp", "zero_fill", "skip"}
              /\ p.arity \in 1..2 /\ p.index \in [1..Extent -> Int]
           \/ /\ p.kind = "scatter" /\ p.op \in {"assign"} \cup (Monoids \ {"prod"})
              /\ p.arity = 2 /\ p.index \in [1..Extent -> Int]

VARIABLES
  nodes,      \* the nodes evaluated so far
  vals,       \* the tensor memoized for each
  unbounded,  \* what unbounded integers would have given for each
  error       \* the call was declined

recipeVars == <<nodes, vals, unbounded, error>>

N == Len(nodes)

\* Mutant: a leaf passes its input through.
BindAsIs(raw, d) == raw

\* Bind, RuntimeScalar, Const, ConstBits and ReducedCount wrap what they are given.
BindValue(raw, d) == [k \in DOMAIN raw |-> Wrap(raw[k], d)]

-----------------------------------------------------------------------------
\* The kernels, on the tensors x (and y, z) of the children.

Broadcast(xs) == IF \E k \in DOMAIN xs : Len(xs[k]) > 1 THEN Extent ELSE 1
At(x, k) == IF Len(x) = 1 THEN x[1] ELSE x[k]

\* element_map of a single operation.
ApplyValue(op, d, xs) ==
  [k \in 1..Broadcast(xs) |-> EvalInt(op, d, [m \in DOMAIN xs |-> At(xs[m], k)])]

\* The accumulator before the first element of a line, and after each.
Folded(monoid, d, x) ==
  LET acc[k \in 0..Len(x)] ==
        IF k = 0 THEN Identity(monoid, d) ELSE Combine(monoid, acc[k - 1], x[k], d)
  IN  acc

ReduceValue(monoid, d, x) == <<Folded(monoid, d, x)[Len(x)]>>

\* prefix_scan: an exclusive scan stores the accumulator before combining.
ScanValue(monoid, exclusive, d, x) ==
  [k \in DOMAIN x |-> Folded(monoid, d, x)[IF exclusive THEN k - 1 ELSE k]]

\* Mutant: products are taken in the lane and not brought back, nor is their sum.
DotValueWide(d, x, y) ==
  LET acc[k \in 0..Len(x)] ==
        IF k = 0 THEN 0 ELSE Lane(acc[k - 1] + Lane(x[k] * y[k]))
  IN  <<acc[Len(x)]>>

\* matmul of a row by a column.
DotValue(d, x, y) ==
  ReduceValue("sum", d, [k \in DOMAIN x |-> IntMul(x[k], y[k], d)])

IotaValue(d, x) == [k \in DOMAIN x |-> Wrap(k - 1, d)]

\* gather: an index out of range is clamped, reads zero, or reads the base.
GatherValue(policy, index, x, base) ==
  [k \in DOMAIN index |->
     CASE index[k] \in DOMAIN x -> x[index[k]]
       [] index[k] \notin DOMAIN x /\ policy = "clamp" ->
            IF index[k] < 1 THEN x[1] ELSE x[Len(x)]
       [] index[k] \notin DOMAIN x /\ policy = "zero_fill" -> 0
       [] index[k] \notin DOMAIN x /\ policy = "skip" -> At(base, k)]

\* scatter: an index out of range is passed over, the rest combine in order.
ScatterValue(combine, index, d, dest, updates) ==
  LET data[k \in 0..Len(index)] ==
        IF k = 0 THEN dest
        ELSE IF index[k] \notin DOMAIN dest THEN data[k - 1]
        ELSE [data[k - 1] EXCEPT ![index[k]] =
                IF combine = "assign" THEN At(updates, k)
                ELSE Combine(combine, @, At(updates, k), d)]
  IN  data[Len(index)]

FlipValue(x) == [k \in DOMAIN x |-> x[Len(x) + 1 - k]]

\* sort_network: the places in the order of their elements, equal ones as they were.
InOrder(x, descending, p) ==
  \A a, b \in DOMAIN x : a < b =>
     LET u == x[p[a]]
         v == x[p[b]]
     IN  (IF descending THEN u > v ELSE u < v) \/ (u = v /\ p[a] < p[b])

SortValue(x, descending) ==
  LET p == CHOOSE f \in [DOMAIN x -> DOMAIN x] : InOrder(x, descending, f)
  IN  [k \in DOMAIN x |-> x[p[k]]]

-----------------------------------------------------------------------------
\* A node: its kind, its dtype, its kids by number; op names the operation, the
\* monoid, the policy or the combine; index is the external index of a gather or
\* scatter, raw the tensor bound to a leaf; flag says exclusive, or descending.
Kid(node, k) == vals[node.kids[k]]
KidVals(node) == [k \in DOMAIN node.kids |-> Kid(node, k)]

\* compute_node_int
NodeValue(node) ==
  CASE node.kind = "bind" -> BindValue(node.raw, node.dtype)
    [] node.kind = "apply" -> ApplyValue(node.op, node.dtype, KidVals(node))
    [] node.kind = "reduce" -> ReduceValue(node.op, node.dtype, Kid(node, 1))
    [] node.kind = "scan" -> ScanValue(node.op, node.flag, node.dtype, Kid(node, 1))
    [] node.kind = "matmul" -> DotValue(node.dtype, Kid(node, 1), Kid(node, 2))
    [] node.kind = "iota" -> IotaValue(node.dtype, Kid(node, 1))
    [] node.kind = "flip" -> FlipValue(Kid(node, 1))
    [] node.kind = "gather" ->
         GatherValue(node.op, node.index, Kid(node, 1), KidVals(node)[Len(node.kids)])
    [] node.kind = "scatter" ->
         ScatterValue(node.op, node.index, node.dtype, Kid(node, 1), Kid(node, 2))
    [] node.kind = "sort" -> SortValue(Kid(node, 1), node.flag)

\* What a node declines: an operation of another lane, or on the wrong number of
\* operands; an axis of a rank-0 tensor; factors that do not fit; a skipped index
\* without a base.
Accepts(node) ==
  CASE node.kind = "bind" -> TRUE
    [] node.kind = "apply" ->
         node.op \in IntSupported /\ Len(node.kids) = Arity(node.op)
    [] node.kind = "matmul" -> Len(Kid(node, 1)) = Len(Kid(node, 2)) /\ Len(Kid(node, 1)) > 1
    [] node.kind = "gather" ->
         /\ Len(Kid(node, 1)) > 1
         /\ node.op = "skip" /\ Len(node.kids) = 1 =>
              \A k \in DOMAIN node.index : node.index[k] \in DOMAIN Kid(node, 1)
    [] OTHER -> Len(Kid(node, 1)) > 1

-----------------------------------------------------------------------------
(***************************************************************************)
(* The reference: the same recipe over unbounded integers, for the nodes   *)
(* that only add and multiply.  Every other node is a fresh start.         *)
(***************************************************************************)
InRing(node) ==
  \/ node.kind = "apply" /\ node.op \in {"add", "sub", "mul", "neg", "sqr"}
  \/ node.kind \in {"reduce", "scan"} /\ node.op \in {"sum", "prod"}
  \/ node.kind = "matmul"

ExactOp(op, a, b) ==
  CASE op \in {"add", "sum"} -> a + b
    [] op = "sub" -> a - b
    [] op \in {"mul", "prod"} -> a * b
    [] op = "neg" -> -a
    [] op = "sqr" -> a * a

ExactFolded(op, x) ==
  LET acc[k \in 0..Len(x)] ==
        IF k = 0 THEN IF op = "sum" THEN 0 ELSE 1 ELSE ExactOp(op, acc[k - 1], x[k])
  IN  acc

ExactValue(node) ==
  LET x == unbounded[node.kids[1]]
      y == unbounded[node.kids[Len(node.kids)]]
  IN  CASE node.kind = "apply" ->
             [k \in 1..Broadcast(<<x, y>>) |-> ExactOp(node.op, At(x, k), At(y, k))]
        [] node.kind = "reduce" -> <<ExactFolded(node.op, x)[Len(x)]>>
        [] node.kind = "scan" ->
             [k \in DOMAIN x |-> ExactFolded(node.op, x)[IF node.flag THEN k - 1 ELSE k]]
        [] node.kind = "matmul" ->
             <<ExactFolded("sum", [k \in DOMAIN x |-> x[k] * y[k]])[Len(x)]>>

-----------------------------------------------------------------------------
RecipeInit == nodes = <<>> /\ vals = <<>> /\ unbounded = <<>> /\ error = FALSE

Compute(node) ==
  IF Accepts(node)
  THEN /\ nodes' = Append(nodes, node)
       /\ vals' = Append(vals, NodeValue(node))
       /\ unbounded' = Append(unbounded, CASE node.kind = "bind" -> node.raw
                                            [] InRing(node) -> ExactValue(node)
                                            [] OTHER -> NodeValue(node))
       /\ UNCHANGED error
  ELSE error' = TRUE /\ UNCHANGED <<nodes, vals, unbounded>>

Running == ~error /\ N < MaxNodes

Leaf ==
  /\ Running
  /\ \E raw \in Binds, d \in Dtypes :
        Compute([kind |-> "bind", dtype |-> d, raw |-> raw, kids |-> <<>>])

Inner ==
  /\ Running /\ N > 0
  /\ \E proto \in OpNodes, d \in Dtypes : \E kids \in [1..proto.arity -> 1..N] :
        Compute([kind |-> proto.kind, op |-> proto.op, index |-> proto.index,
                 flag |-> proto.flag, dtype |-> d, kids |-> kids])

RecipeNext == Leaf \/ Inner

RecipeSpec == RecipeInit /\ [][RecipeNext]_recipeVars

-----------------------------------------------------------------------------
\* "the 'output lies in this node's dtype range' invariant holds for EVERY node,
\* not only computed ones" (recipe_int.rs).
EveryNodeInRange ==
  \A i \in 1..N : \A k \in DOMAIN vals[i] : InRange(vals[i][k], nodes[i].dtype)

\* The children whose elements a node may hand on as they are.
Forwarded(node) ==
  CASE node.kind \in {"flip", "sort"} -> {1}
    [] node.kind \in {"gather", "scatter"} -> DOMAIN node.kids
    [] node.kind \in {"reduce", "scan"} /\ node.op \in {"max", "min"} -> {1}
    [] node.kind = "apply" /\ node.op = "select" -> {2, 3}
    [] node.kind = "apply" /\ node.op \in {"max_prop", "min_prop", "fmax_ieee",
                                           "fmin_ieee", "relu"} -> DOMAIN node.kids
    [] OTHER -> {}

Includes(d, c) == Lowest(d) <= Lowest(c) /\ Highest(c) <= Highest(d)

WellDeclared(node) ==
  \A k \in Forwarded(node) : Includes(node.dtype, nodes[node.kids[k]].dtype)

\* What the code does keep: the range invariant holds of every node as soon as no
\* node hands elements on from a child whose dtype its own does not include; the
\* bound inputs may be anything.
DeclaredNodesInRange ==
  (\A i \in 1..N : WellDeclared(nodes[i])) => EveryNodeInRange

\* The nodes whose exact reference is meaningful: through additions and products
\* widths may stay or narrow, and widen only from a node that starts afresh (a
\* mask counted into a wide dtype).
Traced(S) ==
  \A i \in S : InRing(nodes[i]) =>
     \A k \in DOMAIN nodes[i].kids :
        LET c == nodes[i].kids[k]
        IN  \/ ~InRing(nodes[c]) /\ nodes[c].kind # "bind"
            \/ c \in S /\ Size(nodes[c].dtype) >= Size(nodes[i].dtype)

Traceable == UNION {S \in SUBSET (1..N) : Traced(S)}

\* "Integer two's-complement arithmetic is a ring homomorphism": a recipe of
\* additions and products, however deep and with whatever dtypes narrowing on the
\* way, gives the truncation of what unbounded integers would have given.
RingIsExact ==
  \A i \in Traceable : InRing(nodes[i]) =>
     vals[i] = [k \in DOMAIN unbounded[i] |-> Wrap(unbounded[i][k], nodes[i].dtype)]

\* Every value of a recipe is of the dtype its node declares, where the moving nodes declare
\* dtypes that hold what they move, and is that of unbounded integers truncated once.
RecipeIsExact == RingIsExact /\ DeclaredNodesInRange
=============================================================================
