---------------------------- MODULE RecipeNodes ----------------------------
(***************************************************************************)
(* The nodes of a canonical flat DAG (recipe.rs, Node and FlatDag) and the *)
(* static questions the evaluator asks of one node: which nodes it reads,  *)
(* whether it produces an index lane, and the determinism class it gets    *)
(* from the classes of the nodes it reads.                                 *)
(*                                                                         *)
(* A node is a record                                                      *)
(*   kind   which arm of the enum it is ("leaf" stands for the five arms   *)
(*          without children, "apply" for a scalar operation, "compare"    *)
(*          for one of the comparison family, "fold" for reduce and        *)
(*          prefix_scan)                                                   *)
(*   own    the class the operation brings with it                         *)
(*   kids   its value-lane children in the order children_of lists them    *)
(*   index  <<m>> for IndexRef::Node(m), <<>> for an external slot or none *)
(*   skip   the gather's out-of-bounds policy is Skip                      *)
(* Payloads (literals, axes, operation codes) are abstracted away.         *)
(***************************************************************************)
EXTENDS Naturals, Sequences

(***************************************************************************)
(* The determinism class a result carries (bridge.rs, DetClass): what a    *)
(* differential comparator reads to choose byte-exact comparison, a ULP    *)
(* tolerance, or an order-insensitive tolerance.  The class of a composite *)
(* is the most permissive of the classes it is made of; the class of a     *)
(* selection (a mask, a permutation) escalates instead.                    *)
(***************************************************************************)
CONSTANT UlpBounds   \* the ULP bounds an operation may declare

ASSUME UlpBoundsAssumption == UlpBounds \subseteq Nat

ExactByte == [class |-> "ExactByte", bound |-> 0]
Ulp(k)    == [class |-> "Ulp", bound |-> k]
Nondet    == [class |-> "OrderInvariantNondeterministic", bound |-> 0]

Det == {ExactByte, Nondet} \cup {Ulp(k) : k \in UlpBounds}

IsUlp(d) == d.class = "Ulp"

\* DetClass::join: nondeterministic dominates ULP dominates exact-byte, and
\* of two ULP bounds the wider one is kept.
Join(a, b) ==
  CASE a = Nondet \/ b = Nondet -> Nondet
    [] IsUlp(a) /\ IsUlp(b)     -> IF a.bound >= b.bound THEN a ELSE b
    [] IsUlp(a) /\ b = ExactByte -> a
    [] a = ExactByte /\ IsUlp(b) -> b
    [] OTHER                     -> ExactByte

\* selection_det: an output that says which value won is byte-exact when the
\* values it chose among are, and otherwise bounded by nothing.
Selection(d) == IF d = ExactByte THEN ExactByte ELSE Nondet

\* The order the joins go up: b is at least as permissive as a.
AtMost(a, b) == Join(a, b) = b

-----------------------------------------------------------------------------
Kinds == {"leaf", "apply", "compare", "select", "fold", "matmul", "gather",
          "scatter", "sort", "iota", "flip"}

Node == [kind  : Kinds,
         own   : Det,
         kids  : Seq(Nat),
         index : Seq(Nat),
         skip  : BOOLEAN]

\* FlatDag: n is nodes.len(), and nodes are numbered from 0 as in the code.
IsFlatDag(dag) ==
  /\ dag.n \in Nat
  /\ dag.nodes \in [0..(dag.n - 1) -> Node]
  /\ \A i \in 0..(dag.n - 1) : Len(dag.nodes[i].index) <= 1
  /\ dag.outputs \in Seq(Nat)
  /\ dag.indexOutputs \in Seq(Nat)

\* Mutant: the index-lane operand is not an edge of the walk.
ChildrenOfValueLane(node) == node.kids

\* children_of: the edges the worklist evaluates first.  A node-produced index
\* operand is an edge like the others, and comes last.
ChildrenOf(node) == node.kids \o node.index

Children(node) == {ChildrenOf(node)[k] : k \in DOMAIN ChildrenOf(node)}

HasIndexLane(node) == node.kind = "sort"

\* The pre-validation of the index lane: a node-produced index operand and an
\* exported index output must each name a node of the DAG that has an index lane.
ValidIndexSource(dag, m) == m < dag.n /\ HasIndexLane(dag.nodes[m])

IndexLaneValid(dag) ==
  /\ \A i \in 0..(dag.n - 1) : \A k \in DOMAIN dag.nodes[i].index :
        ValidIndexSource(dag, dag.nodes[i].index[k])
  /\ \A k \in DOMAIN dag.indexOutputs :
        ValidIndexSource(dag, dag.indexOutputs[k])

-----------------------------------------------------------------------------
(***************************************************************************)
(* The class of a node (compute_node's second result).                     *)
(***************************************************************************)

\* Mutant: a gather always joins its base, whatever the policy.
JoinedKidsAlways(node) == IF node.kind = "iota" THEN {} ELSE DOMAIN node.kids

\* The value-lane children (by position) whose class the node's class joins: the
\* shape-only edge of iota contributes nothing, the base of a gather only under
\* Skip, the one policy under which its bits can reach the output.
JoinedKids(node) ==
  CASE node.kind = "iota" -> {}
    [] node.kind = "gather" /\ ~node.skip -> DOMAIN node.kids \cap {1}
    [] OTHER -> DOMAIN node.kids

\* One term of scalar_det's fold, and of the joins in compute_node's other arms.
\* No operation takes more than three operands, so the fold is written out.
KidDet(node, memo, k) ==
  IF k \in JoinedKids(node) THEN memo[node.kids[k]] ELSE ExactByte

\* index_ref_det: an external index is a given; a produced one is a selection.
IndexDet(node, memo) ==
  IF node.index = <<>> THEN ExactByte ELSE Selection(memo[node.index[1]])

\* Mutant: a comparison keeps the tolerance of what it compares.
NodeDetTolerant(node, memo) ==
  Join(Join(Join(Join(node.own, KidDet(node, memo, 1)), KidDet(node, memo, 2)),
            KidDet(node, memo, 3)),
       IndexDet(node, memo))

\* The class of node i: its operation's own, joined with those of its operands.
NodeDet(node, memo) ==
  LET joined == Join(Join(Join(Join(node.own, KidDet(node, memo, 1)),
                               KidDet(node, memo, 2)),
                          KidDet(node, memo, 3)),
                     IndexDet(node, memo))
  IN  IF node.kind = "compare" THEN Selection(joined) ELSE joined

-----------------------------------------------------------------------------
(***************************************************************************)
(* FlatDag::output_dtypes.  A comparison is a bool mask, a pure move keeps *)
(* the dtype of what it moves, select that of its value arms (the second   *)
(* child of three), and everything else is the compute dtype.  The         *)
(* recursion is bounded by fuel, so a cyclic DAG is answered too.          *)
(***************************************************************************)
\* The child a node takes its dtype from, if it takes it from one.
DtypeSource(node) ==
  CASE node.kind = "select" /\ Len(node.kids) = 3 -> <<node.kids[2]>>
    [] node.kind \in {"flip", "gather", "scatter", "sort"} -> <<node.kids[1]>>
    [] OTHER -> <<>>

\* Mutant: the move of a move is not followed to its source.
NodeDtypeOneHop(dag, root) ==
  LET direct(i) == IF i < dag.n /\ dag.nodes[i].kind = "compare" THEN "bool" ELSE "compute"
      source == IF root < dag.n THEN DtypeSource(dag.nodes[root]) ELSE <<>>
  IN  direct(IF source = <<>> THEN root ELSE source[1])

\* The dtype of one output: "bool" for a mask, "compute" for the lane's own.
NodeDtype(dag, root) ==
  LET source(i) == DtypeSource(dag.nodes[i])
      dtype[fuel \in 0..dag.n] ==
        [i \in Nat |->
           IF fuel = 0 \/ i >= dag.n THEN "compute"
           ELSE IF source(i) # <<>> THEN dtype[fuel - 1][source(i)[1]]
           ELSE IF dag.nodes[i].kind = "compare" THEN "bool" ELSE "compute"]
  IN  dtype[dag.n][root]
=============================================================================
