----------------------------- MODULE RecipeDets -----------------------------
(***************************************************************************)
(* A second definition of the determinism class of a node, by what it can  *)
(* be reached from instead of by folding classes upwards: the reference    *)
(* the class memoized by the walk is checked against.  Source: the rules   *)
(* quoted by the doc comments of RecipeEval::dets, selection_det and       *)
(* index_ref_det (KISS-OPS-6.0-0005 and 6.0-0007).                         *)
(***************************************************************************)
EXTENDS RecipeWalk, FiniteSetsExt

\* No operation takes more than three operands, and a move has what it moves.
ASSUME ArityAssumption ==
  \A d \in Dags : \A i \in 0..(d.n - 1) :
    /\ Len(d.nodes[i].kids) <= 3
    /\ d.nodes[i].kind \in {"flip", "gather", "scatter", "sort"} => d.nodes[i].kids # <<>>

\* The nodes whose values can reach the bits of node i: all it reads, except the
\* shape-only operand of an iota and the base a gather can never fall back to.
Influences(d, i) ==
  LET node == d.nodes[i]
      values == CASE node.kind = "iota" -> {}
                  [] node.kind = "gather" /\ ~node.skip -> {node.kids[1]}
                  [] OTHER -> {node.kids[k] : k \in DOMAIN node.kids}
  IN  values \cup {node.index[k] : k \in DOMAIN node.index}

\* Everything that influences node i, itself included: the nodes in every set of nodes that
\* contains i and all that influences a member.
Closed(d, S) == \A j \in S : \A c \in Influences(d, j) : c < d.n => c \in S
Cone(d, i) ==
  LET closed == {S \in SUBSET (0..(d.n - 1)) : i \in S /\ Closed(d, S)}
  IN  {j \in 0..(d.n - 1) : \A S \in closed : j \in S}

Inexact(d, i) == \E j \in Cone(d, i) : d.nodes[j].own # ExactByte

\* A selection was made among inexact values somewhere on the way: by a
\* comparison, or by the sort whose permutation an index operand names.
SelectsInexact(d, i) ==
  \E j \in Cone(d, i) :
     \/ d.nodes[j].kind = "compare" /\ Inexact(d, j)
     \/ \E k \in DOMAIN d.nodes[j].index : Inexact(d, d.nodes[j].index[k])

PathDet(d, i) ==
  IF SelectsInexact(d, i) \/ \E j \in Cone(d, i) : d.nodes[j].own = Nondet
  THEN Nondet
  ELSE IF Inexact(d, i) THEN Ulp(Max({d.nodes[j].own.bound : j \in Cone(d, i)}))
  ELSE ExactByte

\* The class memoized for a node (RecipeEval::dets) is the one its whole sub-DAG
\* calls for: no tolerance is lost, or invented, on any path into it.
DetsArePathwise == \A i \in Nodes : Computed(i) => memo[i] = PathDet(dag, i)

\* "never Ulp(k)": no mask, no exported permutation and nothing that was moved by
\* a permutation of inexact keys is compared under a ULP tolerance.
SelectionsAreNeverUlp ==
  /\ \A i \in Nodes : Computed(i) /\ dag.nodes[i].kind = "compare" => ~IsUlp(memo[i])
  /\ \A i \in Nodes : Computed(i) =>
        \A k \in DOMAIN dag.nodes[i].index :
           memo[dag.nodes[i].index[k]] # ExactByte => memo[i] = Nondet
  /\ result = "ok" => \A k \in DOMAIN IndexOutputDets : ~IsUlp(IndexOutputDets[k])

-----------------------------------------------------------------------------
\* The nodes a dtype is inherited from, starting at i: each is the source of the one
\* before it.
SourceClosed(d, S) ==
  \A j \in S : LET source == DtypeSource(d.nodes[j])
               IN  source # <<>> /\ source[1] < d.n => source[1] \in S
SourceChain(d, i) ==
  LET closed == {S \in SUBSET (0..(d.n - 1)) : i \in S /\ SourceClosed(d, S)}
  IN  {j \in 0..(d.n - 1) : \A S \in closed : j \in S}

\* The fuel of node_dtype suffices on every DAG the evaluator accepts: an output is
\* declared a mask exactly when the moves and selects it goes through end in a
\* comparison.
DtypeIsInherited ==
  result = "ok" => \A i \in Nodes :
     NodeDtype(dag, i) = "bool" <=>
        \E j \in SourceChain(dag, i) : dag.nodes[j].kind = "compare"
=============================================================================
