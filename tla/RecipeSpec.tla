----------------------------- MODULE RecipeSpec -----------------------------
(***************************************************************************)
(* What eval_recipe and eval_recipe_int promise of the walk over a flat    *)
(* DAG (recipe.rs, recipe_int.rs), without saying in which order nodes are *)
(* visited: a node is evaluated once, after everything it reads; the call  *)
(* succeeds only when every node was evaluated and every output exists;    *)
(* and each way of declining is justified by the DAG itself.  A malformed  *)
(* DAG is declined with a typed error, never a panic and never a loop.     *)
(***************************************************************************)
EXTENDS RecipeNodes, FiniteSets

CONSTANT Dags   \* the DAGs evaluated: a set of FlatDag values

ASSUME DagsAssumption == \A dag \in Dags : IsFlatDag(dag)

VARIABLES
  dag,     \* the recipe under evaluation
  memo,    \* per node: the class it was evaluated to, or None
  result   \* "none" while evaluating, then "ok" or the error declined with

specVars == <<dag, memo, result>>

None == [class |-> "None", bound |-> 0]

Results == {"none", "ok", "IndexSourceInvalid", "MissingInput",
            "BadDecomposition", "NodeError"}

Nodes == 0..(dag.n - 1)

Computed(i) == memo[i] # None

\* Nodes that lie on no cycle can be removed one after the other; a non-empty
\* set each of whose members reads another member cannot.
Acyclic(d) ==
  \A S \in SUBSET (0..(d.n - 1)) :
     S # {} => \E i \in S : Children(d.nodes[i]) \cap S = {}

ChildOutOfRange == \E i \in Nodes : \E c \in Children(dag.nodes[i]) : c >= dag.n

OutputOutOfRange == \E k \in DOMAIN dag.outputs : dag.outputs[k] >= dag.n

Ready(i) ==
  /\ ~Computed(i)
  /\ \A c \in Children(dag.nodes[i]) : c < dag.n /\ Computed(c)

-----------------------------------------------------------------------------
Init ==
  /\ dag \in Dags
  /\ memo = [i \in 0..(dag.n - 1) |-> None]
  /\ result = "none"

Evaluate(i) ==
  /\ result = "none"
  /\ IndexLaneValid(dag)
  /\ Ready(i)
  /\ memo' = [memo EXCEPT ![i] = NodeDet(dag.nodes[i], memo)]
  /\ UNCHANGED <<dag, result>>

\* The reasons the evaluator may decline for.
Justified(error) ==
  \/ error = "IndexSourceInvalid" /\ ~IndexLaneValid(dag)
  \/ error = "MissingInput" /\ (ChildOutOfRange \/ OutputOutOfRange)
  \/ error = "BadDecomposition" /\ ~Acyclic(dag)
  \/ error = "NodeError" /\ \E i \in Nodes : Ready(i)

Decline ==
  /\ result = "none"
  /\ \E error \in Results \ {"none", "ok"} :
        Justified(error) /\ result' = error
  /\ UNCHANGED <<dag, memo>>

Succeed ==
  /\ result = "none"
  /\ IndexLaneValid(dag)
  /\ \A i \in Nodes : Computed(i)
  /\ ~OutputOutOfRange
  /\ result' = "ok"
  /\ UNCHANGED <<dag, memo>>

Next == (\E i \in Nodes : Evaluate(i)) \/ Decline \/ Succeed

Spec == Init /\ [][Next]_specVars
=============================================================================
