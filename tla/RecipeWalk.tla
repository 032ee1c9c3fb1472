----------------------------- MODULE RecipeWalk -----------------------------
(***************************************************************************)
(* The worklist of eval_recipe (recipe.rs), shared line for line by        *)
(* eval_recipe_int (recipe_int.rs): an iterative post-order walk over a    *)
(* heap-allocated stack of (node, expanded) pairs with a three-valued      *)
(* visiting state, in place of a recursion that a deep DAG would overflow. *)
(*                                                                         *)
(* One step is one turn of one of the code's loops: a start node taken by  *)
(* the for loop, one pop of the while loop, or one child scanned by the    *)
(* inner for loop.  Tensors are abstracted to the determinism class        *)
(* memoized beside them, and whether a kernel accepts its operands is a    *)
(* nondeterministic choice.                                                *)
(***************************************************************************)
EXTENDS RecipeSpec

VARIABLES
  pc,      \* "validate", "walk" or "done"
  start,   \* the next start node of the outer loop
  state,   \* per node: "unvisited", "active" or "done" (0, 1 and 2)
  stack,   \* the worklist; its last element is the top
  todo,    \* the children of the node just expanded that are not scanned yet
  imemo    \* per node: an index-lane result was memoized

walkVars == <<pc, start, state, stack, todo, imemo>>
vars == <<specVars, walkVars>>

Entry(i, expanded) == [node |-> i, expanded |-> expanded]

Top == stack[Len(stack)]
Popped == SubSeq(stack, 1, Len(stack) - 1)

\* The call returns, with its outputs ("ok") or with a typed error.
Return(outcome) ==
  /\ pc' = "done"
  /\ result' = outcome
  /\ UNCHANGED <<dag, memo, start, state, stack, todo, imemo>>

WalkInit ==
  /\ Init
  /\ pc = "validate"
  /\ start = 0
  /\ state = [i \in 0..(dag.n - 1) |-> "unvisited"]
  /\ stack = <<>>
  /\ todo = <<>>
  /\ imemo = [i \in 0..(dag.n - 1) |-> FALSE]

\* Every index-lane reference is checked before anything is evaluated.
Prevalidate ==
  /\ pc = "validate"
  /\ \/ /\ IndexLaneValid(dag)
        /\ pc' = "walk"
        /\ UNCHANGED <<specVars, start, state, stack, todo, imemo>>
     \/ ~IndexLaneValid(dag) /\ Return("IndexSourceInvalid")

-----------------------------------------------------------------------------
\* for start in 0..n: a node the walk already reached is not started again.
Idle == pc = "walk" /\ stack = <<>> /\ todo = <<>>

SkipStart ==
  /\ Idle /\ start < dag.n /\ state[start] = "done"
  /\ start' = start + 1
  /\ UNCHANGED <<specVars, pc, state, stack, todo, imemo>>

PushStart ==
  /\ Idle /\ start < dag.n /\ state[start] # "done"
  /\ stack' = <<Entry(start, FALSE)>>
  /\ start' = start + 1
  /\ UNCHANGED <<specVars, pc, state, todo, imemo>>

\* while let Some((idx, expanded)) = stack.pop()
Pops == pc = "walk" /\ stack # <<>> /\ todo = <<>>

\* Mutant: the done entry is looked at but never taken off.
PopDonePeek ==
  /\ Pops /\ state[Top.node] = "done"
  /\ UNCHANGED vars

PopDone ==
  /\ Pops /\ state[Top.node] = "done"
  /\ stack' = Popped
  /\ UNCHANGED <<specVars, pc, start, state, todo, imemo>>

\* memo.get(r) and imemo.get(m) find something.
Memoized(r) == r < dag.n /\ Computed(r)
IndexMemoized(m) == m < dag.n /\ imemo[m]

\* read_children and resolve_index_ref find every operand memoized.
OperandsMemoized(i) ==
  LET node == dag.nodes[i]
  IN  /\ \A k \in DOMAIN node.kids : Memoized(node.kids[k])
      /\ \A k \in DOMAIN node.index :
            Memoized(node.index[k]) /\ IndexMemoized(node.index[k])

\* compute_node: an operand that is not there is an error of the walk; the
\* kernel may decline; otherwise both lanes are memoized and the node is done.
Compute ==
  /\ Pops /\ state[Top.node] # "done" /\ Top.expanded
  /\ LET i == Top.node
     IN  IF ~OperandsMemoized(i) THEN Return("MissingInput")
         ELSE \/ Return("NodeError")
              \/ /\ memo' = [memo EXCEPT ![i] = NodeDet(dag.nodes[i], memo)]
                 /\ imemo' = [imemo EXCEPT ![i] = HasIndexLane(dag.nodes[i])]
                 /\ state' = [state EXCEPT ![i] = "done"]
                 /\ stack' = Popped
                 /\ UNCHANGED <<dag, result, pc, start, todo>>

\* Mutant: the cycle test comes before the test for a node already done.
CycleErrorOnRevisit ==
  /\ Pops /\ state[Top.node] # "unvisited" /\ ~Top.expanded
  /\ Return("BadDecomposition")

\* A node met again while it is active closes a cycle.
CycleError ==
  /\ Pops /\ state[Top.node] = "active" /\ ~Top.expanded
  /\ Return("BadDecomposition")

\* Mutant: the entry is looked at instead of popped, and stays below its copy.
ExpandPeek ==
  /\ Pops /\ state[Top.node] = "unvisited" /\ ~Top.expanded
  /\ state' = [state EXCEPT ![Top.node] = "active"]
  /\ stack' = Append(stack, Entry(Top.node, TRUE))
  /\ todo' = ChildrenOf(dag.nodes[Top.node])
  /\ UNCHANGED <<specVars, pc, start, imemo>>

Expand ==
  /\ Pops /\ state[Top.node] = "unvisited" /\ ~Top.expanded
  /\ state' = [state EXCEPT ![Top.node] = "active"]
  /\ stack' = Append(Popped, Entry(Top.node, TRUE))
  /\ todo' = ChildrenOf(dag.nodes[Top.node])
  /\ UNCHANGED <<specVars, pc, start, imemo>>

\* for c in children_of(node): out of range, already done, or pushed.
BadChild ==
  /\ pc = "walk" /\ todo # <<>> /\ Head(todo) >= dag.n
  /\ Return("MissingInput")

SkipChild ==
  /\ pc = "walk" /\ todo # <<>> /\ Head(todo) < dag.n
  /\ state[Head(todo)] = "done"
  /\ todo' = Tail(todo)
  /\ UNCHANGED <<specVars, pc, start, state, stack, imemo>>

PushChild ==
  /\ pc = "walk" /\ todo # <<>> /\ Head(todo) < dag.n
  /\ state[Head(todo)] # "done"
  /\ stack' = Append(stack, Entry(Head(todo), FALSE))
  /\ todo' = Tail(todo)
  /\ UNCHANGED <<specVars, pc, start, state, imemo>>

-----------------------------------------------------------------------------
\* The outputs are read out of the memos: first the value lane, then the index
\* lane, and a root that is not there is declined.
ValueRootMissing == \E k \in DOMAIN dag.outputs : ~Memoized(dag.outputs[k])

IndexRootMissing ==
  \E k \in DOMAIN dag.indexOutputs : ~IndexMemoized(dag.indexOutputs[k])

\* Mutant: a value root out of range is not noticed.
FinishUnchecked ==
  /\ Idle /\ start = dag.n
  /\ Return(IF IndexRootMissing THEN "IndexSourceInvalid" ELSE "ok")

Finish ==
  /\ Idle /\ start = dag.n
  /\ Return(CASE ValueRootMissing -> "MissingInput"
            [] ~ValueRootMissing /\ IndexRootMissing -> "IndexSourceInvalid"
            [] OTHER -> "ok")

WalkNext ==
  \/ Prevalidate
  \/ SkipStart \/ PushStart
  \/ PopDone \/ Compute \/ CycleError \/ Expand
  \/ BadChild \/ SkipChild \/ PushChild
  \/ Finish

WalkSpec == WalkInit /\ [][WalkNext]_vars

\* The evaluator is one sequential call: it keeps running until it returns.
FairWalkSpec == WalkSpec /\ WF_vars(WalkNext)

\* The classes of the exported permutations (RecipeEval::index_output_dets).
IndexOutputDets ==
  [k \in DOMAIN dag.indexOutputs |-> Selection(memo[dag.indexOutputs[k]])]

-----------------------------------------------------------------------------
(***************************************************************************)
(* The inductive invariant of the walk.                                    *)
(***************************************************************************)

\* Every variable has its type; in particular every worklist entry names a node,
\* so the range test the code makes on each popped index never fires.
TypeOK ==
  /\ dag \in Dags
  /\ pc \in {"validate", "walk", "done"}
  /\ result \in Results
  /\ start \in 0..dag.n
  /\ memo \in [Nodes -> Det \cup {None}]
  /\ imemo \in [Nodes -> BOOLEAN]
  /\ state \in [Nodes -> {"unvisited", "active", "done"}]
  /\ stack \in Seq([node : Nodes, expanded : BOOLEAN])
  /\ todo \in Seq(Nat)

Expanded(p) == stack[p].expanded

\* p is the innermost expanded entry below position q.
Innermost(p, q) ==
  /\ p < q /\ Expanded(p)
  /\ \A k \in (p + 1)..(q - 1) : ~Expanded(k)

\* The call has returned exactly when it has a result, and what is walked has
\* passed the pre-validation.
ReturnedOrValid ==
  /\ (pc = "done") <=> (result # "none")
  /\ pc = "walk" => IndexLaneValid(dag)

\* The memos hold exactly the done nodes, with an index lane where one is due.
MemoIsDone ==
  \A i \in Nodes :
     /\ Computed(i) <=> state[i] = "done"
     /\ Computed(i) => imemo[i] = HasIndexLane(dag.nodes[i])

\* The active nodes are exactly those of the expanded entries, one entry each.
ActiveIsExpanded ==
  /\ \A i \in Nodes : state[i] = "active" <=>
        \E p \in DOMAIN stack : Expanded(p) /\ stack[p].node = i
  /\ \A p, q \in DOMAIN stack :
        Expanded(p) /\ Expanded(q) /\ stack[p].node = stack[q].node => p = q

\* What an expanded node still waits for lies above it: each child of it is done,
\* or has an entry above, or (for the node expanded last) waits to be scanned.
ChildrenAbove ==
  \A p \in DOMAIN stack : Expanded(p) =>
     \A c \in Children(dag.nodes[stack[p].node]) :
        \/ c < dag.n /\ state[c] = "done"
        \/ \E q \in DOMAIN stack : p < q /\ stack[q].node = c
        \/ /\ \A q \in DOMAIN stack : p < q => ~Expanded(q)
           /\ \E k \in DOMAIN todo : todo[k] = c

\* The expanded entries form a path of the graph: every entry but the bottom one
\* is a child of the innermost expanded entry below it, and so is what is left
\* to scan.
EntriesAreChildren ==
  /\ \A q \in 2..Len(stack) : \E p \in 1..(q - 1) :
        /\ Innermost(p, q)
        /\ stack[q].node \in Children(dag.nodes[stack[p].node])
  /\ \A k \in DOMAIN todo : \E p \in DOMAIN stack :
        /\ Innermost(p, Len(stack) + 1)
        /\ todo[k] \in Children(dag.nodes[stack[p].node])

\* Going up the worklist, each expanded entry is the innermost one below the next.
PathIsLinked ==
  \A p \in DOMAIN stack : Expanded(p) =>
     \/ \A q \in DOMAIN stack : p < q => ~Expanded(q)
     \/ \E q \in DOMAIN stack : Expanded(q) /\ Innermost(p, q)

\* Above an expanded entry, up to the next one, lie no more entries than the node has
\* edges; of the entry expanded last, what is left to scan is counted too.
WaitsForItsEdges ==
  \A p \in DOMAIN stack :
     LET edges == Len(ChildrenOf(dag.nodes[stack[p].node]))
     IN  /\ \A q \in DOMAIN stack : Innermost(p, q) => q - p <= edges
         /\ Innermost(p, Len(stack) + 1) => Len(stack) - p + Len(todo) <= edges

\* Nothing done waits for something that is not.
DoneIsClosed ==
  \A i \in Nodes : state[i] = "done" =>
     \A c \in Children(dag.nodes[i]) : c < dag.n /\ state[c] = "done"

\* The done nodes contain no cycle.
DoneIsAcyclic ==
  \A S \in SUBSET {i \in Nodes : state[i] = "done"} :
     S # {} => \E i \in S : Children(dag.nodes[i]) \cap S = {}

\* The outer loop leaves nothing behind: a node it passed is done once the
\* worklist has run empty.
StartedIsDone ==
  \A i \in Nodes :
     i < start => state[i] = "done" \/ (stack # <<>> /\ stack[1].node = i)

WalkInv ==
  /\ ReturnedOrValid /\ PathIsLinked
  /\ MemoIsDone /\ ActiveIsExpanded /\ ChildrenAbove /\ EntriesAreChildren
  /\ DoneIsClosed /\ DoneIsAcyclic /\ StartedIsDone

-----------------------------------------------------------------------------
(***************************************************************************)
(* What the walk guarantees.                                               *)
(***************************************************************************)

\* "children are all computed (post-order)": whenever a node is popped to be
\* evaluated, every memo it reads, of either lane, has been filled, so the walk
\* never trips over its own order.
OperandsReady == Pops /\ Top.expanded => OperandsMemoized(Top.node)

\* "a cycle in a supposedly-acyclic DAG": the cycle verdict is given for cyclic
\* graphs only (a diamond, a repeated operand or a node queued twice is none),
\* and a graph evaluated to the end has no cycle.
VerdictSound ==
  /\ result = "BadDecomposition" => ~Acyclic(dag)
  /\ result = "ok" => Acyclic(dag) /\ \A i \in Nodes : Computed(i)

\* The walk's own MissingInput means a reference out of the DAG's range, and the
\* index-lane error is only ever the pre-validation's: once past it, no memo read
\* of either lane comes back empty.
DeclinesNameTheFault ==
  /\ result = "MissingInput" => ChildOutOfRange \/ OutputOutOfRange
  /\ result = "IndexSourceInvalid" => ~IndexLaneValid(dag)

\* "a deep dependency chain is bounded to O(n) heap": the worklist holds at most one
\* entry per edge out of an active node, and the start.
EdgesOut(i) == {i} \X DOMAIN ChildrenOf(dag.nodes[i])
OpenEdges == UNION {EdgesOut(i) : i \in {j \in Nodes : state[j] = "active"}}
HeapBound == Len(stack) <= 1 + Cardinality(OpenEdges)

\* The walk implements the order-free specification of the evaluator.
ImplementsSpec == Spec

\* A call always returns, on a cyclic or dangling DAG too.
Terminates == <>(pc = "done")
=============================================================================
