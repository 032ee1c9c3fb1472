---------------------------- MODULE RecipeProofs ----------------------------
(***************************************************************************)
(* Theorems about the worklist of eval_recipe and eval_recipe_int, and     *)
(* about the classes and dtypes memoized during the walk, for every set of *)
(* flat DAGs of any size and sharing.                                      *)
(***************************************************************************)
EXTENDS RecipeDets, NumberLemmas, SequenceTheorems, FiniteSetTheorems

-----------------------------------------------------------------------------
(***************************************************************************)
(* The laws of the determinism-class join, for every set of ULP bounds.    *)
(***************************************************************************)

LEMMA DetCases ==
  ASSUME NEW d \in Det
  PROVE  \/ d = ExactByte /\ ~IsUlp(d) /\ d # Nondet
         \/ d = Nondet /\ ~IsUlp(d) /\ d # ExactByte
         \/ /\ IsUlp(d) /\ d # Nondet /\ d # ExactByte
            /\ d.bound \in UlpBounds /\ d.bound \in Nat /\ d = Ulp(d.bound)
<1>1. CASE d = ExactByte
  BY <1>1 DEF ExactByte, Nondet, IsUlp
<1>2. CASE d = Nondet
  BY <1>2 DEF ExactByte, Nondet, IsUlp
<1>3. CASE \E k \in UlpBounds : d = Ulp(k)
  BY <1>3, UlpBoundsAssumption DEF ExactByte, Nondet, IsUlp, Ulp
<1> QED
  BY <1>1, <1>2, <1>3 DEF Det

LEMMA DetConstants ==
  /\ ExactByte # Nondet
  /\ ExactByte \in Det /\ Nondet \in Det
  /\ ~IsUlp(ExactByte) /\ ~IsUlp(Nondet)
BY DEF ExactByte, Nondet, Det, IsUlp

\* Joining classes, and escalating one, gives a class again.
THEOREM JoinClosed ==
  ASSUME NEW a \in Det, NEW b \in Det
  PROVE  Join(a, b) \in Det
BY DetCases, DetConstants DEF Join, Det

LEMMA SelectionClosed ==
  ASSUME NEW a \in Det
  PROVE  Selection(a) \in Det
BY DEF Selection, Det

\* The join of bridge.rs is a semilattice with ExactByte at the bottom and the
\* nondeterministic class at the top, so a class does not depend on the order in
\* which operands are joined.
THEOREM JoinSemilattice ==
  ASSUME NEW a \in Det, NEW b \in Det, NEW c \in Det
  PROVE  /\ Join(a, a) = a
         /\ Join(a, b) = Join(b, a)
         /\ Join(a, Join(b, c)) = Join(Join(a, b), c)
         /\ Join(ExactByte, a) = a
         /\ Join(Nondet, a) = Nondet
<1>1. Join(a, a) = a
  BY DetCases, DetConstants DEF Join
<1>2. Join(a, b) = Join(b, a)
  BY DetCases, DetConstants DEF Join
<1>3. Join(a, Join(b, c)) = Join(Join(a, b), c)
  BY DetCases, DetConstants DEF Join
<1>4. Join(ExactByte, a) = a /\ Join(Nondet, a) = Nondet
  BY DetCases, DetConstants DEF Join
<1> QED
  BY <1>1, <1>2, <1>3, <1>4

\* Escalating a selection is monotone and never lands on a ULP bound: a mask or a
\* permutation is byte-exact or bounded by nothing.
THEOREM SelectionEscalates ==
  ASSUME NEW a \in Det, NEW b \in Det
  PROVE  /\ ~IsUlp(Selection(a))
         /\ AtMost(a, Selection(a))
         /\ AtMost(a, b) => AtMost(Selection(a), Selection(b))
<1>1. ~IsUlp(Selection(a))
  BY DEF Selection, IsUlp, ExactByte, Nondet
<1>2. AtMost(a, Selection(a))
  BY DetCases, DetConstants DEF Selection, AtMost, Join
<1>3. AtMost(a, b) => AtMost(Selection(a), Selection(b))
  BY DetCases, DetConstants DEF Selection, AtMost, Join
<1> QED
  BY <1>1, <1>2, <1>3

-----------------------------------------------------------------------------
(***************************************************************************)
(* Lemmas about the data.                                                  *)
(***************************************************************************)

LEMMA NoneIsNotADet == None \notin Det
BY DEF None, Det, ExactByte, Nondet, Ulp

LEMMA DagFacts ==
  ASSUME dag \in Dags
  PROVE  /\ dag.n \in Nat
         /\ dag.outputs \in Seq(Nat) /\ dag.indexOutputs \in Seq(Nat)
         /\ \A i \in Nodes : /\ dag.nodes[i] \in Node
                             /\ dag.nodes[i].own \in Det
                             /\ dag.nodes[i].kids \in Seq(Nat)
                             /\ dag.nodes[i].index \in Seq(Nat)
                             /\ Len(dag.nodes[i].index) <= 1
                             /\ ChildrenOf(dag.nodes[i]) \in Seq(Nat)
<1>1. IsFlatDag(dag)
  BY DagsAssumption
<1>2. \A i \in Nodes : /\ dag.nodes[i] \in Node
                       /\ Len(dag.nodes[i].index) <= 1
  BY <1>1 DEF IsFlatDag, Nodes
<1>3. \A i \in Nodes : /\ dag.nodes[i].own \in Det
                       /\ dag.nodes[i].kids \in Seq(Nat)
                       /\ dag.nodes[i].index \in Seq(Nat)
  BY <1>2 DEF Node
<1> QED
  BY <1>1, <1>2, <1>3 DEF IsFlatDag, ChildrenOf

\* The children of a node are its value-lane children and its index producer.
LEMMA ChildrenFacts ==
  ASSUME dag \in Dags, NEW i \in Nodes
  PROVE  /\ \A k \in DOMAIN dag.nodes[i].kids :
               dag.nodes[i].kids[k] \in Children(dag.nodes[i])
         /\ \A k \in DOMAIN dag.nodes[i].index :
               dag.nodes[i].index[k] \in Children(dag.nodes[i])
         /\ \A c \in Children(dag.nodes[i]) :
               c \in Nat /\ \E k \in DOMAIN ChildrenOf(dag.nodes[i]) :
                              ChildrenOf(dag.nodes[i])[k] = c
<1> DEFINE kids == dag.nodes[i].kids
           index == dag.nodes[i].index
<1>1. kids \in Seq(Nat) /\ index \in Seq(Nat)
  BY DagFacts
<1>2. ChildrenOf(dag.nodes[i]) = kids \o index
  BY DEF ChildrenOf
<1> HIDE DEF kids, index
<1>3. \A k \in DOMAIN kids : k \in DOMAIN (kids \o index) /\ (kids \o index)[k] = kids[k]
  BY <1>1
<1>4. \A k \in DOMAIN index :
         /\ Len(kids) + k \in DOMAIN (kids \o index)
         /\ (kids \o index)[Len(kids) + k] = index[k]
  BY <1>1
<1>5. \A k \in DOMAIN (kids \o index) : (kids \o index)[k] \in Nat
  BY <1>1
<1> QED
  BY <1>2, <1>3, <1>4, <1>5 DEF Children, kids, index

LEMMA NodeDetType ==
  ASSUME NEW node \in Node, NEW classes,
         \A k \in DOMAIN node.kids : classes[node.kids[k]] \in Det,
         \A k \in DOMAIN node.index : classes[node.index[k]] \in Det,
         Len(node.index) <= 1
  PROVE  NodeDet(node, classes) \in Det
<1>1. ExactByte \in Det /\ node.own \in Det
  BY DetConstants DEF Node
<1>2. \A k : KidDet(node, classes, k) \in Det
  BY <1>1 DEF KidDet, JoinedKids
<1>3. IndexDet(node, classes) \in Det
  <2>1. CASE node.index = <<>>
    BY <2>1, <1>1 DEF IndexDet
  <2>2. CASE node.index # <<>>
    <3>1. node.index \in Seq(Nat)
      BY DEF Node
    <3>2. 1 \in DOMAIN node.index
      BY <3>1, <2>2
    <3> QED
      BY <3>2, <2>2, SelectionClosed DEF IndexDet
  <2> QED
    BY <2>1, <2>2
<1> DEFINE j1 == Join(node.own, KidDet(node, classes, 1))
           j2 == Join(j1, KidDet(node, classes, 2))
           j3 == Join(j2, KidDet(node, classes, 3))
           j4 == Join(j3, IndexDet(node, classes))
<1>4. j1 \in Det
  BY <1>1, <1>2, JoinClosed
<1>5. j2 \in Det
  BY <1>4, <1>2, JoinClosed
<1>6. j3 \in Det
  BY <1>5, <1>2, JoinClosed
<1>7. j4 \in Det
  BY <1>6, <1>3, JoinClosed
<1>8. NodeDet(node, classes) = IF node.kind = "compare" THEN Selection(j4) ELSE j4
  BY DEF NodeDet
<1> QED
  BY <1>7, <1>8, SelectionClosed

\* The worklist with its top popped.
LEMMA PoppedFacts ==
  ASSUME NEW S, NEW s \in Seq(S), s # <<>>
  PROVE  /\ Len(s) \in Nat \ {0} /\ s[Len(s)] \in S
         /\ SubSeq(s, 1, Len(s) - 1) \in Seq(S)
         /\ Len(SubSeq(s, 1, Len(s) - 1)) = Len(s) - 1
         /\ \A k \in 1..(Len(s) - 1) : SubSeq(s, 1, Len(s) - 1)[k] = s[k]
<1>1. Len(s) \in Nat \ {0}
  BY EmptySeq
<1>2. \A k \in 1..Len(s) : s[k] \in S
  BY ElementOfSeq
<1>3. \A k \in 1..(Len(s) - 1) : s[k] \in S
  BY <1>1, <1>2
<1> DEFINE n == Len(s) - 1
<1>4. n \in Int
  BY <1>1
<1>5. /\ SubSeq(s, 1, n) \in Seq(S)
      /\ Len(SubSeq(s, 1, n)) = IF 1 <= n THEN n - 1 + 1 ELSE 0
      /\ \A k \in 1..(n - 1 + 1) : SubSeq(s, 1, n)[k] = s[1 + k - 1]
  <2> HIDE DEF n
  <2> QED
    BY <1>3, <1>4, SubSeqProperties DEF n
<1>6. Len(SubSeq(s, 1, n)) = n
  <2>1. n \in Nat
    BY <1>1
  <2> HIDE DEF n
  <2> QED
    BY <2>1, <1>5
<1>7. \A k \in 1..n : SubSeq(s, 1, n)[k] = s[k]
  <2> SUFFICES ASSUME NEW k \in 1..n PROVE SubSeq(s, 1, n)[k] = s[k]
    OBVIOUS
  <2>1. k \in 1..(n - 1 + 1) /\ 1 + k - 1 = k
    BY <1>4
  <2> HIDE DEF n
  <2> QED
    BY <2>1, <1>5
<1> QED
  BY <1>1, <1>2, <1>5, <1>6, <1>7

\* The worklist with one more entry pushed.
LEMMA PushedFacts ==
  ASSUME NEW S, NEW s \in Seq(S), NEW e \in S
  PROVE  /\ Append(s, e) \in Seq(S)
         /\ Len(Append(s, e)) = Len(s) + 1
         /\ \A k \in 1..Len(s) : Append(s, e)[k] = s[k]
         /\ Append(s, e)[Len(s) + 1] = e
BY AppendProperties

LEMMA SingletonFacts ==
  ASSUME NEW S, NEW e \in S
  PROVE  <<e>> \in Seq(S) /\ Len(<<e>>) = 1 /\ <<e>>[1] = e
OBVIOUS

-----------------------------------------------------------------------------
(***************************************************************************)
(* Type correctness.                                                       *)
(***************************************************************************)

LEMMA TypeInit == WalkInit => TypeOK
<1> SUFFICES ASSUME WalkInit PROVE TypeOK
  OBVIOUS
<1>1. dag \in Dags
  BY DEF WalkInit, Init
<1>2. dag.n \in Nat
  BY <1>1, DagFacts
<1> QED
  BY <1>1, <1>2, EmptySeq DEF WalkInit, Init, TypeOK, Nodes, Results

\* Computing a node memoizes a determinism class.
LEMMA ComputeType ==
  ASSUME TypeOK, NEW i \in Nodes, OperandsMemoized(i)
  PROVE  NodeDet(dag.nodes[i], memo) \in Det
<1>1. \A r \in Nat : Memoized(r) => memo[r] \in Det
  <2>1. dag.n \in Nat
    BY DagFacts DEF TypeOK
  <2>2. \A r \in Nat : r < dag.n => r \in Nodes
    BY <2>1 DEF Nodes
  <2>3. \A r \in Nodes : memo[r] \in Det \cup {None}
    BY DEF TypeOK
  <2> QED
    BY <2>2, <2>3 DEF Memoized, Computed
<1>2. /\ dag.nodes[i] \in Node /\ Len(dag.nodes[i].index) <= 1
      /\ dag.nodes[i].kids \in Seq(Nat) /\ dag.nodes[i].index \in Seq(Nat)
  BY DagFacts DEF TypeOK
<1>3. \A k \in DOMAIN dag.nodes[i].kids : memo[dag.nodes[i].kids[k]] \in Det
  BY <1>1, <1>2 DEF OperandsMemoized
<1>4. \A k \in DOMAIN dag.nodes[i].index : memo[dag.nodes[i].index[k]] \in Det
  BY <1>1, <1>2 DEF OperandsMemoized
<1> QED
  BY <1>2, <1>3, <1>4, NodeDetType

LEMMA TypeStep == TypeOK /\ [WalkNext]_vars => TypeOK'
<1> SUFFICES ASSUME TypeOK, [WalkNext]_vars PROVE TypeOK'
  OBVIOUS
<1> DEFINE Entries == [node : Nodes, expanded : BOOLEAN]
<1>d. dag \in Dags /\ dag.n \in Nat
  BY DagFacts DEF TypeOK
<1>s. stack \in Seq(Entries) /\ todo \in Seq(Nat)
  BY DEF TypeOK
<1>p. ASSUME stack # <<>>
      PROVE  /\ Top \in Entries /\ Top.node \in Nodes
             /\ Popped \in Seq(Entries)
  <2>1. Top \in Entries /\ Popped \in Seq(Entries)
    BY <1>s, <1>p, PoppedFacts DEF Top, Popped
  <2> QED
    BY <2>1
<1>t. ASSUME todo # <<>>
      PROVE  Head(todo) \in Nat /\ Tail(todo) \in Seq(Nat)
  BY <1>s, <1>t, HeadTailProperties
<1>r. ASSUME NEW outcome \in Results, Return(outcome)
      PROVE  TypeOK'
  BY <1>r DEF Return, TypeOK, Nodes
<1>1. CASE Prevalidate
  BY <1>1, <1>r DEF Prevalidate, TypeOK, Nodes, specVars, Results
<1>2. CASE SkipStart
  BY <1>2, <1>d DEF SkipStart, TypeOK, Nodes, specVars
<1>3. CASE PushStart
  <2>1. start \in Nodes
    BY <1>3, <1>d DEF PushStart, TypeOK, Nodes
  <2>2. Entry(start, FALSE) \in Entries
    BY <2>1 DEF Entry
  <2>3. stack' \in Seq(Entries)
    <3> HIDE DEF Entries
    <3> QED
      BY <1>3, <2>2, SingletonFacts DEF PushStart
  <2>4. start' \in 0..dag.n
    BY <1>3, <1>d DEF PushStart, TypeOK
  <2> QED
    BY <1>3, <2>3, <2>4 DEF PushStart, TypeOK, Nodes, specVars
<1>4. CASE PopDone
  BY <1>4, <1>p DEF PopDone, Pops, TypeOK, Nodes, specVars
<1>5. CASE Compute
  <2> DEFINE i == Top.node
  <2>1. i \in Nodes /\ Popped \in Seq(Entries)
    BY <1>5, <1>p DEF Compute, Pops
  <2>2. CASE Return("MissingInput") \/ Return("NodeError")
    BY <2>2, <1>r DEF Results
  <2>3. CASE ~(Return("MissingInput") \/ Return("NodeError"))
    <3>1. /\ OperandsMemoized(i)
          /\ memo' = [memo EXCEPT ![i] = NodeDet(dag.nodes[i], memo)]
          /\ imemo' = [imemo EXCEPT ![i] = HasIndexLane(dag.nodes[i])]
          /\ state' = [state EXCEPT ![i] = "done"]
          /\ stack' = Popped
          /\ UNCHANGED <<dag, result, pc, start, todo>>
      BY <1>5, <2>3 DEF Compute
    <3>2. NodeDet(dag.nodes[i], memo) \in Det
      BY <3>1, <2>1, ComputeType
    <3>3. HasIndexLane(dag.nodes[i]) \in BOOLEAN
      BY DEF HasIndexLane
    <3> QED
      BY <3>1, <3>2, <3>3, <2>1 DEF TypeOK, Nodes
  <2> QED
    BY <2>2, <2>3
<1>6. CASE CycleError
  BY <1>6, <1>r DEF CycleError, Results
<1>7. CASE Expand
  <2>1. Top.node \in Nodes /\ Popped \in Seq(Entries)
    BY <1>7, <1>p DEF Expand, Pops
  <2>2. Entry(Top.node, TRUE) \in Entries
    BY <2>1 DEF Entry
  <2>3. Append(Popped, Entry(Top.node, TRUE)) \in Seq(Entries)
    BY <2>1, <2>2, PushedFacts
  <2>4. ChildrenOf(dag.nodes[Top.node]) \in Seq(Nat)
    BY <2>1, <1>d, DagFacts
  <2> QED
    BY <1>7, <2>1, <2>3, <2>4 DEF Expand, TypeOK, Nodes, specVars
<1>8. CASE BadChild
  BY <1>8, <1>r DEF BadChild, Results
<1>9. CASE SkipChild
  BY <1>9, <1>t DEF SkipChild, TypeOK, Nodes, specVars
<1>10. CASE PushChild
  <2>1. Head(todo) \in Nodes /\ Tail(todo) \in Seq(Nat)
    BY <1>10, <1>t, <1>d DEF PushChild, Nodes
  <2>2. Entry(Head(todo), FALSE) \in Entries
    BY <2>1 DEF Entry
  <2>3. Append(stack, Entry(Head(todo), FALSE)) \in Seq(Entries)
    BY <2>2, <1>s, PushedFacts
  <2> QED
    BY <1>10, <2>1, <2>3 DEF PushChild, TypeOK, Nodes, specVars
<1>11. CASE Finish
  <2>1. PICK outcome \in {"MissingInput", "IndexSourceInvalid", "ok"} : Return(outcome)
    BY <1>11 DEF Finish
  <2> QED
    BY <2>1, <1>r DEF Results
<1>12. CASE UNCHANGED vars
  BY <1>12 DEF vars, walkVars, specVars, TypeOK, Nodes
<1> QED
  BY <1>1, <1>2, <1>3, <1>4, <1>5, <1>6, <1>7, <1>8, <1>9, <1>10, <1>11, <1>12
  DEF WalkNext

\* Every variable of the walk keeps its type; in particular no worklist entry ever
\* names a node outside the DAG, whatever the DAG refers to.
THEOREM WalkTypeOK == WalkSpec => []TypeOK
<1>1. WalkInit => TypeOK
  BY TypeInit
<1>2. TypeOK /\ [WalkNext]_vars => TypeOK'
  BY TypeStep
<1> QED
  BY <1>1, <1>2, PTL DEF WalkSpec

-----------------------------------------------------------------------------
(***************************************************************************)
(* The inductive invariant.                                                *)
(***************************************************************************)

LEMMA WalkInvInit == WalkInit => WalkInv
<1> SUFFICES ASSUME WalkInit PROVE WalkInv
  OBVIOUS
<1>1. TypeOK
  BY TypeInit
<1>2. /\ stack = <<>> /\ todo = <<>> /\ start = 0
      /\ DOMAIN stack = {} /\ DOMAIN todo = {} /\ Len(stack) = 0
      /\ pc = "validate" /\ result = "none"
      /\ \A i \in Nodes : memo[i] = None /\ state[i] = "unvisited"
  BY DEF WalkInit, Init, Nodes
<1>3. ReturnedOrValid /\ MemoIsDone /\ DoneIsClosed /\ DoneIsAcyclic
  BY <1>2 DEF ReturnedOrValid, MemoIsDone, DoneIsClosed, DoneIsAcyclic, Computed
<1>4. PathIsLinked /\ ActiveIsExpanded /\ ChildrenAbove
  BY <1>2 DEF PathIsLinked, ActiveIsExpanded, ChildrenAbove
<1>5. EntriesAreChildren
  BY <1>2 DEF EntriesAreChildren
<1>6. StartedIsDone
  BY <1>1, <1>2, DagFacts DEF StartedIsDone, TypeOK, Nodes
<1> QED
  BY <1>3, <1>4, <1>5, <1>6 DEF WalkInv

\* Steps that leave the memos and the worklist alone.
LEMMA QuietStep ==
  ASSUME TypeOK, WalkInv, UNCHANGED <<dag, memo, imemo, state, stack, todo>>,
         ReturnedOrValid', StartedIsDone'
  PROVE  WalkInv'
<1>1. MemoIsDone' /\ DoneIsClosed' /\ DoneIsAcyclic'
  BY DEF WalkInv, MemoIsDone, DoneIsClosed, DoneIsAcyclic, Computed, Nodes
<1>2. ActiveIsExpanded' /\ ChildrenAbove'
  BY DEF WalkInv, ActiveIsExpanded, ChildrenAbove, Expanded, Nodes
<1>3. EntriesAreChildren' /\ PathIsLinked'
  BY DEF WalkInv, EntriesAreChildren, PathIsLinked, Innermost, Expanded
<1> QED
  BY <1>1, <1>2, <1>3 DEF WalkInv

LEMMA ReturnStep ==
  ASSUME TypeOK, WalkInv, NEW outcome, outcome # "none", Return(outcome)
  PROVE  WalkInv'
<1>1. UNCHANGED <<dag, memo, imemo, state, stack, todo, start>>
  BY DEF Return
<1>2. ReturnedOrValid'
  BY DEF Return, ReturnedOrValid
<1>3. StartedIsDone'
  BY <1>1 DEF WalkInv, StartedIsDone, Nodes
<1> QED
  BY <1>1, <1>2, <1>3, QuietStep

LEMMA PrevalidateStep ==
  ASSUME TypeOK, WalkInv, Prevalidate
  PROVE  WalkInv'
<1>1. CASE Return("IndexSourceInvalid")
  BY <1>1, ReturnStep
<1>2. CASE /\ IndexLaneValid(dag) /\ pc = "validate" /\ pc' = "walk"
           /\ UNCHANGED <<specVars, start, state, stack, todo, imemo>>
  <2>1. ReturnedOrValid'
    BY <1>2 DEF WalkInv, ReturnedOrValid, specVars
  <2>2. StartedIsDone'
    BY <1>2 DEF WalkInv, StartedIsDone, Nodes, specVars
  <2> QED
    BY <1>2, <2>1, <2>2, QuietStep DEF specVars
<1> QED
  BY <1>1, <1>2 DEF Prevalidate

LEMMA SkipStartStep ==
  ASSUME TypeOK, WalkInv, SkipStart
  PROVE  WalkInv'
<1>1. UNCHANGED <<specVars, pc, state, stack, todo, imemo>>
  BY DEF SkipStart
<1>2. ReturnedOrValid'
  BY <1>1 DEF WalkInv, ReturnedOrValid, specVars
<1>3. StartedIsDone'
  <2>1. start \in Nat /\ dag.n \in Nat
    BY DagFacts DEF TypeOK
  <2>2. \A i \in Nodes : i < start + 1 => i < start \/ i = start
    BY <2>1 DEF Nodes
  <2> QED
    BY <1>1, <2>2 DEF SkipStart, Idle, WalkInv, StartedIsDone, Nodes, specVars
<1> QED
  BY <1>1, <1>2, <1>3, QuietStep DEF specVars

LEMMA PushStartStep ==
  ASSUME TypeOK, WalkInv, PushStart
  PROVE  WalkInv'
<1>1. /\ UNCHANGED <<specVars, pc, state, todo, imemo>>
      /\ stack = <<>> /\ todo = <<>> /\ DOMAIN stack = {} /\ DOMAIN todo = {}
      /\ stack' = <<Entry(start, FALSE)>>
  BY DEF PushStart, Idle
<1>2. /\ Len(stack') = 1 /\ DOMAIN stack' = {1}
      /\ stack'[1].node = start /\ stack'[1].expanded = FALSE
      /\ stack' # <<>>
  BY <1>1 DEF Entry
<1>3. ReturnedOrValid' /\ MemoIsDone' /\ DoneIsClosed' /\ DoneIsAcyclic'
  BY <1>1 DEF WalkInv, ReturnedOrValid, MemoIsDone, DoneIsClosed, DoneIsAcyclic,
              Computed, Nodes, specVars
<1>4. ActiveIsExpanded'
  BY <1>1, <1>2 DEF WalkInv, ActiveIsExpanded, Expanded, Nodes, specVars
<1>5. ChildrenAbove' /\ PathIsLinked'
  BY <1>1, <1>2 DEF ChildrenAbove, PathIsLinked, Expanded
<1>6. EntriesAreChildren'
  BY <1>1, <1>2 DEF EntriesAreChildren
<1>7. StartedIsDone'
  <2>1. start \in Nat /\ dag.n \in Nat
    BY DagFacts DEF TypeOK
  <2>2. \A i \in Nodes : i < start + 1 => i < start \/ i = start
    BY <2>1 DEF Nodes
  <2>3. start' = start + 1
    BY DEF PushStart
  <2> QED
    BY <1>1, <1>2, <2>2, <2>3 DEF WalkInv, StartedIsDone, Nodes, specVars
<1> QED
  BY <1>3, <1>4, <1>5, <1>6, <1>7 DEF WalkInv

\* What a pop of the top entry does to the positions of the worklist.
LEMMA PopPositions ==
  ASSUME TypeOK, Pops
  PROVE  /\ Len(stack) \in Nat \ {0} /\ DOMAIN stack = 1..Len(stack)
         /\ Len(stack) \in DOMAIN stack
         /\ Top = stack[Len(stack)] /\ Top.node \in Nodes
         /\ Top.expanded \in BOOLEAN
         /\ Popped \in Seq([node : Nodes, expanded : BOOLEAN])
         /\ Len(Popped) = Len(stack) - 1 /\ DOMAIN Popped = 1..(Len(stack) - 1)
         /\ \A k \in 1..(Len(stack) - 1) : Popped[k] = stack[k]
         /\ todo = <<>> /\ DOMAIN todo = {}
<1> DEFINE Entries == [node : Nodes, expanded : BOOLEAN]
<1>1. stack \in Seq(Entries) /\ stack # <<>> /\ todo = <<>> /\ DOMAIN todo = {}
  BY DEF TypeOK, Pops
<1>2. Top \in Entries
  BY <1>1, PoppedFacts DEF Top
<1>3. Top.node \in Nodes /\ Top.expanded \in BOOLEAN
  BY <1>2
<1> HIDE DEF Entries
<1>4. /\ Len(stack) \in Nat \ {0}
      /\ Popped \in Seq(Entries)
      /\ Len(Popped) = Len(stack) - 1
      /\ \A k \in 1..(Len(stack) - 1) : Popped[k] = stack[k]
  BY <1>1, PoppedFacts DEF Popped
<1>5. DOMAIN stack = 1..Len(stack) /\ DOMAIN Popped = 1..Len(Popped)
  BY <1>1, <1>4, LenProperties
<1>6. DOMAIN Popped = 1..(Len(stack) - 1)
  BY <1>4, <1>5
<1> QED
  BY <1>1, <1>3, <1>4, <1>5, <1>6 DEF Top, Entries

LEMMA PopDoneStep ==
  ASSUME TypeOK, WalkInv, PopDone
  PROVE  WalkInv'
<1> DEFINE L == Len(stack)
<1>1. /\ UNCHANGED <<specVars, pc, start, state, todo, imemo>>
      /\ stack' = Popped /\ Pops /\ state[Top.node] = "done"
  BY DEF PopDone
<1>2. /\ L \in Nat \ {0} /\ DOMAIN stack = 1..L /\ L \in DOMAIN stack
      /\ Top = stack[L] /\ Top.node \in Nodes
      /\ Len(stack') = L - 1 /\ DOMAIN stack' = 1..(L - 1)
      /\ \A k \in 1..(L - 1) : stack'[k] = stack[k]
      /\ todo = <<>> /\ DOMAIN todo = {}
  BY <1>1, PopPositions
<1>3. ~Expanded(L)
  BY <1>1, <1>2 DEF WalkInv, ActiveIsExpanded, Expanded
<1> HIDE DEF L
<1>4. ReturnedOrValid' /\ MemoIsDone' /\ DoneIsClosed' /\ DoneIsAcyclic'
  BY <1>1 DEF WalkInv, ReturnedOrValid, MemoIsDone, DoneIsClosed, DoneIsAcyclic,
              Computed, Nodes, specVars
<1>5. ActiveIsExpanded'
  <2>1. \A i \in Nodes :
           (\E p \in 1..L : Expanded(p) /\ stack[p].node = i)
             <=> (\E p \in 1..(L - 1) : Expanded(p) /\ stack[p].node = i)
    BY <1>2, <1>3
  <2> QED
    BY <1>1, <1>2, <2>1 DEF WalkInv, ActiveIsExpanded, Expanded, Nodes, specVars
<1>6. ChildrenAbove'
  <2> SUFFICES ASSUME NEW p \in 1..(L - 1), Expanded(p),
                      NEW c \in Children(dag.nodes[stack[p].node])
               PROVE  \/ c < dag.n /\ state[c] = "done"
                      \/ \E q \in 1..(L - 1) : p < q /\ stack[q].node = c
    BY <1>1, <1>2 DEF ChildrenAbove, Expanded, specVars
  <2>1. \/ c < dag.n /\ state[c] = "done"
        \/ \E q \in 1..L : p < q /\ stack[q].node = c
    BY <1>2 DEF WalkInv, ChildrenAbove
  <2>2. CASE stack[L].node = c
    <3>1. dag.n \in Nat
      BY DagFacts DEF TypeOK
    <3> QED
      BY <2>2, <3>1, <1>1, <1>2 DEF Nodes
  <2> QED
    BY <2>1, <2>2, <1>2
<1>7. EntriesAreChildren'
  <2> SUFFICES ASSUME NEW q \in 2..(L - 1)
               PROVE  \E p \in 1..(q - 1) :
                         /\ Innermost(p, q)'
                         /\ stack'[q].node \in Children(dag.nodes[stack'[p].node])
    BY <1>1, <1>2 DEF EntriesAreChildren, specVars
  <2>1. PICK p \in 1..(q - 1) : /\ Innermost(p, q)
                                /\ stack[q].node \in Children(dag.nodes[stack[p].node])
    BY <1>2 DEF WalkInv, EntriesAreChildren
  <2> QED
    BY <2>1, <1>2 DEF Innermost, Expanded
<1>8. PathIsLinked'
  <2> SUFFICES ASSUME NEW p \in 1..(L - 1), Expanded(p)
               PROVE  \/ \A q \in 1..(L - 1) : p < q => ~Expanded(q)
                      \/ \E q \in 1..(L - 1) : Expanded(q) /\ Innermost(p, q)'
    BY <1>1, <1>2 DEF PathIsLinked, Expanded
  <2>1. \/ \A q \in 1..L : p < q => ~Expanded(q)
        \/ \E q \in 1..L : Expanded(q) /\ Innermost(p, q)
    BY <1>2 DEF WalkInv, PathIsLinked
  <2> QED
    BY <2>1, <1>2, <1>3 DEF Innermost, Expanded
<1>9. StartedIsDone'
  <2> SUFFICES ASSUME NEW i \in Nodes, i < start, state[i] # "done"
               PROVE  stack' # <<>> /\ stack'[1].node = i
    BY <1>1 DEF StartedIsDone, Nodes, specVars
  <2>1. stack # <<>> /\ stack[1].node = i
    BY DEF WalkInv, StartedIsDone
  <2>2. L # 1
    BY <2>1, <1>1, <1>2
  <2>3. 1 \in 1..(L - 1)
    BY <2>2, <1>2
  <2> QED
    BY <2>1, <2>3, <1>2
<1> QED
  BY <1>4, <1>5, <1>6, <1>7, <1>8, <1>9 DEF WalkInv

\* Nothing is above the top, and nothing is left to scan when it is popped: the
\* children of an expanded top are done.
LEMMA TopChildrenDone ==
  ASSUME TypeOK, WalkInv, Pops, Top.expanded
  PROVE  /\ state[Top.node] = "active"
         /\ \A c \in Children(dag.nodes[Top.node]) : c < dag.n /\ state[c] = "done"
         /\ OperandsMemoized(Top.node)
<1> DEFINE L == Len(stack)
           i == Top.node
<1>1. /\ L \in Nat \ {0} /\ DOMAIN stack = 1..L /\ L \in DOMAIN stack
      /\ Top = stack[L] /\ i \in Nodes /\ DOMAIN todo = {}
  BY PopPositions
<1>2. Expanded(L)
  BY <1>1 DEF Expanded
<1> HIDE DEF L
<1>3. state[Top.node] = "active"
  BY <1>1, <1>2 DEF WalkInv, ActiveIsExpanded
<1>4. \A c \in Children(dag.nodes[i]) : c < dag.n /\ state[c] = "done"
  <2> SUFFICES ASSUME NEW c \in Children(dag.nodes[i])
               PROVE  c < dag.n /\ state[c] = "done"
    OBVIOUS
  <2>1. \/ c < dag.n /\ state[c] = "done"
        \/ \E q \in 1..L : L < q /\ stack[q].node = c
    BY <1>1, <1>2 DEF WalkInv, ChildrenAbove
  <2> QED
    BY <2>1, <1>1
<1>5. \A c \in Children(dag.nodes[i]) : c \in Nodes
  <2>1. dag \in Dags /\ dag.n \in Nat
    BY DagFacts DEF TypeOK
  <2>2. \A c \in Children(dag.nodes[i]) : c \in Nat
    BY <1>1, <2>1, ChildrenFacts
  <2> QED
    BY <2>1, <2>2, <1>4 DEF Nodes
<1>6. \A c \in Children(dag.nodes[i]) : Memoized(c)
  BY <1>4, <1>5 DEF WalkInv, MemoIsDone, Memoized
<1>7. \A k \in DOMAIN dag.nodes[i].kids : Memoized(dag.nodes[i].kids[k])
  BY <1>1, <1>6, ChildrenFacts DEF TypeOK
<1>8. \A k \in DOMAIN dag.nodes[i].index :
         /\ Memoized(dag.nodes[i].index[k])
         /\ IndexMemoized(dag.nodes[i].index[k])
  <2> SUFFICES ASSUME NEW k \in DOMAIN dag.nodes[i].index
               PROVE  /\ Memoized(dag.nodes[i].index[k])
                      /\ IndexMemoized(dag.nodes[i].index[k])
    OBVIOUS
  <2> DEFINE m == dag.nodes[i].index[k]
  <2>1. m \in Children(dag.nodes[i])
    BY <1>1, ChildrenFacts DEF TypeOK
  <2>2. m < dag.n /\ m \in Nodes /\ Memoized(m)
    BY <2>1, <1>4, <1>5, <1>6
  <2>3. IndexLaneValid(dag)
    BY DEF WalkInv, ReturnedOrValid, Pops
  <2>4. HasIndexLane(dag.nodes[m])
    BY <2>3, <1>1 DEF IndexLaneValid, ValidIndexSource, Nodes
  <2>5. imemo[m]
    BY <2>2, <2>4 DEF WalkInv, MemoIsDone, Memoized
  <2> QED
    BY <2>2, <2>5 DEF IndexMemoized
<1> QED
  BY <1>3, <1>4, <1>7, <1>8 DEF OperandsMemoized

LEMMA ComputeStep ==
  ASSUME TypeOK, WalkInv, Compute
  PROVE  WalkInv'
<1> DEFINE L == Len(stack)
           i == Top.node
<1>1. CASE Return("MissingInput") \/ Return("NodeError")
  BY <1>1, ReturnStep
<1>2. CASE ~(Return("MissingInput") \/ Return("NodeError"))
  <2>1. /\ OperandsMemoized(i) /\ Pops /\ Top.expanded
        /\ memo' = [memo EXCEPT ![i] = NodeDet(dag.nodes[i], memo)]
        /\ imemo' = [imemo EXCEPT ![i] = HasIndexLane(dag.nodes[i])]
        /\ state' = [state EXCEPT ![i] = "done"]
        /\ stack' = Popped
        /\ UNCHANGED <<dag, result, pc, start, todo>>
    BY <1>2 DEF Compute
  <2>2. /\ L \in Nat \ {0} /\ DOMAIN stack = 1..L /\ L \in DOMAIN stack
        /\ Top = stack[L] /\ i \in Nodes
        /\ Len(stack') = L - 1 /\ DOMAIN stack' = 1..(L - 1)
        /\ \A k \in 1..(L - 1) : stack'[k] = stack[k]
        /\ DOMAIN todo' = {}
    BY <2>1, PopPositions
  <2>3. Expanded(L)
    BY <2>1, <2>2 DEF Expanded
  <2>4. /\ state[i] = "active"
        /\ \A c \in Children(dag.nodes[i]) : c < dag.n /\ state[c] = "done"
    BY <2>1, TopChildrenDone
  <2>5. NodeDet(dag.nodes[i], memo) # None
    BY <2>1, <2>2, ComputeType, NoneIsNotADet
  <2>6. /\ memo' \in [Nodes -> Det \cup {None}] /\ state \in [Nodes -> {"unvisited", "active", "done"}]
        /\ memo \in [Nodes -> Det \cup {None}] /\ imemo \in [Nodes -> BOOLEAN]
    BY <2>1, <2>2, ComputeType DEF TypeOK
  <2>7. \A j \in Nodes : /\ state'[j] = IF j = i THEN "done" ELSE state[j]
                         /\ j # i => memo'[j] = memo[j] /\ imemo'[j] = imemo[j]
    BY <2>1, <2>2, <2>6
  <2>8. memo'[i] # None /\ imemo'[i] = HasIndexLane(dag.nodes[i])
    BY <2>1, <2>2, <2>5, <2>6
  <2>9. dag' = dag /\ Nodes' = Nodes
    BY <2>1 DEF Nodes
  <2>10. \A j \in Nodes : \A c \in Children(dag.nodes[j]) : c < dag.n => c \in Nodes
    <3>1. dag \in Dags /\ dag.n \in Nat
      BY DagFacts DEF TypeOK
    <3>2. \A j \in Nodes : \A c \in Children(dag.nodes[j]) : c \in Nat
      BY <3>1, ChildrenFacts
    <3> QED
      BY <3>1, <3>2 DEF Nodes
  <2> HIDE DEF L, i
  <2>11. ReturnedOrValid'
    BY <2>1 DEF WalkInv, ReturnedOrValid
  <2>12. MemoIsDone'
    BY <2>7, <2>8, <2>9 DEF WalkInv, MemoIsDone, Computed
  <2>13. DoneIsClosed'
    <3> SUFFICES ASSUME NEW j \in Nodes, state'[j] = "done",
                        NEW c \in Children(dag.nodes[j])
                 PROVE  c < dag.n /\ state'[c] = "done"
      BY <2>9 DEF DoneIsClosed
    <3>1. c < dag.n /\ state[c] = "done"
      BY <2>4, <2>7 DEF WalkInv, DoneIsClosed
    <3> QED
      BY <3>1, <2>7, <2>10
  <2>14. DoneIsAcyclic'
    <3> DEFINE done == {j \in Nodes : state[j] = "done"}
    <3> SUFFICES ASSUME NEW S \in SUBSET (done \cup {i}), S # {}
                 PROVE  \E j \in S : Children(dag.nodes[j]) \cap S = {}
      BY <2>7, <2>9, <2>2 DEF DoneIsAcyclic
    <3>1. i \notin done
      BY <2>4
    <3>2. CASE S \ {i} = {}
      <4>1. S = {i}
        BY <3>2
      <4>2. i \notin Children(dag.nodes[i])
        BY <2>4
      <4> QED
        BY <4>1, <4>2
    <3>3. CASE S \ {i} # {}
      <4>1. S \ {i} \in SUBSET done
        OBVIOUS
      <4>2. PICK j \in S \ {i} : Children(dag.nodes[j]) \cap (S \ {i}) = {}
        BY <3>3, <4>1 DEF WalkInv, DoneIsAcyclic
      <4>3. j \in Nodes /\ state[j] = "done"
        BY <4>1
      <4>4. i \notin Children(dag.nodes[j])
        BY <4>3, <2>4 DEF WalkInv, DoneIsClosed
      <4> QED
        BY <4>2, <4>4
    <3> QED
      BY <3>2, <3>3
  <2>15. ActiveIsExpanded'
    <3>1. \A p \in 1..(L - 1) : Expanded(p) => stack[p].node # i
      BY <2>2, <2>3 DEF WalkInv, ActiveIsExpanded, i
    <3>2. \A j \in Nodes : j # i =>
             ((\E p \in 1..L : Expanded(p) /\ stack[p].node = j)
                <=> (\E p \in 1..(L - 1) : Expanded(p) /\ stack[p].node = j))
      BY <2>2 DEF i
    <3>3. \A j \in Nodes : state'[j] = "active"
             <=> \E p \in 1..(L - 1) : Expanded(p) /\ stack[p].node = j
      BY <3>1, <3>2, <2>2, <2>4, <2>7 DEF WalkInv, ActiveIsExpanded
    <3>4. \A p, q \in 1..(L - 1) :
             Expanded(p) /\ Expanded(q) /\ stack[p].node = stack[q].node => p = q
      BY <2>2 DEF WalkInv, ActiveIsExpanded
    <3> QED
      BY <3>3, <3>4, <2>2, <2>9 DEF ActiveIsExpanded, Expanded
  <2>16. ChildrenAbove'
    <3> SUFFICES ASSUME NEW p \in 1..(L - 1), Expanded(p),
                        NEW c \in Children(dag.nodes[stack[p].node])
                 PROVE  \/ c < dag.n /\ state'[c] = "done"
                        \/ \E q \in 1..(L - 1) : p < q /\ stack[q].node = c
      BY <2>2, <2>9 DEF ChildrenAbove, Expanded
    <3>1. \/ c < dag.n /\ state[c] = "done"
          \/ \E q \in 1..L : p < q /\ stack[q].node = c
      BY <2>1, <2>2, <2>3 DEF WalkInv, ChildrenAbove
    <3>2. CASE stack[L].node = c
      <4>1. dag.n \in Nat
        BY DagFacts DEF TypeOK
      <4> QED
        BY <3>2, <4>1, <2>2, <2>7 DEF Nodes, i
    <3>3. CASE c < dag.n /\ state[c] = "done"
      <4>1. stack[p].node \in Nodes
        <5>1. stack \in Seq([node : Nodes, expanded : BOOLEAN])
          BY DEF TypeOK
        <5>2. p \in 1..Len(stack)
          BY <2>2 DEF L
        <5>3. stack[p] \in [node : Nodes, expanded : BOOLEAN]
          BY <5>1, <5>2, ElementOfSeq
        <5> QED
          BY <5>3
      <4> QED
        BY <3>3, <4>1, <2>7, <2>10
    <3> QED
      BY <3>1, <3>2, <3>3, <2>2
  <2>17. EntriesAreChildren'
    <3> SUFFICES ASSUME NEW q \in 2..(L - 1)
                 PROVE  \E p \in 1..(q - 1) :
                           /\ Innermost(p, q)'
                           /\ stack'[q].node \in Children(dag.nodes[stack'[p].node])
      BY <2>1, <2>2 DEF EntriesAreChildren
    <3>1. PICK p \in 1..(q - 1) : /\ Innermost(p, q)
                                  /\ stack[q].node \in Children(dag.nodes[stack[p].node])
      BY <2>2 DEF WalkInv, EntriesAreChildren, L
    <3> QED
      BY <3>1, <2>2 DEF Innermost, Expanded
  <2>18. PathIsLinked'
    <3> SUFFICES ASSUME NEW p \in 1..(L - 1), Expanded(p)
                 PROVE  \/ \A q \in 1..(L - 1) : p < q => ~Expanded(q)
                        \/ \E q \in 1..(L - 1) : Expanded(q) /\ Innermost(p, q)'
      BY <2>1, <2>2 DEF PathIsLinked, Expanded
    <3>1. \/ \A q \in 1..L : p < q => ~Expanded(q)
          \/ \E q \in 1..L : Expanded(q) /\ Innermost(p, q)
      BY <2>2 DEF WalkInv, PathIsLinked
    <3> QED
      BY <3>1, <2>2 DEF Innermost, Expanded
  <2>19. StartedIsDone'
    <3> SUFFICES ASSUME NEW j \in Nodes, j < start, state'[j] # "done"
                 PROVE  stack' # <<>> /\ stack'[1].node = j
      BY <2>1, <2>9 DEF StartedIsDone
    <3>1. j # i /\ state[j] # "done"
      BY <2>7
    <3>2. stack # <<>> /\ stack[1].node = j
      BY <3>1 DEF WalkInv, StartedIsDone
    <3>3. L # 1
      BY <3>1, <3>2, <2>2 DEF i
    <3>4. 1 \in 1..(L - 1)
      BY <3>3, <2>2
    <3> QED
      BY <3>2, <3>4, <2>2
  <2> QED
    BY <2>11, <2>12, <2>13, <2>14, <2>15, <2>16, <2>17, <2>18, <2>19 DEF WalkInv
<1> QED
  BY <1>1, <1>2

LEMMA ExpandStep ==
  ASSUME TypeOK, WalkInv, Expand
  PROVE  WalkInv'
<1>0. PICK L \in Nat : L = Len(stack)
  BY PopPositions DEF Expand
<1> DEFINE i == Top.node
           Entries == [node : Nodes, expanded : BOOLEAN]
<1>1. /\ Pops /\ state[i] = "unvisited" /\ ~Top.expanded
      /\ state' = [state EXCEPT ![i] = "active"]
      /\ stack' = Append(Popped, Entry(i, TRUE))
      /\ todo' = ChildrenOf(dag.nodes[i])
      /\ UNCHANGED <<specVars, pc, start, imemo>>
  BY DEF Expand
<1>2. /\ L \in Nat \ {0} /\ DOMAIN stack = 1..L /\ L \in DOMAIN stack
      /\ Top = stack[L] /\ i \in Nodes
      /\ Popped \in Seq(Entries) /\ Len(Popped) = L - 1
      /\ \A k \in 1..(L - 1) : Popped[k] = stack[k]
      /\ DOMAIN todo = {}
  BY <1>0, <1>1, PopPositions
<1>3. Entry(i, TRUE) \in Entries
  BY <1>2 DEF Entry
<1>4. ~Expanded(L)
  BY <1>1, <1>2 DEF Expanded
<1>5. /\ DOMAIN stack' = 1..L /\ Len(stack') = L
      /\ \A k \in 1..(L - 1) : stack'[k] = stack[k]
      /\ stack'[L] = Entry(i, TRUE)
  <2> HIDE DEF Entries, i
  <2> DEFINE pushed == Append(Popped, Entry(i, TRUE))
  <2>0. /\ pushed \in Seq(Entries)
        /\ Len(pushed) = Len(Popped) + 1
        /\ \A k \in 1..Len(Popped) : pushed[k] = Popped[k]
        /\ pushed[Len(Popped) + 1] = Entry(i, TRUE)
    BY <1>2, <1>3, PushedFacts
  <2>1. stack' = pushed
    BY <1>1
  <2> HIDE DEF pushed
  <2>2. Len(Popped) + 1 = L
    BY <1>2
  <2>3. DOMAIN pushed = 1..Len(pushed)
    BY <2>0, LenProperties
  <2> QED
    BY <1>2, <2>0, <2>1, <2>2, <2>3
<1>6. /\ Expanded(L)' /\ stack'[L].node = i
      /\ \A k \in 1..(L - 1) : Expanded(k)' = Expanded(k)
      /\ \A k \in 1..L : stack'[k].node = stack[k].node
  BY <1>2, <1>5 DEF Expanded, Entry
<1>7. \A j \in Nodes : state'[j] = IF j = i THEN "active" ELSE state[j]
  BY <1>1, <1>2 DEF TypeOK
<1>8. dag' = dag /\ memo' = memo /\ Nodes' = Nodes
  BY <1>1 DEF specVars, Nodes
<1>9. \A c \in Children(dag.nodes[i]) : \E k \in DOMAIN todo' : todo'[k] = c
  <2>1. \A c \in Children(dag.nodes[i]) :
           \E k \in DOMAIN ChildrenOf(dag.nodes[i]) : ChildrenOf(dag.nodes[i])[k] = c
    BY DEF Children
  <2> QED
    BY <1>1, <2>1
<1>10. \A k \in DOMAIN todo' : todo'[k] \in Children(dag.nodes[i])
  BY <1>1 DEF Children
<1>11. \A p \in 1..L : stack[p].node \in Nodes
  <2>1. stack \in Seq(Entries)
    BY DEF TypeOK
  <2>2. \A p \in 1..L : stack[p] \in Entries
    BY <2>1, <1>0, ElementOfSeq
  <2> QED
    BY <2>2
<1> HIDE DEF i, Entries
<1>12. ReturnedOrValid'
  BY <1>1 DEF WalkInv, ReturnedOrValid, specVars
<1>13. MemoIsDone' /\ DoneIsClosed' /\ DoneIsAcyclic'
  <2>1. \A j \in Nodes : state'[j] = "done" <=> state[j] = "done"
    BY <1>1, <1>7
  <2>2. \A j \in Nodes : \A c \in Children(dag.nodes[j]) : c < dag.n => c \in Nodes
    <3>1. dag \in Dags /\ dag.n \in Nat
      BY DagFacts DEF TypeOK
    <3>2. \A j \in Nodes : \A c \in Children(dag.nodes[j]) : c \in Nat
      BY <3>1, ChildrenFacts
    <3> QED
      BY <3>1, <3>2 DEF Nodes
  <2>3. MemoIsDone'
    BY <1>1, <1>8, <2>1 DEF WalkInv, MemoIsDone, Computed
  <2>4. DoneIsClosed'
    BY <1>8, <2>1, <2>2 DEF WalkInv, DoneIsClosed
  <2>5. DoneIsAcyclic'
    BY <1>8, <2>1 DEF WalkInv, DoneIsAcyclic
  <2> QED
    BY <2>3, <2>4, <2>5
<1>14. ActiveIsExpanded'
  <2>1. \A p \in 1..(L - 1) : Expanded(p) => stack[p].node # i
    BY <1>1, <1>2 DEF WalkInv, ActiveIsExpanded
  <2>2. \A j \in Nodes : state'[j] = "active"
           <=> \E p \in 1..L : Expanded(p)' /\ stack'[p].node = j
    <3> SUFFICES ASSUME NEW j \in Nodes
                 PROVE  state'[j] = "active"
                          <=> \E p \in 1..L : Expanded(p)' /\ stack'[p].node = j
      OBVIOUS
    <3>1. CASE j = i
      BY <3>1, <1>2, <1>6, <1>7
    <3>2. CASE j # i
      <4>1. state[j] = "active" <=> \E p \in 1..L : Expanded(p) /\ stack[p].node = j
        BY <1>2 DEF WalkInv, ActiveIsExpanded
      <4>2. (\E p \in 1..L : Expanded(p) /\ stack[p].node = j)
              <=> (\E p \in 1..(L - 1) : Expanded(p) /\ stack[p].node = j)
        BY <1>2, <1>4
      <4>3. (\E p \in 1..L : Expanded(p)' /\ stack'[p].node = j)
              <=> (\E p \in 1..(L - 1) : Expanded(p) /\ stack[p].node = j)
        BY <3>2, <1>2, <1>6
      <4> QED
        BY <3>2, <4>1, <4>2, <4>3, <1>7
    <3> QED
      BY <3>1, <3>2
  <2>3. \A p, q \in 1..L :
           Expanded(p)' /\ Expanded(q)' /\ stack'[p].node = stack'[q].node => p = q
    <3>1. \A p, q \in 1..(L - 1) :
             Expanded(p) /\ Expanded(q) /\ stack[p].node = stack[q].node => p = q
      BY <1>2 DEF WalkInv, ActiveIsExpanded
    <3>2. \A p \in 1..L : p = L \/ p \in 1..(L - 1)
      BY <1>2
    <3> QED
      BY <3>1, <3>2, <2>1, <1>6
  <2> QED
    BY <1>5, <1>8, <2>2, <2>3 DEF ActiveIsExpanded
<1>15. ChildrenAbove'
  <2> SUFFICES ASSUME NEW p \in 1..L, Expanded(p)',
                      NEW c \in Children(dag.nodes[stack[p].node])
               PROVE  \/ c < dag.n /\ state'[c] = "done"
                      \/ \E q \in 1..L : p < q /\ stack[q].node = c
                      \/ /\ \A q \in 1..L : p < q => ~Expanded(q)'
                         /\ \E k \in DOMAIN todo' : todo'[k] = c
    BY <1>5, <1>6, <1>8 DEF ChildrenAbove
  <2>1. CASE p = L
    <3>1. c \in Children(dag.nodes[i])
      BY <2>1, <1>6
    <3>2. \A q \in 1..L : ~(p < q)
      BY <2>1, <1>2
    <3> QED
      BY <3>1, <3>2, <1>9
  <2>2. CASE p # L
    <3>1. p \in 1..(L - 1) /\ Expanded(p)
      BY <2>2, <1>2, <1>6
    <3>2. \/ c < dag.n /\ state[c] = "done"
          \/ \E q \in 1..L : p < q /\ stack[q].node = c
      BY <3>1, <1>2 DEF WalkInv, ChildrenAbove
    <3>3. c < dag.n /\ state[c] = "done" => state'[c] = "done"
      <4>1. dag \in Dags /\ dag.n \in Nat
        BY DagFacts DEF TypeOK
      <4>2. c \in Nat
        BY <4>1, <1>11, ChildrenFacts
      <4>3. c < dag.n => c \in Nodes
        BY <4>1, <4>2 DEF Nodes
      <4> QED
        BY <4>3, <1>1, <1>7
    <3> QED
      BY <3>2, <3>3
  <2> QED
    BY <2>1, <2>2
<1>16. EntriesAreChildren'
  <2>1. \A q \in 2..L : \E p \in 1..(q - 1) :
           /\ Innermost(p, q)'
           /\ stack'[q].node \in Children(dag.nodes[stack'[p].node])
    <3> SUFFICES ASSUME NEW q \in 2..L
                 PROVE  \E p \in 1..(q - 1) :
                           /\ Innermost(p, q)'
                           /\ stack'[q].node \in Children(dag.nodes[stack'[p].node])
      OBVIOUS
    <3>1. PICK p \in 1..(q - 1) : /\ Innermost(p, q)
                                  /\ stack[q].node \in Children(dag.nodes[stack[p].node])
      BY <1>0, <1>2 DEF WalkInv, EntriesAreChildren
    <3>2. Innermost(p, q)'
      BY <3>1, <1>2, <1>6 DEF Innermost
    <3> QED
      BY <3>1, <3>2, <1>2, <1>6
  <2>2. Innermost(L, L + 1)'
    BY <1>2, <1>6 DEF Innermost
  <2> QED
    BY <2>1, <2>2, <1>2, <1>5, <1>6, <1>8, <1>10 DEF EntriesAreChildren
<1>17. PathIsLinked'
  <2> SUFFICES ASSUME NEW p \in 1..L, Expanded(p)'
               PROVE  \/ \A q \in 1..L : p < q => ~Expanded(q)'
                      \/ \E q \in 1..L : Expanded(q)' /\ Innermost(p, q)'
    BY <1>5 DEF PathIsLinked
  <2>1. CASE p = L
    BY <2>1, <1>2
  <2>2. CASE p # L
    <3>1. p \in 1..(L - 1) /\ Expanded(p)
      BY <2>2, <1>2, <1>6
    <3>2. \/ \A q \in 1..L : p < q => ~Expanded(q)
          \/ \E q \in 1..L : Expanded(q) /\ Innermost(p, q)
      BY <3>1, <1>2 DEF WalkInv, PathIsLinked
    <3>3. CASE \A q \in 1..L : p < q => ~Expanded(q)
      <4>1. Innermost(p, L)'
        BY <3>1, <3>3, <1>2, <1>6 DEF Innermost
      <4> QED
        BY <4>1, <1>2, <1>6
    <3>4. CASE \E q \in 1..L : Expanded(q) /\ Innermost(p, q)
      <4>1. PICK q \in 1..L : Expanded(q) /\ Innermost(p, q)
        BY <3>4
      <4>2. q \in 1..(L - 1)
        BY <4>1, <1>2, <1>4
      <4>3. Innermost(p, q)'
        BY <4>1, <4>2, <1>2, <1>6 DEF Innermost
      <4> QED
        BY <4>1, <4>2, <4>3, <1>6
    <3> QED
      BY <3>2, <3>3, <3>4
  <2> QED
    BY <2>1, <2>2
<1>18. StartedIsDone'
  <2> SUFFICES ASSUME NEW j \in Nodes, j < start, state'[j] # "done"
               PROVE  stack' # <<>> /\ stack'[1].node = j
    BY <1>1, <1>8 DEF StartedIsDone
  <2>1. state[j] # "done"
    BY <1>1, <1>7
  <2>2. stack[1].node = j
    BY <2>1 DEF WalkInv, StartedIsDone
  <2>3. 1 \in 1..L
    BY <1>2
  <2>4. stack' # <<>>
    BY <1>2, <1>5
  <2> QED
    BY <2>2, <2>3, <2>4, <1>6
<1> QED
  BY <1>12, <1>13, <1>14, <1>15, <1>16, <1>17, <1>18 DEF WalkInv

\* What is left to scan after its first child.
LEMMA ScanFacts ==
  ASSUME TypeOK, todo # <<>>
  PROVE  /\ 1 \in DOMAIN todo /\ Head(todo) = todo[1] /\ Head(todo) \in Nat
         /\ \A k \in DOMAIN Tail(todo) :
               k + 1 \in DOMAIN todo /\ Tail(todo)[k] = todo[k + 1]
         /\ \A k \in DOMAIN todo : k # 1 =>
               k - 1 \in DOMAIN Tail(todo) /\ Tail(todo)[k - 1] = todo[k]
<1>1. todo \in Seq(Nat)
  BY DEF TypeOK
<1>2. PICK n \in Nat \ {0} : n = Len(todo) /\ DOMAIN todo = 1..n
  BY <1>1, EmptySeq, LenProperties
<1>3. /\ Head(todo) = todo[1] /\ Tail(todo) \in Seq(Nat)
      /\ Len(Tail(todo)) = n - 1
      /\ \A k \in 1..(n - 1) : Tail(todo)[k] = todo[k + 1]
  BY <1>1, <1>2, HeadTailProperties
<1>4. DOMAIN Tail(todo) = 1..(n - 1)
  BY <1>3, LenProperties
<1>5. todo[1] \in Nat
  BY <1>1, <1>2, ElementOfSeq
<1> QED
  BY <1>2, <1>3, <1>4, <1>5

LEMMA SkipChildStep ==
  ASSUME TypeOK, WalkInv, SkipChild
  PROVE  WalkInv'
<1>1. /\ todo # <<>> /\ Head(todo) < dag.n /\ state[Head(todo)] = "done"
      /\ todo' = Tail(todo)
      /\ UNCHANGED <<specVars, pc, start, state, stack, imemo>>
  BY DEF SkipChild
<1>2. /\ \A k \in DOMAIN todo' : k + 1 \in DOMAIN todo /\ todo'[k] = todo[k + 1]
      /\ \A k \in DOMAIN todo : k # 1 =>
            k - 1 \in DOMAIN todo' /\ todo'[k - 1] = todo[k]
      /\ Head(todo) = todo[1]
  BY <1>1, ScanFacts
<1>3. MemoIsDone' /\ DoneIsClosed' /\ DoneIsAcyclic' /\ StartedIsDone'
  BY <1>1 DEF WalkInv, MemoIsDone, DoneIsClosed, DoneIsAcyclic, StartedIsDone,
              Computed, Nodes, specVars
<1>4. ReturnedOrValid' /\ ActiveIsExpanded' /\ PathIsLinked'
  BY <1>1 DEF WalkInv, ReturnedOrValid, ActiveIsExpanded, PathIsLinked, Innermost,
              Expanded, Nodes, specVars
<1>5. ChildrenAbove'
  <2>1. \A c : (\E k \in DOMAIN todo : todo[k] = c) =>
           \/ c < dag.n /\ state[c] = "done"
           \/ \E k \in DOMAIN todo' : todo'[k] = c
    BY <1>1, <1>2
  <2> QED
    BY <1>1, <2>1 DEF WalkInv, ChildrenAbove, Expanded, specVars
<1>6. EntriesAreChildren'
  BY <1>1, <1>2 DEF WalkInv, EntriesAreChildren, Innermost, Expanded, specVars
<1> QED
  BY <1>3, <1>4, <1>5, <1>6 DEF WalkInv

LEMMA PushChildStep ==
  ASSUME TypeOK, WalkInv, PushChild
  PROVE  WalkInv'
<1>0. PICK L \in Nat : L = Len(stack) /\ DOMAIN stack = 1..L
  BY LenProperties DEF TypeOK
<1> DEFINE child == Head(todo)
           Entries == [node : Nodes, expanded : BOOLEAN]
<1>1. /\ todo # <<>> /\ child < dag.n /\ state[child] # "done"
      /\ stack' = Append(stack, Entry(child, FALSE))
      /\ todo' = Tail(todo)
      /\ UNCHANGED <<specVars, pc, start, state, imemo>>
  BY DEF PushChild
<1>2. /\ \A k \in DOMAIN todo' : k + 1 \in DOMAIN todo /\ todo'[k] = todo[k + 1]
      /\ \A k \in DOMAIN todo : k # 1 =>
            k - 1 \in DOMAIN todo' /\ todo'[k - 1] = todo[k]
      /\ child = todo[1] /\ 1 \in DOMAIN todo /\ child \in Nat
  BY <1>1, ScanFacts
<1>3. child \in Nodes
  <2>1. dag.n \in Nat
    BY DagFacts DEF TypeOK
  <2> QED
    BY <1>1, <1>2, <2>1 DEF Nodes
<1>4. /\ Len(stack') = L + 1 /\ DOMAIN stack' = 1..(L + 1)
      /\ \A k \in 1..L : stack'[k] = stack[k]
      /\ stack'[L + 1] = Entry(child, FALSE)
  <2>1. Entry(child, FALSE) \in Entries
    BY <1>3 DEF Entry
  <2>2. stack \in Seq(Entries)
    BY DEF TypeOK
  <2> HIDE DEF Entries, child
  <2> DEFINE pushed == Append(stack, Entry(child, FALSE))
  <2>3. /\ pushed \in Seq(Entries)
        /\ Len(pushed) = Len(stack) + 1
        /\ \A k \in 1..Len(stack) : pushed[k] = stack[k]
        /\ pushed[Len(stack) + 1] = Entry(child, FALSE)
    BY <2>1, <2>2, PushedFacts
  <2>4. stack' = pushed
    BY <1>1
  <2> HIDE DEF pushed
  <2>5. DOMAIN pushed = 1..Len(pushed)
    BY <2>3, LenProperties
  <2> QED
    BY <1>0, <2>3, <2>4, <2>5
<1>5. /\ ~Expanded(L + 1)' /\ stack'[L + 1].node = child
      /\ \A k \in 1..L : Expanded(k)' = Expanded(k) /\ stack'[k].node = stack[k].node
  BY <1>4 DEF Expanded, Entry
<1>6. L # 0
  BY <1>0, <1>2 DEF WalkInv, EntriesAreChildren
<1> HIDE DEF child, Entries
<1>7. dag' = dag /\ memo' = memo /\ Nodes' = Nodes /\ state' = state
  BY <1>1 DEF specVars, Nodes
<1>8. MemoIsDone' /\ DoneIsClosed' /\ DoneIsAcyclic' /\ ReturnedOrValid'
  BY <1>1 DEF WalkInv, MemoIsDone, DoneIsClosed, DoneIsAcyclic, ReturnedOrValid,
              Computed, Nodes, specVars
<1>9. ActiveIsExpanded'
  <2>1. \A j : (\E p \in 1..(L + 1) : Expanded(p)' /\ stack'[p].node = j)
                <=> (\E p \in 1..L : Expanded(p) /\ stack[p].node = j)
    BY <1>5
  <2>2. \A p, q \in 1..(L + 1) :
           Expanded(p)' /\ Expanded(q)' /\ stack'[p].node = stack'[q].node => p = q
    <3>1. \A p, q \in 1..L :
             Expanded(p) /\ Expanded(q) /\ stack[p].node = stack[q].node => p = q
      BY <1>0 DEF WalkInv, ActiveIsExpanded
    <3>2. \A p \in 1..(L + 1) : Expanded(p)' => p \in 1..L
      BY <1>5
    <3> QED
      BY <3>1, <3>2, <1>5
  <2>3. \A j \in Nodes : state[j] = "active"
           <=> \E p \in 1..L : Expanded(p) /\ stack[p].node = j
    BY <1>0 DEF WalkInv, ActiveIsExpanded
  <2>4. \A j \in Nodes : state'[j] = "active"
           <=> \E p \in 1..(L + 1) : Expanded(p)' /\ stack'[p].node = j
    BY <2>1, <2>3, <1>7
  <2> QED
    BY <1>4, <1>7, <2>2, <2>4 DEF ActiveIsExpanded
<1>10. ChildrenAbove'
  <2> SUFFICES ASSUME NEW p \in 1..(L + 1), Expanded(p)',
                      NEW c \in Children(dag.nodes[stack'[p].node])
               PROVE  \/ c < dag.n /\ state[c] = "done"
                      \/ \E q \in 1..(L + 1) : p < q /\ stack'[q].node = c
                      \/ /\ \A q \in 1..(L + 1) : p < q => ~Expanded(q)'
                         /\ \E k \in DOMAIN todo' : todo'[k] = c
    BY <1>4, <1>7 DEF ChildrenAbove
  <2>1. p \in 1..L /\ Expanded(p) /\ c \in Children(dag.nodes[stack[p].node])
    BY <1>5
  <2>2. \/ c < dag.n /\ state[c] = "done"
        \/ \E q \in 1..L : p < q /\ stack[q].node = c
        \/ /\ \A q \in 1..L : p < q => ~Expanded(q)
           /\ \E k \in DOMAIN todo : todo[k] = c
    BY <2>1, <1>0 DEF WalkInv, ChildrenAbove
  <2>3. CASE \E q \in 1..L : p < q /\ stack[q].node = c
    BY <2>3, <1>5
  <2>4. CASE /\ \A q \in 1..L : p < q => ~Expanded(q)
             /\ \E k \in DOMAIN todo : todo[k] = c
    <3>1. PICK k \in DOMAIN todo : todo[k] = c
      BY <2>4
    <3>2. CASE k = 1
      BY <3>1, <3>2, <2>1, <1>2, <1>5
    <3>3. CASE k # 1
      <4>1. \E m \in DOMAIN todo' : todo'[m] = c
        BY <3>1, <3>3, <1>2
      <4>2. \A q \in 1..(L + 1) : p < q => ~Expanded(q)'
        BY <2>4, <1>5
      <4> QED
        BY <4>1, <4>2
    <3> QED
      BY <3>2, <3>3
  <2> QED
    BY <2>2, <2>3, <2>4
<1>11. \A k \in DOMAIN todo : \E p \in 1..L :
          /\ Innermost(p, L + 1)
          /\ todo[k] \in Children(dag.nodes[stack[p].node])
  BY <1>0 DEF WalkInv, EntriesAreChildren
<1>12. EntriesAreChildren'
  <2>1. \A q \in 2..(L + 1) : \E p \in 1..(q - 1) :
           /\ Innermost(p, q)'
           /\ stack'[q].node \in Children(dag.nodes[stack'[p].node])
    <3> SUFFICES ASSUME NEW q \in 2..(L + 1)
                 PROVE  \E p \in 1..(q - 1) :
                           /\ Innermost(p, q)'
                           /\ stack'[q].node \in Children(dag.nodes[stack'[p].node])
      OBVIOUS
    <3>1. CASE q = L + 1
      <4>1. PICK p \in 1..L : /\ Innermost(p, L + 1)
                              /\ todo[1] \in Children(dag.nodes[stack[p].node])
        BY <1>2, <1>11
      <4>2. Innermost(p, q)'
        BY <3>1, <4>1, <1>5 DEF Innermost
      <4> QED
        BY <3>1, <4>1, <4>2, <1>2, <1>5
    <3>2. CASE q # L + 1
      <4>1. q \in 2..L
        BY <3>2
      <4>2. PICK p \in 1..(q - 1) : /\ Innermost(p, q)
                                    /\ stack[q].node \in Children(dag.nodes[stack[p].node])
        BY <4>1, <1>0 DEF WalkInv, EntriesAreChildren
      <4>3. Innermost(p, q)'
        BY <4>1, <4>2, <1>5 DEF Innermost
      <4> QED
        BY <4>1, <4>2, <4>3, <1>5
    <3> QED
      BY <3>1, <3>2
  <2>2. \A k \in DOMAIN todo' : \E p \in 1..(L + 1) :
           /\ Innermost(p, L + 2)'
           /\ todo'[k] \in Children(dag.nodes[stack'[p].node])
    <3> SUFFICES ASSUME NEW k \in DOMAIN todo'
                 PROVE  \E p \in 1..(L + 1) :
                           /\ Innermost(p, L + 2)'
                           /\ todo'[k] \in Children(dag.nodes[stack'[p].node])
      OBVIOUS
    <3>1. PICK p \in 1..L : /\ Innermost(p, L + 1)
                            /\ todo'[k] \in Children(dag.nodes[stack[p].node])
      BY <1>2, <1>11
    <3>2. Innermost(p, L + 2)'
      BY <3>1, <1>5 DEF Innermost
    <3> QED
      BY <3>1, <3>2, <1>5
  <2>3. Len(stack') + 1 = L + 2
    BY <1>4
  <2> QED
    BY <1>4, <1>7, <2>1, <2>2, <2>3 DEF EntriesAreChildren
<1>13. PathIsLinked'
  <2> SUFFICES ASSUME NEW p \in 1..(L + 1), Expanded(p)'
               PROVE  \/ \A q \in 1..(L + 1) : p < q => ~Expanded(q)'
                      \/ \E q \in 1..(L + 1) : Expanded(q)' /\ Innermost(p, q)'
    BY <1>4 DEF PathIsLinked
  <2>1. p \in 1..L /\ Expanded(p)
    BY <1>5
  <2>2. \/ \A q \in 1..L : p < q => ~Expanded(q)
        \/ \E q \in 1..L : Expanded(q) /\ Innermost(p, q)
    BY <2>1, <1>0 DEF WalkInv, PathIsLinked
  <2>3. CASE \A q \in 1..L : p < q => ~Expanded(q)
    BY <2>3, <1>5
  <2>4. CASE \E q \in 1..L : Expanded(q) /\ Innermost(p, q)
    <3>1. PICK q \in 1..L : Expanded(q) /\ Innermost(p, q)
      BY <2>4
    <3>2. Innermost(p, q)'
      BY <3>1, <1>5 DEF Innermost
    <3> QED
      BY <3>1, <3>2, <1>5
  <2> QED
    BY <2>2, <2>3, <2>4
<1>14. StartedIsDone'
  <2> SUFFICES ASSUME NEW j \in Nodes, j < start, state[j] # "done"
               PROVE  stack' # <<>> /\ stack'[1].node = j
    BY <1>1, <1>7 DEF StartedIsDone
  <2>1. stack[1].node = j
    BY DEF WalkInv, StartedIsDone
  <2>2. 1 \in 1..L /\ 1 \in DOMAIN stack'
    BY <1>4, <1>6
  <2>3. stack' # <<>>
    BY <2>2
  <2> QED
    BY <2>1, <2>2, <2>3, <1>5
<1> QED
  BY <1>8, <1>9, <1>10, <1>12, <1>13, <1>14 DEF WalkInv

LEMMA WalkInvStep == TypeOK /\ WalkInv /\ [WalkNext]_vars => WalkInv'
<1> SUFFICES ASSUME TypeOK, WalkInv, [WalkNext]_vars PROVE WalkInv'
  OBVIOUS
<1>1. CASE Prevalidate
  BY <1>1, PrevalidateStep
<1>2. CASE SkipStart
  BY <1>2, SkipStartStep
<1>3. CASE PushStart
  BY <1>3, PushStartStep
<1>4. CASE PopDone
  BY <1>4, PopDoneStep
<1>5. CASE Compute
  BY <1>5, ComputeStep
<1>6. CASE CycleError
  BY <1>6, ReturnStep DEF CycleError
<1>7. CASE Expand
  BY <1>7, ExpandStep
<1>8. CASE BadChild
  BY <1>8, ReturnStep DEF BadChild
<1>9. CASE SkipChild
  BY <1>9, SkipChildStep
<1>10. CASE PushChild
  BY <1>10, PushChildStep
<1>11. CASE Finish
  <2>1. PICK outcome : outcome # "none" /\ Return(outcome)
    <3> DEFINE verdict == CASE ValueRootMissing -> "MissingInput"
                          [] ~ValueRootMissing /\ IndexRootMissing -> "IndexSourceInvalid"
                          [] OTHER -> "ok"
    <3>1. verdict # "none"
      OBVIOUS
    <3> QED
      BY <1>11, <3>1 DEF Finish
  <2> QED
    BY <2>1, ReturnStep
<1>12. CASE UNCHANGED vars
  <2>1. ReturnedOrValid'
    BY <1>12 DEF vars, specVars, walkVars, WalkInv, ReturnedOrValid
  <2>2. StartedIsDone'
    BY <1>12 DEF vars, specVars, walkVars, WalkInv, StartedIsDone, Nodes
  <2> QED
    BY <1>12, <2>1, <2>2, QuietStep DEF vars, specVars, walkVars
<1> QED
  BY <1>1, <1>2, <1>3, <1>4, <1>5, <1>6, <1>7, <1>8, <1>9, <1>10, <1>11, <1>12
     DEF WalkNext

\* The inductive invariant of the worklist holds for every recipe: what is done,
\* active or waiting in eval_recipe's state and stack stays consistent.
THEOREM WalkInvariant == WalkSpec => []WalkInv
<1>1. WalkInit => TypeOK /\ WalkInv
  BY TypeInit, WalkInvInit
<1>2. TypeOK /\ WalkInv /\ [WalkNext]_vars => TypeOK' /\ WalkInv'
  BY TypeStep, WalkInvStep
<1> QED
  BY <1>1, <1>2, PTL DEF WalkSpec

\* Post-order for every recipe: compute_node never meets a child, of the value or
\* of the index lane, that is not memoized yet.
THEOREM WalkOperandsReady == WalkSpec => []OperandsReady
<1>1. TypeOK /\ WalkInv => OperandsReady
  BY TopChildrenDone DEF OperandsReady
<1> QED
  BY <1>1, WalkTypeOK, WalkInvariant, PTL

-----------------------------------------------------------------------------
(***************************************************************************)
(* Every step of the walk is a step of the order-free specification, and   *)
(* the verdict returned is true of the recipe.                             *)
(***************************************************************************)

LEMMA InnermostIsUnique ==
  ASSUME NEW q \in Nat, NEW a \in Nat, NEW b \in Nat, Innermost(a, q), Innermost(b, q)
  PROVE  a = b
<1>1. \A k \in Nat : a < k /\ k < q => ~Expanded(k)
  BY DEF Innermost
<1>2. \A k \in Nat : b < k /\ k < q => ~Expanded(k)
  BY DEF Innermost
<1> QED
  BY <1>1, <1>2 DEF Innermost

\* The nodes of the expanded entries from p on, where p is the entry of the node
\* met again, each read another one of them.
LEMMA ActiveAgainIsCyclic ==
  ASSUME TypeOK, WalkInv, Pops, state[Top.node] = "active", ~Top.expanded
  PROVE  ~Acyclic(dag)
<1>0. PICK L \in Nat : /\ L = Len(stack) /\ L # 0 /\ DOMAIN stack = 1..L
                       /\ Top = stack[L] /\ Top.node \in Nodes
  BY PopPositions
<1>1. \A q \in 1..L : stack[q].node \in Nodes
  <2>1. stack \in Seq([node : Nodes, expanded : BOOLEAN])
    BY DEF TypeOK
  <2>2. \A q \in 1..L : stack[q] \in [node : Nodes, expanded : BOOLEAN]
    BY <2>1, <1>0, ElementOfSeq
  <2> QED
    BY <2>2
<1>2. ~Expanded(L)
  BY <1>0 DEF Expanded
<1>3. PICK p \in 1..L : Expanded(p) /\ stack[p].node = Top.node
  BY <1>0 DEF WalkInv, ActiveIsExpanded
<1> DEFINE onCycle(q) == q \in 1..L /\ p <= q /\ Expanded(q)
           S == {i \in Nodes : \E q \in 1..L : onCycle(q) /\ stack[q].node = i}
<1>4. S \in SUBSET Nodes /\ S # {} /\ Top.node \in S
  BY <1>0, <1>3
<1>5. \A q \in 2..L : \A r \in 1..L :
         Innermost(r, q) => stack[q].node \in Children(dag.nodes[stack[r].node])
  <2> SUFFICES ASSUME NEW q \in 2..L, NEW r \in 1..L, Innermost(r, q)
               PROVE  stack[q].node \in Children(dag.nodes[stack[r].node])
    OBVIOUS
  <2>1. PICK o \in 1..(q - 1) : /\ Innermost(o, q)
                                /\ stack[q].node \in Children(dag.nodes[stack[o].node])
    BY <1>0 DEF WalkInv, EntriesAreChildren
  <2>2. o = r
    BY <2>1, InnermostIsUnique
  <2> QED
    BY <2>1, <2>2
<1>6. ASSUME NEW i \in S
      PROVE  Children(dag.nodes[i]) \cap S # {}
  <2>1. PICK q \in 1..L : onCycle(q) /\ stack[q].node = i
    BY <1>6
  <2>2. q < L
    BY <2>1, <1>2
  <2>3. \/ \A r \in 1..L : q < r => ~Expanded(r)
        \/ \E r \in 1..L : Expanded(r) /\ Innermost(q, r)
    BY <2>1, <1>0 DEF WalkInv, PathIsLinked
  <2>4. CASE \A r \in 1..L : q < r => ~Expanded(r)
    <3>1. Innermost(q, L)
      BY <2>1, <2>2, <2>4 DEF Innermost
    <3>2. Top.node \in Children(dag.nodes[i])
      BY <3>1, <2>1, <2>2, <1>0, <1>5
    <3> QED
      BY <3>2, <1>4
  <2>5. CASE \E r \in 1..L : Expanded(r) /\ Innermost(q, r)
    <3>1. PICK r \in 1..L : Expanded(r) /\ Innermost(q, r)
      BY <2>5
    <3>2. q < r
      BY <3>1 DEF Innermost
    <3>3. stack[r].node \in Children(dag.nodes[i])
      BY <3>1, <3>2, <2>1, <1>5
    <3>4. stack[r].node \in S
      BY <3>1, <3>2, <2>1, <1>1
    <3> QED
      BY <3>3, <3>4
  <2> QED
    BY <2>3, <2>4, <2>5
<1> HIDE DEF S
<1> QED
  BY <1>4, <1>6 DEF Acyclic, Nodes

\* At the end of the outer loop every node is memoized, and nothing is cyclic.
LEMMA IdleAtEnd ==
  ASSUME TypeOK, WalkInv, Idle, start = dag.n
  PROVE  (\A i \in Nodes : Computed(i)) /\ Acyclic(dag)
<1>1. dag.n \in Nat
  BY DagFacts DEF TypeOK
<1>2. \A i \in Nodes : state[i] = "done"
  BY <1>1 DEF WalkInv, StartedIsDone, Idle, Nodes
<1>3. \A i \in Nodes : Computed(i)
  BY <1>2 DEF WalkInv, MemoIsDone
<1>4. {i \in Nodes : state[i] = "done"} = Nodes
  BY <1>2
<1>5. Acyclic(dag)
  BY <1>4 DEF WalkInv, DoneIsAcyclic, Acyclic, Nodes
<1> QED
  BY <1>3, <1>5

\* A turn of a loop leaves the memos and the result alone, evaluates a node that
\* is ready, declines for a reason, or succeeds with everything evaluated.
LEMMA StepCases ==
  ASSUME TypeOK, WalkInv, WalkNext
  PROVE  /\ result = "none"
         /\ \/ UNCHANGED specVars
            \/ \E i \in Nodes : Evaluate(i)
            \/ \E error \in Results \ {"none", "ok"} :
                  /\ Justified(error) /\ result' = error
                  /\ UNCHANGED <<dag, memo>>
            \/ Succeed /\ Acyclic(dag)
<1> DEFINE declines(error) == /\ Justified(error) /\ result' = error
                              /\ UNCHANGED <<dag, memo>>
           errors == Results \ {"none", "ok"}
<1>1. /\ pc # "done" => result = "none"
      /\ pc = "walk" => IndexLaneValid(dag)
  BY DEF TypeOK, WalkInv, ReturnedOrValid
<1>2. pc # "done"
  BY DEF WalkNext, Prevalidate, SkipStart, PushStart, PopDone, Compute, CycleError,
         Expand, BadChild, SkipChild, PushChild, Finish, Idle, Pops
<1>3. dag \in Dags /\ dag.n \in Nat
  BY DagFacts DEF TypeOK
<1>4. {"IndexSourceInvalid", "MissingInput", "BadDecomposition", "NodeError"} = errors
  BY DEF Results
<1>5. ASSUME NEW error \in errors, Return(error), Justified(error)
      PROVE  \E e \in errors : declines(e)
  BY <1>5 DEF Return
<1>6. CASE Prevalidate
  <2>1. CASE ~IndexLaneValid(dag) /\ Return("IndexSourceInvalid")
    <3>1. Justified("IndexSourceInvalid")
      BY <2>1 DEF Justified
    <3> QED
      BY <2>1, <3>1, <1>1, <1>2, <1>4, <1>5
  <2> QED
    BY <1>1, <1>2, <1>6, <2>1 DEF Prevalidate
<1>7. CASE SkipStart \/ PushStart \/ PopDone \/ Expand \/ SkipChild \/ PushChild
  <2>1. UNCHANGED specVars
    BY <1>7 DEF SkipStart, PushStart, PopDone, Expand, SkipChild, PushChild
  <2> QED
    BY <2>1, <1>1, <1>2
<1>8. CASE Compute
  <2> DEFINE i == Top.node
  <2>1. Pops /\ Top.expanded /\ pc = "walk"
    BY <1>8 DEF Compute, Pops
  <2>2. /\ state[i] = "active" /\ OperandsMemoized(i)
        /\ \A c \in Children(dag.nodes[i]) : c < dag.n /\ state[c] = "done"
    BY <2>1, TopChildrenDone
  <2>3. i \in Nodes
    BY <2>1, PopPositions
  <2>4. Ready(i)
    <3>1. ~Computed(i)
      BY <2>2, <2>3 DEF WalkInv, MemoIsDone
    <3>2. \A c \in Children(dag.nodes[i]) : c \in Nodes
      BY <2>2, <2>3, <1>3, ChildrenFacts DEF Nodes
    <3>3. \A c \in Children(dag.nodes[i]) : Computed(c)
      BY <2>2, <3>2 DEF WalkInv, MemoIsDone
    <3> QED
      BY <2>2, <3>1, <3>3 DEF Ready
  <2>5. CASE Return("NodeError")
    <3>1. Justified("NodeError")
      BY <2>3, <2>4 DEF Justified
    <3> QED
      BY <2>5, <3>1, <1>1, <1>2, <1>4, <1>5
  <2>6. CASE /\ memo' = [memo EXCEPT ![i] = NodeDet(dag.nodes[i], memo)]
             /\ UNCHANGED <<dag, result>>
    BY <2>1, <2>3, <2>4, <2>6, <1>1, <1>2 DEF Evaluate
  <2> QED
    BY <1>8, <2>2, <2>5, <2>6 DEF Compute
<1>9. CASE CycleError
  <2>1. Justified("BadDecomposition")
    BY <1>9, ActiveAgainIsCyclic DEF CycleError, Justified
  <2> QED
    BY <1>9, <2>1, <1>1, <1>2, <1>4, <1>5 DEF CycleError
<1>10. CASE BadChild
  <2>1. Head(todo) = todo[1] /\ 1 \in DOMAIN todo
    BY <1>10, ScanFacts DEF BadChild
  <2>2. PICK p \in DOMAIN stack : todo[1] \in Children(dag.nodes[stack[p].node])
    BY <2>1 DEF WalkInv, EntriesAreChildren
  <2>3. stack[p].node \in Nodes
    <3>1. /\ stack \in Seq([node : Nodes, expanded : BOOLEAN])
          /\ p \in 1..Len(stack)
      BY <2>2, LenProperties DEF TypeOK
    <3>2. stack[p] \in [node : Nodes, expanded : BOOLEAN]
      BY <3>1, ElementOfSeq
    <3> QED
      BY <3>2
  <2>4. Justified("MissingInput")
    BY <1>10, <2>1, <2>2, <2>3 DEF BadChild, Justified, ChildOutOfRange
  <2> QED
    BY <1>10, <2>4, <1>1, <1>2, <1>4, <1>5 DEF BadChild
<1>11. CASE Finish
  <2>1. /\ \A i \in Nodes : Computed(i)
        /\ Acyclic(dag) /\ IndexLaneValid(dag)
    BY <1>1, <1>11, IdleAtEnd DEF Finish, Idle
  <2>2. /\ \A k \in DOMAIN dag.outputs : dag.outputs[k] \in Nat
        /\ \A k \in DOMAIN dag.indexOutputs : dag.indexOutputs[k] \in Nat
    BY <1>3, DagFacts, ElementOfSeq, LenProperties
  <2>3. CASE ValueRootMissing
    <3>1. OutputOutOfRange
      BY <2>1, <2>2, <2>3, <1>3 DEF ValueRootMissing, Memoized, OutputOutOfRange, Nodes
    <3>2. Justified("MissingInput")
      BY <3>1 DEF Justified
    <3>3. Return("MissingInput")
      BY <1>11, <2>3 DEF Finish
    <3> QED
      BY <3>2, <3>3, <1>1, <1>2, <1>4, <1>5
  <2>4. ~IndexRootMissing
    <3> SUFFICES ASSUME NEW k \in DOMAIN dag.indexOutputs
                 PROVE  IndexMemoized(dag.indexOutputs[k])
      BY DEF IndexRootMissing
    <3> DEFINE m == dag.indexOutputs[k]
    <3>1. m < dag.n /\ HasIndexLane(dag.nodes[m])
      BY <2>1 DEF IndexLaneValid, ValidIndexSource
    <3>2. m \in Nodes
      BY <3>1, <2>2, <1>3 DEF Nodes
    <3> QED
      BY <3>1, <3>2, <2>1 DEF WalkInv, MemoIsDone, IndexMemoized
  <2>5. CASE ~ValueRootMissing
    <3>1. Return("ok")
      BY <1>11, <2>4, <2>5 DEF Finish
    <3>2. ~OutputOutOfRange
      BY <2>2, <2>5, <1>3 DEF OutputOutOfRange, ValueRootMissing, Memoized
    <3> QED
      BY <3>1, <3>2, <2>1, <1>1, <1>2 DEF Return, Succeed
  <2> QED
    BY <2>3, <2>5
<1> QED
  BY <1>6, <1>7, <1>8, <1>9, <1>10, <1>11 DEF WalkNext

\* Refinement: the worklist, whatever the recipe, only ever does what the
\* order-free specification of the evaluator allows.
THEOREM WalkImplementsSpec == WalkSpec => ImplementsSpec
<1>1. WalkInit => Init
  BY DEF WalkInit
<1>2. TypeOK /\ WalkInv /\ [WalkNext]_vars => [Next]_specVars
  <2>1. ASSUME TypeOK, WalkInv, WalkNext PROVE [Next]_specVars
    BY <2>1, StepCases DEF Next, Decline
  <2> QED
    BY <2>1 DEF vars
<1> QED
  BY <1>1, <1>2, WalkTypeOK, WalkInvariant, PTL DEF WalkSpec, ImplementsSpec, Spec

\* The verdicts of eval_recipe are true of every recipe: BadDecomposition is only
\* returned for a cycle, MissingInput only for a reference out of range,
\* IndexSourceInvalid only for a bad index source, and Ok only when every node of
\* an acyclic recipe was evaluated.
THEOREM WalkVerdicts == WalkSpec => [](VerdictSound /\ DeclinesNameTheFault)
<1> DEFINE Safe == VerdictSound /\ DeclinesNameTheFault
<1>1. WalkInit => Safe
  BY DEF WalkInit, Init, VerdictSound, DeclinesNameTheFault
<1>2. TypeOK /\ WalkInv /\ Safe /\ [WalkNext]_vars => Safe'
  <2> SUFFICES ASSUME TypeOK, WalkInv, Safe, [WalkNext]_vars PROVE Safe'
    OBVIOUS
  <2>1. CASE UNCHANGED specVars
    BY <2>1 DEF specVars, VerdictSound, DeclinesNameTheFault, Nodes, Computed,
                ChildOutOfRange, OutputOutOfRange
  <2>2. CASE WalkNext
    <3>1. CASE \E i \in Nodes : Evaluate(i)
      BY <3>1, <2>2, StepCases DEF Evaluate, VerdictSound, DeclinesNameTheFault
    <3>2. CASE \E error \in Results \ {"none", "ok"} :
                 /\ Justified(error) /\ result' = error
                 /\ UNCHANGED <<dag, memo>>
      BY <3>2 DEF Justified, VerdictSound, DeclinesNameTheFault, Nodes,
                  ChildOutOfRange, OutputOutOfRange
    <3>3. CASE Succeed /\ Acyclic(dag)
      BY <3>3 DEF Succeed, VerdictSound, DeclinesNameTheFault, Nodes, Computed
    <3> QED
      BY <2>1, <2>2, <3>1, <3>2, <3>3, StepCases
  <2> QED
    BY <2>1, <2>2 DEF vars
<1> QED
  BY <1>1, <1>2, WalkTypeOK, WalkInvariant, PTL DEF WalkSpec

-----------------------------------------------------------------------------
(***************************************************************************)
(* The worklist is no longer than the edges out of the active nodes.       *)
(***************************************************************************)
LEMMA EdgesStep ==
  TypeOK /\ WaitsForItsEdges /\ [WalkNext]_vars => WaitsForItsEdges'
<1> SUFFICES ASSUME TypeOK, WaitsForItsEdges, [WalkNext]_vars PROVE WaitsForItsEdges'
  OBVIOUS
<1> DEFINE Edges(i) == Len(ChildrenOf(dag.nodes[i]))
<1>0. PICK L \in Nat : L = Len(stack) /\ DOMAIN stack = 1..L
  BY LenProperties DEF TypeOK
<1>1. PICK M \in Nat : M = Len(todo)
  BY LenProperties DEF TypeOK
<1>2. dag' = dag
  BY DEF WalkNext, Prevalidate, SkipStart, PushStart, PopDone, Compute, CycleError, Expand,
         BadChild, SkipChild, PushChild, Finish, Return, vars, specVars
<1>3. /\ \A p, q \in 1..L : Innermost(p, q) => q - p <= Edges(stack[p].node)
      /\ \A p \in 1..L : Innermost(p, L + 1) => L - p + M <= Edges(stack[p].node)
  BY <1>0, <1>1 DEF WaitsForItsEdges
<1>4. \A i \in Nodes : Edges(i) \in Nat
  BY ChildrenFacts DEF TypeOK
<1>5. \A p \in 1..L : stack[p].node \in Nodes
  <2>1. \A p \in 1..L : stack[p] \in [node : Nodes, expanded : BOOLEAN]
    BY <1>0, ElementOfSeq DEF TypeOK
  <2> QED
    BY <2>1
<1> HIDE DEF Edges
<1>6. CASE UNCHANGED <<stack, todo>>
  BY <1>2, <1>6 DEF WaitsForItsEdges, Innermost, Expanded
<1>7. CASE PushStart
  <2>1. stack = <<>> /\ start \in Nodes /\ stack' = <<Entry(start, FALSE)>>
    BY <1>7, DagFacts DEF PushStart, Idle, TypeOK, Nodes
  <2>2. DOMAIN stack' = 1..1 /\ Len(stack') = 1 /\ ~stack'[1].expanded
    BY <2>1 DEF Entry
  <2> QED
    BY <2>2 DEF WaitsForItsEdges, Innermost, Expanded
<1>8. CASE Pops /\ stack' = Popped /\ todo' = todo
  <2>1. /\ L # 0 /\ Len(stack') = L - 1 /\ DOMAIN stack' = 1..(L - 1)
        /\ \A k \in 1..(L - 1) : stack'[k] = stack[k]
        /\ todo = <<>>
    BY <1>0, <1>8, PopPositions
  <2>2. Len(todo') = 0
    BY <1>8, <2>1
  <2> SUFFICES ASSUME NEW p \in 1..(L - 1)
               PROVE  /\ \A q \in 1..(L - 1) : Innermost(p, q)' => q - p <= Edges(stack[p].node)
                      /\ Innermost(p, L)' => L - 1 - p <= Edges(stack[p].node)
    BY <1>0, <1>2, <2>1, <2>2 DEF WaitsForItsEdges, Edges
  <2>3. \A q \in 1..L : Innermost(p, q)' => Innermost(p, q)
    BY <1>0, <2>1 DEF Innermost, Expanded
  <2> QED
    BY <1>0, <1>3, <1>4, <1>5, <2>1, <2>3
<1>9. CASE Expand
  <2>1. /\ L # 0 /\ Top = stack[L] /\ Top.node \in Nodes
        /\ Popped \in Seq([node : Nodes, expanded : BOOLEAN])
        /\ Len(Popped) = L - 1 /\ \A k \in 1..(L - 1) : Popped[k] = stack[k]
    BY <1>0, <1>9, PopPositions DEF Expand
  <2>2. stack' = Append(Popped, Entry(Top.node, TRUE)) /\ Len(todo') = Edges(Top.node)
    BY <1>9 DEF Expand, Edges
  <2>3. Entry(Top.node, TRUE) \in [node : Nodes, expanded : BOOLEAN]
    BY <2>1 DEF Entry
  <2>4. /\ Len(stack') = L /\ \A k \in 1..(L - 1) : stack'[k] = stack[k]
        /\ stack'[L] = Entry(Top.node, TRUE)
    <3> DEFINE Entries == [node : Nodes, expanded : BOOLEAN]
               e == Entry(Top.node, TRUE)
    <3>1. Popped \in Seq(Entries) /\ e \in Entries /\ stack' = Append(Popped, e)
      BY <2>1, <2>2, <2>3
    <3> HIDE DEF Entries, e
    <3>2. /\ Len(stack') = (L - 1) + 1 /\ \A k \in 1..(L - 1) : stack'[k] = Popped[k]
          /\ stack'[(L - 1) + 1] = e
      BY <2>1, <3>1, PushedFacts
    <3>3. (L - 1) + 1 = L
      BY <1>0
    <3> QED
      BY <2>1, <3>2, <3>3 DEF e
  <2>5. DOMAIN stack' = 1..L
    <3>1. stack' \in Seq([node : Nodes, expanded : BOOLEAN])
      BY <2>1, <2>2, <2>3, PushedFacts
    <3> QED
      BY <2>4, <3>1, LenProperties
  <2>6. stack'[L].node = Top.node /\ stack'[L].expanded
    BY <2>4 DEF Entry
  <2> SUFFICES ASSUME NEW p \in 1..L
               PROVE  /\ \A q \in 1..L : Innermost(p, q)' => q - p <= Edges(stack'[p].node)
                      /\ Innermost(p, L + 1)' =>
                           L - p + Edges(Top.node) <= Edges(stack'[p].node)
    BY <1>0, <1>2, <2>2, <2>4, <2>5 DEF WaitsForItsEdges, Edges
  <2>7. \A q \in 1..L : Innermost(p, q)' => Innermost(p, q) /\ stack'[p] = stack[p]
    BY <1>0, <2>1, <2>4 DEF Innermost, Expanded
  <2>8. Innermost(p, L + 1)' => p = L
    BY <1>0, <2>1, <2>6 DEF Innermost, Expanded
  <2> QED
    BY <1>3, <1>4, <2>1, <2>6, <2>7, <2>8
<1>10. CASE SkipChild
  <2>1. M # 0 /\ Len(todo') = M - 1 /\ stack' = stack
    BY <1>1, <1>10, EmptySeq, HeadTailProperties DEF SkipChild, TypeOK
  <2>2. \A p, q : Innermost(p, q)' <=> Innermost(p, q)
    BY <2>1 DEF Innermost, Expanded
  <2> SUFFICES ASSUME NEW p \in 1..L, Innermost(p, L + 1)
               PROVE  L - p + (M - 1) <= Edges(stack[p].node)
    BY <1>0, <1>2, <1>3, <2>1, <2>2 DEF WaitsForItsEdges, Edges
  <2>3. L - p + M <= Edges(stack[p].node) /\ Edges(stack[p].node) \in Nat
    BY <1>3, <1>4, <1>5
  <2> QED
    BY <1>0, <1>1, <2>3
<1>11. CASE PushChild
  <2>1. /\ M # 0 /\ Len(todo') = M - 1
        /\ stack' = Append(stack, Entry(Head(todo), FALSE)) /\ Head(todo) \in Nat
        /\ Head(todo) < dag.n
    BY <1>1, <1>11, ScanFacts, EmptySeq, HeadTailProperties DEF PushChild, TypeOK
  <2>2. Entry(Head(todo), FALSE) \in [node : Nodes, expanded : BOOLEAN]
    BY <2>1, DagFacts DEF Entry, TypeOK, Nodes
  <2>3. /\ Len(stack') = L + 1 /\ \A k \in 1..L : stack'[k] = stack[k]
        /\ stack'[L + 1] = Entry(Head(todo), FALSE)
        /\ stack' \in Seq([node : Nodes, expanded : BOOLEAN])
    <3> DEFINE Entries == [node : Nodes, expanded : BOOLEAN]
               e == Entry(Head(todo), FALSE)
    <3>1. stack \in Seq(Entries) /\ e \in Entries /\ stack' = Append(stack, e)
      BY <2>1, <2>2 DEF TypeOK
    <3> HIDE DEF Entries, e
    <3>2. /\ Len(stack') = L + 1 /\ \A k \in 1..L : stack'[k] = stack[k]
          /\ stack'[L + 1] = e /\ stack' \in Seq(Entries)
      BY <1>0, <3>1, PushedFacts
    <3> QED
      BY <3>2 DEF e, Entries
  <2>4. DOMAIN stack' = 1..(L + 1) /\ ~stack'[L + 1].expanded
    BY <2>3, LenProperties DEF Entry
  <2>5. \A p, q \in 1..(L + 1) : Innermost(p, q)' => p \in 1..L /\ Innermost(p, q)
    BY <1>0, <2>3, <2>4 DEF Innermost, Expanded
  <2>6. \A p \in 1..(L + 1) : Innermost(p, L + 2)' => p \in 1..L /\ Innermost(p, L + 1)
    <3> SUFFICES ASSUME NEW p \in 1..(L + 1), Innermost(p, L + 2)'
                 PROVE  p \in 1..L /\ Innermost(p, L + 1)
      OBVIOUS
    <3>1. stack'[p].expanded /\ \A k \in (p + 1)..(L + 1) : ~stack'[k].expanded
      <4>1. (L + 2) - 1 = L + 1
        BY <1>0
      <4> QED
        BY <4>1 DEF Innermost, Expanded
    <3>2. p \in 1..L
      BY <1>0, <2>4, <3>1
    <3>3. \A k \in (p + 1)..L : ~stack[k].expanded
      BY <1>0, <2>3, <3>1, <3>2
    <3>4. stack[p].expanded
      BY <2>3, <3>1, <3>2
    <3>5. (L + 1) - 1 = L /\ p < L + 1
      BY <1>0, <3>2
    <3> QED
      BY <3>2, <3>3, <3>4, <3>5 DEF Innermost, Expanded
  <2>7. \A p \in 1..L : Innermost(p, L + 1) =>
           /\ (L + 1) - p <= Edges(stack[p].node)
           /\ (L + 1) - p + (M - 1) <= Edges(stack[p].node)
    BY <1>0, <1>1, <1>3, <1>4, <1>5, <2>1
  <2>8. ASSUME NEW p \in 1..(L + 1)
        PROVE  /\ \A q \in 1..(L + 1) : Innermost(p, q)' => q - p <= Edges(stack'[p].node)
               /\ Innermost(p, L + 2)' => (L + 1) - p + (M - 1) <= Edges(stack'[p].node)
    <3>1. ASSUME NEW q \in 1..(L + 1), Innermost(p, q)'
          PROVE  q - p <= Edges(stack'[p].node)
      <4>1. p \in 1..L /\ Innermost(p, q) /\ stack'[p] = stack[p]
        BY <2>3, <2>5, <3>1
      <4>2. CASE q = L + 1
        BY <2>7, <4>1, <4>2
      <4>3. CASE q \in 1..L
        BY <1>3, <4>1, <4>3
      <4> QED
        BY <1>0, <4>2, <4>3
    <3>2. ASSUME Innermost(p, L + 2)'
          PROVE  (L + 1) - p + (M - 1) <= Edges(stack'[p].node)
      BY <2>3, <2>6, <2>7, <3>2
    <3> QED
      BY <3>1, <3>2
  <2>9. (L + 1) + 1 = L + 2
    BY <1>0
  <2> QED
    BY <1>2, <2>1, <2>3, <2>4, <2>8, <2>9 DEF WaitsForItsEdges, Edges
<1> QED
  <2>1. \/ UNCHANGED <<stack, todo>> \/ PushStart
        \/ Pops /\ stack' = Popped /\ todo' = todo
        \/ Expand \/ SkipChild \/ PushChild
    BY DEF WalkNext, Prevalidate, SkipStart, PopDone, Compute, CycleError, BadChild, Finish,
           Return, vars, walkVars
  <2> QED
    BY <1>6, <1>7, <1>8, <1>9, <1>10, <1>11, <2>1

\* Each entry above the first stands for an edge of its own: the place it has above the
\* innermost expanded entry below it.
LEMMA EntriesAreEdges ==
  ASSUME TypeOK, WalkInv, WaitsForItsEdges
  PROVE  HeapBound
<1> DEFINE Active == {j \in Nodes : state[j] = "active"}
           Slots == {EdgesOut(i) : i \in Active}
<1>0. PICK L \in Nat : L = Len(stack) /\ DOMAIN stack = 1..L
  BY LenProperties DEF TypeOK
<1>1. \A p \in 1..L : stack[p].node \in Nodes
  <2>1. \A p \in 1..L : stack[p] \in [node : Nodes, expanded : BOOLEAN]
    BY <1>0, ElementOfSeq DEF TypeOK
  <2> QED
    BY <2>1
<1>2. \A i \in Nodes : /\ Len(ChildrenOf(dag.nodes[i])) \in Nat
                       /\ DOMAIN ChildrenOf(dag.nodes[i]) = 1..Len(ChildrenOf(dag.nodes[i]))
  BY ChildrenFacts DEF TypeOK
<1>3. IsFiniteSet(OpenEdges)
  <2>1. IsFiniteSet(Active)
    <3> DEFINE last == dag.n - 1
    <3>1. last \in Int /\ 0 \in Int /\ Nodes = 0..last
      BY DagFacts DEF TypeOK, Nodes
    <3> HIDE DEF last
    <3>2. IsFiniteSet(Nodes)
      BY <3>1, FS_Interval
    <3> QED
      BY <3>2, FS_Subset
  <2>2. IsFiniteSet(Slots)
    <3> DEFINE out == [i \in Active |-> EdgesOut(i)]
    <3> HIDE DEF Active
    <3>1. out \in [Active -> Slots] /\ \A T \in Slots : \E i \in Active : out[i] = T
      OBVIOUS
    <3> HIDE DEF Slots, out
    <3>2. out \in Surjection(Active, Slots)
      BY <3>1 DEF Surjection
    <3> QED
      BY <2>1, <3>2, FS_Surjection
  <2>3. \A i \in Active : IsFiniteSet(EdgesOut(i))
    <3> TAKE i \in Active
    <3>1. IsFiniteSet(DOMAIN ChildrenOf(dag.nodes[i]))
      BY <1>2, FS_Interval
    <3> QED
      BY <3>1, FS_Singleton, FS_Product DEF EdgesOut
  <2> HIDE DEF Active
  <2>4. \A T \in Slots : IsFiniteSet(T)
    BY <2>3
  <2> HIDE DEF Slots
  <2>5. IsFiniteSet(UNION Slots)
    BY <2>2, <2>4, FS_UNION
  <2> QED
    BY <2>5 DEF OpenEdges, Slots, Active
<1>4. \A q \in 2..L : \E p \in 1..(q - 1) : Innermost(p, q)
  BY <1>0 DEF WalkInv, EntriesAreChildren
<1> DEFINE below(q) == CHOOSE p \in 1..(q - 1) : Innermost(p, q)
           edge == [q \in 2..L |-> <<stack[below(q)].node, q - below(q)>>]
<1>5. \A q \in 2..L : /\ below(q) \in 1..L /\ below(q) < q /\ Innermost(below(q), q)
                     /\ q \in 1..L
  BY <1>0, <1>4
<1> HIDE DEF below
<1>6. ASSUME NEW q \in 2..L
      PROVE  edge[q] \in OpenEdges
  <2> DEFINE p == below(q)
             i == stack[p].node
  <2>1. p \in 1..L /\ q \in 1..L /\ p < q /\ Innermost(p, q)
    BY <1>5
  <2> HIDE DEF p
  <2>2. q - p \in 1..Len(ChildrenOf(dag.nodes[i]))
    <3>1. q - p <= Len(ChildrenOf(dag.nodes[i]))
      BY <1>0, <2>1 DEF WaitsForItsEdges
    <3> QED
      BY <1>0, <1>1, <1>2, <2>1, <3>1
  <2>3. i \in Nodes /\ state[i] = "active"
    <3>1. Expanded(p)
      BY <2>1 DEF Innermost
    <3> QED
      BY <1>0, <1>1, <2>1, <3>1 DEF WalkInv, ActiveIsExpanded
  <2>4. <<i, q - p>> \in EdgesOut(i)
    BY <1>2, <2>2, <2>3 DEF EdgesOut
  <2>5. EdgesOut(i) \in {EdgesOut(j) : j \in {k \in Nodes : state[k] = "active"}}
    BY <2>3
  <2>6. edge[q] = <<i, q - p>>
    BY DEF p
  <2> QED
    BY <2>4, <2>5, <2>6 DEF OpenEdges
<1>7. ASSUME NEW a \in 2..L, NEW b \in 2..L, edge[a] = edge[b]
      PROVE  a = b
  <2>1. stack[below(a)].node = stack[below(b)].node /\ a - below(a) = b - below(b)
    BY <1>7
  <2>2. /\ below(a) \in 1..L /\ below(b) \in 1..L
        /\ Expanded(below(a)) /\ Expanded(below(b))
    BY <1>5 DEF Innermost
  <2>3. below(a) = below(b)
    BY <1>0, <2>1, <2>2 DEF WalkInv, ActiveIsExpanded
  <2> QED
    BY <1>0, <2>1, <2>2, <2>3
<1>8. edge \in Injection(2..L, OpenEdges)
  <2>1. edge \in [2..L -> OpenEdges]
    BY <1>6
  <2> HIDE DEF edge
  <2> QED
    BY <1>7, <2>1 DEF Injection, IsInjective
<1>9. Cardinality(2..L) <= Cardinality(OpenEdges) /\ Cardinality(OpenEdges) \in Nat
  BY <1>3, <1>8, FS_Injection, FS_CardinalityType
<1>10. Cardinality(2..L) = IF 2 > L THEN 0 ELSE (L - 2) + 1
  <2>1. 2 \in Int /\ L \in Int
    BY <1>0
  <2> QED
    BY <2>1, FS_Interval
<1> QED
  BY <1>0, <1>9, <1>10 DEF HeapBound

\* The heap of the worklist is bounded for every recipe: at no time does eval_recipe's stack
\* hold more than one entry per edge out of a node it is in the middle of, and the start.
THEOREM WalkHeapBound == WalkSpec => []HeapBound
<1>1. WalkInit => WaitsForItsEdges
  BY DEF WalkInit, WaitsForItsEdges
<1>2. TypeOK /\ WaitsForItsEdges /\ [WalkNext]_vars => WaitsForItsEdges'
  BY EdgesStep
<1>3. TypeOK /\ WalkInv /\ WaitsForItsEdges => HeapBound
  BY EntriesAreEdges
<1> QED
  BY <1>1, <1>2, <1>3, WalkTypeOK, WalkInvariant, PTL DEF WalkSpec

-----------------------------------------------------------------------------
(***************************************************************************)
(* The memoized classes.                                                   *)
(***************************************************************************)

\* The class of a node is that of its operation and of the nodes it reads.
LEMMA NodeDetReadsOperands ==
  ASSUME NEW node \in Node, NEW classes, NEW others,
         \A k \in DOMAIN node.kids : classes[node.kids[k]] = others[node.kids[k]],
         \A k \in DOMAIN node.index : classes[node.index[k]] = others[node.index[k]]
  PROVE  NodeDet(node, classes) = NodeDet(node, others)
<1>1. \A k : KidDet(node, classes, k) = KidDet(node, others, k)
  BY DEF KidDet, JoinedKids
<1>2. IndexDet(node, classes) = IndexDet(node, others)
  <2>1. CASE node.index = <<>>
    BY <2>1 DEF IndexDet
  <2>2. CASE node.index # <<>>
    <3>1. 1 \in DOMAIN node.index
      BY <2>2 DEF Node
    <3> QED
      BY <3>1, <2>2 DEF IndexDet
  <2> QED
    BY <2>1, <2>2
<1> QED
  BY <1>1, <1>2 DEF NodeDet

\* Each memoized class is the one its operands, as memoized, call for.
MemoIsNodeDet ==
  \A i \in Nodes : Computed(i) => memo[i] = NodeDet(dag.nodes[i], memo)

\* A step memoizes nothing, or one node all of whose operands are memoized already.
LEMMA MemoStep ==
  ASSUME TypeOK, WalkInv, [WalkNext]_vars
  PROVE  /\ dag' = dag /\ Nodes' = Nodes
         /\ \/ memo' = memo
            \/ \E i \in Nodes :
                 /\ Ready(i)
                 /\ memo' = [memo EXCEPT ![i] = NodeDet(dag.nodes[i], memo)]
                 /\ NodeDet(dag.nodes[i], memo) \in Det
<1>1. CASE UNCHANGED specVars
  BY <1>1 DEF specVars, Nodes
<1>2. CASE WalkNext
  <2>1. CASE \E i \in Nodes : Evaluate(i)
    <3>1. PICK i \in Nodes : Evaluate(i)
      BY <2>1
    <3>2. dag \in Dags /\ dag.n \in Nat /\ dag.nodes[i] \in Node
          /\ Len(dag.nodes[i].index) <= 1
      BY DagFacts DEF TypeOK
    <3>3. \A c \in Children(dag.nodes[i]) : c \in Nodes /\ Computed(c)
      BY <3>1, <3>2, ChildrenFacts DEF Evaluate, Ready, Nodes
    <3>4. \A c \in Children(dag.nodes[i]) : memo[c] \in Det
      BY <3>3 DEF TypeOK, Computed
    <3>5. NodeDet(dag.nodes[i], memo) \in Det
      BY <3>2, <3>4, ChildrenFacts, NodeDetType
    <3> QED
      BY <3>1, <3>5 DEF Evaluate, Nodes
  <2>2. CASE UNCHANGED specVars
    BY <2>2 DEF specVars, Nodes
  <2>3. CASE UNCHANGED <<dag, memo>>
    BY <2>3 DEF Nodes
  <2> QED
    BY <1>2, <2>1, <2>2, <2>3, StepCases DEF Succeed
<1> QED
  BY <1>1, <1>2 DEF vars

LEMMA MemoIsNodeDetStep ==
  ASSUME TypeOK, WalkInv, MemoIsNodeDet, [WalkNext]_vars
  PROVE  MemoIsNodeDet'
<1>1. CASE memo' = memo
  BY <1>1, MemoStep DEF MemoIsNodeDet, Computed
<1>2. CASE memo' # memo
  <2>1. PICK i \in Nodes : /\ Ready(i)
                           /\ memo' = [memo EXCEPT ![i] = NodeDet(dag.nodes[i], memo)]
    BY <1>2, MemoStep
  <2>2. dag \in Dags /\ dag.n \in Nat /\ memo \in [Nodes -> Det \cup {None}]
    BY DagFacts DEF TypeOK
  <2>3. memo'[i] = NodeDet(dag.nodes[i], memo) /\ \A j \in Nodes : j # i => memo'[j] = memo[j]
    BY <2>1, <2>2
  <2>4. ASSUME NEW j \in Nodes, j = i \/ Computed(j)
        PROVE  NodeDet(dag.nodes[j], memo') = NodeDet(dag.nodes[j], memo)
    <3>1. \A c \in Children(dag.nodes[j]) : c < dag.n /\ Computed(c)
      <4>1. CASE j = i
        BY <2>1, <4>1 DEF Ready
      <4>2. CASE j # i
        <5>1. \A c \in Children(dag.nodes[j]) : c < dag.n /\ state[c] = "done"
          BY <2>4, <4>2 DEF WalkInv, MemoIsDone, DoneIsClosed
        <5>2. \A c \in Children(dag.nodes[j]) : c \in Nodes
          BY <5>1, <2>2, ChildrenFacts DEF Nodes
        <5> QED
          BY <5>1, <5>2 DEF WalkInv, MemoIsDone
      <4> QED
        BY <4>1, <4>2, <2>4
    <3>2. \A c \in Children(dag.nodes[j]) : c \in Nodes /\ c # i
      BY <2>1, <2>2, <3>1, ChildrenFacts DEF Nodes, Ready
    <3>3. \A c \in Children(dag.nodes[j]) : memo'[c] = memo[c]
      BY <2>3, <3>2
    <3>4. dag.nodes[j] \in Node
      BY <2>2, DagFacts
    <3> QED
      BY <2>2, <3>3, <3>4, ChildrenFacts, NodeDetReadsOperands
  <2>5. ASSUME NEW j \in Nodes, Computed(j)'
        PROVE  memo'[j] = NodeDet(dag.nodes[j], memo')
    <3>1. CASE j = i
      BY <3>1, <2>3, <2>4
    <3>2. CASE j # i
      BY <3>2, <2>3, <2>4, <2>5 DEF Computed, MemoIsNodeDet
    <3> QED
      BY <3>1, <3>2
  <2>6. dag' = dag /\ Nodes' = Nodes
    BY MemoStep
  <2> QED
    BY <2>5, <2>6 DEF MemoIsNodeDet
<1> QED
  BY <1>1, <1>2

\* What the memoized classes are made of decides what they can be.
LEMMA SelectionsFollow ==
  ASSUME TypeOK, MemoIsNodeDet
  PROVE  SelectionsAreNeverUlp
<1>1. \A d : ~IsUlp(Selection(d))
  BY DetConstants DEF Selection
<1>2. ASSUME NEW i \in Nodes, Computed(i), dag.nodes[i].kind = "compare"
      PROVE  ~IsUlp(memo[i])
  BY <1>1, <1>2 DEF MemoIsNodeDet, NodeDet
<1>3. ASSUME NEW i \in Nodes, Computed(i), NEW k \in DOMAIN dag.nodes[i].index,
             memo[dag.nodes[i].index[k]] # ExactByte
      PROVE  memo[i] = Nondet
  <2> DEFINE node == dag.nodes[i]
             kids == Join(Join(Join(node.own, KidDet(node, memo, 1)), KidDet(node, memo, 2)),
                          KidDet(node, memo, 3))
  <2>1. node.index \in Seq(Nat) /\ Len(node.index) <= 1
    BY DagFacts DEF TypeOK
  <2>2. k = 1 /\ node.index # <<>>
    BY <2>1
  <2>3. IndexDet(node, memo) = Nondet
    BY <1>3, <2>2 DEF IndexDet, Selection
  <2>4. Join(kids, IndexDet(node, memo)) = Nondet
    <3> HIDE DEF kids
    <3>1. Join(kids, Nondet) = Nondet
      BY DetConstants DEF Join
    <3> QED
      BY <2>3, <3>1
  <2>5. Selection(Nondet) = Nondet
    BY DetConstants DEF Selection
  <2> QED
    BY <1>3, <2>4, <2>5 DEF MemoIsNodeDet, NodeDet
<1>4. \A k \in DOMAIN IndexOutputDets : ~IsUlp(IndexOutputDets[k])
  BY <1>1 DEF IndexOutputDets
<1> QED
  BY <1>2, <1>3, <1>4 DEF SelectionsAreNeverUlp

\* A memo holds the class its operands call for from the moment it is filled to the end of
\* the call: nothing a node was evaluated from is evaluated again.
THEOREM WalkMemos == WalkSpec => []MemoIsNodeDet
<1>1. WalkInit => MemoIsNodeDet
  BY DEF WalkInit, Init, MemoIsNodeDet, Computed, Nodes
<1>2. TypeOK /\ WalkInv /\ MemoIsNodeDet /\ [WalkNext]_vars => MemoIsNodeDet'
  BY MemoIsNodeDetStep
<1> QED
  BY <1>1, <1>2, WalkTypeOK, WalkInvariant, PTL DEF WalkSpec

\* On every recipe no mask, no exported permutation and nothing moved by a permutation of
\* inexact keys is given a ULP tolerance.
THEOREM WalkSelections == WalkSpec => []SelectionsAreNeverUlp
<1>1. TypeOK /\ MemoIsNodeDet => SelectionsAreNeverUlp
  BY SelectionsFollow
<1> QED
  BY <1>1, WalkTypeOK, WalkMemos, PTL

-----------------------------------------------------------------------------
(***************************************************************************)
(* Cones.                                                                  *)
(***************************************************************************)

\* What influences a node are the joined ones of its operands, and its index producer.
LEMMA InfluencesAre ==
  ASSUME dag \in Dags, NEW i \in Nodes
  PROVE  LET node == dag.nodes[i]
         IN  /\ JoinedKids(node) \subseteq DOMAIN node.kids \cap 1..3
             /\ Influences(dag, i) = {node.kids[k] : k \in JoinedKids(node)}
                                      \cup {node.index[k] : k \in DOMAIN node.index}
             /\ Influences(dag, i) \subseteq Children(node)
<1> DEFINE node == dag.nodes[i]
<1>1. node.kids \in Seq(Nat) /\ Len(node.kids) <= 3 /\ (node.kind = "gather" => node.kids # <<>>)
  BY DagFacts, ArityAssumption DEF Nodes
<1>2. DOMAIN node.kids \subseteq 1..3
  BY <1>1
<1>3. node.kind = "gather" => DOMAIN node.kids \cap {1} = {1}
  BY <1>1
<1>4. /\ \A k \in DOMAIN node.kids : node.kids[k] \in Children(node)
      /\ \A k \in DOMAIN node.index : node.index[k] \in Children(node)
  BY ChildrenFacts
<1> HIDE DEF node
<1>5. JoinedKids(node) \subseteq DOMAIN node.kids
  BY DEF JoinedKids
<1>6. Influences(dag, i) = {node.kids[k] : k \in JoinedKids(node)}
                            \cup {node.index[k] : k \in DOMAIN node.index}
  <2>1. CASE node.kind = "iota"
    BY <2>1 DEF Influences, JoinedKids, node
  <2>2. CASE node.kind = "gather" /\ ~node.skip
    BY <2>2, <1>3 DEF Influences, JoinedKids, node
  <2>3. CASE ~(node.kind = "iota") /\ ~(node.kind = "gather" /\ ~node.skip)
    BY <2>3 DEF Influences, JoinedKids, node
  <2> QED
    BY <2>1, <2>2, <2>3
<1>7. Influences(dag, i) \subseteq Children(node)
  BY <1>4, <1>5, <1>6
<1> QED
  BY <1>2, <1>5, <1>6, <1>7 DEF node

\* A cone holds its apex and what influences a member, and is the least such set.
LEMMA ConeIsLeast ==
  ASSUME dag \in Dags, NEW i \in Nodes
  PROVE  /\ Cone(dag, i) \subseteq Nodes /\ i \in Cone(dag, i)
         /\ Closed(dag, Cone(dag, i))
         /\ \A S \in SUBSET Nodes : i \in S /\ Closed(dag, S) => Cone(dag, i) \subseteq S
<1> DEFINE closed == {S \in SUBSET Nodes : i \in S /\ Closed(dag, S)}
<1>1. Cone(dag, i) = {j \in Nodes : \A S \in closed : j \in S}
  BY DEF Cone, Nodes
<1> HIDE DEF closed
<1>2. Cone(dag, i) \subseteq Nodes
  BY <1>1
<1>3. i \in Cone(dag, i)
  BY <1>1 DEF closed
<1>4. \A S \in closed : Cone(dag, i) \subseteq S
  BY <1>1
<1>5. ASSUME NEW j \in Cone(dag, i), NEW c \in Influences(dag, j), c < dag.n
      PROVE  c \in Cone(dag, i)
  <2>1. j \in Nodes
    BY <1>2
  <2>2. c \in Nodes
    <3>1. c \in Children(dag.nodes[j])
      BY <2>1, <1>5, InfluencesAre
    <3>2. c \in Nat /\ dag.n \in Nat
      BY <2>1, <3>1, DagFacts, ChildrenFacts
    <3> QED
      BY <3>2, <1>5 DEF Nodes
  <2>3. \A S \in closed : c \in S
    BY <1>4, <1>5 DEF closed, Closed
  <2> QED
    BY <1>1, <2>2, <2>3
<1>6. Closed(dag, Cone(dag, i))
  BY <1>5 DEF Closed
<1> QED
  BY <1>2, <1>3, <1>4, <1>6 DEF closed

\* A node whose influences all exist has the cones of those below it.
LEMMA ConeSplits ==
  ASSUME dag \in Dags, NEW i \in Nodes, Influences(dag, i) \subseteq Nodes
  PROVE  Cone(dag, i) = {i} \cup UNION {Cone(dag, c) : c \in Influences(dag, i)}
<1> DEFINE S == {i} \cup UNION {Cone(dag, c) : c \in Influences(dag, i)}
<1>0. dag.n \in Nat
  BY DagFacts
<1>1. Influences(dag, i) \subseteq Cone(dag, i)
  BY <1>0, ConeIsLeast DEF Closed, Nodes
<1>2. ASSUME NEW c \in Influences(dag, i)
      PROVE  Cone(dag, c) \subseteq Cone(dag, i)
  BY <1>1, ConeIsLeast
<1>3. S \subseteq Cone(dag, i)
  BY <1>2, ConeIsLeast
<1>4. S \in SUBSET Nodes /\ i \in S
  BY ConeIsLeast
<1>5. Closed(dag, S)
  <2> SUFFICES ASSUME NEW j \in S, NEW c \in Influences(dag, j), c < dag.n
               PROVE  c \in S
    BY DEF Closed
  <2>1. CASE j = i
    BY <2>1, ConeIsLeast
  <2>2. CASE j # i
    <3>1. PICK b \in Influences(dag, i) : j \in Cone(dag, b)
      BY <2>2
    <3>2. c \in Cone(dag, b)
      BY <3>1, ConeIsLeast DEF Closed
    <3> QED
      BY <3>1, <3>2
  <2> QED
    BY <2>1, <2>2
<1>6. Cone(dag, i) \subseteq S
  BY <1>4, <1>5, ConeIsLeast
<1> QED
  BY <1>3, <1>6

-----------------------------------------------------------------------------
(***************************************************************************)
(* The class of a path.                                                    *)
(***************************************************************************)

LEMMA BoundIsNat == ASSUME NEW a \in Det PROVE a.bound \in Nat /\ (a = ExactByte => a.bound = 0)
BY DetCases, UlpBoundsAssumption DEF ExactByte, Nondet

\* What the join of two classes is, by what it is not.
LEMMA JoinIs ==
  ASSUME NEW a \in Det, NEW b \in Det
  PROVE  /\ Join(a, b) \in Det
         /\ Join(a, b) = Nondet <=> a = Nondet \/ b = Nondet
         /\ Join(a, b) = ExactByte <=> a = ExactByte /\ b = ExactByte
         /\ Join(a, b) # Nondet =>
              /\ a.bound <= Join(a, b).bound /\ b.bound <= Join(a, b).bound
              /\ Join(a, b).bound \in {a.bound, b.bound}
<1>1. Join(a, b) \in Det
  BY JoinClosed
<1>2. a.bound \in Nat /\ b.bound \in Nat
  BY BoundIsNat
<1>3. ExactByte.bound = 0
  BY DEF ExactByte
<1>4. Join(a, b) = Nondet <=> a = Nondet \/ b = Nondet
  BY DetCases, DetConstants DEF Join
<1>5. Join(a, b) = ExactByte <=> a = ExactByte /\ b = ExactByte
  BY DetCases, DetConstants DEF Join
<1>6. ASSUME Join(a, b) # Nondet
      PROVE  /\ a.bound <= Join(a, b).bound /\ b.bound <= Join(a, b).bound
             /\ Join(a, b).bound \in {a.bound, b.bound}
  <2>1. CASE IsUlp(a) /\ IsUlp(b)
    BY <1>2, <2>1, DetCases, DetConstants DEF Join
  <2>2. CASE IsUlp(a) /\ ~IsUlp(b)
    <3>1. b = ExactByte /\ Join(a, b) = a
      BY <1>4, <1>6, <2>2, DetCases, DetConstants DEF Join
    <3> QED
      BY <3>1, <1>2, <1>3
  <2>3. CASE ~IsUlp(a) /\ IsUlp(b)
    <3>1. a = ExactByte /\ Join(a, b) = b
      BY <1>4, <1>6, <2>3, DetCases, DetConstants DEF Join
    <3> QED
      BY <3>1, <1>2, <1>3
  <2>4. CASE ~IsUlp(a) /\ ~IsUlp(b)
    <3>1. a = ExactByte /\ b = ExactByte
      BY <1>4, <1>6, <2>4, DetCases
    <3>2. Join(a, b) = ExactByte
      BY <3>1, <1>5
    <3> QED
      BY <3>1, <3>2, <1>3
  <2> QED
    BY <2>1, <2>2, <2>3, <2>4
<1> QED
  BY <1>1, <1>4, <1>5, <1>6

\* The same of the join of all that a node reads.
LEMMA JoinOfFiveIs ==
  ASSUME NEW a \in Det, NEW b \in Det, NEW c \in Det, NEW d \in Det, NEW e \in Det
  PROVE  LET j == Join(Join(Join(Join(a, b), c), d), e)
             all == {a, b, c, d, e}
         IN  /\ j \in Det
             /\ j = Nondet <=> Nondet \in all
             /\ j = ExactByte <=> \A x \in all : x = ExactByte
             /\ j # Nondet => /\ \A x \in all : x.bound <= j.bound
                              /\ \E x \in all : j.bound = x.bound
<1> DEFINE j2 == Join(a, b)
           j3 == Join(j2, c)
           j4 == Join(j3, d)
           j5 == Join(j4, e)
<1>1. /\ j2 \in Det /\ (j2 = Nondet <=> a = Nondet \/ b = Nondet)
      /\ j2 = ExactByte <=> a = ExactByte /\ b = ExactByte
      /\ j2 # Nondet => /\ a.bound <= j2.bound /\ b.bound <= j2.bound
                        /\ j2.bound \in {a.bound, b.bound}
  BY JoinIs
<1> HIDE DEF j2
<1>2. /\ j3 \in Det /\ (j3 = Nondet <=> j2 = Nondet \/ c = Nondet)
      /\ j3 = ExactByte <=> j2 = ExactByte /\ c = ExactByte
      /\ j3 # Nondet => /\ j2.bound <= j3.bound /\ c.bound <= j3.bound
                        /\ j3.bound \in {j2.bound, c.bound}
  BY <1>1, JoinIs
<1> HIDE DEF j3
<1>3. /\ j4 \in Det /\ (j4 = Nondet <=> j3 = Nondet \/ d = Nondet)
      /\ j4 = ExactByte <=> j3 = ExactByte /\ d = ExactByte
      /\ j4 # Nondet => /\ j3.bound <= j4.bound /\ d.bound <= j4.bound
                        /\ j4.bound \in {j3.bound, d.bound}
  BY <1>2, JoinIs
<1> HIDE DEF j4
<1>4. /\ j5 \in Det /\ (j5 = Nondet <=> j4 = Nondet \/ e = Nondet)
      /\ j5 = ExactByte <=> j4 = ExactByte /\ e = ExactByte
      /\ j5 # Nondet => /\ j4.bound <= j5.bound /\ e.bound <= j5.bound
                        /\ j5.bound \in {j4.bound, e.bound}
  BY <1>3, JoinIs
<1> HIDE DEF j5
<1>5. j5 = Nondet <=> Nondet \in {a, b, c, d, e}
  BY <1>1, <1>2, <1>3, <1>4
<1>6. j5 = ExactByte <=> \A x \in {a, b, c, d, e} : x = ExactByte
  BY <1>1, <1>2, <1>3, <1>4
<1>7. ASSUME j5 # Nondet
      PROVE  /\ a.bound <= j5.bound /\ b.bound <= j5.bound /\ c.bound <= j5.bound
             /\ d.bound <= j5.bound /\ e.bound <= j5.bound
             /\ j5.bound \in {a.bound, b.bound, c.bound, d.bound, e.bound}
  <2>1. j2 # Nondet /\ j3 # Nondet /\ j4 # Nondet
    BY <1>2, <1>3, <1>4, <1>7
  <2>2. /\ a.bound \in Nat /\ b.bound \in Nat /\ c.bound \in Nat /\ d.bound \in Nat
        /\ e.bound \in Nat /\ j2.bound \in Nat /\ j3.bound \in Nat /\ j4.bound \in Nat
        /\ j5.bound \in Nat
    BY <1>1, <1>2, <1>3, <1>4, BoundIsNat
  <2> QED
    BY <1>1, <1>2, <1>3, <1>4, <1>7, <2>1, <2>2
<1>8. j5 # Nondet => /\ \A x \in {a, b, c, d, e} : x.bound <= j5.bound
                     /\ \E x \in {a, b, c, d, e} : j5.bound = x.bound
  BY <1>7
<1> QED
  BY <1>4, <1>5, <1>6, <1>8 DEF j2, j3, j4, j5

HasNondet(d, i) == \E j \in Cone(d, i) : d.nodes[j].own = Nondet
OwnBounds(d, i) == {d.nodes[j].own.bound : j \in Cone(d, i)}

\* PathDet by what it is not, its bound by the bounds it must cover and come from.
IsPathDet(d, i, c) ==
  /\ c = Nondet <=> SelectsInexact(d, i) \/ HasNondet(d, i)
  /\ c = ExactByte <=> ~Inexact(d, i)
  /\ c # Nondet => /\ c.bound \in OwnBounds(d, i)
                   /\ \A b \in OwnBounds(d, i) : b <= c.bound

LEMMA PathDetIs ==
  ASSUME dag \in Dags, NEW i \in Nodes, NEW c \in Det, IsPathDet(dag, i, c)
  PROVE  c = PathDet(dag, i)
<1>1. CASE c = Nondet
  BY <1>1 DEF IsPathDet, PathDet, HasNondet
<1>2. CASE c = ExactByte
  BY <1>2, DetConstants DEF IsPathDet, PathDet, HasNondet
<1>3. CASE c # Nondet /\ c # ExactByte
  <2>1. c = Ulp(c.bound)
    BY <1>3, DetCases
  <2>2. OwnBounds(dag, i) \subseteq Nat
    <3>1. \A j \in Cone(dag, i) : dag.nodes[j].own \in Det
      BY ConeIsLeast, DagFacts
    <3> QED
      BY <3>1, BoundIsNat DEF OwnBounds
  <2>3. Max(OwnBounds(dag, i)) = c.bound
    <3> DEFINE S == OwnBounds(dag, i)
               m == Max(S)
    <3>1. c.bound \in S /\ \A b \in S : b <= c.bound
      BY <1>3 DEF IsPathDet
    <3> HIDE DEF S
    <3>2. m \in S /\ \A b \in S : m >= b
      BY <3>1, <2>2 DEF Max, S
    <3> HIDE DEF m
    <3>3. m = c.bound
      BY <2>2, <3>1, <3>2 DEF S
    <3> QED
      BY <3>3 DEF m, S
  <2> QED
    BY <1>3, <2>1, <2>3 DEF IsPathDet, PathDet, HasNondet, OwnBounds
<1> QED
  BY <1>1, <1>2, <1>3

\* What holds somewhere in a cone holds at its apex or in a cone below.
LEMMA PathsSplit ==
  ASSUME dag \in Dags, NEW i \in Nodes, Influences(dag, i) \subseteq Nodes
  PROVE  LET node == dag.nodes[i]
             below == Influences(dag, i)
         IN  /\ Inexact(dag, i) <=> node.own # ExactByte \/ \E c \in below : Inexact(dag, c)
             /\ HasNondet(dag, i) <=> node.own = Nondet \/ \E c \in below : HasNondet(dag, c)
             /\ OwnBounds(dag, i) = {node.own.bound} \cup UNION {OwnBounds(dag, c) : c \in below}
             /\ SelectsInexact(dag, i) <=>
                  \/ node.kind = "compare" /\ Inexact(dag, i)
                  \/ \E k \in DOMAIN node.index : Inexact(dag, node.index[k])
                  \/ \E c \in below : SelectsInexact(dag, c)
<1> DEFINE below == Influences(dag, i)
           node == dag.nodes[i]
<1>1. Cone(dag, i) = {i} \cup UNION {Cone(dag, c) : c \in below}
  BY ConeSplits
<1> HIDE DEF below
<1>2. Inexact(dag, i) <=> node.own # ExactByte \/ \E c \in below : Inexact(dag, c)
  BY <1>1 DEF Inexact
<1>3. HasNondet(dag, i) <=> node.own = Nondet \/ \E c \in below : HasNondet(dag, c)
  BY <1>1 DEF HasNondet
<1>4. OwnBounds(dag, i) = {node.own.bound} \cup UNION {OwnBounds(dag, c) : c \in below}
  BY <1>1 DEF OwnBounds
<1>5. SelectsInexact(dag, i) <=>
        \/ node.kind = "compare" /\ Inexact(dag, i)
        \/ \E k \in DOMAIN node.index : Inexact(dag, node.index[k])
        \/ \E c \in below : SelectsInexact(dag, c)
  <2> DEFINE selects(j) == \/ dag.nodes[j].kind = "compare" /\ Inexact(dag, j)
                           \/ \E k \in DOMAIN dag.nodes[j].index :
                                Inexact(dag, dag.nodes[j].index[k])
  <2>1. \A c : SelectsInexact(dag, c) <=> \E j \in Cone(dag, c) : selects(j)
    BY DEF SelectsInexact
  <2>2. SelectsInexact(dag, i) <=> selects(i) \/ \E c \in below : SelectsInexact(dag, c)
    <3> HIDE DEF selects
    <3> QED
      BY <1>1, <2>1
  <2> QED
    BY <2>2
<1> QED
  BY <1>2, <1>3, <1>4, <1>5 DEF below

\* A node whose operands have the classes of their paths gets the class of its own.
LEMMA NodeDetIsPathDet ==
  ASSUME dag \in Dags, NEW i \in Nodes,
         \A c \in Children(dag.nodes[i]) :
           c \in Nodes /\ memo[c] \in Det /\ IsPathDet(dag, c, memo[c])
  PROVE  IsPathDet(dag, i, NodeDet(dag.nodes[i], memo))
<1> DEFINE node == dag.nodes[i]
           below == Influences(dag, i)
           k1 == KidDet(node, memo, 1)
           k2 == KidDet(node, memo, 2)
           k3 == KidDet(node, memo, 3)
           ix == IndexDet(node, memo)
           all == {node.own, k1, k2, k3, ix}
           j == Join(Join(Join(Join(node.own, k1), k2), k3), ix)
<1>1. /\ node.own \in Det /\ node.index \in Seq(Nat) /\ Len(node.index) <= 1
      /\ JoinedKids(node) \subseteq DOMAIN node.kids \cap 1..3
      /\ below = {node.kids[k] : k \in JoinedKids(node)}
                  \cup {node.index[k] : k \in DOMAIN node.index}
      /\ below \subseteq Children(node)
  BY DagFacts, InfluencesAre
<1>2. \A c \in below : c \in Nodes /\ memo[c] \in Det /\ IsPathDet(dag, c, memo[c])
  BY <1>1
<1>3. /\ Inexact(dag, i) <=> node.own # ExactByte \/ \E c \in below : Inexact(dag, c)
      /\ HasNondet(dag, i) <=> node.own = Nondet \/ \E c \in below : HasNondet(dag, c)
      /\ OwnBounds(dag, i) = {node.own.bound} \cup UNION {OwnBounds(dag, c) : c \in below}
      /\ SelectsInexact(dag, i) <=>
           \/ node.kind = "compare" /\ Inexact(dag, i)
           \/ \E k \in DOMAIN node.index : Inexact(dag, node.index[k])
           \/ \E c \in below : SelectsInexact(dag, c)
  BY <1>2, PathsSplit
<1>4. NodeDet(node, memo) = IF node.kind = "compare" THEN Selection(j) ELSE j
  BY DEF NodeDet
<1> HIDE DEF node, below
\* The five classes joined are the operation's own, those of the value-lane operands that
\* matter, byte-exact ones, and the selection of the index producer's.
<1>5. /\ k1 \in Det /\ k2 \in Det /\ k3 \in Det
      /\ \A x \in {k1, k2, k3} :
           x = ExactByte \/ \E k \in JoinedKids(node) : x = memo[node.kids[k]]
      /\ \A k \in JoinedKids(node) : memo[node.kids[k]] \in {k1, k2, k3}
  <2>1. \A k \in JoinedKids(node) : memo[node.kids[k]] \in Det
    BY <1>1, <1>2
  <2> QED
    BY <1>1, <2>1, DetConstants DEF KidDet
<1>6. /\ ix \in Det /\ ix \in {ExactByte, Nondet}
      /\ ix = Nondet <=> \E k \in DOMAIN node.index : memo[node.index[k]] # ExactByte
  <2>1. CASE node.index = <<>>
    BY <2>1, DetConstants DEF IndexDet
  <2>2. CASE node.index # <<>>
    <3>1. DOMAIN node.index = {1}
      BY <1>1, <2>2
    <3> QED
      BY <2>2, <3>1, DetConstants DEF IndexDet, Selection
  <2> QED
    BY <2>1, <2>2
<1> HIDE DEF k1, k2, k3, ix
<1>7. /\ j \in Det
      /\ j = Nondet <=> Nondet \in all
      /\ j = ExactByte <=> \A x \in all : x = ExactByte
      /\ j # Nondet => /\ \A x \in all : x.bound <= j.bound
                       /\ \E x \in all : j.bound = x.bound
  BY <1>1, <1>5, <1>6, JoinOfFiveIs
<1> HIDE DEF j
<1>8. \A c \in below : /\ memo[c] = Nondet <=> SelectsInexact(dag, c) \/ HasNondet(dag, c)
                       /\ memo[c] = ExactByte <=> ~Inexact(dag, c)
  BY <1>2 DEF IsPathDet
<1>9. j = ExactByte <=> ~Inexact(dag, i)
  <2>1. (\A x \in {k1, k2, k3} : x = ExactByte)
          <=> \A k \in JoinedKids(node) : ~Inexact(dag, node.kids[k])
    BY <1>1, <1>5, <1>8
  <2>2. ix = ExactByte <=> \A k \in DOMAIN node.index : ~Inexact(dag, node.index[k])
    BY <1>1, <1>6, <1>8, DetConstants
  <2> QED
    BY <1>1, <1>3, <1>7, <2>1, <2>2
<1>10. j = Nondet <=>
         \/ node.own = Nondet
         \/ \E k \in JoinedKids(node) : memo[node.kids[k]] = Nondet
         \/ \E k \in DOMAIN node.index : Inexact(dag, node.index[k])
  <2>1. Nondet \in {k1, k2, k3} <=> \E k \in JoinedKids(node) : memo[node.kids[k]] = Nondet
    BY <1>5, DetConstants
  <2>2. ix = Nondet <=> \E k \in DOMAIN node.index : Inexact(dag, node.index[k])
    BY <1>1, <1>6, <1>8
  <2> QED
    BY <1>7, <2>1, <2>2
<1>11. \A k \in DOMAIN node.index :
         memo[node.index[k]] = Nondet => Inexact(dag, node.index[k])
  BY <1>1, <1>8, DetConstants
<1>12. j = Nondet <=>
         \/ HasNondet(dag, i)
         \/ \E k \in DOMAIN node.index : Inexact(dag, node.index[k])
         \/ \E c \in below : SelectsInexact(dag, c)
  <2>1. (\E c \in below : memo[c] = Nondet) <=>
          (\E c \in below : SelectsInexact(dag, c)) \/ (\E c \in below : HasNondet(dag, c))
    BY <1>8
  <2>2. (\E c \in below : memo[c] = Nondet) <=>
          \/ \E k \in JoinedKids(node) : memo[node.kids[k]] = Nondet
          \/ \E k \in DOMAIN node.index : memo[node.index[k]] = Nondet
    BY <1>1
  <2> QED
    BY <1>3, <1>10, <1>11, <2>1, <2>2
<1>13. ASSUME j # Nondet
       PROVE  j.bound \in OwnBounds(dag, i) /\ \A b \in OwnBounds(dag, i) : b <= j.bound
  <2>1. j.bound \in Nat /\ \A x \in all : x \in Det /\ x.bound \in Nat /\ x.bound <= j.bound
    BY <1>1, <1>5, <1>6, <1>7, <1>13, BoundIsNat
  <2>2. \A c \in below : memo[c] # Nondet
    BY <1>1, <1>10, <1>11, <1>13
  <2>3. \A c \in below : memo[c].bound \in OwnBounds(dag, c)
                         /\ \A b \in OwnBounds(dag, c) : b <= memo[c].bound
    BY <1>2, <2>2 DEF IsPathDet
  <2>4. \A c \in below : memo[c].bound \in Nat /\ memo[c].bound <= j.bound
    <3>1. \A k \in JoinedKids(node) : memo[node.kids[k]] \in all
      BY <1>5
    <3>2. \A k \in DOMAIN node.index : memo[node.index[k]] = ExactByte
      BY <1>1, <1>8, <1>10, <1>13
    <3>3. ExactByte.bound = 0
      BY DEF ExactByte
    <3> QED
      BY <1>1, <1>2, <2>1, <3>1, <3>2, <3>3
  <2>5. ASSUME NEW b \in OwnBounds(dag, i)
        PROVE  b <= j.bound
    <3>1. CASE b = node.own.bound
      BY <2>1, <3>1
    <3>2. CASE \E c \in below : b \in OwnBounds(dag, c)
      <4>1. PICK c \in below : b \in OwnBounds(dag, c)
        BY <3>2
      <4>2. b \in Nat
        <5>1. \A m \in Cone(dag, c) : dag.nodes[m].own \in Det
          BY <1>2, ConeIsLeast, DagFacts
        <5> QED
          BY <4>1, <5>1, BoundIsNat DEF OwnBounds
      <4>3. b <= memo[c].bound /\ memo[c].bound <= j.bound /\ memo[c].bound \in Nat
        BY <2>3, <2>4, <4>1
      <4> QED
        BY <2>1, <4>2, <4>3
    <3> QED
      BY <1>3, <3>1, <3>2
  <2>6. j.bound \in OwnBounds(dag, i)
    <3>1. PICK x \in all : j.bound = x.bound
      BY <1>7, <1>13
    <3>2. CASE x = node.own
      BY <1>3, <3>1, <3>2
    <3>3. CASE \E k \in JoinedKids(node) : x = memo[node.kids[k]]
      BY <1>1, <1>3, <2>3, <3>1, <3>3
    <3>4. CASE x = ExactByte
      <4>1. j.bound = 0
        BY <3>1, <3>4 DEF ExactByte
      <4>2. node.own.bound = 0
        BY <2>1, <4>1
      <4> QED
        BY <1>3, <4>1, <4>2
    <3>5. x # Nondet
      BY <1>7, <1>13
    <3> QED
      BY <1>5, <1>6, <3>2, <3>3, <3>4, <3>5
  <2> QED
    BY <2>5, <2>6
<1>14. CASE node.kind # "compare"
  BY <1>3, <1>4, <1>9, <1>12, <1>13, <1>14 DEF IsPathDet, node
<1>15. CASE node.kind = "compare"
  <2>1. NodeDet(node, memo) = IF j = ExactByte THEN ExactByte ELSE Nondet
    BY <1>4, <1>15 DEF Selection
  <2>2. j = Nondet => j # ExactByte
    BY DetConstants
  <2>3. NodeDet(node, memo) = Nondet <=> SelectsInexact(dag, i) \/ HasNondet(dag, i)
    BY <1>3, <1>9, <1>12, <1>15, <2>1, <2>2
  <2>4. NodeDet(node, memo) = ExactByte <=> ~Inexact(dag, i)
    BY <1>9, <2>1, DetConstants
  <2>5. NodeDet(node, memo) # Nondet => NodeDet(node, memo) = j /\ j # Nondet
    BY <2>1, DetConstants
  <2> QED
    BY <1>13, <2>3, <2>4, <2>5 DEF IsPathDet, node
<1> QED
  BY <1>14, <1>15

\* The inductive form of DetsArePathwise.
DetsAreOfPaths == \A i \in Nodes : Computed(i) => IsPathDet(dag, i, memo[i])

LEMMA DetsAreOfPathsStep ==
  ASSUME TypeOK, WalkInv, DetsAreOfPaths, [WalkNext]_vars
  PROVE  DetsAreOfPaths'
<1>1. dag' = dag /\ Nodes' = Nodes
  BY MemoStep
<1>2. CASE memo' = memo
  BY <1>1, <1>2 DEF DetsAreOfPaths, Computed
<1>3. CASE memo' # memo
  <2>1. PICK i \in Nodes : /\ Ready(i)
                           /\ memo' = [memo EXCEPT ![i] = NodeDet(dag.nodes[i], memo)]
    BY <1>3, MemoStep
  <2>2. dag \in Dags /\ dag.n \in Nat /\ memo \in [Nodes -> Det \cup {None}]
    BY DagFacts DEF TypeOK
  <2>3. \A c \in Children(dag.nodes[i]) : c \in Nodes /\ Computed(c)
    <3>1. \A c \in Children(dag.nodes[i]) : c \in Nat
      BY <2>2, ChildrenFacts
    <3> QED
      BY <2>1, <2>2, <3>1 DEF Ready, Nodes
  <2>4. IsPathDet(dag, i, NodeDet(dag.nodes[i], memo))
    BY <2>2, <2>3, NodeDetIsPathDet DEF DetsAreOfPaths, Computed
  <2>5. \A j \in Nodes : memo'[j] = IF j = i THEN NodeDet(dag.nodes[i], memo) ELSE memo[j]
    BY <2>1, <2>2
  <2>6. \A j \in Nodes : memo'[j] # None => IsPathDet(dag, j, memo'[j])
    BY <2>4, <2>5 DEF DetsAreOfPaths, Computed
  <2> QED
    BY <1>1, <2>6 DEF DetsAreOfPaths, Computed, None
<1> QED
  BY <1>2, <1>3

\* On every recipe the class memoized for a node is the one its whole sub-DAG calls for,
\* whatever the paths it is reached by: no tolerance is lost on the way, and none invented.
THEOREM WalkDetsArePathwise == WalkSpec => []DetsArePathwise
<1>1. WalkInit => DetsAreOfPaths
  BY DEF WalkInit, Init, DetsAreOfPaths, Computed, Nodes
<1>2. TypeOK /\ WalkInv /\ DetsAreOfPaths /\ [WalkNext]_vars => DetsAreOfPaths'
  BY DetsAreOfPathsStep
<1>3. TypeOK /\ DetsAreOfPaths => DetsArePathwise
  BY PathDetIs DEF TypeOK, DetsAreOfPaths, DetsArePathwise, Computed
<1> QED
  BY <1>1, <1>2, <1>3, WalkTypeOK, WalkInvariant, PTL DEF WalkSpec

-----------------------------------------------------------------------------
(***************************************************************************)
(* The inherited dtypes.                                                   *)
(***************************************************************************)

-----------------------------------------------------------------------------
(***************************************************************************)
(* The inherited dtypes.                                                   *)
(***************************************************************************)

Source(i) == DtypeSource(dag.nodes[i])

\* A dtype is inherited from a child, or from nowhere; a comparison's from nowhere.
LEMMA SourceIs ==
  ASSUME dag \in Dags, NEW i \in Nodes
  PROVE  /\ Source(i) # <<>> => /\ Source(i)[1] \in Children(dag.nodes[i])
                                /\ Source(i)[1] \in Nat
         /\ dag.nodes[i].kind = "compare" => Source(i) = <<>>
<1> DEFINE node == dag.nodes[i]
<1>1. /\ node.kids \in Seq(Nat)
      /\ node.kind \in {"flip", "gather", "scatter", "sort"} => node.kids # <<>>
      /\ \A k \in DOMAIN node.kids : node.kids[k] \in Children(node)
  BY DagFacts, ArityAssumption, ChildrenFacts DEF Nodes
<1> HIDE DEF node
<1>2. \/ DtypeSource(node) = <<>>
      \/ \E k \in DOMAIN node.kids : DtypeSource(node) = <<node.kids[k]>>
  <2>1. CASE node.kind = "select" /\ Len(node.kids) = 3
    <3>1. 2 \in DOMAIN node.kids /\ DtypeSource(node) = <<node.kids[2]>>
      BY <1>1, <2>1 DEF DtypeSource
    <3> QED
      BY <3>1
  <2>2. CASE node.kind \in {"flip", "gather", "scatter", "sort"}
    <3>1. 1 \in DOMAIN node.kids /\ DtypeSource(node) = <<node.kids[1]>>
      BY <1>1, <2>2 DEF DtypeSource
    <3> QED
      BY <3>1
  <2>3. CASE ~(node.kind = "select" /\ Len(node.kids) = 3)
             /\ node.kind \notin {"flip", "gather", "scatter", "sort"}
    BY <2>3 DEF DtypeSource
  <2> QED
    BY <2>1, <2>2, <2>3
<1>3. node.kind = "compare" => DtypeSource(node) = <<>>
  BY DEF DtypeSource
<1>4. ASSUME NEW k \in DOMAIN node.kids, DtypeSource(node) = <<node.kids[k]>>
      PROVE  DtypeSource(node)[1] \in Children(node) /\ DtypeSource(node)[1] \in Nat
  BY <1>1, <1>4
<1> QED
  BY <1>2, <1>3, <1>4 DEF node, Source

\* A chain holds its start and the sources of its members, and is the least such set.
LEMMA ChainIsLeast ==
  ASSUME dag \in Dags, NEW i \in Nodes
  PROVE  /\ SourceChain(dag, i) \subseteq Nodes /\ i \in SourceChain(dag, i)
         /\ SourceClosed(dag, SourceChain(dag, i))
         /\ \A S \in SUBSET Nodes :
              i \in S /\ SourceClosed(dag, S) => SourceChain(dag, i) \subseteq S
<1> DEFINE closed == {S \in SUBSET Nodes : i \in S /\ SourceClosed(dag, S)}
<1>1. SourceChain(dag, i) = {j \in Nodes : \A S \in closed : j \in S}
  BY DEF SourceChain, Nodes
<1> HIDE DEF closed
<1>2. SourceChain(dag, i) \subseteq Nodes /\ i \in SourceChain(dag, i)
  BY <1>1 DEF closed
<1>3. \A S \in closed : SourceChain(dag, i) \subseteq S
  BY <1>1
<1>4. ASSUME NEW j \in SourceChain(dag, i), Source(j) # <<>>, Source(j)[1] < dag.n
      PROVE  Source(j)[1] \in SourceChain(dag, i)
  <2>1. j \in Nodes
    BY <1>2
  <2>2. Source(j)[1] \in Nat
    BY <1>4, <2>1, SourceIs
  <2>3. Source(j)[1] \in Nodes
    BY <1>4, <2>2, DagFacts DEF Nodes
  <2>4. \A S \in closed : Source(j)[1] \in S
    BY <1>3, <1>4 DEF closed, SourceClosed, Source
  <2> QED
    BY <1>1, <2>3, <2>4
<1>5. SourceClosed(dag, SourceChain(dag, i))
  BY <1>4 DEF SourceClosed, Source
<1> QED
  BY <1>2, <1>3, <1>5 DEF closed

\* The chain of a node is the node and the chain of its source.
LEMMA ChainSplits ==
  ASSUME dag \in Dags, NEW i \in Nodes
  PROVE  /\ Source(i) = <<>> => SourceChain(dag, i) = {i}
         /\ Source(i) # <<>> /\ Source(i)[1] \in Nodes =>
              SourceChain(dag, i) = {i} \cup SourceChain(dag, Source(i)[1])
<1>1. ASSUME Source(i) = <<>> PROVE SourceChain(dag, i) = {i}
  <2>1. SourceClosed(dag, {i})
    BY <1>1 DEF SourceClosed, Source
  <2> QED
    BY <2>1, ChainIsLeast
<1>2. ASSUME Source(i) # <<>>, Source(i)[1] \in Nodes
      PROVE  SourceChain(dag, i) = {i} \cup SourceChain(dag, Source(i)[1])
  <2> DEFINE c == Source(i)[1]
             S == {i} \cup SourceChain(dag, c)
  <2>1. c \in Nodes /\ c < dag.n
    BY <1>2, DagFacts DEF Nodes
  <2>2. c \in SourceChain(dag, i)
    BY <1>2, <2>1, ChainIsLeast DEF SourceClosed, Source
  <2>3. S \subseteq SourceChain(dag, i)
    BY <2>1, <2>2, ChainIsLeast
  <2>4. S \in SUBSET Nodes /\ i \in S
    BY <2>1, ChainIsLeast
  <2>5. SourceClosed(dag, S)
    <3> SUFFICES ASSUME NEW j \in S, Source(j) # <<>>, Source(j)[1] < dag.n
                 PROVE  Source(j)[1] \in S
      BY DEF SourceClosed, Source
    <3>1. CASE j = i
      BY <2>1, <3>1, ChainIsLeast
    <3>2. CASE j \in SourceChain(dag, c)
      BY <2>1, <3>2, ChainIsLeast DEF SourceClosed, Source
    <3> QED
      BY <3>1, <3>2
  <2>6. SourceChain(dag, i) \subseteq S
    BY <2>4, <2>5, ChainIsLeast
  <2> QED
    BY <2>3, <2>6
<1> QED
  BY <1>1, <1>2

\* In an acyclic recipe the chain of a source does not come back.
LEMMA ChainShrinks ==
  ASSUME dag \in Dags, Acyclic(dag),
         \A j \in Nodes : Source(j) # <<>> => Source(j)[1] \in Nodes,
         NEW i \in Nodes, Source(i) # <<>>
  PROVE  i \notin SourceChain(dag, Source(i)[1])
<1> DEFINE c == Source(i)[1]
           S == {j \in SourceChain(dag, c) : i \in SourceChain(dag, j)}
<1> SUFFICES ASSUME i \in SourceChain(dag, c) PROVE FALSE
  OBVIOUS
<1>1. c \in Nodes /\ SourceChain(dag, c) \subseteq Nodes /\ c \in SourceChain(dag, c)
  BY ChainIsLeast
<1>2. S \in SUBSET Nodes /\ S # {}
  <2>1. i \in S
    BY <1>1, ChainIsLeast
  <2> QED
    BY <1>1, <2>1
<1>3. ASSUME NEW j \in S
      PROVE  Children(dag.nodes[j]) \cap S # {}
  <2>1. j \in Nodes /\ j \in SourceChain(dag, c) /\ i \in SourceChain(dag, j)
    BY <1>1
  <2>2. Source(j) # <<>>
    BY <2>1, ChainSplits
  <2> DEFINE b == Source(j)[1]
  <2>3. b \in Nodes /\ b < dag.n /\ b \in Children(dag.nodes[j])
    BY <2>1, <2>2, SourceIs, DagFacts DEF Nodes
  <2>4. b \in SourceChain(dag, c)
    BY <1>1, <2>1, <2>2, <2>3, ChainIsLeast DEF SourceClosed, Source
  <2>5. SourceChain(dag, j) = {j} \cup SourceChain(dag, b)
    BY <2>1, <2>2, <2>3, ChainSplits
  <2>6. i \in SourceChain(dag, b)
    <3>1. CASE i = j
      BY <3>1
    <3>2. CASE i # j
      BY <2>1, <2>5, <3>2
    <3> QED
      BY <3>1, <3>2
  <2> QED
    BY <2>3, <2>4, <2>6
<1> HIDE DEF S
<1> QED
  BY <1>2, <1>3 DEF Acyclic, Nodes

\* The recursion of NodeDtype, on the fuel, has a solution.
LEMMA DtypeRecursion ==
  ASSUME dag \in Dags
  PROVE  \E dtype :
           /\ \A i : NodeDtype(dag, i) = dtype[dag.n][i]
           /\ dtype = [fuel \in 0..dag.n |-> [i \in Nat |->
                IF fuel = 0 \/ i >= dag.n THEN "compute"
                ELSE IF Source(i) # <<>> THEN dtype[fuel - 1][Source(i)[1]]
                ELSE IF dag.nodes[i].kind = "compare" THEN "bool" ELSE "compute"]]
<1> DEFINE Dtypes == [Nat -> {"bool", "compute"}]
           base == [i \in Nat |-> "compute"]
           step == [k \in Nat |-> [g \in Dtypes |-> [i \in Nat |->
             IF i >= dag.n THEN "compute"
             ELSE IF Source(i) # <<>> THEN g[Source(i)[1]]
             ELSE IF dag.nodes[i].kind = "compare" THEN "bool" ELSE "compute"]]]
           body(f) == [fuel \in 0..dag.n |-> [i \in Nat |->
             IF fuel = 0 \/ i >= dag.n THEN "compute"
             ELSE IF Source(i) # <<>> THEN f[fuel - 1][Source(i)[1]]
             ELSE IF dag.nodes[i].kind = "compare" THEN "bool" ELSE "compute"]]
<1>1. dag.n \in Nat
  BY DagFacts
<1>2. \A i \in Nat : i < dag.n /\ Source(i) # <<>> => Source(i)[1] \in Nat
  BY <1>1, SourceIs DEF Nodes
<1>3. base \in Dtypes /\ step \in [Nat -> [Dtypes -> Dtypes]]
  <2>1. ASSUME NEW k \in Nat, NEW g \in Dtypes
        PROVE  step[k][g] \in Dtypes
    BY <1>1, <1>2
  <2> QED
    BY <2>1
<1> HIDE DEF Dtypes
<1>4. PICK f \in [0..dag.n -> Dtypes] :
        f[0] = base /\ \A k \in 1..dag.n : f[k] = step[k][f[k - 1]]
  <2> DEFINE last == dag.n
  <2> HIDE DEF base, step, body, last
  <2>1. last \in Nat /\ base \in Dtypes /\ step \in [Nat -> [Dtypes -> Dtypes]]
    BY <1>1, <1>3 DEF last
  <2>2. \E f \in [0..last -> Dtypes] : Unrolls(f, base, step, last)
    BY <2>1, RecursionOverInterval
  <2> QED
    BY <2>2 DEF last, Unrolls
<1>5. f = body(f)
  <2>1. ASSUME NEW fuel \in 0..dag.n
        PROVE  f[fuel] = body(f)[fuel]
    <3>1. CASE fuel = 0
      BY <1>4, <3>1
    <3>2. CASE fuel # 0
      <4>1. fuel - 1 \in 0..dag.n
        BY <1>1, <3>2
      <4>2. f[fuel - 1] \in Dtypes /\ f[fuel] = step[fuel][f[fuel - 1]] /\ fuel \in Nat
        <5>1. fuel \in 1..dag.n /\ fuel \in Nat
          BY <1>1, <3>2
        <5> HIDE DEF step
        <5> QED
          BY <1>4, <4>1, <5>1
      <4> QED
        BY <3>2, <4>2
    <3> QED
      BY <3>1, <3>2
  <2>2. DOMAIN f = 0..dag.n /\ f = [k \in 0..dag.n |-> f[k]]
    BY <1>4
  <2> HIDE DEF base, step
  <2> QED
    BY <2>1, <2>2
<1> DEFINE dtype == CHOOSE g : g = body(g)
<1>6. dtype = body(dtype)
  <2> HIDE DEF body
  <2> QED
    BY <1>5
<1>7. \A i : NodeDtype(dag, i) = dtype[dag.n][i]
  BY DEF NodeDtype, Source
<1> QED
  BY <1>6, <1>7

\* As much fuel as the recipe has nodes suffices: the chain of an acyclic recipe is shorter.
LEMMA FuelSuffices ==
  ASSUME dag \in Dags, Acyclic(dag),
         \A j \in Nodes : Source(j) # <<>> => Source(j)[1] \in Nodes,
         NEW root \in Nodes
  PROVE  NodeDtype(dag, root) = "bool" <=>
           \E j \in SourceChain(dag, root) : dag.nodes[j].kind = "compare"
<1> DEFINE masked(i) == \E j \in SourceChain(dag, i) : dag.nodes[j].kind = "compare"
<1>1. PICK dtype :
        /\ \A i : NodeDtype(dag, i) = dtype[dag.n][i]
        /\ dtype = [fuel \in 0..dag.n |-> [i \in Nat |->
             IF fuel = 0 \/ i >= dag.n THEN "compute"
             ELSE IF Source(i) # <<>> THEN dtype[fuel - 1][Source(i)[1]]
             ELSE IF dag.nodes[i].kind = "compare" THEN "bool" ELSE "compute"]]
  BY DtypeRecursion
<1>2. dag.n \in Nat
  BY DagFacts
<1>3. \A i \in Nodes : /\ IsFiniteSet(SourceChain(dag, i))
                       /\ Cardinality(SourceChain(dag, i)) \in 1..dag.n
  <2> TAKE i \in Nodes
  <2>1. IsFiniteSet(Nodes) /\ Cardinality(Nodes) = dag.n
    <3> DEFINE last == dag.n - 1
    <3>1. last \in Int /\ 0 \in Int /\ Nodes = 0..last
      BY <1>2 DEF Nodes
    <3> HIDE DEF last
    <3>2. /\ IsFiniteSet(0..last)
          /\ Cardinality(0..last) = IF 0 > last THEN 0 ELSE (last - 0) + 1
      BY <3>1, FS_Interval
    <3> QED
      BY <1>2, <3>1, <3>2 DEF last
  <2>2. SourceChain(dag, i) \subseteq Nodes /\ SourceChain(dag, i) # {}
    BY ChainIsLeast
  <2>3. /\ IsFiniteSet(SourceChain(dag, i)) /\ Cardinality(SourceChain(dag, i)) \in Nat
        /\ Cardinality(SourceChain(dag, i)) <= dag.n
    BY <2>1, <2>2, FS_Subset, FS_CardinalityType
  <2>4. Cardinality(SourceChain(dag, i)) # 0
    BY <2>2, <2>3, FS_EmptySet
  <2> QED
    BY <1>2, <2>3, <2>4
<1> DEFINE Settled(m) == \A i \in Nodes : Cardinality(SourceChain(dag, i)) <= m =>
             (dtype[m][i] = "bool" <=> masked(i))
           Open == {m \in 0..dag.n : ~Settled(m)}
<1>5. \A m \in 0..dag.n, i \in Nat : m # 0 /\ i < dag.n =>
        dtype[m][i] = IF Source(i) # <<>> THEN dtype[m - 1][Source(i)[1]]
                      ELSE IF dag.nodes[i].kind = "compare" THEN "bool" ELSE "compute"
  <2> TAKE m \in 0..dag.n, i \in Nat
  <2> HAVE m # 0 /\ i < dag.n
  <2> DEFINE row == [k \in Nat |->
               IF m = 0 \/ k >= dag.n THEN "compute"
               ELSE IF Source(k) # <<>> THEN dtype[m - 1][Source(k)[1]]
               ELSE IF dag.nodes[k].kind = "compare" THEN "bool" ELSE "compute"]
  <2>1. dtype[m] = row
    BY <1>1
  <2>2. row[i] = IF Source(i) # <<>> THEN dtype[m - 1][Source(i)[1]]
                 ELSE IF dag.nodes[i].kind = "compare" THEN "bool" ELSE "compute"
    BY <1>2
  <2> QED
    BY <2>1, <2>2
<1> HIDE DEF masked
<1>4. Open = {}
  <2> SUFFICES ASSUME Open # {} PROVE FALSE
    OBVIOUS
  <2>1. PICK m \in Open : \A l \in Open : m <= l
    <3>1. Open \subseteq Nat
      BY <1>2
    <3> HIDE DEF Open
    <3> QED
      BY <3>1, LeastNatural
  <2>2. PICK i \in Nodes : /\ Cardinality(SourceChain(dag, i)) <= m
                           /\ ~(dtype[m][i] = "bool" <=> masked(i))
    BY <2>1
  <2>3. m \in 1..dag.n /\ m - 1 \in 0..dag.n /\ m - 1 \notin Open
    BY <1>2, <1>3, <2>1, <2>2
  <2>4. i \in Nat /\ i < dag.n /\ m # 0
    BY <1>2, <2>3 DEF Nodes
  <2>5. CASE Source(i) = <<>>
    <3>1. dtype[m][i] = IF dag.nodes[i].kind = "compare" THEN "bool" ELSE "compute"
      BY <1>5, <1>2, <2>3, <2>4, <2>5
    <3>2. masked(i) <=> dag.nodes[i].kind = "compare"
      BY <2>5, ChainSplits DEF masked
    <3> QED
      BY <2>2, <3>1, <3>2
  <2>6. CASE Source(i) # <<>>
    <3> DEFINE c == Source(i)[1]
    <3>1. dtype[m][i] = dtype[m - 1][c]
      BY <1>5, <1>2, <2>3, <2>4, <2>6
    <3>2. c \in Nodes /\ i \notin SourceChain(dag, c)
      BY <2>6, ChainShrinks
    <3>3. SourceChain(dag, i) = {i} \cup SourceChain(dag, c)
      BY <2>6, <3>2, ChainSplits
    <3>4. Cardinality(SourceChain(dag, i)) = Cardinality(SourceChain(dag, c)) + 1
      <4>1. SourceChain(dag, i) = SourceChain(dag, c) \cup {i}
        BY <3>3
      <4> QED
        BY <1>3, <3>2, <4>1, FS_AddElement
    <3>5. Cardinality(SourceChain(dag, c)) <= m - 1
      BY <1>2, <1>3, <2>2, <2>3, <3>2, <3>4
    <3>6. dtype[m - 1][c] = "bool" <=> masked(c)
      BY <2>3, <3>2, <3>5
    <3>7. dag.nodes[i].kind # "compare"
      BY <2>6, SourceIs
    <3>8. masked(i) <=> masked(c)
      BY <3>3, <3>7 DEF masked
    <3> QED
      BY <2>2, <3>1, <3>6, <3>8
  <2> QED
    BY <2>5, <2>6
<1>6. dtype[dag.n][root] = "bool" <=> masked(root)
  BY <1>2, <1>3, <1>4
<1> QED
  BY <1>1, <1>6 DEF masked

\* Every recipe that is evaluated has its outputs declared masks exactly when what they are
\* moved or selected from is a comparison: the fuel of node_dtype never runs out.
THEOREM WalkDtypes == WalkSpec => []DtypeIsInherited
<1>1. TypeOK /\ WalkInv /\ VerdictSound => DtypeIsInherited
  <2> SUFFICES ASSUME TypeOK, WalkInv, VerdictSound, result = "ok", NEW i \in Nodes
               PROVE  NodeDtype(dag, i) = "bool" <=>
                        \E j \in SourceChain(dag, i) : dag.nodes[j].kind = "compare"
    BY DEF DtypeIsInherited
  <2>1. dag \in Dags /\ dag.n \in Nat /\ Acyclic(dag) /\ \A j \in Nodes : Computed(j)
    BY DagFacts DEF TypeOK, VerdictSound
  <2>2. ASSUME NEW j \in Nodes, Source(j) # <<>>
        PROVE  Source(j)[1] \in Nodes
    <3>1. Source(j)[1] \in Children(dag.nodes[j]) /\ Source(j)[1] \in Nat
      BY <2>1, <2>2, SourceIs
    <3>2. Source(j)[1] < dag.n
      BY <2>1, <3>1 DEF WalkInv, MemoIsDone, DoneIsClosed
    <3> QED
      BY <2>1, <3>1, <3>2 DEF Nodes
  <2> QED
    BY <2>1, <2>2, FuelSuffices
<1> QED
  BY <1>1, WalkTypeOK, WalkInvariant, WalkVerdicts, PTL
=============================================================================
