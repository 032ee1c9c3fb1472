---------------------------- MODULE MCRecipeWalk ----------------------------
(***************************************************************************)
(* Model-checking instance of RecipeWalk: every graph shape on up to       *)
(* three nodes, malformed ones (cycles, self-loops, repeated operands,     *)
(* dangling references, index references to nodes without an index lane)   *)
(* included.                                                               *)
(***************************************************************************)
EXTENDS RecipeWalk

Leaf == [kind |-> "leaf", own |-> ExactByte, kids |-> <<>>, index |-> <<>>,
         skip |-> FALSE]
Apply(kids) == [Leaf EXCEPT !.kind = "apply", !.kids = kids]
Sort(k) == [Leaf EXCEPT !.kind = "sort", !.kids = <<k>>]
GatherBy(k, m) == [Leaf EXCEPT !.kind = "gather", !.kids = <<k>>, !.index = <<m>>]

\* References reach from 0 to n: n itself dangles.
ShapeNodes(n) ==
  {Leaf} \cup {Apply(<<a>>) : a \in 0..n} \cup {Apply(<<a, b>>) : a, b \in 0..n}

LaneNodes(n) ==
  {Leaf} \cup {Sort(a) : a \in 0..(n - 1)}
         \cup {GatherBy(a, m) : a \in 0..(n - 1), m \in 0..n}

DagsOver(n, nodes, outputs, indexOutputs) ==
  {[n |-> n, nodes |-> f, outputs |-> o, indexOutputs |-> x] :
      f \in [0..(n - 1) -> nodes], o \in outputs, x \in indexOutputs}

\* All graphs of unary and binary operations on three nodes, dangling references
\* included; the duplicate-free ones on four; all mixtures of sorts and gathers
\* on three; and roots in and out of range on two nodes and on none.
AllDags == UNION {
  DagsOver(3, ShapeNodes(3), {<<2>>}, {<<>>}),
  DagsOver(4, {nd \in ShapeNodes(3) : Len(nd.kids) < 2 \/ nd.kids[1] < nd.kids[2]},
           {<<3>>}, {<<>>}),
  DagsOver(3, LaneNodes(3), {<<2, 0>>}, {<<>>}),
  DagsOver(2, LaneNodes(2), {<<1>>, <<2>>}, {<<0>>, <<0, 1>>, <<2>>}),
  DagsOver(0, {}, {<<>>, <<0>>}, {<<>>})}

MCDags == AllDags
=============================================================================
