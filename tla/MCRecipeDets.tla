---------------------------- MODULE MCRecipeDets ----------------------------
(***************************************************************************)
(* Model-checking instance of RecipeDets: well-formed recipes of four      *)
(* nodes, in which node i reads nodes of smaller number, over every kind   *)
(* of node and every class an operation may bring with it.  The order      *)
(* along which a DAG is numbered does not matter here; MCRecipeWalk covers *)
(* the walk's.                                                             *)
(***************************************************************************)
EXTENDS RecipeDets, TLC

Plain(kind, own, kids) ==
  [kind |-> kind, own |-> own, kids |-> kids, index |-> <<>>, skip |-> FALSE]

Indexed(kind, own, kids, index, skip) ==
  [kind |-> kind, own |-> own, kids |-> kids, index |-> index, skip |-> skip]

\* The nodes that may read the nodes before i.
Unary(i) ==
  {Plain("apply", Ulp(k), <<a>>) : k \in UlpBounds, a \in 0..(i - 1)}
  \cup {Plain("fold", own, <<a>>) : own \in {ExactByte, Nondet}, a \in 0..(i - 1)}
  \cup {Plain(kind, ExactByte, <<a>>) :
            kind \in {"sort", "iota", "flip"}, a \in 0..(i - 1)}

Binary(i) ==
  {Plain("compare", ExactByte, <<a, i - 1>>) : a \in 0..(i - 1)}
  \cup {Plain("matmul", Nondet, <<a, i - 1>>) : a \in 0..(i - 1)}
  \cup {Plain("select", ExactByte, <<0, a, i - 1>>) : a \in 0..(i - 1)}

Moving(i) ==
  LET refs == {<<>>} \cup {<<m>> : m \in 1..(i - 1)}
  IN  {Indexed("gather", ExactByte, kids, x, skip) :
          kids \in {<<0>>, <<i - 1>>, <<0, i - 1>>, <<i - 1, 0>>},
          x \in refs, skip \in BOOLEAN}
      \cup {Indexed("scatter", own, <<a, i - 1>>, x, FALSE) :
          own \in {ExactByte, Nondet}, a \in {0, i - 1}, x \in refs}

NodeChoices(i) == Unary(i) \cup Binary(i) \cup Moving(i)

Recipe(a, b, c) ==
  LET nodes == (0 :> Plain("leaf", ExactByte, <<>>)) @@ (1 :> a) @@ (2 :> b) @@ (3 :> c)
  IN  [n |-> 4, nodes |-> nodes, outputs |-> <<3>>,
       indexOutputs |-> IF c.kind = "sort" THEN <<3>> ELSE <<>>]

AllDags ==
  {d \in {Recipe(a, b, c) : a \in NodeChoices(1), b \in NodeChoices(2), c \in NodeChoices(3)} :
     IndexLaneValid(d)}

MCDags == AllDags
=============================================================================
