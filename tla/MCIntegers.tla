----------------------------- MODULE MCIntegers -----------------------------
(***************************************************************************)
(* The integer and bool lanes, one at a time: the folds in every order     *)
(* (IntFold), the scalar operations (IntScalarCheck), the bool lane        *)
(* (BoolLane) and recipes (IntRecipe), over the dtypes i4, u4 and b1 in a  *)
(* lane of eight bits, twice the widest dtype as i128 is twice u64.  `part`*)
(* names the one that runs; the others rest.                               *)
(***************************************************************************)
EXTENDS IntFold, IntRecipe, BoolLane

VARIABLE part   \* "fold", "scalar", "truth" or "recipe"
foldVars == vars

i4 == [bits |-> 4, half |-> 8, signed |-> TRUE]
u4 == [bits |-> 4, half |-> 8, signed |-> FALSE]
b1 == [bits |-> 1, half |-> 1, signed |-> FALSE]
MCDtypes == {i4, u4, b1}

-----------------------------------------------------------------------------
\* Folds: three terms over two cells, and values at both ends of i4, at the end of
\* u4, outside every dtype, and zero.
Cell1 == 1
Cell2 == 2
MCCells == {Cell1, Cell2}

Values == {-8, 0, 3, 7, 15, 100}

Routes == {f \in [Terms -> MCCells] : f[1] = Cell1}

JobsOf(kernel, monoids, dests, rights) ==
  {[kernel |-> kernel, monoid |-> m, dtype |-> d, dest |-> x, cell |-> r,
    left |-> l, right |-> y] :
      m \in monoids, d \in MCDtypes, x \in dests, r \in Routes,
      l \in [Terms -> Values], y \in rights}

Zeros == {[c \in MCCells |-> 0]}
Ones == {[t \in Terms |-> 1]}

AllJobs ==
  JobsOf("reduce", {"sum", "prod", "max", "min"}, Zeros, Ones)
  \cup JobsOf("scatter", {"sum", "max", "min"},
              {[c \in MCCells |-> v] : v \in {-8, 7, 15, 100}}, Ones)
  \cup JobsOf("matmul", {"sum"}, Zeros,
              {[t \in Terms |-> v] : v \in {-8, 7, 15}})
MCJobs == AllJobs

\* A call that waits.
FoldRests ==
  /\ job = CHOOSE j \in Jobs : j.kernel = "reduce" /\ j.monoid = "sum"
  /\ acc = [c \in Cells |-> Start(job, c)] /\ exact = acc
  /\ touched = {} /\ pending = Terms

-----------------------------------------------------------------------------
\* Scalars: every operation on every operand of the dtype.  Truth: elements stored
\* as 0 and 1 or not, in an accumulator of four bits.
AllCalls ==
  {[op |-> o, dtype |-> d, args |-> <<a>>] : o \in Unary, d \in MCDtypes, a \in -8..15}
  \cup {[op |-> o, dtype |-> d, args |-> <<a, b>>] :
          o \in Binary, d \in MCDtypes, a \in -8..15, b \in -8..15}
  \cup {[op |-> "select", dtype |-> d, args |-> <<c, a, b>>] :
          d \in MCDtypes, c \in -1..1, a \in {-8, 7, 15}, b \in {-8, 7, 0}}
MCCalls ==
  {c \in AllCalls : \A k \in DOMAIN c.args : InRange(c.args[k], c.dtype)}

MCElements == {-3, 0, 1, 2, 5}

CallRests == call = <<>> /\ answer = <<>> /\ next = 0 /\ sofar = 0 /\ out = <<>>

-----------------------------------------------------------------------------
\* Recipes of up to three nodes, on vectors of two elements, with bound values inside
\* and outside the dtypes.
Proto(kind, op, arity) ==
  [kind |-> kind, op |-> op, arity |-> arity, index |-> <<>>, flag |-> FALSE]
Indexed(kind, op, arity, index) == [Proto(kind, op, arity) EXCEPT !.index = index]
Flagged(kind, op, flag) == [Proto(kind, op, 1) EXCEPT !.flag = flag]

\* The index vectors: a permutation, one with a duplicate, one out of range.
Indices == {<<2, 1>>, <<2, 2>>, <<0, 3>>}

MCOpNodes ==
  {Proto("apply", op, 2) : op \in {"add", "sub", "mul", "cmp_gt", "max_prop", "shr"}}
  \cup {Proto("apply", op, 1) : op \in {"neg", "sqr", "relu", "bit_not"}}
  \cup {Proto("apply", "select", 3), Proto("apply", "neg", 2), Proto("apply", "div", 2)}
  \cup {Proto("reduce", m, 1) : m \in {"sum", "prod", "max", "min"}}
  \cup {Flagged("scan", m, f) : m \in {"sum", "max"}, f \in BOOLEAN}
  \cup {Flagged("sort", "none", f) : f \in BOOLEAN}
  \cup {Proto("matmul", "none", 2), Proto("iota", "none", 1), Proto("flip", "none", 1)}
  \cup {Indexed("gather", p, 1, x) : p \in {"clamp", "zero_fill", "skip"}, x \in Indices}
  \cup {Indexed("gather", "skip", 2, <<0, 2>>)}
  \cup {Indexed("scatter", c, 2, x) : c \in {"assign", "sum", "max"}, x \in Indices}

MCBinds == {<<7, -8>>, <<100, 3>>}

RecipeRests == nodes = <<>> /\ vals = <<>> /\ unbounded = <<>> /\ error = FALSE

-----------------------------------------------------------------------------
LanesInit ==
  \/ part = "fold" /\ Init /\ CallRests /\ RecipeRests
  \/ /\ part = "scalar" /\ ScalarInit /\ next = 0 /\ sofar = 0 /\ out = <<>>
     /\ FoldRests /\ RecipeRests
  \/ part = "truth" /\ BoolInit /\ FoldRests /\ RecipeRests
  \/ part = "recipe" /\ RecipeInit /\ FoldRests /\ CallRests

LanesNext ==
  /\ UNCHANGED part
  /\ \/ part = "fold" /\ Next /\ UNCHANGED <<boolVars, recipeVars>>
     \/ part = "scalar" /\ Evaluate /\ UNCHANGED <<next, sofar, out, foldVars, recipeVars>>
     \/ part = "truth" /\ BoolNext /\ UNCHANGED <<foldVars, recipeVars>>
     \/ part = "recipe" /\ RecipeNext /\ UNCHANGED <<foldVars, boolVars>>

LanesSpec == LanesInit /\ [][LanesNext]_<<part, foldVars, boolVars, recipeVars>>
=============================================================================
