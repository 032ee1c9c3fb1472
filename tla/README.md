# kiss-ref: a TLA+ verification project

kiss-ref is the reference implementation of the KISS operation vocabulary: a
library that evaluates single operations, tensor kernels and whole recipe DAGs
exactly as the specification defines them, so that other implementations can be
compared with it.  It never panics by contract: every failure is a typed `Error`
(`crates/kiss-ref-core/src/lib.rs`).  It is sequential, keeps no state between
calls and does no I/O; what is hard in it is order (which node, element or tap is
read and written when), boundaries (widths, empty extents, out-of-range indices,
rounding) and honesty (the determinism class, dtype, error or verdict reported
must be true of what was computed).

Paths below are relative to `src/crates/`; `core/` stands for
`kiss-ref-core/src/`.

## 1. The system

| Component | Source | State and operations | What makes it correct | Status |
|---|---|---|---|---|
| Recipe evaluator, float lane | `core/recipe.rs`, `core/bridge.rs` | `memo`, `imemo`, `state`, `stack`; pre-validation, worklist, outputs, determinism classes, output dtypes | post-order, no false cycle, termination, honest error, classes joined along every path | modelled, tensor values abstracted |
| Recipe evaluator, integer lane | `core/recipe_int.rs` | the same worklist; one declared dtype per node | every value exact modulo its node's dtype | modelled on vectors |
| Integer scalars | `core/scalar_int.rs` | `wrap`, `eval_int_op` | two's complement at any width; the decomposition of each operation | modelled |
| Bool lane | `core/boolean.rs` | truth normalisation, `eval_bool_op`, the folds | results stay truth values | modelled |
| Tensors and views | `core/tensor.rs` | shapes, strides, broadcasting, the odometer | every coordinate visited once, in order, never out of the buffer | modelled |
| Structural kernels, both lanes | `core/kernels.rs`, `core/tensor_ops.rs`, `core/tensor_int.rs` | loops of map, reduce, scan, gather, scatter, sort, argmax, matmul, flip; concat, squeeze and unsqueeze of `core/cast.rs` | agreement with index-wise definitions, duplicates and out-of-bounds indices, order independence of integers | modelled; the float composites are not |
| Windows, both lanes | `core/window.rs`, `core/tensor_int.rs` | output extents, taps | floor arithmetic, padding, dilation at the borders | modelled |
| Accumulation in a wider dtype | `core/kernels.rs`, `core/tensor_ops.rs` | `guard_accumulator`, widening, the fold, narrowing | only the result rounds | modelled |
| Casts | `core/cast.rs` | decode, round, saturate, encode | the right value, ties to even, overflow, NaN payloads | modelled |
| FP8 codecs | `core/fp8.rs` | narrowing, widening | agreement with the cast, round trips | modelled |
| Float scalars | `core/scalar.rs` | arithmetic by promotion, rounding to odd, movement of NaNs | one rounding | modelled without the transcendental functions |
| Complex lane | `core/complex.rs` | arithmetic, roots, powers, Annex G special values | infinities, principal values, conjugation | modelled; library functions are external |
| Resolver and decompositions | `core/resolve.rs`, `kiss-ops-vocab/src/` | recursion of `eval_op`, parser of the decompositions, support and legality tables | it ends; the value is the decomposition's; support says what happens | modelled; of a float only whether it is a NaN and which |
| Random bits | `core/rng.rs` | Philox, counters, masks, uniform and normal fills | positional purity, no word used twice | modelled; the logarithm, root and angle of normals are not computed |
| Differential comparison | `core/diff.rs` | ULP distance, NaN rule, split comparator, reports | a metric; a fair verdict; a true report | modelled |
| Dtype vocabulary | `kiss-classify-vocab` | names, kinds, what declines computation | | the part the tables use |
| Precision classes, error taxonomy, coverage ledger | `kiss-ops-vocab/src/precision.rs`, `core/lib.rs`, `core/attrs.rs`, `kiss-ref-conformance` | tables, enums, a count | spelling | not modelled: no state |

Components meet in plain calls.  The evaluators call the kernels once per node and
read the memos of its children; the kernels read operands through views, walk their
output with the odometer and combine two elements with the resolver (float lane),
`eval_int_op` (integer lane) or the truth operations (bool lane); the resolver
parses the text of a decomposition and evaluates it, down to the atoms of the float
scalars; the accumulating kernels widen and narrow through those scalars; casts and
FP8 codecs work on bit patterns; a differential run asks the resolver for the
reference of every row and then compares bit patterns.  There are no threads,
callbacks into shared state, retries or persistence, so the hazards are those of a
long sequence of steps inside one call: the order of a worklist, the order of an
accumulation, the element at a boundary, one step of several that fails.
`PROJECT.json` lists them line by line under `hazards`, with the properties that
would catch each.

## 2. The modules

Each component has a state machine with one action per operation or loop turn, a
definition of what it promises, and an instance for model checking.  Components of
one layer that share no state are checked by one instance: its variable `part`
names the component that runs, and the others rest (`MCIntegers`, `MCTensors`,
`MCFloats`, `MCResolver`, `MCCompare`).

### Recipe evaluator: `RecipeNodes`, `RecipeSpec`, `RecipeWalk`, `RecipeDets`

`RecipeNodes` is the static side: the lattice of determinism classes, a node as a
record of its kind, operands and index references, `ChildrenOf` (both lanes), the
class of each kind and the dtype of an output.

`RecipeWalk` is `eval_recipe` and `eval_recipe_int`, which share their loop.  Its
variables are those of the code (`memo`, `imemo`, `state`, `stack`, the stage of the
call and its result) and each way through an iteration is an action: `PopDone`,
`Compute`, `CycleError`, `Expand`, then `PushChild`, `SkipChild` or `BadChild` per
child, and `Finish` when the outputs are read.  Tensor values are left out: whether a
kernel fails at a node is a nondeterministic choice, which is every outcome the code
can have there.

`RecipeSpec` is the abstract specification: evaluate any node whose operands are
evaluated, or decline for a reason that is true of the graph, or succeed.  It has no
stack and no order.  The worklist is shown to implement it under the identity mapping
of the memos.

`RecipeDets` adds the classes and dtypes memoized during the walk, and compares them
with a definition by paths: a class is what the paths from the node contribute.

The test `idx >= n` after a pop (recipe.rs:451) never succeeds, since starts and
children are tested before they are pushed: `TypeOK` says that every popped index is
in range, for every recipe.

### Integer and bool lanes: `TwosComplement`, `IntDtype`, `IntScalar`, `IntScalarCheck`, `BoolLane`, `IntFold`, `IntRecipe`

`TwosComplement` is `wrap` and the bounds at a width.  `IntDtype` holds the
operations that fold, and `IntScalar` the whole of `eval_int_op`, both computed in a
lane of a width of its own (`i128` in the code) that itself overflows.
`IntScalarCheck` compares them with bit-by-bit circuits and evaluates the
decompositions of `kiss-ops-vocab/src/decomp.rs` over them; the recursion of
`eval_int_expr` is written out to the four levels the deepest of them has (`EvalOne` to
`EvalIntExpr`), so that it can be proved about.  The one exception is
`logical_or` on a single signless bit, whose decomposition adds 1 to 1; the code
never evaluates it there, since the bool lane works in i64.

`BoolLane` is `norm`, `eval_bool_op` with its normalisation before and after the
integer operation, and the folds any, all and cummax along a line, whose accumulator
starts at a bound of the wide integer and must still come out a truth value.

`IntFold` is one accumulation as `reduce`, `matmul` and `scatter` do it, cell by cell
in ANY order, so that what depends on the order shows.  `IntRecipe` is
`compute_node_int` over vectors with one dtype per node; beside the tensor of each node
it carries what unbounded integers would have given (`unbounded`), which only the
properties read.

### Tensors, kernels and windows: `Tensor`, `Kernels`, `KernelSpec`, `Window`

`Tensor` holds `numel` with its overflow, strides, `broadcast_to`, `broadcast_shapes`
and reads; its last section is a reference, the coordinates of a shape and a count of
them by cardinality.  `Kernels` is a state machine with one step per element written, for
element_map, reduce, prefix_scan, gather, scatter, sort_network, argmax, matmul, flip,
concat, squeeze and unsqueeze, each with its checks in their order, the buffers it allocates and the
allocator's refusal.  Elements are symbolic: a cell holds the sequence of input
positions combined into it, so a wrong position, a wrong order or a duplicate is
visible.  `KernelSpec` says index by index what every cell must hold, and of an error
which faults of the call it names: a `ShapeOverflow` is reported only when a count really
passes the greatest `usize` before any extent of zero is met (counted by coordinates, not
by the product the code forms) or when the allocator refuses a buffer that is not empty,
and no call returns whose count runs over.  `Window` says the same of its own counts.  Two checks in
the code never fire: the rank test and one of the broadcast tests of matmul are
implied by earlier ones.

`Window` is `pool_out_dim`, `tap_pos` with the wrapping of `isize`, and the loops of
avg_pool, max_pool and im2col, one tap per step, again over symbolic elements; its
second half gives the placements of a window and its taps in exact arithmetic.

### Bit patterns: `Cast`, `CastSpec`

`Cast` decodes a pattern to `±mant * 2^exp`, rounds once and encodes, for every
dtype class; a float pattern is the record of its fields.  Its second half is the
separate rounding and decoding of `fp8.rs`.  `CastSpec` is `cast_tensor`, and its properties
look the result up among all values of the destination, scaled to integers.  A shift by
`k` is a multiplication or division by `Power[k]`, the power of two as a recursive
function, which the proofs can unfold.

### Float lanes: `NarrowFloat`, `NarrowSpec`, `Accumulate`, `Complex`

`NarrowFloat` is the arithmetic of `scalar.rs` on exact values: decode, compute in
the wide format, round, and the narrowing of an f64 through f32 rounded to odd
(`round_to_odd_f32`).  `NarrowSpec` performs one conversion or one operation and
compares it with the exact result rounded once.

`Accumulate` is reduce_ref, prefix_scan_ref and matmul_ref: the guard on the
accumulator's dtype, the shortcut to the plain kernel, the widened fold one element at
a time, and what is narrowed and written.  It works along the line of one cell;
which elements make the line is `Kernels`' subject.

`Complex` is every operation of `complex.rs` with every special row, over one lane
format in which sums, products, quotients, moduli and square roots are rounded
exactly.  exp, log, sin, cos and atan2 are the library's: each call gets a record of
what they return at its argument.

### Resolution: `OpTable`, `ResolverSpec`, `Resolver`, `Parser`

`OpTable` holds the 126 operations, the floor atoms with their NaN behaviour and the
decomposition of every other operation as a tree.

`Resolver` begins with what the library says of itself (`legality`, `implemented_on`,
`support` and the recursion of `float_supported` with its budget) and is then the
recursion of `eval_op` one call or return at a time, with the Rust
call stack as a variable.  A float is reduced to whether it is a number, a NaN as it
was given, or a NaN that something computed: which is all that the NaN rule tells
apart.  `ResolverSpec` states in one step what a call must return, and the resolver is
shown to implement it under a mapping of the stack to the pending outcome.

`Parser` is the recursive descent of `decomp.rs` over tokens, one token, opening or
closing at a time.  `ParsesTheGrammar` compares it with a grammar written as sets of
trees.

### Random bits: `RandomFill`

Philox-4x32-10 over words of any width and any mix that undoes itself (`XorOf`; the run
takes the exclusive or), `derive_counter`, and the fills: raw words, a
Bernoulli mask, uniform values and Box-Muller pairs, one element or pair per step,
with refused allocations.  A normal value is named by the two uniform values it is
computed from and the arm it takes.  What a mask holds is compared with the words of its
elements as a backend draws them, and with the uniform values of the same elements.

### Differential comparison: `Ulp`, `UlpSpec`, `DiffSpec`

`Ulp` holds the keys, the ULP distance, the two NaN comparators, the tolerance and
the split comparator of the complex lanes as functions of a format.  `UlpSpec`
compares two patterns and places every number on the line by its fields, which the
distance is compared with; `DiffSpec` is a run: the reference of every row with the
errors of the resolver, then the comparison of the candidate row by row into a
report.  The pair a report keeps is widened to f64, which leaves a number as it is but may
change the bits of a NaN, so of a NaN `Shown` keeps only that it is one.

## 3. What the runs check

| Run | Question | Properties |
|---|---|---|
| `walk` | Does the worklist order, bound, end and report any graph rightly, and implement the specification? | `VerdictSound`, `HeapBound`, `OperandsReady`, `ImplementsSpec`, `Terminates` |
| `dets` | Are classes and dtypes those the paths of the recipe give? | `DetsArePathwise`, `SelectionsAreNeverUlp`, `DtypeIsInherited` |
| `integers` | Do folds hold the truncation of the exact result in any order, is every operation its circuit and its decomposition, do truth operations give truth, are recipes exact modulo their widths? | `TruncatesExactly`, `StaysInDtype`, `OrderIndependent`, `MatchesCircuit`, `DecompositionsAgree`, `TruthIsKept`, `RecipeIsExact` |
| `tensors` | Does every kernel return what the index-wise definition says, or an error that is its own?  Do extents count placements, and windows list exactly their taps? | `ResultIsSpec`, `FaultsAreNamed`, `OutputCountsPlacements`, `TapsAreExact`, `CellsAreCovered` |
| `cast` | Is every conversion the one correct rounding, and does what fits survive? | `CorrectlyRounded`, `ValuesAreKept`, `Fp8AgreesWithCast` |
| `floats` | Do narrow floats round once, does a wide fold round only its result, do complex operations keep Annex G, the principal root and conjugation? | `RoundsOnce`, `AdmittedHoldsStorage`, `OnlyTheResultRounds`, `InfinitiesAreRecovered`, `RootIsPrincipal`, `ConjugatesAgree` |
| `resolver` | Does `eval_op` end with the value of the decomposition, and do the tables say what it does?  Does the parser accept exactly the grammar? | `SupportIsHonest`, `NanPayloadAsDeclared`, `ParsesTheGrammar`, `ImplementsDecomposition`, `EveryCallEnds` |
| `compare` | Is the distance a count of numbers, the verdict fair, the report true of its rows? | `DistanceCountsNumbers`, `VerdictIsFair`, `ReportIsTrue` |
| `random` | Does an element depend on its index alone, is every word used once, do masks and uniform values agree? | `PositionPure`, `CellsAreApart`, `MaskIsUniformBelow` |

Every property has one mutant or more under `mutants`: a plausible slip in the code
(a dropped check, an off-by-one, a swapped order) under which it fails.

Three runs show a disagreement between the code and what a comment says of it:

- `kernels_count`: an axis listed twice is folded once and counted twice, so a mean
  over `[0, 0]` divides by `n * n`.
- `complex_div`: the third recovery of `cdiv` adds before it multiplies by zero, so
  the largest finite value over a complex infinity has a NaN lane where the comment
  promises a complex zero (complex.rs:225).
- `ulp_split`: the split comparator of the complex lanes compares magnitudes
  everywhere and signs only at a zero or at the end of the branch, so -1 conforms
  to 1; the comment (diff.rs:850-852) speaks of the two places where a comparator of
  magnitudes is blind.

### Observations

Met while modelling, built into the models as the code has them, without a run of
their own:

- A scan and a sort allocate with `vec![...]` where tensor.rs:39-42 says every
  shape-sized buffer must go through `alloc_exact`; a refused allocation aborts
  (actions `Refuse` and `RefuseLine` of `Kernels`).
- In an integer recipe a moving node (flip, gather, select, relu, max, ...) hands on
  its child's elements unwrapped, so a narrower declared dtype is left; the comment at
  recipe_int.rs:195-197 says the range holds for every node.  `RecipeIsExact` states
  what does hold.
- `tap_pos` loses taps when the extent of a stride-0 view exceeds `isize::MAX`
  (window.rs:91-93); the properties of windows assume extents that fit.
- f4e2m1, f6e2m3 and f6e3m2 are legal but pending for every computing operation, where
  resolve.rs:408-409 says no cell is.
- The rounding atoms on f16, bf16 and f8e5m2 go through f32 and quiet a signaling NaN,
  which `kiss-ops-vocab/src/lib.rs`:301-304 says they move unchanged.
- Under a tolerance the split comparator accepts any NaN for any NaN; diff.rs:145-146
  states the NaN rule for every comparator.
- scalar.rs:398-405 says that a sum of narrow values is exact in f32.  It is not
  (2^-24 + 1 in f16 needs 25 bits); the result is nevertheless rounded once, which is
  what `RoundsOnce` shows.
- When the exponential of a finite real part overflows, `cexp` multiplies infinity by
  the sine of a zero imaginary part and returns a NaN lane; the comment at
  complex.rs:307-309 appeals to the finite path keeping that zero.
- The square root of the largest real is infinity, because the modulus is added to
  the real part before it is halved.
- `any` and `all` over an empty axis return the bounds of the accumulator, i64::MIN and
  i64::MAX, where boolean.rs:14-17 says the folds preserve {0, 1}; `TruthIsKept` states
  what holds of a non-empty line.
- scalar.rs:401-403 says that a narrow quotient rounds twice and may be one ULP off.
  `RoundsOnce` finds no such quotient: f32 has more than twice the bits it would need.
- A right shift of an operand outside its dtype works on the operand, not on its
  pattern, and of a window axis listed twice the last entry counts.

### Bounds, and why they are enough

- Walk: every graph of unary and binary nodes on three nodes, dangling references
  included, the ones without repeated operands on four, and every mixture of index-lane
  nodes on three, malformed ones included.  Four nodes hold a diamond with a chain, a
  cycle that does not pass the root, and a node queued twice before it is expanded; the
  proofs cover every size.
- Dets: four nodes hold every pairing of a source, two intermediate nodes and a sink.
- Integers: i4, u4 and b1, real dtypes of the code, computed in a lane of 8 bits.  The
  lane is twice the widest dtype as i128 is twice u64, which is the situation in which
  products of two operands can overflow it.  The bool lane's i64 has four bits: its
  bounds are what matters of it.
- Tensors: rank up to 3, at most two operands of a map and three of a concat (`MaxOperands`, 4,
  counts a result), a `usize` whose greatest value
  is 8 for the kernels so that counts overflow before buffers grow, extents 0 to 3, and
  stretched views of up to 4 by 4 elements that cannot be counted, one of them with an
  extent of zero after the overflow; a `usize` of five
  bits (an `isize` of at most 15) for the windows, kernels up to wider than the padded
  input.
- Casts: `f4e2m1`, `f6e2m3`, `f6e3m2` and `f8e4m3fn` are the real formats; f16, f32 and
  f8e5m2 are smaller formats of the same shape.  `MantBits` (10) is below the largest
  shift that occurs, `MaxExp` (6) is the least value with the property the code's 100
  has for 64 bits (what exceeds it exceeds every dtype), `FarShift` (6) the least that
  leaves nothing of a significand; so each shortcut is taken.  `Scale` only scales the
  reference values to integers.
- Floats: every format is smaller than the code's and keeps the relations on which the
  arguments rest: the stand-in for f32 has at least twice the significand of the narrow
  type and two bits more, bf16 has the exponents of f32, f16's range is wider than
  f32's significand, and neither of f16 and bf16 holds the other.  `MantBits` and
  `QuotientBits` are wide enough that the reference values are exact.  The complex lane
  has two significant bits and three exponent bits: squares underflow and overflow, and
  every special row is met with every sign.  Folds take lines of three elements.
- Resolver: all operations on up to `MaxOperands` (3) operands, one more than is right
  for most; `MaxStack` (80) is deeper than the deepest decomposition, and a deeper
  recursion would stop the run.  Parser: all texts of up to `MaxTokens` (5) tokens, each
  decomposition in full, and each shorter one with any token missing.
- Compare: all pairs of f8e4m3fn itself and of an IEEE format of seven bits; batches of
  up to three rows at the edges of both FP8 formats.  The proofs cover every format.
- Random: words of three bits, so that 64 elements reach the carry of the block counter
  into its high word; ten rounds, as in the code; thresholds of a mask of 0, 2^32, a
  uniform value and one between two of them.

No run has symmetry.  Deadlock checking is off because a call ends, except in
`resolver`, where a call that has returned keeps its result by stuttering.

### Fairness

`Terminates` (walk) and `EveryCallEnds` (resolver and parser) assume weak fairness of
the whole next-state relation.  The code is one sequential call: a step of it is always
taken when one is possible, and nothing else is assumed of which step.

## 4. What is proved

Each theorem holds for every value of the constants, from named assumptions on them:

| Assumption | What it says, and why the code justifies it |
|---|---|
| `DagsAssumption`, `ArityAssumption` | a recipe is a finite sequence of nodes that name any numbers as operands, dangling and cyclic ones included; no kind of node has more than three, and a move reads one at least |
| `BitsAssumption`, `CallsAssumption` of `IntScalarCheck`, `BoolAssumption` | a dtype has a bit at least, and the number it wraps by is twice the weight of the top one; operands are of the dtype, as many as the operation takes; the accumulator of the bool lane is signed (i64), and stored bools are any of its values |
| `DtypesAssumption`, `LaneAssumption` | widths are positive powers of two, so the lesser divides the greater, each holds the number of its own bits, and the lane's is a multiple of each (i128 over i4 to u64) |
| `RecipeAssumption` | tensors have an element; an operation takes one to three operands, the other nodes as many as their variant in `recipe_int.rs` has fields; what is bound may be any integers |
| `JobsAssumption`, `TermCountAssumption` | a fold is of a finite number of terms, over integers |
| `UsizeAssumption`, `CallsAssumption` of `Window` | a `usize` ends where it wraps; shapes and attributes are sequences of naturals |
| `FormatsAssumption`, `UlpsAssumption`, `RunsAreWellFormed` | a format has a NaN above its greatest magnitude and mantissas to count, tolerances are naturals; batches are patterns of their format |
| `BoundsAssumption`, `RequestsAssumption` | formats have two exponent bits and a mantissa bit at least, infinities exactly with the IEEE reading of NaNs (`float_fmt`), mantissas that fit the decoded width (53 bits in a u128); an integer dtype is at most half the decoded width and within 2^`MaxExp` (64 bits, 127 and 100); `FarShift` is a natural (31); what is converted are patterns of the source |
| `LanesAssumption`, `WidthAssumption` | the table of `float_format`: a lane has the bias of its exponent width and two exponent bits and a mantissa bit at least; f64 is wider than f32 and f32 than the rest; an FP8 lane is narrower in a field than any other lane, and e4m3, which has no infinities, in the exponent; a decoded mantissa leaves a bit of u128 unused |
| `LaneAssumption`, `OperandsAssumption` of `Complex` | the lane has infinities (f32 and f64, the lanes of `complex.rs`); the digits counted are enough for exact sums and products of its patterns (`ExactFits`: the code's arithmetic is the machine's, exact before it is rounded); operands, and what the functions outside the code return, are any patterns of the lane, NaNs included |
| `PhiloxAssumption`, `XorAssumption`, `MantissasAssumption`, `CallsAssumption` of `RandomFill` | multipliers are odd, the mix of two words commutes and undoes itself, the mantissas divide the words; the block of an element fits two words (a `usize` count over 2^32), thresholds are naturals |

Of the 40 properties the runs check, twenty-nine are theorems.

| Component | Property | Theorem | Inductive invariant and the step that carries it |
|---|---|---|---|
| worklist | `OperandsReady`, `VerdictSound`, `ImplementsSpec` | `WalkOperandsReady`, `WalkVerdicts`, `WalkImplementsSpec` | `WalkInv` |
| worklist | `HeapBound` | `WalkHeapBound` | `WaitsForItsEdges`: what waits above an expanded entry |
| classes, dtypes | `DetsArePathwise`, `SelectionsAreNeverUlp`, `DtypeIsInherited` | `WalkDetsArePathwise`, `WalkSelections`, `WalkDtypes` | `MemoIsNodeDet`; the cone of a node is the least closed set |
| integer folds | `TruncatesExactly`, `StaysInDtype`, `OrderIndependent` | `FoldTruncates`, `FoldStaysInDtype`, `FoldIsOrderIndependent` | `FoldInv`, `PartlyFolded` |
| integer recipes | `RecipeIsExact` | `RecipesAreExact` | `RecipeInv` |
| integer scalars | `MatchesCircuit`, `DecompositionsAgree` | `ScalarsMatchCircuits`, `ScalarsAreDecomposed` | the answer is that of the call; the content is in the lemmas on digits and on decompositions |
| bool lane | `TruthIsKept` | `BoolLaneKeepsTruth` | `BoolInv`: the accumulator is its bound or the truth of the elements folded |
| windows | `TapsAreExact`, `OutputCountsPlacements`, `CellsAreCovered` | `TapsAlwaysExact`, `ExtentsAlwaysCountPlacements`, `CellsAlwaysCovered` | `CallInv`, `CellInv` |
| comparators | `VerdictIsFair`, `DistanceCountsNumbers` | `VerdictsAreFair`, `DistancesCountNumbers` | the types; the content is in the lemmas on keys and places |
| reports | `ReportIsTrue` | `ReportsAreTrue` | `RunInv` |
| conversions | `CorrectlyRounded`, `ValuesAreKept`, `Fp8AgreesWithCast` | `CastIsCorrectlyRounded`, `CastKeepsValues`, `Fp8AlwaysAgrees` | `CastInv`: every pattern written is the conversion of its element; the content is in the lemmas on rows |
| wide folds | `AdmittedHoldsStorage` | `AdmittedAlwaysHolds` | `Admitted`: what the guard said of the request; the content is in the lemmas on widening |
| complex lane | `ConjugatesAgree`, `InfinitiesAreRecovered` | `ConjugatesAlwaysAgree`, `InfinitiesAlwaysRecovered` | `Called`: operands are patterns of the lane and the result is that of the call; the content is in the lemmas on signs and on kinds |
| random fills | `PositionPure`, `CellsAreApart`, `MaskIsUniformBelow` | `FillsArePure`, `FillsAreApart`, `FillsAgree` | `FillInv` |

- `RecipeProofs`.  `Join` is a semilattice (`JoinSemilattice`), so a class does not
  depend on the order of operands; `SelectionEscalates`; and for every set of recipes,
  `WalkTypeOK`, `WalkInvariant` and the theorems above.  `WalkInv` says that the entries
  of the stack that are being visited form a path of the graph, that each visited node's
  remaining children lie above it, and that a node is done exactly when it is memoized.
  Neither "operands are ready" nor "a cycle error is a cycle" is inductive without it:
  both look at what was pushed many steps earlier.  The refinement maps `Compute` to
  `Evaluate`, the errors to `Decline`, a successful `Finish` to `Succeed` and every other
  action to a stutter.  For the bound, `WaitsForItsEdges` says that above an expanded
  entry, up to the next one, lie no more entries than its node has edges; of the last one,
  the children still to be scanned are counted too.  That no node is charged twice, with
  repeated operands and on cycles, holds because a node is expanded once.
  Of the classes, the reference takes a class from every node that paths can reach, a
  set defined as the intersection of the closed sets that hold the node.  It splits at
  the node into those of its operands (`ConeSplits`), which is where sharing could be
  counted wrongly and is not, since the join is idempotent; the dtype's recursion with
  fuel is compared in the same way with the least set closed under moves.
- `NumberLemmas`, `IntegerProofs`.  Wrapping is a congruence (`AddTruncates`,
  `MulTruncates`), and from it, for every job over every set of dtypes, cells and terms,
  `FoldTypeOK` and the theorems above; the accumulator is the truncation of the exact
  fold the model carries along, which a single wrapped step can only keep because the
  lane's width is a multiple of the dtype's.  For the order, `PartlyFolded` says what a
  cell holds of any SET of terms: the row-major fold over them, or an extreme of them.
  For the scalars, what an operation gives is of the dtype, whatever its operands, save for
  the few that hand elements on (`EvalIntInDtype`).  A decomposition is evaluated level by
  level down to its inputs, and what is left is a case distinction over the integers.
  For the bool lane, `BoolInv` follows the fold element by element from the bound of the
  accumulator, which no truth value reaches: after one element it is gone.  The circuits
  rest on the digits of a number: weights double from position to position, a pattern is
  the sum of the weights of its ones, and two numbers have the same pattern exactly when
  they agree modulo the width (`BitsAreDigits`, `BitsOfCongruent`), so the wide lane and
  its wrapping disappear.  What the carries below a position stand for is what the
  operands overflow there (`CarryRun`, `AdditionIsCarried`); a product is the sum of
  shifted operands, one digit after the other (`PartialSumsRun`); and of two patterns
  the highest position where they differ decides the order, a sign bit the other way
  (`TopDigit`, `OrderIsDecided`).
- Recipes of the integer lane, in `IntegerProofs` too.  Every kernel first for one dtype:
  what it gives is of the dtype (`ScatterInDtype`, `SortMoves`: a sort is a rearrangement because an
  ordering of a line exists, `LineCanBeSorted`); and those that add and multiply give the
  truncation of the exact result (`FoldedTruncates`, `DotTruncates`).  `RecipeInv` adds to
  `RecipeIsExact` what a ring node may start from: a leaf is the truncation of what was
  bound, and any other node is its own reference.  The step that is not local is that a
  chain whose widths narrow loses nothing (`KidsAgree`): a truncation agrees with what it
  truncates up to multiples of any lesser width, and of no greater one, which is why
  `Traced` asks for widths that do not grow.
- `WindowProofs`.  `PoolOutDimCounts`, `PoolOutDimFits` (the last checked addition of
  `pool_out_dim` is dead), `TapPosExact`, and the theorems above for every rank.  `CallInv`
  carries what the checks of a call established to its later steps: extents fit an
  isize, the output extent is the one computed.  `CellInv` says of every cell written, and
  of the part of the window walked for the current one, that it holds exactly the inputs
  covered, in order; it rests on the odometer (`DecodeInRange`, `ProductRuns`) visiting
  every place of the window once.
- `CastProofs`.  The rounding core, for every mantissa and unit, which no enumeration
  reaches: `NearestIsClosest`, `DirectedIsTight`, `RoundingKeepsOrder`,
  `FarShiftsRoundAlike`; and `IntegersStoreTheValue` for every integer width.  From it, the
  whole conversion.  The line of magnitudes is cut into rows, one for each exponent, on
  which the numbers of a format are the multiples of one unit (`RowsNest`, `LatticeIs`); the code
  picks the row of the exact value (`RowIs`), rounds to a multiple of its unit
  (`RoundedOnRow`) and a carry leads to the first number of the next row (`CarryIs`).  Since the
  bounds of a row are numbers of the format, the multiple nearest in the row is the nearest
  of all (`NearestNumber`, `DirectedNumber`); and the comparison of fields in `Fit` is true
  exactly of what rounds past the largest (`PastIs`, `BeyondIs`).  Integers need that giving up
  above 2^`MaxExp` is giving up outside the dtype (`TooLargeIsOutside`).  `CastInv` says of
  every pattern written that it is the conversion of its element, and of a declined call
  that it names the fault of the request or of the element it stopped at.  A value comes back
  because a number of the source is its own rounding (`FloatTakesBack`, `IntTakesBack`).
  The rounding of `fp8.rs`, by a round bit and sticky bits, is the same rounding (`KeptIs`);
  its two paths are the lowest row and the others (`KeptOnRow`, `RoundMagIs`), and beyond
  `FarShift` nothing is left of a significand shorter than it (`FarIsZero`: the 24 bits of
  an f32 and 31), which `NarrowsTo` asks of the wider format.  Since a row has one pattern for
  a magnitude (`MagnitudeTells`), equal values are equal patterns.
- `FloatProofs`, folds.  `guard_accumulator` compares two pairs of widths and says with it that a
  value survives three conversions: to f64, to f32 and to the accumulator.  That an admitted
  dtype keeps it (`AdmittedHolds`) follows a value through them as `k * 2^x` with `k` and `x`
  in the range of the storage dtype: the pattern that stands for it may spread `k` over more bits
  (a subnormal becomes normal), but rounding such a pattern drops zeros only
  (`ExactUnits`, `PassesOn`).  For the converse a witness suffices: the greatest power of two
  of the storage dtype becomes infinite or saturates (`TooFewExponents`, `Saturates`), and one
  with its last bit is rounded to one on the way (`TooFewBits`, `LeadingPasses`), by
  the rounding of `fp8.rs` too (`KeptAtOne`).
- `FloatProofs`, the complex lane.  Conjugation is a change of sign of one lane, and the
  proof follows the sign through each layer: a pattern of the other sign has the value of
  the other sign (`MinusDecodes`), products, quotients and sums of values with other signs
  have the other sign (`ProductMinus`, `QuotientMinus`, `SumMinus`) and rounding to even does
  not look at the sign (`MinusRounded`).  Two facts keep this from being immediate.  A NaN has
  the sign the code gives it, not that of its operands, so the relation is "of opposite
  signs, or both NaN"; and a sum that cancels is a positive zero for both, so it must be
  weakened to "or both zero" as soon as sums occur, and every later operation must keep the
  weaker relation (`MulAlike`, `DivAlike`, `AddAlike`): a product or quotient by zero is a
  NaN for either sign, but a division by a zero would give infinities of two signs,
  which `cdiv` avoids and `DivAlike` assumes away.  The special rows are then compared one by one
  (`MulConj`, `DivConj`, `ExpConj`, `SqrtConj`, ...), and since their conditions are on
  patterns, what is rounded must be shown to be one (`RoundedIsPattern`).
- `FloatProofs`, infinities.  `MulKinds`, `AddKinds` and `DivKinds` say whether what an operation
  gives is finite, infinite or a NaN; with them an infinite operand leaves in each lane an infinity or
  a NaN (`ProductInfinite`), and the recovery of Annex G is reached exactly when both are NaNs.
  What the recovery computes is the delicate step: it multiplies a boxed infinity, whose
  lanes are ones and zeros, by the other operand and scales the result by an infinity, which gives
  two NaNs again if both lanes had cancelled or overflowed to NaN.  They cannot have
  (`NotBothVanish`): a product by one is the operand itself, unrounded (`TimesUnit`,
  `Reencoded`), a rounded sum is zero only if the exact sum is (`FiniteSum`; rounding takes nothing that
  is a multiple of the least unit to zero, `UnitsAbove`), and the sum and the difference of
  two numbers that are not both zero are not both zero.  The other direction, a finite value over an infinity, needs
  the lanes' magnitudes to be addable, and this is all it needs (`PartsAdd`); without
  it the result is a NaN, which the run `complex_div` shows.
- `CompareProofs`.  The ULP distance is a metric on the numbers
  (`DistanceIsSymmetric`, `DistanceSeparates`, `DistanceIsTriangular`), and its sentinel is
  the distance of no two numbers (`SentinelMarksNan`).  The step of `VerdictsAreFair` that is
  not arithmetic is `DistanceOnOneSide`: on one side of zero the distance of two patterns
  is that of their magnitudes, which is what lets the split comparator look at magnitudes
  and still be exact on the branch cut.  `DistancesCountNumbers` shows that values grow
  with magnitudes across the change of exponent (`SignificandGrows`), that keys order the
  patterns as values do, and that the keys between two numbers are all taken, so that
  the distance is a cardinality.  A report is true because `RunInv` relates it to the
  rows compared so far, and a declined run to the rows evaluated so far.
- `RandomProofs`.  `FillInv` says that every raw word, mask bit, uniform value and pair
  written is that of its own index, whatever was drawn before, and that a returned fill has
  as many elements as its shape.  The mask agrees with the uniform values because a word
  lies in the step above its uniform value (`WordInItsStep`).  That no two elements share a block needs
  the ten rounds to be invertible, round by round from the inverses of the multipliers.

Induction is by the least counterexample (`LeastNatural`) and recursive definitions are
unfolded through the existence of a solution (`RecursionOverInterval`), both in
`NumberLemmas`, which also holds what the circuits need of digits to the base two and
of the carry of one column (`AddColumn`), and what the float formats need of `Power`.

Model-checked only:

- `Terminates` and `EveryCallEnds` (liveness is outside the prover);
- `ImplementsDecomposition`, `SupportIsHonest`, `NanPayloadAsDeclared` and
  `ParsesTheGrammar` (recursion over trees);
- `ResultIsSpec` and `FaultsAreNamed` of the kernels (a dozen loops over positions counted by
  cardinalities, and a sort);
- `RoundsOnce` and `OnlyTheResultRounds`: their reference is the exact result of an
  operation, of which the conversions' theorem is one of several steps;
- `RootIsPrincipal` of the complex lane: it needs that rounding is monotone through a root.

## 5. What is not modelled, and why

The transcendental functions and the composites of `tensor_ops.rs` made of them
(softmax, layer_norm, logsumexp, variance and norm) are real arithmetic: at a width TLC
can enumerate they say nothing about the code.  So are the logarithm, root and angle of
`normal_f32`.  `concat_dtype` is the first of some dtypes or a mismatch.  The index lane
of an integer recipe is an external index vector.  The vocabularies are tables; the
conformance crate reports; the error and precision types have no state.

The walk abstracts tensor values; the kernels abstract elements; the resolver abstracts
numbers; the casts leave the allocation of the result to the kernels' model.

## 6. Plan

Written: the walk and its specification, the classes, the integer and bool lanes, the
kernels, the windows, the casts, the float lanes, the complex lane, the resolver and the
parser, the random fills, the comparators and their reports.

To come:

1. Proofs: the indices of the kernels, for the half of `FaultsAreNamed`
   that says no loop misses a buffer.
2. The index lane of integer recipes.
