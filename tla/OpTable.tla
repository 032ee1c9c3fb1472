------------------------------ MODULE OpTable ------------------------------
(***************************************************************************)
(* The operation vocabulary (kiss-ops-vocab lib.rs, decomp.rs): families,  *)
(* the primitive floor, the reference decomposition of every operation     *)
(* that has one, what is read off them, and the operations evaluated       *)
(* directly.                                                               *)
(***************************************************************************)
EXTENDS Integers, Sequences

\* The ops of each family that are in the primitive floor, and the others.
FloorOps ==
  [arithmetic |-> {"add", "sub", "mul", "div", "neg", "abs"},
   select |-> {"select"},
   comparison |-> {"cmp_eq", "cmp_ne", "cmp_lt", "cmp_le", "cmp_gt", "cmp_ge"},
   rounding |-> {"floor", "ceil", "trunc", "round_even"},
   transcendental |-> {"exp", "log", "sin", "cos", "sqrt", "erf", "atan", "lgamma"},
   binary_math |-> {"atan2", "copysign", "nextafter"},
   bitwise |-> {"bit_and", "bit_or", "bit_xor", "bit_not", "shl", "shr", "popcount",
                "clz", "ctz"},
   structural |-> {"element_map", "reduce", "prefix_scan", "gather", "scatter",
                   "sort_network", "concat", "squeeze", "unsqueeze"},
   conversion |-> {"cast"}]

DerivedOps ==
  [arithmetic |-> {"sqr", "recip", "sign"},
   transcendental |-> {"rsqrt", "exp2", "expm1", "log2", "log10", "log1p", "tan", "tanh",
                       "sinh", "cosh", "asinh", "acosh", "atanh", "asin", "acos", "cbrt",
                       "erfc"},
   rounding |-> {"frac"},
   activation |-> {"step", "sigmoid", "relu", "silu", "softplus", "mish", "gelu",
                   "gelu_tanh"},
   minmax |-> {"max_prop", "min_prop", "fmax_ieee", "fmin_ieee"},
   binary_math |-> {"pow", "hypot", "rem_floor", "rem_trunc", "ldexp"},
   logical |-> {"logical_and", "logical_or", "logical_not"},
   reduction |-> {"reduce_mean", "reduce_norm2", "reduce_var", "reduce_std", "logsumexp",
                  "argmax", "argmin", "any", "all"},
   contraction |-> {"matmul"},
   normalization |-> {"softmax", "log_softmax", "rms_norm", "layer_norm"},
   scan |-> {"cumsum", "cumprod", "cummax"},
   window |-> {"avg_pool", "max_pool"},
   gather_scatter |-> {"index_select", "embedding", "scatter_add"},
   shape |-> {"im2col"},
   complex |-> {"cmake", "cre", "cim", "cadd", "csub", "cneg", "cconj", "cmul", "cdiv",
                "cabs", "carg", "cexp", "clog", "csqrt", "cpow"}]

OpsIn(table) == UNION {table[f] : f \in DOMAIN table}

PrimitiveFloor == OpsIn(FloorOps)
Ops == PrimitiveFloor \cup OpsIn(DerivedOps)

OfFamily(op, f) ==
  \/ f \in DOMAIN FloorOps /\ op \in FloorOps[f]
  \/ f \in DOMAIN DerivedOps /\ op \in DerivedOps[f]

IsComplex(op) == OfFamily(op, "complex")

\* Mutant: atan2 is no transcendental atom.
HasUlpCeilingOfAtoms(op) == op \in {"sqrt", "exp", "log", "sin", "cos", "atan", "erf", "lgamma"}

\* The operations with a declared tolerance.
HasUlpCeiling(op) == op \in {"sqrt", "exp", "log", "sin", "cos", "atan", "erf", "atan2", "lgamma"}

-----------------------------------------------------------------------------
(***************************************************************************)
(* Expr: a leaf is an operand or a constant, a node applies an op.  Of a   *)
(* constant nothing is kept but that it is one.                            *)
(***************************************************************************)
Input(i) == [leaf |-> "input", index |-> i]
Const == [leaf |-> "const"]
IsLeaf(e) == "leaf" \in DOMAIN e
Apply(op, args) == [op |-> op, args |-> args]

X == Input(0)
Y == Input(1)
U(op, a) == Apply(op, <<a>>)
B(op, a, b) == Apply(op, <<a, b>>)
IfElse(c, a, b) == Apply("select", <<c, a, b>>)

PickMinmax(cmp, nanA, nanB) ==
  IfElse(B("cmp_ne", X, X), nanA, IfElse(B("cmp_ne", Y, Y), nanB, IfElse(B(cmp, X, Y), X, Y)))
ExpPair(op) == B(op, U("exp", X), U("exp", U("neg", X)))
HalfX == B("mul", Const, X)

\* Mutant: each inverse is read off the other.
AsinByAcos == B("sub", Const, U("acos", X))

Asin == U("atan", B("div", X, U("sqrt", B("sub", Const, U("sqr", X)))))

\* reference_decomposition_src, parsed.
Decomposition ==
  [sqr |-> B("mul", X, X),
   recip |-> B("div", Const, X),
   rsqrt |-> B("div", Const, U("sqrt", X)),
   frac |-> B("sub", X, U("trunc", X)),
   sign |-> IfElse(B("cmp_gt", X, Const), Const, IfElse(B("cmp_lt", X, Const), Const, Const)),
   step |-> IfElse(B("cmp_gt", X, Const), Const, Const),
   max_prop |-> PickMinmax("cmp_ge", X, Y),
   min_prop |-> PickMinmax("cmp_le", X, Y),
   fmax_ieee |-> PickMinmax("cmp_ge", Y, X),
   fmin_ieee |-> PickMinmax("cmp_le", Y, X),
   exp2 |-> U("exp", B("mul", X, Const)),
   expm1 |-> B("sub", U("exp", X), Const),
   log2 |-> B("div", U("log", X), Const),
   log10 |-> B("div", U("log", X), Const),
   log1p |-> U("log", B("add", Const, X)),
   tan |-> B("div", U("sin", X), U("cos", X)),
   tanh |-> B("div", ExpPair("sub"), ExpPair("add")),
   sinh |-> B("div", ExpPair("sub"), Const),
   cosh |-> B("div", ExpPair("add"), Const),
   asinh |-> U("log", B("add", X, U("sqrt", B("add", U("sqr", X), Const)))),
   acosh |-> U("log", B("add", X, U("sqrt", B("sub", U("sqr", X), Const)))),
   atanh |-> B("mul", Const, U("log", B("div", B("add", Const, X), B("sub", Const, X)))),
   asin |-> Asin,
   acos |-> B("sub", Const, U("asin", X)),
   cbrt |-> B("mul", U("sign", X), U("exp", B("div", U("log", U("abs", X)), Const))),
   erfc |-> B("sub", Const, U("erf", X)),
   sigmoid |-> U("recip", B("add", Const, U("exp", U("neg", X)))),
   relu |-> IfElse(B("cmp_lt", X, Const), Const, X),
   silu |-> B("mul", X, U("sigmoid", X)),
   softplus |-> U("log", B("add", Const, U("exp", X))),
   mish |-> B("mul", X, U("tanh", U("softplus", X))),
   gelu |-> B("mul", HalfX, B("add", Const, U("erf", B("div", X, Const)))),
   gelu_tanh |-> B("mul", HalfX, B("add", Const,
                    U("tanh", B("mul", Const, B("add", X, B("mul", Const,
                       B("mul", X, U("sqr", X)))))))),
   pow |-> U("exp", B("mul", Y, U("log", X))),
   hypot |-> U("sqrt", B("add", U("sqr", X), U("sqr", Y))),
   rem_floor |-> B("sub", X, B("mul", U("floor", B("div", X, Y)), Y)),
   rem_trunc |-> B("sub", X, B("mul", U("trunc", B("div", X, Y)), Y)),
   ldexp |-> B("mul", X, U("exp2", Y)),
   logical_and |-> B("mul", B("cmp_ne", X, Const), B("cmp_ne", Y, Const)),
   logical_or |-> B("min_prop", Const, B("add", B("cmp_ne", X, Const), B("cmp_ne", Y, Const))),
   logical_not |-> B("cmp_eq", X, Const)]

-----------------------------------------------------------------------------
(***************************************************************************)
(* What the float lane computes directly (resolve.rs), over values of      *)
(* which only the NaN is kept: a value is a number, a NaN MOVED bit for    *)
(* bit from an operand (maybe signaling), or a NaN MINTED by a computation *)
(* (quiet).  Which arm a select takes, and whether an operation on numbers *)
(* yields a NaN, is a choice.                                              *)
(***************************************************************************)
Values == {"number", "moved", "minted"}
Lanes == {"wide", "narrow"}   \* f32 and f64; f16, bf16 and the FP8 types

\* is_float_floor_atom
FloatFamilies == {"arithmetic", "select", "comparison", "rounding", "transcendental",
                  "binary_math"}
IsFloatFloorAtom(op) ==
  op \in PrimitiveFloor /\ \E f \in FloatFamilies : OfFamily(op, f)

Refined == {"tanh", "sinh", "cosh", "softplus", "silu", "mish", "expm1", "log1p", "pow",
            "hypot", "ldexp"}
IsRefined(op) == op \in Refined

IsDirect(op) == IsFloatFloorAtom(op) \/ IsRefined(op)

UnaryAtoms == {"neg", "abs", "floor", "ceil", "trunc", "round_even", "exp", "log", "sin",
               "cos", "sqrt", "erf", "atan", "lgamma", "tanh", "sinh", "cosh", "softplus",
               "silu", "mish", "expm1", "log1p"}
AtomArity(op) == IF op = "select" THEN 3 ELSE IF op \in UnaryAtoms THEN 1 ELSE 2

MovesFirst(op) == op \in {"neg", "abs", "copysign"}
IsRounding(op) == op \in FloorOps.rounding
IsComparison(op) == op \in FloorOps.comparison

\* An operand as the computation receives it: the narrow lanes widen it to f32
\* first, which quiets a NaN.
Promoted(v, lane) == IF lane = "narrow" /\ v = "moved" THEN "minted" ELSE v

\* libm may hand back its NaN argument unchanged.
NansOf(vals, lane) ==
  {Promoted(vals[i], lane) : i \in DOMAIN vals} \ {"number"}

\* The values a direct operation may have before its result is quieted.
Computed(op, vals, lane) ==
  CASE op = "select" -> {vals[2], vals[3]}
    [] MovesFirst(op) -> {vals[1]}
    [] IsComparison(op) -> {"number"}
    [] IsRounding(op) -> IF vals[1] = "number" THEN {"number"} ELSE NansOf(vals, lane)
    [] OTHER -> {"number", "minted"} \cup NansOf(vals, lane)

Quiet(v) == IF v = "moved" THEN "minted" ELSE v
=============================================================================
