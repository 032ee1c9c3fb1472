--------------------------- MODULE IntScalarCheck ---------------------------
(***************************************************************************)
(* One scalar call at a time, against two references: circuits over the    *)
(* bits of the operands, and the section 6.13 decomposition of the derived *)
(* operations, evaluated by eval_int_expr over the same atoms.             *)
(***************************************************************************)
EXTENDS IntScalar

CONSTANT ScalarCalls   \* records op, dtype, args

\* The calls have operands of the dtype, as many as the operation takes.
ASSUME CallsAssumption ==
  \A c \in ScalarCalls :
    /\ c.op \in IntSupported /\ c.dtype \in Dtypes
    /\ c.args \in [1..Arity(c.op) -> Lowest(c.dtype)..Highest(c.dtype)]

VARIABLES
  call,
  answer   \* <<>>, then the value of the call in a sequence of one

ScalarInit == call \in ScalarCalls /\ answer = <<>>

Evaluate ==
  /\ answer = <<>>
  /\ answer' = <<EvalInt(call.op, call.dtype, call.args)>>
  /\ UNCHANGED call

ScalarSpec == ScalarInit /\ [][Evaluate]_<<call, answer>>

Answered == answer # <<>>
value == answer[1]

\* A call of the integer lane names a dtype, one of the bool lane does not.
OfDtype == "dtype" \in DOMAIN call

-----------------------------------------------------------------------------
\* Circuits: an operand is the set of its one bits.
AddBits(a, b, carryIn, d) ==
  LET carry[k \in 0..d.bits] ==
        IF k = 0 THEN carryIn
        ELSE Truth(k - 1 \in a) + Truth(k - 1 \in b) + Truth(carry[k - 1]) >= 2
      ones(k) == Truth(k \in a) + Truth(k \in b) + Truth(carry[k])
  IN  {k \in Positions(d) : ones(k) \in {1, 3}}

Complement(a, d) == Positions(d) \ a
Shifted(a, n, d) == {k + n : k \in a} \cap Positions(d)
TopBit(d) == d.bits - 1

NegBits(a, d) == AddBits({}, Complement(a, d), TRUE, d)

\* Shift and add, one bit of b after the other.
MulBits(a, b, d) ==
  LET sum[k \in 0..d.bits] ==
        IF k = 0 THEN {}
        ELSE IF k - 1 \in b THEN AddBits(sum[k - 1], Shifted(a, k - 1, d), FALSE, d)
        ELSE sum[k - 1]
  IN  sum[d.bits]

\* The operand differs first, from the top, in a bit b has; a sign bit counts
\* the other way.
LessBits(a, b, d) ==
  \E k \in SymDiff(a, b) :
     /\ \A m \in SymDiff(a, b) : m <= k
     /\ IF d.signed /\ k = TopBit(d) THEN k \in a ELSE k \in b

\* A right shift fills with the sign of a signed operand.
ShrBits(a, n, d) ==
  {k \in Positions(d) : k + n \in a \/ (k + n > TopBit(d) /\ d.signed /\ TopBit(d) \in a)}

Circuit(op, a, b, sh, d) ==
  CASE op = "add" -> AddBits(a, b, FALSE, d)
    [] op = "sub" -> AddBits(a, Complement(b, d), TRUE, d)
    [] op = "neg" -> NegBits(a, d)
    [] op = "abs" -> IF d.signed /\ TopBit(d) \in a THEN NegBits(a, d) ELSE a
    [] op = "mul" -> MulBits(a, b, d)
    [] op = "sqr" -> MulBits(a, a, d)
    [] op = "cmp_lt" -> IF LessBits(a, b, d) THEN {0} ELSE {}
    [] op = "cmp_ge" -> IF LessBits(a, b, d) THEN {} ELSE {0}
    [] op = "max_prop" -> IF LessBits(a, b, d) THEN b ELSE a
    [] op = "shl" -> IF ShiftInRange(sh, d) THEN Shifted(a, sh, d) ELSE {}
    [] op = "shr" -> IF ShiftInRange(sh, d) THEN ShrBits(a, sh, d) ELSE {}

CircuitOps == {"add", "sub", "neg", "abs", "mul", "sqr", "cmp_lt", "cmp_ge",
               "max_prop", "shl", "shr"}

\* The arithmetic done in a wide lane and then wrapped is what a machine of the
\* dtype's own width computes bit by bit: no width, sign or carry goes wrong.
MatchesCircuit ==
  Answered /\ OfDtype /\ call.op \in CircuitOps =>
    LET d == call.dtype
        last == call.args[Len(call.args)]
    IN  Bits(value, d) =
          Circuit(call.op, Bits(call.args[1], d), Bits(last, d), last, d)

-----------------------------------------------------------------------------
\* reference_decomposition of the derived operations the integer path evaluates.
Input(i) == [kind |-> "input", at |-> i]
Const(c) == [kind |-> "const", at |-> c]
App(op, args) == [kind |-> "apply", op |-> op, args |-> args]

A == Input(1)
B == Input(2)
NotZero(e) == App("cmp_ne", <<e, Const(0)>>)
Pick(c, x, y) == App("select", <<c, x, y>>)

Decomposition(op) ==
  CASE op = "sqr" -> App("mul", <<A, A>>)
    [] op = "sign" -> Pick(App("cmp_gt", <<A, Const(0)>>), Const(1),
                           Pick(App("cmp_lt", <<A, Const(0)>>), Const(-1), Const(0)))
    [] op = "step" -> Pick(App("cmp_gt", <<A, Const(0)>>), Const(1), Const(0))
    [] op = "max_prop" -> Pick(App("cmp_ne", <<A, A>>), A,
                               Pick(App("cmp_ne", <<B, B>>), B,
                                    Pick(App("cmp_ge", <<A, B>>), A, B)))
    [] op = "min_prop" -> Pick(App("cmp_ne", <<A, A>>), A,
                               Pick(App("cmp_ne", <<B, B>>), B,
                                    Pick(App("cmp_le", <<A, B>>), A, B)))
    [] op = "fmax_ieee" -> Pick(App("cmp_ne", <<A, A>>), B,
                                Pick(App("cmp_ne", <<B, B>>), A,
                                     Pick(App("cmp_ge", <<A, B>>), A, B)))
    [] op = "fmin_ieee" -> Pick(App("cmp_ne", <<A, A>>), B,
                                Pick(App("cmp_ne", <<B, B>>), A,
                                     Pick(App("cmp_le", <<A, B>>), A, B)))
    [] op = "relu" -> Pick(App("cmp_lt", <<A, Const(0)>>), Const(0), A)
    [] op = "logical_and" -> App("mul", <<NotZero(A), NotZero(B)>>)
    [] op = "logical_or" -> App("min_prop", <<Const(1), App("add", <<NotZero(A), NotZero(B)>>)>>)
    [] op = "logical_not" -> App("cmp_eq", <<A, Const(0)>>)

Derived == {"sqr", "sign", "step", "max_prop", "min_prop", "fmax_ieee", "fmin_ieee",
            "relu", "logical_and", "logical_or", "logical_not"}

\* eval_int_expr: what it does at a node, where Sub is what it does at an operand, and
\* the depths of it that a decomposition reaches.
EvalNode(e, d, inputs, Sub(_)) ==
  CASE e.kind = "input" -> inputs[e.at]
    [] e.kind = "const" -> e.at
    [] e.kind = "apply" -> EvalInt(e.op, d, [k \in DOMAIN e.args |-> Sub(e.args[k])])

EvalLeaf(e, inputs) == IF e.kind = "input" THEN inputs[e.at] ELSE e.at
EvalOne(e, d, inputs) == EvalNode(e, d, inputs, LAMBDA f : EvalLeaf(f, inputs))
EvalTwo(e, d, inputs) == EvalNode(e, d, inputs, LAMBDA f : EvalOne(f, d, inputs))
EvalThree(e, d, inputs) == EvalNode(e, d, inputs, LAMBDA f : EvalTwo(f, d, inputs))
EvalIntExpr(e, d, inputs) == EvalNode(e, d, inputs, LAMBDA f : EvalThree(f, d, inputs))

\* A derived operation evaluated directly is its decomposition over integers: the
\* guards for NaN and signed zero are inert.  Not so logical_or at one bit, where
\* the decomposition's 1 + 1 wraps to 0; the direct form is what the lane uses.
DecompositionsAgree ==
  Answered /\ OfDtype /\ call.op \in Derived
  /\ ~(call.op = "logical_or" /\ call.dtype.bits = 1)
    => value = EvalIntExpr(Decomposition(call.op), call.dtype, call.args)
=============================================================================
