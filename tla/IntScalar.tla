----------------------------- MODULE IntScalar ------------------------------
(***************************************************************************)
(* The integer operations (scalar_int.rs, eval_int_op).  A bit pattern is  *)
(* the set of the positions of its ones.  Operands are lane values, taken  *)
(* as they are unless the operation masks them.                            *)
(***************************************************************************)
EXTENDS IntDtype, Sequences, FiniteSetsExt

Positions(d) == 0..(d.bits - 1)

Truth(b) == IF b THEN 1 ELSE 0

\* The number whose pattern has these ones, from the top bit down; the weight of a
\* position; and pattern, as a set.
FromBits(ones, d) ==
  LET top[k \in 0..d.bits] ==
        IF k = 0 THEN 0 ELSE 2 * top[k - 1] + Truth(d.bits - k \in ones)
  IN  top[d.bits]

Weight(sh, d) == FromBits({sh}, d)

Bits(v, d) == {k \in Positions(d) : (v \div Weight(k, d)) % 2 = 1}

\* A dtype has a bit at least, and its half is the weight of the top one.
ASSUME BitsAssumption == \A d \in Dtypes : d.bits > 0 /\ d.half = Weight(d.bits - 1, d)

\* A shift by a negative amount, or by the width or more, gives zero.
ShiftInRange(sh, d) == sh \in Positions(d)

Shl(a, sh, d) ==
  IF ShiftInRange(sh, d) THEN Wrap(Lane(Pattern(a, d) * Weight(sh, d)), d) ELSE 0

\* Mutant: the shift of a signed value is logical too.
ShrLogical(a, sh, d) ==
  IF ShiftInRange(sh, d) THEN Wrap(Pattern(a, d) \div Weight(sh, d), d) ELSE 0

\* Arithmetic on a signed value as it stands, logical on an unsigned pattern.
Shr(a, sh, d) ==
  IF ShiftInRange(sh, d)
  THEN Wrap((IF d.signed THEN a ELSE Pattern(a, d)) \div Weight(sh, d), d)
  ELSE 0

\* Leading and trailing zeros: all of them in zero itself.
Clz(a, d) == IF Bits(a, d) = {} THEN d.bits ELSE d.bits - 1 - Max(Bits(a, d))
Ctz(a, d) == IF Bits(a, d) = {} THEN d.bits ELSE Min(Bits(a, d))

Unary == {"neg", "abs", "bit_not", "popcount", "clz", "ctz", "sign", "sqr",
          "step", "relu", "logical_not"}
Binary == {"add", "sub", "mul", "cmp_eq", "cmp_ne", "cmp_lt", "cmp_le", "cmp_gt",
           "cmp_ge", "bit_and", "bit_or", "bit_xor", "shl", "shr", "max_prop",
           "min_prop", "fmax_ieee", "fmin_ieee", "logical_and", "logical_or"}

\* int_supported
IntSupported == Unary \cup Binary \cup {"select"}

Arity(op) == IF op = "select" THEN 3 ELSE IF op \in Binary THEN 2 ELSE 1

EvalUnary(op, a, d) ==
  CASE op = "neg" -> IntNeg(a, d)
    [] op = "abs" -> IntAbs(a, d)
    [] op = "bit_not" -> Wrap(FromBits(Positions(d) \ Bits(a, d), d), d)
    [] op = "popcount" -> Cardinality(Bits(a, d))
    [] op = "clz" -> Clz(a, d)
    [] op = "ctz" -> Ctz(a, d)
    [] op = "sign" -> Wrap(Truth(a > 0) - Truth(a < 0), d)
    [] op = "sqr" -> IntMul(a, a, d)
    [] op = "step" -> Truth(a > 0)
    [] op = "relu" -> IF a < 0 THEN 0 ELSE a
    [] op = "logical_not" -> Truth(a = 0)

EvalBinary(op, a, b, d) ==
  CASE op = "add" -> IntAdd(a, b, d)
    [] op = "sub" -> IntSub(a, b, d)
    [] op = "mul" -> IntMul(a, b, d)
    [] op = "cmp_eq" -> Truth(a = b)
    [] op = "cmp_ne" -> Truth(a # b)
    [] op = "cmp_lt" -> Truth(a < b)
    [] op = "cmp_le" -> Truth(a <= b)
    [] op = "cmp_gt" -> Truth(a > b)
    [] op = "cmp_ge" -> Truth(a >= b)
    [] op = "bit_and" -> Wrap(FromBits(Bits(a, d) \cap Bits(b, d), d), d)
    [] op = "bit_or" -> Wrap(FromBits(Bits(a, d) \cup Bits(b, d), d), d)
    [] op = "bit_xor" -> Wrap(FromBits(SymDiff(Bits(a, d), Bits(b, d)), d), d)
    [] op = "shl" -> Shl(a, b, d)
    [] op = "shr" -> Shr(a, b, d)
    [] op \in {"max_prop", "fmax_ieee"} -> IntMax(a, b)
    [] op \in {"min_prop", "fmin_ieee"} -> IntMin(a, b)
    [] op = "logical_and" -> Truth(a # 0 /\ b # 0)
    [] op = "logical_or" -> Truth(a # 0 \/ b # 0)

\* eval_int_op on the right number of operands.
EvalInt(op, d, args) ==
  CASE op \in Unary -> EvalUnary(op, args[1], d)
    [] op \in Binary -> EvalBinary(op, args[1], args[2], d)
    [] op = "select" -> IF args[1] # 0 THEN args[2] ELSE args[3]
=============================================================================
