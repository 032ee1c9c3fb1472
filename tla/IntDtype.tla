------------------------------ MODULE IntDtype ------------------------------
(***************************************************************************)
(* Two's-complement arithmetic of the integer lane (scalar_int.rs): every  *)
(* dtype is computed in one wide lane (i128, itself wrapping) and the      *)
(* result is wrapped to the dtype's width.                                 *)
(*                                                                         *)
(* A dtype is a width (TwosComplement) with its number of bits.  LaneHalf  *)
(* is the weight of the lane's top bit.                                    *)
(***************************************************************************)
EXTENDS TwosComplement

CONSTANTS
  Dtypes,     \* the integer dtypes (int_spec)
  LaneHalf    \* 2^127 in the code

\* The only one-bit dtype, b1, is unsigned, and a dtype can hold the number of its
\* bits.  Widths are powers of two, so the lesser divides the greater.
ASSUME DtypesAssumption ==
  /\ \A d \in Dtypes : /\ d.half \in Nat /\ d.half > 0
                       /\ d.signed \in BOOLEAN
                       /\ d.signed => d.half > 1
                       /\ d.bits \in Nat /\ d.bits <= Highest(d)
  /\ \A c, d \in Dtypes : Size(c) >= Size(d) => Size(c) % Size(d) = 0

\* The width of the lane is a multiple of that of every dtype, and the lane is
\* signed, so it holds every dtype's values.
ASSUME LaneAssumption ==
  /\ LaneHalf \in Nat /\ LaneHalf > 0
  /\ \A d \in Dtypes : (2 * LaneHalf) % Size(d) = 0 /\ Size(d) <= LaneHalf

\* The values of the lane, and its wrapping_add and friends.
I128 == (-LaneHalf)..(LaneHalf - 1)

Lane(v) == Wrap(v, [half |-> LaneHalf, signed |-> TRUE])

\* Mutant: addition saturates.
IntAddSaturating(a, b, d) ==
  IF a + b > Highest(d) THEN Highest(d)
  ELSE IF a + b < Lowest(d) THEN Lowest(d) ELSE a + b

IntAdd(a, b, d) == Wrap(Lane(a + b), d)
IntSub(a, b, d) == Wrap(Lane(a - b), d)
IntMul(a, b, d) == Wrap(Lane(a * b), d)

IntNeg(a, d) == Wrap(Lane(-a), d)
IntAbs(a, d) == Wrap(Lane(IF a < 0 THEN -a ELSE a), d)

\* Mutant: the arms are swapped.
IntMaxSwapped(a, b) == IF a >= b THEN b ELSE a

IntMax(a, b) == IF a >= b THEN a ELSE b
IntMin(a, b) == IF a <= b THEN a ELSE b

\* Mutant: the greatest value of a signed dtype is taken to be the unsigned one.
IdentityUnsigned(monoid, d) ==
  CASE monoid = "sum"  -> 0
    [] monoid = "prod" -> 1
    [] monoid = "max"  -> Lowest(d)
    [] monoid = "min"  -> Size(d) - 1

\* int_identity
Identity(monoid, d) ==
  CASE monoid = "sum"  -> 0
    [] monoid = "prod" -> 1
    [] monoid = "max"  -> Lowest(d)
    [] monoid = "min"  -> Highest(d)

\* One combine of a fold: eval_int_op of monoid_op.
Combine(monoid, acc, x, d) ==
  CASE monoid = "sum"  -> IntAdd(acc, x, d)
    [] monoid = "prod" -> IntMul(acc, x, d)
    [] monoid = "max"  -> IntMax(acc, x)
    [] monoid = "min"  -> IntMin(acc, x)
=============================================================================
