------------------------------ MODULE BoolLane ------------------------------
(***************************************************************************)
(* The bool lane (boolean.rs): scalar truth operations over normalised     *)
(* operands in a wide integer, and the folds any, all and cummax over the  *)
(* integer kernels (tensor_int.rs), element by element along one line.     *)
(***************************************************************************)
EXTENDS IntScalarCheck

CONSTANTS
  I64,        \* the accumulator of the lane
  Elements,   \* values a stored bool may have; any but 0 is true
  MaxLine     \* the longest line folded

\* The accumulator is a signed dtype, and elements are its values.
ASSUME BoolAssumption ==
  /\ I64 \in Dtypes /\ I64.signed
  /\ \A x \in Elements : InRange(x, I64)
  /\ MaxLine \in Nat

VARIABLES
  next,   \* the elements folded
  sofar,
  out
boolVars == <<call, answer, next, sofar, out>>

\* Mutant: the lowest bit is the truth.
NormLowBit(x) == x % 2

Norm(x) == Truth(x # 0)
NormOf(args) == [k \in DOMAIN args |-> Norm(args[k])]

\* bool_scalar_supported
TruthOps == {"logical_and", "logical_or", "logical_not", "cmp_eq", "cmp_ne", "select",
             "max_prop", "min_prop"}

EvalBool(op, args) == Norm(EvalInt(op, I64, NormOf(args)))

\* eval_bool_op of any operation: the bound of three operands comes before the
\* operation's own number.
BoolFault(op, args) ==
  CASE op \notin TruthOps -> "UnsupportedDtype"
    [] op \in TruthOps /\ Len(args) > 3 -> "Arity of 3"
    [] op \in TruthOps /\ Len(args) <= 3 /\ Len(args) # Arity(op) -> "Arity"
    [] OTHER -> "none"

Folds == {"any", "all", "cummax"}

BoolInit ==
  /\ \/ \E op \in TruthOps \cup {"add", "bit_and"}, n \in 0..4 :
          \E args \in [1..n -> Elements] : call = [op |-> op, args |-> args]
     \/ \E op \in {"any", "all"}, n \in 0..MaxLine :
          \E args \in [1..n -> Elements] : call = [op |-> op, args |-> args]
     \/ \E n \in 0..MaxLine : \E args \in [1..n -> {0, 1}] : call = [op |-> "cummax", args |-> args]
  /\ answer = <<>> /\ next = 0 /\ out = <<>>
  /\ sofar = Identity(IF call.op = "all" THEN "min" ELSE "max", I64)

EvaluateTruth ==
  /\ call.op \notin Folds /\ answer = <<>> /\ BoolFault(call.op, call.args) = "none"
  /\ answer' = <<EvalBool(call.op, call.args)>>
  /\ UNCHANGED <<call, next, sofar, out>>

DeclineTruth ==
  /\ call.op \notin Folds /\ answer = <<>> /\ BoolFault(call.op, call.args) # "none"
  /\ answer' = <<BoolFault(call.op, call.args)>>
  /\ UNCHANGED <<call, next, sofar, out>>

\* Mutant: any and all fold the elements themselves.
SeedRaw(x) == x

\* ne_zero, the element any and all fold; cummax folds it as it is.
Seed(x) == EvalInt("cmp_ne", I64, <<x, 0>>)

FoldElement ==
  /\ call.op \in Folds /\ next < Len(call.args)
  /\ next' = next + 1
  /\ LET x == call.args[next']
     IN  sofar' = IF call.op = "cummax" THEN Combine("max", sofar, x, I64)
                ELSE Combine(IF call.op = "all" THEN "min" ELSE "max", sofar, Seed(x), I64)
  /\ out' = IF call.op = "cummax" THEN Append(out, sofar') ELSE out
  /\ UNCHANGED <<call, answer>>

ReturnFold ==
  /\ call.op \in Folds /\ next = Len(call.args) /\ answer = <<>>
  /\ answer' = IF call.op = "cummax" THEN <<out>> ELSE <<sofar>>
  /\ UNCHANGED <<call, next, sofar, out>>

BoolNext == EvaluateTruth \/ DeclineTruth \/ FoldElement \/ ReturnFold

BoolSpec == BoolInit /\ [][BoolNext]_boolVars

-----------------------------------------------------------------------------
Evaluated ==
  Answered /\ ~OfDtype /\ call.op \in TruthOps /\ BoolFault(call.op, call.args) = "none"
True(i) == call.args[i] # 0

\* The truth a scalar operation stands for.
TruthOf(op) ==
  CASE op \in {"logical_and", "min_prop"} -> True(1) /\ True(2)
    [] op \in {"logical_or", "max_prop"} -> True(1) \/ True(2)
    [] op = "logical_not" -> ~True(1)
    [] op = "cmp_eq" -> True(1) <=> True(2)
    [] op = "cmp_ne" -> ~(True(1) <=> True(2))
    [] op = "select" -> IF True(1) THEN True(2) ELSE True(3)

FoldReturned == Answered /\ call.op \in Folds
\* What a fold stands for, on a line with an element.
AnyUpTo(n) == \E i \in 1..n : True(i)
FoldIsTruth ==
  CASE call.op = "any" -> value = Truth(AnyUpTo(Len(call.args)))
    [] call.op = "all" -> value = Truth(\A i \in DOMAIN call.args : True(i))
    [] call.op = "cummax" -> value = [i \in DOMAIN call.args |-> Truth(AnyUpTo(i))]

-----------------------------------------------------------------------------
\* However its operands are spelled, any nonzero value being true, a truth operation is the
\* truth function and gives a canonical 0 or 1: cmp_eq of 5 and -3 is true.  So is its
\* decomposition evaluated in the accumulator, whatever it passes through, once normalised
\* at the end; in the single bit of the dtype the sum inside logical_or would wrap.
TruthIsCanonical ==
  Evaluated =>
    /\ value = Truth(TruthOf(call.op))
    /\ call.op \in Derived =>
         value = Norm(EvalIntExpr(Decomposition(call.op), I64, NormOf(call.args)))

\* any, all and cummax over stored bools stay in 0 and 1, and are the quantifiers, on every
\* line that has an element.
FoldsAreTruth == FoldReturned /\ call.args # <<>> => FoldIsTruth

\* Truth values go in and come out of scalar operations and folds alike.
TruthIsKept == TruthIsCanonical /\ FoldsAreTruth
=============================================================================
