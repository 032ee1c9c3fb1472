---------------------------- MODULE ResolverSpec ----------------------------
(***************************************************************************)
(* What eval_op promises, in one step: an operation has the value of its   *)
(* reference decomposition, read down to the atoms the float lane          *)
(* computes; an operation that computes delivers a quiet NaN, and one that *)
(* only moves its operands leaves their bits alone; and a request that     *)
(* cannot be evaluated is declined with the first fault met from the left. *)
(***************************************************************************)
EXTENDS OpTable

VARIABLES
  request,   \* [op, lane, args]: what eval_op is called with
  outcome    \* Pending, then the value or the error returned

Pending == [pending |-> TRUE]
Value(v) == [value |-> v]
Error(e, op, index) == [error |-> e, op |-> op, index |-> index]
IsError(o) == "error" \in DOMAIN o

RECURSIVE NanPayloadMints(_), ExprMints(_)
\* nan_payload_mints: something on the way to the floor computes.
NanPayloadMints(op) ==
  IF op \in DOMAIN Decomposition THEN ExprMints(Decomposition[op])
  ELSE op \in {"add", "sub", "mul", "div"} \/ HasUlpCeiling(op)

ExprMints(e) ==
  /\ ~IsLeaf(e)
  /\ NanPayloadMints(e.op) \/ \E i \in DOMAIN e.args : ExprMints(e.args[i])

NanPayloadIsDetermined(op) == ~NanPayloadMints(op)

\* A value as the operation delivers it.
Delivered(op, v) == IF NanPayloadMints(op) THEN Quiet(v) ELSE v

FirstError(outcomes) ==
  LET faulty == {i \in DOMAIN outcomes : \E o \in outcomes[i] : IsError(o)}
  IN  CHOOSE i \in faulty : \A j \in faulty : i <= j

RECURSIVE Denote(_, _, _), DenoteOp(_, _, _)
\* The outcomes an expression may have, and those of an operation on values.
Denote(e, inputs, lane) ==
  IF IsLeaf(e) THEN
    IF e.leaf = "const" THEN {Value("number")}
    ELSE IF e.index < Len(inputs) THEN {Value(inputs[e.index + 1])}
    ELSE {Error("MissingInput", "none", e.index)}
  ELSE
    LET args == [i \in DOMAIN e.args |-> Denote(e.args[i], inputs, lane)]
    IN  IF \E i \in DOMAIN args : \E o \in args[i] : IsError(o)
        THEN args[FirstError(args)]
        ELSE UNION {DenoteOp(e.op, vals, lane) :
                      vals \in {v \in [DOMAIN args -> Values] :
                                  \A i \in DOMAIN args : Value(v[i]) \in args[i]}}

DenoteOp(op, vals, lane) ==
  IF op = "nextafter" /\ lane = "narrow" THEN {Error("Unsupported", op, 0)}
  ELSE IF IsDirect(op) THEN
    IF Len(vals) = AtomArity(op)
    THEN {Value(Delivered(op, v)) : v \in Computed(op, vals, lane)}
    ELSE {Error("Arity", op, AtomArity(op))}
  ELSE IF op \in DOMAIN Decomposition THEN
    {IF IsError(o) THEN o ELSE Value(Delivered(op, o.value)) :
       o \in Denote(Decomposition[op], vals, lane)}
  ELSE {Error("Unsupported", op, 0)}

Answer ==
  /\ outcome = Pending
  /\ outcome' # Pending
  /\ outcome' \in DenoteOp(request.op, request.args, request.lane)
  /\ UNCHANGED request

Spec == outcome = Pending /\ [][Answer]_<<request, outcome>>
=============================================================================
