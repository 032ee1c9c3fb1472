------------------------------ MODULE Resolver ------------------------------
(***************************************************************************)
(* The recursive resolution of an operation on scalar floats: eval_op,     *)
(* eval_op_raw, resolve_nonprimitive and eval_expr (resolve.rs), one call  *)
(* or return at a time.                                                    *)
(*                                                                         *)
(* The Rust call stack is the variable stack.  A frame is an eval_op call  *)
(* waiting for its decomposition, or an eval_expr call waiting for one of  *)
(* its arguments; control says what the top of the stack is doing.         *)
(* Before it, what the library says of itself (resolve.rs, scalar_int.rs,  *)
(* tensor_int.rs, boolean.rs): which operation is legal on which dtype,    *)
(* which is implemented, and so which cell of the ledger is done.          *)
(***************************************************************************)
EXTENDS OpTable, FiniteSets

Dtypes ==
  [float |-> {"f16", "bf16", "f32", "f64", "f8e4m3fn", "f8e4m3fnuz", "f8e5m2", "f8e5m2fnuz",
              "f8e8m0", "f8e6m2", "f4e2m1", "f6e2m3", "f6e3m2"},
   int |-> {"i8", "i16", "i32", "i64", "i4"},
   uint |-> {"u8", "u16", "u32", "u64", "u4", "b1"},
   bool |-> {"bool"},
   complex |-> {"c64", "c128"}]

AllDtypes == UNION {Dtypes[k] : k \in DOMAIN Dtypes}

IsReserved(d) == d \in {"f8e4m3fnuz", "f8e5m2fnuz", "f8e6m2"}
IsMxScale(d) == d = "f8e8m0"
DeclinesCompute(d) == IsReserved(d) \/ IsMxScale(d)

WideFloats == {"f32", "f64"}
NarrowFloats == {"f16", "bf16", "f8e4m3fn", "f8e5m2"}

-----------------------------------------------------------------------------
\* float_supported: the recursion of eval_op over again, on a budget.
\* Mutant: the budget covers a single decomposition.
BudgetOfOne == 1

Budget == 32

RECURSIVE Resolves(_, _), ExprResolves(_, _)
Resolves(op, budget) ==
  /\ budget # 0
  /\ \/ IsDirect(op)
     \/ op \in DOMAIN Decomposition /\ ExprResolves(Decomposition[op], budget)

ExprResolves(e, budget) ==
  \/ IsLeaf(e)
  \/ /\ Resolves(e.op, budget - 1)
     /\ \A i \in DOMAIN e.args : ExprResolves(e.args[i], budget)

FloatSupported(op) == Resolves(op, Budget)

TensorSupported(op) ==
  op \in {"element_map", "reduce", "prefix_scan", "gather", "scatter", "sort_network",
          "reduce_mean", "reduce_norm2", "reduce_var", "reduce_std", "logsumexp", "argmax",
          "argmin", "any", "all", "cumsum", "cumprod", "cummax", "softmax", "log_softmax",
          "rms_norm", "layer_norm", "matmul", "index_select", "embedding", "scatter_add",
          "avg_pool", "max_pool", "im2col"}

IntSupported(op) ==
  op \in {"add", "sub", "mul", "neg", "abs", "select", "sign", "max_prop", "min_prop",
          "sqr", "step", "relu", "fmax_ieee", "fmin_ieee"}
         \cup FloorOps.comparison \cup FloorOps.bitwise \cup DerivedOps.logical

\* Mutant: the contraction is left off the list.
IntTensorSupportedNoMatmul(op) ==
  op \in {"element_map", "reduce", "prefix_scan", "gather", "scatter", "sort_network",
          "argmax", "argmin", "any", "all", "cumsum", "cumprod", "cummax", "index_select",
          "embedding", "scatter_add", "max_pool", "im2col"}

IntTensorSupported(op) ==
  op \in {"element_map", "reduce", "prefix_scan", "gather", "scatter", "sort_network",
          "argmax", "argmin", "any", "all", "cumsum", "cumprod", "cummax", "index_select",
          "embedding", "scatter_add", "matmul", "max_pool", "im2col"}

BoolScalarSupported(op) ==
  op \in {"cmp_eq", "cmp_ne", "select", "max_prop", "min_prop"} \cup DerivedOps.logical

IsBitLevel(op) == op \in {"cast", "concat", "squeeze", "unsqueeze"}

-----------------------------------------------------------------------------
FloatOnlyOps ==
  {"div", "recip", "reduce_mean", "reduce_var", "reduce_std", "reduce_norm2", "logsumexp",
   "avg_pool", "sigmoid", "silu", "softplus", "mish", "gelu", "gelu_tanh"}

IntLegal(op) ==
  /\ \A f \in {"rounding", "transcendental", "binary_math", "normalization"} : ~OfFamily(op, f)
  /\ op \notin FloatOnlyOps

BoolLegal(op) ==
  op \in {"logical_and", "logical_or", "logical_not", "cmp_eq", "cmp_ne", "select",
          "max_prop", "min_prop", "element_map", "reduce", "prefix_scan", "gather",
          "scatter", "sort_network", "any", "all", "cummax", "index_select", "embedding",
          "im2col", "concat", "cast", "squeeze", "unsqueeze"}

BoolSupported(op) == BoolScalarSupported(op) \/ (BoolLegal(op) /\ IntTensorSupported(op))

\* Legality is read off the specification, never off what is implemented.
Legality(op, d) ==
  /\ ~DeclinesCompute(d)
  /\ IF IsComplex(op) \/ d \in Dtypes.complex THEN IsComplex(op) /\ d \in Dtypes.complex
     ELSE IF op = "nextafter" THEN d \in WideFloats
     ELSE \/ d \in Dtypes.float /\ ~OfFamily(op, "bitwise")
          \/ d \in Dtypes.int \cup Dtypes.uint /\ IntLegal(op)
          \/ d \in Dtypes.bool /\ BoolLegal(op)

ImplementedOn(op, d) ==
  \/ IsBitLevel(op)
  \/ d \in WideFloats /\ (FloatSupported(op) \/ TensorSupported(op))
  \/ d \in NarrowFloats /\ ((FloatSupported(op) /\ op # "nextafter") \/ TensorSupported(op))
  \/ d \in Dtypes.int \cup Dtypes.uint /\ (IntSupported(op) \/ IntTensorSupported(op))
  \/ d = "bool" /\ BoolSupported(op)
  \/ d \in Dtypes.complex /\ IsComplex(op)

\* Whether any path evaluates the operation.
Implemented(op) ==
  IsBitLevel(op) \/ FloatSupported(op) \/ IntSupported(op) \/ TensorSupported(op) \/ IsComplex(op)

SupportOf(op, d) ==
  IF ~Legality(op, d) THEN "NotApplicable"
  ELSE IF ImplementedOn(op, d) THEN "Done" ELSE "Pending"

-----------------------------------------------------------------------------
\* The calls.

CONSTANTS
  Requests,   \* the calls examined: [op, lane, args] records
  MaxStack    \* frames the thread's stack can hold

ASSUME RequestsAssumption ==
  /\ MaxStack \in Nat
  /\ \A r \in Requests :
       r.op \in Ops /\ r.lane \in Lanes /\ \A i \in DOMAIN r.args : r.args[i] \in Values

VARIABLES
  request,   \* the call under way
  stack,     \* pending calls, the innermost last
  control    \* what the innermost call does next

vars == <<request, stack, control>>

Evaluating(e, inputs) == [at |-> "expr", expr |-> e, inputs |-> inputs]
NextOperand == [at |-> "operand"]
Calling(op, vals) == [at |-> "op", op |-> op, vals |-> vals]
Returning(v) == [at |-> "return", value |-> v]
Returned(v) == [at |-> "done", result |-> [value |-> v]]
Failed(e, op, index) == [at |-> "done", result |-> [error |-> e, op |-> op, index |-> index]]
Overflowed == [at |-> "overflow"]

ArgsFrame(e, inputs) == [frame |-> "args", expr |-> e, inputs |-> inputs, vals |-> <<>>]
CallFrame(op) == [frame |-> "call", op |-> op]

Top == stack[Len(stack)]
Popped == SubSeq(stack, 1, Len(stack) - 1)

Push(frame, next) ==
  /\ stack' = Append(stack, frame)
  /\ control' = IF Len(stack) < MaxStack THEN next ELSE Overflowed

\* The operations whose result eval_op quiets.
Quieted == {"add", "sub", "mul", "div", "exp", "log", "sin", "cos", "sqrt", "erf", "atan",
            "lgamma", "atan2"} \cup Refined

\* Mutant: the refined forms were added after the list.
DeliverOld(op, v, lane) == IF op \in Quieted \ Refined THEN Quiet(v) ELSE v

Deliver(op, v, lane) == IF op \in Quieted /\ lane = "wide" THEN Quiet(v) ELSE v

-----------------------------------------------------------------------------
\* The calls.
Init ==
  /\ request \in Requests
  /\ stack = <<>>
  /\ control = Calling(request.op, request.args)

\* eval_expr on a leaf.
EvalConst ==
  /\ control.at = "expr"
  /\ IsLeaf(control.expr) /\ control.expr.leaf = "const"
  /\ control' = Returning("number")
  /\ UNCHANGED <<request, stack>>

EvalInput ==
  /\ control.at = "expr"
  /\ IsLeaf(control.expr) /\ control.expr.leaf = "input"
  /\ LET i == control.expr.index
     IN  control' = IF i < Len(control.inputs) THEN Returning(control.inputs[i + 1])
                    ELSE Failed("MissingInput", "none", i)
  /\ UNCHANGED <<request, stack>>

\* eval_expr on an application: its arguments first, then the operation.
EvalApply ==
  /\ control.at = "expr"
  /\ ~IsLeaf(control.expr)
  /\ Push(ArgsFrame(control.expr, control.inputs), NextOperand)
  /\ UNCHANGED request

EvalOperand ==
  /\ control.at = "operand"
  /\ Len(Top.vals) < Len(Top.expr.args)
  /\ control' = Evaluating(Top.expr.args[Len(Top.vals) + 1], Top.inputs)
  /\ UNCHANGED <<request, stack>>

OperandsReady ==
  /\ control.at = "operand"
  /\ Len(Top.vals) = Len(Top.expr.args)
  /\ control' = Calling(Top.expr.op, Top.vals)
  /\ stack' = Popped
  /\ UNCHANGED request

\* A pushed operand, or the value of a decomposition: quieted like any other.
ReturnOperand ==
  /\ control.at = "return"
  /\ stack # <<>>
  /\ Top.frame = "args"
  /\ stack' = Append(Popped, [Top EXCEPT !.vals = Append(@, control.value)])
  /\ control' = NextOperand
  /\ UNCHANGED request

ReturnCall ==
  /\ control.at = "return"
  /\ stack # <<>>
  /\ Top.frame = "call"
  /\ stack' = Popped
  /\ control' = Returning(Deliver(Top.op, control.value, request.lane))
  /\ UNCHANGED request

ReturnResult ==
  /\ control.at = "return"
  /\ stack = <<>>
  /\ control' = Returned(control.value)
  /\ UNCHANGED <<request, stack>>

\* eval_op_raw, by the arms of its dispatch.  Stepping in a promoted f32 yields
\* the wrong neighbour: nextafter is declined before its operands are counted.
CallNextafterNarrow ==
  /\ control.at = "op"
  /\ control.op = "nextafter" /\ request.lane = "narrow"
  /\ control' = Failed("Unsupported", control.op, 0)
  /\ UNCHANGED <<request, stack>>

CallDirect ==
  /\ control.at = "op"
  /\ IsDirect(control.op)
  /\ ~(control.op = "nextafter" /\ request.lane = "narrow")
  /\ IF Len(control.vals) # AtomArity(control.op)
     THEN control' = Failed("Arity", control.op, AtomArity(control.op))
     ELSE \E v \in Computed(control.op, control.vals, request.lane) :
            control' = Returning(Deliver(control.op, v, request.lane))
  /\ UNCHANGED <<request, stack>>

CallDecomposed ==
  /\ control.at = "op"
  /\ ~IsDirect(control.op)
  /\ control.op \in DOMAIN Decomposition
  /\ Push(CallFrame(control.op), Evaluating(Decomposition[control.op], control.vals))
  /\ UNCHANGED request

CallUnsupported ==
  /\ control.at = "op"
  /\ ~IsDirect(control.op)
  /\ control.op \notin DOMAIN Decomposition
  /\ control' = Failed("Unsupported", control.op, 0)
  /\ UNCHANGED <<request, stack>>

\* The caller has its answer, or the thread is gone.
Done == control.at \in {"done", "overflow"} /\ UNCHANGED vars

Next ==
  \/ EvalConst \/ EvalInput \/ EvalApply \/ EvalOperand \/ OperandsReady
  \/ ReturnOperand \/ ReturnCall \/ ReturnResult
  \/ CallNextafterNarrow \/ CallDirect \/ CallDecomposed \/ CallUnsupported
  \/ Done

Spec == Init /\ [][Next]_vars /\ WF_vars(Next)

-----------------------------------------------------------------------------
Answered == control.at = "done"
Succeeded == Answered /\ "value" \in DOMAIN control.result

Outcome == IF Answered THEN control.result ELSE [pending |-> TRUE]

Abstract == INSTANCE ResolverSpec WITH outcome <- Outcome

\* Operands of an operation: those its decomposition reads, or those it takes.
RECURSIVE OperandsRead(_)
OperandsRead(e) ==
  IF IsLeaf(e) THEN IF e.leaf = "input" THEN {e.index} ELSE {}
  ELSE UNION {OperandsRead(e.args[i]) : i \in DOMAIN e.args}

OperandCount(op) ==
  IF IsDirect(op) \/ op \notin DOMAIN Decomposition THEN AtomArity(op)
  ELSE Cardinality(OperandsRead(Decomposition[op]))

\* eval_op has the meaning of its decomposition: same value and same quieting as
\* reading it down to the floor in one step, and the first error from the left.
\* In particular the list of quieted operations is exactly those that mint.
ImplementsDecomposition == Abstract!Spec

MxElements == {"f4e2m1", "f6e2m3", "f6e3m2"}
LedgersAgree ==
  /\ Implemented(request.op) <=> \E d \in AllDtypes : SupportOf(request.op, d) = "Done"
  /\ \A d \in AllDtypes \ MxElements : SupportOf(request.op, d) # "Pending"
DoneCellsEvaluate ==
  Answered /\ Len(request.args) <= OperandCount(request.op) =>
    LET d == IF request.lane = "wide" THEN WideFloats ELSE NarrowFloats
        scalar == \A t \in d : ImplementedOn(request.op, t) /\ ~TensorSupported(request.op)
                                /\ ~IsBitLevel(request.op)
    IN  Succeeded <=> scalar /\ Len(request.args) = OperandCount(request.op)

\* A cell of the ledger is done exactly when the call, given as many operands
\* as the operation takes, has a value; an operation of the float lane on too few
\* never has one.  The two ledgers, by operation and by cell, agree; and every legal
\* cell has a reference path, the MX element formats excepted.
SupportIsHonest == DoneCellsEvaluate /\ LedgersAgree

\* nan_payload_is_determined: of an operation that mints no operand's NaN comes
\* out bit for bit, and of one that does not no new NaN does.  The rounding atoms
\* and nextafter are left out: their NaN is not pinned.
NanPayloadAsDeclared ==
  Succeeded =>
    IF ~Abstract!NanPayloadIsDetermined(request.op) THEN control.result.value # "moved"
    ELSE control.result.value = "minted" => IsRounding(request.op) \/ request.op = "nextafter"
=============================================================================
