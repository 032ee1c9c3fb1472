------------------------------- MODULE Parser -------------------------------
(***************************************************************************)
(* parse (decomp.rs): recursive descent over the text of a decomposition.  *)
(* The text is a sequence of tokens, white space left out; a frame of the  *)
(* stack is an argument list being read, by the op it belongs to.          *)
(***************************************************************************)
EXTENDS OpTable, FiniteSets

CONSTANTS
  Sources,     \* the texts parsed
  Spellings    \* the token sequences ConstSym::from_inner knows

VARIABLES
  src,      \* the text
  pos,      \* tokens consumed
  stack,    \* argument lists open, the innermost last
  control   \* what is read next

vars == <<src, pos, stack, control>>

Punctuation == {"(", ")", ","}
BareOperands == [x |-> 0, a |-> 0, b |-> 1]
Indices == [zero |-> "0", one |-> "1"]   \* what parse::<u8> reads in these texts

Expecting == [at |-> "expr"]
Read(tree) == [at |-> "value", tree |-> tree]
Accepted(tree) == [at |-> "accepted", tree |-> tree]
Rejected == [at |-> "rejected"]

AtEnd == pos = Len(src)
Peek == IF AtEnd THEN "" ELSE src[pos + 1]
PeekAfter == IF pos + 1 < Len(src) THEN src[pos + 2] ELSE ""

Top == stack[Len(stack)]
Popped == SubSeq(stack, 1, Len(stack) - 1)

\* balanced: from the parenthesis at token i, the first position where as many
\* have closed as have opened; 0 when they never do.
Depth(i, j) ==
  Cardinality({k \in i..j : src[k] = "("}) - Cardinality({k \in i..j : src[k] = ")"})
Closing(i) ==
  LET closed == {j \in i..Len(src) : Depth(i, j) = 0}
  IN  IF closed = {} THEN 0 ELSE CHOOSE j \in closed : \A k \in closed : j <= k

Inner(i) == SubSeq(src, i + 1, Closing(i) - 1)

-----------------------------------------------------------------------------
Init ==
  /\ src \in Sources
  /\ pos = 0
  /\ stack = <<>>
  /\ control = Expecting

Reject == control' = Rejected /\ UNCHANGED <<src, pos, stack>>

\* expr, by its head.
NoHead ==
  /\ control.at = "expr"
  /\ AtEnd \/ Peek \in Punctuation
  /\ Reject

HasHead == control.at = "expr" /\ ~AtEnd /\ Peek \notin Punctuation

BareOperand ==
  /\ HasHead
  /\ PeekAfter # "("
  /\ Peek \in DOMAIN BareOperands
  /\ control' = Read(Input(BareOperands[Peek]))
  /\ pos' = pos + 1
  /\ UNCHANGED <<src, stack>>

UnknownOperand ==
  /\ HasHead
  /\ PeekAfter # "("
  /\ Peek \notin DOMAIN BareOperands
  /\ Reject

ConstLeaf ==
  /\ HasHead
  /\ PeekAfter = "(" /\ Peek = "const"
  /\ Closing(pos + 2) # 0 /\ Inner(pos + 2) \in Spellings
  /\ control' = Read(Const)
  /\ pos' = Closing(pos + 2)
  /\ UNCHANGED <<src, stack>>

InputLeaf ==
  /\ HasHead
  /\ PeekAfter = "(" /\ Peek = "input"
  /\ Closing(pos + 2) # 0
  /\ \/ Inner(pos + 2) = <<Indices.zero>> /\ control' = Read(Input(0))
     \/ Inner(pos + 2) = <<Indices.one>> /\ control' = Read(Input(1))
  /\ pos' = Closing(pos + 2)
  /\ UNCHANGED <<src, stack>>

BadLeaf ==
  /\ HasHead
  /\ PeekAfter = "("
  /\ \/ Peek = "const" /\ (Closing(pos + 2) = 0 \/ Inner(pos + 2) \notin Spellings)
     \/ /\ Peek = "input"
        /\ Closing(pos + 2) = 0 \/ Inner(pos + 2) \notin {<<Indices.zero>>, <<Indices.one>>}
  /\ Reject

IsCall == HasHead /\ PeekAfter = "(" /\ Peek \notin {"const", "input"}

UnknownOp ==
  /\ IsCall
  /\ Peek \notin Ops
  /\ Reject

\* arg_list: at once closed, or one argument first.
EmptyCall ==
  /\ IsCall
  /\ Peek \in Ops
  /\ pos + 2 < Len(src) /\ src[pos + 3] = ")"
  /\ control' = Read(Apply(Peek, <<>>))
  /\ pos' = pos + 3
  /\ UNCHANGED <<src, stack>>

OpenCall ==
  /\ IsCall
  /\ Peek \in Ops
  /\ ~(pos + 2 < Len(src) /\ src[pos + 3] = ")")
  /\ stack' = Append(stack, [op |-> Peek, args |-> <<>>])
  /\ pos' = pos + 2
  /\ UNCHANGED <<src, control>>

\* After an argument.
WithArgument == [Top EXCEPT !.args = Append(@, control.tree)]

NextArgument ==
  /\ control.at = "value" /\ stack # <<>>
  /\ Peek = ","
  /\ stack' = Append(Popped, WithArgument)
  /\ control' = Expecting
  /\ pos' = pos + 1
  /\ UNCHANGED src

\* Mutant: the last argument is dropped with the frame.
CloseCallShort ==
  /\ control.at = "value" /\ stack # <<>>
  /\ Peek = ")"
  /\ stack' = Popped
  /\ control' = Read(Apply(Top.op, Top.args))
  /\ pos' = pos + 1
  /\ UNCHANGED src

CloseCall ==
  /\ control.at = "value" /\ stack # <<>>
  /\ Peek = ")"
  /\ stack' = Popped
  /\ control' = Read(Apply(Top.op, WithArgument.args))
  /\ pos' = pos + 1
  /\ UNCHANGED src

\* Mutant: the end of the text is waited out.
NoSeparatorYet ==
  /\ control.at = "value" /\ stack # <<>>
  /\ Peek \notin {",", ")", ""}
  /\ Reject

NoSeparator ==
  /\ control.at = "value" /\ stack # <<>>
  /\ Peek \notin {",", ")"}
  /\ Reject

Accept ==
  /\ control.at = "value" /\ stack = <<>>
  /\ AtEnd
  /\ control' = Accepted(control.tree)
  /\ UNCHANGED <<src, pos, stack>>

Trailing ==
  /\ control.at = "value" /\ stack = <<>>
  /\ ~AtEnd
  /\ Reject

Finished == control.at \in {"accepted", "rejected"} /\ UNCHANGED vars

Next ==
  \/ NoHead \/ BareOperand \/ UnknownOperand \/ ConstLeaf \/ InputLeaf \/ BadLeaf
  \/ UnknownOp \/ EmptyCall \/ OpenCall \/ NextArgument \/ CloseCall \/ NoSeparator
  \/ Accept \/ Trailing \/ Finished

Spec == Init /\ [][Next]_vars /\ WF_vars(Next)

-----------------------------------------------------------------------------
(***************************************************************************)
(* The grammar, bottom-up: the trees a span of the text stands for, and    *)
(* the argument lists.  It never looks ahead and keeps no stack.           *)
(***************************************************************************)
RECURSIVE Trees(_, _), ArgLists(_, _)
Trees(i, j) ==
  LET inner == SubSeq(src, i + 2, j - 1)
      call == i + 2 <= j /\ src[i + 1] = "(" /\ src[j] = ")"
  IN  IF i > j THEN {}
      ELSE IF i = j THEN {Input(BareOperands[t]) : t \in {src[i]} \cap DOMAIN BareOperands}
      ELSE IF ~call THEN {}
      ELSE IF src[i] = "const" THEN {Const : s \in {inner} \cap Spellings}
      ELSE IF src[i] = "input"
           THEN {Input(k) : k \in {n \in {0, 1} : inner = <<<<"0", "1">>[n + 1]>>}}
      ELSE IF src[i] \in Ops THEN {Apply(src[i], args) : args \in ArgLists(i + 2, j - 1)}
      ELSE {}

ArgLists(i, j) ==
  IF j < i THEN {<<>>}
  ELSE {<<t>> : t \in Trees(i, j)} \cup
       UNION {{<<t>> \o rest : t \in Trees(i, k - 1), rest \in ArgLists(k + 1, j) \ {<<>>}} :
                k \in {n \in i..j : src[n] = ","}}

\* The parser accepts the sentences of the grammar, no other text, and returns
\* the tree they stand for, of which there is one.
ParsesTheGrammar ==
  /\ control.at = "accepted" => Trees(1, Len(src)) = {control.tree}
  /\ control.at = "rejected" => Trees(1, Len(src)) = {}

=============================================================================
