----------------------------- MODULE MCResolver -----------------------------
(***************************************************************************)
(* The scalar resolver, and the parser of the texts it resolves by, one at *)
(* a time (`part`).  The resolver: every operation of the vocabulary, in   *)
(* both lanes, on up to three operands each of which is a number or a NaN. *)
(* The parser: every text of up to MaxTokens tokens over an alphabet with  *)
(* each kind of token, and every decomposition written out, whole and with *)
(* a token missing.                                                        *)
(***************************************************************************)
EXTENDS Resolver

CONSTANTS
  MaxOperands,   \* select takes three
  MaxTokens      \* an op with two arguments and a token lost

VARIABLES
  part,                      \* "resolver" or "parser": the component that runs
  src, pos, lists, reading   \* of Parser

resolverVars == vars
parserVars == <<src, pos, lists, reading>>

-----------------------------------------------------------------------------
Operands == UNION {[1..n -> {"number", "moved"}] : n \in 0..MaxOperands}

AllRequests == [op : Ops, lane : Lanes, args : Operands]
MCRequests == AllRequests

\* A call that waits.
ResolverRests ==
  /\ request = [op |-> "add", lane |-> "wide", args |-> <<>>]
  /\ stack = <<>> /\ control = Calling("add", <<>>)

-----------------------------------------------------------------------------
Alphabet == {"(", ")", ",", "x", "b", "neg", "const", "input", "0", "quark"}
SomeSpellings == {<<"0">>, <<"sqrt", "(", "2/pi", ")">>}

RECURSIVE Spelled(_), SpelledAll(_)
Spelled(e) ==
  IF ~IsLeaf(e) THEN <<e.op, "(">> \o SpelledAll(e.args) \o <<")">>
  ELSE IF e.leaf = "const" THEN <<"const", "(", "sqrt", "(", "2/pi", ")", ")">>
  ELSE IF e.index = 0 THEN <<"a">> ELSE <<"input", "(", "1", ")">>
SpelledAll(args) ==
  IF args = <<>> THEN <<>>
  ELSE Spelled(args[1]) \o (IF Len(args) = 1 THEN <<>> ELSE <<",">> \o SpelledAll(Tail(args)))

Without(s, i) == SubSeq(s, 1, i - 1) \o SubSeq(s, i + 1, Len(s))

Written == {Spelled(Decomposition[op]) : op \in DOMAIN Decomposition}

SomeSources ==
  UNION {[1..n -> Alphabet] : n \in 0..MaxTokens} \cup Written
    \cup UNION {{Without(s, i) : i \in DOMAIN s} : s \in {w \in Written : Len(w) <= 40}}

P == INSTANCE Parser WITH
       stack <- lists, control <- reading, Sources <- SomeSources, Spellings <- SomeSpellings

ParserRests == src = <<>> /\ pos = 0 /\ lists = <<>> /\ reading = P!Expecting

-----------------------------------------------------------------------------
ScalarInit ==
  \/ part = "resolver" /\ Init /\ ParserRests
  \/ part = "parser" /\ P!Init /\ ResolverRests

ScalarNext ==
  /\ UNCHANGED part
  /\ \/ part = "resolver" /\ Next /\ UNCHANGED parserVars
     \/ part = "parser" /\ P!Next /\ UNCHANGED resolverVars

scalarVars == <<part, resolverVars, parserVars>>
ScalarSpec == ScalarInit /\ [][ScalarNext]_scalarVars /\ WF_scalarVars(ScalarNext)

-----------------------------------------------------------------------------
\* The parser accepts the sentences of the grammar, no other text, and returns the tree they
\* stand for, of which there is one; and the text of every decomposition is one, so that
\* resolving an operation never fails on it (BadDecomposition).
ParsesTheGrammar ==
  /\ part = "parser" => P!ParsesTheGrammar
  /\ reading.at = "rejected" => src \notin Written
  /\ reading.at = "accepted" /\ src \in Written =>
       \E op \in DOMAIN Decomposition :
          reading.tree = Decomposition[op] /\ src = Spelled(Decomposition[op])

\* The recursion of eval_op, which no budget bounds, ends, because no decomposition comes
\* back to its own operation; and the descent of the parser makes progress on every text.
EveryCallEnds ==
  /\ part = "resolver" ~> Answered
  /\ part = "parser" ~> reading.at \in {"accepted", "rejected"}
=============================================================================
