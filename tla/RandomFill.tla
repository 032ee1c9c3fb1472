----------------------------- MODULE RandomFill -----------------------------
(***************************************************************************)
(* The counter-based generator of rng.rs, Philox-4x32-10, over words of    *)
(* any width (B stands for 2^32), and the tensors filled from it: raw      *)
(* words, a mask, uniform values and pairs of normal values.  A counter is *)
(* four words, a key two.  A uniform value is the number of steps of 2^-23 *)
(* above 0; a normal value is named by the two uniform values it is        *)
(* computed from and the arm it takes.                                     *)
(***************************************************************************)
EXTENDS Integers, Sequences

CONSTANTS
  B,        \* a word is a number below B
  M0, M1,   \* the multipliers, odd
  W0, W1,   \* the increments of the key
  XorOf     \* the exclusive or of two words, a function

Word == 0..(B - 1)
XorWord(a, b) == XorOf[<<a, b>>]

\* A multiplier is odd, so that it has an inverse modulo B.
ASSUME PhiloxAssumption ==
  /\ B \in Nat \ {0} /\ {W0, W1} \subseteq Word
  /\ \A m \in {M0, M1} : m \in Word /\ \E n \in Word : (m * n) % B = 1 % B

\* Mixing in a word is undone by mixing it in again.
ASSUME XorAssumption ==
  /\ XorOf \in [Word \X Word -> Word]
  /\ \A a, b \in Word : XorWord(a, b) = XorWord(b, a) /\ XorWord(XorWord(a, b), b) = a

\* mulhilo: the exact product in two words.
MulHi(a, b) == (a * b) \div B

MulLo(a, b) == (a * b) % B

Round(ctr, key) ==
  <<XorWord(XorWord(MulHi(M1, ctr[3]), ctr[2]), key[1]), MulLo(M1, ctr[3]),
    XorWord(XorWord(MulHi(M0, ctr[1]), ctr[4]), key[2]), MulLo(M0, ctr[1])>>

BumpKey(key) == <<(key[1] + W0) % B, (key[2] + W1) % B>>

\* Mutant: the first round has its key bumped too.
KeyBeforeAlways(i, k) == BumpKey(k)

\* The key of round i, counted from 0, after the key of the one before.
KeyBefore(i, k) == IF i > 0 THEN BumpKey(k) ELSE k

\* The state of the loop before round i.
AfterRounds(counter, key) ==
  LET after[i \in 0..10] ==
        IF i = 0 THEN [ctr |-> counter, k |-> key]
        ELSE LET k == KeyBefore(i - 1, after[i - 1].k)
             IN  [ctr |-> Round(after[i - 1].ctr, k), k |-> k]
  IN  after

Philox4x10(counter, key) == AfterRounds(counter, key)[10].ctr

-----------------------------------------------------------------------------
CONSTANTS
  Mantissas,   \* how many mantissas an f32 has: 2^23
  Calls        \* records: op, count, fits, seed, base, stream, threshold

ASSUME MantissasAssumption == Mantissas \in Nat \ {0} /\ B % Mantissas = 0

\* The count of a shape is a usize: the block of an element fits two words.
ASSUME CallsAssumption == \A c \in Calls :
  /\ c.op \in {"random_bits", "bernoulli_mask", "uniform_f32", "normal_f32"}
  /\ c.count \in 0..(4 * B * B) /\ c.seed \in Word \X Word
  /\ c.base \in Word /\ c.stream \in Word /\ c.threshold \in Nat

VARIABLES
  call,
  status,   \* called, drawing, mapping, pairing, returned, declined
  draws,
  data

vars == <<call, status, draws, data>>

\* Mutant: the block has one word.
DeriveCounterLow(index, base, stream) == <<(index \div 4) % B, 0, base, stream>>

\* derive_counter: the block in two words, the low one first.
DeriveCounter(index, base, stream) ==
  LET block == index \div 4 IN <<block % B, block \div B, base, stream>>

WordAt(index, seed, base, stream) ==
  Philox4x10(DeriveCounter(index, base, stream), seed)[(index % 4) + 1]

Draw(index) == WordAt(index, call.seed, call.base, call.stream)

\* Mutant: a draw equal to the threshold is kept.
MaskBitClosed(w, threshold) == IF w <= threshold THEN 1 ELSE 0

MaskBit(w, threshold) == IF w < threshold THEN 1 ELSE 0

\* Mutant: the low bits become the mantissa.
UniformWordLow(w) == w % Mantissas

\* uniform_word: the top bits of a word are the mantissa of a value in [1, 2), less 1.
UniformWord(w) == (Mantissas + w \div (B \div Mantissas)) - Mantissas

Init ==
  /\ call \in Calls /\ status = "called"
  /\ draws = <<>> /\ data = <<>>

\* The shape has too many elements (numel), or the allocator refuses them.
Decline ==
  /\ status = "called" /\ ~call.fits
  /\ status' = "declined" /\ UNCHANGED <<call, draws, data>>

\* The second tensor of a mask or of uniform values may be refused too.
RefuseSecond ==
  /\ status = "mapping" /\ data = <<>>
  /\ status' = "declined" /\ UNCHANGED <<call, draws, data>>

Begin ==
  /\ status = "called" /\ call.fits
  /\ status' = IF call.op = "normal_f32" THEN "pairing" ELSE "drawing"
  /\ UNCHANGED <<call, draws, data>>

DrawElement ==
  /\ status = "drawing" /\ Len(draws) < call.count
  /\ draws' = Append(draws, Draw(Len(draws)))
  /\ UNCHANGED <<call, status, data>>

DrawsDone ==
  /\ status = "drawing" /\ Len(draws) = call.count
  /\ IF call.op = "random_bits" THEN status' = "returned" /\ data' = draws
     ELSE status' = "mapping" /\ UNCHANGED data
  /\ UNCHANGED <<call, draws>>

MapElement ==
  /\ status = "mapping" /\ Len(data) < Len(draws)
  /\ LET w == draws[Len(data) + 1]
     IN  data' = Append(data, IF call.op = "bernoulli_mask" THEN MaskBit(w, call.threshold)
                              ELSE UniformWord(w))
  /\ UNCHANGED <<call, status, draws>>

Normal(u1, u2, arm) == [u1 |-> u1, u2 |-> u2, arm |-> arm]
Pair(i) == <<UniformWord(Draw(i)), UniformWord(Draw(i + 1))>>

\* Mutant: a pair starts at every element.
PairElementsSliding ==
  /\ status = "pairing" /\ Len(data) < call.count
  /\ data' = Append(data, Normal(Pair(Len(data))[1], Pair(Len(data))[2], "cos"))
  /\ UNCHANGED <<call, status, draws>>

\* One pair; the last of an odd count has no second element, but both its words.
PairElements ==
  /\ status = "pairing" /\ Len(data) < call.count
  /\ LET u == Pair(Len(data))
         z0 == Normal(u[1], u[2], "cos")
         z1 == Normal(u[1], u[2], "sin")
     IN  data' = data \o (IF Len(data) + 1 < call.count THEN <<z0, z1>> ELSE <<z0>>)
  /\ UNCHANGED <<call, status, draws>>

Return ==
  /\ \/ status = "mapping" /\ Len(data) = Len(draws)
     \/ status = "pairing" /\ Len(data) >= call.count
  /\ status' = "returned" /\ UNCHANGED <<call, draws, data>>

Next ==
  \/ Decline \/ Begin \/ DrawElement \/ DrawsDone \/ MapElement \/ PairElements \/ Return
  \/ RefuseSecond

Spec == Init /\ [][Next]_vars

-----------------------------------------------------------------------------
\* Random123's own increment of a counter, least word first.
Incr(c) ==
  CASE c[1] < B - 1 -> <<c[1] + 1, c[2], c[3], c[4]>>
    [] c[1] = B - 1 /\ c[2] < B - 1 -> <<0, c[2] + 1, c[3], c[4]>>
    [] c[1] = B - 1 /\ c[2] = B - 1 /\ c[3] < B - 1 -> <<0, 0, c[3] + 1, c[4]>>
    [] OTHER -> <<0, 0, 0, (c[4] + 1) % B>>

\* The stream of words as a backend draws it: the counter of a stream and step incremented
\* from its first block, all four words of a block at once.
Blocks(seed, base, stream, n) ==
  LET counter[b \in 0..n] == IF b = 0 THEN <<0, 0, base, stream>> ELSE Incr(counter[b - 1])
  IN  [b \in 0..n |-> Philox4x10(counter[b], seed)]
Streams ==
  [s \in {<<c.seed, c.base, c.stream>> : c \in Calls} |-> Blocks(s[1], s[2], s[3], B * B - 1)]
StreamWord(i) == Streams[<<call.seed, call.base, call.stream>>][i \div 4][(i % 4) + 1]

\* A multiplier is undone by its inverse modulo B, a word by the words it was mixed with.
InverseOf == [m \in {M0, M1} |-> CHOOSE n \in Word : (m * n) % B = 1 % B]
Unround(c, ky) ==
  LET c0 == (c[4] * InverseOf[M0]) % B
      c2 == (c[2] * InverseOf[M1]) % B
  IN  <<c0, XorWord(XorWord(c[1], ky[1]), MulHi(M1, c2)), c2,
        XorWord(XorWord(c[3], ky[2]), MulHi(M0, c0))>>

\* The key of the round counted from 0: as many increments on as rounds went before it.
KeyOf(n) == <<(call.seed[1] + n * W0) % B, (call.seed[2] + n * W1) % B>>

\* The counter from which ten rounds lead to a block of four words.
Unwound(words) ==
  LET back[n \in 0..10] == IF n = 10 THEN words ELSE Unround(back[n + 1], KeyOf(n))
  IN  back[0]

Indices == 0..(8 * B - 1)   \* as many as fill two blocks of the high word
Places == {<<c.base, c.stream>> : c \in Calls}
SameCell(i, j, p) ==
  /\ DeriveCounter(i, call.base, call.stream) = DeriveCounter(j, p[1], p[2])
  /\ i % 4 = j % 4

-----------------------------------------------------------------------------
\* A fill has its type, and what it has drawn and mapped so far is right.
Values == IF call.op = "normal_f32" THEN [u1 : Nat, u2 : Nat, arm : {"cos", "sin"}] ELSE Nat
TypeOK ==
  /\ call \in Calls /\ draws \in Seq(Word)
  /\ status \in {"called", "drawing", "mapping", "pairing", "returned", "declined"}
  /\ data \in Seq(Values)

DrawsAreWords ==
  /\ status \in {"drawing", "mapping"} => call.op # "normal_f32"
  /\ status = "pairing" => call.op = "normal_f32"
  /\ status \in {"called", "drawing"} => data = <<>>
  /\ Len(draws) <= call.count
  /\ \A i \in DOMAIN draws : draws[i] = Draw(i - 1)

\* Raw words are returned as drawn, all at once; the others one by one, each from the word
\* at its own index; and what is returned has as many elements as the shape.
DataAreMapped ==
  /\ status = "mapping" => Len(draws) = call.count /\ call.op # "random_bits"
  /\ status = "returned" => Len(data) = call.count
  /\ call.op = "random_bits" => data = <<>> \/ data = draws
  /\ call.op \in {"bernoulli_mask", "uniform_f32"} =>
       /\ Len(data) <= Len(draws)
       /\ \A i \in DOMAIN data :
            data[i] = IF call.op = "bernoulli_mask" THEN MaskBit(draws[i], call.threshold)
                      ELSE UniformWord(draws[i])

\* Whole pairs are filled, or all elements are.
PairsAreFilled ==
  call.op = "normal_f32" =>
    /\ Len(data) <= call.count /\ (Len(data) % 2 = 0 \/ Len(data) = call.count)
    /\ \A i \in DOMAIN data :
         data[i] = Normal(Pair(2 * ((i - 1) \div 2))[1], Pair(2 * ((i - 1) \div 2))[2],
                          IF i % 2 = 1 THEN "cos" ELSE "sin")

FillInv == TypeOK /\ DrawsAreWords /\ DataAreMapped /\ PairsAreFilled

-----------------------------------------------------------------------------
\* An element depends on its index alone: it is the word a backend finds there by counting
\* blocks up and keeping their four words, and a pair of normal values has the two words
\* at its own even and odd index, the missing one of an odd count included.  What is
\* returned has every element of the shape and no more.
PositionPure ==
  /\ \A i \in DOMAIN draws : draws[i] = StreamWord(i - 1)
  /\ call.op = "random_bits" => \A i \in DOMAIN data : data[i] = StreamWord(i - 1)
  /\ call.op = "normal_f32" =>
       \A i \in DOMAIN data :
         LET p == 2 * ((i - 1) \div 2)
         IN  data[i] = Normal(UniformWord(StreamWord(p)), UniformWord(StreamWord(p + 1)),
                              IF i % 2 = 1 THEN "cos" ELSE "sin")
  /\ status = "returned" => Len(data) = call.count

\* No other element of any stream or step draws the same word of the same block as the one
\* last drawn, across the carry of the block into its high word; and the rounds can be
\* undone one by one from the four words drawn last back to their counter, so that two
\* counters never give the same block.
CellsAreApart ==
  draws # <<>> =>
    /\ \A p \in Places, j \in Indices :
         SameCell(Len(draws) - 1, j, p) =>
           j = Len(draws) - 1 /\ p = <<call.base, call.stream>>
    /\ Len(draws) % 4 = 0 =>
         Unwound(SubSeq(draws, Len(draws) - 3, Len(draws))) =
           DeriveCounter(Len(draws) - 1, call.base, call.stream)

\* The steps of a word between two neighbouring uniform values.
Step == B \div Mantissas

\* The mask and the uniform values of one stream agree, element by element.  A uniform value
\* is below a threshold p exactly when its word is below that threshold as bernoulli_mask
\* takes it, p * 2^32; and the bit bernoulli_mask wrote is 1 only where the uniform value of
\* its element is below p, and is 1 wherever the whole step above that value is.  The two
\* agree exactly at a threshold that is a uniform value; between two, the mask is the finer.
MaskIsUniformBelow ==
  /\ call.op = "uniform_f32" =>
       \A i \in DOMAIN data, t \in 0..Mantissas : data[i] < t <=> StreamWord(i - 1) < t * Step
  /\ call.op = "bernoulli_mask" =>
       \A i \in DOMAIN data :
         LET u == UniformWord(StreamWord(i - 1))
         IN  /\ data[i] \in {0, 1}
             /\ data[i] = 1 => u * Step < call.threshold
             /\ (u + 1) * Step <= call.threshold => data[i] = 1
=============================================================================
