---------------------------- MODULE RandomProofs ----------------------------
(***************************************************************************)
(* The random fills, for every word size, multipliers, key increments and  *)
(* set of calls: each element depends on its index alone, no two share a   *)
(* word of a block, the ten rounds lose nothing of a counter, and masks    *)
(* and uniform values of one stream agree.                                 *)
(***************************************************************************)
EXTENDS RandomFill, NumberLemmas, SequenceTheorems

Counter == Word \X Word \X Word \X Word
Key == Word \X Word

-----------------------------------------------------------------------------
\* One round.

LEMMA WordFacts ==
  /\ B \in Nat /\ B > 0 /\ M0 \in Word /\ M1 \in Word /\ W0 \in Word /\ W1 \in Word
  /\ Word \subseteq Nat /\ \A w \in Word : w < B
  /\ \A v \in Int : v % B \in Word
<1>1. B \in Nat /\ B > 0 /\ M0 \in Word /\ M1 \in Word /\ W0 \in Word /\ W1 \in Word
  BY PhiloxAssumption
<1>2. \A v \in Int : v % B \in Word
  BY <1>1, Remainder DEF Word
<1> QED
  BY <1>1, <1>2 DEF Word

\* mulhilo: both halves of a product of words are words.
LEMMA HalvesAreWords ==
  ASSUME NEW m \in Word, NEW w \in Word
  PROVE  MulHi(m, w) \in Word /\ MulLo(m, w) \in Word
<1>1. m \in Nat /\ w \in Nat /\ B \in Nat /\ B > 0 /\ m < B /\ w < B
  BY WordFacts
<1>2. m * w \in Nat /\ m * w < B * B
  <2>1. m * w \in Nat /\ B * w \in Nat /\ B * B \in Nat
    BY <1>1
  <2>2. B * (B - w) >= B /\ B * (B - w) = B * B - B * w
    BY <1>1
  <2>3. (B - m) * w >= 0 /\ (B - m) * w = B * w - m * w
    BY <1>1
  <2> QED
    BY <1>1, <2>1, <2>2, <2>3
<1>3. (m * w) \div B \in 0..(B - 1)
  <2> DEFINE product == m * w
  <2>1. product \in Nat /\ product < B * B
    BY <1>2
  <2> HIDE DEF product
  <2>2. product \div B \in 0..(B - 1)
    BY <1>1, <2>1, QuotientBelow
  <2> QED
    BY <2>2 DEF product
<1> QED
  BY <1>2, <1>3, WordFacts DEF MulHi, MulLo, Word

LEMMA XorFacts ==
  /\ \A a, b \in Word : XorWord(a, b) \in Word /\ XorWord(a, b) = XorWord(b, a)
  /\ \A a, b \in Word : XorWord(XorWord(a, b), b) = a
BY XorAssumption DEF XorWord

LEMMA RoundIsCounter ==
  ASSUME NEW c \in Counter, NEW k \in Key
  PROVE  Round(c, k) \in Counter
<1>1. /\ c[1] \in Word /\ c[2] \in Word /\ c[3] \in Word /\ c[4] \in Word
      /\ k[1] \in Word /\ k[2] \in Word
  BY DEF Counter, Key
<1>2. /\ MulHi(M1, c[3]) \in Word /\ MulLo(M1, c[3]) \in Word
      /\ MulHi(M0, c[1]) \in Word /\ MulLo(M0, c[1]) \in Word
  BY <1>1, WordFacts, HalvesAreWords
<1> QED
  BY <1>1, <1>2, XorFacts DEF Round, Counter

\* A multiplier is undone by its inverse.
LEMMA InverseUndoes ==
  ASSUME NEW m \in {M0, M1}, NEW w \in Word
  PROVE  (MulLo(m, w) * InverseOf[m]) % B = w
<1> DEFINE inv == InverseOf[m]
           low == (m * w) % B
           hi == (m * w) \div B
           one == (m * inv) \div B
<1>1. inv \in Word /\ (m * inv) % B = 1 % B
  BY PhiloxAssumption DEF InverseOf
<1>2. /\ B \in Nat /\ B > 0 /\ m \in Nat /\ w \in Nat /\ w < B /\ inv \in Nat
      /\ m * w \in Nat /\ m * inv \in Nat
  <2>1. B \in Nat /\ B > 0 /\ m \in Nat /\ w \in Nat /\ w < B /\ inv \in Nat
    BY <1>1, WordFacts
  <2> HIDE DEF inv
  <2> QED
    BY <2>1
<1>3. low \in 0..(B - 1) /\ hi \in Int /\ m * w = hi * B + low
  BY <1>2, Remainder
<1>4. one \in Int /\ m * inv = one * B + (1 % B)
  <2> DEFINE product == m * inv
  <2>1. product \in Int /\ product % B = 1 % B
    BY <1>1, <1>2
  <2> HIDE DEF product
  <2>2. product \div B \in Int /\ product = (product \div B) * B + (product % B)
    BY <1>2, <2>1, Remainder
  <2> QED
    BY <2>1, <2>2 DEF product
<1> HIDE DEF inv, low, hi, one
<1>5. CASE B = 1
  <2>1. (low * inv) % B \in 0..(B - 1)
    BY <1>2, <1>3, Remainder
  <2> QED
    BY <1>2, <1>5, <2>1 DEF MulLo, low, inv
<1>6. CASE B # 1
  <2>1. 1 % B = 1
    BY <1>2, <1>6
  <2>2. low * inv = (m * w) * inv - (hi * B) * inv
    <3>1. low = m * w - hi * B
      BY <1>2, <1>3
    <3>2. (m * w - hi * B) * inv = (m * w) * inv - (hi * B) * inv
      BY <1>2, <1>3
    <3> QED
      BY <3>1, <3>2
  <2>3. (m * w) * inv = (m * inv) * w
    BY <1>2
  <2>4. (m * inv) * w = (one * w) * B + w
    <3>1. (one * B + 1) * w = (one * w) * B + w
      BY <1>2, <1>4
    <3> QED
      BY <1>4, <2>1, <3>1
  <2>5. (hi * B) * inv = (hi * inv) * B
    BY <1>2, <1>3
  <2>6. one * w \in Int /\ hi * inv \in Int
    BY <1>2, <1>3, <1>4
  <2>7. (one * w - hi * inv) * B = (one * w) * B - (hi * inv) * B
    BY <1>2, <2>6
  <2>8. low * inv = (one * w - hi * inv) * B + w
    <3>1. (one * w) * B \in Int /\ (hi * inv) * B \in Int /\ low * inv \in Int
      BY <1>2, <1>3, <2>6
    <3> QED
      BY <1>2, <2>2, <2>3, <2>4, <2>5, <2>7, <3>1
  <2>9. low * inv \in Int /\ one * w - hi * inv \in Int /\ w \in 0..(B - 1)
    BY <1>2, <1>3, <2>6
  <2>10. (low * inv) % B = w
    BY <1>2, <2>8, <2>9, DivisionIs
  <2> QED
    BY <2>10 DEF MulLo, low, inv
<1> QED
  BY <1>5, <1>6

\* A round loses nothing: its counter can be computed back from what it returns.
LEMMA RoundIsUndone ==
  ASSUME NEW c \in Counter, NEW k \in Key
  PROVE  Unround(Round(c, k), k) = c
<1> DEFINE h1 == MulHi(M1, c[3])
           h0 == MulHi(M0, c[1])
           r == Round(c, k)
<1>1. /\ c[1] \in Word /\ c[2] \in Word /\ c[3] \in Word /\ c[4] \in Word
      /\ k[1] \in Word /\ k[2] \in Word /\ c = <<c[1], c[2], c[3], c[4]>>
  BY DEF Counter, Key
<1>2. h1 \in Word /\ h0 \in Word
  BY <1>1, WordFacts, HalvesAreWords
<1>3. /\ r[1] = XorWord(XorWord(h1, c[2]), k[1]) /\ r[2] = MulLo(M1, c[3])
      /\ r[3] = XorWord(XorWord(h0, c[4]), k[2]) /\ r[4] = MulLo(M0, c[1])
  BY DEF Round
<1>4. (r[4] * InverseOf[M0]) % B = c[1] /\ (r[2] * InverseOf[M1]) % B = c[3]
  BY <1>1, <1>3, InverseUndoes
<1>5. \A h, w, x \in Word : XorWord(XorWord(XorWord(XorWord(h, w), x), x), h) = w
  <2> TAKE h, w, x \in Word
  <2>1. XorWord(h, w) \in Word /\ XorWord(h, w) = XorWord(w, h)
    BY XorFacts
  <2>2. XorWord(XorWord(XorWord(h, w), x), x) = XorWord(h, w)
    BY <2>1, XorFacts
  <2>3. XorWord(XorWord(w, h), h) = w
    BY XorFacts
  <2> QED
    BY <2>1, <2>2, <2>3
<1> HIDE DEF h1, h0
<1>6. XorWord(XorWord(r[1], k[1]), h1) = c[2] /\ XorWord(XorWord(r[3], k[2]), h0) = c[4]
  BY <1>1, <1>2, <1>3, <1>5
<1> HIDE DEF r
<1>7. Unround(r, k) = <<c[1], c[2], c[3], c[4]>>
  BY <1>4, <1>6 DEF Unround, h1, h0
<1> QED
  BY <1>1, <1>7 DEF r

-----------------------------------------------------------------------------
\* Ten rounds.

Place == [ctr : Counter, k : Key]

LEMMA KeyBeforeIsKey ==
  ASSUME NEW i \in Nat, NEW k \in Key
  PROVE  KeyBefore(i, k) \in Key
<1>1. W0 \in Int /\ W1 \in Int /\ k[1] \in Int /\ k[2] \in Int
  <2>1. k[1] \in Word /\ k[2] \in Word
    BY DEF Key
  <2> QED
    BY <2>1, WordFacts DEF Word
<1>2. (k[1] + W0) % B \in Word /\ (k[2] + W1) % B \in Word
  BY <1>1, WordFacts
<1> QED
  BY <1>2 DEF Key, BumpKey, KeyBefore

\* The loop of philox4x32_10 stays in counters and keys, round after round.
LEMMA RoundsRun ==
  ASSUME NEW c \in Counter, NEW key \in Key
  PROVE  /\ AfterRounds(c, key)[0] = [ctr |-> c, k |-> key]
         /\ \A i \in 0..10 : AfterRounds(c, key)[i] \in Place
         /\ \A i \in 1..10 :
              /\ AfterRounds(c, key)[i].k = KeyBefore(i - 1, AfterRounds(c, key)[i - 1].k)
              /\ AfterRounds(c, key)[i].ctr =
                   Round(AfterRounds(c, key)[i - 1].ctr, AfterRounds(c, key)[i].k)
<1> DEFINE base == [ctr |-> c, k |-> key]
           next(i, g) == [ctr |-> Round(g.ctr, KeyBefore(i - 1, g.k)), k |-> KeyBefore(i - 1, g.k)]
           step == [i \in Nat |-> [g \in Place |-> IF i = 0 THEN g ELSE next(i, g)]]
           body(f) == [i \in 0..10 |->
             IF i = 0 THEN [ctr |-> c, k |-> key]
             ELSE LET kk == KeyBefore(i - 1, f[i - 1].k)
                  IN  [ctr |-> Round(f[i - 1].ctr, kk), k |-> kk]]
           after == AfterRounds(c, key)
<1>1. base \in Place
  BY DEF Place
<1>2. \A i \in Nat, g \in Place : i # 0 => next(i, g) \in Place
  <2> TAKE i \in Nat, g \in Place
  <2> HAVE i # 0
  <2>1. i - 1 \in Nat /\ g.ctr \in Counter /\ g.k \in Key
    BY DEF Place
  <2>2. KeyBefore(i - 1, g.k) \in Key
    BY <2>1, KeyBeforeIsKey
  <2>3. Round(g.ctr, KeyBefore(i - 1, g.k)) \in Counter
    BY <2>1, <2>2, RoundIsCounter
  <2> QED
    BY <2>2, <2>3 DEF Place
<1>3. step \in [Nat -> [Place -> Place]]
  <2> HIDE DEF next
  <2> QED
    BY <1>2
<1>4. PICK f \in [0..10 -> Place] :
        f[0] = base /\ \A i \in 1..10 : f[i] = step[i][f[i - 1]]
  <2> DEFINE last == 10
  <2>1. last \in Nat
    OBVIOUS
  <2> HIDE DEF base, step, next, body, after, last
  <2>2. \E f \in [0..last -> Place] : Unrolls(f, base, step, last)
    BY <1>1, <1>3, <2>1, RecursionOverInterval
  <2> QED
    BY <2>2 DEF last, Unrolls
<1>5. f = body(f)
  <2>1. ASSUME NEW i \in 0..10
        PROVE  f[i] = body(f)[i]
    <3>1. CASE i = 0
      BY <1>4, <3>1
    <3>2. CASE i # 0
      <4>1. i \in Nat /\ i - 1 \in 0..10 /\ f[i - 1] \in Place
        <5>1. i \in Nat /\ i - 1 \in 0..10
          BY <3>2
        <5> QED
          BY <5>1
      <4>2. f[i] = step[i][f[i - 1]]
        <5>1. i \in 1..10
          BY <3>2
        <5> QED
          BY <1>4, <5>1
      <4>3. step[i][f[i - 1]] = next(i, f[i - 1])
        <5> HIDE DEF next
        <5> QED
          BY <3>2, <4>1
      <4>4. body(f)[i] = next(i, f[i - 1])
        BY <3>2
      <4> QED
        BY <4>2, <4>3, <4>4
    <3> QED
      BY <3>1, <3>2
  <2>2. DOMAIN f = 0..10 /\ f = [i \in 0..10 |-> f[i]]
    BY <1>4
  <2> HIDE DEF base, step, next
  <2>3. body(f) = [i \in 0..10 |-> body(f)[i]]
    OBVIOUS
  <2> HIDE DEF body
  <2> QED
    BY <2>1, <2>2, <2>3
<1>6. after = body(after)
  <2>1. after = CHOOSE g : g = body(g)
    BY DEF AfterRounds
  <2> HIDE DEF body, after
  <2> QED
    BY <1>5, <2>1
<1>7. /\ after[0] = base
      /\ \A i \in 1..10 : after[i] = next(i, after[i - 1])
  <2> HIDE DEF after
  <2>1. \A i \in 0..10 : after[i] = body(after)[i]
    <3> HIDE DEF body
    <3> QED
      BY <1>6
  <2> QED
    BY <2>1
<1>8. \A i \in 0..10 : after[i] \in Place
  <2> DEFINE Outside == {i \in 0..10 : after[i] \notin Place}
  <2> SUFFICES ASSUME Outside # {} PROVE FALSE
    OBVIOUS
  <2> HIDE DEF after, base, next
  <2>1. PICK i \in Outside : \A j \in Outside : i <= j
    <3>1. Outside \subseteq Nat
      OBVIOUS
    <3> HIDE DEF Outside
    <3> QED
      BY <3>1, LeastNatural
  <2>2. i # 0
    BY <1>1, <1>7, <2>1
  <2>3. i \in Nat /\ i \in 1..10 /\ i - 1 \in 0..10 /\ i - 1 \notin Outside
    BY <2>1, <2>2
  <2>4. after[i - 1] \in Place
    BY <2>3
  <2>5. after[i] = next(i, after[i - 1])
    BY <1>7, <2>3
  <2> QED
    BY <1>2, <2>1, <2>2, <2>3, <2>4, <2>5
<1> HIDE DEF after
<1>9. \A i \in 1..10 : /\ after[i].k = KeyBefore(i - 1, after[i - 1].k)
                       /\ after[i].ctr = Round(after[i - 1].ctr, after[i].k)
  BY <1>7
<1> QED
  BY <1>7, <1>8, <1>9 DEF after

LEMMA PhiloxIsCounter ==
  ASSUME NEW c \in Counter, NEW k \in Key
  PROVE  Philox4x10(c, k) \in Counter
<1>1. AfterRounds(c, k)[10] \in Place
  <2>1. 10 \in 0..10
    OBVIOUS
  <2> QED
    BY <2>1, RoundsRun
<1> QED
  BY <1>1 DEF Philox4x10, Place

\* A sum reduced twice is reduced once.
LEMMA SumInTwoSteps ==
  ASSUME NEW v \in Int, NEW w \in Int
  PROVE  ((v % B) + w) % B = (v + w) % B
<1> DEFINE q == v \div B
           r == v % B
<1>1. B \in Nat /\ B > 0 /\ r \in Int /\ q \in Int /\ v = q * B + r
  BY WordFacts, Remainder DEF Word
<1> HIDE DEF q, r
<1>2. r + w = (v + w) + (-q) * B
  BY <1>1
<1>3. ((v + w) + (-q) * B) % B = (v + w) % B
  <2> DEFINE sum == v + w
             times == -q
  <2>1. sum \in Int /\ times \in Int
    BY <1>1
  <2> HIDE DEF sum, times
  <2>2. (sum + times * B) % B = sum % B
    BY <1>1, <2>1, RemainderOfSum
  <2> QED
    BY <2>2 DEF sum, times
<1> QED
  BY <1>2, <1>3 DEF r

\* The key of a round is the first key and as many increments as rounds went before.
LEMMA KeysOfRounds ==
  ASSUME NEW c \in Counter, call.seed \in Key
  PROVE  \A n \in 0..9 : AfterRounds(c, call.seed)[n + 1].k = KeyOf(n)
<1> DEFINE after == AfterRounds(c, call.seed)
           Other == {n \in 0..9 : after[n + 1].k # KeyOf(n)}
<1> SUFFICES ASSUME Other # {} PROVE FALSE
  OBVIOUS
<1>0. /\ after[0] = [ctr |-> c, k |-> call.seed]
      /\ \A i \in 1..10 : after[i].k = KeyBefore(i - 1, after[i - 1].k)
  BY RoundsRun
<1>s. call.seed[1] \in Word /\ call.seed[2] \in Word /\ call.seed = <<call.seed[1], call.seed[2]>>
  BY DEF Key
<1> HIDE DEF after
<1>1. PICK n \in Other : \A m \in Other : n <= m
  <2>1. Other \subseteq Nat
    OBVIOUS
  <2> HIDE DEF Other
  <2> QED
    BY <2>1, LeastNatural
<1>2. n \in 0..9 /\ after[n + 1].k # KeyOf(n) /\ n \in Nat
  OBVIOUS
<1>3. after[n + 1].k = KeyBefore(n, after[n].k)
  <2>1. n + 1 \in 1..10 /\ (n + 1) - 1 = n
    BY <1>2
  <2> QED
    BY <1>0, <2>1
<1>4. CASE n = 0
  <2>1. after[n + 1].k = call.seed
    BY <1>0, <1>3, <1>4 DEF KeyBefore
  <2>2. \A w \in Word : (w + 0) % B = w
    <3> TAKE w \in Word
    <3>1. w \in Int /\ 0 \in Int /\ w \in 0..(B - 1) /\ w = 0 * B + w /\ B \in Nat /\ B > 0
      BY WordFacts DEF Word
    <3>2. w % B = w
      BY <3>1, DivisionIs
    <3> QED
      BY <3>1, <3>2
  <2>3. 0 * W0 = 0 /\ 0 * W1 = 0
    BY WordFacts
  <2> QED
    BY <1>2, <1>4, <1>s, <2>1, <2>2, <2>3 DEF KeyOf
<1>5. CASE n # 0
  <2>1. n - 1 \in 0..9 /\ n - 1 \notin Other /\ (n - 1) + 1 = n
    <3>1. n - 1 \in 0..9 /\ (n - 1) + 1 = n /\ ~(n <= n - 1)
      BY <1>2, <1>5
    <3> HIDE DEF Other
    <3> QED
      BY <1>1, <3>1
  <2>2. after[n].k = KeyOf(n - 1)
    BY <2>1
  <2>3. after[n + 1].k = BumpKey(KeyOf(n - 1))
    BY <1>2, <1>3, <1>5, <2>2 DEF KeyBefore
  <2>4. \A s, w \in Word : (((s + (n - 1) * w) % B) + w) % B = (s + n * w) % B
    <3> TAKE s, w \in Word
    <3>1. s \in Int /\ w \in Int
      BY WordFacts
    <3>2. s + (n - 1) * w \in Int /\ (s + (n - 1) * w) + w = s + n * w
      BY <1>2, <3>1
    <3> QED
      BY <3>1, <3>2, SumInTwoSteps
  <2>5. BumpKey(KeyOf(n - 1)) = KeyOf(n)
    BY <1>s, <2>4, WordFacts DEF BumpKey, KeyOf
  <2> QED
    BY <1>2, <2>3, <2>5
<1> QED
  BY <1>4, <1>5

\* The ten rounds lose nothing: undone one by one, with the key each one had, they lead from
\* the block back to its counter.
LEMMA RoundsAreUndone ==
  ASSUME NEW c \in Counter, call.seed \in Key
  PROVE  Unwound(Philox4x10(c, call.seed)) = c
<1> DEFINE after == AfterRounds(c, call.seed)
           words == Philox4x10(c, call.seed)
           body(f) == [n \in 0..10 |-> IF n = 10 THEN words ELSE Unround(f[n + 1], KeyOf(n))]
           there == [n \in 0..10 |-> after[n].ctr]
           back == CHOOSE f : f = body(f)
<1>1. Unwound(words) = back[0]
  BY DEF Unwound
<1>2. /\ after[0].ctr = c /\ words = after[10].ctr
      /\ \A n \in 0..10 : after[n].ctr \in Counter /\ after[n].k \in Key
      /\ \A n \in 0..9 : after[n + 1].ctr = Round(after[n].ctr, KeyOf(n)) /\ KeyOf(n) \in Key
  <2>1. /\ after[0] = [ctr |-> c, k |-> call.seed]
        /\ \A n \in 0..10 : after[n] \in Place
        /\ \A n \in 1..10 : after[n].ctr = Round(after[n - 1].ctr, after[n].k)
    BY RoundsRun
  <2>2. \A n \in 0..9 : after[n + 1].k = KeyOf(n)
    BY KeysOfRounds
  <2>3. words = after[10].ctr
    BY DEF Philox4x10
  <2> HIDE DEF after, words
  <2>4. \A n \in 0..10 : after[n].ctr \in Counter /\ after[n].k \in Key
    BY <2>1 DEF Place
  <2>5. ASSUME NEW n \in 0..9
        PROVE  after[n + 1].ctr = Round(after[n].ctr, KeyOf(n)) /\ KeyOf(n) \in Key
    <3>1. n + 1 \in 1..10 /\ (n + 1) - 1 = n /\ n + 1 \in 0..10
      OBVIOUS
    <3> QED
      BY <2>1, <2>2, <2>4, <3>1
  <2> QED
    BY <2>1, <2>3, <2>4, <2>5
<1> HIDE DEF after, words
<1>3. \A n \in 0..9 : Unround(after[n + 1].ctr, KeyOf(n)) = after[n].ctr
  <2> TAKE n \in 0..9
  <2>1. n \in 0..10
    OBVIOUS
  <2> QED
    BY <1>2, <2>1, RoundIsUndone
<1>4. there = body(there)
  <2>1. ASSUME NEW n \in 0..10
        PROVE  there[n] = IF n = 10 THEN words ELSE Unround(there[n + 1], KeyOf(n))
    <3>1. CASE n = 10
      BY <1>2, <3>1
    <3>2. CASE n # 10
      <4>1. n \in 0..9 /\ n + 1 \in 0..10
        BY <3>2
      <4> QED
        BY <1>3, <3>2, <4>1
    <3> QED
      BY <3>1, <3>2
  <2> QED
    BY <2>1
<1>5. back = body(back)
  <2> HIDE DEF body, there
  <2> QED
    BY <1>4
<1>6. /\ back[10] = words
      /\ \A n \in 0..9 : back[n] = Unround(back[n + 1], KeyOf(n))
  <2> HIDE DEF back
  <2>1. \A n \in 0..10 : back[n] = body(back)[n]
    <3> HIDE DEF body
    <3> QED
      BY <1>5
  <2>2. \A n \in 0..9 : n \in 0..10 /\ n # 10
    OBVIOUS
  <2> QED
    BY <2>1, <2>2
<1> HIDE DEF back
<1> DEFINE Other == {d \in 0..10 : back[10 - d] # after[10 - d].ctr}
<1>7. Other = {}
  <2> SUFFICES ASSUME Other # {} PROVE FALSE
    OBVIOUS
  <2>1. PICK d \in Other : \A e \in Other : d <= e
    <3>1. Other \subseteq Nat
      OBVIOUS
    <3> HIDE DEF Other
    <3> QED
      BY <3>1, LeastNatural
  <2>2. d \in 0..10 /\ back[10 - d] # after[10 - d].ctr
    OBVIOUS
  <2>3. d # 0
    BY <1>2, <1>6, <2>2
  <2>4. d - 1 \in 0..10 /\ d - 1 \notin Other /\ 10 - (d - 1) = (10 - d) + 1 /\ 10 - d \in 0..9
    <3>1. d - 1 \in 0..10 /\ ~(d <= d - 1) /\ 10 - (d - 1) = (10 - d) + 1 /\ 10 - d \in 0..9
      BY <2>2, <2>3
    <3> HIDE DEF Other
    <3> QED
      BY <2>1, <3>1
  <2>5. back[(10 - d) + 1] = after[(10 - d) + 1].ctr
    BY <2>4
  <2> QED
    BY <1>3, <1>6, <2>2, <2>4, <2>5
<1>8. back[0] = after[0].ctr
  <2>1. 10 \in 0..10 /\ 10 - 10 = 0
    OBVIOUS
  <2> QED
    BY <1>7, <2>1
<1> QED
  BY <1>1, <1>2, <1>8 DEF words

-----------------------------------------------------------------------------
\* The counter of an element.

LEMMA IndexFacts ==
  ASSUME NEW i \in Nat, i < 4 * B * B
  PROVE  i \div 4 \in 0..(B * B - 1) /\ i % 4 \in 0..3 /\ i = (i \div 4) * 4 + (i % 4)
<1> DEFINE blocks == B * B
<1>1. blocks \in Nat /\ i < blocks * 4
  <2>1. B * B \in Nat /\ 4 * B * B = (B * B) * 4
    BY WordFacts
  <2> QED
    BY <2>1
<1> HIDE DEF blocks
<1>2. i \div 4 \in 0..(blocks - 1)
  BY <1>1, QuotientBelow
<1>3. i % 4 \in 0..(4 - 1) /\ i = (i \div 4) * 4 + (i % 4)
  BY Remainder
<1> QED
  BY <1>2, <1>3 DEF blocks

\* Every index is some block's, and one of its four words.
LEMMA Quarters ==
  ASSUME NEW i \in Int
  PROVE  i \div 4 \in Int /\ i % 4 \in 0..3 /\ i = (i \div 4) * 4 + (i % 4)
<1> DEFINE s == 4
<1>1. s \in Nat /\ s > 0 /\ s - 1 = 3
  OBVIOUS
<1> HIDE DEF s
<1>2. i % s \in 0..(s - 1) /\ i \div s \in Int /\ i = (i \div s) * s + (i % s)
  BY <1>1, Remainder
<1> QED
  BY <1>1, <1>2 DEF s

\* The counter of a block, its number split into two words.
CounterOfBlock(b, base, stream) == <<b % B, b \div B, base, stream>>

LEMMA BlockFacts ==
  ASSUME NEW b \in 0..(B * B - 1), NEW base \in Word, NEW stream \in Word
  PROVE  CounterOfBlock(b, base, stream) \in Counter
<1>1. b \in Nat /\ B \in Nat /\ B > 0 /\ b < B * B
  BY WordFacts
<1>2. b \div B \in Word /\ b % B \in Word
  BY <1>1, QuotientBelow, WordFacts DEF Word
<1> QED
  BY <1>2 DEF CounterOfBlock, Counter

LEMMA IncrCases ==
  ASSUME NEW lo \in 0..(B - 1), NEW hi \in Int, NEW x, NEW y
  PROVE  /\ lo < B - 1 => Incr(<<lo, hi, x, y>>) = <<lo + 1, hi, x, y>>
         /\ lo = B - 1 /\ hi < B - 1 => Incr(<<lo, hi, x, y>>) = <<0, hi + 1, x, y>>
<1> DEFINE c == <<lo, hi, x, y>>
<1>1. c[1] = lo /\ c[2] = hi /\ c[3] = x /\ c[4] = y
  OBVIOUS
<1>2. B \in Int /\ lo \in Int
  BY WordFacts
<1> HIDE DEF c
<1>3. CASE lo < B - 1
  <2>1. c[1] < B - 1 /\ ~(c[1] = B - 1)
    BY <1>1, <1>2, <1>3
  <2>2. Incr(c) = <<c[1] + 1, c[2], c[3], c[4]>>
    BY <2>1 DEF Incr
  <2> QED
    BY <1>1, <1>2, <1>3, <2>2 DEF c
<1>4. CASE lo = B - 1 /\ hi < B - 1
  <2>1. ~(c[1] < B - 1) /\ c[1] = B - 1 /\ c[2] < B - 1 /\ ~(c[2] = B - 1)
    BY <1>1, <1>2, <1>4
  <2>2. Incr(c) = <<0, c[2] + 1, c[3], c[4]>>
    BY <2>1 DEF Incr
  <2> QED
    BY <1>1, <1>2, <1>4, <2>2 DEF c
<1> QED
  BY <1>2, <1>3, <1>4 DEF c

\* The block after a block, incremented as Random123 does.
LEMMA IncrIsNext ==
  ASSUME NEW b \in 0..(B * B - 1), b # 0, NEW base \in Word, NEW stream \in Word
  PROVE  Incr(CounterOfBlock(b - 1, base, stream)) = CounterOfBlock(b, base, stream)
<1> DEFINE q == (b - 1) \div B
           r == (b - 1) % B
<1>1. B \in Nat /\ B > 0 /\ b \in Nat /\ b - 1 \in Nat /\ b < B * B
  BY WordFacts
<1>2. q \in Int /\ r \in 0..(B - 1) /\ b - 1 = q * B + r
  BY <1>1, Remainder
<1>3. CounterOfBlock(b - 1, base, stream) = <<r, q, base, stream>>
  BY DEF CounterOfBlock
<1> HIDE DEF q, r
<1>4. CASE r < B - 1
  <2>1. b = q * B + (r + 1) /\ r + 1 \in 0..(B - 1)
    BY <1>1, <1>2, <1>4
  <2>2. b % B = r + 1 /\ b \div B = q
    BY <1>1, <1>2, <2>1, DivisionIs
  <2>3. Incr(<<r, q, base, stream>>) = <<r + 1, q, base, stream>>
    BY <1>2, <1>4, IncrCases
  <2> QED
    BY <1>3, <2>2, <2>3 DEF CounterOfBlock
<1>5. CASE ~(r < B - 1)
  <2>1. r = B - 1 /\ b = (q + 1) * B + 0 /\ q + 1 \in Int /\ 0 \in 0..(B - 1)
    BY <1>1, <1>2, <1>5
  <2>2. b % B = 0 /\ b \div B = q + 1
    BY <1>1, <2>1, DivisionIs
  <2>3. q + 1 \in 0..(B - 1)
    BY <1>1, <2>2, QuotientBelow
  <2>4. q < B - 1
    BY <1>1, <1>2, <2>3
  <2>5. Incr(<<r, q, base, stream>>) = <<0, q + 1, base, stream>>
    BY <1>2, <2>1, <2>4, IncrCases
  <2> QED
    BY <1>3, <2>2, <2>5 DEF CounterOfBlock
<1> QED
  BY <1>4, <1>5

\* A backend that increments the counter from block to block finds in each block the four
\* words of derive_counter's.
LEMMA BlocksAreDerived ==
  ASSUME NEW seed, NEW base \in Word, NEW stream \in Word, NEW b \in 0..(B * B - 1)
  PROVE  Blocks(seed, base, stream, B * B - 1)[b] =
           Philox4x10(CounterOfBlock(b, base, stream), seed)
<1> DEFINE n == B * B - 1
           body(f) == [a \in 0..n |-> IF a = 0 THEN <<0, 0, base, stream>> ELSE Incr(f[a - 1])]
           derived == [a \in 0..n |-> CounterOfBlock(a, base, stream)]
           counted == CHOOSE f : f = body(f)
<1>1. n \in Nat
  <2>1. B * B >= 1 /\ B * B \in Nat
    <3>1. (B - 1) * B >= 0 /\ (B - 1) * B = B * B - B
      BY WordFacts
    <3>2. B * B \in Nat
      BY WordFacts
    <3> QED
      BY <3>1, <3>2, WordFacts
  <2> QED
    BY <2>1
<1>2. Blocks(seed, base, stream, n) = [a \in 0..n |-> Philox4x10(counted[a], seed)]
  BY DEF Blocks
<1>3. CounterOfBlock(0, base, stream) = <<0, 0, base, stream>>
  <2>1. 0 = 0 * B + 0 /\ 0 \in 0..(B - 1)
    BY WordFacts
  <2>2. 0 % B = 0 /\ 0 \div B = 0
    BY <2>1, WordFacts, DivisionIs
  <2> QED
    BY <2>2 DEF CounterOfBlock
<1>4. \A a \in 0..n : a # 0 => a - 1 \in 0..n /\ Incr(derived[a - 1]) = derived[a]
  <2> TAKE a \in 0..n
  <2> HAVE a # 0
  <2>1. a - 1 \in 0..n /\ a \in 0..(B * B - 1)
    BY <1>1
  <2> QED
    BY <2>1, IncrIsNext
<1> HIDE DEF n
<1>5. derived = body(derived)
  <2>1. ASSUME NEW a \in 0..n
        PROVE  derived[a] = IF a = 0 THEN <<0, 0, base, stream>> ELSE Incr(derived[a - 1])
    <3>1. CASE a = 0
      BY <1>3, <3>1
    <3>2. CASE a # 0
      <4> HIDE DEF derived
      <4> QED
        BY <1>4, <3>2
    <3> QED
      BY <3>1, <3>2
  <2>2. derived = [a \in 0..n |-> derived[a]]
    OBVIOUS
  <2> HIDE DEF derived
  <2> QED
    BY <2>1, <2>2
<1>6. counted = body(counted)
  <2> HIDE DEF body, derived
  <2> QED
    BY <1>5
<1>7. \A a \in 0..n : counted[a] = IF a = 0 THEN <<0, 0, base, stream>> ELSE Incr(counted[a - 1])
  <2> HIDE DEF counted
  <2>1. \A a \in 0..n : counted[a] = body(counted)[a]
    <3> HIDE DEF body
    <3> QED
      BY <1>6
  <2> QED
    BY <2>1
<1>8. \A a \in 0..n : derived[a] = IF a = 0 THEN <<0, 0, base, stream>> ELSE Incr(derived[a - 1])
  <2> HIDE DEF derived
  <2>1. \A a \in 0..n : derived[a] = body(derived)[a]
    <3> HIDE DEF body
    <3> QED
      BY <1>5
  <2> QED
    BY <2>1
<1> HIDE DEF counted
<1> DEFINE Other == {a \in 0..n : counted[a] # derived[a]}
<1>9. Other = {}
  <2> HIDE DEF derived
  <2> SUFFICES ASSUME Other # {} PROVE FALSE
    OBVIOUS
  <2>1. PICK a \in Other : \A e \in Other : a <= e
    <3>1. Other \subseteq Nat
      BY <1>1
    <3> HIDE DEF Other
    <3> QED
      BY <3>1, LeastNatural
  <2>2. a \in 0..n /\ counted[a] # derived[a] /\ a # 0
    BY <1>7, <1>8
  <2>3. a - 1 \in 0..n /\ a - 1 \notin Other
    <3>1. a - 1 \in 0..n /\ ~(a <= a - 1)
      BY <1>1, <2>2
    <3> HIDE DEF Other
    <3> QED
      BY <2>1, <3>1
  <2> QED
    BY <1>7, <1>8, <2>2, <2>3
<1>10. b \in 0..n
  BY DEF n
<1>11. counted[b] = CounterOfBlock(b, base, stream)
  BY <1>9, <1>10
<1> QED
  BY <1>2, <1>10, <1>11 DEF n

\* The word of an element is the one a backend finds at its place.
LEMMA WordsArePure ==
  ASSUME call \in Calls, NEW i \in Nat, i < 4 * B * B
  PROVE  Draw(i) = StreamWord(i) /\ Draw(i) \in Word
<1> DEFINE b == i \div 4
           s == <<call.seed, call.base, call.stream>>
           c == CounterOfBlock(b, call.base, call.stream)
<1>1. b \in 0..(B * B - 1) /\ i % 4 \in 0..3
  BY IndexFacts
<1>2. call.seed \in Key /\ call.base \in Word /\ call.stream \in Word
  BY CallsAssumption DEF Key
<1>3. Draw(i) = Philox4x10(c, call.seed)[(i % 4) + 1]
  BY DEF Draw, WordAt, DeriveCounter, CounterOfBlock
<1>4. Streams[s] = Blocks(call.seed, call.base, call.stream, B * B - 1)
  BY DEF Streams
<1> HIDE DEF b
<1>5. StreamWord(i) = Philox4x10(c, call.seed)[(i % 4) + 1]
  BY <1>1, <1>2, <1>4, BlocksAreDerived DEF StreamWord, b
<1>6. c \in Counter
  BY <1>1, <1>2, BlockFacts
<1> HIDE DEF c
<1>7. Philox4x10(c, call.seed)[(i % 4) + 1] \in Word
  <2>1. Philox4x10(c, call.seed) \in Counter
    BY <1>2, <1>6, PhiloxIsCounter
  <2>2. (i % 4) + 1 \in 1..4
    BY <1>1
  <2> QED
    BY <2>1, <2>2 DEF Counter
<1> QED
  BY <1>3, <1>5, <1>7

-----------------------------------------------------------------------------
(***************************************************************************)
(* The inductive invariant of a fill.                                      *)
(***************************************************************************)

LEMMA CallFacts ==
  ASSUME call \in Calls
  PROVE  /\ call.count \in Nat /\ call.count <= 4 * B * B
         /\ call.seed \in Key /\ call.base \in Word /\ call.stream \in Word
         /\ call.threshold \in Nat
         /\ 4 * B * B \in Nat /\ (4 * B * B) % 2 = 0
<1>1. 4 * B * B \in Nat /\ 4 * B * B = (2 * (B * B)) * 2 + 0 /\ 2 * (B * B) \in Int
  BY WordFacts
<1>2. (4 * B * B) % 2 = 0
  BY <1>1, DivisionIs
<1> QED
  BY <1>1, <1>2, CallsAssumption DEF Key

\* The bits of a uniform value are a number.
LEMMA UniformIsNat ==
  ASSUME NEW w \in Word
  PROVE  UniformWord(w) \in Nat
<1> DEFINE d == B \div Mantissas
<1>1. d \in Nat /\ d > 0
  <2>1. B \in Nat /\ B > 0 /\ Mantissas \in Nat /\ Mantissas > 0 /\ B % Mantissas = 0
    BY WordFacts, MantissasAssumption
  <2>2. d \in Int /\ B = d * Mantissas
    BY <2>1, Remainder
  <2>3. d <= 0 => d * Mantissas <= 0
    <3> HIDE DEF d
    <3> QED
      BY <2>1, <2>2
  <2> HIDE DEF d
  <2> QED
    BY <2>1, <2>2, <2>3
<1> HIDE DEF d
<1>2. w \in Nat
  BY WordFacts
<1>3. w \div d \in Nat
  <2>1. w + 1 \in Nat /\ w < (w + 1) * d
    <3>1. (w + 1) * d = w * d + d /\ w * (d - 1) >= 0 /\ w * (d - 1) = w * d - w
      BY <1>1, <1>2
    <3>2. w * d \in Int
      BY <1>1, <1>2
    <3> QED
      BY <1>1, <1>2, <3>1, <3>2
  <2>2. w \div d \in 0..((w + 1) - 1)
    BY <1>1, <1>2, <2>1, QuotientBelow
  <2> QED
    BY <1>2, <2>2
<1>4. UniformWord(w) = (Mantissas + w \div d) - Mantissas
  BY DEF UniformWord, d
<1> QED
  BY <1>3, <1>4, MantissasAssumption

LEMMA FillInit == Init => FillInv
<1> SUFFICES ASSUME Init PROVE FillInv
  OBVIOUS
<1>1. call \in Calls /\ status = "called" /\ draws = <<>> /\ data = <<>>
  BY DEF Init
<1>2. DOMAIN draws = {} /\ DOMAIN data = {} /\ Len(draws) = 0 /\ Len(data) = 0
  BY <1>1
<1>3. call.count \in Nat
  BY <1>1, CallFacts
<1>4. 0 % 2 = 0
  OBVIOUS
<1>5. TypeOK
  BY <1>1 DEF TypeOK
<1> QED
  BY <1>1, <1>2, <1>3, <1>4, <1>5 DEF FillInv, DrawsAreWords, DataAreMapped, PairsAreFilled

\* Steps that draw and map nothing.
LEMMA QuietStep ==
  ASSUME FillInv, UNCHANGED <<call, draws, data>>,
         status' \in {"called", "drawing", "mapping", "pairing", "returned", "declined"},
         status' \in {"drawing", "mapping"} => call.op # "normal_f32",
         status' \in {"called", "drawing"} => data = <<>>,
         status' = "pairing" => call.op = "normal_f32",
         status' = "mapping" => Len(draws) = call.count /\ call.op # "random_bits",
         status' = "returned" => Len(data) = call.count
  PROVE  FillInv'
<1>1. TypeOK'
  BY DEF FillInv, TypeOK, Values
<1>2. DrawsAreWords'
  BY DEF FillInv, DrawsAreWords, Draw
<1>3. DataAreMapped'
  BY DEF FillInv, DataAreMapped
<1>4. PairsAreFilled'
  BY DEF FillInv, PairsAreFilled, Pair, Draw
<1> QED
  BY <1>1, <1>2, <1>3, <1>4 DEF FillInv

\* One word more.
LEMMA DrawStep ==
  ASSUME FillInv, DrawElement
  PROVE  FillInv'
<1> DEFINE L == Len(draws)
           w == Draw(Len(draws))
<1>1. /\ status = "drawing" /\ L < call.count /\ draws' = Append(draws, w)
      /\ UNCHANGED <<call, status, data>> /\ data = <<>> /\ call.op # "normal_f32"
  BY DEF DrawElement, FillInv, DrawsAreWords
<1>2. call \in Calls /\ draws \in Seq(Word) /\ L \in Nat
  BY DEF FillInv, TypeOK
<1>3. w \in Word
  <2>1. L < 4 * B * B
    BY <1>1, <1>2, CallFacts
  <2> QED
    BY <1>2, <2>1, WordsArePure
<1> HIDE DEF w
<1>4. draws' \in Seq(Word) /\ Len(draws') = L + 1 /\ DOMAIN draws' = 1..(L + 1)
      /\ (\A i \in 1..L : draws'[i] = draws[i]) /\ draws'[L + 1] = w
  BY <1>1, <1>2, <1>3
<1>5. TypeOK'
  BY <1>1, <1>4 DEF FillInv, TypeOK, Values
<1>6. DrawsAreWords'
  <2>1. ASSUME NEW i \in 1..(L + 1)
        PROVE  draws'[i] = Draw(i - 1)
    <3>1. CASE i = L + 1
      <4>1. i - 1 = L
        BY <1>2, <3>1
      <4> QED
        BY <1>4, <3>1, <4>1 DEF w
    <3>2. CASE i # L + 1
      <4>1. i \in 1..L /\ i \in DOMAIN draws
        BY <1>2, <3>2
      <4> QED
        BY <1>4, <4>1 DEF FillInv, DrawsAreWords
    <3> QED
      BY <3>1, <3>2
  <2>2. \A i : Draw(i)' = Draw(i)
    BY <1>1 DEF Draw
  <2>3. L + 1 <= call.count
    BY <1>1, <1>2, CallFacts
  <2> QED
    BY <1>1, <1>4, <2>1, <2>2, <2>3 DEF DrawsAreWords
<1>7. DataAreMapped' /\ PairsAreFilled'
  <2>1. Len(data') = 0 /\ DOMAIN data' = {}
    BY <1>1
  <2>2. DataAreMapped'
    <3>1. Len(draws') \in Nat /\ 0 <= Len(draws')
      BY <1>2, <1>4
    <3> QED
      BY <1>1, <2>1, <3>1 DEF DataAreMapped
  <2>3. PairsAreFilled'
    BY <1>1 DEF PairsAreFilled
  <2> QED
    BY <2>2, <2>3
<1> QED
  BY <1>5, <1>6, <1>7 DEF FillInv

\* One element mapped.
LEMMA MapStep ==
  ASSUME FillInv, MapElement
  PROVE  FillInv'
<1> DEFINE L == Len(data)
           w == draws[Len(data) + 1]
           x == IF call.op = "bernoulli_mask" THEN MaskBit(w, call.threshold) ELSE UniformWord(w)
<1>1. /\ status = "mapping" /\ L < Len(draws) /\ data' = Append(data, x)
      /\ UNCHANGED <<call, status, draws>> /\ call.op # "normal_f32"
  BY DEF MapElement, FillInv, DrawsAreWords
<1>2. /\ call \in Calls /\ draws \in Seq(Word) /\ data \in Seq(Nat)
      /\ L \in Nat /\ Len(draws) \in Nat
  BY <1>1 DEF FillInv, TypeOK, Values
<1>3. w \in Word
  <2>1. L + 1 \in 1..Len(draws)
    BY <1>1, <1>2
  <2> QED
    BY <1>2, <2>1, ElementOfSeq
<1>4. x \in Nat
  <2> HIDE DEF w
  <2> QED
    BY <1>3, UniformIsNat DEF MaskBit
<1> HIDE DEF x
<1>5. data' \in Seq(Nat) /\ Len(data') = L + 1 /\ DOMAIN data' = 1..(L + 1)
      /\ (\A i \in 1..L : data'[i] = data[i]) /\ data'[L + 1] = x
  BY <1>1, <1>2, <1>4
<1>6. TypeOK'
  BY <1>1, <1>5 DEF FillInv, TypeOK, Values
<1>7. DrawsAreWords'
  BY <1>1 DEF FillInv, DrawsAreWords, Draw
<1>8. DataAreMapped'
  <2>1. /\ call.op \in {"bernoulli_mask", "uniform_f32"}
        /\ Len(draws) = call.count
        /\ \A i \in DOMAIN data :
             data[i] = IF call.op = "bernoulli_mask" THEN MaskBit(draws[i], call.threshold)
                       ELSE UniformWord(draws[i])
    <3>1. Len(draws) = call.count /\ call.op # "random_bits"
      BY <1>1 DEF MapElement, FillInv, DataAreMapped
    <3>2. call.op \in {"bernoulli_mask", "uniform_f32"}
      BY <1>1, <1>2, <3>1, CallsAssumption
    <3> QED
      BY <3>1, <3>2 DEF FillInv, DataAreMapped
  <2>2. ASSUME NEW i \in 1..(L + 1)
        PROVE  data'[i] = IF call.op = "bernoulli_mask" THEN MaskBit(draws[i], call.threshold)
                          ELSE UniformWord(draws[i])
    <3>1. CASE i = L + 1
      BY <1>5, <3>1 DEF x, w
    <3>2. CASE i # L + 1
      <4>1. i \in 1..L /\ i \in DOMAIN data
        BY <1>2, <3>2
      <4> QED
        BY <1>5, <2>1, <4>1
    <3> QED
      BY <3>1, <3>2
  <2>3. L + 1 <= Len(draws)
    BY <1>1, <1>2
  <2>4. status' = "mapping"
    BY <1>1 DEF MapElement
  <2> QED
    BY <1>1, <1>5, <2>1, <2>2, <2>3, <2>4 DEF DataAreMapped
<1>9. PairsAreFilled'
  BY <1>1 DEF PairsAreFilled
<1> QED
  BY <1>6, <1>7, <1>8, <1>9 DEF FillInv

\* Below two, an index is even or odd; halves of what is even.
LEMMA Halves ==
  ASSUME NEW n \in Nat, n % 2 = 0
  PROVE  /\ 2 * (n \div 2) = n /\ 2 * ((n + 1) \div 2) = n
         /\ (n + 1) % 2 = 1 /\ (n + 2) % 2 = 0
<1> DEFINE h == n \div 2
<1>1. h \in Int /\ n = h * 2 + 0
  BY Remainder
<1> HIDE DEF h
<1>2. n + 1 = h * 2 + 1 /\ n + 2 = (h + 1) * 2 + 0
  BY <1>1
<1> QED
  BY <1>1, <1>2, DivisionIs DEF h

\* Two elements more, or the last of an odd count.
LEMMA PairStep ==
  ASSUME FillInv, PairElements
  PROVE  FillInv'
<1> DEFINE L == Len(data)
           u == Pair(Len(data))
           z0 == Normal(u[1], u[2], "cos")
           z1 == Normal(u[1], u[2], "sin")
           more == IF Len(data) + 1 < call.count THEN <<z0, z1>> ELSE <<z0>>
           Normals == [u1 : Nat, u2 : Nat, arm : {"cos", "sin"}]
<1>1. /\ status = "pairing" /\ L < call.count /\ data' = data \o more
      /\ UNCHANGED <<call, status, draws>>
  BY DEF PairElements
<1>2. /\ call \in Calls /\ data \in Seq(Values) /\ L \in Nat /\ call.count \in Nat
      /\ call.count <= 4 * B * B /\ 4 * B * B \in Nat /\ (4 * B * B) % 2 = 0
  BY CallFacts DEF FillInv, TypeOK
<1>3. CASE call.op = "normal_f32"
  <2>1. L % 2 = 0
    <3>1. L % 2 = 0 \/ L = call.count
      BY <1>3 DEF FillInv, PairsAreFilled
    <3> QED
      BY <1>1, <1>2, <3>1
  <2>2. L + 1 < 4 * B * B
    <3> DEFINE top == 4 * B * B
    <3>1. top \in Nat /\ top % 2 = 0 /\ L < top
      BY <1>1, <1>2
    <3> HIDE DEF top
    <3>2. L + 1 # top
      BY <1>2, <2>1, <3>1
    <3>3. L + 1 < top
      BY <1>2, <3>1, <3>2
    <3> QED
      BY <3>3 DEF top
  <2>3. Draw(L) \in Word /\ Draw(L + 1) \in Word
    <3>1. L < 4 * B * B /\ L + 1 \in Nat
      BY <1>2, <2>2
    <3> QED
      BY <1>2, <2>2, <3>1, WordsArePure
  <2>4. z0 \in Normals /\ z1 \in Normals
    <3>1. UniformWord(Draw(L)) \in Nat /\ UniformWord(Draw(L + 1)) \in Nat
      BY <2>3, UniformIsNat
    <3>2. u[1] \in Nat /\ u[2] \in Nat
      BY <3>1 DEF Pair
    <3> HIDE DEF u
    <3> QED
      BY <3>2 DEF Normal
  <2>5. data \in Seq(Normals)
    BY <1>2, <1>3 DEF Values
  <2> HIDE DEF Normals, z0, z1
  <2>6. /\ data' \in Seq(Normals) /\ \A i \in 1..L : data'[i] = data[i]
        /\ data'[L + 1] = z0
        /\ \/ /\ L + 1 < call.count /\ Len(data') = L + 2 /\ DOMAIN data' = 1..(L + 2)
              /\ data'[L + 2] = z1
           \/ ~(L + 1 < call.count) /\ Len(data') = L + 1 /\ DOMAIN data' = 1..(L + 1)
    <3>1. CASE L + 1 < call.count
      BY <1>1, <1>2, <2>4, <2>5, <3>1
    <3>2. CASE ~(L + 1 < call.count)
      BY <1>1, <1>2, <2>4, <2>5, <3>2
    <3> QED
      BY <3>1, <3>2
  <2>7. TypeOK'
    BY <1>1, <1>3, <2>6 DEF FillInv, TypeOK, Values, Normals
  <2>8. DrawsAreWords' /\ DataAreMapped'
    BY <1>1, <1>3 DEF FillInv, DrawsAreWords, DataAreMapped, Draw
  <2>9. PairsAreFilled'
    <3> DEFINE right(i) == Normal(Pair(2 * ((i - 1) \div 2))[1], Pair(2 * ((i - 1) \div 2))[2],
                                  IF i % 2 = 1 THEN "cos" ELSE "sin")
    <3>1. \A i \in 1..L : data'[i] = right(i)
      <4>1. \A i \in 1..L : data[i] = right(i)
        <5>1. DOMAIN data = 1..L
          BY <1>2
        <5> QED
          BY <1>3, <5>1 DEF FillInv, PairsAreFilled
      <4> QED
        BY <2>6, <4>1
    <3>2. right(L + 1) = z0 /\ right(L + 2) = z1
      <4>1. (L + 1) - 1 = L /\ (L + 2) - 1 = L + 1
        BY <1>2
      <4>2. /\ 2 * (L \div 2) = L /\ 2 * ((L + 1) \div 2) = L
            /\ (L + 1) % 2 = 1 /\ (L + 2) % 2 = 0
        BY <1>2, <2>1, Halves
      <4> QED
        BY <4>1, <4>2 DEF z0, z1
    <3> HIDE DEF right
    <3>3. \A i \in DOMAIN data' : data'[i] = right(i)
      <4>1. \A i \in 1..(L + 2) : i \in 1..L \/ i = L + 1 \/ i = L + 2
        BY <1>2
      <4>2. \A i \in 1..(L + 1) : i \in 1..L \/ i = L + 1
        BY <1>2
      <4> QED
        BY <2>6, <3>1, <3>2, <4>1, <4>2
    <3>4. Len(data') <= call.count /\ (Len(data') % 2 = 0 \/ Len(data') = call.count)
      <4>1. (L + 2) % 2 = 0
        BY <1>2, <2>1, Halves
      <4>2. L \in Nat /\ call.count \in Nat /\ L < call.count /\ UNCHANGED call
        BY <1>1, <1>2
      <4>3. \/ Len(data') = L + 2 /\ L + 1 < call.count
            \/ Len(data') = L + 1 /\ ~(L + 1 < call.count)
        BY <2>6
      <4> HIDE DEF L
      <4>4. CASE Len(data') = L + 2 /\ L + 1 < call.count
        BY <4>1, <4>2, <4>4
      <4>5. CASE Len(data') = L + 1 /\ ~(L + 1 < call.count)
        BY <4>2, <4>5
      <4> QED
        BY <4>3, <4>4, <4>5
    <3>5. \A i : Pair(i)' = Pair(i)
      BY <1>1 DEF Pair, Draw
    <3> QED
      BY <1>1, <3>3, <3>4, <3>5 DEF PairsAreFilled, right
  <2> QED
    BY <2>7, <2>8, <2>9 DEF FillInv
<1>4. CASE call.op # "normal_f32"
  BY <1>1, <1>4 DEF FillInv, DrawsAreWords
<1> QED
  BY <1>3, <1>4

LEMMA FillStep == FillInv /\ [Next]_vars => FillInv'
<1> SUFFICES ASSUME FillInv, [Next]_vars PROVE FillInv'
  OBVIOUS
<1>1. CASE Decline
  BY <1>1, QuietStep DEF Decline
<1>2. CASE Begin
  <2>1. data = <<>>
    BY <1>2 DEF FillInv, DrawsAreWords, Begin
  <2>2. /\ UNCHANGED <<call, draws, data>>
        /\ status' = IF call.op = "normal_f32" THEN "pairing" ELSE "drawing"
    BY <1>2 DEF Begin
  <2> QED
    BY <2>1, <2>2, QuietStep
<1>3. CASE DrawElement
  BY <1>3, DrawStep
<1>4. CASE DrawsDone
  <2>1. status = "drawing" /\ call.op # "normal_f32" /\ UNCHANGED <<call, draws>>
    BY <1>4 DEF DrawsDone, FillInv, DrawsAreWords
  <2>2. CASE call.op = "random_bits"
    <3>1. status' = "returned" /\ data' = draws
      BY <1>4, <2>2 DEF DrawsDone
    <3>2. draws \in Seq(Nat)
      <4>1. draws \in Seq(Word) /\ Word \subseteq Nat
        BY WordFacts DEF FillInv, TypeOK
      <4> QED
        BY <4>1, SeqMonotonic
    <3>3. TypeOK'
      BY <2>1, <3>1, <3>2 DEF FillInv, TypeOK, Values
    <3>4. DrawsAreWords' /\ PairsAreFilled'
      BY <2>1, <2>2, <3>1 DEF FillInv, DrawsAreWords, PairsAreFilled, Draw
    <3>5. DataAreMapped'
      BY <1>4, <2>1, <2>2, <3>1 DEF DrawsDone, DataAreMapped
    <3> QED
      BY <3>3, <3>4, <3>5 DEF FillInv
  <2>3. CASE call.op # "random_bits"
    <3>1. status' = "mapping" /\ UNCHANGED data /\ Len(draws) = call.count
      BY <1>4, <2>3 DEF DrawsDone
    <3>2. /\ UNCHANGED <<call, draws, data>>
          /\ status' \in {"called", "drawing", "mapping", "pairing", "returned", "declined"}
          /\ status' \in {"drawing", "mapping"} => call.op # "normal_f32"
          /\ status' \in {"called", "drawing"} => data = <<>>
          /\ status' = "pairing" => call.op = "normal_f32"
          /\ status' = "mapping" => Len(draws) = call.count /\ call.op # "random_bits"
          /\ status' = "returned" => Len(data) = call.count
      BY <2>1, <2>3, <3>1
    <3> QED
      BY <3>2, QuietStep
  <2> QED
    BY <2>2, <2>3
<1>5. CASE MapElement
  BY <1>5, MapStep
<1>6. CASE PairElements
  BY <1>6, PairStep
<1>7. CASE Return
  <2>1. status' = "returned" /\ UNCHANGED <<call, draws, data>>
    BY <1>7 DEF Return
  <2>2. Len(data) = call.count
    <3>1. CASE status = "mapping" /\ Len(data) = Len(draws)
      BY <3>1 DEF FillInv, DataAreMapped
    <3>2. CASE status = "pairing" /\ Len(data) >= call.count
      <4>1. Len(data) <= call.count
        BY <3>2 DEF FillInv, DrawsAreWords, PairsAreFilled
      <4>2. call.count \in Nat /\ Len(data) \in Nat
        BY CallFacts DEF FillInv, TypeOK
      <4> QED
        BY <3>2, <4>1, <4>2
    <3> QED
      BY <1>7, <3>1, <3>2 DEF Return
  <2> QED
    BY <2>1, <2>2, QuietStep
<1>8. CASE RefuseSecond
  BY <1>8, QuietStep DEF RefuseSecond
<1>9. CASE UNCHANGED vars
  <2>1. UNCHANGED <<call, draws, data, status>>
    BY <1>9 DEF vars
  <2>2. /\ status' \in {"called", "drawing", "mapping", "pairing", "returned", "declined"}
        /\ status' \in {"drawing", "mapping"} => call.op # "normal_f32"
        /\ status' \in {"called", "drawing"} => data = <<>>
        /\ status' = "pairing" => call.op = "normal_f32"
        /\ status' = "mapping" => Len(draws) = call.count /\ call.op # "random_bits"
        /\ status' = "returned" => Len(data) = call.count
    BY <2>1 DEF FillInv, TypeOK, DrawsAreWords, DataAreMapped
  <2> QED
    BY <2>1, <2>2, QuietStep
<1> QED
  BY <1>1, <1>2, <1>3, <1>4, <1>5, <1>6, <1>7, <1>8, <1>9 DEF Next

\* The inductive invariant of the fills holds for every word size and set of calls: every
\* word drawn is the one of its index; every raw word, mask bit, uniform value and normal
\* value written is the one of the word, or the pair of words, at its own index; and what is
\* returned has as many elements as its shape.
THEOREM FillInvariant == Spec => []FillInv
BY FillInit, FillStep, PTL DEF Spec

-----------------------------------------------------------------------------
\* The i-th element of a fill, of any op, is a function of its index, and the one a backend
\* computes that counts blocks up and keeps the four words of each: for every word size,
\* multiplier and count a shape can have.
THEOREM FillsArePure == Spec => []PositionPure
<1>1. FillInv => PositionPure
  <2> SUFFICES ASSUME FillInv PROVE PositionPure
    OBVIOUS
  <2>1. call \in Calls /\ draws \in Seq(Word) /\ data \in Seq(Values)
    BY DEF FillInv, TypeOK
  <2>2. /\ call.count \in Nat /\ call.count <= 4 * B * B
        /\ 4 * B * B \in Nat /\ (4 * B * B) % 2 = 0
    BY <2>1, CallFacts
  <2>3. \A i \in DOMAIN draws : draws[i] = StreamWord(i - 1)
    <3> TAKE i \in DOMAIN draws
    <3>1. i \in 1..Len(draws) /\ Len(draws) <= call.count /\ Len(draws) \in Nat
      BY <2>1 DEF FillInv, DrawsAreWords
    <3>2. i - 1 \in Nat /\ i - 1 < 4 * B * B
      BY <2>2, <3>1
    <3>3. draws[i] = Draw(i - 1)
      BY DEF FillInv, DrawsAreWords
    <3> QED
      BY <2>1, <3>2, <3>3, WordsArePure
  <2>4. ASSUME call.op = "normal_f32", NEW i \in DOMAIN data
        PROVE  LET p == 2 * ((i - 1) \div 2)
               IN  data[i] = Normal(UniformWord(StreamWord(p)), UniformWord(StreamWord(p + 1)),
                                    IF i % 2 = 1 THEN "cos" ELSE "sin")
    <3> DEFINE p == 2 * ((i - 1) \div 2)
               top == 4 * B * B
    <3>1. i \in 1..Len(data) /\ Len(data) <= call.count /\ Len(data) \in Nat
      BY <2>1, <2>4 DEF FillInv, PairsAreFilled
    <3>2. i - 1 \in Nat /\ i - 1 < top
      BY <2>2, <3>1
    <3>3. p \in Nat /\ p + 1 < top /\ p < top
      <4> DEFINE h == (i - 1) \div 2
      <4>1. h \in Int /\ (i - 1) % 2 \in 0..1 /\ i - 1 = h * 2 + ((i - 1) % 2)
        BY <3>2, Remainder
      <4>2. top \in Nat /\ top % 2 = 0
        BY <2>2
      <4> HIDE DEF h, top
      <4>3. 2 * h \in Nat /\ 2 * h < top
        BY <3>2, <4>1, <4>2
      <4>4. 2 * h + 1 # top
        <5>1. (h * 2 + 1) % 2 = 1
          BY <4>1, DivisionIs
        <5> QED
          BY <4>1, <4>2, <5>1
      <4>5. 2 * h + 1 < top
        BY <4>1, <4>2, <4>3, <4>4
      <4> QED
        BY <4>3, <4>5 DEF h
    <3> HIDE DEF p
    <3>4. StreamWord(p) = Draw(p) /\ StreamWord(p + 1) = Draw(p + 1)
      BY <2>1, <3>3, WordsArePure
    <3>5. data[i] = Normal(Pair(p)[1], Pair(p)[2], IF i % 2 = 1 THEN "cos" ELSE "sin")
      BY <2>4 DEF FillInv, PairsAreFilled, p
    <3>6. Pair(p) = <<UniformWord(Draw(p)), UniformWord(Draw(p + 1))>>
      BY DEF Pair
    <3>7. data[i] = Normal(UniformWord(StreamWord(p)), UniformWord(StreamWord(p + 1)),
                           IF i % 2 = 1 THEN "cos" ELSE "sin")
      BY <3>4, <3>5, <3>6
    <3> QED
      BY <3>7 DEF p
  <2>5. ASSUME call.op = "random_bits", NEW i \in DOMAIN data
        PROVE  data[i] = StreamWord(i - 1)
    BY <2>3, <2>5 DEF FillInv, DataAreMapped
  <2>6. status = "returned" => Len(data) = call.count
    BY DEF FillInv, DataAreMapped
  <2> QED
    BY <2>3, <2>4, <2>5, <2>6 DEF PositionPure
<1> QED
  BY <1>1, FillInvariant, PTL

\* Two elements, of any streams and steps, with the same counter and the same word of it are
\* the same element.
LEMMA SameCellIsSame ==
  ASSUME call.base \in Word, call.stream \in Word, NEW i \in Nat, NEW j \in Nat, NEW p,
         p = <<p[1], p[2]>>, SameCell(i, j, p)
  PROVE  j = i /\ p = <<call.base, call.stream>>
<1> DEFINE a == i \div 4
           b == j \div 4
<1>1. a \in Int /\ i % 4 \in 0..3 /\ i = a * 4 + (i % 4)
  BY Quarters
<1>2. b \in Int /\ j % 4 \in 0..3 /\ j = b * 4 + (j % 4)
  BY Quarters
<1>3. /\ a % B = b % B /\ a \div B = b \div B /\ i % 4 = j % 4
      /\ call.base = p[1] /\ call.stream = p[2]
  BY DEF SameCell, DeriveCounter
<1> HIDE DEF a, b
<1>4. a = (a \div B) * B + (a % B) /\ b = (b \div B) * B + (b % B)
  BY <1>1, <1>2, WordFacts, Remainder
<1>5. a = b
  BY <1>3, <1>4
<1> QED
  BY <1>1, <1>2, <1>3, <1>5

\* The words of a block, drawn one after the other, are the block.
LEMMA LastFourAreBlock ==
  ASSUME FillInv, Len(draws) # 0, Len(draws) % 4 = 0
  PROVE  SubSeq(draws, Len(draws) - 3, Len(draws)) =
           Philox4x10(DeriveCounter(Len(draws) - 1, call.base, call.stream), call.seed)
<1> DEFINE L == Len(draws)
           b == L \div 4
           counter(i) == DeriveCounter(i, call.base, call.stream)
           words == Philox4x10(counter(L - 1), call.seed)
<1>1. /\ call \in Calls /\ draws \in Seq(Word) /\ L \in Nat /\ DOMAIN draws = 1..L
      /\ L <= 4 * B * B /\ 4 * B * B \in Nat
  <2>1. call \in Calls /\ draws \in Seq(Word) /\ L <= call.count
    BY DEF FillInv, TypeOK, DrawsAreWords
  <2>2. call.count \in Nat /\ call.count <= 4 * B * B /\ 4 * B * B \in Nat
    BY <2>1, CallFacts
  <2>3. L \in Nat /\ DOMAIN draws = 1..L
    BY <2>1
  <2> HIDE DEF L
  <2> QED
    BY <2>1, <2>2, <2>3
<1>2. b \in Int /\ L = b * 4 /\ L >= 4
  <2>1. L \in Int /\ L % 4 = 0 /\ L # 0
    BY <1>1
  <2> HIDE DEF L
  <2>2. b \in Int /\ L = b * 4 + (L % 4)
    BY <2>1, Quarters
  <2> HIDE DEF b
  <2> QED
    BY <1>1, <2>1, <2>2
<1> HIDE DEF b, L
<1>3. \A k \in 0..3 :
        /\ (L - 4 + k) % 4 = k /\ (L - 4 + k) \div 4 = b - 1
        /\ L - 4 + k \in Nat /\ (L - 3 + k) - 1 = L - 4 + k /\ L - 3 + k \in 1..L
  <2> TAKE k \in 0..3
  <2>1. L - 4 + k = (b - 1) * 4 + k /\ L - 4 + k \in Int /\ b - 1 \in Int
    BY <1>2
  <2>2. (L - 4 + k) % 4 = k /\ (L - 4 + k) \div 4 = b - 1
    <3> DEFINE v == L - 4 + k
               q == b - 1
    <3>1. v \in Int /\ q \in Int /\ v = q * 4 + k /\ k \in 0..(4 - 1)
      BY <2>1
    <3> HIDE DEF v, q
    <3>2. v % 4 = k /\ v \div 4 = q
      BY <3>1, DivisionIs
    <3> QED
      BY <3>2 DEF v, q
  <2> QED
    BY <1>1, <1>2, <2>2
<1>4. \A k \in 0..3 : counter(L - 4 + k) = counter(L - 1)
  <2>1. 3 \in 0..3 /\ L - 4 + 3 = L - 1
    BY <1>1
  <2>2. (L - 1) \div 4 = b - 1
    BY <1>3, <2>1
  <2> QED
    BY <1>3, <2>2 DEF DeriveCounter
<1>5. \A k \in 0..3 : draws[L - 3 + k] = words[k + 1]
  <2> TAKE k \in 0..3
  <2>1. draws[L - 3 + k] = Draw(L - 4 + k)
    BY <1>1, <1>3 DEF FillInv, DrawsAreWords
  <2>2. Draw(L - 4 + k) = Philox4x10(counter(L - 4 + k), call.seed)[k + 1]
    BY <1>3 DEF Draw, WordAt
  <2> HIDE DEF counter
  <2> QED
    BY <1>4, <2>1, <2>2
<1>6. words \in Counter
  <2>1. L - 1 \in Nat /\ L - 1 < 4 * B * B
    BY <1>1, <1>2
  <2>2. (L - 1) \div 4 \in 0..(B * B - 1)
    BY <2>1, IndexFacts
  <2>3. call.seed \in Key /\ call.base \in Word /\ call.stream \in Word
    BY <1>1, CallFacts
  <2>4. counter(L - 1) \in Counter
    BY <2>2, <2>3, BlockFacts DEF DeriveCounter, CounterOfBlock
  <2> HIDE DEF counter
  <2> QED
    BY <2>3, <2>4, PhiloxIsCounter
<1> HIDE DEF words
<1>7. words = <<words[1], words[2], words[3], words[4]>>
  BY <1>6 DEF Counter
<1>8. SubSeq(draws, L - 3, L) =
        <<draws[L - 3], draws[L - 2], draws[L - 1], draws[L]>>
  <2> DEFINE m == L - 3
             last == SubSeq(draws, m, L)
             four == <<draws[L - 3], draws[L - 2], draws[L - 1], draws[L]>>
  <2>1. m \in Int /\ L \in Int /\ L - m + 1 = 4 /\ m <= L /\ \A k \in m..L : draws[k] \in Word
    <3>1. \A k \in m..L : k \in 1..L
      BY <1>1, <1>2
    <3>2. \A k \in 1..L : draws[k] \in Word
      BY <1>1
    <3> QED
      BY <1>1, <1>2, <3>1, <3>2
  <2> HIDE DEF m
  <2>2. /\ last \in Seq(Word) /\ Len(last) = L - m + 1
        /\ \A k \in 1..(L - m + 1) : last[k] = draws[m + k - 1]
    BY <2>1, SubSeqProperties
  <2>3. /\ m + 1 - 1 = L - 3 /\ m + 2 - 1 = L - 2 /\ m + 3 - 1 = L - 1 /\ m + 4 - 1 = L
    BY <2>1 DEF m
  <2>4. \A k \in 1..4 : last[k] = four[k]
    BY <2>1, <2>2, <2>3
  <2>5. four \in Seq(Word) /\ Len(four) = 4
    <3>1. L - 3 \in m..L /\ L - 2 \in m..L /\ L - 1 \in m..L /\ L \in m..L
      BY <2>1 DEF m
    <3> QED
      BY <2>1, <3>1
  <2> HIDE DEF last, four
  <2>6. last = four
    BY <2>1, <2>2, <2>4, <2>5, SeqEqual
  <2> QED
    BY <2>6 DEF last, four, m
<1>9. /\ draws[L - 3] = words[1] /\ draws[L - 2] = words[2]
      /\ draws[L - 1] = words[3] /\ draws[L] = words[4]
  <2>1. /\ 0 \in 0..3 /\ 1 \in 0..3 /\ 2 \in 0..3 /\ 3 \in 0..3
        /\ L - 3 + 0 = L - 3 /\ L - 3 + 1 = L - 2 /\ L - 3 + 2 = L - 1 /\ L - 3 + 3 = L
    BY <1>1
  <2> QED
    BY <1>5, <2>1
<1>10. SubSeq(draws, L - 3, L) = words
  BY <1>7, <1>8, <1>9
<1> QED
  BY <1>10 DEF words, L

\* No word of a block is given out twice, whatever streams, steps and carries are drawn, and
\* the ten rounds keep the counters of two blocks apart: they can be undone.
THEOREM FillsAreApart == Spec => []CellsAreApart
<1>1. FillInv => CellsAreApart
  <2> SUFFICES ASSUME FillInv, draws # <<>>
               PROVE  /\ \A p \in Places, j \in Indices :
                            SameCell(Len(draws) - 1, j, p) =>
                              j = Len(draws) - 1 /\ p = <<call.base, call.stream>>
                      /\ Len(draws) % 4 = 0 =>
                           Unwound(SubSeq(draws, Len(draws) - 3, Len(draws))) =
                             DeriveCounter(Len(draws) - 1, call.base, call.stream)
    BY DEF CellsAreApart
  <2>1. call \in Calls /\ draws \in Seq(Word) /\ Len(draws) \in Nat /\ Len(draws) # 0
    BY DEF FillInv, TypeOK
  <2>2. call.base \in Word /\ call.stream \in Word /\ call.seed \in Key
    BY <2>1, CallFacts
  <2>3. ASSUME NEW p \in Places, NEW j \in Indices, SameCell(Len(draws) - 1, j, p)
        PROVE  j = Len(draws) - 1 /\ p = <<call.base, call.stream>>
    <3>1. p = <<p[1], p[2]>>
      <4>1. PICK c \in Calls : p = <<c.base, c.stream>>
        BY DEF Places
      <4> QED
        BY <4>1
    <3>2. j \in Nat /\ Len(draws) - 1 \in Nat
      <4>1. 8 * B - 1 \in Int
        BY WordFacts
      <4> QED
        BY <2>1, <4>1 DEF Indices
    <3> QED
      BY <2>2, <2>3, <3>1, <3>2, SameCellIsSame
  <2>4. ASSUME Len(draws) % 4 = 0
        PROVE  Unwound(SubSeq(draws, Len(draws) - 3, Len(draws))) =
                 DeriveCounter(Len(draws) - 1, call.base, call.stream)
    <3> DEFINE c == DeriveCounter(Len(draws) - 1, call.base, call.stream)
    <3>1. Len(draws) - 1 \in Nat /\ Len(draws) - 1 < 4 * B * B
      <4>1. Len(draws) <= call.count /\ call.count <= 4 * B * B /\ call.count \in Nat
            /\ 4 * B * B \in Nat
        BY <2>1, CallFacts DEF FillInv, DrawsAreWords
      <4> QED
        BY <2>1, <4>1
    <3>2. (Len(draws) - 1) \div 4 \in 0..(B * B - 1)
      BY <3>1, IndexFacts
    <3>3. c \in Counter
      BY <2>2, <3>2, BlockFacts DEF DeriveCounter, CounterOfBlock
    <3>4. SubSeq(draws, Len(draws) - 3, Len(draws)) = Philox4x10(c, call.seed)
      BY <2>1, <2>4, LastFourAreBlock
    <3> HIDE DEF c
    <3>5. Unwound(Philox4x10(c, call.seed)) = c
      BY <2>2, <3>3, RoundsAreUndone
    <3> QED
      BY <3>4, <3>5 DEF c
  <2> QED
    BY <2>3, <2>4
<1> QED
  BY <1>1, FillInvariant, PTL

\* Words are cut in whole steps, as many as there are mantissas.
LEMMA StepFacts == Step \in Nat /\ Step > 0
<1>1. B \in Nat /\ B > 0 /\ Mantissas \in Nat /\ Mantissas > 0 /\ B % Mantissas = 0
  BY WordFacts, MantissasAssumption
<1>2. Step \in Int /\ B = Step * Mantissas
  BY <1>1, Remainder DEF Step
<1>3. Step <= 0 => Step * Mantissas <= 0
  BY <1>1, <1>2
<1> QED
  BY <1>1, <1>2, <1>3

\* A word lies in the step above its uniform value.
LEMMA WordInItsStep ==
  ASSUME NEW w \in Word
  PROVE  /\ UniformWord(w) \in Nat
         /\ UniformWord(w) * Step <= w /\ w < (UniformWord(w) + 1) * Step
<1> DEFINE q == w \div Step
           u == UniformWord(w)
<1>1. w \in Nat /\ Step \in Nat /\ Step > 0
  BY WordFacts, StepFacts
<1>2. q \in Int /\ w % Step \in 0..(Step - 1) /\ w = q * Step + (w % Step)
  BY <1>1, Remainder
<1>3. u = (Mantissas + q) - Mantissas /\ u \in Nat
  BY UniformIsNat DEF UniformWord, Step
<1> HIDE DEF q
<1>4. u = q
  BY <1>2, <1>3, MantissasAssumption
<1>5. (q + 1) * Step = q * Step + Step /\ q * Step \in Int
  BY <1>1, <1>2
<1>6. q * Step <= w /\ w < (q + 1) * Step
  BY <1>1, <1>2, <1>5
<1> QED
  BY <1>3, <1>4, <1>6

\* A uniform value is below a number of steps exactly when its word is.
LEMMA BelowIsBelow ==
  ASSUME NEW w \in Word, NEW t \in Int
  PROVE  UniformWord(w) < t <=> w < t * Step
<1> DEFINE u == UniformWord(w)
<1>1. u \in Nat /\ u * Step <= w /\ w < (u + 1) * Step
  BY WordInItsStep
<1> HIDE DEF u
<1>2. w \in Nat /\ Step \in Nat /\ Step > 0
  BY WordFacts, StepFacts
<1>3. u < t => (t - (u + 1)) * Step >= 0
  BY <1>1, <1>2
<1>4. ~(u < t) => (u - t) * Step >= 0
  BY <1>1, <1>2
<1>5. /\ (t - (u + 1)) * Step = t * Step - (u + 1) * Step
      /\ (u - t) * Step = u * Step - t * Step
  BY <1>1, <1>2
<1>6. t * Step \in Int /\ u * Step \in Int /\ (u + 1) * Step \in Int
  BY <1>1, <1>2
<1>7. u < t <=> w < t * Step
  BY <1>1, <1>2, <1>3, <1>4, <1>5, <1>6
<1> QED
  BY <1>7 DEF u

\* The word of an element mapped so far is the one of its index in the stream.
LEMMA MappedWord ==
  ASSUME FillInv, call.op \in {"bernoulli_mask", "uniform_f32"}, NEW i \in DOMAIN data
  PROVE  /\ i \in DOMAIN draws /\ draws[i] = StreamWord(i - 1) /\ draws[i] \in Word
         /\ data[i] = IF call.op = "bernoulli_mask" THEN MaskBit(draws[i], call.threshold)
                      ELSE UniformWord(draws[i])
<1>1. /\ call \in Calls /\ draws \in Seq(Word) /\ data \in Seq(Nat)
      /\ Len(data) <= Len(draws) /\ Len(draws) <= call.count
  BY DEF FillInv, TypeOK, Values, DataAreMapped, DrawsAreWords
<1>2. call.count \in Nat /\ call.count <= 4 * B * B /\ 4 * B * B \in Nat
  BY <1>1, CallFacts
<1>3. i \in 1..Len(draws) /\ i \in DOMAIN draws /\ Len(draws) \in Nat
  BY <1>1
<1>4. draws[i] \in Word
  BY <1>1, <1>3, ElementOfSeq
<1>5. i - 1 \in Nat /\ i - 1 < 4 * B * B
  BY <1>1, <1>2, <1>3
<1>6. draws[i] = Draw(i - 1)
  BY <1>3 DEF FillInv, DrawsAreWords
<1>7. Draw(i - 1) = StreamWord(i - 1)
  BY <1>1, <1>5, WordsArePure
<1> QED
  BY <1>3, <1>4, <1>6, <1>7 DEF FillInv, DataAreMapped

\* The bits a mask was given and the uniform values of the same elements agree at every
\* threshold, for every width of word and of mantissa.
THEOREM FillsAgree == Spec => []MaskIsUniformBelow
<1>1. FillInv => MaskIsUniformBelow
  <2> SUFFICES ASSUME FillInv PROVE MaskIsUniformBelow
    OBVIOUS
  <2>1. ASSUME call.op = "uniform_f32", NEW i \in DOMAIN data, NEW t \in 0..Mantissas
        PROVE  data[i] < t <=> StreamWord(i - 1) < t * Step
    <3>1. draws[i] = StreamWord(i - 1) /\ draws[i] \in Word /\ data[i] = UniformWord(draws[i])
      BY <2>1, MappedWord
    <3>2. t \in Int
      OBVIOUS
    <3> QED
      BY <3>1, <3>2, BelowIsBelow
  <2>2. ASSUME call.op = "bernoulli_mask", NEW i \in DOMAIN data
        PROVE  LET u == UniformWord(StreamWord(i - 1))
               IN  /\ data[i] \in {0, 1}
                   /\ data[i] = 1 => u * Step < call.threshold
                   /\ (u + 1) * Step <= call.threshold => data[i] = 1
    <3> DEFINE w == StreamWord(i - 1)
               u == UniformWord(w)
    <3>1. w \in Word /\ data[i] = MaskBit(w, call.threshold)
      BY <2>2, MappedWord
    <3> HIDE DEF w
    <3>2. u \in Nat /\ u * Step <= w /\ w < (u + 1) * Step
      BY <3>1, WordInItsStep
    <3> HIDE DEF u
    <3>3. w \in Nat /\ call.threshold \in Nat /\ Step \in Nat
      BY <3>1, WordFacts, StepFacts, CallFacts DEF FillInv, TypeOK
    <3>4. u * Step \in Int /\ (u + 1) * Step \in Int
      BY <3>2, <3>3
    <3>5. data[i] \in {0, 1} /\ (data[i] = 1 <=> w < call.threshold)
      BY <3>1 DEF MaskBit
    <3>6. /\ data[i] = 1 => u * Step < call.threshold
          /\ (u + 1) * Step <= call.threshold => data[i] = 1
      BY <3>2, <3>3, <3>4, <3>5
    <3> QED
      BY <3>5, <3>6 DEF u, w
  <2> QED
    BY <2>1, <2>2 DEF MaskIsUniformBelow
<1> QED
  BY <1>1, FillInvariant, PTL
=============================================================================
