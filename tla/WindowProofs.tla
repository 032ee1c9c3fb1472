---------------------------- MODULE WindowProofs ----------------------------
(***************************************************************************)
(* The extents and positions of the window family are exact, for every     *)
(* width of usize and every call, and the loops that walk them read at     *)
(* every cell of the output exactly the inputs its window covers.          *)
(***************************************************************************)
EXTENDS Window, NumberLemmas, FiniteSetTheorems, SequenceTheorems

\* isize is a width, and usize ends where it wraps.
LEMMA IsizeIsDtype ==
  /\ IsDtype(Isize) /\ Isize.signed
  /\ Size(Isize) = UsizeMax + 1 /\ IsizeMax = Isize.half - 1
<1>1. UsizeMax \in Nat /\ UsizeMax % 2 = 1
  BY UsizeAssumption
<1>2. (UsizeMax + 1) \div 2 \in Nat /\ 2 * ((UsizeMax + 1) \div 2) = UsizeMax + 1
  BY <1>1
<1>3. (UsizeMax + 1) \div 2 > 0
  BY <1>1, <1>2
<1> QED
  BY <1>2, <1>3 DEF Isize, IsDtype, Size, IsizeMax, Highest

-----------------------------------------------------------------------------
\* Extents.

\* The quotient pool_out_dim takes counts the multiples of the stride below a bound.
LEMMA QuotientCounts ==
  ASSUME NEW v \in Nat, NEW s \in Nat, s > 0, NEW o \in Nat
  PROVE  (v \div s) \in Nat /\ v \div s <= v /\ (o <= v \div s <=> o * s <= v)
<1> DEFINE q == v \div s
<1>1. q \in Int /\ v % s \in 0..(s - 1) /\ v = q * s + (v % s)
  BY Remainder
<1> HIDE DEF q
<1>2. q >= 0
  <2>1. q < 0 => q * s <= -s
    BY <1>1
  <2> QED
    BY <1>1, <2>1
<1>3. q * s >= q
  BY <1>1, <1>2
<1>4. o <= q => o * s <= q * s
  BY <1>1
<1>5. o > q => o * s >= q * s + s
  <2>1. o > q => o >= q + 1
    BY <1>1
  <2>2. o >= q + 1 => o * s >= (q + 1) * s
    BY <1>1
  <2>3. (q + 1) * s = q * s + s
    BY <1>1
  <2> QED
    BY <2>1, <2>2, <2>3
<1> QED
  BY <1>1, <1>2, <1>3, <1>4, <1>5 DEF q

\* pool_out_dim counts the places where the window fits: output position o exists if
\* and only if its last tap lies in the padded input.
THEOREM PoolOutDimCounts ==
  ASSUME NEW in \in Nat, NEW k \in Nat, NEW s \in Nat, NEW p \in Nat, NEW dil \in Nat,
         k > 0, s > 0, NEW o \in Nat
  PROVE  /\ PoolOutDim(in, k, s, p, dil) \in Nat
         /\ o < PoolOutDim(in, k, s, p, dil) <=> o * s + dil * (k - 1) < Padded(in, p)
<1> DEFINE reach == dil * (k - 1)
           padded == Padded(in, p)
<1>1. reach \in Nat /\ padded \in Nat /\ o * s \in Nat
  BY DEF Padded
<1>2. Effective(k, dil) = reach + 1
  BY DEF Effective
<1> HIDE DEF reach, padded
<1>3. CASE padded < reach + 1
  BY <1>1, <1>2, <1>3 DEF PoolOutDim, padded, reach
<1>4. CASE padded >= reach + 1
  <2> DEFINE v == padded - (reach + 1)
  <2>1. v \in Nat
    BY <1>1, <1>4
  <2>2. PoolOutDim(in, k, s, p, dil) = v \div s + 1
    BY <1>1, <1>2, <1>4 DEF PoolOutDim, padded
  <2>3. v \div s \in Nat /\ (o <= v \div s <=> o * s <= v)
    BY <2>1, QuotientCounts
  <2> QED
    BY <1>1, <2>1, <2>2, <2>3 DEF reach, padded
<1> QED
  BY <1>1, <1>3, <1>4

\* The last of pool_out_dim's checked additions never overflows: a padded input
\* that is representable leaves a representable count.
THEOREM PoolOutDimFits ==
  ASSUME NEW in \in Nat, NEW k \in Nat, NEW s \in Nat, NEW p \in Nat, NEW dil \in Nat,
         k > 0, s > 0, Padded(in, p) <= UsizeMax
  PROVE  PoolOutDim(in, k, s, p, dil) <= UsizeMax
<1> DEFINE reach == dil * (k - 1)
           padded == Padded(in, p)
<1>1. reach \in Nat /\ padded \in Nat /\ UsizeMax \in Nat
  BY UsizeAssumption DEF Padded
<1>2. Effective(k, dil) = reach + 1
  BY DEF Effective
<1> HIDE DEF reach, padded
<1>3. CASE padded < reach + 1
  BY <1>1, <1>2, <1>3 DEF PoolOutDim, padded
<1>4. CASE padded >= reach + 1
  <2> DEFINE v == padded - (reach + 1)
  <2>1. v \in Nat
    BY <1>1, <1>4
  <2>2. PoolOutDim(in, k, s, p, dil) = v \div s + 1
    BY <1>1, <1>2, <1>4 DEF PoolOutDim, padded
  <2>3. v \div s \in Nat /\ v \div s <= v
    BY <2>1, QuotientCounts
  <2>4. padded <= UsizeMax
    BY DEF padded
  <2> QED
    BY <1>1, <2>1, <2>2, <2>3, <2>4
<1> QED
  BY <1>1, <1>3, <1>4

-----------------------------------------------------------------------------
\* Positions.

\* A value and its isize are congruent, and congruent values have one isize.
LEMMA AsIsizeCongruent ==
  ASSUME NEW v \in Int
  PROVE  AsIsize(v) \in Int /\ Congruent(AsIsize(v), v, Isize)
BY IsizeIsDtype, WrapCongruent, WrapInRange DEF AsIsize, Congruent

\* isize subtraction may be done on the exact operands.
LEMMA DifferenceCongruent ==
  ASSUME NEW a \in Int, NEW b \in Int, NEW x \in Int, NEW y \in Int,
         Congruent(a, x, Isize), Congruent(b, y, Isize)
  PROVE  Congruent(a - b, x - y, Isize)
<1> DEFINE s == Size(Isize)
<1>1. s \in Int
  BY IsizeIsDtype DEF IsDtype, Size
<1>2. PICK k \in Int : a = x + k * s
  BY DEF Congruent
<1>3. PICK m \in Int : b = y + m * s
  BY DEF Congruent
<1> SUFFICES \E n \in Int : a - b = (x - y) + n * s
  BY DEF Congruent
<1> HIDE DEF s
<1>4. a - b = (x - y) + (k - m) * s /\ k - m \in Int
  BY <1>1, <1>2, <1>3
<1> QED
  BY <1>4

\* Being congruent is transitive.
LEMMA CongruentTransitive ==
  ASSUME NEW a \in Int, NEW b \in Int, NEW c \in Int,
         Congruent(a, b, Isize), Congruent(b, c, Isize)
  PROVE  Congruent(a, c, Isize)
<1> DEFINE s == Size(Isize)
<1>1. s \in Int
  BY IsizeIsDtype DEF IsDtype, Size
<1>2. PICK k \in Int : a = b + k * s
  BY DEF Congruent
<1>3. PICK m \in Int : b = c + m * s
  BY DEF Congruent
<1> SUFFICES \E n \in Int : a = c + n * s
  BY DEF Congruent
<1> HIDE DEF s
<1>4. a = c + (k + m) * s /\ k + m \in Int
  BY <1>1, <1>2, <1>3
<1> QED
  BY <1>4

\* Wrapping after every operation of tap_pos is wrapping once at the end.
LEMMA TapWrapsOnce ==
  ASSUME NEW o \in Nat, NEW t \in Nat, NEW s \in Nat, NEW dil \in Nat, NEW p \in Nat
  PROVE  LET origin == AsIsize(AsIsize(o) * AsIsize(s))
             offset == AsIsize(AsIsize(t) * AsIsize(dil))
         IN  AsIsize(AsIsize(origin + offset) - AsIsize(p)) = AsIsize(o * s + t * dil - p)
<1> DEFINE origin == AsIsize(AsIsize(o) * AsIsize(s))
           offset == AsIsize(AsIsize(t) * AsIsize(dil))
           sum == AsIsize(origin + offset)
<1>1. /\ o * s \in Int /\ t * dil \in Int
      /\ IsDtype(Isize)
  BY IsizeIsDtype
<1>2. \A x, y \in Nat :
        LET z == AsIsize(AsIsize(x) * AsIsize(y))
        IN  z \in Int /\ Congruent(z, x * y, Isize)
  <2> SUFFICES ASSUME NEW x \in Nat, NEW y \in Nat
               PROVE  /\ AsIsize(AsIsize(x) * AsIsize(y)) \in Int
                      /\ Congruent(AsIsize(AsIsize(x) * AsIsize(y)), x * y, Isize)
    OBVIOUS
  <2>1. /\ AsIsize(x) \in Int /\ Congruent(AsIsize(x), x, Isize)
        /\ AsIsize(y) \in Int /\ Congruent(AsIsize(y), y, Isize)
    BY AsIsizeCongruent
  <2>2. Congruent(AsIsize(x) * AsIsize(y), x * y, Isize)
    BY <1>1, <2>1, RingCongruence
  <2>3. AsIsize(x) * AsIsize(y) \in Int /\ x * y \in Int
    BY <2>1
  <2> QED
    BY <2>2, <2>3, AsIsizeCongruent, CongruentTransitive
<1>3. origin \in Int /\ Congruent(origin, o * s, Isize)
  BY <1>2
<1>4. offset \in Int /\ Congruent(offset, t * dil, Isize)
  BY <1>2
<1> HIDE DEF origin, offset
<1>5. Congruent(origin + offset, o * s + t * dil, Isize)
  BY <1>1, <1>3, <1>4, RingCongruence
<1>6. sum \in Int /\ Congruent(sum, o * s + t * dil, Isize)
  BY <1>1, <1>3, <1>4, <1>5, AsIsizeCongruent, CongruentTransitive
<1> HIDE DEF sum
<1>7. AsIsize(p) \in Int /\ Congruent(AsIsize(p), p, Isize)
  BY AsIsizeCongruent
<1>8. Congruent(sum - AsIsize(p), o * s + t * dil - p, Isize)
  BY <1>1, <1>6, <1>7, DifferenceCongruent
<1>9. AsIsize(sum - AsIsize(p)) = AsIsize(o * s + t * dil - p)
  BY <1>1, <1>6, <1>7, <1>8, WrapUnifies DEF AsIsize
<1> QED
  BY <1>9 DEF sum, origin, offset

\* tap_pos is exact at every tap of every output position, if isize holds the extent.
\* Its intermediate products may wrap; the position it ends with lies less than one
\* width away from the input, and wraps only to the negative side.
THEOREM TapPosExact ==
  ASSUME NEW in \in Nat, NEW k \in Nat, NEW s \in Nat, NEW p \in Nat, NEW dil \in Nat,
         PoolFault(in, k, s, p, dil) = "none", in <= IsizeMax,
         NEW o \in 0..(PoolOutDim(in, k, s, p, dil) - 1), NEW t \in 0..(k - 1)
  PROVE  TapPos(o, t, s, dil, p, in) = ExactTap(o, t, s, dil, p, in)
<1> DEFINE e == o * s + t * dil - p
           h == Isize.half
<1>1. /\ k > 0 /\ s > 0 /\ Padded(in, p) <= UsizeMax
  BY UsizeAssumption DEF PoolFault, Padded
<1>2. h \in Nat /\ h > 0 /\ UsizeMax = 2 * h - 1 /\ in < h /\ Size(Isize) = 2 * h
  BY IsizeIsDtype, UsizeAssumption DEF IsDtype, Size
<1>3. PoolOutDim(in, k, s, p, dil) \in Nat
  BY <1>1, 0 \in Nat, PoolOutDimCounts
<1>4. o \in Nat /\ o * s + dil * (k - 1) < in + 2 * p
  BY <1>1, <1>3, PoolOutDimCounts DEF Padded
<1>5. t * dil <= dil * (k - 1) /\ t * dil \in Nat /\ o * s \in Nat
  <2>1. t \in Nat /\ t <= k - 1 /\ k - 1 \in Nat
    BY <1>1
  <2> DEFINE m == k - 1
  <2>2. t * dil <= m * dil /\ m * dil = dil * m
    BY <2>1
  <2> QED
    BY <1>4, <2>1, <2>2
<1>6. e \in Int /\ e >= -p /\ e < in + p /\ p < h
  BY <1>1, <1>2, <1>4, <1>5 DEF Padded
<1> HIDE DEF h
<1>7. AsIsize(in) = in
  <2>1. InRange(in, Isize) /\ IsDtype(Isize)
    BY <1>2, IsizeIsDtype DEF InRange, Lowest, Highest, h
  <2> QED
    BY <2>1, WrapIdentity DEF AsIsize
<1>8. TapPos(o, t, s, dil, p, in)
        = IF AsIsize(e) < 0 \/ AsIsize(e) >= in THEN None ELSE AsIsize(e)
  <2> DEFINE pos == AsIsize(AsIsize(AsIsize(AsIsize(o) * AsIsize(s))
                                      + AsIsize(AsIsize(t) * AsIsize(dil)))
                            - AsIsize(p))
  <2>1. t \in Nat
    BY <1>1
  <2>2. pos = AsIsize(e)
    BY <1>4, <2>1, TapWrapsOnce
  <2>3. TapPos(o, t, s, dil, p, in)
          = IF pos < 0 \/ pos >= AsIsize(in) THEN None ELSE pos
    BY DEF TapPos
  <2> QED
    BY <1>7, <2>2, <2>3
<1> HIDE DEF e
<1>9. CASE e < h
  <2>1. InRange(e, Isize) /\ IsDtype(Isize)
    BY <1>2, <1>6, <1>9, IsizeIsDtype DEF InRange, Lowest, Highest, h
  <2>2. AsIsize(e) = e
    BY <1>6, <2>1, WrapIdentity DEF AsIsize
  <2> QED
    BY <1>6, <1>8, <2>2 DEF ExactTap, e
<1>10. CASE e >= h
  <2> DEFINE w == e - 2 * h
  <2>1. w \in Int /\ w < 0 /\ InRange(w, Isize) /\ IsDtype(Isize)
    BY <1>2, <1>6, <1>10, IsizeIsDtype DEF InRange, Lowest, Highest, h
  <2>2. AsIsize(w) = w
    BY <2>1, WrapIdentity DEF AsIsize
  <2>3. e + (-1) * Size(Isize) = w
    BY <1>2, <1>6
  <2>4. AsIsize(e) = w
    BY <1>6, <2>1, <2>2, <2>3, WrapOfCongruent DEF AsIsize
  <2>5. e \notin 0..(in - 1)
    BY <1>2, <1>6, <1>10
  <2> QED
    BY <1>8, <2>1, <2>4, <2>5 DEF ExactTap, e
<1> QED
  BY <1>2, <1>6, <1>9, <1>10

-----------------------------------------------------------------------------
\* The calls of a run.

\* The fault of the axes, if there is one, is a fault.
LEMMA AxisFaultIsFault ==
  ASSUME CallsAssumption, call \in Calls, ~AxesAreSound
  PROVE  FirstAxisFault # "none"
<1> DEFINE faulty == {i \in DOMAIN call.axes : AxisFault(i) # "none"}
<1>1. DOMAIN call.axes \subseteq Nat /\ \A i \in DOMAIN call.axes : 1..(i - 1) \subseteq DOMAIN call.axes
  <2>1. call.axes \in Seq(Nat)
    BY CallsAssumption
  <2>2. DOMAIN call.axes = 1..Len(call.axes) /\ Len(call.axes) \in Nat
    BY <2>1
  <2> QED
    BY <2>2
<1>2. faulty \in SUBSET Nat /\ faulty # {}
  BY <1>1 DEF AxesAreSound
<1>3. PICK i \in faulty : \A j \in faulty : i <= j
  BY <1>2, LeastNatural
<1>4. \A j \in 1..(i - 1) : AxisFault(j) = "none"
  BY <1>1, <1>3
<1>5. \E m \in DOMAIN call.axes :
         AxisFault(m) # "none" /\ \A j \in 1..(m - 1) : AxisFault(j) = "none"
  BY <1>3, <1>4
<1> QED
  BY <1>5 DEF FirstAxisFault

\* The arguments of the call passed the checks on them.
SoundCall == call \in Calls /\ LengthsAgree /\ AxesAreSound

\* The call never changes, and a call in progress passed the checks on its arguments.
CallInv == call \in Calls /\ (Accepted => SoundCall)

\* What has no fault has sound arguments.
LEMMA FaultlessIsSound ==
  ASSUME call \in Calls, Fault = "none"
  PROVE  SoundCall
BY AxisFaultIsFault, CallsAssumption DEF Fault, SoundCall

\* Every step keeps it: Begin is the only way to be accepted.
LEMMA CallInvStep ==
  ASSUME CallInv, [Next]_vars
  PROVE  CallInv' /\ call' = call
<1>1. call' = call
  BY DEF Next, vars, Decline, Begin, Refuse, OpenWindow, Tap, CloseWindow, Im2colStep,
         Return, Fail
<1>2. SoundCall' <=> SoundCall
  BY <1>1 DEF SoundCall, LengthsAgree, AxesAreSound, AxisFault, X
<1>3. CASE Begin
  <2>1. SoundCall
    BY <1>3, FaultlessIsSound DEF Begin, CallInv
  <2> QED
    BY <1>1, <1>2, <2>1 DEF CallInv
<1>4. CASE ~Begin
  <2>1. Accepted' => Accepted
    BY <1>4 DEF Next, vars, Decline, Refuse, OpenWindow, Tap, CloseWindow, Im2colStep,
                Return, Fail, Accepted, Walking
  <2> QED
    BY <1>1, <1>2, <2>1 DEF CallInv
<1> QED
  BY <1>3, <1>4, <1>1

\* The arguments of every call in progress are sound.
THEOREM CallInvariant == Spec => []CallInv
<1>1. Init => CallInv
  BY DEF Init, CallInv, Accepted
<1>2. CallInv /\ [Next]_vars => CallInv'
  BY CallInvStep
<1> QED
  BY <1>1, <1>2, PTL DEF Spec

\* What a call in progress knows of the i-th of its axes.
LEMMA AcceptedAxis ==
  ASSUME SoundCall, NEW i \in DOMAIN call.axes
  PROVE  /\ X.shape[call.axes[i]] \in Nat
         /\ call.kernel[i] \in Nat /\ call.stride[i] \in Nat
         /\ call.padding[i] \in Nat /\ call.dilation[i] \in Nat
         /\ PoolFault(X.shape[call.axes[i]], call.kernel[i], call.stride[i],
                      call.padding[i], call.dilation[i]) = "none"
<1>1. call \in Calls /\ LengthsAgree /\ AxesAreSound
  BY DEF SoundCall
<1>2. /\ X.shape \in Seq(Nat) /\ call.axes \in Seq(Nat)
      /\ call.kernel \in Seq(Nat) /\ call.stride \in Seq(Nat)
      /\ call.padding \in Seq(Nat) /\ call.dilation \in Seq(Nat)
  BY <1>1, CallsAssumption DEF X
<1>3. /\ Len(call.kernel) = Len(call.axes) /\ Len(call.stride) = Len(call.axes)
      /\ Len(call.padding) = Len(call.axes) /\ Len(call.dilation) = Len(call.axes)
  BY <1>1 DEF LengthsAgree
<1>4. AxisFault(i) = "none"
  BY <1>1 DEF AxesAreSound
<1>5. call.axes[i] \in DOMAIN X.shape
  BY <1>4 DEF AxisFault, Axes
<1>6. PoolFault(X.shape[call.axes[i]], call.kernel[i], call.stride[i],
                call.padding[i], call.dilation[i]) = "none"
  BY <1>4, <1>5 DEF AxisFault, Axes
<1>7. /\ DOMAIN call.axes = 1..Len(call.axes)
      /\ DOMAIN call.kernel = DOMAIN call.axes /\ DOMAIN call.stride = DOMAIN call.axes
      /\ DOMAIN call.padding = DOMAIN call.axes /\ DOMAIN call.dilation = DOMAIN call.axes
  <2>1. \A f \in Seq(Nat) : DOMAIN f = 1..Len(f)
    OBVIOUS
  <2> QED
    BY <1>2, <1>3, <2>1
<1>8. \A f \in Seq(Nat) : \A j \in DOMAIN f : f[j] \in Nat
  OBVIOUS
<1> QED
  BY <1>2, <1>5, <1>6, <1>7, <1>8

\* The taps of every call in progress are exact.
LEMMA AcceptedTapsAreExact ==
  ASSUME CallInv
  PROVE  TapsAreExact
<1> SUFFICES ASSUME Accepted, ExtentsFitIsize, NEW i \in DOMAIN call.axes,
                    NEW o \in 0..(PooledExtent(i) - 1), NEW t \in 0..(call.kernel[i] - 1)
             PROVE  TapPos(o, t, call.stride[i], call.dilation[i], call.padding[i],
                           X.shape[call.axes[i]])
                      = ExactTap(o, t, call.stride[i], call.dilation[i], call.padding[i],
                                 X.shape[call.axes[i]])
  BY DEF TapsAreExact, EveryTapIsExact
<1> DEFINE in == X.shape[call.axes[i]]
           k == call.kernel[i]
           s == call.stride[i]
           p == call.padding[i]
           dil == call.dilation[i]
<1>1. in <= IsizeMax
  BY DEF ExtentsFitIsize
<1>2. /\ in \in Nat /\ k \in Nat /\ s \in Nat /\ p \in Nat /\ dil \in Nat
      /\ PoolFault(in, k, s, p, dil) = "none"
  BY AcceptedAxis DEF CallInv
<1>3. o \in 0..(PoolOutDim(in, k, s, p, dil) - 1) /\ t \in 0..(k - 1)
  BY DEF PooledExtent
<1> HIDE DEF in, k, s, p, dil
<1>4. TapPos(o, t, s, dil, p, in) = ExactTap(o, t, s, dil, p, in)
  BY <1>1, <1>2, <1>3, TapPosExact
<1> QED
  BY <1>4 DEF in, k, s, p, dil

\* No call that was accepted ever loses a tap to the wrapping arithmetic.
THEOREM TapsAlwaysExact == Spec => []TapsAreExact
<1>1. CallInv => TapsAreExact
  BY AcceptedTapsAreExact
<1> QED
  BY <1>1, CallInvariant, PTL

\* The output extents of every accepted call count the places its windows fit.
THEOREM ExtentsAlwaysCountPlacements == Spec => []OutputCountsPlacements
<1>1. CallInv => OutputCountsPlacements
  <2> SUFFICES ASSUME CallInv, Accepted, NEW i \in DOMAIN call.axes
               PROVE  PooledExtent(i) =
                        Cardinality({o \in 0..UsizeMax :
                          o * call.stride[i] + call.dilation[i] * (call.kernel[i] - 1)
                            < X.shape[call.axes[i]] + 2 * call.padding[i]})
    BY DEF OutputCountsPlacements
  <2> DEFINE in == X.shape[call.axes[i]]
             k == call.kernel[i]
             s == call.stride[i]
             p == call.padding[i]
             dil == call.dilation[i]
             n == PoolOutDim(in, k, s, p, dil)
             places == {o \in 0..UsizeMax : o * s + dil * (k - 1) < in + 2 * p}
  <2>1. /\ in \in Nat /\ k \in Nat /\ s \in Nat /\ p \in Nat /\ dil \in Nat
        /\ PoolFault(in, k, s, p, dil) = "none"
    BY AcceptedAxis DEF CallInv
  <2>2. PooledExtent(i) = n
    BY DEF PooledExtent
  <2> SUFFICES n = Cardinality(places)
    BY <2>2
  <2> HIDE DEF in, k, s, p, dil
  <2>3. k > 0 /\ s > 0 /\ Padded(in, p) <= UsizeMax /\ UsizeMax \in Nat
    BY <2>1, UsizeAssumption DEF PoolFault, Padded
  <2>4. n \in Nat /\ \A o \in Nat : o < n <=> o * s + dil * (k - 1) < in + 2 * p
    BY <2>1, <2>3, 0 \in Nat, PoolOutDimCounts DEF Padded
  <2>5. n <= UsizeMax
    BY <2>1, <2>3, PoolOutDimFits
  <2> HIDE DEF n
  <2>6. places = 0..(n - 1)
    BY <2>3, <2>4, <2>5
  <2>7. Cardinality(0..(n - 1)) = n
    BY <2>4, FS_Interval, 0 \in Int, n - 1 \in Int
  <2> QED
    BY <2>6, <2>7
<1> QED
  BY <1>1, CallInvariant, PTL

-----------------------------------------------------------------------------
\* Shapes and odometers.

\* f is the running product of the extents of a shape.
MultipliesUp(f, shape) ==
  f[0] = 1 /\ \A k \in 1..Len(shape) : f[k] = f[k - 1] * shape[k]

\* The recursion of Product has a solution, and Product is where it ends.
LEMMA ProductRuns ==
  ASSUME NEW shape \in Seq(Nat)
  PROVE  \E f : MultipliesUp(f, shape) /\ Product(shape) = f[Len(shape)]
<1> DEFINE n == Len(shape)
           step == [k \in Nat |-> [v \in Nat |-> IF k \in 1..n THEN v * shape[k] ELSE v]]
           body(f) == [k \in 0..Len(shape) |-> IF k = 0 THEN 1 ELSE f[k - 1] * shape[k]]
           chosen == CHOOSE f : f = body(f)
<1>1. n \in Nat /\ \A k \in 1..n : shape[k] \in Nat
  OBVIOUS
<1>2. step \in [Nat -> [Nat -> Nat]]
  <2> SUFFICES \A k \in Nat, v \in Nat : (IF k \in 1..n THEN v * shape[k] ELSE v) \in Nat
    OBVIOUS
  <2> HIDE DEF n
  <2> QED
    BY <1>1
<1>3. PICK f \in [0..n -> Nat] : Unrolls(f, 1, step, n)
  <2> HIDE DEF step, n
  <2> QED
    BY <1>1, <1>2, RecursionOverInterval
<1>4. \A k \in 1..n : f[k] = f[k - 1] * shape[k]
  <2> TAKE k \in 1..n
  <2>1. k \in Nat /\ k - 1 \in 0..n
    BY <1>1
  <2>2. f[k - 1] \in Nat /\ f[k] = step[k][f[k - 1]]
    BY <1>3, <2>1 DEF Unrolls
  <2> HIDE DEF n
  <2> QED
    BY <2>1, <2>2
<1>5. f = body(f)
  <2>1. \A k \in 0..n : f[k] = body(f)[k]
    <3> TAKE k \in 0..n
    <3>1. CASE k = 0
      BY <1>3, <3>1 DEF Unrolls
    <3>2. CASE k # 0
      <4>1. k \in 1..n
        BY <1>1, <3>2
      <4> QED
        BY <1>4, <3>2, <4>1
    <3> QED
      BY <3>1, <3>2
  <2>2. f = [k \in 0..n |-> f[k]] /\ body(f) = [k \in 0..n |-> body(f)[k]]
    BY <1>3
  <2> HIDE DEF body
  <2> QED
    BY <2>1, <2>2
<1>6. chosen = body(chosen)
  <2> HIDE DEF body
  <2> QED
    BY <1>5
<1>7. MultipliesUp(chosen, shape)
  <2> HIDE DEF chosen
  <2>1. \A k \in 0..n : chosen[k] = body(chosen)[k]
    <3> HIDE DEF body
    <3> QED
      BY <1>6
  <2>2. 0 \in 0..n /\ \A k \in 1..n : k \in 0..n /\ k # 0
    BY <1>1
  <2> QED
    BY <2>1, <2>2 DEF MultipliesUp
<1>8. Product(shape) = chosen[Len(shape)]
  BY DEF Product
<1> HIDE DEF chosen
<1> QED
  BY <1>7, <1>8

\* A shape has elements exactly when no extent is 0.
LEMMA ProductIsPositive ==
  ASSUME NEW shape \in Seq(Nat)
  PROVE  /\ Product(shape) \in Nat
         /\ Product(shape) > 0 <=> \A k \in Axes(shape) : shape[k] > 0
<1> DEFINE n == Len(shape)
<1>1. PICK f : MultipliesUp(f, shape) /\ Product(shape) = f[n]
  BY ProductRuns
<1>2. n \in Nat /\ Axes(shape) = 1..n /\ \A k \in 1..n : shape[k] \in Nat
  BY DEF Axes
<1> HIDE DEF n
<1> DEFINE Good(k) == f[k] \in Nat /\ (f[k] > 0 <=> \A j \in 1..k : shape[j] > 0)
           Failing == {k \in 0..n : ~Good(k)}
<1>3. Failing = {}
  <2> SUFFICES ASSUME Failing # {} PROVE FALSE
    OBVIOUS
  <2>1. PICK k \in Failing : \A l \in Failing : k <= l
    <3>1. Failing \subseteq Nat
      OBVIOUS
    <3> HIDE DEF Failing
    <3> QED
      BY <3>1, LeastNatural
  <2>2. k \in 0..n /\ ~Good(k)
    OBVIOUS
  <2>3. k # 0
    BY <1>1, <2>2 DEF MultipliesUp
  <2>4. k \in 1..n /\ k - 1 \in 0..n /\ k - 1 \notin Failing
    <3> HIDE DEF Failing
    <3>1. k \in 1..n /\ k - 1 \in 0..n /\ ~(k <= k - 1)
      BY <1>2, <2>2, <2>3
    <3> QED
      BY <2>1, <3>1
  <2>5. Good(k - 1)
    BY <2>4
  <2>6. f[k] = f[k - 1] * shape[k] /\ shape[k] \in Nat
    BY <1>1, <1>2, <2>4 DEF MultipliesUp, n
  <2> DEFINE before == f[k - 1]
             extent == shape[k]
  <2>7. before \in Nat /\ extent \in Nat /\ f[k] = before * extent
    BY <2>5, <2>6
  <2>8. (\A j \in 1..k : shape[j] > 0) <=> (\A j \in 1..(k - 1) : shape[j] > 0) /\ extent > 0
    <3>1. 1..k = 1..(k - 1) \cup {k}
      BY <2>4, <1>2
    <3> QED
      BY <3>1
  <2>9. before > 0 <=> \A j \in 1..(k - 1) : shape[j] > 0
    BY <2>5
  <2>10. f[k] \in Nat /\ (f[k] > 0 <=> before > 0 /\ extent > 0)
    <3> HIDE DEF before, extent
    <3>1. before = 0 \/ extent = 0 => before * extent = 0
      BY <2>7
    <3>2. before > 0 /\ extent > 0 => before * extent > 0
      BY <2>7
    <3>3. before * extent \in Nat
      BY <2>7
    <3> QED
      BY <2>7, <3>1, <3>2, <3>3
  <2> QED
    BY <2>2, <2>8, <2>9, <2>10
<1>4. Good(n)
  <2>1. n \in 0..n
    BY <1>2
  <2> QED
    BY <1>3, <2>1
<1> QED
  BY <1>1, <1>2, <1>4

\* An odometer within a shape stays below its extents.
LEMMA DecodeInRange ==
  ASSUME NEW shape \in Seq(Nat), NEW l \in Nat, l < Product(shape)
  PROVE  /\ Decode(l, shape) \in Seq(Nat) /\ Len(Decode(l, shape)) = Len(shape)
         /\ \A k \in Axes(shape) : Decode(l, shape)[k] \in 0..(shape[k] - 1)
<1> DEFINE n == Len(shape)
           strides == ContiguousStrides(shape)
<1>1. n \in Nat /\ Axes(shape) = 1..n /\ \A k \in 1..n : shape[k] \in Nat
  BY DEF Axes
<1>2. \A k \in 1..n : shape[k] > 0
  BY <1>1, ProductIsPositive
<1>3. \A k \in 1..n : strides[k] \in Nat /\ strides[k] > 0
  <2> TAKE k \in 1..n
  <2> DEFINE rest == SubSeq(shape, k + 1, n)
  <2>1. k + 1 \in Int /\ n \in Int /\ \A i \in (k + 1)..n : shape[i] \in Nat
    BY <1>1
  <2>2. /\ rest \in Seq(Nat)
        /\ \A i \in 1..(n - (k + 1) + 1) : rest[i] = shape[k + 1 + i - 1]
        /\ Len(rest) = IF k + 1 <= n THEN n - (k + 1) + 1 ELSE 0
    <3> HIDE DEF n
    <3> QED
      BY <2>1, SubSeqProperties
  <2>3. \A i \in Axes(rest) : rest[i] > 0
    <3> TAKE i \in Axes(rest)
    <3>1. i \in 1..Len(rest)
      BY <2>2 DEF Axes
    <3> HIDE DEF rest, n
    <3>2. i \in 1..(n - (k + 1) + 1) /\ k + 1 + i - 1 \in 1..n
      BY <1>1, <2>2, <3>1
    <3> QED
      BY <1>2, <2>2, <3>2
  <2>4. Product(rest) \in Nat /\ Product(rest) > 0
    <3> HIDE DEF rest
    <3> QED
      BY <2>2, <2>3, ProductIsPositive
  <2>5. strides[k] = Product(rest)
    BY <1>1 DEF ContiguousStrides
  <2> QED
    BY <2>4, <2>5
<1> HIDE DEF strides
<1>4. \A k \in 1..n : (l \div strides[k]) % shape[k] \in 0..(shape[k] - 1)
  <2> TAKE k \in 1..n
  <2>1. l \div strides[k] \in Int
    BY <1>3
  <2> QED
    BY <1>1, <1>2, <2>1
<1>5. Decode(l, shape) = [k \in 1..n |-> (l \div strides[k]) % shape[k]]
  BY <1>1 DEF Decode, strides
<1> HIDE DEF n
<1>6. \A k \in 1..n : Decode(l, shape)[k] \in 0..(shape[k] - 1)
  BY <1>4, <1>5
<1>7. Decode(l, shape) \in Seq(Nat) /\ Len(Decode(l, shape)) = n
  <2>1. \A k \in 1..n : (l \div strides[k]) % shape[k] \in Nat
    BY <1>1, <1>4
  <2> QED
    BY <1>1, <1>5, <2>1
<1> QED
  BY <1>1, <1>6, <1>7 DEF n
-----------------------------------------------------------------------------
\* The cells of a call.

\* The sequences of a call in progress.
LEMMA CallFields ==
  ASSUME call \in Calls
  PROVE  /\ call.op \in {"avg_pool", "max_pool", "im2col"}
         /\ X.shape \in Seq(Nat) /\ call.axes \in Seq(Nat) /\ call.kernel \in Seq(Nat)
         /\ LengthsAgree => DOMAIN call.kernel = DOMAIN call.axes
<1>2. X.shape \in Seq(Nat) /\ call.axes \in Seq(Nat) /\ call.kernel \in Seq(Nat)
  BY CallsAssumption DEF X
<1>3. LengthsAgree => Len(call.kernel) = Len(call.axes)
  BY DEF LengthsAgree
<1>4. DOMAIN call.kernel = 1..Len(call.kernel) /\ DOMAIN call.axes = 1..Len(call.axes)
  BY <1>2
<1> QED
  BY <1>2, <1>3, <1>4, CallsAssumption

\* The parameters that count for an axis listed once are those listed with it.
LEMMA EntryIsTheOne ==
  ASSUME call \in Calls, DistinctAxes, NEW i \in DOMAIN call.axes
  PROVE  /\ EntryOf(call.axes[i]) = i
         /\ (CHOOSE j \in DOMAIN call.axes : call.axes[j] = call.axes[i]) = i
<1>1. \A j \in DOMAIN call.axes : call.axes[j] = call.axes[i] => j = i
  BY DEF DistinctAxes
<1>2. \A j \in DOMAIN call.axes : j > i => call.axes[j] # call.axes[i]
  <2>1. ~(i > i)
    BY CallFields
  <2> QED
    BY <1>1, <2>1
<1>3. EntryOf(call.axes[i]) = i
  BY <1>1, <1>2 DEF EntryOf
<1>4. (CHOOSE j \in DOMAIN call.axes : call.axes[j] = call.axes[i]) = i
  BY <1>1
<1> QED
  BY <1>3, <1>4

\* The output has a shape, and on a pooled axis its extent is the number of windows.
LEMMA PooledShapeIsShape ==
  ASSUME SoundCall, DistinctAxes
  PROVE  /\ PooledShape \in Seq(Nat) /\ Len(PooledShape) = Len(X.shape)
         /\ \A i \in DOMAIN call.axes :
              call.axes[i] \in Axes(PooledShape) /\ PooledShape[call.axes[i]] = PooledExtent(i)
<1> DEFINE n == Len(X.shape)
<1>1. n \in Nat /\ Axes(X.shape) = 1..n /\ \A k \in 1..n : X.shape[k] \in Nat
  BY CallFields DEF SoundCall, Axes
<1>2. \A i \in DOMAIN call.axes : PooledExtent(i) \in Nat /\ call.axes[i] \in 1..n
  <2> TAKE i \in DOMAIN call.axes
  <2> DEFINE in == X.shape[call.axes[i]]
             k == call.kernel[i]
             s == call.stride[i]
             p == call.padding[i]
             dil == call.dilation[i]
  <2>1. /\ in \in Nat /\ k \in Nat /\ s \in Nat /\ p \in Nat /\ dil \in Nat
        /\ PoolFault(in, k, s, p, dil) = "none"
    BY AcceptedAxis
  <2>2. PooledExtent(i) = PoolOutDim(in, k, s, p, dil)
    BY DEF PooledExtent
  <2> HIDE DEF in, k, s, p, dil
  <2>3. k > 0 /\ s > 0
    BY <2>1 DEF PoolFault
  <2>4. PoolOutDim(in, k, s, p, dil) \in Nat
    BY <2>1, <2>3, 0 \in Nat, PoolOutDimCounts
  <2>5. AxisFault(i) = "none"
    BY DEF SoundCall, AxesAreSound
  <2>6. call.axes[i] \in Axes(X.shape)
    BY <2>5 DEF AxisFault
  <2> QED
    BY <1>1, <2>2, <2>4, <2>6
<1> DEFINE extent(k) == IF k \in WindowAxes THEN PooledExtent(EntryOf(k)) ELSE X.shape[k]
<1>3. \A i \in DOMAIN call.axes : extent(call.axes[i]) = PooledExtent(i)
  <2> TAKE i \in DOMAIN call.axes
  <2>1. call.axes[i] \in WindowAxes
    BY DEF WindowAxes
  <2>2. EntryOf(call.axes[i]) = i
    BY EntryIsTheOne DEF SoundCall
  <2> QED
    BY <2>1, <2>2
<1>4. \A k \in 1..n : extent(k) \in Nat
  <2> TAKE k \in 1..n
  <2>1. CASE k \in WindowAxes
    <3>1. PICK i \in DOMAIN call.axes : call.axes[i] = k
      BY <2>1 DEF WindowAxes
    <3>2. extent(k) = PooledExtent(i)
      BY <1>3, <3>1
    <3> HIDE DEF extent
    <3> QED
      BY <1>2, <3>2
  <2>2. CASE k \notin WindowAxes
    BY <1>1, <2>2
  <2> QED
    BY <2>1, <2>2
<1>5. PooledShape = [k \in 1..n |-> extent(k)]
  BY <1>1 DEF PooledShape
<1> HIDE DEF extent, n
<1>6. PooledShape \in Seq(Nat) /\ Len(PooledShape) = n /\ Axes(PooledShape) = 1..n
  BY <1>1, <1>4, <1>5 DEF Axes
<1>7. \A k \in 1..n : PooledShape[k] = extent(k)
  BY <1>5
<1> QED
  BY <1>2, <1>3, <1>6, <1>7 DEF n

\* A tap of a window that is there, at a place of the output that is there, reads what the
\* window covers: the wrapped positions are the exact ones, and the entry found for an axis
\* is the same either way.
LEMMA TappedIsCovered ==
  ASSUME CallInv, Accepted, DistinctAxes, ExtentsFitIsize, NEW at, NEW tapAt,
         \A i \in DOMAIN call.axes : /\ at[call.axes[i]] \in 0..(PooledExtent(i) - 1)
                                     /\ tapAt[i] \in 0..(call.kernel[i] - 1)
  PROVE  Tapped(at, tapAt) = Covered(at, tapAt)
<1> DEFINE pos(i) == at[call.axes[i]] * call.stride[i] + tapAt[i] * call.dilation[i]
                       - call.padding[i]
           inside(i) == pos(i) \in 0..(X.shape[call.axes[i]] - 1)
<1>1. ASSUME NEW i \in DOMAIN call.axes
      PROVE  TapOn(i, at, tapAt) = IF inside(i) THEN pos(i) ELSE None
  <2>1. EveryTapIsExact
    BY AcceptedTapsAreExact DEF TapsAreExact
  <2> DEFINE extent == X.shape[call.axes[i]]
             o == at[call.axes[i]]
             t == tapAt[i]
  <2>2. TapPos(o, t, call.stride[i], call.dilation[i], call.padding[i], extent)
          = ExactTap(o, t, call.stride[i], call.dilation[i], call.padding[i], extent)
    BY <2>1 DEF EveryTapIsExact
  <2> QED
    BY <2>2 DEF TapOn, ExactTap
<1>2. ASSUME NEW i \in DOMAIN call.axes
      PROVE  (TapOn(i, at, tapAt) = None) <=> ~inside(i)
  <2>1. inside(i) => pos(i) # None
    <3>1. X.shape[call.axes[i]] \in Nat
      BY AcceptedAxis DEF CallInv
    <3> HIDE DEF pos
    <3> QED
      BY <3>1 DEF None
  <2> HIDE DEF inside, pos
  <2> QED
    BY <1>1, <2>1
<1> DEFINE covers == \A i \in DOMAIN call.axes : inside(i)
           tapped == [k \in Axes(X.shape) |->
                        IF k \in WindowAxes THEN TapOn(EntryOf(k), at, tapAt) ELSE at[k]]
           source == [k \in Axes(X.shape) |->
                        IF k \in WindowAxes
                        THEN pos(CHOOSE i \in DOMAIN call.axes : call.axes[i] = k)
                        ELSE at[k]]
<1>3. Tapped(at, tapAt) = IF covers THEN <<Read(X, tapped)>> ELSE <<>>
  <2>1. (\E i \in DOMAIN call.axes : TapOn(i, at, tapAt) = None) <=> ~covers
    <3> HIDE DEF inside
    <3> QED
      BY <1>2
  <2> HIDE DEF covers
  <2> QED
    BY <2>1 DEF Tapped
<1>4. Covered(at, tapAt) = IF covers THEN <<Read(X, source)>> ELSE <<>>
  BY DEF Covered
<1>5. covers => tapped = source
  <2> SUFFICES ASSUME covers, NEW k \in WindowAxes
               PROVE  TapOn(EntryOf(k), at, tapAt)
                        = pos(CHOOSE i \in DOMAIN call.axes : call.axes[i] = k)
    OBVIOUS
  <2>1. PICK i \in DOMAIN call.axes : call.axes[i] = k
    BY DEF WindowAxes
  <2>2. EntryOf(k) = i /\ (CHOOSE j \in DOMAIN call.axes : call.axes[j] = k) = i
    BY <2>1, EntryIsTheOne DEF CallInv
  <2>3. TapOn(i, at, tapAt) = pos(i)
    <3>1. inside(i)
      OBVIOUS
    <3> HIDE DEF pos, inside
    <3> QED
      BY <1>1, <3>1
  <2> HIDE DEF pos
  <2> QED
    BY <2>2, <2>3
<1> HIDE DEF covers, tapped, source
<1> QED
  BY <1>3, <1>4, <1>5
-----------------------------------------------------------------------------
\* The loops.

\* The recursion over the taps of a window has a solution: nothing before the first, and
\* each tap adds what it covers.
LEMMA CoveredRuns ==
  ASSUME call \in Calls, NEW at
  PROVE  /\ CoveredUpTo(at)[0] = <<>>
         /\ \A k \in 1..Product(call.kernel) :
              CoveredUpTo(at)[k] = CoveredUpTo(at)[k - 1] \o Covered(at, Decode(k - 1, call.kernel))
<1> DEFINE n == Product(call.kernel)
           one(k) == Covered(at, Decode(k - 1, call.kernel))
           Elements == {one(k)[1] : k \in Nat}
           step == [k \in Nat |-> [s \in Seq(Elements) |-> s \o one(k)]]
           body(f) == [k \in 0..Product(call.kernel) |->
                         IF k = 0 THEN <<>>
                         ELSE f[k - 1] \o Covered(at, Decode(k - 1, call.kernel))]
           chosen == CHOOSE f : f = body(f)
<1>1. n \in Nat
  BY CallFields, ProductIsPositive
<1>2. \A k \in Nat : one(k) \in Seq(Elements)
  <2> TAKE k \in Nat
  <2>1. one(k) = <<>> \/ \E x : one(k) = <<x>>
    BY DEF Covered
  <2>2. one(k)[1] \in Elements
    OBVIOUS
  <2> HIDE DEF one, Elements
  <2>3. ASSUME NEW x, one(k) = <<x>>
        PROVE  one(k) \in Seq(Elements)
    <3>1. x \in Elements
      BY <2>2, <2>3
    <3> QED
      BY <2>3, <3>1
  <2>4. <<>> \in Seq(Elements)
    OBVIOUS
  <2> QED
    BY <2>1, <2>3, <2>4
<1>3. step \in [Nat -> [Seq(Elements) -> Seq(Elements)]]
  <2> SUFFICES \A k \in Nat, s \in Seq(Elements) : s \o one(k) \in Seq(Elements)
    OBVIOUS
  <2> HIDE DEF one, Elements
  <2> QED
    BY <1>2, ConcatProperties
<1>4. <<>> \in Seq(Elements)
  OBVIOUS
<1>5. PICK f \in [0..n -> Seq(Elements)] : Unrolls(f, <<>>, step, n)
  <2> HIDE DEF step, n, Elements
  <2> QED
    BY <1>1, <1>3, <1>4, RecursionOverInterval
<1>6. \A k \in 1..n : f[k] = f[k - 1] \o one(k)
  <2> TAKE k \in 1..n
  <2>1. k \in Nat /\ k - 1 \in 0..n
    BY <1>1
  <2>2. f[k - 1] \in Seq(Elements) /\ f[k] = step[k][f[k - 1]]
    BY <1>5, <2>1 DEF Unrolls
  <2> HIDE DEF n, one, Elements
  <2> QED
    BY <2>1, <2>2
<1>7. f = body(f)
  <2>1. \A k \in 0..n : f[k] = body(f)[k]
    <3> TAKE k \in 0..n
    <3>1. CASE k = 0
      BY <1>5, <3>1 DEF Unrolls
    <3>2. CASE k # 0
      <4>1. k \in 1..n
        BY <1>1, <3>2
      <4> QED
        BY <1>6, <3>2, <4>1
    <3> QED
      BY <3>1, <3>2
  <2>2. f = [k \in 0..n |-> f[k]] /\ body(f) = [k \in 0..n |-> body(f)[k]]
    BY <1>5
  <2> HIDE DEF body
  <2> QED
    BY <2>1, <2>2
<1>8. chosen = body(chosen)
  <2> HIDE DEF body
  <2> QED
    BY <1>7
<1>9. chosen[0] = <<>> /\ \A k \in 1..n : chosen[k] = chosen[k - 1] \o one(k)
  <2> HIDE DEF chosen
  <2>1. \A k \in 0..n : chosen[k] = body(chosen)[k]
    <3> HIDE DEF body
    <3> QED
      BY <1>8
  <2>2. 0 \in 0..n /\ \A k \in 1..n : k \in 0..n /\ k # 0
    BY <1>1
  <2> QED
    BY <2>1, <2>2
<1>10. CoveredUpTo(at) = chosen
  BY DEF CoveredUpTo
<1> HIDE DEF chosen
<1> QED
  BY <1>9, <1>10

\* The output and its windows have a number of cells and of taps.
LEMMA OutShapeIsShape ==
  ASSUME SoundCall, DistinctAxes
  PROVE  /\ OutShape \in Seq(Nat) /\ Product(OutShape) \in Nat
         /\ call.kernel \in Seq(Nat) /\ Product(call.kernel) \in Nat
<1>1. PooledShape \in Seq(Nat)
  BY PooledShapeIsShape
<1>2. call.kernel \in Seq(Nat)
  BY CallFields DEF SoundCall
<1>3. OutShape \in Seq(Nat)
  BY <1>1, <1>2, ConcatProperties DEF OutShape
<1> QED
  BY <1>2, <1>3, ProductIsPositive

\* The odometer of a pool's output counts windows, that of the window its taps.
LEMMA PoolPlaces ==
  ASSUME SoundCall, DistinctAxes, call.op # "im2col",
         NEW l \in Nat, l < Product(OutShape), NEW t \in Nat, t < Product(call.kernel)
  PROVE  \A i \in DOMAIN call.axes :
           /\ Decode(l, OutShape)[call.axes[i]] \in 0..(PooledExtent(i) - 1)
           /\ Decode(t, call.kernel)[i] \in 0..(call.kernel[i] - 1)
<1> TAKE i \in DOMAIN call.axes
<1>1. OutShape = PooledShape
  BY DEF OutShape
<1>2. PooledShape \in Seq(Nat) /\ call.kernel \in Seq(Nat)
  BY PooledShapeIsShape, OutShapeIsShape
<1>3. call.axes[i] \in Axes(PooledShape) /\ PooledShape[call.axes[i]] = PooledExtent(i)
  BY PooledShapeIsShape
<1>4. i \in Axes(call.kernel)
  BY CallFields DEF SoundCall, Axes
<1>5. Decode(l, PooledShape)[call.axes[i]] \in 0..(PooledShape[call.axes[i]] - 1)
  BY <1>1, <1>2, <1>3, DecodeInRange
<1>6. Decode(t, call.kernel)[i] \in 0..(call.kernel[i] - 1)
  BY <1>2, <1>4, DecodeInRange
<1> QED
  BY <1>1, <1>3, <1>5, <1>6

\* The odometer of im2col counts windows, then the taps of each.
LEMMA Im2colPlaces ==
  ASSUME SoundCall, DistinctAxes, call.op = "im2col", NEW l \in Nat, l < Product(OutShape)
  PROVE  LET at == Decode(l, OutShape)
             rank == Len(X.shape)
         IN  \A i \in DOMAIN call.axes :
               /\ SubSeq(at, 1, rank)[call.axes[i]] \in 0..(PooledExtent(i) - 1)
               /\ SubSeq(at, rank + 1, Len(at))[i] \in 0..(call.kernel[i] - 1)
<1> DEFINE at == Decode(l, OutShape)
           rank == Len(X.shape)
           taps == Len(call.kernel)
<1> SUFFICES ASSUME NEW i \in DOMAIN call.axes
             PROVE  /\ SubSeq(at, 1, rank)[call.axes[i]] \in 0..(PooledExtent(i) - 1)
                    /\ SubSeq(at, rank + 1, Len(at))[i] \in 0..(call.kernel[i] - 1)
  OBVIOUS
<1>1. OutShape = PooledShape \o call.kernel
  BY DEF OutShape
<1>2. PooledShape \in Seq(Nat) /\ Len(PooledShape) = rank /\ call.kernel \in Seq(Nat)
  BY PooledShapeIsShape, OutShapeIsShape
<1>3. rank \in Nat /\ taps \in Nat
  BY <1>2
<1>4. /\ call.axes[i] \in 1..rank /\ PooledShape[call.axes[i]] = PooledExtent(i)
      /\ i \in 1..taps
  <2>1. call.axes[i] \in Axes(PooledShape) /\ PooledShape[call.axes[i]] = PooledExtent(i)
    BY PooledShapeIsShape
  <2>2. Axes(PooledShape) = 1..rank
    BY <1>2 DEF Axes
  <2>3. i \in DOMAIN call.kernel
    BY CallFields DEF SoundCall
  <2> QED
    BY <1>2, <2>1, <2>2, <2>3
<1>5. /\ Len(OutShape) = rank + taps
      /\ \A k \in 1..rank : OutShape[k] = PooledShape[k]
      /\ \A k \in 1..taps : OutShape[rank + k] = call.kernel[k]
  <2> DEFINE p == PooledShape
             q == call.kernel
  <2>1. p \in Seq(Nat) /\ q \in Seq(Nat) /\ Len(p) = rank /\ Len(q) = taps /\ OutShape = p \o q
    BY <1>1, <1>2
  <2> HIDE DEF p, q, rank, taps
  <2>2. /\ Len(p \o q) = rank + taps
        /\ \A k \in 1..(rank + taps) : (p \o q)[k] = IF k <= rank THEN p[k] ELSE q[k - rank]
    BY <2>1, ConcatProperties
  <2>3. \A k \in 1..rank : k \in 1..(rank + taps) /\ k <= rank
    BY <1>3
  <2>4. \A k \in 1..taps : /\ rank + k \in 1..(rank + taps) /\ ~(rank + k <= rank)
                            /\ rank + k - rank = k
    BY <1>3
  <2>5. \A k \in 1..taps : OutShape[rank + k] = q[k]
    BY <2>1, <2>2, <2>4
  <2>6. \A k \in 1..rank : OutShape[k] = p[k]
    BY <2>1, <2>2, <2>3
  <2> QED
    BY <2>1, <2>2, <2>5, <2>6 DEF p, q
<1>6. /\ at \in Seq(Nat) /\ Len(at) = rank + taps
      /\ \A k \in 1..(rank + taps) : at[k] \in 0..(OutShape[k] - 1)
  <2>1. OutShape \in Seq(Nat)
    BY OutShapeIsShape
  <2>2. at \in Seq(Nat) /\ Len(at) = Len(OutShape)
        /\ \A k \in Axes(OutShape) : at[k] \in 0..(OutShape[k] - 1)
    BY <2>1, DecodeInRange
  <2>3. Axes(OutShape) = 1..(rank + taps)
    BY <1>5, <2>1 DEF Axes
  <2> HIDE DEF at, rank, taps
  <2> QED
    BY <1>5, <2>2, <2>3
<1> HIDE DEF at, rank, taps
<1>7. \A k \in 1..(rank + taps) : at[k] \in Nat
  BY <1>6
<1>8. \A k \in 1..rank : SubSeq(at, 1, rank)[k] = at[k]
  <2>1. 1 \in Int /\ rank \in Int /\ \A k \in 1..rank : at[k] \in Nat
    BY <1>3, <1>7
  <2>2. \A k \in 1..(rank - 1 + 1) : SubSeq(at, 1, rank)[k] = at[1 + k - 1]
    BY <2>1, SubSeqProperties
  <2> QED
    BY <1>3, <2>2
<1>9. \A k \in 1..taps : SubSeq(at, rank + 1, rank + taps)[k] = at[rank + k]
  <2> DEFINE lo == rank + 1
             hi == rank + taps
  <2>1. lo \in Int /\ hi \in Int /\ \A k \in lo..hi : at[k] \in Nat
    BY <1>3, <1>7
  <2>2. taps = hi - lo + 1 /\ \A k \in 1..taps : lo + k - 1 = rank + k
    BY <1>3
  <2> HIDE DEF lo, hi
  <2>3. \A k \in 1..(hi - lo + 1) : SubSeq(at, lo, hi)[k] = at[lo + k - 1]
    BY <2>1, SubSeqProperties
  <2>4. \A k \in 1..taps : SubSeq(at, lo, hi)[k] = at[rank + k]
    BY <2>2, <2>3
  <2> QED
    BY <2>4 DEF lo, hi
<1>10. /\ SubSeq(at, 1, rank)[call.axes[i]] = at[call.axes[i]]
       /\ SubSeq(at, rank + 1, Len(at))[i] = at[rank + i]
  BY <1>4, <1>6, <1>8, <1>9
<1>11. /\ at[call.axes[i]] \in 0..(OutShape[call.axes[i]] - 1)
       /\ at[rank + i] \in 0..(OutShape[rank + i] - 1)
  <2>1. call.axes[i] \in 1..(rank + taps) /\ rank + i \in 1..(rank + taps)
    BY <1>3, <1>4
  <2> QED
    BY <1>6, <2>1
<1> QED
  BY <1>4, <1>5, <1>10, <1>11

-----------------------------------------------------------------------------
\* Where the loops of a call stand: the cells written so far are right, and the current
\* window has accumulated what its taps so far cover.
LoopsAreCovered ==
  /\ lin \in 0..Product(OutShape)
  /\ (\E S : out \in Seq(S)) /\ Len(out) = lin
  /\ \A n \in 1..lin : CellIsCovered(out[n], Decode(n - 1, OutShape))
  /\ status = "returned" => lin = Product(OutShape)
  /\ call.op # "im2col" =>
       /\ tap \in 0..Product(call.kernel)
       /\ IF lin = Product(OutShape) THEN tap = 0 /\ acc = <<>>
          ELSE acc = CoveredUpTo(coord)[tap]

\* The inductive invariant of the cells.
CellInv ==
  /\ CallInv
  /\ status = "called" => lin = 0 /\ tap = 0 /\ acc = <<>> /\ out = <<>>
  /\ Accepted /\ DistinctAxes /\ ExtentsFitIsize => LoopsAreCovered

\* At the start of a call nothing has been written.
LEMMA CellInvInit ==
  ASSUME Init
  PROVE  CellInv
BY DEF Init, CellInv, CallInv, Accepted

\* What no step changes: the shape, and what a cell must be.
LEMMA CallKept ==
  ASSUME call' = call
  PROVE  /\ OutShape' = OutShape
         /\ \A at : CoveredUpTo(at)' = CoveredUpTo(at)
         /\ \A cell, at : CellIsCovered(cell, at)' <=> CellIsCovered(cell, at)
         /\ DistinctAxes' <=> DistinctAxes
         /\ ExtentsFitIsize' <=> ExtentsFitIsize
<1>1. OutShape' = OutShape
  BY DEF OutShape, PooledShape, X, WindowAxes, PooledExtent, EntryOf
<1>2. ASSUME NEW at
      PROVE  CoveredUpTo(at)' = CoveredUpTo(at)
  BY DEF CoveredUpTo, Covered, X, WindowAxes
<1>3. ASSUME NEW cell, NEW at
      PROVE  CellIsCovered(cell, at)' <=> CellIsCovered(cell, at)
  BY DEF CellIsCovered, CoveredFrom, CoveredUpTo, Covered, X, WindowAxes
<1>4. (DistinctAxes' <=> DistinctAxes) /\ (ExtentsFitIsize' <=> ExtentsFitIsize)
  BY DEF DistinctAxes, ExtentsFitIsize, X
<1> QED
  BY <1>1, <1>2, <1>3, <1>4

\* Begin stands before the first tap of the first cell.
LEMMA BeginCovers ==
  ASSUME CellInv, Begin, DistinctAxes
  PROVE  LoopsAreCovered'
<1>1. SoundCall
  BY FaultlessIsSound DEF Begin, CellInv, CallInv
<1>2. Product(OutShape) \in Nat /\ Product(call.kernel) \in Nat
  BY <1>1, OutShapeIsShape
<1>3. call' = call /\ lin' = 0 /\ tap' = 0 /\ acc' = <<>> /\ out' = <<>> /\ status' = "running"
  BY DEF Begin, CellInv
<1>4. OutShape' = OutShape
  BY <1>3, CallKept
<1>5. CoveredUpTo(coord)[0]' = <<>>
  <2>1. CoveredUpTo(coord')[0] = <<>>
    BY <1>1, CoveredRuns DEF SoundCall
  <2>2. CoveredUpTo(coord)[0]' = CoveredUpTo(coord')[0]
    BY <1>3, CallKept
  <2> QED
    BY <2>1, <2>2
<1>6. out' \in Seq({}) /\ Len(out') = 0
  BY <1>3
<1>7. Product(OutShape)' = Product(OutShape) /\ Product(call.kernel)' = Product(call.kernel)
  BY <1>3, <1>4
<1> QED
  BY <1>2, <1>3, <1>5, <1>6, <1>7 DEF LoopsAreCovered

\* A tap adds what it covers to what the taps before it cover.
LEMMA TapCovers ==
  ASSUME CellInv, Tap, DistinctAxes, ExtentsFitIsize, Accepted'
  PROVE  LoopsAreCovered'
<1> DEFINE read == Tapped(coord, Decode(tap, call.kernel))
<1>1. Accepted /\ SoundCall /\ LoopsAreCovered /\ call.op # "im2col" /\ call \in Calls
  BY DEF Tap, Walking, Accepted, CellInv, CallInv
<1>2. /\ Product(OutShape) \in Nat /\ Product(call.kernel) \in Nat
      /\ lin \in Nat /\ lin < Product(OutShape)
      /\ tap \in Nat /\ tap < Product(call.kernel)
      /\ acc = CoveredUpTo(coord)[tap]
  BY <1>1, OutShapeIsShape DEF LoopsAreCovered, Tap, Walking
<1>3. Accumulates(read)
  BY DEF Tap, Fail, Accepted
<1>4. /\ call' = call /\ lin' = lin /\ out' = out /\ status' = status /\ status # "returned"
      /\ tap' = tap + 1 /\ acc' = acc \o read
  BY <1>3 DEF Tap, Walking
<1>5. read = Covered(coord, Decode(tap, call.kernel))
  <2>1. \A i \in DOMAIN call.axes :
           /\ coord[call.axes[i]] \in 0..(PooledExtent(i) - 1)
           /\ Decode(tap, call.kernel)[i] \in 0..(call.kernel[i] - 1)
    BY <1>1, <1>2, PoolPlaces DEF coord
  <2> QED
    BY <1>1, <2>1, TappedIsCovered DEF CellInv
<1>6. acc' = CoveredUpTo(coord)[tap + 1]
  <2>1. tap + 1 \in 1..Product(call.kernel) /\ tap + 1 - 1 = tap
    BY <1>2
  <2> DEFINE at == coord
  <2> HIDE DEF at
  <2>2. \A k \in 1..Product(call.kernel) :
           CoveredUpTo(at)[k] = CoveredUpTo(at)[k - 1] \o Covered(at, Decode(k - 1, call.kernel))
    BY <1>1, CoveredRuns
  <2>3. CoveredUpTo(at)[tap + 1] = CoveredUpTo(at)[tap] \o Covered(at, Decode(tap, call.kernel))
    <3> DEFINE k == tap + 1
    <3>1. k \in 1..Product(call.kernel) /\ k - 1 = tap
      BY <1>2, <2>1
    <3> HIDE DEF k
    <3>2. CoveredUpTo(at)[k] = CoveredUpTo(at)[k - 1] \o Covered(at, Decode(k - 1, call.kernel))
      BY <2>2, <3>1
    <3>3. CoveredUpTo(at)[k] = CoveredUpTo(at)[tap] \o Covered(at, Decode(tap, call.kernel))
      BY <3>1, <3>2
    <3> QED
      BY <3>3 DEF k
  <2>4. CoveredUpTo(coord)[tap + 1]
          = CoveredUpTo(coord)[tap] \o Covered(coord, Decode(tap, call.kernel))
    BY <2>3 DEF at
  <2> HIDE DEF read
  <2> QED
    BY <1>2, <1>4, <1>5, <2>4
<1>7. /\ OutShape' = OutShape /\ Product(OutShape)' = Product(OutShape)
      /\ Product(call.kernel)' = Product(call.kernel) /\ coord' = coord
      /\ CoveredUpTo(coord)' = CoveredUpTo(coord)
      /\ \A cell, at : CellIsCovered(cell, at)' <=> CellIsCovered(cell, at)
  <2>1. OutShape' = OutShape
    BY <1>4, CallKept
  <2>2. coord' = coord
    BY <1>4, <2>1 DEF coord
  <2>3. CoveredUpTo(coord)' = CoveredUpTo(coord)
    BY <1>4, <2>2, CallKept
  <2> QED
    BY <1>4, <2>1, <2>2, <2>3, CallKept
<1>8. tap' \in 0..Product(call.kernel) /\ lin # Product(OutShape)
  BY <1>2, <1>4
<1>9. \A n \in 1..lin : CellIsCovered(out[n], Decode(n - 1, OutShape))'
  BY <1>1, <1>4, <1>7 DEF LoopsAreCovered
<1> QED
  BY <1>1, <1>4, <1>6, <1>7, <1>8, <1>9 DEF LoopsAreCovered

\* What is appended is right if it was right to append it, and the rest stays.
LEMMA CellAppended ==
  ASSUME LoopsAreCovered, NEW cell, CellIsCovered(cell, coord),
         lin < Product(OutShape), Product(OutShape) \in Nat,
         call' = call, out' = Append(out, cell), lin' = lin + 1
  PROVE  /\ lin' \in 0..Product(OutShape)'
         /\ (\E S : out' \in Seq(S)) /\ Len(out') = lin'
         /\ \A n \in 1..lin' : CellIsCovered(out[n], Decode(n - 1, OutShape))'
<1>1. PICK S : out \in Seq(S)
  BY DEF LoopsAreCovered
<1>2. lin \in Nat /\ lin' \in 0..Product(OutShape) /\ Len(out) = lin
  BY DEF LoopsAreCovered
<1>3. /\ out' \in Seq(S \cup {cell}) /\ Len(out') = lin + 1
      /\ out'[lin + 1] = cell /\ \A n \in 1..lin : out'[n] = out[n]
  <2>1. out \in Seq(S \cup {cell}) /\ cell \in S \cup {cell}
    BY <1>1
  <2> QED
    BY <1>2, <2>1, AppendProperties
<1>4. OutShape' = OutShape /\ \A c, at : CellIsCovered(c, at)' <=> CellIsCovered(c, at)
  BY CallKept
<1>5. ASSUME NEW n \in 1..(lin + 1)
      PROVE  CellIsCovered(out'[n], Decode(n - 1, OutShape))
  <2>1. CASE n = lin + 1
    <3>1. out'[n] = cell /\ n - 1 = lin
      BY <1>2, <1>3, <2>1
    <3> QED
      BY <3>1 DEF coord
  <2>2. CASE n # lin + 1
    <3>1. n \in 1..lin
      BY <1>2, <2>2
    <3> QED
      BY <1>3, <3>1 DEF LoopsAreCovered
  <2> QED
    BY <2>1, <2>2
<1>6. \A n \in 1..lin' : CellIsCovered(out[n], Decode(n - 1, OutShape))'
  BY <1>4, <1>5
<1>7. Product(OutShape)' = Product(OutShape)
  BY <1>4
<1> QED
  BY <1>2, <1>3, <1>6, <1>7

\* A pooled cell is written when the last tap of its window has been taken.
LEMMA CloseCovers ==
  ASSUME CellInv, CloseWindow, DistinctAxes, ExtentsFitIsize
  PROVE  LoopsAreCovered'
<1>1. Accepted /\ SoundCall /\ LoopsAreCovered /\ call.op # "im2col" /\ call \in Calls
  BY DEF CloseWindow, Walking, Accepted, CellInv, CallInv
<1>2. /\ Product(OutShape) \in Nat /\ Product(call.kernel) \in Nat
      /\ lin \in Nat /\ lin < Product(OutShape)
      /\ acc = CoveredFrom(coord)
  BY <1>1, OutShapeIsShape DEF LoopsAreCovered, CloseWindow, Walking, CoveredFrom
<1>3. /\ call' = call /\ lin' = lin + 1 /\ out' = Append(out, Cell)
      /\ status' = status /\ status # "returned" /\ tap' = 0 /\ acc' = <<>>
  BY DEF CloseWindow, Walking
<1>4. CellIsCovered(Cell, coord)
  <2>1. CASE call.op = "avg_pool"
    <3>1. Cell = [terms |-> acc, divisor |-> Divisor]
      BY <2>1 DEF Cell
    <3>2. Cell.terms = acc /\ Cell.divisor = Divisor
      BY <3>1
    <3>3. Divisor = IF call.includePad THEN Product(call.kernel) ELSE Len(CoveredFrom(coord))
      BY <1>2 DEF Divisor
    <3> QED
      BY <1>2, <2>1, <3>2, <3>3 DEF CellIsCovered
  <2>2. CASE call.op = "max_pool"
    <3>1. Cell.terms = acc
      BY <2>2 DEF Cell
    <3> QED
      BY <1>2, <2>2, <3>1 DEF CellIsCovered
  <2> QED
    BY <1>1, <2>1, <2>2, CallFields
<1>5. /\ lin' \in 0..Product(OutShape)'
      /\ (\E S : out' \in Seq(S)) /\ Len(out') = lin'
      /\ \A n \in 1..lin' : CellIsCovered(out[n], Decode(n - 1, OutShape))'
  <2> DEFINE cell == Cell
  <2>1. CellIsCovered(cell, coord) /\ out' = Append(out, cell)
    BY <1>3, <1>4
  <2> HIDE DEF cell
  <2> QED
    BY <1>1, <1>2, <1>3, <2>1, CellAppended
<1>6. CoveredUpTo(coord)[0]' = <<>>
  <2>1. CoveredUpTo(coord')[0] = <<>>
    BY <1>1, CoveredRuns
  <2>2. CoveredUpTo(coord)[0]' = CoveredUpTo(coord')[0]
    BY <1>3, CallKept
  <2> QED
    BY <2>1, <2>2
<1>7. Product(call.kernel)' = Product(call.kernel)
  BY <1>3
<1> QED
  BY <1>2, <1>3, <1>5, <1>6, <1>7 DEF LoopsAreCovered

\* A cell of im2col is what its one tap covers.
LEMMA Im2colCovers ==
  ASSUME CellInv, Im2colStep, DistinctAxes, ExtentsFitIsize, Accepted'
  PROVE  LoopsAreCovered'
<1> DEFINE rank == Len(X.shape)
           at == SubSeq(coord, 1, rank)
           tapAt == SubSeq(coord, rank + 1, Len(coord))
           read == Tapped(at, tapAt)
           cell == [terms |-> read]
<1>1. Accepted /\ SoundCall /\ LoopsAreCovered /\ call.op = "im2col"
  BY DEF Im2colStep, Walking, Accepted, CellInv, CallInv
<1>2. Product(OutShape) \in Nat /\ lin \in Nat /\ lin < Product(OutShape)
  BY <1>1, OutShapeIsShape DEF LoopsAreCovered, Im2colStep, Walking
<1>3. Accumulates(read)
  BY DEF Im2colStep, Fail, Accepted
<1>4. /\ call' = call /\ lin' = lin + 1 /\ out' = Append(out, cell)
      /\ status' = status /\ status # "returned"
  BY <1>3 DEF Im2colStep, Walking
<1>5. read = Covered(at, tapAt)
  <2>1. \A i \in DOMAIN call.axes : /\ at[call.axes[i]] \in 0..(PooledExtent(i) - 1)
                                    /\ tapAt[i] \in 0..(call.kernel[i] - 1)
    BY <1>1, <1>2, Im2colPlaces DEF coord
  <2> HIDE DEF at, tapAt
  <2> QED
    BY <1>1, <2>1, TappedIsCovered DEF CellInv
<1>6. CellIsCovered(cell, coord)
  <2>1. cell.terms = Covered(at, tapAt)
    BY <1>5
  <2> HIDE DEF cell
  <2> QED
    BY <1>1, <2>1 DEF CellIsCovered
<1>7. /\ lin' \in 0..Product(OutShape)'
      /\ (\E S : out' \in Seq(S)) /\ Len(out') = lin'
      /\ \A n \in 1..lin' : CellIsCovered(out[n], Decode(n - 1, OutShape))'
  <2> HIDE DEF cell
  <2> QED
    BY <1>1, <1>2, <1>4, <1>6, CellAppended
<1> QED
  BY <1>1, <1>4, <1>7 DEF LoopsAreCovered

\* Every step keeps the invariant of the cells.
LEMMA CellInvStep ==
  ASSUME CellInv, [Next]_vars
  PROVE  CellInv'
<1>1. CallInv' /\ call' = call
  BY CallInvStep DEF CellInv
<1>2. (DistinctAxes' <=> DistinctAxes) /\ (ExtentsFitIsize' <=> ExtentsFitIsize)
  BY <1>1, CallKept
<1>3. status' = "called" => UNCHANGED vars
  BY DEF Next, vars, Decline, Begin, Refuse, OpenWindow, Tap, CloseWindow, Im2colStep,
         Return, Fail, Walking
<1>4. (status = "called" => lin = 0 /\ tap = 0 /\ acc = <<>> /\ out = <<>>)'
  BY <1>3 DEF CellInv, vars
<1>5. ASSUME Accepted', DistinctAxes, ExtentsFitIsize
      PROVE  LoopsAreCovered'
  <2>1. CASE Begin
    BY <1>5, <2>1, BeginCovers
  <2>2. CASE Tap
    BY <1>5, <2>2, TapCovers
  <2>3. CASE CloseWindow
    BY <1>5, <2>3, CloseCovers
  <2>4. CASE Im2colStep
    BY <1>5, <2>4, Im2colCovers
  <2>5. CASE Return \/ UNCHANGED vars
    <3>1. /\ Accepted /\ UNCHANGED <<call, lin, tap, acc, out>>
          /\ status' = "returned" => status = "returned" \/ lin = Product(OutShape)
      BY <1>5, <2>5 DEF Return, vars, Accepted
    <3>2. LoopsAreCovered
      BY <1>5, <3>1 DEF CellInv
    <3>3. /\ OutShape' = OutShape
          /\ \A at : CoveredUpTo(at)' = CoveredUpTo(at)
          /\ \A cell, at : CellIsCovered(cell, at)' <=> CellIsCovered(cell, at)
      BY <1>1, CallKept
    <3>4. coord' = coord
      BY <3>1, <3>3 DEF coord
    <3>5. CoveredUpTo(coord)' = CoveredUpTo(coord)
      BY <3>3, <3>4
    <3> QED
      BY <3>1, <3>2, <3>3, <3>4, <3>5 DEF LoopsAreCovered
  <2>6. CASE Decline \/ Refuse \/ OpenWindow
    BY <1>5, <2>6 DEF Decline, Refuse, OpenWindow, Fail, Accepted
  <2> QED
    BY <2>1, <2>2, <2>3, <2>4, <2>5, <2>6 DEF Next
<1> QED
  BY <1>1, <1>2, <1>4, <1>5 DEF CellInv

\* Every call that returns has written, in every cell, the elements its window covers in
\* the order of the taps, whatever the shape, the stride, the padding and the width of
\* usize, and an average is divided by the right number of them.
THEOREM CellsAlwaysCovered == Spec => []CellsAreCovered
<1>1. CellInv => CellsAreCovered
  <2> SUFFICES ASSUME CellInv, status = "returned", DistinctAxes, ExtentsFitIsize
               PROVE  /\ Len(out) = Product(OutShape)
                      /\ \A n \in DOMAIN out : CellIsCovered(out[n], Decode(n - 1, OutShape))
    BY DEF CellsAreCovered
  <2>1. LoopsAreCovered /\ lin = Product(OutShape)
    BY DEF CellInv, Accepted, LoopsAreCovered
  <2>2. DOMAIN out = 1..lin /\ Len(out) = lin
    BY <2>1 DEF LoopsAreCovered
  <2> QED
    BY <2>1, <2>2 DEF LoopsAreCovered
<1>2. Init => CellInv
  BY CellInvInit
<1>3. CellInv /\ [Next]_vars => CellInv'
  BY CellInvStep
<1> QED
  BY <1>1, <1>2, <1>3, PTL DEF Spec
=============================================================================
