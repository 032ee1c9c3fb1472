----------------------------- MODULE MCTensors ------------------------------
(***************************************************************************)
(* The calls over strided views, one at a time: the structural kernels     *)
(* (KernelSpec) on tensors of rank up to three (MaxRank) and of up to      *)
(* eight elements, empty, stretched and overflowing ones included; and     *)
(* the windows (Window) on one pooled axis with every small            *)
(* combination of parameters, two pooled axes, an axis listed twice, and   *)
(* extents around the limits of a five-bit usize (UsizeMax).               *)
(***************************************************************************)
EXTENDS Window

VARIABLES
  part,                             \* "window" or "kernel": the component that runs
  kcall, kstatus, kerror, klin, kout
windowVars == vars
kernelVars == <<kcall, kstatus, kerror, klin, kout>>

-----------------------------------------------------------------------------
\* The calls of the kernels.
Plain(shape) == Contiguous("x", shape)
Stretch(shape, target) == BroadcastTo(Plain(shape), target)
Named(name, v) == [v EXCEPT !.name = name]

\* Tensors as they are, seen through a broadcast, and seen as more elements than
\* can be counted: at once, or only when an axis of extent 0 is dropped.
Tensors ==
  {Plain(s) : s \in {<<>>, <<0>>, <<1>>, <<3>>, <<2, 2>>, <<2, 3>>, <<0, 2>>, <<2, 0>>,
                     <<2, 1, 2>>, <<2, 2, 2>>}}
Views ==
  Tensors \cup {Stretch(<<1>>, <<3>>), Stretch(<<>>, <<2, 2>>), Stretch(<<2>>, <<3, 2>>),
                Stretch(<<2, 1>>, <<2, 3>>), Stretch(<<1>>, <<4, 4>>),
                Stretch(<<0, 1, 1>>, <<0, 4, 4>>), Stretch(<<1, 1, 0>>, <<4, 4, 0>>)}

Targets == {<<>>, <<3>>, <<2, 3>>, <<2, 2>>, <<0, 2>>, <<4, 4>>, <<2, 1, 2>>, <<1, 1, 1, 1>>}

AllAxes == {1, 2, 3}
SomeAxes == {<<>>, <<1>>, <<2>>, <<3>>, <<1, 2>>, <<2, 1>>, <<1, 1>>, <<1, 3>>, <<3, 2, 1>>}

IndexOf(shape, value) == {[shape |-> shape, values |-> v] :
                            v \in [1..Product(shape) -> value]}
Indices == IndexOf(<<2>>, {-1, 0, 1, 3}) \cup IndexOf(<<0>>, {0}) \cup IndexOf(<<>>, {0, 2})
           \cup IndexOf(<<1, 2>>, {0, 2}) \cup IndexOf(<<1, 1, 1>>, {0})

MapCalls ==
  {[kernel |-> "map", xs |-> <<a>>, target |-> t] : a \in Views, t \in Targets}
  \cup {[kernel |-> "map", xs |-> <<a, Named("y", b)>>, target |-> t] : a, b \in Views, t \in Targets}
  \cup {[kernel |-> "map", xs |-> [k \in 1..5 |-> Plain(<<1>>)], target |-> <<1>>],
        [kernel |-> "map", xs |-> <<>>, target |-> <<1, 1, 1, 1>>]}
ReduceCalls == {[kernel |-> "reduce", x |-> x, axes |-> a] : x \in Views, a \in SomeAxes}
ScanCalls == {[kernel |-> "scan", x |-> x, axis |-> a, exclusive |-> e] :
                x \in Views, a \in AllAxes, e \in BOOLEAN}
FlipCalls == {[kernel |-> "flip", x |-> x, axis |-> a] : x \in Views, a \in AllAxes}

\* Keys: every assignment of two keys, of three to the short lines.
KeysOf(x) ==
  LET n == Product(x.shape)
  IN  IF n <= 3 THEN [1..n -> 1..3] ELSE IF n <= 4 THEN [1..n -> 1..2]
      ELSE {[i \in 1..n |-> 1 + ((i * k) % m)] : k \in {1, 2}, m \in {2, 3}}
SortCalls ==
  UNION {{[kernel |-> k, x |-> x, axis |-> a, descending |-> d, keys |-> key] :
            k \in {"sort", "argmax", "argmin"}, a \in AllAxes, d \in BOOLEAN, key \in KeysOf(x)} : x \in Views}

Bases == {Plain(<<>>), Plain(<<3>>), Plain(<<2, 2>>)}
GatherCalls ==
  {[kernel |-> "gather", x |-> x, axis |-> a, index |-> i, oob |-> o, hasBase |-> FALSE] :
     x \in Views, a \in AllAxes, i \in Indices, o \in {"clamp", "zero_fill", "skip"}}
  \cup {[kernel |-> "gather", x |-> x, axis |-> a, index |-> i, oob |-> "skip",
         hasBase |-> TRUE, base |-> Named("base", b)] :
          x \in Views, a \in AllAxes, i \in Indices, b \in Bases}

Dests == {<<>>, <<0>>, <<3>>, <<2, 2>>, <<2, 3>>, <<0, 4>>, <<2, 1, 2>>}
Updates == {Plain(<<>>), Plain(<<2>>), Plain(<<2, 2>>), Plain(<<2, 1>>), Plain(<<3>>)}
ScatterCalls ==
  {[kernel |-> "scatter", dest |-> d, x |-> u, axis |-> a, index |-> i, combine |-> c] :
     d \in Dests, u \in Updates, a \in AllAxes,
     i \in Indices \cup IndexOf(<<3>>, {0, 1}), c \in {"assign", "atomic_add"}}

Factors == Views \cup {Plain(<<3, 2>>), Plain(<<1, 2>>), Plain(<<2, 1>>), Plain(<<1, 2, 2>>),
                       Plain(<<3, 2, 1>>), Stretch(<<1>>, <<4, 1>>), Stretch(<<1>>, <<1, 4>>)}
MatmulCalls == {[kernel |-> "matmul", x |-> a, y |-> Named("y", b)] : a, b \in Factors}

\* Two inputs and more, one of them empty, or of an extent that overflows when added
\* to another where the count does not; and every set of axes up to one beyond the rank.
Inputs == Views \cup {Plain(<<2>>), Plain(<<2, 0>>), Stretch(<<0, 1>>, <<0, 5>>)}
ConcatCalls ==
  {[kernel |-> "concat", xs |-> <<a, Named("y", b)>>, axis |-> k] : a, b \in Inputs, k \in AllAxes}
  \cup {[kernel |-> "concat", xs |-> <<a, Named("y", b), Named("z", a)>>, axis |-> k] :
          a, b \in {Plain(<<>>), Plain(<<1>>), Plain(<<0>>), Plain(<<3>>), Plain(<<2, 1>>), Plain(<<2, 0>>),
                    Stretch(<<1>>, <<8>>)},
          k \in AllAxes}
  \cup {[kernel |-> "concat", xs |-> xs, axis |-> 1] :
          xs \in {<<>>, <<Plain(<<1>>)>>, [k \in 1..4 |-> Plain(<<1>>)]}}
ReshapeCalls ==
  {[kernel |-> k, x |-> x, mask |-> m] :
     k \in {"squeeze", "unsqueeze"}, m \in SUBSET (1..4),
     x \in Views \cup {Plain(<<1, 1>>), Plain(<<1, 3>>), Plain(<<2, 1>>), Plain(<<0, 1>>),
                       Stretch(<<1, 1>>, <<3, 1>>), Plain(<<1, 2, 1>>)}}

KernelCalls == MapCalls \cup ReduceCalls \cup ScanCalls \cup FlipCalls \cup SortCalls
               \cup GatherCalls \cup ScatterCalls \cup MatmulCalls
               \cup ConcatCalls \cup ReshapeCalls

K == INSTANCE KernelSpec WITH
       call <- kcall, status <- kstatus, error <- kerror, lin <- klin, out <- kout,
       UsizeMax <- 8, MaxOperands <- 4, Calls <- KernelCalls

KernelRests ==
  /\ kcall = [kernel |-> "reduce", x |-> Plain(<<1>>), axes |-> <<1>>]
  /\ kstatus = "called" /\ kerror = "none" /\ klin = 0 /\ kout = <<>>

-----------------------------------------------------------------------------
\* The calls of the windows.
Line(n) == Contiguous("x", <<n>>)
Stretched1(n) == BroadcastTo(Contiguous("x", <<1>>), <<n>>)
Ops == {"avg_pool", "max_pool", "im2col"}

CallOf(op, x, axes, kernel, stride, padding, dilation, includePad) ==
  [op |-> op, x |-> x, axes |-> axes, kernel |-> kernel, stride |-> stride,
   padding |-> padding, dilation |-> dilation, includePad |-> includePad]

\* One axis: dilated and padded windows, wider and narrower than the input.
LineCalls ==
  {CallOf(op, Line(n), <<1>>, <<k>>, <<s>>, <<p>>, <<d>>, i) :
     op \in Ops, n \in {0, 1, 3, 5}, k \in 0..3, s \in 0..3, p \in {0, 1, 3}, d \in 0..2,
     i \in {FALSE}}
  \cup {CallOf("avg_pool", Line(n), <<1>>, <<k>>, <<s>>, <<p>>, <<d>>, TRUE) :
          n \in {1, 4}, k \in 1..3, s \in 1..2, p \in 0..2, d \in 1..2}

\* The limits of usize (31) and isize (15): padding that overflows when doubled,
\* strides, dilations and extents whose products wrap.
LimitCalls ==
  {CallOf("max_pool", x, <<1>>, <<k>>, <<s>>, <<p>>, <<d>>, FALSE) :
     x \in {Line(2), Stretched1(13), Stretched1(15)},
     k \in {1, 2, 5}, s \in {7, 16, 31}, p \in {0, 8, 14, 15, 16, 31}, d \in {1, 7, 16, 30, 31}}

Grid == {Contiguous("x", <<2, 3>>), BroadcastTo(Contiguous("x", <<3>>), <<2, 3>>),
         BroadcastTo(Contiguous("x", <<2, 1>>), <<2, 3>>), Contiguous("x", <<0, 3>>)}
GridCalls ==
  {CallOf(op, x, a, k, s, p, <<1, 1>>, i) :
     op \in {"avg_pool", "max_pool"}, x \in Grid, a \in {<<1, 2>>, <<2, 1>>, <<2, 2>>},
     k \in {<<2, 2>>, <<1, 3>>}, s \in {<<1, 1>>, <<2, 1>>}, p \in {<<0, 0>>, <<1, 1>>, <<0, 2>>},
     i \in BOOLEAN}
  \cup {CallOf(op, x, <<a>>, <<2>>, <<1>>, <<1>>, <<1>>, FALSE) :
          op \in Ops, x \in Grid, a \in 1..3}

OddCalls ==
  {CallOf("max_pool", Line(3), <<1>>, k, s, p, d, FALSE) :
     k, s, p, d \in {<<>>, <<1>>, <<2, 1>>}}
  \cup {CallOf(op, Contiguous("x", <<2, 2>>), a, k, <<1, 1>>, <<3, 3>>, <<1, 1>>, FALSE) :
          op \in Ops, a \in {<<1, 2>>, <<3, 1>>}, k \in {<<6, 6>>, <<8, 8>>}}
  \cup {CallOf(op, Line(2), <<1, 1, 1, 1>>, <<1, 1, 1, 2>>, <<1, 1, 1, 1>>,
               <<0, 0, 0, 0>>, <<1, 1, 1, 1>>, FALSE) : op \in Ops}
  \cup {CallOf(op, Line(3), <<>>, <<>>, <<>>, <<>>, <<>>, FALSE) : op \in Ops}

\* A broadcast to more elements than isize can count.
WideCalls ==
  {CallOf("max_pool", Stretched1(n), <<1>>, <<1>>, <<s>>, <<0>>, <<1>>, FALSE) :
     n \in {15, 16, 20}, s \in 5..20}

WindowCalls == LineCalls \cup LimitCalls \cup GridCalls \cup OddCalls \cup WideCalls
MCCalls == WindowCalls

WindowRests ==
  /\ call = CallOf("max_pool", Line(3), <<1>>, <<1>>, <<1>>, <<0>>, <<1>>, FALSE)
  /\ status = "called" /\ error = "none"
  /\ lin = 0 /\ tap = 0 /\ acc = <<>> /\ out = <<>>

-----------------------------------------------------------------------------
TensorsInit ==
  \/ part = "kernel" /\ K!Init /\ WindowRests
  \/ part = "window" /\ Init /\ KernelRests

TensorsNext ==
  /\ UNCHANGED part
  /\ \/ part = "kernel" /\ K!Next /\ UNCHANGED windowVars
     \/ part = "window" /\ Next /\ UNCHANGED kernelVars

TensorsSpec == TensorsInit /\ [][TensorsNext]_<<part, windowVars, kernelVars>>

-----------------------------------------------------------------------------
\* A returned kernel call holds in every cell what the cell's coordinates ask for: the
\* strides, the odometer and the linear positions of tensor.rs agree with coordinates.
ResultIsSpec == K!ResultIsSpec

\* Every call, of a kernel or a window, that is declined is declined for a reason of its
\* own, and no read or write inside a loop ever misses a buffer.
FaultsAreNamed == DeclinesNameTheFault /\ K!DeclinesNameTheFault

\* "The number of elements folded away by reducing shape over axes" (tensor_ops.rs), the
\* divisor of a mean.
ReducedCountIsFolded == K!ReducedCountIsFolded
=============================================================================
