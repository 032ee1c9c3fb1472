------------------------------ MODULE MCFloats ------------------------------
(***************************************************************************)
(* The float lanes with fewer bits, one component at a time: conversions   *)
(* and arithmetic of the narrow types (NarrowSpec), folds in a wider dtype *)
(* (Accumulate) and the complex lane (Complex).  They share nothing;       *)
(* `part` names the one that runs, the others rest.                        *)
(***************************************************************************)
EXTENDS Accumulate, Complex

VARIABLES
  part,                                       \* "narrow", "arith", "brain", "fold" or "complex"
  format, narrowOp, x, y, narrowResult        \* of NarrowSpec
narrowVars == <<format, narrowOp, x, y, narrowResult>>
foldVars == vars

Float(e, m, b, inf, nan, pin) ==
  [kind |-> "float", exp |-> e, man |-> m, bias |-> b, hasInf |-> inf, nan |-> nan, pinned |-> pin]
Fields(e, m) == [neg |-> FALSE, e |-> e, m |-> m]
Minus(p) == [p EXCEPT !.neg = TRUE]

-----------------------------------------------------------------------------
\* Conversions: f64 with eight mantissa bits, f32 with six, and under it an f16, a bf16
\* with the exponents of f32, an e5m2 with those of f16, and an e4m3 with one NaN.
Converted ==
  {Float(3, 4, 3, TRUE, "ieee", FALSE), Float(4, 2, 7, TRUE, "ieee", FALSE),
   Float(3, 2, 3, TRUE, "ieee", TRUE), Float(3, 3, 3, FALSE, "all_ones", TRUE)}

N == INSTANCE NarrowSpec WITH
       MantBits <- 26, MaxExp <- 6, FarShift <- 20, QuotientBits <- 12,
       F64 <- Float(5, 8, 15, TRUE, "ieee", FALSE), F32 <- Float(4, 6, 7, TRUE, "ieee", FALSE),
       Narrows <- Converted, Operations <- {}, Conversions <- TRUE,
       op <- narrowOp, result <- narrowResult

\* Arithmetic: narrow types of three significant bits whose range is wider than the eight
\* of f32, as f16's is wider than 24; then a bf16, whose exponents are those of f32.
ArithOps == {"add", "sub", "mul", "div"}
WideF64 == Float(6, 9, 31, TRUE, "ieee", FALSE)
Half == Float(4, 2, 7, TRUE, "ieee", FALSE)
Computed ==
  {Half, Float(3, 2, 3, FALSE, "all_ones", TRUE), Float(4, 1, 7, TRUE, "ieee", TRUE)}

A == INSTANCE NarrowSpec WITH
       MantBits <- 28, MaxExp <- 6, FarShift <- 20, QuotientBits <- 12,
       F64 <- WideF64, F32 <- Float(5, 7, 15, TRUE, "ieee", FALSE),
       Narrows <- Computed, Operations <- ArithOps, Conversions <- FALSE,
       op <- narrowOp, result <- narrowResult
B == INSTANCE NarrowSpec WITH
       MantBits <- 28, MaxExp <- 6, FarShift <- 20, QuotientBits <- 12,
       F64 <- WideF64, F32 <- Float(4, 7, 7, TRUE, "ieee", FALSE),
       Narrows <- {Half}, Operations <- ArithOps, Conversions <- FALSE,
       op <- narrowOp, result <- narrowResult

NarrowRests ==
  /\ format = Half /\ x = Fields(0, 0) /\ y = Fields(0, 0)
  /\ narrowOp = "called" /\ narrowResult = Fields(0, 0)

-----------------------------------------------------------------------------
\* Folds: the six lanes, in the order of widths they have (bf16 has the exponents of f32,
\* e5m2 those of f16, and neither of f16 and bf16 holds the other); and dtypes that are no
\* lane.  Lines of three elements from the least values to the largest.
LaneF64 == Float(5, 7, 15, TRUE, "ieee", FALSE)
LaneF32 == Float(4, 6, 7, TRUE, "ieee", FALSE)
AllLanes ==
  {LaneF64, LaneF32, Float(3, 4, 3, TRUE, "ieee", FALSE), Float(4, 3, 7, TRUE, "ieee", FALSE),
   Float(3, 2, 3, TRUE, "ieee", TRUE), Float(2, 3, 1, FALSE, "all_ones", TRUE)}
OtherDtypes == {[kind |-> "int"], [kind |-> "reserved"], Float(2, 1, 1, FALSE, "absent", TRUE)}

\* Zero, the least, a one with its last bit, the largest, and a negative between.
Largest(f) ==
  IF f.hasInf THEN Fields(2^f.exp - 2, 2^f.man - 1) ELSE Fields(2^f.exp - 1, 2^f.man - 2)
Picked(f) ==
  {Minus(Fields(0, 0)), Fields(0, 1), Fields(f.bias, 1), Largest(f), Minus(Fields(f.bias, 2))}
PickedLines(f) ==
  {<<>>} \cup {<<a, b, c>> : a \in Picked(f), b \in Picked(f),
                           c \in {Fields(0, 1), Largest(f), Minus(Fields(f.bias, 2))}}
PickedFactors(f) == <<Fields(f.bias, 0), Fields(f.bias, 1), Minus(Fields(f.bias, 0))>>

FoldRests ==
  /\ request = <<>> /\ status = "called" /\ error = "none" /\ acc = Fields(0, 0)
  /\ next = 0 /\ out = <<>>

-----------------------------------------------------------------------------
\* Complex: a lane of two significant bits whose squares underflow and overflow.  The left
\* operand has any real part; the other lanes are zeros, the least value, ones, the largest,
\* infinities or a NaN.
ComplexLane == Float(3, 1, 3, TRUE, "ieee", FALSE)
Signed(S) == S \cup {Minus(p) : p \in S}
Edges == Signed({Fields(0, 0), Fields(3, 0), Fields(7, 0)})
           \cup {Fields(0, 1), Fields(6, 1), Fields(7, 1)}
LanePatterns == [neg : BOOLEAN, e : 0..7, m : 0..1]
Plane(S, T) == [re : S, im : T]

\* What the library functions return: a half, two, three and infinity, of either sign.
External(c, s, up, down) ==
  [cos |-> c, sin |-> s, above |-> up, below |-> down, log |-> Fields(2, 0), angle |-> Fields(2, 0)]
SomeExternals ==
  {External(Fields(2, 0), Fields(2, 0), Fields(4, 1), Fields(0, 0)),
   External(Minus(Fields(2, 0)), Fields(2, 0), Fields(7, 0), Fields(2, 0)),
   External(Fields(2, 0), Minus(Fields(2, 0)), Fields(4, 0), Fields(2, 0))}

Angle == Fields(4, 1)
LeftOperands == Plane(LanePatterns, Edges)
RightOperands == Plane(Edges, Edges)

ComplexRests == op = "called" /\ args = <<>> /\ ext = <<>> /\ result = NoResult

-----------------------------------------------------------------------------
FloatsInit ==
  \/ part = "narrow" /\ N!Init /\ FoldRests /\ ComplexRests
  \/ part = "arith" /\ A!Init /\ FoldRests /\ ComplexRests
  \/ part = "brain" /\ B!Init /\ FoldRests /\ ComplexRests
  \/ part = "fold" /\ Init /\ NarrowRests /\ ComplexRests
  \/ part = "complex" /\ ComplexInit /\ NarrowRests /\ FoldRests

FloatsNext ==
  /\ UNCHANGED part
  /\ \/ part = "narrow" /\ N!Next /\ UNCHANGED <<foldVars, complexVars>>
     \/ part = "arith" /\ A!Next /\ UNCHANGED <<foldVars, complexVars>>
     \/ part = "brain" /\ B!Next /\ UNCHANGED <<foldVars, complexVars>>
     \/ part = "fold" /\ Next /\ UNCHANGED <<narrowVars, complexVars>>
     \/ part = "complex" /\ ComplexNext /\ UNCHANGED <<narrowVars, foldVars>>

FloatsSpec ==
  FloatsInit /\ [][FloatsNext]_<<part, narrowVars, foldVars, complexVars>>

-----------------------------------------------------------------------------
\* An f64 narrowed through f32 rounded to odd, and a sum, difference, product or quotient
\* of two narrow values rounded to f32 and again (scalar.rs), are the exact value rounded
\* once, to even, at ties, among subnormals and at overflow.
RoundsOnce ==
  /\ part = "narrow" => N!NarrowsInOneRounding
  /\ part = "arith" => A!ArithRoundsOnce
  /\ part = "brain" => B!ArithRoundsOnce
=============================================================================
