--------------------------- MODULE TwosComplement ---------------------------
(***************************************************************************)
(* Two's complement at a width, and powers of two.  A width is a record:   *)
(* half = 2^(bits-1), the weight of its top bit; and signed.               *)
(***************************************************************************)
EXTENDS Integers

\* 1 << k, by its recursion, which a proof can unfold.
Power[k \in Nat] == IF k = 0 THEN 1 ELSE 2 * Power[k - 1]

Size(d) == 2 * d.half

\* wrap: keep the low bits, and sign-extend if the dtype is signed.
Wrap(v, d) ==
  LET m == v % Size(d)
  IN  IF d.signed /\ m >= d.half THEN m - Size(d) ELSE m

\* pattern: the low bits as an unsigned number.
Pattern(v, d) == v % Size(d)

\* The least and the greatest value: the identities of max and min.
Lowest(d) == IF d.signed THEN -d.half ELSE 0
Highest(d) == IF d.signed THEN d.half - 1 ELSE Size(d) - 1
InRange(v, d) == v \in Lowest(d)..Highest(d)
=============================================================================
