------------------------------- MODULE MCCast -------------------------------
(***************************************************************************)
(* Model-checking instance of CastSpec.  f4, f6a, f6b and e4m3 are the     *)
(* real formats f4e2m1, f6e2m3, f6e3m2 and f8e4m3fn; half, wide, e3m2 and  *)
(* e3m2fn stand for f16, f32, f8e5m2 and f8e4m3fn with fewer bits.  The    *)
(* integers are i4, u4 and b1 and, for the wider ones, six bits; bool.     *)
(***************************************************************************)
EXTENDS CastSpec

Float(e, m, b, inf, nan, pin) ==
  [kind |-> "float", exp |-> e, man |-> m, bias |-> b, hasInf |-> inf, nan |-> nan, pinned |-> pin]
Whole(half, signed) == [kind |-> "int", half |-> half, signed |-> signed]
Kind(k) == [kind |-> k]

f4 == Float(2, 1, 1, FALSE, "absent", TRUE)
f6a == Float(2, 3, 1, FALSE, "absent", TRUE)
f6b == Float(3, 2, 3, FALSE, "absent", TRUE)
e4m3 == Float(4, 3, 7, FALSE, "all_ones", TRUE)
e3m2 == Float(3, 2, 3, TRUE, "ieee", TRUE)
e3m2fn == Float(3, 2, 3, FALSE, "all_ones", TRUE)
half == Float(3, 3, 3, TRUE, "ieee", FALSE)
wide == Float(4, 4, 8, TRUE, "ieee", FALSE)

AllFloats == {f4, f6a, f6b, e4m3, e3m2, e3m2fn, half, wide}
AllInts == {Whole(8, TRUE), Whole(8, FALSE), Whole(1, FALSE), Whole(32, TRUE), Whole(32, FALSE)}
Others == {Kind("complex"), Kind("reserved")}

AllSources == AllFloats \cup AllInts \cup {Kind("bool")}

\* The pattern after p, in the order of the fields.
After(p, d) ==
  IF ~IsFloat(d) THEN IF p + 1 \in Patterns(d) THEN p + 1 ELSE 0
  ELSE IF p.m < AllOnes(d.man) THEN [p EXCEPT !.m = p.m + 1]
  ELSE [p EXCEPT !.m = 0, !.e = IF p.e < AllOnes(d.exp) THEN p.e + 1 ELSE 0]

\* Every pattern of a dtype and its neighbours, five at a time.
Five(p, d) ==
  LET q == After(p, d)
      r == After(q, d)
      s == After(r, d)
  IN  <<p, q, r, s, After(s, d)>>
Starts(d) == {p \in Patterns(d) : (IF IsFloat(d) THEN p.m ELSE p) % 4 = 0}

MCInputs ==
  [d \in AllSources \cup Others |->
     IF d \in Others THEN {<<>>} ELSE {Five(p, d) : p \in Starts(d)}]

\* Every dtype to every dtype in every mode, where one is not declined; and requests
\* declined without a look at a value.
AllRequests ==
  [src : AllSources, dst : AllFloats \cup AllInts, rounding : Roundings, saturation : Saturations]
Pinned(t) == IsFloat(t) /\ t.pinned
Legal(q) == Pinned(q.dst) => q.rounding = "nearest_even" /\ q.saturation = "clamp"
Refused ==
  [src : {Whole(1, FALSE)} \cup Others, dst : AllFloats \cup Others \cup {Kind("bool")},
   rounding : Roundings, saturation : Saturations]
MCRequests == {q \in AllRequests : Legal(q)} \cup Refused
=============================================================================
