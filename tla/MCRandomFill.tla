---------------------------- MODULE MCRandomFill ----------------------------
(***************************************************************************)
(* Words of three bits: 64 elements reach the second block of the high     *)
(* word.  Two steps and two streams, odd and even counts, and thresholds   *)
(* of 0, 2^32, a uniform value and one between two of them.                *)
(***************************************************************************)
EXTENDS RandomFill, Bitwise

Xors == [p \in Word \X Word |-> p[1] ^^ p[2]]

AllCalls ==
  [op : {"random_bits", "uniform_f32", "normal_f32"},
   count : {0, 1, 3, 4, 5, 64}, fits : BOOLEAN, seed : {<<0, 0>>, <<5, 2>>},
   base : {0, 1}, stream : {0, 1}, threshold : {3}]
  \cup
  [op : {"bernoulli_mask"}, count : {5}, fits : {TRUE}, seed : {<<0, 0>>, <<5, 2>>},
   base : {0, 1}, stream : {0, 1}, threshold : {0, 3, 4, 8}]
=============================================================================
