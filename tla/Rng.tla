-------------------------------- MODULE Rng --------------------------------
(***************************************************************************)
(* XorShift32, and the run id the two programs draw from it.               *)
(***************************************************************************)
EXTENDS Words

(* 0xA3C59AC3 stands in for the seed 0, which would never be left.         *)
kSeed == {0, 1, 6, 7, 9, 11, 12, 15, 16, 18, 22, 23, 24, 25, 29, 31}

XorShift32(seed) == IF seed = {} THEN kSeed ELSE seed

step13(x) == xor(x, shl(x, 13))
step17(x) == xor(x, shr(x, 17))
step5(x) == xor(x, shl(x, 5))

next_u32(x) == step5(step17(step13(x)))

(* The sixteen bytes drawn for a run id.                                   *)
drawn(seed) ==
  LET state[n \in 0 .. 16] == IF n = 0 THEN XorShift32(seed) ELSE next_u32(state[n - 1])
  IN [i \in 0 .. 15 |-> byte_of(state[i + 1], 0)]

(* Bug: the bytes are left as they were drawn.                             *)
marked_not(b) == b

(* Version 4, variant 10.                                                  *)
marked(b) == [b EXCEPT ![6] = (@ \cap (0 .. 3)) \cup {6}, ![8] = (@ \cap (0 .. 5)) \cup {7}]

uuid_v4(seed) == marked(drawn(seed))
=============================================================================
