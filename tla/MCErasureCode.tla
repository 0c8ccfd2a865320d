---------------------------- MODULE MCErasureCode ----------------------------
(* Blocks of the shapes MCShapes.  Of the first six frames any may be      *)
(* lost; of a larger block up to four, the first of them frame 0: shifting *)
(* all lost positions by one multiplies row j of the system by alpha^j and *)
(* makes it neither more nor less solvable.                                *)
EXTENDS ErasureCode

(* <<N, K>>; with K = 4, N = 22 is the first that has unsolvable losses.   *)
MCShapes == {<<1, 1>>, <<3, 1>>, <<4, 2>>, <<5, 3>>, <<3, 4>>, <<21, 4>>, <<22, 4>>}

bits(n) == {k \in Bit : (n \div 2 ^ k) % 2 = 1}

(* The first bytes that fec_sender's make_payload makes of "ltfec hello".  *)
MCColumn(n, k) ==
  [N |-> n, K |-> k, data |-> [i \in 0 .. n - 1 |-> gf_add(bits(108), bits((17 * i) % 256))]]

MCColumns == {MCColumn(s[1], s[2]) : s \in MCShapes}

Largest == CHOOSE n \in {s[1] : s \in MCShapes} : \A s \in MCShapes : s[1] <= n

MCLosses ==
  SUBSET (0 .. 5) \cup {{0, p, q, r} : p, q, r \in 0 .. Largest - 1}
=============================================================================
