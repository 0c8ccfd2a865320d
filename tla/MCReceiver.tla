------------------------------ MODULE MCReceiver ------------------------------
(* Two generations of a sender with N = 2, K = 1 and, for g2, frames of    *)
(* another size and an empty one; g3 is only ever seen in an empty frame.  *)
EXTENDS Receiver

CONSTANTS g1, g2, g3, oA, oB

MCGens == {g1, g2, g3}
MCOrigins == {oA, oB}

frame(g, o, p, l) ==
  [gen |-> g, seq |-> p, n |-> 2, k |-> 1, pidx |-> 0,
   pay |-> [origin |-> o, pos |-> p, len |-> l]]

MCFrames == {frame(g1, oA, p, 1) : p \in 0 .. 2}
            \cup {frame(g2, oA, p, 1) : p \in {0, 2}}
            \cup {frame(g2, oB, 1, 2), frame(g3, oB, 0, 0)}
=============================================================================
