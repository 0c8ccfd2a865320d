---------------------------- MODULE MCRxDelivery ----------------------------
(***************************************************************************)
(* Two honest generations: g1 is 2 + 1 (XOR), g2 is 2 + 2 (GF(256)).  The  *)
(* id g3 is shared by two senders that disagree about everything a header  *)
(* announces: the size of the block, its parity count and the payload      *)
(* length.  Some indices lie outside the block, some payloads are refused. *)
(***************************************************************************)
EXTENDS RxDelivery, TLC

CONSTANTS g1, g2, g3, o1, o2, oA, oB

MCHonest == {g1, g2}
MCOrigins == {o1, o2, oA, oB}
MCOriginOf == (g1 :> o1) @@ (g2 :> o2)
MCTxN == (g1 :> 2) @@ (g2 :> 2)
MCTxK == (g1 :> 1) @@ (g2 :> 2)
MCTxLen == (g1 :> 1) @@ (g2 :> 2)

shared(o, seq, n, k, j, pos, l) ==
  [gen |-> g3, seq |-> seq, n |-> n, k |-> k, pidx |-> j,
   pay |-> [origin |-> o, pos |-> pos, len |-> l]]

(* Sender A: N = 3, K = 2.  Sender B: N = 2, K = 1, the same length; A's   *)
(* last data frame and second parity frame find no slot in B's block.  The *)
(* last three are empty, over the limit, and of another length.            *)
MCFrames ==
  UNION {{assemble_block(MCOriginOf[g], g, MCTxN[g], MCTxK[g], MCTxLen[g])[p] :
            p \in 0 .. MCTxN[g] + MCTxK[g] - 1} : g \in MCHonest}
  \cup {shared(oA, 2, 3, 2, 0, 2, 1), shared(oA, 4, 3, 2, 1, 4, 1)}
  \cup {shared(oB, 1, 2, 1, 0, 1, 1), shared(oB, 2, 2, 1, 0, 2, 1)}
  \cup {shared(oB, 0, 2, 1, 0, 0, 0), shared(oB, 0, 2, 1, 0, 0, 3), shared(oB, 0, 2, 1, 0, 0, 2)}

(* The systems the real solver fails on need 22 data frames; this one     *)
(* stands for them in g3's block, so that its recovery can fail.  No block *)
(* of g1 or g2 has a frame 2.                                              *)
MCSingular == {<<{0, 1}, {0, 2}>>}
=============================================================================
