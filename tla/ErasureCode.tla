----------------------------- MODULE ErasureCode -----------------------------
(***************************************************************************)
(* The two erasure codes at work on one byte column of a block: FecEncoder *)
(* computes the parity bytes, some data and parity frames are lost, and    *)
(* extract_closed has block_xor_recover_one or                             *)
(* gf256_recover_erasures_vandermonde fill the holes.  The columns of a    *)
(* payload do not interact, and the matrix to invert is the same for all.  *)
(***************************************************************************)
EXTENDS Gf256

CONSTANTS Columns,   \* [N, K, data]: the byte each of the N payloads has there
          Losses     \* sets of data frames that may be lost together

ASSUME ColumnsAssumption ==
  \A c \in Columns : /\ c.N \in Nat \ {0} /\ c.K \in Nat \ {0}
                     /\ c.data \in [0 .. c.N - 1 -> Byte]

VARIABLES blk,       \* the column, as the sender has it
          pc,        \* "encode", "travel", "xor", "solve", "done" or "left"
          row, frame,\* loop counters: parity row, data frame
          parity,    \* the parity bytes
          lost, got, \* data frames lost, parity frames that arrived
          rec,       \* out_recovered of the XOR path
          A, rhs,    \* the linear system, rows and columns from 0
          col,       \* the next column to eliminate
          out        \* the bytes recovered

vars == <<blk, pc, row, frame, parity, lost, got, rec, A, rhs, col, out>>

Data == 0 .. blk.N - 1
Rows == 0 .. blk.K - 1

Init == /\ blk \in Columns
        /\ pc = "encode" /\ row = 0 /\ frame = 0
        /\ parity = [r \in Rows |-> {}]
        /\ lost = {} /\ got = {} /\ rec = {}
        /\ A = <<>> /\ rhs = <<>> /\ col = 0 /\ out = <<>>

-----------------------------------------------------------------------------
(* FecEncoder::encode.                                                     *)

pick_scheme(k) == IF k \in 2 .. 4 THEN "gf256" ELSE "xor"

(* One frame goes into the XOR parity.                                     *)
EncodeXor ==
  /\ pc = "encode" /\ pick_scheme(blk.K) = "xor" /\ frame < blk.N
  /\ parity' = [parity EXCEPT ![0] = gf_add(@, blk.data[frame])]
  /\ frame' = frame + 1
  /\ UNCHANGED <<blk, pc, row, lost, got, rec, A, rhs, col, out>>

(* Bug: one row too many.                                                  *)
EncodeGf256_one_more ==
  /\ pc = "encode" /\ pick_scheme(blk.K) = "gf256" /\ row <= blk.K
  /\ parity' = [parity EXCEPT ![row] = gf_add(@, gf_mul(gf_pow_alpha(row * frame), blk.data[frame]))]
  /\ IF frame + 1 < blk.N THEN frame' = frame + 1 /\ row' = row ELSE frame' = 0 /\ row' = row + 1
  /\ UNCHANGED <<blk, pc, lost, got, rec, A, rhs, col, out>>

(* One frame goes into parity row `row'.                                   *)
EncodeGf256 ==
  /\ pc = "encode" /\ pick_scheme(blk.K) = "gf256" /\ row < blk.K
  /\ parity' = [parity EXCEPT ![row] = gf_add(@, gf_mul(gf_pow_alpha(row * frame), blk.data[frame]))]
  /\ IF frame + 1 < blk.N THEN frame' = frame + 1 /\ row' = row ELSE frame' = 0 /\ row' = row + 1
  /\ UNCHANGED <<blk, pc, lost, got, rec, A, rhs, col, out>>

EncodeEnd ==
  /\ pc = "encode"
  /\ IF pick_scheme(blk.K) = "xor" THEN frame = blk.N ELSE row = blk.K
  /\ pc' = "travel"
  /\ UNCHANGED <<blk, row, frame, parity, lost, got, rec, A, rhs, col, out>>

-----------------------------------------------------------------------------
(* The k-th element of a set of numbers, counted from 0.                   *)
nth(S, k) == CHOOSE s \in S : Cardinality({t \in S : t < s}) = k

m == Cardinality(lost)
coef(r, i) == gf_pow_alpha(r * i)

(* Bug: the right-hand side is the bare parity byte.                       *)
right_hand_side_bare(r) == parity[r]

(* What row r says of the lost bytes: known data is taken off its parity.  *)
right_hand_side(r) ==
  gf_add(parity[r], xor_sum(Data \ lost', [i \in Data |-> gf_mul(coef(r, i), blk.data[i])]))

(* Bug: one row more than there are holes is asked for.                    *)
gf256_applies_beyond(L, P) ==
  /\ blk.K >= 2 /\ L # {} /\ Cardinality(L) <= blk.K
  /\ Cardinality(L) <= 4 /\ Cardinality(P) > Cardinality(L)

gf256_applies(L, P) ==
  /\ blk.K >= 2 /\ L # {} /\ Cardinality(L) <= blk.K
  /\ Cardinality(L) <= 4 /\ Cardinality(P) >= Cardinality(L)

xor_applies(L, P) == blk.K = 1 /\ Cardinality(L) = 1 /\ 0 \in P

(* The frames L and all parity frames but P are lost; extract_closed picks *)
(* a decoder, which prepares its work.                                     *)
Travel(L, P) ==
  /\ lost' = L /\ got' = P
  /\ \/ /\ xor_applies(L, P)
        /\ pc' = "xor" /\ rec' = parity[0] /\ frame' = 0
        /\ UNCHANGED <<A, rhs>>
     \/ /\ gf256_applies(L, P)
        /\ pc' = "solve"
        /\ A' = [r \in 0 .. m' - 1 |-> [c \in 0 .. m' - 1 |-> coef(nth(P, r), nth(L, c))]]
        /\ rhs' = [r \in 0 .. m' - 1 |-> right_hand_side(nth(P, r))]
        /\ UNCHANGED <<rec, frame>>
     \/ /\ ~xor_applies(L, P) /\ ~gf256_applies(L, P)
        /\ pc' = "left"
        /\ UNCHANGED <<rec, frame, A, rhs>>
  /\ UNCHANGED <<blk, row, parity, col, out>>

-----------------------------------------------------------------------------
(* block_xor_recover_one: the parity byte, less every byte that is there.  *)

XorFrame ==
  /\ pc = "xor" /\ frame < blk.N
  /\ rec' = IF frame \in lost THEN rec ELSE gf_add(rec, blk.data[frame])
  /\ frame' = frame + 1
  /\ UNCHANGED <<blk, pc, row, parity, lost, got, A, rhs, col, out>>

XorEnd ==
  /\ pc = "xor" /\ frame = blk.N
  /\ out' = [i \in lost |-> rec]
  /\ pc' = "done"
  /\ UNCHANGED <<blk, row, frame, parity, lost, got, rec, A, rhs, col>>

-----------------------------------------------------------------------------
(* solve_gf256: Gauss-Jordan, one column of the system per step.           *)

pivots == {r \in col .. m - 1 : A[r][col] # {}}

(* The row that the exchange of rows col and p brings to r.                *)
from(r, p) == IF r = col THEN p ELSE IF r = p THEN col ELSE r

scaled(p, w) == gf_mul(w, gf_inv(A[p][col]))

(* Bug: only the rows below the pivot are cleared.                         *)
eliminated_below(r, p, v, w) ==
  IF r = p THEN scaled(p, v)
  ELSE IF r < col THEN v ELSE gf_add(v, gf_mul(A[r][col], scaled(p, w)))

(* Row r has v where the pivot row p has w.                                *)
eliminated(r, p, v, w) ==
  IF r = p THEN scaled(p, v) ELSE gf_add(v, gf_mul(A[r][col], scaled(p, w)))

SolveColumn ==
  /\ pc = "solve" /\ col < m /\ pivots # {}
  /\ LET p == nth(pivots, 0)
     IN /\ A' = [r \in 0 .. m - 1 |-> [k \in 0 .. m - 1 |->
                   IF k < col THEN A[r][k]
                   ELSE eliminated(from(r, p), p, A[from(r, p)][k], A[p][k])]]
        /\ rhs' = [r \in 0 .. m - 1 |-> eliminated(from(r, p), p, rhs[from(r, p)], rhs[p])]
  /\ col' = col + 1
  /\ UNCHANGED <<blk, pc, row, frame, parity, lost, got, rec, out>>

(* No pivot: the system is singular and the holes stay.                    *)
SolveFails ==
  /\ pc = "solve" /\ col < m /\ pivots = {}
  /\ pc' = "left"
  /\ UNCHANGED <<blk, row, frame, parity, lost, got, rec, A, rhs, col, out>>

SolveEnd ==
  /\ pc = "solve" /\ col = m
  /\ out' = [i \in lost |-> rhs[Cardinality({l \in lost : l < i})]]
  /\ pc' = "done"
  /\ UNCHANGED <<blk, row, frame, parity, lost, got, rec, A, rhs, col>>

Encode == EncodeXor \/ EncodeGf256 \/ EncodeEnd
Recover == XorFrame \/ XorEnd \/ SolveColumn \/ SolveFails \/ SolveEnd

Next == \/ Encode
        \/ pc = "travel" /\ \E L \in Losses, P \in SUBSET Rows : L \subseteq Data /\ Travel(L, P)
        \/ Recover

Spec == Init /\ [][Next]_vars

-----------------------------------------------------------------------------
ECTypeOK ==
  /\ blk \in Columns
  /\ pc \in {"encode", "travel", "xor", "solve", "done", "left"}
  /\ row \in 0 .. blk.K /\ frame \in 0 .. blk.N
  /\ parity \in [Rows -> Byte] /\ rec \in Byte
  /\ lost \subseteq Data /\ got \subseteq Rows
  /\ pc \in {"solve", "done"} /\ blk.K > 1 => rhs \in [0 .. m - 1 -> Byte]
  /\ col \in 0 .. m

(* What recovery writes into a hole is what the sender had there: encoder  *)
(* and decoder agree on the coefficients, the rows and the order of the    *)
(* unknowns, whichever frames are lost.                                    *)
RecoveredIsOriginal == pc = "done" => \A i \in lost : out[i] = blk.data[i]

(* No step of the elimination loses the solution: the bytes that were sent *)
(* satisfy every row of the system from set-up to the end.                 *)
SystemHoldsForSent ==
  pc = "solve" =>
    \A r \in 0 .. m - 1 :
      xor_sum(0 .. m - 1, [c \in 0 .. m - 1 |-> gf_mul(A[r][c], blk.data[nth(lost, c)])]) = rhs[r]

(* Recovery gives up only where the code must: a system with a row for     *)
(* every hole is always solved.                                            *)
EnoughRowsSuffice == pc = "left" /\ lost # {} => Cardinality(got) < Cardinality(lost)

(* What defeats elimination although there are rows enough is a parity     *)
(* frame lost between the rows that are used, with K = 4 and N > 21.       *)
OnlyGapsDefeat ==
  pc = "left" /\ lost # {} /\ Cardinality(got) >= Cardinality(lost) =>
    blk.K = 4 /\ blk.N > 21 /\ nth(got, m - 1) - nth(got, 0) > m - 1
=============================================================================
