------------------------------- MODULE RxBlock -------------------------------
(***************************************************************************)
(* One generation under reassembly: class RxBlock with the BlockState and  *)
(* the BlockTracker it owns, as operators on a record.                     *)
(*                                                                         *)
(* What has arrived is written down three times in the code, and here:     *)
(*   data, parity       the payload vectors (Missing is an empty vector)   *)
(*   stData, stParity   BlockState's data_seen_ and parity_seen_           *)
(*   trData, trParity   BlockTracker's data_seen_ and parity_seen_         *)
(* Closing is decided from the tracker, XOR recovery from the state, and   *)
(* GF(256) recovery from the vectors.  The bit vectors are the sets of     *)
(* their true positions.  RxBlock and its tracker start together, so one   *)
(* started flag stands for both.                                           *)
(***************************************************************************)
EXTENDS Frame, Integers, FiniteSets

CONSTANTS ReorderMs,  \* RxConfig::reorder_ms
          Fps,        \* RxConfig::fps
          Singular,   \* pairs <<rows, lost>> on which solve_gf256 meets no pivot
          Missing,    \* the empty payload
          Garbage     \* bytes that no sender put into a frame

ASSUME ConfigAssumption == ReorderMs \in Nat /\ Fps \in Nat
ASSUME TokenAssumption == /\ Missing \notin Payload
                          /\ Garbage \notin Payload
                          /\ Missing # Garbage

Slot == Payload \cup {Missing}

RxBlock(f) ==
  [N |-> f.n, K |-> f.k, len |-> f.pay.len,
   started |-> FALSE, start |-> 0,
   data   |-> [i \in 0 .. f.n - 1 |-> Missing],
   parity |-> [j \in 0 .. f.k - 1 |-> Missing],
   stData |-> {}, stParity |-> {}, trData |-> {}, trParity |-> FALSE]

(* Bug for a mutation run: the clock restarts with every frame.            *)
start_every_frame(b, t) == [b EXCEPT !.started = TRUE, !.start = t]

(* BlockTracker::start, called for the first frame of the block.           *)
start(b, t) ==
  IF b.started THEN b
  ELSE [b EXCEPT !.started = TRUE, !.start = t, !.trData = {}, !.trParity = FALSE]

(* Bug: BlockState is not told of a data frame.                            *)
put_data_unmarked(b, i, p) ==
  IF i < b.N THEN [b EXCEPT !.data[i] = p, !.trData = @ \cup {i}] ELSE b

put_data(b, i, p) ==
  IF i < b.N
  THEN [b EXCEPT !.data[i] = p, !.stData = @ \cup {i}, !.trData = @ \cup {i}]
  ELSE b

(* Bug: the bound on the parity index is off by one.                       *)
put_parity_off_by_one(b, j, p) ==
  IF j <= b.K
  THEN [b EXCEPT !.parity[j] = p, !.stParity = @ \cup {j}, !.trParity = TRUE]
  ELSE b

put_parity(b, j, p) ==
  IF j < b.K
  THEN [b EXCEPT !.parity[j] = p, !.stParity = @ \cup {j}, !.trParity = TRUE]
  ELSE b

(* RxBlock::ingest: a later frame for a slot overwrites the earlier one; a *)
(* frame for a slot the block does not have only starts the clock.         *)
ingest(b, t, f) ==
  IF is_parity_frame(f) THEN put_parity(start(b, t), f.pidx, f.pay)
                        ELSE put_data(start(b, t), f.seq, f.pay)

-----------------------------------------------------------------------------
(* The close policy: BlockTracker::should_close.                           *)

have_all_data(b) == b.trData = 0 .. b.N - 1
have_parity(b) == b.trParity

block_span_ms(n) == IF Fps = 0 THEN 0 ELSE (1000 * n + (Fps - 1)) \div Fps

(* Bug: one span instead of two.                                           *)
min_ms_one_span(n) == IF 60 < block_span_ms(n) THEN 60 ELSE block_span_ms(n)

min_ms(n) == IF 60 < 2 * block_span_ms(n) THEN 60 ELSE 2 * block_span_ms(n)

age_ms(b, t) == IF b.started /\ t >= b.start THEN t - b.start ELSE 0

should_close(b, t) ==
  /\ b.started
  /\ \/ have_parity(b) /\ have_all_data(b)
     \/ age_ms(b, t) >= ReorderMs
     \/ age_ms(b, t) >= min_ms(b.N)

-----------------------------------------------------------------------------
(* Recovery: RxBlock::extract_closed and the two decoders.                 *)

full(s, b) == s # Missing /\ s.len = b.len
lost(b) == {i \in 0 .. b.N - 1 : ~full(b.data[i], b)}
rows(b) == {j \in 0 .. b.K - 1 : full(b.parity[j], b)}

(* The equations solved are those of one assembled block: every payload    *)
(* that goes in comes from block o and sits where o's sender put it.       *)
consistent(b, R, o) ==
  /\ \A i \in (0 .. b.N - 1) \ lost(b) : b.data[i].origin = o /\ b.data[i].pos = i
  /\ \A j \in R : b.parity[j].origin = o /\ b.parity[j].pos = b.N + j

(* What decoding the rows R yields for position i: the payload the sender  *)
(* put there when there is a row for every hole and the equations are the  *)
(* sender's own; other bytes when they are too few or mix two blocks.      *)
decode(b, R, i) ==
  IF Cardinality(R) >= Cardinality(lost(b)) /\ \E o \in Origins : consistent(b, R, o)
  THEN [origin |-> CHOOSE o \in Origins : consistent(b, R, o), pos |-> i, len |-> b.len]
  ELSE Garbage

recoverable_k1(b) ==
  /\ b.K = 1
  /\ b.N - Cardinality(b.stData) = 1
  /\ b.stParity # {}

(* The first m rows that arrived.                                          *)
first_rows(b, m) == {j \in rows(b) : Cardinality({i \in rows(b) : i < j}) < m}

(* K = 1: the parity row and exactly one hole.                             *)
xor_recovers(b) ==
  recoverable_k1(b) /\ 0 \in rows(b) /\ Cardinality(lost(b)) = 1

(* Bug: the number of rows that arrived is not checked.                    *)
gf256_recovers_any(b) == b.K >= 2 /\ lost(b) # {} /\ rows(b) # {}

(* K >= 2: as many rows as holes, at most four, and a system with a pivot  *)
(* in every column.                                                        *)
gf256_recovers(b) ==
  LET m == Cardinality(lost(b))
  IN /\ b.K >= 2
     /\ lost(b) # {} /\ m <= b.K /\ m <= 4
     /\ Cardinality(rows(b)) >= m
     /\ <<first_rows(b, m), lost(b)>> \notin Singular

(* Bug: with too few rows, as many holes are filled as there are rows.     *)
recovered_some(b) ==
  {i \in lost(b) : Cardinality({j \in lost(b) : j < i}) < Cardinality(rows(b))}

recovered(b) == IF xor_recovers(b) \/ gf256_recovers(b) THEN lost(b) ELSE {}

extract_closed(g, b) ==
  [gen |-> g, N |-> b.N, K |-> b.K, len |-> b.len,
   data |-> [i \in 0 .. b.N - 1 |->
               IF i \in recovered(b)
               THEN decode(b, first_rows(b, Cardinality(lost(b))), i)
               ELSE b.data[i]],
   rec  |-> recovered(b)]
=============================================================================
