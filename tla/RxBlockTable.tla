----------------------------- MODULE RxBlockTable -----------------------------
(***************************************************************************)
(* Class RxBlockTable: the open blocks of a receiver, keyed by generation  *)
(* id, driven by any caller with a monotone clock.  Frames may come in any *)
(* order, any number of times, from any sender, and may contradict each    *)
(* other about the shape of their block.                                   *)
(***************************************************************************)
EXTENDS RxBlock

CONSTANTS Frames,         \* the frames the caller may present
          MaxPayloadLen,  \* RxConfig::max_payload_len, 0 for no limit
          Ticks, MaxTime, \* steps of the clock and its bound
          NoBlock         \* no entry, no result

ASSUME FramesAssumption == /\ Frames \subseteq BaseFrame
                           /\ MaxPayloadLen \in Nat
ASSUME ClockAssumption == Ticks \subseteq Nat /\ MaxTime \in Nat

VARIABLES now,     \* the caller's millisecond clock
          blocks,  \* blocks_: an open block or NoBlock for each generation
          out      \* what the latest call closed, NoBlock if it closed nothing

vars == <<now, blocks, out>>

Open == {g \in Gens : blocks[g] # NoBlock}

Init == /\ now = 0
        /\ blocks = [g \in Gens |-> NoBlock]
        /\ out = NoBlock

-----------------------------------------------------------------------------
(* Bug: a length that differs from the block's is let through.             *)
accepts_any_length(f) ==
  f.pay.len > 0 /\ (MaxPayloadLen = 0 \/ f.pay.len <= MaxPayloadLen)

(* An empty or oversized payload is refused, and so is one whose length    *)
(* differs from that of the frame that opened the block.                   *)
accepts(f) ==
  /\ f.pay.len > 0
  /\ MaxPayloadLen = 0 \/ f.pay.len <= MaxPayloadLen
  /\ blocks[f.gen] # NoBlock => blocks[f.gen].len = f.pay.len

(* The entry a frame goes to; the first frame of a generation creates it   *)
(* with the shape its header announces.                                    *)
find_or_emplace(f) == IF blocks[f.gen] = NoBlock THEN RxBlock(f) ELSE blocks[f.gen]

Ingest(f) ==
  /\ accepts(f)
  /\ blocks' = [blocks EXCEPT ![f.gen] = ingest(find_or_emplace(f), now, f)]
  /\ out' = NoBlock
  /\ UNCHANGED now

IngestRefused(f) ==
  /\ ~accepts(f)
  /\ out' = NoBlock
  /\ UNCHANGED <<now, blocks>>

(* RxBlockTable::should_close at the present reading of the clock.         *)
Due(g) == g \in Open /\ should_close(blocks[g], now)

close_if_ready(g) ==
  /\ Due(g)
  /\ out' = extract_closed(g, blocks[g])
  /\ blocks' = [blocks EXCEPT ![g] = NoBlock]
  /\ UNCHANGED now

Tick(d) ==
  /\ now + d <= MaxTime
  /\ now' = now + d
  /\ out' = NoBlock
  /\ UNCHANGED blocks

Next == \/ \E f \in Frames : Ingest(f) \/ IngestRefused(f)
        \/ \E g \in Gens : close_if_ready(g)
        \/ \E d \in Ticks : Tick(d)

Spec == Init /\ [][Next]_vars

-----------------------------------------------------------------------------
(* The shapes a header may announce.                                       *)
Ns == {f.n : f \in Frames}
Ks == {f.k : f \in Frames}

BlockOf(n, k) ==
  [N: {n}, K: {k}, len: Nat, started: BOOLEAN, start: Nat,
   data: [0 .. n - 1 -> Slot], parity: [0 .. k - 1 -> Slot],
   stData: SUBSET (0 .. n - 1), stParity: SUBSET (0 .. k - 1),
   trData: SUBSET (0 .. n - 1), trParity: BOOLEAN]

ClosedOf(n, k) ==
  [gen: Gens, N: {n}, K: {k}, len: Nat,
   data: [0 .. n - 1 -> Slot \cup {Garbage}], rec: SUBSET (0 .. n - 1)]

IsBlock(b) == \E n \in Ns, k \in Ks : b \in BlockOf(n, k)
IsClosed(c) == \E n \in Ns, k \in Ks : c \in ClosedOf(n, k)

ASSUME NoBlockAssumption ==
  \A n \in Ns, k \in Ks : NoBlock \notin BlockOf(n, k) /\ NoBlock \notin ClosedOf(n, k)

(* Every entry is a block whose vectors have the sizes its policy says, a  *)
(* result has the shape of the block it came from.                         *)
TypeOK ==
  /\ now \in Nat
  /\ DOMAIN blocks = Gens
  /\ \A g \in Open : IsBlock(blocks[g])
  /\ out # NoBlock => IsClosed(out)

(* Every payload a block holds has the block's length, and that length     *)
(* passed the size limit: the XOR and GF(256) loops of extract_closed read *)
(* exactly payload_len bytes of each vector they are given.                *)
OneSize(b) ==
  /\ b.len > 0
  /\ \A i \in 0 .. b.N - 1 : b.data[i] # Missing => b.data[i].len = b.len
  /\ \A j \in 0 .. b.K - 1 : b.parity[j] # Missing => b.parity[j].len = b.len
  /\ MaxPayloadLen = 0 \/ b.len <= MaxPayloadLen

OneSizePerBlock == \A g \in Open : OneSize(blocks[g])

(* The three records of what has arrived tell the same story, whatever the *)
(* order of frames, duplicates and out-of-range indices: should_close (the *)
(* tracker), recoverable_k1 (the state) and extract_closed (the vectors)   *)
(* never disagree about a block.                                           *)
Agrees(b) ==
  /\ b.started
  /\ b.stData = {i \in 0 .. b.N - 1 : b.data[i] # Missing}
  /\ b.trData = b.stData
  /\ b.stParity = {j \in 0 .. b.K - 1 : b.parity[j] # Missing}
  /\ b.trParity = (b.stParity # {})

TrackersAgree == \A g \in Open : Agrees(blocks[g])

(* Once should_close has said yes for a block it says yes until the block  *)
(* is closed: neither a late frame nor the clock takes the answer back, so *)
(* close_if_ready closes whatever should_close announced.                  *)
DueStaysDue ==
  [][\A g \in Gens : Due(g) /\ blocks'[g] # NoBlock => should_close(blocks'[g], now')]_vars

(* A payload that arrived is in the closed block exactly as it arrived and *)
(* is not reported as recovered; recovery fills every hole or none.        *)
CloseKeepsArrived ==
  [][\A g \in Open : blocks'[g] = NoBlock =>
       LET b == blocks[g]
           arrived == {i \in 0 .. b.N - 1 : b.data[i] # Missing}
       IN /\ out' # NoBlock
          /\ out'.gen = g
          /\ \A i \in arrived : out'.data[i] = b.data[i]
          /\ out'.rec \in {{}, (0 .. b.N - 1) \ arrived}
          /\ \A i \in (0 .. b.N - 1) \ arrived : out'.data[i] = Missing <=> i \notin out'.rec]_vars
=============================================================================
