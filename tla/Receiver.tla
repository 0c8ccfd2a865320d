------------------------------ MODULE Receiver ------------------------------
(***************************************************************************)
(* The receive loop of fec_receiver.  One datagram per turn: recv_once     *)
(* blocks for it without a timeout, the clock is read once, the frame goes *)
(* to the table, and every generation seen since its last close is tried.  *)
(* A datagram that decode_frame or the CRC check refuses ends its turn     *)
(* before that: no generation is tried, whatever is due.                   *)
(***************************************************************************)
EXTENDS RxBlockTable, Sequences

CONSTANTS Expect   \* --expect-blocks, at least 1 after the option checks

ASSUME ExpectAssumption == Expect \in Nat \ {0}

VARIABLES pc,             \* "recv", "scan", "again" (continue) or "done"
          last_seen_ms,   \* its keys: the generations to try
          todo,           \* those the scan has not come to yet, in no order
          closed_blocks,
          log,            \* the "block CLOSED" lines
          summary         \* the summary footers of the metrics file

table == <<now, blocks, out>>
loop == <<pc, last_seen_ms, todo>>
report == <<closed_blocks, log, summary>>
rvars == <<table, loop, report>>

RInit == /\ Init
         /\ pc = "recv" /\ last_seen_ms = {} /\ todo = {}
         /\ closed_blocks = 0 /\ log = <<>> /\ summary = <<>>

(* Bug: only the generation of this datagram is tried.                     *)
Recv_tries_its_own(f) ==
  /\ pc = "recv"
  /\ Ingest(f) \/ IngestRefused(f)
  /\ last_seen_ms' = last_seen_ms \cup {f.gen}
  /\ todo' = {f.gen}
  /\ pc' = "scan"
  /\ UNCHANGED report

(* The verdict of ingest is ignored: a refused frame is noted as seen, too.*)
Recv(f) ==
  /\ pc = "recv"
  /\ Ingest(f) \/ IngestRefused(f)
  /\ last_seen_ms' = last_seen_ms \cup {f.gen}
  /\ todo' = last_seen_ms'
  /\ pc' = "scan"
  /\ UNCHANGED report

(* Decoding fails: a row of the metrics file, and on to the next datagram. *)
RecvDamaged ==
  /\ pc = "recv"
  /\ pc' = "again"
  /\ UNCHANGED <<table, last_seen_ms, todo, report>>

Continue ==
  /\ pc = "again"
  /\ pc' = "recv"
  /\ UNCHANGED <<table, last_seen_ms, todo, report>>

RecvError ==
  /\ pc = "recv"
  /\ pc' = "done"
  /\ summary' = Append(summary, "error")
  /\ UNCHANGED <<table, last_seen_ms, todo, closed_blocks, log>>

(* What the loop prints and counts of a closed block.                      *)
closed_line(c) ==
  [gen |-> c.gen, N |-> c.N,
   present |-> Cardinality({i \in 0 .. c.N - 1 : c.data[i] # Missing}),
   recovered |-> Cardinality(c.rec)]

CloseOne(g) ==
  /\ pc = "scan" /\ g \in todo
  /\ close_if_ready(g)
  /\ log' = Append(log, closed_line(out'))
  /\ closed_blocks' = closed_blocks + 1
  /\ todo' = todo \ {g}

(* Bug: the loop stops one block early.                                    *)
StopAt_early(n) ==
  \/ closed_blocks' >= n - 1 /\ summary' = Append(summary, "ok") /\ pc' = "done"
  \/ closed_blocks' < n - 1 /\ UNCHANGED <<pc, summary>>

StopAt(n) ==
  \/ closed_blocks' >= n /\ summary' = Append(summary, "ok") /\ pc' = "done"
  \/ closed_blocks' < n /\ UNCHANGED <<pc, summary>>

(* Bugs: one block too many; no stop at the block that was asked for; the  *)
(* closed generation is not forgotten.                                     *)
ScanClose_one_more(g) ==
  CloseOne(g) /\ last_seen_ms' = last_seen_ms \ {g} /\ StopAt(Expect + 1)

ScanClose_goes_on(g) ==
  CloseOne(g) /\ last_seen_ms' = last_seen_ms \ {g} /\ UNCHANGED <<pc, summary>>

ScanClose_remembers(g) == CloseOne(g) /\ UNCHANGED last_seen_ms /\ StopAt(Expect)

ScanClose(g) ==
  CloseOne(g) /\ last_seen_ms' = last_seen_ms \ {g} /\ StopAt(Expect)

(* Bug: a generation is erased whether it was closed or not.               *)
ScanSkip_erases(g) ==
  /\ pc = "scan" /\ g \in todo /\ ~Due(g)
  /\ todo' = todo \ {g} /\ last_seen_ms' = last_seen_ms \ {g}
  /\ UNCHANGED <<table, pc, report>>

ScanSkip(g) ==
  /\ pc = "scan" /\ g \in todo
  /\ ~Due(g)
  /\ todo' = todo \ {g}
  /\ UNCHANGED <<table, pc, last_seen_ms, report>>

(* Bug: the scan is left early.                                            *)
ScanEnd_early ==
  pc = "scan" /\ pc' = "recv" /\ UNCHANGED <<table, last_seen_ms, todo, report>>

ScanEnd ==
  /\ pc = "scan" /\ todo = {}
  /\ pc' = "recv"
  /\ UNCHANGED <<table, last_seen_ms, todo, report>>

(* The clock is read after recv_once; a turn of the loop uses that reading.*)
Wait(d) == pc \in {"recv", "done"} /\ Tick(d) /\ UNCHANGED <<loop, report>>

Scan == (\E g \in Gens : ScanClose(g) \/ ScanSkip(g)) \/ ScanEnd

RNext == \/ \E f \in Frames : Recv(f)
         \/ Scan
         \/ RecvDamaged \/ Continue
         \/ RecvError
         \/ \E d \in Ticks : Wait(d)

RSpec == RInit /\ [][RNext]_rvars

-----------------------------------------------------------------------------
RTypeOK ==
  /\ TypeOK
  /\ pc \in {"recv", "scan", "again", "done"}
  /\ todo \subseteq last_seen_ms /\ last_seen_ms \subseteq Gens
  /\ closed_blocks \in 0 .. Expect
  /\ summary \in {<<>>, <<"ok">>, <<"error">>}

(* No block is orphaned: whatever is in the table is among the generations *)
(* the scan tries.                                                         *)
EveryOpenBlockIsTried == Open \subseteq last_seen_ms

(* A scan closes every block that is due, the ones the datagram was not    *)
(* for included: what is due is always still ahead of it.                  *)
DueIsAhead == pc = "scan" => \A g \in Gens : Due(g) => g \in todo

(* The turn of a datagram that passed the checks closes all that is due,   *)
(* the blocks of other generations and those that fell due during refused  *)
(* datagrams included; it goes back to recv_once with nothing due.  The    *)
(* turn of a refused one (Continue) goes back with what is due still due.  *)
IntactTurnLeavesNothingDue ==
  [][pc = "scan" /\ pc' = "recv" => \A g \in Gens : ~Due(g)]_rvars

(* One footer, written when the loop stops; "ok" says that exactly Expect  *)
(* blocks were closed, each with its line.                                 *)
StopsAtExpect ==
  /\ closed_blocks = Len(log)
  /\ (pc = "done") = (summary # <<>>)
  /\ summary = <<"ok">> => closed_blocks = Expect
  /\ pc # "done" => closed_blocks < Expect

(* The keys of last_seen_ms do not pile up: between turns each is an open  *)
(* block's, except those of frames the table refuses outright.             *)
SeenIsOpen ==
  pc = "recv" =>
    \A g \in last_seen_ms \ Open :
      \E f \in Frames : /\ f.gen = g
                        /\ f.pay.len = 0 \/ (MaxPayloadLen > 0 /\ f.pay.len > MaxPayloadLen)
=============================================================================
