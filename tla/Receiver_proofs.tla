--------------------------- MODULE Receiver_proofs ---------------------------
(***************************************************************************)
(* What the receive loop of fec_receiver adds to the table it drives, for  *)
(* every set of frames, configuration, clock and --expect-blocks.          *)
(*                                                                         *)
(* Every step of the loop is a step of the table or leaves it alone, so    *)
(* the table's invariant carries over.  The rest of the invariant ties the *)
(* loop's own containers to the table: what is open is remembered, what is *)
(* remembered and not open belongs to a frame the table refuses outright,  *)
(* and what is due during a scan still lies ahead of it.                   *)
(***************************************************************************)
EXTENDS Receiver, RxBlockTable_proofs

(* A "block CLOSED" line the loop can print.                               *)
LineOf(n, k) == {closed_line(c) : c \in ClosedOf(n, k)}

Line == UNION {LineOf(n, k) : n \in Ns, k \in Ks}

(* The table refuses this frame whatever it holds.                         *)
RefusedOutright(f) ==
  f.pay.len = 0 \/ (MaxPayloadLen > 0 /\ f.pay.len > MaxPayloadLen)

(* SeenIsOpen at every point of a turn, not only between turns.            *)
SeenIsOpenAlways ==
  \A g \in last_seen_ms \ Open : \E f \in Frames : f.gen = g /\ RefusedOutright(f)

Counting ==
  /\ log \in Seq(Line)
  /\ closed_blocks \in 0 .. Expect
  /\ StopsAtExpect

Remembering ==
  /\ todo \subseteq last_seen_ms
  /\ last_seen_ms \subseteq Gens
  /\ EveryOpenBlockIsTried
  /\ SeenIsOpenAlways

RIInv ==
  /\ IInv
  /\ pc \in {"recv", "scan", "again", "done"}
  /\ summary \in {<<>>, <<"ok">>, <<"error">>}
  /\ Remembering
  /\ DueIsAhead
  /\ Counting

-----------------------------------------------------------------------------
(* The loop uses the table only through its operations.                    *)
LEMMA StepsTheTable ==
  ASSUME RNext
  PROVE  [Next]_vars
<1>1. ASSUME NEW f \in Frames, Recv(f) PROVE Next BY <1>1 DEF Recv, Next
<1>2. ASSUME NEW g \in Gens, ScanClose(g) PROVE Next
  BY <1>2 DEF ScanClose, CloseOne, Next
<1>3. ASSUME NEW g \in Gens, ScanSkip(g) PROVE UNCHANGED vars
  BY <1>3 DEF ScanSkip, table, vars
<1>4. ASSUME ScanEnd PROVE UNCHANGED vars BY <1>4 DEF ScanEnd, table, vars
<1>5. ASSUME RecvError PROVE UNCHANGED vars BY <1>5 DEF RecvError, table, vars
<1>6. ASSUME NEW d \in Ticks, Wait(d) PROVE Next BY <1>6 DEF Wait, Next
<1>7. ASSUME RecvDamaged \/ Continue PROVE UNCHANGED vars
  BY <1>7 DEF RecvDamaged, Continue, table, vars
<1> QED BY <1>1, <1>2, <1>3, <1>4, <1>5, <1>6, <1>7 DEF RNext, Scan

(* A frame can open no generation but its own.                             *)
LEMMA RecvOpens ==
  ASSUME IInv, NEW f \in Frames, Recv(f)
  PROVE  /\ Open \subseteq Open'
         /\ Open' \subseteq Open \cup {f.gen}
         /\ f.gen \in Open' \/ RefusedOutright(f)
<1>1. f.gen \in Gens /\ f.pay.len \in Nat BY FrameFields
<1>2. CASE Ingest(f)
  <2>1. Sound(ingest(find_or_emplace(f), now, f))
    BY <1>1, <1>2, IngestedSound DEF Ingest, IInv, Open
  <2>2. ingest(find_or_emplace(f), now, f) # NoBlock BY <2>1, SoundIsBlock
  <2>3. \A g \in Gens : blocks'[g] = IF g = f.gen THEN ingest(find_or_emplace(f), now, f)
                                                 ELSE blocks[g]
    BY <1>2 DEF Ingest, IInv
  <2> QED BY <1>1, <2>2, <2>3 DEF Open
<1>3. CASE IngestRefused(f)
  <2>1. Open' = Open BY <1>3 DEF IngestRefused, Open
  <2>2. f.gen \in Open \/ RefusedOutright(f)
    BY <1>1, <1>3, FramesAssumption DEF IngestRefused, accepts, RefusedOutright, Open
  <2> QED BY <2>1, <2>2
<1> QED BY <1>2, <1>3 DEF Recv

(* A close takes one generation off the table and leaves the rest as due,  *)
(* or not due, as it was.                                                  *)
LEMMA CloseTakesOne ==
  ASSUME IInv, NEW g \in Gens, close_if_ready(g)
  PROVE  /\ Open' = Open \ {g}
         /\ \A h \in Gens : Due(h)' => h # g /\ Due(h)
<1>1. \A h \in Gens : blocks'[h] = IF h = g THEN NoBlock ELSE blocks[h]
  BY DEF close_if_ready, IInv
<1>2. now' = now BY DEF close_if_ready
<1> QED BY <1>1, <1>2 DEF Open, Due

-----------------------------------------------------------------------------
LEMMA InitRIInv == RInit => RIInv
<1> SUFFICES ASSUME RInit PROVE RIInv OBVIOUS
<1>1. Open = {} BY DEF RInit, Init, Open
<1>2. IInv BY InitIInv DEF RInit
<1>3. Remembering
  BY <1>1 DEF RInit, Remembering, EveryOpenBlockIsTried, SeenIsOpenAlways
<1>4. Counting
  BY ExpectAssumption DEF RInit, Counting, StopsAtExpect
<1> QED BY <1>2, <1>3, <1>4 DEF RInit, RIInv, DueIsAhead

LEMMA RecvRIInv ==
  ASSUME RIInv, NEW f \in Frames, Recv(f)
  PROVE  Remembering' /\ DueIsAhead' /\ Counting'
<1>1. f.gen \in Gens BY FrameFields
<1>2. /\ Open \subseteq Open' /\ Open' \subseteq Open \cup {f.gen}
      /\ f.gen \in Open' \/ RefusedOutright(f)
  BY RecvOpens DEF RIInv
<1>3. last_seen_ms' = last_seen_ms \cup {f.gen} /\ todo' = last_seen_ms'
  BY DEF Recv
<1>4. EveryOpenBlockIsTried'
  BY <1>2, <1>3 DEF RIInv, Remembering, EveryOpenBlockIsTried
<1>5. SeenIsOpenAlways'
  BY <1>2, <1>3 DEF RIInv, Remembering, SeenIsOpenAlways
<1>6. DueIsAhead'
  BY <1>3, <1>4 DEF DueIsAhead, Due, EveryOpenBlockIsTried
<1>7. Counting'
  BY DEF Recv, report, RIInv, Counting, StopsAtExpect
<1> QED BY <1>1, <1>3, <1>4, <1>5, <1>6, <1>7 DEF RIInv, Remembering

LEMMA ScanCloseRIInv ==
  ASSUME RIInv, NEW g \in Gens, ScanClose(g)
  PROVE  /\ Remembering' /\ DueIsAhead' /\ Counting'
         /\ pc' \in {"scan", "done"} /\ summary' \in {<<>>, <<"ok">>}
<1>1. close_if_ready(g) BY DEF ScanClose, CloseOne
<1>2. Open' = Open \ {g} /\ \A h \in Gens : Due(h)' => h # g /\ Due(h)
  BY <1>1, CloseTakesOne DEF RIInv
<1>3. /\ last_seen_ms' = last_seen_ms \ {g} /\ todo' = todo \ {g}
      /\ pc = "scan" /\ closed_blocks' = closed_blocks + 1
  BY DEF ScanClose, CloseOne
<1>4. Remembering'
  BY <1>2, <1>3 DEF RIInv, Remembering, EveryOpenBlockIsTried, SeenIsOpenAlways
<1>5. DueIsAhead'
  BY <1>2, <1>3 DEF RIInv, DueIsAhead
<1>6. log' \in Seq(Line) /\ Len(log') = closed_blocks'
  <2>1. PICK n \in Ns, k \in Ks : SoundOf(blocks[g], n, k)
    BY <1>1 DEF close_if_ready, Due, RIInv, IInv, Sound
  <2>2. out' \in ClosedOf(n, k)
    BY <1>1, <2>1, ExtractType, ShapesAreNat DEF close_if_ready
  <2>3. closed_line(out') \in Line
    <3>1. closed_line(out') \in LineOf(n, k) BY <2>2 DEF LineOf
    <3>2. LineOf(n, k) \subseteq Line BY <2>1 DEF Line
    <3> QED BY <3>1, <3>2
  <2>4. log' = Append(log, closed_line(out')) BY DEF ScanClose, CloseOne
  <2> HIDE DEF Line
  <2> QED BY <1>3, <2>3, <2>4 DEF RIInv, Counting, StopsAtExpect
<1>7. summary = <<>> /\ closed_blocks < Expect /\ closed_blocks \in Nat
  BY <1>3 DEF RIInv, Counting, StopsAtExpect
<1>8. \/ closed_blocks' = Expect /\ summary' = <<"ok">> /\ pc' = "done"
      \/ closed_blocks' < Expect /\ summary' = <<>> /\ pc' = "scan"
  BY <1>3, <1>7, ExpectAssumption DEF ScanClose, StopAt
<1>9. Counting'
  <2>1. closed_blocks' \in 0 .. Expect BY <1>3, <1>7, <1>8, ExpectAssumption
  <2>2. <<"ok">> # <<>> OBVIOUS
  <2>3. StopsAtExpect' BY <1>6, <1>8, <2>2 DEF StopsAtExpect
  <2> QED BY <1>6, <2>1, <2>3 DEF Counting
<1> QED BY <1>4, <1>5, <1>8, <1>9

(* A step that leaves the table, the record of the generations and the     *)
(* lines alone.                                                            *)
LEMMA QuietRIInv ==
  ASSUME RIInv, Open' = Open, UNCHANGED <<last_seen_ms, log, closed_blocks>>,
         todo' \subseteq todo
  PROVE  Remembering'
BY DEF RIInv, Remembering, EveryOpenBlockIsTried, SeenIsOpenAlways

LEMMA NextRIInv == RIInv /\ [RNext]_rvars => RIInv'
<1> SUFFICES ASSUME RIInv, [RNext]_rvars PROVE RIInv' OBVIOUS
<1>0. IInv'
  <2>1. [Next]_vars BY StepsTheTable DEF rvars, table, vars
  <2> QED BY <2>1, NextIInv DEF RIInv
<1>1. ASSUME NEW f \in Frames, Recv(f) PROVE RIInv'
  BY <1>0, <1>1, RecvRIInv DEF RIInv, Recv, report
<1>2. ASSUME NEW g \in Gens, ScanClose(g) PROVE RIInv'
  BY <1>0, <1>2, ScanCloseRIInv DEF RIInv
<1>3. ASSUME NEW g \in Gens, ScanSkip(g) PROVE RIInv'
  <2>1. Open' = Open /\ (\A h \in Gens : Due(h)' <=> Due(h)) /\ ~Due(g)
    BY <1>3 DEF ScanSkip, table, Open, Due
  <2>2. Remembering' BY <1>3, <2>1, QuietRIInv DEF ScanSkip, report
  <2>3. DueIsAhead' BY <1>3, <2>1 DEF ScanSkip, RIInv, DueIsAhead
  <2>4. Counting' BY <1>3 DEF ScanSkip, report, RIInv, Counting, StopsAtExpect
  <2> QED BY <1>0, <1>3, <2>2, <2>3, <2>4 DEF RIInv, ScanSkip, report
<1>4. ASSUME ScanEnd PROVE RIInv'
  <2>1. Open' = Open BY <1>4 DEF ScanEnd, table, Open
  <2>2. Remembering' BY <1>4, <2>1, QuietRIInv DEF ScanEnd, report
  <2>3. Counting' BY <1>4 DEF ScanEnd, report, RIInv, Counting, StopsAtExpect
  <2> QED BY <1>0, <1>4, <2>2, <2>3 DEF RIInv, ScanEnd, report, DueIsAhead
<1>5. ASSUME RecvError PROVE RIInv'
  <2>1. Open' = Open BY <1>5 DEF RecvError, table, Open
  <2>2. Remembering' BY <1>5, <2>1, QuietRIInv DEF RecvError
  <2>3. summary = <<>> BY <1>5 DEF RecvError, RIInv, Counting, StopsAtExpect
  <2>4. summary' = <<"error">> BY <1>5, <2>3 DEF RecvError
  <2>5. Counting'
    <3>1. <<"error">> # <<>> /\ <<"error">> # <<"ok">> OBVIOUS
    <3>2. StopsAtExpect' BY <1>5, <2>4, <3>1 DEF RecvError, RIInv, Counting, StopsAtExpect
    <3> QED BY <1>5, <3>2 DEF RecvError, RIInv, Counting
  <2> QED BY <1>0, <1>5, <2>2, <2>4, <2>5 DEF RIInv, RecvError, DueIsAhead
<1>6. ASSUME NEW d \in Ticks, Wait(d) PROVE RIInv'
  <2>1. Open' = Open BY <1>6 DEF Wait, Tick, Open
  <2>2. Remembering' BY <1>6, <2>1, QuietRIInv DEF Wait, loop, report
  <2>3. Counting' BY <1>6 DEF Wait, loop, report, RIInv, Counting, StopsAtExpect
  <2> QED BY <1>0, <1>6, <2>2, <2>3 DEF RIInv, Wait, loop, report, DueIsAhead
<1>7. ASSUME RecvDamaged \/ Continue PROVE RIInv'
  <2>1. Open' = Open BY <1>7 DEF RecvDamaged, Continue, table, Open
  <2>2. Remembering' BY <1>7, <2>1, QuietRIInv DEF RecvDamaged, Continue, report
  <2>3. Counting'
    BY <1>7 DEF RecvDamaged, Continue, report, RIInv, Counting, StopsAtExpect
  <2> QED BY <1>0, <1>7, <2>2, <2>3 DEF RIInv, RecvDamaged, Continue, report, DueIsAhead
<1>8. CASE UNCHANGED rvars
  <2>1. Open' = Open /\ \A h \in Gens : Due(h)' <=> Due(h)
    BY <1>8 DEF rvars, table, Open, Due
  <2>2. Remembering' BY <1>8, <2>1, QuietRIInv DEF rvars, loop, report
  <2>3. DueIsAhead' BY <1>8, <2>1 DEF rvars, loop, RIInv, DueIsAhead
  <2>4. Counting' BY <1>8 DEF rvars, loop, report, RIInv, Counting, StopsAtExpect
  <2> QED BY <1>0, <1>8, <2>2, <2>3, <2>4 DEF RIInv, rvars, loop, report
<1> QED BY <1>1, <1>2, <1>3, <1>4, <1>5, <1>6, <1>7, <1>8 DEF RNext, Scan

(* The invariant holds whatever arrives, in whatever order.                *)
THEOREM LoopInvariance == RSpec => []RIInv
BY InitRIInv, NextRIInv, PTL DEF RSpec

-----------------------------------------------------------------------------
(* The loop's variables keep their types, the table's with them.           *)
THEOREM LoopTypeCorrect == RSpec => []RTypeOK
<1>1. RIInv => RTypeOK
  BY IInvImplies DEF RIInv, RTypeOK, Remembering, Counting
<1> QED BY <1>1, LoopInvariance, PTL

(* No block can be left in the table and out of the loop's reach.          *)
THEOREM NothingOrphaned == RSpec => []EveryOpenBlockIsTried
<1>1. RIInv => EveryOpenBlockIsTried BY DEF RIInv, Remembering
<1> QED BY <1>1, LoopInvariance, PTL

(* What becomes due before or during a scan is still ahead of it.          *)
THEOREM ScanMissesNothing == RSpec => []DueIsAhead
<1>1. RIInv => DueIsAhead BY DEF RIInv
<1> QED BY <1>1, LoopInvariance, PTL

(* The count, the lines, the footer and the end of the loop agree.         *)
THEOREM StopsOnTime == RSpec => []StopsAtExpect
<1>1. RIInv => StopsAtExpect BY DEF RIInv, Counting
<1> QED BY <1>1, LoopInvariance, PTL

(* The keys remembered without a block are those of refused frames.        *)
THEOREM NothingPilesUp == RSpec => []SeenIsOpen
<1>1. RIInv => SeenIsOpen
  BY DEF RIInv, Remembering, SeenIsOpenAlways, RefusedOutright, SeenIsOpen
<1> QED BY <1>1, LoopInvariance, PTL

(* From a scan only its end leads back to recv_once, and a scan that ended *)
(* has left nothing due, whatever fell due during refused datagrams before *)
(* it.                                                                     *)
THEOREM NothingDueAfterScan == RSpec => IntactTurnLeavesNothingDue
<1> DEFINE Clear == pc = "scan" /\ pc' = "recv" => \A g \in Gens : ~Due(g)
<1>1. RIInv /\ [RNext]_rvars => [Clear]_rvars
  <2> SUFFICES ASSUME RIInv, RNext, pc = "scan", pc' = "recv" PROVE \A g \in Gens : ~Due(g)
    OBVIOUS
  <2>1. ASSUME NEW g \in Gens, ScanClose(g) PROVE FALSE
    BY <2>1, ScanCloseRIInv
  <2>2. ScanEnd
    BY <2>1 DEF RNext, Scan, Recv, RecvDamaged, Continue, RecvError, Wait, loop, ScanSkip
  <2> QED BY <2>2 DEF ScanEnd, RIInv, DueIsAhead
<1> QED BY <1>1, LoopInvariance, PTL DEF RSpec, IntactTurnLeavesNothingDue
=============================================================================
