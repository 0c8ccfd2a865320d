------------------------------ MODULE Link_proofs ------------------------------
(***************************************************************************)
(* What holds of both programs together, for every path, shape, pacing and *)
(* clock, over any number of kills and restarts of the sender.             *)
(*                                                                         *)
(* Every datagram is a frame of a block the sender assembled (TInv), so    *)
(* the receiver in the link is the receiver of Receiver and its theorems   *)
(* carry over.  Integrity needs more: OInv names, for every id that is     *)
(* still on the path or in the table, the one block that owns it.  A block *)
(* of the table then holds only its owner's payloads, and decoding them    *)
(* gives the owner's.                                                      *)
(*                                                                         *)
(* The rest is about time.  LinkStep says of each step what it does to the *)
(* state at hand.  Ids in use lie below the next one (Ordered), and as     *)
(* long as the sender's pauses and the path's delay fit the deadline       *)
(* (InDeadline), every datagram finds its block still open (Timely).  Then *)
(* a block is closed once if nothing is repeated (Once), and it is whole   *)
(* when it is first closed if no more is lost than can be recovered        *)
(* (FewGone counts what is lost).                                          *)
(***************************************************************************)
EXTENDS Link, Receiver_proofs

LEMMA Options ==
  /\ TxN \in Nat /\ TxN >= 1 /\ TxK \in Nat /\ TxN + TxK <= 259
  /\ Blocks \in Nat /\ Blocks >= 1 /\ InterBlockMs \in Nat
  /\ GenWrap \in Nat /\ GenWrap >= 1 /\ MaxTime \in Nat /\ MaxRuns \in Nat /\ MaxRuns >= 1
  /\ Ticks \subseteq Nat /\ TxLens \subseteq Nat /\ MaxLoss \in Nat /\ MaxCopies \in Nat
BY LinkAssumption, ClockAssumption, PathAssumption

GenIds == 0 .. GenWrap - 1
Sent == (1 .. MaxRuns) \X (0 .. Blocks - 1)

LEMMA Wrapped == \A n \in Nat : S!u32(n) \in GenIds /\ (n < GenWrap => S!u32(n) = n)
BY Options DEF S!u32, GenIds

LEMMA Pause == S!dt_ms \in Nat /\ S!dt_ms >= 1
<1>1. Fps \in Nat /\ Fps > 0 BY LinkAssumption
<1>2. 1000 \div Fps \in Int BY <1>1
<1> QED BY <1>2 DEF S!dt_ms

-----------------------------------------------------------------------------
(* The frames of the sender.                                               *)

token(o, p) == [origin |-> o, pos |-> p, len |-> payload_len]

sent_frame(o, g, p) == S!assemble_block(o, g, TxN, TxK, payload_len)[p]

LEMMA SentFrame ==
  ASSUME NEW o, NEW g, NEW p \in 0 .. TxN + TxK - 1
  PROVE  LET f == sent_frame(o, g, p)
         IN /\ f.gen = g /\ f.seq = p /\ f.n = TxN /\ f.k = TxK /\ f.pay = token(o, p)
            /\ p >= TxN => f.pidx = p - TxN
<1>1. /\ p \in Nat /\ TxN \in Nat /\ p < TxN + TxK /\ p <= 259 BY Options
<1>2. sent_frame(o, g, p) = S!out_frame(o, g, TxN, TxK, payload_len, p)
  BY <1>1 DEF sent_frame, S!assemble_block
<1>3. CASE p < TxN
  <2>1. ~(p >= TxN) BY <1>1, <1>3
  <2> QED BY <1>2, <1>3, <2>1 DEF S!out_frame, S!data_frame, token
<1>4. CASE ~(p < TxN)
  <2>1. p - TxN \in 0 .. 4 /\ TxN + (p - TxN) = p BY <1>1, <1>4, LinkAssumption
  <2>2. p % 65536 = p /\ (p - TxN) % 256 = p - TxN BY <1>1, <2>1
  <2> QED BY <1>1, <1>2, <1>4, <2>1, <2>2 DEF S!out_frame, S!parity_frame, token
<1> QED BY <1>1, <1>3, <1>4

-----------------------------------------------------------------------------
(* Types.  Every datagram is a frame of a block the sender assembled.      *)
IsSent(x) ==
  /\ x.at \in 0 .. now
  /\ \E o \in Sent, g \in GenIds, p \in 0 .. TxN + TxK - 1 : x.frame = sent_frame(o, g, p)

TInv ==
  /\ now \in Nat /\ now <= MaxTime /\ wake \in Nat
  /\ spc \in {"assemble", "send", "finish", "done", "killed"}
  /\ run \in 1 .. MaxRuns /\ b \in 0 .. Blocks /\ i \in 0 .. TxN + TxK
  /\ gen \in GenIds /\ next_gen_id \in GenIds /\ payload_len \in TxLens
  /\ spc = "send" => b < Blocks
  /\ spc = "killed" => run < MaxRuns
  /\ \A x \in net : IsSent(x)
  /\ losses \in 0 .. MaxLoss /\ copies \in 0 .. MaxCopies

LEMMA SentAreFrames ==
  ASSUME TInv, NEW x \in net PROVE x.frame \in Frames /\ x.frame.gen \in GenIds
<1>1. PICK o \in Sent, g \in GenIds, p \in 0 .. TxN + TxK - 1 : x.frame = sent_frame(o, g, p)
  BY DEF TInv, IsSent
<1>2. PICK r \in 1 .. MaxRuns, k \in 0 .. Blocks - 1 : o = <<r, k>> BY DEF Sent
<1>3. sent_frame(<<r, k>>, g, p) \in Frames
  BY LinkAssumption DEF sent_frame, GenIds, TInv
<1>4. x.frame.gen = g BY <1>1, SentFrame
<1> QED BY <1>1, <1>2, <1>3, <1>4

(* What the path and the receiver do concerns the sender only through net. *)
LEMMA QuietTInv ==
  ASSUME TInv, UNCHANGED sender, net' \subseteq net, now' \in Nat, now <= now', now' <= MaxTime,
         losses' \in 0 .. MaxLoss, copies' \in 0 .. MaxCopies
  PROVE  TInv'
<1>1. ASSUME NEW x \in net' PROVE IsSent(x)'
  <2>1. x \in net /\ IsSent(x) BY DEF TInv
  <2>2. \A o, g, p : sent_frame(o, g, p)' = sent_frame(o, g, p)
    BY DEF sender, sent_frame
  <2>3. x.at \in 0 .. now' BY <2>1 DEF IsSent, TInv
  <2> QED BY <2>1, <2>2, <2>3 DEF IsSent
<1> QED BY <1>1 DEF TInv, sender

LEMMA InitTInv == LInit => TInv
<1> SUFFICES ASSUME LInit PROVE TInv OBVIOUS
<1>1. S!u32(0) \in GenIds BY Wrapped
<1> QED BY <1>1, Options DEF LInit, S!SInit, TInv

LEMMA NextTInv == TInv /\ [LNext]_lvars => TInv'
<1> SUFFICES ASSUME TInv, [LNext]_lvars PROVE TInv' OBVIOUS
<1>0. /\ now \in Nat /\ wake \in Nat /\ run \in Nat /\ b \in Nat /\ i \in Nat /\ now <= MaxTime
      /\ gen \in GenIds /\ next_gen_id \in GenIds /\ next_gen_id \in Nat
  BY Options DEF TInv, GenIds
<1>n. ASSUME net' = net, now' = now, payload_len' = payload_len
      PROVE  \A x \in net' : IsSent(x)'
  <2>1. \A o, g, p : sent_frame(o, g, p)' = sent_frame(o, g, p) BY <1>n DEF sent_frame
  <2> QED BY <1>n, <2>1 DEF TInv, IsSent
<1>1. CASE S!Assemble /\ UNCHANGED path
  <2>1. S!u32(next_gen_id + 1) \in GenIds BY <1>0, Wrapped
  <2>2. \A x \in net' : IsSent(x)' BY <1>1, <1>n DEF S!Assemble
  <2>3. 0 \in 0 .. TxN + TxK BY Options
  <2> QED BY <1>1, <2>1, <2>2, <2>3 DEF S!Assemble, TInv, path
<1>2. CASE S!SendFrame /\ UNCHANGED path
  <2>0. PICK x : x = [frame |-> S!block_frames[i], at |-> now] OBVIOUS
  <2>1. /\ i < TxN + TxK /\ spc = "send" /\ net' = net \cup {x} /\ i' = i + 1
        /\ wake' = IF i + 1 < TxN THEN now + S!dt_ms ELSE now
        /\ UNCHANGED <<now, payload_len, spc, run, b, gen, next_gen_id>>
    BY <1>2, <2>0 DEF S!SendFrame
  <2>2. <<run, b>> \in Sent /\ i \in 0 .. TxN + TxK - 1
    BY <1>0, <2>1, Options DEF Sent, TInv
  <2>3. S!block_frames[i] = sent_frame(<<run, b>>, gen, i) BY DEF S!block_frames, sent_frame
  <2>4. \A o, g, p : sent_frame(o, g, p)' = sent_frame(o, g, p) BY <2>1 DEF sent_frame
  <2>5. x.at \in 0 .. now' /\ x.frame = sent_frame(<<run, b>>, gen, i) BY <1>0, <2>0, <2>1, <2>3
  <2>6. IsSent(x)'
    <3>2. PICK o, g, p : o = <<run, b>> /\ g = gen /\ p = i OBVIOUS
    <3>3. \E q \in Sent, h \in GenIds, r \in 0 .. TxN + TxK - 1 : x.frame = sent_frame(q, h, r)'
      <4>1. x.frame = sent_frame(o, g, p)' BY <2>4, <2>5, <3>2
      <4> QED BY <1>0, <2>2, <3>2, <4>1
    <3> QED BY <2>5, <3>3 DEF IsSent
  <2>7. \A y \in net : IsSent(y)' BY <2>1, <2>4 DEF TInv, IsSent
  <2>8. wake' \in Nat /\ i' \in 0 .. TxN + TxK BY <1>0, <2>1, Pause, Options
  <2>9. \A y \in net' : IsSent(y)' BY <2>1, <2>6, <2>7
  <2>10. UNCHANGED path BY <1>2
  <2> HIDE DEF IsSent
  <2> QED BY <2>1, <2>8, <2>9, <2>10 DEF TInv, path
<1>3. CASE S!NextBlock /\ UNCHANGED path
  <2>1. wake' \in Nat /\ b' \in 0 .. Blocks BY <1>0, <1>3, Options DEF S!NextBlock, TInv
  <2>2. \A x \in net' : IsSent(x)' BY <1>3, <1>n DEF S!NextBlock
  <2> QED BY <1>3, <2>1, <2>2 DEF S!NextBlock, TInv, path
<1>4. CASE (S!Finish \/ S!SendError \/ S!Kill) /\ UNCHANGED path
  <2>1. /\ UNCHANGED <<now, payload_len, run, b, i, gen, next_gen_id, wake, net>>
        /\ spc' \in {"done", "finish", "killed"} /\ (spc' = "killed" => run < MaxRuns)
    BY <1>4 DEF S!Finish, S!SendError, S!Kill
  <2>2. \A x \in net' : IsSent(x)' BY <2>1, <1>n
  <2> QED BY <1>4, <2>1, <2>2 DEF TInv, path
<1>5. ASSUME NEW m \in net, Deliver(m) \/ DeliverCopy(m) \/ Damage(m) \/ Lose(m) \/ Discard(m)
      PROVE  TInv'
  <2>1. UNCHANGED sender /\ net' \subseteq net /\ now' = now
    BY <1>5 DEF Deliver, DeliverCopy, Damage, Lose, Discard, Recv, RecvDamaged, table, Ingest,
                IngestRefused
  <2>2. losses' \in 0 .. MaxLoss /\ copies' \in 0 .. MaxCopies
    BY <1>5, Options DEF Deliver, DeliverCopy, Damage, Lose, Discard, path, TInv
  <2> QED BY <1>0, <2>1, <2>2, QuietTInv
<1>6. CASE ReceiverScans \/ ReceiverFails
  <2>1. UNCHANGED sender /\ net' = net /\ now' = now /\ UNCHANGED path
    BY <1>6 DEF ReceiverScans, ReceiverFails, Scan, ScanClose, CloseOne, close_if_ready,
                ScanSkip, ScanEnd, Continue, RecvError, table
  <2> QED BY <1>0, <2>1, QuietTInv DEF TInv, path
<1>7. ASSUME NEW d \in Ticks, Time(d) PROVE TInv'
  <2>1. /\ d \in Nat /\ now' = now + d /\ now' <= MaxTime /\ UNCHANGED <<sender, net, path>>
    BY <1>7, Options DEF Time, S!Sleep, S!process, sender
  <2> QED BY <1>0, <2>1, QuietTInv DEF TInv, path
<1>8. ASSUME NEW d \in Ticks, Restarts(d) PROVE TInv'
  <2>1. /\ d \in Nat /\ now' = now + d /\ now' <= MaxTime /\ now' \in Nat /\ now <= now'
        /\ spc = "killed" /\ spc' = "assemble" /\ run' = run + 1 /\ b' = 0 /\ i' = 0
        /\ gen' = S!u32(now') /\ next_gen_id' = S!u32(now') /\ wake' = now'
        /\ UNCHANGED <<net, payload_len, path>>
    BY <1>0, <1>8, Options DEF Restarts, S!Restart, S!Start
  <2>2. S!u32(now') \in GenIds BY <2>1, Wrapped
  <2>3. ASSUME NEW x \in net' PROVE IsSent(x)'
    <3>1. x \in net /\ IsSent(x) BY <2>1 DEF TInv
    <3>2. \A o, g, p : sent_frame(o, g, p)' = sent_frame(o, g, p) BY <2>1 DEF sent_frame
    <3>3. x.at \in 0 .. now' BY <1>0, <2>1, <3>1 DEF IsSent
    <3> QED BY <3>1, <3>2, <3>3 DEF IsSent
  <2>4. run' \in 1 .. MaxRuns BY <1>0, <2>1, Options DEF TInv
  <2> QED BY <2>1, <2>2, <2>3, <2>4, Options DEF TInv, path
<1>9. CASE UNCHANGED lvars
  <2>1. \A x \in net' : IsSent(x)' BY <1>9, <1>n DEF lvars, sender
  <2> QED BY <1>9, <2>1 DEF TInv, lvars, sender, path
<1> QED
  <2>1. S!Send => S!Assemble \/ S!SendFrame \/ S!NextBlock \/ S!Finish BY DEF S!Send
  <2> QED
    BY <1>1, <1>2, <1>3, <1>4, <1>5, <1>6, <1>7, <1>8, <1>9, <2>1
    DEF LNext, SenderSends, SenderFails, SenderKilled

THEOREM LinkInvariance == LSpec => []TInv
BY InitTInv, NextTInv, PTL DEF LSpec

-----------------------------------------------------------------------------
(* The receiver in the link does nothing that the receiver of Receiver     *)
(* does not do when it is offered every frame.                             *)
LEMMA StepsTheReceiver == TInv /\ [LNext]_lvars => [RNext]_rvars
<1> SUFFICES ASSUME TInv, [LNext]_lvars PROVE [RNext]_rvars OBVIOUS
<1>1. CASE SenderSends \/ SenderFails \/ SenderKilled
  <2>1. UNCHANGED <<now, receiver>>
    BY <1>1 DEF SenderSends, SenderFails, SenderKilled, S!Send, S!Assemble, S!SendFrame,
                S!NextBlock, S!Finish, S!SendError, S!Kill
  <2> QED BY <2>1 DEF receiver, rvars, table, loop, report
<1>2. ASSUME NEW m \in net, Deliver(m) \/ DeliverCopy(m) PROVE RNext
  <2>1. m.frame \in Frames /\ Recv(m.frame)
    BY <1>2, SentAreFrames DEF Deliver, DeliverCopy
  <2> QED BY <2>1 DEF RNext
<1>3. ASSUME NEW m \in net, Lose(m) \/ Discard(m) PROVE UNCHANGED rvars
  BY <1>3 DEF Lose, Discard, receiver, rvars, table, loop, report
<1>4. CASE ReceiverScans \/ ReceiverFails
  BY <1>4 DEF ReceiverScans, ReceiverFails, RNext
<1>7. ASSUME NEW m \in net, Damage(m) PROVE RNext BY <1>7 DEF Damage, RNext
<1>5. ASSUME NEW d \in Ticks, Time(d) \/ Restarts(d) PROVE RNext
  <2>1. Wait(d)
    BY <1>5 DEF Time, Restarts, InTime, S!Sleep, S!Restart, Wait, Tick, loop, report
  <2> QED BY <2>1 DEF RNext
<1>6. CASE UNCHANGED lvars
  BY <1>6 DEF lvars, receiver, rvars, table, loop, report
<1> QED BY <1>1, <1>2, <1>3, <1>4, <1>5, <1>6, <1>7 DEF LNext

(* So what holds of the receive loop against every sequence of frames      *)
(* holds against those that a sender and a path can produce.               *)
THEOREM LinkUsesReceiver == LSpec => RSpec
<1>1. LInit => RInit BY DEF LInit
<1> QED BY <1>1, StepsTheReceiver, LinkInvariance, PTL DEF LSpec, RSpec

(* The variables of the composition keep their types.                      *)
THEOREM LinkTypeCorrect == LSpec => []LTypeOK
<1>1. TInv /\ RTypeOK => LTypeOK
  <2> SUFFICES ASSUME TInv, RTypeOK PROVE LTypeOK OBVIOUS
  <2>1. \A m \in net : m.frame \in Frames /\ m.at \in 0 .. now
    BY SentAreFrames DEF TInv, IsSent
  <2> QED BY <2>1 DEF LTypeOK, TInv
<1> QED BY <1>1, LinkInvariance, LinkUsesReceiver, LoopTypeCorrect, PTL

-----------------------------------------------------------------------------
(* Blocks of one owner: everything in c is what the sender put into block  *)
(* o, at the place it put it.                                              *)
BlockOwned(c, o) ==
  /\ c.N = TxN /\ c.K = TxK /\ c.len = payload_len
  /\ \A q \in 0 .. TxN - 1 : c.data[q] \in {Missing, token(o, q)}
  /\ \A j \in 0 .. TxK - 1 : c.parity[j] \in {Missing, token(o, TxN + j)}

LEMMA SentOrigin == Sent \subseteq Origins
<1> SUFFICES ASSUME NEW o \in Sent PROVE o \in Origins OBVIOUS
<1>1. PICK r \in 1 .. MaxRuns, k \in 0 .. Blocks - 1 : o = <<r, k>> BY DEF Sent
<1> QED BY <1>1, LinkAssumption

LEMMA TokenFields ==
  ASSUME NEW o, NEW p
  PROVE  token(o, p).origin = o /\ token(o, p).pos = p /\ token(o, p).len = payload_len
BY DEF token

LEMMA OwnedShape ==
  ASSUME NEW o, NEW c, Sound(c), BlockOwned(c, o)
  PROVE  SoundOf(c, TxN, TxK)
<1>1. PICK n \in Ns, k \in Ks : SoundOf(c, n, k) BY DEF Sound
<1>2. c.N = n /\ c.K = k BY <1>1 DEF SoundOf, BlockOf
<1> QED BY <1>1, <1>2 DEF BlockOwned

(* A frame of o that goes to a block of o leaves it one.                   *)
LEMMA OwnedIngest ==
  ASSUME NEW o \in Sent, NEW g, NEW p \in 0 .. TxN + TxK - 1, NEW t \in Nat,
         NEW c \in BlockOf(TxN, TxK), BlockOwned(c, o)
  PROVE  BlockOwned(ingest(c, t, sent_frame(o, g, p)), o)
<1> DEFINE f == sent_frame(o, g, p)
           s == start(c, t)
           d == ingest(c, t, f)
<1>1. /\ f.seq = p /\ f.n = TxN /\ f.pay = token(o, p)
      /\ p >= TxN => f.pidx = p - TxN
  BY SentFrame
<1>2. p \in Nat /\ TxN \in Nat /\ TxK \in Nat /\ p < TxN + TxK BY Options
<1>3. BlockOwned(s, o) /\ s \in BlockOf(TxN, TxK)
  BY DEF start, BlockOwned, BlockOf
<1>4. CASE p < TxN
  <2>1. ~(p >= TxN) BY <1>2, <1>4
  <2>2. d = put_data(s, p, token(o, p))
    BY <1>1, <2>1 DEF ingest, is_parity_frame
  <2> HIDE DEF d, s
  <2>3. /\ d.N = s.N /\ d.K = s.K /\ d.len = s.len
        /\ d.data = [s.data EXCEPT ![p] = token(o, p)] /\ d.parity = s.parity
    BY <1>3, <1>4, <2>2 DEF put_data, BlockOwned, BlockOf
  <2>4. s.data \in [0 .. TxN - 1 -> Slot] BY <1>3 DEF BlockOf
  <2>5. \A q \in 0 .. TxN - 1 : d.data[q] = IF q = p THEN token(o, q) ELSE s.data[q]
    BY <2>3, <2>4
  <2> QED BY <1>3, <2>3, <2>5 DEF BlockOwned, d
<1>5. CASE p >= TxN
  <2> DEFINE j == p - TxN
  <2>1. j \in 0 .. TxK - 1 /\ j \in Nat /\ TxN + j = p BY <1>2, <1>5
  <2>2. d = put_parity(s, j, token(o, p))
    BY <1>1, <1>5 DEF ingest, is_parity_frame
  <2>3. j < s.K /\ s.K \in Nat BY <1>2, <1>3, <2>1 DEF BlockOwned
  <2> HIDE DEF d, s, j
  <2>4. /\ d.N = s.N /\ d.K = s.K /\ d.len = s.len
        /\ d.parity = [s.parity EXCEPT ![j] = token(o, p)] /\ d.data = s.data
    BY <1>3, <2>2, <2>3 DEF put_parity, BlockOf
  <2>5. s.parity \in [0 .. TxK - 1 -> Slot] BY <1>3 DEF BlockOf
  <2>6. \A q \in 0 .. TxK - 1 :
          d.parity[q] = IF q = j THEN token(o, TxN + q) ELSE s.parity[q]
    BY <2>1, <2>4, <2>5
  <2> QED BY <1>3, <2>4, <2>6 DEF BlockOwned, d
<1> QED BY <1>2, <1>4, <1>5

LEMMA OwnedNew ==
  ASSUME NEW o \in Sent, NEW g, NEW p \in 0 .. TxN + TxK - 1,
         sent_frame(o, g, p) \in Frames, accepts(sent_frame(o, g, p))
  PROVE  LET c == RxBlock(sent_frame(o, g, p)) IN BlockOwned(c, o) /\ c \in BlockOf(TxN, TxK)
<1> DEFINE f == sent_frame(o, g, p)
<1>1. f.n = TxN /\ f.k = TxK /\ f.pay.len = payload_len BY SentFrame, TokenFields
<1>2. RxBlock(f) \in BlockOf(TxN, TxK) BY <1>1, NewBlockIsFresh DEF Fresh
<1> HIDE DEF f
<1>3. BlockOwned(RxBlock(f), o) BY <1>1 DEF RxBlock, BlockOwned
<1> QED BY <1>2, <1>3 DEF f

(* The equations a block of o is decoded from are o's own, and they are    *)
(* used only if there are as many of them as holes.                        *)
LEMMA OwnedConsistent ==
  ASSUME NEW o \in Sent, NEW c, Sound(c), BlockOwned(c, o), NEW R \in SUBSET rows(c)
  PROVE  consistent(c, R, o)
<1>1. SoundOf(c, TxN, TxK) BY OwnedShape
<1>2. c \in BlockOf(TxN, TxK) /\ c.N = TxN /\ c.K = TxK BY <1>1 DEF SoundOf, BlockOwned
<1>3. ASSUME NEW q \in (0 .. c.N - 1) \ lost(c)
      PROVE  c.data[q].origin = o /\ c.data[q].pos = q
  <2>1. c.data[q] # Missing BY DEF lost, full
  <2>2. c.data[q] = token(o, q) BY <1>2, <2>1 DEF BlockOwned
  <2> QED BY <2>2, TokenFields
<1>4. ASSUME NEW j \in R
      PROVE  c.parity[j].origin = o /\ c.parity[j].pos = c.N + j
  <2>1. j \in 0 .. TxK - 1 /\ c.parity[j] # Missing BY <1>2 DEF rows, full
  <2>2. c.parity[j] = token(o, TxN + j) BY <2>1 DEF BlockOwned
  <2> QED BY <1>2, <2>2, TokenFields
<1> QED BY <1>3, <1>4 DEF consistent

LEMMA OwnedCounts ==
  ASSUME NEW o \in Sent, NEW c, Sound(c), BlockOwned(c, o), recovered(c) # {}
  PROVE  /\ rows(c) \in SUBSET Nat /\ IsFiniteSet(rows(c))
         /\ Cardinality(lost(c)) \in Nat \ {0}
         /\ Cardinality(lost(c)) <= Cardinality(rows(c))
<1>1. c.N = TxN /\ c.K = TxK BY DEF BlockOwned
<1>2. rows(c) \in SUBSET (0 .. TxK - 1) /\ lost(c) \in SUBSET (0 .. TxN - 1)
  BY <1>1 DEF rows, lost
<1>3. IsFiniteSet(0 .. TxK - 1) /\ IsFiniteSet(0 .. TxN - 1)
  <2>1. 0 \in Int /\ TxK - 1 \in Int /\ TxN - 1 \in Int BY Options
  <2> QED BY <2>1, FS_Interval
<1>4. IsFiniteSet(rows(c)) /\ IsFiniteSet(lost(c)) BY <1>2, <1>3, FS_Subset
<1>5. Cardinality(lost(c)) \in Nat /\ Cardinality(rows(c)) \in Nat
  BY <1>4, FS_CardinalityType
<1>6. xor_recovers(c) \/ gf256_recovers(c) BY DEF recovered
<1>7. CASE xor_recovers(c)
  <2>1. 0 \in rows(c) /\ Cardinality(lost(c)) = 1 BY <1>7 DEF xor_recovers
  <2>2. Cardinality(rows(c)) # 0 BY <1>4, <2>1, FS_EmptySet
  <2> QED BY <1>2, <1>4, <1>5, <2>1, <2>2
<1>8. CASE gf256_recovers(c)
  <2>1. lost(c) # {} /\ Cardinality(rows(c)) >= Cardinality(lost(c))
    BY <1>8 DEF gf256_recovers
  <2>2. Cardinality(lost(c)) # 0 BY <1>4, <2>1, FS_EmptySet
  <2> QED BY <1>2, <1>4, <1>5, <2>1, <2>2
<1> QED BY <1>6, <1>7, <1>8

LEMMA OwnedDecode ==
  ASSUME NEW o \in Sent, NEW c, Sound(c), BlockOwned(c, o), recovered(c) # {}, NEW q
  PROVE  decode(c, first_rows(c, Cardinality(lost(c))), q) = token(o, q)
<1> DEFINE m == Cardinality(lost(c))
           R == first_rows(c, m)
           w == CHOOSE v \in Origins : consistent(c, R, v)
<1>1. /\ rows(c) \in SUBSET Nat /\ IsFiniteSet(rows(c)) /\ m \in Nat /\ m # 0
      /\ m <= Cardinality(rows(c))
  BY OwnedCounts
<1>2. R \in SUBSET rows(c) BY DEF first_rows
<1>3. Cardinality(R) >= m
  <2> HIDE DEF m
  <2>1. R = {j \in rows(c) : Cardinality({h \in rows(c) : h < j}) < m} BY DEF first_rows
  <2> QED BY <1>1, <2>1, Smallest
<1>4. consistent(c, R, o) /\ o \in Origins BY <1>2, OwnedConsistent, SentOrigin
<1>5. w \in Origins /\ consistent(c, R, w) BY <1>4
<1>6. R # {}
  <2> SUFFICES ASSUME R = {} PROVE FALSE OBVIOUS
  <2>1. Cardinality({}) = 0 BY FS_EmptySet
  <2> HIDE DEF R, m
  <2> QED BY <1>1, <1>3, <2>1
<1>7. w = o
  <2> HIDE DEF w, R
  <2> QED BY <1>4, <1>5, <1>6 DEF consistent
<1>8. decode(c, R, q) = [origin |-> w, pos |-> q, len |-> c.len]
  <2> HIDE DEF R
  <2>1. \E v \in Origins : consistent(c, R, v) BY <1>4
  <2> QED BY <1>3, <2>1 DEF decode
<1> QED BY <1>7, <1>8 DEF token, BlockOwned

LEMMA OwnedExtract ==
  ASSUME NEW o \in Sent, NEW c, Sound(c), BlockOwned(c, o), NEW g
  PROVE  LET e == extract_closed(g, c)
         IN e.N = TxN /\ e.len = payload_len
            /\ \A q \in 0 .. TxN - 1 : e.data[q] \in {Missing, token(o, q)}
<1> DEFINE e == extract_closed(g, c)
<1>1. c.N = TxN /\ c.len = payload_len BY DEF BlockOwned
<1>2. ASSUME NEW q \in 0 .. TxN - 1 PROVE e.data[q] \in {Missing, token(o, q)}
  <2>1. e.data[q] = IF q \in recovered(c)
                    THEN decode(c, first_rows(c, Cardinality(lost(c))), q)
                    ELSE c.data[q]
    BY <1>1 DEF extract_closed
  <2>2. CASE q \in recovered(c) BY <2>1, <2>2, OwnedDecode
  <2>3. CASE q \notin recovered(c) BY <2>1, <2>3 DEF BlockOwned
  <2> QED BY <2>2, <2>3
<1>3. e.N = TxN /\ e.len = payload_len BY <1>1 DEF extract_closed
<1> QED BY <1>2, <1>3

-----------------------------------------------------------------------------
(* The inductive invariant.  s is the id the present incarnation began     *)
(* with and own gives the block that carries an id: ids run behind the     *)
(* clock, so neither a later block nor a later incarnation takes one that  *)
(* a datagram on the path or a block in the table still carries.           *)
Ids(s) ==
  /\ spc = "assemble" => next_gen_id = s + b /\ next_gen_id <= wake
  /\ spc = "send" => /\ gen = s + b /\ next_gen_id = gen + 1 /\ gen <= now
                     /\ i >= 1 /\ TxN >= 2 => gen + 1 <= wake
                     /\ i >= TxN => wake <= now

Fits(s, own, g) ==
  /\ g \in GenIds /\ g <= now
  /\ own[g][1] = run => g = s + own[g][2]
  /\ own[g][1] # run => own[g][1] < run /\ g < s

OnPath(s, own) ==
  \A x \in net : Fits(s, own, x.frame.gen) /\ x.frame.pay.origin = own[x.frame.gen]

InTable(s, own) ==
  \A g \in Open : Fits(s, own, g) /\ BlockOwned(blocks[g], own[g])

Owns(s, own) == Ids(s) /\ OnPath(s, own) /\ InTable(s, own)

OInv == BlockIntegrity /\ \E s \in Nat, own \in [GenIds -> Sent] : Owns(s, own)

(* Ids fit their 32 bits, and every block takes a millisecond: it has a    *)
(* paced frame, or the user asked for a pause between blocks.              *)
NoWrap == MaxTime + 1 < GenWrap
Paced == TxN >= 2 \/ InterBlockMs >= 1

LEMMA InitOInv == LInit => OInv
<1> SUFFICES ASSUME LInit PROVE OInv OBVIOUS
<1>1. S!u32(0) = 0 BY Wrapped, Options
<1>2. Ids(0) BY <1>1 DEF LInit, S!SInit, Ids
<1>3. <<1, 0>> \in Sent BY Options DEF Sent
<1>4. [g \in GenIds |-> <<1, 0>>] \in [GenIds -> Sent] BY <1>3
<1>5. net = {} /\ Open = {} BY DEF LInit, S!SInit, RInit, Init, Open
<1>6. \A own : Owns(0, own) BY <1>2, <1>5 DEF Owns, OnPath, InTable
<1>7. BlockIntegrity BY DEF LInit, RInit, Init, BlockIntegrity
<1> QED BY <1>4, <1>6, <1>7 DEF OInv

LEMMA Numbers ==
  ASSUME TInv
  PROVE  /\ now \in Nat /\ wake \in Nat /\ run \in Nat /\ b \in Nat /\ i \in Nat
         /\ gen \in Nat /\ next_gen_id \in Nat /\ now <= MaxTime
         /\ i <= TxN + TxK /\ GenIds \subseteq Nat
BY Options DEF TInv, GenIds

LEMMA Owner ==
  ASSUME NEW own \in [GenIds -> Sent], NEW g \in GenIds
  PROVE  /\ own[g] \in Sent /\ own[g][1] \in Nat /\ own[g][2] \in Nat
         /\ own[g] = <<own[g][1], own[g][2]>>
BY Options DEF Sent

(* What is true of an id stays true of it while the sender's incarnation   *)
(* lasts.                                                                  *)
LEMMA FitsOn ==
  ASSUME TInv, NEW s \in Nat, NEW own \in [GenIds -> Sent], NEW g, Fits(s, own, g),
         run' = run, now' \in Nat, now <= now'
  PROVE  Fits(s, own, g)'
<1>1. g \in Nat /\ now \in Nat BY Numbers DEF Fits
<1>2. g <= now' BY <1>1 DEF Fits
<1> QED BY <1>2 DEF Fits

LEMMA PathOn ==
  ASSUME TInv, NEW s \in Nat, NEW own \in [GenIds -> Sent], OnPath(s, own),
         run' = run, now' \in Nat, now <= now', net' \subseteq net
  PROVE  OnPath(s, own)'
<1> SUFFICES ASSUME NEW x \in net'
             PROVE  Fits(s, own, x.frame.gen)' /\ x.frame.pay.origin = own[x.frame.gen]
  BY DEF OnPath
<1> QED BY FitsOn DEF OnPath

LEMMA TableOn ==
  ASSUME TInv, NEW s \in Nat, NEW own \in [GenIds -> Sent], InTable(s, own),
         run' = run, now' \in Nat, now <= now', payload_len' = payload_len,
         Open' \subseteq Open, \A g \in Open' : blocks'[g] = blocks[g]
  PROVE  InTable(s, own)'
<1>1. \A o, c : BlockOwned(c, o)' <=> BlockOwned(c, o) BY DEF BlockOwned, token
<1>2. ASSUME NEW g \in Open' PROVE Fits(s, own, g)' /\ BlockOwned(blocks[g], own[g])'
  <2>1. Fits(s, own, g) /\ BlockOwned(blocks[g], own[g]) BY DEF InTable
  <2>2. PICK c : c = blocks[g] OBVIOUS
  <2>3. BlockOwned(c, own[g])' BY <1>1, <2>1, <2>2
  <2> QED BY <2>1, <2>2, <2>3, FitsOn DEF BlockOwned
<1> QED BY <1>2 DEF InTable

(* A datagram comes to the receiver.                                       *)
LEMMA RecvOwned ==
  ASSUME TInv, RIInv, NEW s \in Nat, NEW own \in [GenIds -> Sent], Owns(s, own),
         NEW m \in net, Recv(m.frame), UNCHANGED sender, net' \subseteq net
  PROVE  Owns(s, own)' /\ BlockIntegrity'
<1> DEFINE f == m.frame
           g == m.frame.gen
<1>1. /\ f \in Frames /\ g \in GenIds /\ g \in Gens /\ now \in Nat
      /\ Fits(s, own, g) /\ f.pay.origin = own[g]
  BY SentAreFrames, FrameFields, Numbers DEF Owns, OnPath
<1>2. UNCHANGED <<spc, run, b, i, gen, next_gen_id, wake, payload_len>> BY DEF sender
<1>3. now' = now /\ out' = NoBlock BY DEF Recv, Ingest, IngestRefused
<1>4. Ids(s)' BY <1>2, <1>3 DEF Owns, Ids
<1>5. OnPath(s, own)' BY <1>1, <1>2, <1>3, PathOn DEF Owns
<1>6. InTable(s, own)'
  <2>1. CASE IngestRefused(f)
    <3>1. Open' = Open /\ blocks' = blocks BY <2>1 DEF IngestRefused, Open
    <3> QED BY <1>1, <1>2, <1>3, <3>1, TableOn DEF Owns
  <2>2. CASE Ingest(f)
    <3>1. /\ blocks' = [blocks EXCEPT ![g] = ingest(find_or_emplace(f), now, f)]
          /\ accepts(f)
      BY <2>2 DEF Ingest
    <3>2. PICK o \in Sent, h \in GenIds, p \in 0 .. TxN + TxK - 1 : f = sent_frame(o, h, p)
      BY DEF TInv, IsSent
    <3>3. o = own[g] BY <1>1, <3>2, SentFrame, TokenFields
    <3>4. BlockOwned(find_or_emplace(f), o) /\ find_or_emplace(f) \in BlockOf(TxN, TxK)
      <4>1. CASE blocks[g] = NoBlock
        BY <1>1, <3>1, <3>2, <4>1, OwnedNew DEF find_or_emplace
      <4>2. CASE blocks[g] # NoBlock
        <5>1. g \in Open BY <1>1, <4>2 DEF Open
        <5>2. Sound(blocks[g]) /\ BlockOwned(blocks[g], o)
          BY <3>3, <5>1 DEF Owns, InTable, RIInv, IInv
        <5> QED BY <4>2, <5>2, OwnedShape DEF find_or_emplace, SoundOf
      <4> QED BY <4>1, <4>2
    <3>5. BlockOwned(ingest(find_or_emplace(f), now, f), own[g])
      <4>1. \A c \in BlockOf(TxN, TxK) :
              BlockOwned(c, o) => BlockOwned(ingest(c, now, sent_frame(o, h, p)), o)
        BY <1>1, OwnedIngest
      <4> QED BY <3>2, <3>3, <3>4, <4>1
    <3>6. \A o1, c : BlockOwned(c, o1)' <=> BlockOwned(c, o1) BY <1>2 DEF BlockOwned, token
    <3>7. ASSUME NEW q \in Open'
          PROVE  Fits(s, own, q)' /\ BlockOwned(blocks'[q], own[q])
      <4>1. CASE q = g
        <5>1. blocks'[q] = ingest(find_or_emplace(f), now, f)
          BY <1>1, <3>1, <4>1 DEF RIInv, IInv
        <5>2. Fits(s, own, q) BY <1>1, <4>1
        <5> QED BY <1>1, <1>2, <1>3, <3>5, <4>1, <5>1, <5>2, FitsOn
      <4>2. CASE q # g
        <5>1. blocks'[q] = blocks[q] /\ q \in Open
          BY <3>1, <4>2 DEF Open, RIInv, IInv
        <5> QED BY <1>1, <1>2, <1>3, <5>1, FitsOn DEF Owns, InTable
      <4> QED BY <4>1, <4>2
    <3>8. ASSUME NEW q \in Open' PROVE BlockOwned(blocks[q], own[q])'
      <4>1. PICK c : c = blocks'[q] OBVIOUS
      <4>2. BlockOwned(c, own[q])' BY <3>6, <3>7, <4>1
      <4> QED BY <4>1, <4>2 DEF BlockOwned
    <3> QED BY <3>7, <3>8 DEF InTable
  <2> QED BY <2>1, <2>2 DEF Recv
<1> QED BY <1>3, <1>4, <1>5, <1>6 DEF Owns, BlockIntegrity

(* A block is closed.                                                      *)
LEMMA CloseOwned ==
  ASSUME RIInv, NEW s \in Nat, NEW own \in [GenIds -> Sent], Owns(s, own),
         NEW g \in Gens, close_if_ready(g)
  PROVE  BlockIntegrity'
<1>1. g \in Open /\ out' = extract_closed(g, blocks[g]) BY DEF close_if_ready, Due
<1>2. Sound(blocks[g]) /\ BlockOwned(blocks[g], own[g]) /\ g \in GenIds
  BY <1>1 DEF Owns, InTable, Fits, RIInv, IInv
<1>3. PICK o \in Sent : o = own[g] BY <1>2
<1>4. /\ out'.N = TxN /\ out'.len = payload_len
      /\ \A q \in 0 .. TxN - 1 : out'.data[q] \in {Missing, token(o, q)}
  BY <1>1, <1>2, <1>3, OwnedExtract
<1>5. o \in Origins BY SentOrigin
<1> QED BY <1>4, <1>5 DEF BlockIntegrity, token

(* The sender sends a frame: from now on its block owns the id.            *)
LEMMA SendOwned ==
  ASSUME TInv, NEW s \in Nat, NEW own \in [GenIds -> Sent], Owns(s, own),
         S!SendFrame, UNCHANGED receiver
  PROVE  \E own2 \in [GenIds -> Sent] : Owns(s, own2)'
<1>0. /\ now \in Nat /\ run \in Nat /\ b \in Nat /\ i \in Nat /\ wake \in Nat
      /\ i < TxN + TxK /\ now >= wake /\ spc = "send" /\ b < Blocks /\ run \in 1 .. MaxRuns
      /\ b \in 0 .. Blocks - 1
  BY Numbers, Options DEF S!SendFrame, TInv
<1>o. PICK o : o = <<run, b>> OBVIOUS
<1>w. PICK own2 : own2 = [own EXCEPT ![gen] = o] OBVIOUS
<1>1. /\ net' = net \cup {[frame |-> S!block_frames[i], at |-> now]} /\ i' = i + 1
      /\ wake' = IF i + 1 < TxN THEN now + S!dt_ms ELSE now
      /\ UNCHANGED <<now, payload_len, spc, run, b, gen, next_gen_id>>
  BY DEF S!SendFrame
<1>2. gen = s + b /\ next_gen_id = gen + 1 /\ gen <= now /\ gen \in GenIds
      /\ (i >= 1 /\ TxN >= 2 => gen + 1 <= wake)
  BY <1>0 DEF Owns, Ids, TInv
<1>3. o \in Sent /\ o[1] = run /\ o[2] = b BY <1>0, <1>o DEF Sent
<1>4. own2 \in [GenIds -> Sent] BY <1>2, <1>3, <1>w
<1>5. \A g \in GenIds : own2[g] = IF g = gen THEN o ELSE own[g] BY <1>2, <1>w
(* An id in use keeps its owner: if it is this one, its owner is this      *)
(* block.                                                                  *)
<1>6. ASSUME NEW g, Fits(s, own, g) PROVE own2[g] = own[g]
  <2>1. g \in GenIds /\ (own[g][1] = run => g = s + own[g][2]) /\ (own[g][1] # run => g < s)
    BY <1>6 DEF Fits
  <2>2. CASE g = gen
    <3>1. own[g][1] \in Nat /\ own[g][2] \in Nat /\ own[g] = <<own[g][1], own[g][2]>>
      BY <2>1, Owner
    <3>2. ~(s + b < s) BY <1>0
    <3>3. own[g][1] = run BY <1>2, <2>1, <2>2, <3>2
    <3>4. s + b = s + own[g][2] BY <1>2, <2>1, <2>2, <3>3
    <3>5. own[g][2] = b BY <1>0, <3>1, <3>4
    <3> QED BY <1>5, <1>o, <2>1, <2>2, <3>1, <3>3, <3>5
  <2>3. CASE g # gen BY <1>5, <2>1, <2>3
  <2> QED BY <2>2, <2>3
<1>7. ASSUME NEW g, Fits(s, own, g) PROVE Fits(s, own2, g)'
  BY <1>1, <1>6, <1>7 DEF Fits
<1>8. Fits(s, own2, gen)' BY <1>1, <1>2, <1>3, <1>5 DEF Fits
<1>9. Ids(s)'
  <2>1. gen' = s + b' /\ next_gen_id' = gen' + 1 /\ gen' <= now' BY <1>1, <1>2
  <2>2. i' >= 1 /\ TxN >= 2 => gen' + 1 <= wake'
    <3>1. gen \in Nat BY Numbers
    <3> QED BY <1>0, <1>1, <1>2, <3>1, Pause, Options
  <2>3. i' >= TxN => wake' <= now' BY <1>0, <1>1, Options
  <2>4. spc' = "send" BY <1>0, <1>1
  <2> QED BY <2>1, <2>2, <2>3, <2>4 DEF Ids
<1>10. OnPath(s, own2)'
  <2>1. ASSUME NEW x \in net
        PROVE  Fits(s, own2, x.frame.gen)' /\ x.frame.pay.origin = own2[x.frame.gen]
    BY <1>6, <1>7 DEF Owns, OnPath
  <2>2. PICK y : y = [frame |-> S!block_frames[i], at |-> now] OBVIOUS
  <2>3. y.frame = sent_frame(<<run, b>>, gen, i) BY <2>2 DEF S!block_frames, sent_frame
  <2>4. i \in 0 .. TxN + TxK - 1 BY <1>0, Options
  <2>5. y.frame.gen = gen /\ y.frame.pay.origin = o BY <1>o, <2>3, <2>4, SentFrame, TokenFields
  <2>6. own2[gen] = o BY <1>2, <1>5
  <2>7. Fits(s, own2, y.frame.gen)'
    <3>1. PICK g : g = gen OBVIOUS
    <3>2. gen' = g BY <1>1, <3>1
    <3>3. Fits(s, own2, g)' BY <1>8, <3>2 DEF Fits
    <3> QED BY <2>5, <3>1, <3>3
  <2>8. \A x \in net' : x \in net \/ x = y BY <1>1, <2>2
  <2>9. ASSUME NEW x \in net'
        PROVE  Fits(s, own2, x.frame.gen)' /\ x.frame.pay.origin = own2[x.frame.gen]
    BY <2>1, <2>5, <2>6, <2>7, <2>8
  <2> QED BY <2>9 DEF OnPath
<1>11. InTable(s, own2)'
  <2>1. Open' = Open /\ blocks' = blocks BY DEF receiver, Open
  <2>2. ASSUME NEW g \in Open' PROVE Fits(s, own2, g)' /\ BlockOwned(blocks[g], own2[g])'
    <3>1. Fits(s, own, g) /\ BlockOwned(blocks[g], own[g]) BY <2>1 DEF Owns, InTable
    <3>2. own2[g] = own[g] BY <1>6, <3>1
    <3>3. BlockOwned(blocks[g], own2[g])' BY <1>1, <2>1, <3>1, <3>2 DEF BlockOwned, token
    <3> QED BY <1>7, <3>1, <3>3
  <2> QED BY <2>2 DEF InTable
<1>12. Owns(s, own2)' BY <1>9, <1>10, <1>11 DEF Owns
<1> QED BY <1>4, <1>12

(* A new incarnation begins with an id above every one in use.             *)
LEMMA RestartOwned ==
  ASSUME NoWrap, TInv, NEW s \in Nat, NEW own \in [GenIds -> Sent], Owns(s, own),
         NEW d \in Ticks, Restarts(d)
  PROVE  \E s2 \in Nat : Owns(s2, own)'
<1>1. /\ d \in Nat /\ d > 0 /\ now \in Nat /\ now' = now + d /\ now' \in Nat /\ now' <= MaxTime
      /\ net' = net /\ run' = run + 1 /\ b' = 0 /\ spc' = "assemble"
      /\ next_gen_id' = S!u32(now') /\ wake' = now' /\ blocks' = blocks
      /\ payload_len' = payload_len /\ run \in Nat
  BY Numbers, Options DEF Restarts, S!Restart, S!Start
<1>2. PICK t \in Nat : t = now' BY <1>1
<1>3. next_gen_id' = t BY <1>1, <1>2, Options, Wrapped DEF NoWrap
<1>4. Ids(t)' BY <1>1, <1>2, <1>3 DEF Ids
<1>5. ASSUME NEW g, Fits(s, own, g) PROVE Fits(t, own, g)'
  <2>1. g \in GenIds /\ g \in Nat /\ own[g][1] \in Nat /\ g <= now
        /\ (own[g][1] # run => own[g][1] < run)
    BY <1>5, Owner, Numbers DEF Fits
  <2>2. own[g][1] < run' BY <1>1, <2>1
  <2>3. own[g][1] # run' BY <1>1, <2>1, <2>2
  <2>4. g < t /\ g <= now' BY <1>1, <1>2, <2>1
  <2> QED BY <2>1, <2>2, <2>3, <2>4 DEF Fits
<1>6. OnPath(t, own)' BY <1>1, <1>5 DEF Owns, OnPath
<1>7. InTable(t, own)'
  <2>1. Open' = Open BY <1>1 DEF Open
  <2>2. ASSUME NEW g \in Open' PROVE Fits(t, own, g)' /\ BlockOwned(blocks[g], own[g])'
    <3>1. Fits(s, own, g) /\ BlockOwned(blocks[g], own[g]) BY <2>1 DEF Owns, InTable
    <3>2. BlockOwned(blocks[g], own[g])' BY <1>1, <3>1 DEF BlockOwned, token
    <3> QED BY <1>5, <3>1, <3>2
  <2> QED BY <2>2 DEF InTable
<1> QED BY <1>4, <1>6, <1>7 DEF Owns

LEMMA NextOInv ==
  ASSUME NoWrap, Paced
  PROVE  TInv /\ RIInv /\ OInv /\ [LNext]_lvars => OInv'
<1> SUFFICES ASSUME TInv, RIInv, OInv, [LNext]_lvars PROVE OInv' OBVIOUS
<1>1. PICK s \in Nat, own \in [GenIds -> Sent] : Owns(s, own) BY DEF OInv
<1>2. /\ now \in Nat /\ wake \in Nat /\ run \in Nat /\ b \in Nat /\ i \in Nat
      /\ gen \in Nat /\ next_gen_id \in Nat /\ now <= MaxTime
  BY Numbers
<1>3. /\ Ids(s) /\ OnPath(s, own) /\ InTable(s, own) /\ BlockIntegrity
  BY <1>1 DEF Owns, OInv
<1>4. ASSUME UNCHANGED <<now, net, run, payload_len, blocks, out>>, Ids(s)'
      PROVE  OInv'
  <2>1. OnPath(s, own)' BY <1>2, <1>3, <1>4, PathOn
  <2>2. InTable(s, own)'
    <3>1. Open' = Open BY <1>4 DEF Open
    <3> QED BY <1>2, <1>3, <1>4, <3>1, TableOn
  <2>3. BlockIntegrity' BY <1>3, <1>4 DEF BlockIntegrity
  <2> QED BY <1>4, <2>1, <2>2, <2>3 DEF OInv, Owns
<1>5. CASE S!Assemble /\ UNCHANGED receiver
  <2>1. UNCHANGED <<now, net, run, payload_len, blocks, out>>
    BY <1>5 DEF S!Assemble, receiver
  <2>2. next_gen_id + 1 < GenWrap \/ spc' # "send"
    BY <1>2, <1>3, <1>5, Options DEF S!Assemble, Ids, NoWrap
  <2>3. S!u32(next_gen_id + 1) = next_gen_id + 1 \/ spc' # "send"
    BY <1>2, <2>2, Wrapped
  <2>4. Ids(s)' BY <1>2, <1>3, <1>5, <2>3, Options DEF S!Assemble, Ids
  <2> QED BY <1>4, <2>1, <2>4
<1>6. CASE S!SendFrame /\ UNCHANGED receiver
  <2>1. \E own2 \in [GenIds -> Sent] : Owns(s, own2)' BY <1>1, <1>6, SendOwned
  <2>2. BlockIntegrity' BY <1>3, <1>6 DEF BlockIntegrity, receiver
  <2> QED BY <2>1, <2>2 DEF OInv
<1>7. CASE S!NextBlock /\ UNCHANGED receiver
  <2>1. UNCHANGED <<now, net, run, payload_len, blocks, out>>
    BY <1>7 DEF S!NextBlock, receiver
  <2>2. gen + 1 <= now + InterBlockMs
    BY <1>2, <1>3, <1>7, Options DEF S!NextBlock, Ids, Paced
  <2>3. Ids(s)' BY <1>2, <1>3, <1>7, <2>2, Options DEF S!NextBlock, Ids
  <2> QED BY <1>4, <2>1, <2>3
<1>8. CASE (S!Finish \/ S!SendError \/ S!Kill) /\ UNCHANGED receiver
  <2>1. UNCHANGED <<now, net, run, payload_len, blocks, out>> /\ spc' \notin {"assemble", "send"}
    BY <1>8 DEF S!Finish, S!SendError, S!Kill, receiver
  <2>2. Ids(s)' BY <2>1 DEF Ids
  <2> QED BY <1>4, <2>1, <2>2
<1>9. ASSUME NEW m \in net, Deliver(m) \/ DeliverCopy(m) PROVE OInv'
  <2>1. Recv(m.frame) /\ UNCHANGED sender /\ net' \subseteq net
    BY <1>9 DEF Deliver, DeliverCopy
  <2>2. Owns(s, own)' /\ BlockIntegrity' BY <1>1, <2>1, RecvOwned
  <2> QED BY <2>2 DEF OInv
<1>10. ASSUME NEW m \in net, Damage(m) \/ Lose(m) \/ Discard(m) PROVE OInv'
  <2>1. UNCHANGED <<now, sender, blocks, out>> /\ net' \subseteq net
    BY <1>10 DEF Damage, RecvDamaged, table, Lose, Discard, receiver
  <2>2. UNCHANGED <<spc, run, b, i, gen, next_gen_id, wake, payload_len, blocks, out>>
    BY <2>1 DEF sender
  <2>3. OnPath(s, own)' BY <1>2, <1>3, <2>1, <2>2, PathOn
  <2>4. Open' = Open BY <2>2 DEF Open
  <2>5. InTable(s, own)' BY <1>2, <1>3, <2>1, <2>2, <2>4, TableOn
  <2>6. Ids(s)' BY <1>3, <2>1, <2>2 DEF Ids
  <2>7. BlockIntegrity' BY <1>3, <2>2 DEF BlockIntegrity
  <2> QED BY <2>3, <2>5, <2>6, <2>7 DEF OInv, Owns
<1>11. ASSUME UNCHANGED <<sender, net, now>>, Open' \subseteq Open,
              \A g \in Open' : blocks'[g] = blocks[g], BlockIntegrity'
       PROVE  OInv'
  <2>1. UNCHANGED <<spc, run, b, i, gen, next_gen_id, wake, payload_len>> BY <1>11 DEF sender
  <2>2. OnPath(s, own)' BY <1>2, <1>3, <1>11, <2>1, PathOn
  <2>3. InTable(s, own)' BY <1>2, <1>3, <1>11, <2>1, TableOn
  <2>4. Ids(s)' BY <1>3, <1>11, <2>1 DEF Ids
  <2> QED BY <1>11, <2>2, <2>3, <2>4 DEF OInv, Owns
<1>12. CASE ReceiverScans
  <2>1. UNCHANGED <<sender, net>> BY <1>12 DEF ReceiverScans
  <2>2. ASSUME NEW g \in Gens, ScanClose(g) PROVE OInv'
    <3>1. close_if_ready(g) BY <2>2 DEF ScanClose, CloseOne
    <3>2. BlockIntegrity' BY <1>1, <3>1, CloseOwned
    <3>3. Open' \subseteq Open /\ (\A h \in Open' : blocks'[h] = blocks[h]) /\ now' = now
      BY <3>1 DEF close_if_ready, Open, RIInv, IInv
    <3> QED BY <1>11, <2>1, <3>2, <3>3
  <2>3. ASSUME UNCHANGED table PROVE OInv'
    <3>1. UNCHANGED <<now, blocks, out>> BY <2>3 DEF table
    <3>2. Open' = Open BY <3>1 DEF Open
    <3>3. BlockIntegrity' BY <1>3, <3>1 DEF BlockIntegrity
    <3> QED BY <1>11, <2>1, <3>1, <3>2, <3>3
  <2> QED BY <1>12, <2>2, <2>3 DEF ReceiverScans, Scan, ScanSkip, ScanEnd, Continue
<1>13. CASE ReceiverFails
  <2>1. UNCHANGED <<sender, net, now, blocks, out>>
    BY <1>13 DEF ReceiverFails, RecvError, table
  <2>2. Open' = Open BY <2>1 DEF Open
  <2>3. BlockIntegrity' BY <1>3, <2>1 DEF BlockIntegrity
  <2> QED BY <1>11, <2>1, <2>2, <2>3
<1>14. ASSUME NEW d \in Ticks, Time(d) PROVE OInv'
  <2>1. /\ d \in Nat /\ now' = now + d /\ now' \in Nat /\ now <= now' /\ out' = NoBlock
        /\ UNCHANGED <<spc, run, b, i, gen, next_gen_id, wake, payload_len, net, blocks>>
    BY <1>2, <1>14, Options DEF Time, S!Sleep, S!process
  <2>2. Open' = Open BY <2>1 DEF Open
  <2>3. OnPath(s, own)' BY <1>3, <2>1, PathOn
  <2>4. InTable(s, own)' BY <1>3, <2>1, <2>2, TableOn
  <2>5. Ids(s)' BY <1>2, <1>3, <2>1 DEF Ids
  <2>6. BlockIntegrity' BY <2>1 DEF BlockIntegrity
  <2> QED BY <2>3, <2>4, <2>5, <2>6 DEF OInv, Owns
<1>15. ASSUME NEW d \in Ticks, Restarts(d) PROVE OInv'
  <2>1. \E s2 \in Nat : Owns(s2, own)' BY <1>1, <1>15, RestartOwned
  <2>2. BlockIntegrity' BY <1>15 DEF Restarts, BlockIntegrity
  <2> QED BY <2>1, <2>2 DEF OInv
<1>16. CASE UNCHANGED lvars
  <2>1. UNCHANGED <<sender, net, now, blocks, out>> BY <1>16 DEF lvars, receiver
  <2>2. Open' = Open BY <2>1 DEF Open
  <2>3. BlockIntegrity' BY <1>3, <2>1 DEF BlockIntegrity
  <2> QED BY <1>11, <2>1, <2>2, <2>3
<1> QED
  <2>1. S!Send => S!Assemble \/ S!SendFrame \/ S!NextBlock \/ S!Finish BY DEF S!Send
  <2> QED
    BY <1>5, <1>6, <1>7, <1>8, <1>9, <1>10, <1>12, <1>13, <1>14, <1>15, <1>16, <2>1
    DEF LNext, SenderSends, SenderFails, SenderKilled

(* Whatever the path loses, repeats and reorders and however often the     *)
(* sender is killed and started again, no block handed over mixes two      *)
(* assembled blocks: as long as ids fit their field and a block takes a    *)
(* millisecond.                                                            *)
THEOREM NothingMixed ==
  ASSUME NoWrap, Paced
  PROVE  LSpec => []BlockIntegrity
<1>1. TInv /\ RIInv /\ OInv /\ [LNext]_lvars => OInv' BY NextOInv
<1>2. OInv => BlockIntegrity BY DEF OInv
<1> QED
  BY <1>1, <1>2, InitOInv, LinkInvariance, LinkUsesReceiver, LoopInvariance, PTL DEF LSpec

-----------------------------------------------------------------------------
(* When a block is closed.                                                 *)
Deadline == IF ReorderMs < min_ms(TxN) THEN ReorderMs ELSE min_ms(TxN)

(* The pauses of the sender up to frame n of a block, all of them          *)
(* overslept.                                                              *)
Elapsed(n) == (IF n < TxN THEN n ELSE TxN - 1) * S!dt_ms + (n - 1) * Oversleep

Span == (TxN - 1) * S!dt_ms + (TxN + TxK - 1) * Oversleep

InDeadline == Span + MaxDelay < Deadline

LEMMA DeadlineType == Deadline \in Nat
BY MinMsType, Options, ConfigAssumption DEF Deadline

LEMMA Pausing ==
  /\ S!dt_ms \in Nat /\ Oversleep \in Nat /\ MaxDelay \in Nat /\ Span \in Nat
  /\ \A n \in Nat : Elapsed(n) \in Int
<1>1. S!dt_ms \in Nat /\ Oversleep \in Nat /\ MaxDelay \in Nat BY Pause, PathAssumption
<1>2. PICK d \in Nat : d = S!dt_ms BY <1>1
<1>3. \A a, c \in Int : a * c \in Int OBVIOUS
<1>4. \A a, c \in Nat : a * c \in Nat OBVIOUS
<1>5. TxN - 1 \in Nat /\ TxN + TxK - 1 \in Nat BY Options
<1>6. Span \in Nat BY <1>1, <1>4, <1>5 DEF Span
<1>7. \A n \in Nat : Elapsed(n) \in Int BY <1>1, <1>3, <1>5 DEF Elapsed
<1> QED BY <1>1, <1>6, <1>7

LEMMA NextPause ==
  ASSUME NEW n \in Nat
  PROVE  /\ n + 1 < TxN => /\ Elapsed(n + 1) = Elapsed(n) + S!dt_ms + Oversleep
                           /\ Elapsed(n + 1) >= S!dt_ms
         /\ n + 1 >= TxN => Elapsed(n + 1) >= Elapsed(n) + Oversleep /\ Elapsed(n + 1) >= 0
         /\ n < TxN + TxK => Elapsed(n) + Oversleep <= Span
<1>1. PICK d \in Nat : d = S!dt_ms BY Pausing
<1>2. PICK e \in Nat : e = Oversleep BY Pausing
<1>3. PICK N \in Nat : N = TxN /\ N >= 1 BY Options
<1>4. PICK K \in Nat : K = TxK BY Options
<1>5. \A a, c \in Nat : a * c \in Nat OBVIOUS
<1>6. n + 1 < N =>
        /\ (n + 1) * d + ((n + 1) - 1) * e = (n * d + (n - 1) * e) + d + e
        /\ (n + 1) * d + ((n + 1) - 1) * e >= d
  <2>1. n * d \in Nat /\ n * e \in Nat BY <1>5
  <2>2. (n + 1) * d = n * d + d /\ ((n + 1) - 1) * e = n * e /\ (n - 1) * e = n * e - e OBVIOUS
  <2> QED BY <2>1, <2>2
<1>7. n + 1 >= N /\ n < N =>
         /\ (N - 1) * d + ((n + 1) - 1) * e >= (n * d + (n - 1) * e) + e
         /\ (N - 1) * d + ((n + 1) - 1) * e >= 0
  <2>1. n + 1 >= N /\ n < N => N = n + 1 OBVIOUS
  <2>2. n * d \in Nat /\ n * e \in Nat BY <1>5
  <2>3. ((n + 1) - 1) * d = n * d /\ ((n + 1) - 1) * e = n * e /\ (n - 1) * e = n * e - e OBVIOUS
  <2> QED BY <2>1, <2>2, <2>3
<1>8. /\ (N - 1) * d + ((n + 1) - 1) * e >= ((N - 1) * d + (n - 1) * e) + e
      /\ (N - 1) * d + ((n + 1) - 1) * e >= 0
  <2>1. N - 1 \in Nat BY <1>3
  <2>2. (N - 1) * d \in Nat /\ n * e \in Nat BY <1>5, <2>1
  <2>3. ((n + 1) - 1) * e = n * e /\ (n - 1) * e = n * e - e OBVIOUS
  <2> QED BY <2>2, <2>3
<1>9. n < N + K => (n - 1) * e + e <= (N + K - 1) * e
  <2>1. SUFFICES ASSUME n < N + K PROVE (n - 1) * e + e <= (N + K - 1) * e OBVIOUS
  <2>2. PICK r \in Nat : N + K - 1 = n + r
    <3>1. N + K - 1 - n \in Nat /\ N + K - 1 = n + (N + K - 1 - n) BY <2>1
    <3> QED BY <3>1
  <2>3. (n + r) * e = n * e + r * e /\ r * e \in Nat BY <1>5
  <2>4. (n - 1) * e = n * e - e OBVIOUS
  <2>5. n * e \in Nat BY <1>5
  <2> QED BY <2>2, <2>3, <2>4, <2>5
<1>10. n < N => n * d <= (N - 1) * d
  <2>1. SUFFICES ASSUME n < N PROVE n * d <= (N - 1) * d OBVIOUS
  <2>2. PICK r \in Nat : N - 1 = n + r
    <3>1. N - 1 - n \in Nat /\ N - 1 = n + (N - 1 - n) BY <2>1
    <3> QED BY <3>1
  <2>3. (n + r) * d = n * d + r * d /\ r * d \in Nat BY <1>5
  <2>4. n * d \in Nat BY <1>5
  <2> QED BY <2>2, <2>3, <2>4
<1>11. /\ n * d \in Int /\ (N - 1) * d \in Int /\ (n - 1) * e \in Int /\ (N + K - 1) * e \in Int
       /\ ((n + 1) - 1) * e \in Int /\ (n + 1) * d \in Int
  OBVIOUS
<1>12. /\ Elapsed(n) = (IF n < N THEN n * d ELSE (N - 1) * d) + (n - 1) * e
       /\ Elapsed(n + 1) = (IF n + 1 < N THEN (n + 1) * d ELSE (N - 1) * d) + ((n + 1) - 1) * e
       /\ Span = (N - 1) * d + (N + K - 1) * e
  BY <1>1, <1>2, <1>3, <1>4 DEF Elapsed, Span
<1>13. n + 1 < N => Elapsed(n + 1) = Elapsed(n) + d + e /\ Elapsed(n + 1) >= d
  <2>1. n + 1 < N => n < N OBVIOUS
  <2> QED BY <1>6, <1>12, <2>1
<1>14. n + 1 >= N => Elapsed(n + 1) >= Elapsed(n) + e /\ Elapsed(n + 1) >= 0
  <2>1. n + 1 >= N => ~(n + 1 < N) BY <1>3
  <2> QED BY <1>7, <1>8, <1>12, <2>1
<1>15. n < N + K => Elapsed(n) + e <= Span BY <1>9, <1>10, <1>11, <1>12
<1> QED BY <1>1, <1>2, <1>3, <1>4, <1>13, <1>14, <1>15

-----------------------------------------------------------------------------
(* What a step does to the state the next invariants speak of.             *)
TakesUp ==
  /\ spc = "assemble" /\ spc' = "send" /\ S!assembles(TxN, TxK, payload_len, MaxPayloadLen)
  /\ gen' = next_gen_id /\ next_gen_id' = S!u32(next_gen_id + 1) /\ i' = 0
  /\ UNCHANGED <<now, payload_len, run, b, wake, net, blocks, pc, log, losses>>

PutsOnPath(x) ==
  /\ spc = "send" /\ i < TxN + TxK /\ now >= wake
  /\ x.frame = sent_frame(<<run, b>>, gen, i) /\ x.at = now
  /\ net' = net \cup {x} /\ i' = i + 1
  /\ wake' = IF i + 1 < TxN THEN now + S!dt_ms ELSE now
  /\ UNCHANGED <<now, payload_len, spc, run, b, gen, next_gen_id, blocks, pc, log, losses>>

EndsBlock ==
  /\ spc = "send" /\ i = TxN + TxK /\ spc' = "assemble"
  /\ b' = b + 1 /\ wake' = now + InterBlockMs
  /\ UNCHANGED <<now, payload_len, run, i, gen, next_gen_id, net, blocks, pc, log, losses>>

Stops ==
  /\ spc # "killed" /\ spc' \in {"finish", "done", "killed"}
  /\ UNCHANGED <<now, payload_len, run, b, i, gen, next_gen_id, wake, net, blocks, pc, log, losses>>

Hears(m) ==
  /\ Recv(m.frame) /\ pc = "recv" /\ pc' = "scan"
  /\ net' = net \ {m} \/ (net' = net /\ copies < MaxCopies)
  /\ UNCHANGED <<now, sender, log, losses>>

Drops(m) ==
  /\ net' = net \ {m}
  /\ losses' = losses + 1 \/ (pc = "done" /\ losses' = losses)
  /\ pc' = pc \/ (pc = "recv" /\ pc' = "again")
  /\ UNCHANGED <<now, sender, blocks, log>>

Closes(g) ==
  /\ ScanClose(g) /\ pc = "scan" /\ pc' \in {"scan", "done"}
  /\ UNCHANGED <<now, net, sender, losses>>

Idles ==
  /\ pc' = pc \/ (pc \in {"scan", "again"} /\ pc' = "recv") \/ (pc = "recv" /\ pc' = "done")
  /\ UNCHANGED <<now, net, sender, blocks, log, losses>>

Waits(d) ==
  /\ InTime(d) /\ now' = now + d
  /\ UNCHANGED <<net, sender, blocks, pc, log, losses>>

StartsOver(d) ==
  /\ InTime(d) /\ d > 0 /\ now' = now + d /\ now' <= MaxTime
  /\ spc = "killed" /\ spc' = "assemble" /\ run' = run + 1 /\ b' = 0 /\ i' = 0
  /\ gen' = S!u32(now') /\ next_gen_id' = S!u32(now') /\ wake' = now'
  /\ UNCHANGED <<net, payload_len, blocks, pc, log, losses>>

LinkStep ==
  \/ TakesUp \/ (\E x : PutsOnPath(x)) \/ EndsBlock \/ Stops
  \/ \E m \in net : Hears(m) \/ Drops(m)
  \/ \E g \in Gens : Closes(g)
  \/ Idles
  \/ \E d \in Ticks : Waits(d) \/ StartsOver(d)

LEMMA StepKinds == [LNext]_lvars => LinkStep
<1> SUFFICES ASSUME [LNext]_lvars PROVE LinkStep OBVIOUS
<1>1. CASE S!Assemble /\ UNCHANGED <<receiver, path>>
  <2>1. UNCHANGED <<blocks, pc, log, losses>> BY <1>1 DEF receiver, path
  <2>2. TakesUp \/ Stops BY <1>1, <2>1 DEF S!Assemble, TakesUp, Stops
  <2> QED BY <2>2 DEF LinkStep
<1>2. CASE S!SendFrame /\ UNCHANGED <<receiver, path>>
  <2>0. PICK x : x = [frame |-> S!block_frames[i], at |-> now] OBVIOUS
  <2>1. UNCHANGED <<blocks, pc, log, losses>> BY <1>2 DEF receiver, path
  <2>2. x.frame = sent_frame(<<run, b>>, gen, i) /\ x.at = now
    BY <2>0 DEF S!block_frames, sent_frame
  <2>3. PutsOnPath(x) BY <1>2, <2>0, <2>1, <2>2 DEF S!SendFrame, PutsOnPath
  <2> QED BY <2>3 DEF LinkStep
<1>3. CASE S!NextBlock /\ UNCHANGED <<receiver, path>>
  <2>1. UNCHANGED <<blocks, pc, log, losses>> BY <1>3 DEF receiver, path
  <2>2. EndsBlock BY <1>3, <2>1 DEF S!NextBlock, EndsBlock
  <2> QED BY <2>2 DEF LinkStep
<1>4. CASE (S!Finish \/ S!SendError \/ S!Kill) /\ UNCHANGED <<receiver, path>>
  <2>1. UNCHANGED <<blocks, pc, log, losses>> BY <1>4 DEF receiver, path
  <2>2. Stops BY <1>4, <2>1 DEF S!Finish, S!SendError, S!Kill, Stops
  <2> QED BY <2>2 DEF LinkStep
<1>5. ASSUME NEW m \in net, Deliver(m) \/ DeliverCopy(m) PROVE LinkStep
  <2>1. /\ Recv(m.frame) /\ UNCHANGED <<sender, losses>>
        /\ net' = net \ {m} \/ (net' = net /\ copies < MaxCopies)
    BY <1>5 DEF Deliver, DeliverCopy, path
  <2>2. pc = "recv" /\ pc' = "scan" /\ UNCHANGED <<now, log>>
    BY <2>1 DEF Recv, Ingest, IngestRefused, report
  <2>3. Hears(m) BY <2>1, <2>2 DEF Hears
  <2> QED BY <2>3 DEF LinkStep
<1>6. ASSUME NEW m \in net, Damage(m) \/ Lose(m) \/ Discard(m) PROVE LinkStep
  <2>1. Drops(m) BY <1>6 DEF Damage, RecvDamaged, table, report, Lose, Discard, Drops, receiver, path
  <2> QED BY <2>1 DEF LinkStep
<1>7. CASE ReceiverScans
  <2>1. UNCHANGED <<net, sender, losses>> BY <1>7 DEF ReceiverScans, path
  <2>2. ASSUME NEW g \in Gens, ScanClose(g) PROVE LinkStep
    <3>1. pc = "scan" /\ now' = now /\ pc' \in {"scan", "done"}
      BY <2>2 DEF ScanClose, CloseOne, close_if_ready, StopAt
    <3>2. Closes(g) BY <2>1, <2>2, <3>1 DEF Closes
    <3> QED BY <3>2 DEF LinkStep
  <2>3. ASSUME NEW g \in Gens, ScanSkip(g) PROVE LinkStep
    <3>1. Idles BY <2>1, <2>3 DEF ScanSkip, Idles, table, report
    <3> QED BY <3>1 DEF LinkStep
  <2>4. CASE ScanEnd
    <3>1. Idles BY <2>1, <2>4 DEF ScanEnd, Idles, table, report
    <3> QED BY <3>1 DEF LinkStep
  <2>5. CASE Continue
    <3>1. Idles BY <2>1, <2>5 DEF Continue, Idles, table, report
    <3> QED BY <3>1 DEF LinkStep
  <2> QED BY <1>7, <2>2, <2>3, <2>4, <2>5 DEF ReceiverScans, Scan
<1>8. CASE ReceiverFails
  <2>1. Idles BY <1>8 DEF ReceiverFails, RecvError, Idles, table, path
  <2> QED BY <2>1 DEF LinkStep
<1>9. ASSUME NEW d \in Ticks, Time(d) PROVE LinkStep
  <2>1. Waits(d) BY <1>9 DEF Time, S!Sleep, S!process, Waits, sender, path
  <2> QED BY <2>1 DEF LinkStep
<1>10. ASSUME NEW d \in Ticks, Restarts(d) PROVE LinkStep
  <2>1. StartsOver(d) BY <1>10 DEF Restarts, S!Restart, S!Start, StartsOver, path
  <2> QED BY <2>1 DEF LinkStep
<1>11. CASE UNCHANGED lvars
  <2>1. Idles BY <1>11 DEF lvars, receiver, path, Idles
  <2> QED BY <2>1 DEF LinkStep
<1> QED
  <2>1. S!Send => S!Assemble \/ S!SendFrame \/ S!NextBlock \/ S!Finish BY DEF S!Send
  <2> QED
    BY <1>1, <1>2, <1>3, <1>4, <1>5, <1>6, <1>7, <1>8, <1>9, <1>10, <1>11, <2>1
    DEF LNext, SenderSends, SenderFails, SenderKilled

-----------------------------------------------------------------------------
(* Ids in use: on the path, in the table, in the log.                      *)
Closed == {log[k].gen : k \in 1 .. Len(log)}
Used == {x.frame.gen : x \in net} \cup Open \cup Closed

(* The id of the next block is above all of them.                          *)
Below(g) == g <= now /\ (spc # "killed" => g <= gen /\ (i = 0 => g < gen))

Ordered ==
  /\ Used \subseteq Gens \cap Nat
  /\ \A g \in Used : Below(g)
  /\ spc = "assemble" => \/ next_gen_id = gen /\ i = 0
                         \/ next_gen_id = gen + 1 /\ i = TxN + TxK

LEMMA InitOrdered == LInit => Ordered
<1> SUFFICES ASSUME LInit PROVE Ordered OBVIOUS
<1>1. Used = {} BY DEF LInit, S!SInit, RInit, Init, Used, Open, Closed
<1> QED BY <1>1 DEF LInit, S!SInit, Ordered

(* A close moves one id from the table to the log.                         *)
LEMMA ClosesOne ==
  ASSUME RIInv, NEW g \in Gens, Closes(g)
  PROVE  /\ g \in Open /\ should_close(blocks[g], now)
         /\ Open' = Open \ {g} /\ (\A h \in Open' : blocks'[h] = blocks[h])
         /\ log' = Append(log, closed_line(extract_closed(g, blocks[g])))
         /\ Len(log) \in Nat /\ Len(log') = Len(log) + 1
         /\ (\A k \in 1 .. Len(log) : log'[k] = log[k])
         /\ log'[Len(log) + 1] = closed_line(extract_closed(g, blocks[g]))
         /\ log'[Len(log) + 1].gen = g
         /\ Closed' = Closed \cup {g}
<1>1. close_if_ready(g) /\ log' = Append(log, closed_line(out')) /\ IInv
  BY DEF Closes, ScanClose, CloseOne, RIInv
<1>2. /\ g \in Open /\ should_close(blocks[g], now) /\ out' = extract_closed(g, blocks[g])
      /\ blocks' = [blocks EXCEPT ![g] = NoBlock]
  BY <1>1 DEF close_if_ready, Due
<1>3. Open' = Open \ {g} /\ (\A h \in Open' : blocks'[h] = blocks[h])
  BY <1>2 DEF Open, RIInv, IInv
<1>4. PICK c : c = closed_line(extract_closed(g, blocks[g])) OBVIOUS
<1>5. c.gen = g BY <1>4 DEF closed_line, extract_closed
<1>6. log' = Append(log, c) BY <1>1, <1>2, <1>4
<1>7. log \in Seq(Line \cup {c})
  <2>1. log \in Seq(Line) BY DEF RIInv, Counting
  <2> QED BY <2>1
<1>8. /\ Len(log) \in Nat /\ Len(log') = Len(log) + 1
      /\ (\A k \in 1 .. Len(log) : log'[k] = log[k]) /\ log'[Len(log) + 1] = c
  BY <1>6, <1>7
<1>9. Closed' = Closed \cup {g}
  <2>1. ASSUME NEW h \in Closed' PROVE h \in Closed \cup {g}
    <3>1. PICK k \in 1 .. Len(log') : h = log'[k].gen BY DEF Closed
    <3>2. k \in 1 .. Len(log) \/ k = Len(log) + 1 BY <1>8
    <3> QED BY <1>5, <1>8, <3>1, <3>2 DEF Closed
  <2>2. ASSUME NEW h \in Closed PROVE h \in Closed'
    <3>1. PICK k \in 1 .. Len(log) : h = log[k].gen BY DEF Closed
    <3>2. k \in 1 .. Len(log') /\ log'[k] = log[k] BY <1>8
    <3> QED BY <3>1, <3>2 DEF Closed
  <2>3. g \in Closed'
    <3>1. Len(log) + 1 \in 1 .. Len(log') BY <1>8
    <3> QED BY <1>5, <1>8, <3>1 DEF Closed
  <2> QED BY <2>1, <2>2, <2>3
<1> QED BY <1>2, <1>3, <1>4, <1>5, <1>6, <1>8, <1>9

LEMMA HeardOpens ==
  ASSUME TInv, RIInv, NEW m \in net, Hears(m)
  PROVE  /\ m.frame \in Frames /\ m.frame.gen \in Used
         /\ Open \subseteq Open' /\ Open' \subseteq Open \cup {m.frame.gen}
         /\ \A g \in Gens : g # m.frame.gen => blocks'[g] = blocks[g]
<1>1. m.frame \in Frames BY SentAreFrames
<1>2. Open \subseteq Open' /\ Open' \subseteq Open \cup {m.frame.gen}
  BY <1>1, RecvOpens DEF Hears, RIInv
<1>3. \A g \in Gens : g # m.frame.gen => blocks'[g] = blocks[g]
  BY DEF Hears, Recv, Ingest, IngestRefused, RIInv, IInv
<1> QED BY <1>1, <1>2, <1>3 DEF Used

LEMMA NextOrdered ==
  ASSUME NoWrap, TInv, RIInv, OInv, Ordered, LinkStep
  PROVE  Ordered'
<1>0. PICK s \in Nat, own \in [GenIds -> Sent] : Owns(s, own) BY DEF OInv
<1>1. /\ now \in Nat /\ wake \in Nat /\ run \in Nat /\ b \in Nat /\ i \in Nat
      /\ gen \in Nat /\ next_gen_id \in Nat /\ now <= MaxTime /\ Ids(s)
  BY <1>0, Numbers DEF Owns
<1>2. Used \subseteq Gens \cap Nat /\ \A g \in Used : Below(g) BY DEF Ordered
<1>3. ASSUME Used' \subseteq Used, UNCHANGED <<gen, i, next_gen_id>>, now' \in Nat, now <= now',
             spc' = spc \/ (spc # "killed" /\ spc' # "assemble")
      PROVE  Ordered'
  <2>1. ASSUME NEW g \in Used' PROVE Below(g)' BY <1>1, <1>2, <1>3 DEF Below
  <2> QED BY <1>2, <1>3, <2>1 DEF Ordered
<1>4. CASE TakesUp \/ EndsBlock \/ Stops \/ Idles \/ \E d \in Ticks : Waits(d) \/ StartsOver(d)
  <2>0. Used' = Used
    BY <1>4 DEF TakesUp, EndsBlock, Stops, Idles, Waits, StartsOver, Used, Open, Closed
  <2>1. CASE TakesUp
    <3>1. /\ gen' = next_gen_id /\ i' = 0 /\ spc' = "send" /\ now' = now /\ spc = "assemble"
          /\ (next_gen_id = gen /\ i = 0) \/ next_gen_id = gen + 1
      BY <2>1 DEF TakesUp, Ordered
    <3>2. ASSUME NEW g \in Used PROVE Below(g)'
      <4>1. Below(g) /\ g \in Nat BY <1>2
      <4> QED BY <1>1, <3>1, <4>1 DEF Below
    <3> QED BY <1>2, <2>0, <3>1, <3>2 DEF Ordered
  <2>2. CASE EndsBlock
    <3>1. /\ UNCHANGED <<now, gen, i, next_gen_id>>
          /\ spc = "send" /\ spc' = "assemble" /\ i = TxN + TxK
      BY <2>2 DEF EndsBlock
    <3>2. next_gen_id = gen + 1 BY <1>1, <3>1 DEF Ids
    <3>3. ASSUME NEW g \in Used PROVE Below(g)' BY <1>2, <3>1 DEF Below
    <3> QED BY <1>2, <2>0, <3>1, <3>2, <3>3 DEF Ordered
  <2>3. CASE Stops BY <1>1, <1>3, <2>0, <2>3 DEF Stops
  <2>4. CASE Idles BY <1>1, <1>3, <2>0, <2>4 DEF Idles, sender
  <2>5. ASSUME NEW d \in Ticks, Waits(d) PROVE Ordered'
    <3>1. d \in Nat /\ now' = now + d /\ UNCHANGED <<gen, i, next_gen_id, spc>>
      BY <2>5, Options DEF Waits, sender
    <3> QED BY <1>1, <1>3, <2>0, <3>1
  <2>6. ASSUME NEW d \in Ticks, StartsOver(d) PROVE Ordered'
    <3>1. /\ d \in Nat /\ d > 0 /\ now' = now + d /\ now' <= MaxTime /\ spc' = "assemble" /\ i' = 0
          /\ gen' = S!u32(now') /\ next_gen_id' = S!u32(now')
      BY <2>6, Options DEF StartsOver
    <3>2. gen' = now' /\ next_gen_id' = now' BY <1>1, <3>1, Options, Wrapped DEF NoWrap
    <3>3. ASSUME NEW g \in Used PROVE Below(g)'
      <4>1. g <= now /\ g \in Nat BY <1>2 DEF Below
      <4> QED BY <1>1, <3>1, <3>2, <4>1 DEF Below
    <3> QED BY <1>2, <2>0, <3>1, <3>2, <3>3 DEF Ordered
  <2> QED BY <1>4, <2>1, <2>2, <2>3, <2>4, <2>5, <2>6
<1>5. ASSUME NEW x, PutsOnPath(x) PROVE Ordered'
  <2>1. /\ i' = i + 1 /\ UNCHANGED <<now, gen, next_gen_id, spc, blocks, log>> /\ spc = "send"
        /\ net' = net \cup {x} /\ x.frame = sent_frame(<<run, b>>, gen, i) /\ i < TxN + TxK
    BY <1>5 DEF PutsOnPath
  <2>2. i \in 0 .. TxN + TxK - 1 BY <1>1, <2>1, Options
  <2>3. x.frame.gen = gen BY <2>1, <2>2, SentFrame
  <2>4. Open' = Open /\ Closed' = Closed BY <2>1 DEF Open, Closed
  <2>5. Used' \subseteq Used \cup {gen} BY <2>1, <2>3, <2>4 DEF Used
  <2>6. gen <= now BY <1>1, <2>1 DEF Ids
  <2>7. gen \in Gens
    <3>1. PICK o : o = <<run, b>> OBVIOUS
    <3>2. sent_frame(o, gen, i) \in Frames
      <4>1. run \in 1 .. MaxRuns /\ b \in 0 .. Blocks - 1
        BY <1>1, <2>1, Options DEF TInv
      <4> QED BY <2>2, <3>1, <4>1, LinkAssumption DEF sent_frame, GenIds, TInv
    <3>3. sent_frame(o, gen, i).gen = gen BY <2>2, SentFrame
    <3> QED BY <3>2, <3>3, FrameFields
  <2>8. ASSUME NEW g \in Used' PROVE Below(g)' /\ g \in Gens \cap Nat
    <3>1. CASE g \in Used
      <4>1. Below(g) /\ g \in Nat BY <1>2, <3>1
      <4> QED BY <1>1, <1>2, <2>1, <3>1, <4>1 DEF Below
    <3>2. CASE g = gen BY <1>1, <2>1, <2>6, <2>7, <3>2 DEF Below
    <3> QED BY <2>5, <3>1, <3>2
  <2> QED BY <2>1, <2>8 DEF Ordered
<1>6. ASSUME NEW m \in net, Hears(m) PROVE Ordered'
  <2>1. m.frame.gen \in Used /\ Open' \subseteq Open \cup {m.frame.gen} BY <1>6, HeardOpens
  <2>2. net' \subseteq net /\ Closed' = Closed BY <1>6 DEF Hears, Closed
  <2>3. Used' \subseteq Used BY <2>1, <2>2 DEF Used
  <2> QED BY <1>1, <1>3, <1>6, <2>3 DEF Hears, sender
<1>7. ASSUME NEW m \in net, Drops(m) PROVE Ordered'
  <2>1. net' \subseteq net /\ Closed' = Closed /\ Open' = Open BY <1>7 DEF Drops, Closed, Open
  <2>2. Used' \subseteq Used BY <2>1 DEF Used
  <2> QED BY <1>1, <1>3, <1>7, <2>2 DEF Drops, sender
<1>8. ASSUME NEW g \in Gens, Closes(g) PROVE Ordered'
  <2>1. Open' = Open \ {g} /\ Closed' = Closed \cup {g} /\ g \in Open BY <1>8, ClosesOne
  <2>2. net' = net BY <1>8 DEF Closes
  <2>3. Used' \subseteq Used BY <2>1, <2>2 DEF Used
  <2> QED BY <1>1, <1>3, <1>8, <2>3 DEF Closes, sender
<1> QED BY <1>4, <1>5, <1>6, <1>7, <1>8 DEF LinkStep

-----------------------------------------------------------------------------
(* Nothing comes too late.  The sender wakes in time, so a block's frames  *)
(* leave within Span of each other, are on the path for MaxDelay at most,  *)
(* and are there before the block is closed.  The newest block is not      *)
(* closed by its age at all.                                               *)
Awake == spc \in {"assemble", "send"} => now <= wake + Oversleep

NotLate == \A x \in net : now <= x.at + MaxDelay

(* Frame i leaves no later than the pauses since the block's first frame.  *)
PacedSince(t) == wake <= t + Elapsed(i)
PacedOnPath == spc = "send" => \A x \in net : x.frame.gen = gen => PacedSince(x.at)
PacedInTable == spc = "send" /\ gen \in Open => PacedSince(blocks[gen].start)

ThereInTime ==
  \A x \in net, g \in Open :
    g \in {gen, x.frame.gen} => x.at + MaxDelay < blocks[g].start + Deadline

NewestStays == pc = "scan" /\ gen \in Open => now < blocks[gen].start + Deadline

Timely == Awake /\ NotLate /\ PacedOnPath /\ PacedInTable /\ ThereInTime /\ NewestStays

LEMMA OpenStart ==
  ASSUME RIInv, NEW g \in Open
  PROVE  g \in Gens /\ blocks[g].start \in Nat /\ blocks[g].started
<1>1. PICK n \in Ns, k \in Ks : SoundOf(blocks[g], n, k) BY DEF RIInv, IInv, Sound
<1> QED BY <1>1 DEF SoundOf, BlockOf, Agrees, Open

LEMMA OnPathTime ==
  ASSUME TInv, NEW x \in net
  PROVE  x.at \in Nat /\ x.at <= now
BY Numbers DEF TInv, IsSent

LEMMA IngestStart ==
  ASSUME NEW f \in Frames, NEW t \in Nat, IInv, accepts(f)
  PROVE  ingest(find_or_emplace(f), t, f).start
           = IF blocks[f.gen] = NoBlock THEN t ELSE blocks[f.gen].start
<1>0. f.gen \in Gens BY FrameFields
<1>1. CASE blocks[f.gen] = NoBlock
  <2> DEFINE c == start(RxBlock(f), t)
  <2>1. c.start = t BY DEF start, RxBlock
  <2>2. SoundOf(c, f.n, f.k) BY NewBlockIsFresh, StartFresh, FrameFields
  <2>3. c \in BlockOf(f.n, f.k) BY <2>2 DEF SoundOf
  <2> HIDE DEF c
  <2>4. ingest(c, t, f).start = c.start
    <3>1. start(c, t) = c BY <2>2, StartSound DEF SoundOf
    <3>2. \A j, p : put_data(c, j, p).start = c.start /\ put_parity(c, j, p).start = c.start
      BY <2>3 DEF put_data, put_parity, BlockOf
    <3> QED BY <3>1, <3>2 DEF ingest
  <2>5. ingest(RxBlock(f), t, f) = ingest(c, t, f)
    <3>1. start(c, t) = c BY <2>2, StartSound DEF SoundOf
    <3>2. start(RxBlock(f), t) = c BY DEF c
    <3> QED BY <3>1, <3>2 DEF ingest
  <2> QED BY <1>1, <2>1, <2>4, <2>5 DEF find_or_emplace
<1>2. CASE blocks[f.gen] # NoBlock
  <2>1. PICK n \in Ns, k \in Ks : SoundOf(blocks[f.gen], n, k)
    BY <1>0, <1>2 DEF IInv, Open, Sound
  <2>2. n \in Nat /\ k \in Nat BY ShapesAreNat
  <2>3. ingest(blocks[f.gen], t, f).start = blocks[f.gen].start BY <2>1, <2>2, IngestGrows
  <2> QED BY <1>2, <2>3 DEF find_or_emplace
<1> QED BY <1>1, <1>2

(* A block begins when its first frame is heard, and keeps its start.      *)
LEMMA HeardStart ==
  ASSUME TInv, RIInv, NEW m \in net, Hears(m), NEW g \in Open'
  PROVE  \/ g \in Open /\ blocks'[g].start = blocks[g].start
         \/ g = m.frame.gen /\ blocks'[g].start = now
<1> DEFINE f == m.frame
<1>1. f \in Frames /\ Open' \subseteq Open \cup {f.gen} BY HeardOpens
<1>2. f.gen \in Gens /\ IInv BY <1>1, FrameFields DEF RIInv
<1>3. CASE g # f.gen
  <2>1. g \in Open BY <1>1, <1>3
  <2>2. g \in Gens BY <2>1 DEF Open
  <2> QED BY <1>3, <2>1, <2>2, HeardOpens
<1>4. CASE g = f.gen /\ Ingest(f)
  <2>1. blocks'[g] = ingest(find_or_emplace(f), now, f) /\ accepts(f)
    BY <1>2, <1>4 DEF Ingest, IInv
  <2>2. blocks'[g].start = IF blocks[g] = NoBlock THEN now ELSE blocks[g].start
    BY <1>1, <1>2, <1>4, <2>1, Numbers, IngestStart
  <2> QED BY <1>2, <1>4, <2>2 DEF Open
<1>5. CASE g = f.gen /\ IngestRefused(f)
  <2>1. blocks' = blocks BY <1>5 DEF IngestRefused
  <2> QED BY <2>1 DEF Open
<1> QED BY <1>3, <1>4, <1>5 DEF Hears, Recv

LEMMA InitTimely == LInit => Timely
<1> SUFFICES ASSUME LInit PROVE Timely OBVIOUS
<1>1. /\ now = 0 /\ wake = 0 /\ net = {} /\ Open = {} /\ pc = "recv" /\ spc = "assemble"
  BY DEF LInit, S!SInit, RInit, Init, Open
<1>2. Awake BY <1>1, Pausing DEF Awake
<1> QED
  BY <1>1, <1>2 DEF Timely, NotLate, PacedOnPath, PacedInTable, ThereInTime, NewestStays

(* What neither moves the clock nor sends a frame keeps all of it.         *)
LEMMA TimelyStays ==
  ASSUME Timely, UNCHANGED <<now, wake, gen, i>>, net' \subseteq net,
         spc' = spc \/ spc' \notin {"assemble", "send"}, pc' = "scan" => pc = "scan",
         Open' \subseteq Open, \A g \in Open' : blocks'[g] = blocks[g]
  PROVE  Timely'
<1>1. Awake' BY DEF Timely, Awake
<1>2. NotLate' BY DEF Timely, NotLate
<1>p. \A t : PacedSince(t)' <=> PacedSince(t) BY DEF PacedSince, Elapsed
<1>3. PacedOnPath'
  <2> SUFFICES ASSUME spc' = "send", NEW x \in net', x.frame.gen = gen PROVE PacedSince(x.at)'
    BY DEF PacedOnPath
  <2> QED BY <1>p DEF Timely, PacedOnPath
<1>4. PacedInTable'
  <2> SUFFICES ASSUME spc' = "send", gen \in Open' PROVE PacedSince(blocks[gen].start)'
    BY DEF PacedInTable
  <2>1. PacedSince(blocks[gen].start) BY DEF Timely, PacedInTable
  <2>2. PICK t : t = blocks[gen].start OBVIOUS
  <2>3. blocks'[gen].start = t BY <2>2
  <2>4. PacedSince(t)' BY <1>p, <2>1, <2>2
  <2> QED BY <2>3, <2>4 DEF PacedSince
<1>5. ThereInTime' BY DEF Timely, ThereInTime, Deadline
<1>6. NewestStays' BY DEF Timely, NewestStays, Deadline
<1> QED BY <1>1, <1>2, <1>3, <1>4, <1>5, <1>6 DEF Timely

LEMMA DeadlineStays == Deadline' = Deadline /\ \A n : Elapsed(n)' = Elapsed(n)
BY DEF Deadline, Elapsed

LEMMA SentTimely ==
  ASSUME InDeadline, TInv, RIInv, Timely, NEW x, PutsOnPath(x)
  PROVE  Timely'
<1>1. /\ now \in Nat /\ wake \in Nat /\ i \in Nat /\ gen \in Nat BY Numbers
<1>2. /\ spc = "send" /\ spc' = "send" /\ i < TxN + TxK /\ now >= wake
      /\ x.at = now /\ net' = net \cup {x} /\ i' = i + 1
      /\ wake' = IF i + 1 < TxN THEN now + S!dt_ms ELSE now
      /\ UNCHANGED <<now, gen, blocks, pc>> /\ Open' = Open
  BY DEF PutsOnPath, Open
<1>3. now <= wake + Oversleep BY <1>2 DEF Timely, Awake
<1>4. PICK d \in Nat, e \in Nat, M \in Nat, D \in Nat, W \in Nat :
        d = S!dt_ms /\ e = Oversleep /\ M = MaxDelay /\ D = Deadline /\ W = Span
  BY Pausing, DeadlineType
<1>5. PICK E \in Int, F \in Int, N \in Nat :
        E = Elapsed(i) /\ F = Elapsed(i + 1) /\ N = TxN
  BY <1>1, Pausing, Options
<1>6. /\ i + 1 < N => F = E + d + e /\ F >= d
      /\ i + 1 >= N => F >= E + e /\ F >= 0
      /\ E + e <= W /\ W + M < D
  BY <1>1, <1>2, <1>4, <1>5, NextPause DEF InDeadline
<1>7. wake' = IF i + 1 < N THEN now + d ELSE now BY <1>2, <1>4, <1>5
<1>8. wake' \in Nat /\ now <= wake' BY <1>1, <1>7
<1>9. \A t \in Nat : wake <= t + E => wake' <= t + F
  <2>1. CASE i + 1 < N BY <1>1, <1>3, <1>4, <1>6, <1>7, <2>1
  <2>2. CASE i + 1 >= N BY <1>1, <1>3, <1>4, <1>6, <1>7, <2>2
  <2> QED BY <1>1, <1>5, <2>1, <2>2
<1>10. wake' <= now + F
  <2>1. CASE i + 1 < N BY <1>1, <1>6, <1>7, <2>1
  <2>2. CASE i + 1 >= N BY <1>1, <1>6, <1>7, <2>2
  <2> QED BY <1>1, <1>5, <2>1, <2>2
<1>11. \A t : PacedSince(t)' <=> wake' <= t + F
  BY <1>2, <1>5, DeadlineStays DEF PacedSince
<1>12. \A t : PacedSince(t) <=> wake <= t + E BY <1>5 DEF PacedSince
<1>13. Awake' BY <1>1, <1>2, <1>4, <1>8 DEF Awake
<1>14. NotLate'
  <2>1. now <= x.at + MaxDelay BY <1>1, <1>2, <1>4
  <2> QED BY <1>2, <2>1 DEF Timely, NotLate
<1>15. PacedOnPath'
  <2> SUFFICES ASSUME NEW y \in net', y.frame.gen = gen PROVE PacedSince(y.at)'
    BY <1>2 DEF PacedOnPath
  <2>1. CASE y \in net
    <3>1. PacedSince(y.at) /\ y.at \in Nat BY <1>2, <2>1, OnPathTime DEF Timely, PacedOnPath
    <3> QED BY <1>9, <1>11, <1>12, <3>1
  <2>2. CASE y = x BY <1>2, <1>10, <1>11, <2>2
  <2> QED BY <1>2, <2>1, <2>2
<1>16. ASSUME gen \in Open
       PROVE  /\ blocks[gen].start \in Nat /\ wake <= blocks[gen].start + E
              /\ now + M < blocks[gen].start + D
  <2>1. PICK t \in Nat : t = blocks[gen].start BY <1>16, OpenStart
  <2>2. PacedSince(blocks[gen].start) BY <1>2, <1>16 DEF Timely, PacedInTable
  <2>3. wake <= t + E BY <1>12, <2>1, <2>2
  <2>4. now + M < t + D BY <1>1, <1>3, <1>4, <1>6, <2>3
  <2> QED BY <2>1, <2>3, <2>4
<1>17. PacedInTable'
  <2> SUFFICES ASSUME gen \in Open PROVE PacedSince(blocks[gen].start)'
    BY <1>2 DEF PacedInTable
  <2>1. PICK t \in Nat : t = blocks[gen].start BY <1>16
  <2>2. PacedSince(t)' BY <1>9, <1>11, <1>16, <2>1
  <2> QED BY <1>2, <2>1, <2>2 DEF PacedSince
<1>18. ThereInTime'
  <2> SUFFICES ASSUME NEW y \in net', NEW g \in Open, g \in {gen, y.frame.gen}
               PROVE  y.at + MaxDelay < blocks[g].start + Deadline
    BY <1>2, DeadlineStays DEF ThereInTime
  <2>1. CASE y \in net BY <2>1 DEF Timely, ThereInTime
  <2>2. CASE y = x
    <3>1. y.frame.gen = gen
      <4>1. i \in 0 .. TxN + TxK - 1 BY <1>1, <1>2, Options
      <4> QED BY <2>2, <4>1, SentFrame DEF PutsOnPath
    <3>2. g = gen BY <3>1
    <3>3. now + M < blocks[gen].start + D BY <1>16, <3>2
    <3> QED BY <1>2, <1>4, <2>2, <3>2, <3>3
  <2> QED BY <1>2, <2>1, <2>2
<1>19. NewestStays' BY <1>2, DeadlineStays DEF Timely, NewestStays
<1> QED BY <1>13, <1>14, <1>15, <1>17, <1>18, <1>19 DEF Timely

LEMMA HeardTimely ==
  ASSUME InDeadline, TInv, RIInv, Timely, NEW m \in net, Hears(m)
  PROVE  Timely'
<1>1. now \in Nat /\ wake \in Nat BY Numbers
<1>2. /\ UNCHANGED <<now, spc, wake, gen, i>> /\ pc' = "scan" /\ net' \subseteq net
  BY DEF Hears, sender
<1>3. MaxDelay \in Nat /\ Deadline \in Nat /\ MaxDelay < Deadline
  BY Pausing, DeadlineType DEF InDeadline
<1>4. m.at \in Nat /\ m.at <= now /\ now <= m.at + MaxDelay
  BY OnPathTime DEF Timely, NotLate
<1>p. \A t : PacedSince(t)' <=> PacedSince(t) BY <1>2 DEF PacedSince, Elapsed
<1>5. Awake' /\ NotLate' BY <1>2 DEF Timely, Awake, NotLate
<1>6. PacedOnPath'
  <2> SUFFICES ASSUME spc = "send", NEW x \in net', x.frame.gen = gen PROVE PacedSince(x.at)'
    BY <1>2 DEF PacedOnPath
  <2> QED BY <1>2, <1>p DEF Timely, PacedOnPath
<1>7. PacedInTable'
  <2> SUFFICES ASSUME spc = "send", gen \in Open' PROVE PacedSince(blocks[gen].start)'
    BY <1>2 DEF PacedInTable
  <2>1. PICK t : t = blocks'[gen].start OBVIOUS
  <2>2. CASE gen \in Open /\ t = blocks[gen].start
    <3>1. PacedSince(t) BY <2>2 DEF Timely, PacedInTable
    <3>2. PacedSince(t)' BY <1>p, <3>1
    <3> QED BY <1>2, <2>1, <3>2 DEF PacedSince
  <2>3. CASE gen = m.frame.gen /\ t = now
    <3>1. PacedSince(m.at) BY <2>3 DEF Timely, PacedOnPath
    <3>2. wake <= m.at + Elapsed(i) /\ Elapsed(i) \in Int BY <3>1, Numbers, Pausing DEF PacedSince
    <3>3. wake <= now + Elapsed(i) BY <1>1, <1>4, <3>2
    <3>4. PacedSince(t)' BY <1>p, <2>3, <3>3 DEF PacedSince
    <3> QED BY <1>2, <2>1, <3>4 DEF PacedSince
  <2> QED BY <2>1, <2>2, <2>3, HeardStart
<1>8. ASSUME NEW g \in Open'
      PROVE  /\ blocks'[g].start \in Nat
             /\ (g \in Open /\ blocks'[g].start = blocks[g].start) \/ blocks'[g].start = now
  BY <1>1, HeardStart, OpenStart
<1>9. ThereInTime'
  <2> SUFFICES ASSUME NEW x \in net', NEW g \in Open', g \in {gen, x.frame.gen}
               PROVE  x.at + MaxDelay < blocks'[g].start + Deadline
    BY <1>2, DeadlineStays DEF ThereInTime
  <2>1. x \in net /\ x.at \in Nat /\ x.at <= now BY <1>2, OnPathTime
  <2>2. CASE g \in Open /\ blocks'[g].start = blocks[g].start
    BY <2>1, <2>2 DEF Timely, ThereInTime
  <2>3. CASE blocks'[g].start = now BY <1>1, <1>3, <2>1, <2>3
  <2> QED BY <1>8, <2>2, <2>3
<1>10. NewestStays'
  <2> SUFFICES ASSUME gen \in Open' PROVE now < blocks'[gen].start + Deadline
    BY <1>2, DeadlineStays DEF NewestStays
  <2>1. CASE gen \in Open /\ blocks'[gen].start = blocks[gen].start
    <3>1. m.at + MaxDelay < blocks[gen].start + Deadline BY <2>1 DEF Timely, ThereInTime
    <3>2. blocks[gen].start \in Nat BY <2>1, OpenStart
    <3> QED BY <1>1, <1>3, <1>4, <2>1, <3>1, <3>2
  <2>2. CASE blocks'[gen].start = now BY <1>1, <1>3, <2>2
  <2> QED BY <1>8, <2>1, <2>2
<1> QED BY <1>5, <1>6, <1>7, <1>9, <1>10 DEF Timely

LEMMA NextTimely ==
  ASSUME InDeadline, TInv, RIInv, Ordered, Ordered', Timely, LinkStep
  PROVE  Timely'
<1>1. /\ now \in Nat /\ wake \in Nat /\ gen \in Nat /\ MaxDelay \in Nat /\ Oversleep \in Nat
  BY Numbers, Pausing
(* A new block's id is not in use.                                         *)
<1>2. ASSUME i' = 0, spc' # "killed" PROVE gen' \notin Used'
  <2>1. \A g \in Used' : g < gen' /\ g \in Nat BY <1>2 DEF Ordered, Below
  <2> QED BY <2>1
<1>3. CASE TakesUp
  <2>1. /\ UNCHANGED <<now, wake, net, blocks, pc>> /\ i' = 0 /\ spc' = "send" /\ spc = "assemble"
        /\ Open' = Open
    BY <1>3 DEF TakesUp, Open
  <2>2. gen' \notin Open /\ \A x \in net : x.frame.gen # gen' BY <1>2, <2>1 DEF Used
  <2>3. Awake' /\ NotLate' BY <2>1 DEF Timely, Awake, NotLate
  <2>4. PacedOnPath' /\ PacedInTable' BY <2>1, <2>2 DEF PacedOnPath, PacedInTable
  <2>5. ThereInTime' BY <2>1, <2>2, DeadlineStays DEF Timely, ThereInTime
  <2>6. NewestStays' BY <2>1, <2>2 DEF NewestStays
  <2> QED BY <2>3, <2>4, <2>5, <2>6 DEF Timely
<1>4. CASE EndsBlock
  <2>1. /\ UNCHANGED <<now, net, blocks, pc, gen>> /\ wake' = now + InterBlockMs
        /\ spc' = "assemble" /\ Open' = Open
    BY <1>4 DEF EndsBlock, Open
  <2>2. Awake' BY <1>1, <2>1, Options DEF Awake
  <2>3. NotLate' BY <2>1 DEF Timely, NotLate
  <2>4. PacedOnPath' /\ PacedInTable' BY <2>1 DEF PacedOnPath, PacedInTable
  <2>5. ThereInTime' /\ NewestStays'
    BY <2>1, DeadlineStays DEF Timely, ThereInTime, NewestStays
  <2> QED BY <2>2, <2>3, <2>4, <2>5 DEF Timely
<1>5. CASE Stops
  <2>1. /\ UNCHANGED <<now, wake, gen, i, net, blocks, pc>> /\ Open' = Open
        /\ spc' \notin {"assemble", "send"}
    BY <1>5 DEF Stops, Open
  <2> QED BY <2>1, TimelyStays
<1>6. CASE Idles
  <2>1. /\ UNCHANGED <<now, wake, gen, i, net, blocks, spc>> /\ Open' = Open
        /\ pc' = "scan" => pc = "scan"
    BY <1>6 DEF Idles, Open, sender
  <2> QED BY <2>1, TimelyStays
<1>7. ASSUME NEW m \in net, Drops(m) PROVE Timely'
  <2>1. /\ UNCHANGED <<now, wake, gen, i, blocks, spc>> /\ Open' = Open /\ net' \subseteq net
        /\ pc' = "scan" => pc = "scan"
    BY <1>7 DEF Drops, Open, sender
  <2> QED BY <2>1, TimelyStays
<1>8. ASSUME NEW g \in Gens, Closes(g) PROVE Timely'
  <2>1. UNCHANGED <<now, wake, gen, i, net, spc>> /\ pc = "scan" BY <1>8 DEF Closes, sender
  <2>2. Open' \subseteq Open /\ \A h \in Open' : blocks'[h] = blocks[h] BY <1>8, ClosesOne
  <2> QED BY <2>1, <2>2, TimelyStays
<1>9. ASSUME NEW d \in Ticks, Waits(d) \/ StartsOver(d) PROVE Timely'
  <2>1. /\ now' = now + d /\ d \in Nat /\ UNCHANGED <<net, blocks, pc>> /\ pc # "scan"
        /\ Open' = Open /\ InTime(d)
    BY <1>9, Options DEF Waits, StartsOver, InTime, Open
  <2>2. NotLate'
    <3>1. ASSUME NEW x \in net PROVE now + d <= x.at + MaxDelay
      <4>1. now + d - x.at <= MaxDelay /\ x.at \in Nat BY <2>1, OnPathTime DEF InTime
      <4> QED BY <1>1, <2>1, <4>1
    <3> QED BY <2>1, <3>1 DEF NotLate
  <2>3. NewestStays' BY <2>1 DEF NewestStays
  <2>4. CASE Waits(d)
    <3>1. UNCHANGED <<spc, wake, gen, i>> BY <2>4 DEF Waits, sender
    <3>2. Awake' BY <2>1, <3>1 DEF InTime, Awake
    <3>3. \A t : PacedSince(t)' <=> PacedSince(t) BY <3>1 DEF PacedSince, Elapsed
    <3>4. PacedOnPath'
      <4> SUFFICES ASSUME spc = "send", NEW x \in net, x.frame.gen = gen PROVE PacedSince(x.at)'
        BY <2>1, <3>1 DEF PacedOnPath
      <4> QED BY <3>3 DEF Timely, PacedOnPath
    <3>5. PacedInTable'
      <4> SUFFICES ASSUME spc = "send", gen \in Open PROVE PacedSince(blocks[gen].start)'
        BY <2>1, <3>1 DEF PacedInTable
      <4>1. PICK t : t = blocks[gen].start OBVIOUS
      <4>2. PacedSince(t)' BY <3>3, <4>1 DEF Timely, PacedInTable
      <4> QED BY <2>1, <3>1, <4>1, <4>2 DEF PacedSince
    <3>6. ThereInTime' BY <2>1, <3>1, DeadlineStays DEF Timely, ThereInTime
    <3> QED BY <2>2, <2>3, <3>2, <3>4, <3>5, <3>6 DEF Timely
  <2>5. CASE StartsOver(d)
    <3>1. spc' = "assemble" /\ i' = 0 /\ wake' = now' BY <2>5 DEF StartsOver
    <3>2. gen' \notin Open BY <1>2, <2>1, <3>1 DEF Used
    <3>3. Awake' BY <1>1, <2>1, <3>1 DEF Awake
    <3>4. PacedOnPath' /\ PacedInTable' BY <3>1 DEF PacedOnPath, PacedInTable
    <3>5. ThereInTime' BY <2>1, <3>2, DeadlineStays DEF Timely, ThereInTime
    <3> QED BY <2>2, <2>3, <3>3, <3>4, <3>5 DEF Timely
  <2> QED BY <1>9, <2>4, <2>5
<1> QED
  BY <1>3, <1>4, <1>5, <1>6, <1>7, <1>8, <1>9, SentTimely, HeardTimely DEF LinkStep

-----------------------------------------------------------------------------
(* What has arrived of a block.                                            *)
Position == 0 .. TxN + TxK - 1

Arrived(c, p) == IF p < TxN THEN c.data[p] # Missing ELSE c.parity[p - TxN] # Missing

(* No frame of the sender is refused: a length the assembler takes is one  *)
(* the table takes, and it is the same in all frames.                      *)
Sendable == net # {} \/ spc = "send" => S!assembles(TxN, TxK, payload_len, MaxPayloadLen)

LEMMA NextSendable == Sendable /\ LinkStep => Sendable'
<1> SUFFICES ASSUME Sendable, LinkStep PROVE Sendable' OBVIOUS
<1>1. payload_len' = payload_len
  BY DEF LinkStep, TakesUp, PutsOnPath, EndsBlock, Stops, Hears, Drops, Closes, Idles, Waits,
         StartsOver, sender
<1>2. net' # {} \/ spc' = "send" => net # {} \/ spc = "send" \/ TakesUp
  BY DEF LinkStep, TakesUp, PutsOnPath, EndsBlock, Stops, Hears, Drops, Closes, Idles, Waits,
         StartsOver, sender
<1> QED BY <1>1, <1>2 DEF Sendable, TakesUp

LEMMA NotRefused ==
  ASSUME TInv, OInv, Sendable, NEW m \in net
  PROVE  accepts(m.frame)
<1>1. PICK o \in Sent, g \in GenIds, p \in Position : m.frame = sent_frame(o, g, p)
  BY DEF TInv, IsSent, Position
<1>2. m.frame.pay.len = payload_len BY <1>1, SentFrame, TokenFields DEF Position
<1>3. payload_len > 0 /\ (MaxPayloadLen = 0 \/ payload_len <= MaxPayloadLen)
  BY DEF Sendable, S!assembles
<1>4. m.frame.gen \in Gens BY SentAreFrames, FrameFields
<1>5. ASSUME blocks[m.frame.gen] # NoBlock PROVE blocks[m.frame.gen].len = payload_len
  <2>1. m.frame.gen \in Open BY <1>4, <1>5 DEF Open
  <2> QED BY <2>1 DEF OInv, Owns, InTable, BlockOwned
<1> QED BY <1>2, <1>3, <1>5 DEF accepts

LEMMA IngestArrives ==
  ASSUME NEW o, NEW g, NEW p \in Position, sent_frame(o, g, p) \in Frames, NEW t \in Nat,
         NEW c \in BlockOf(TxN, TxK), NEW q \in Position
  PROVE  Arrived(ingest(c, t, sent_frame(o, g, p)), q) <=> q = p \/ Arrived(c, q)
<1> DEFINE f == sent_frame(o, g, p)
           s == start(c, t)
           d == ingest(c, t, f)
<1>1. /\ f.seq = p /\ f.n = TxN /\ f.pay = token(o, p) /\ f.pay # Missing
      /\ p >= TxN => f.pidx = p - TxN
  BY SentFrame, FrameFields DEF Position
<1>2. p \in Nat /\ q \in Nat /\ TxN \in Nat /\ TxK \in Nat /\ p < TxN + TxK /\ q < TxN + TxK
  BY Options DEF Position
<1>3. s \in BlockOf(TxN, TxK) /\ s.data = c.data /\ s.parity = c.parity
  BY DEF start, BlockOf
<1>4. /\ s.N = TxN /\ s.K = TxK
      /\ s.data \in [0 .. TxN - 1 -> Slot] /\ s.parity \in [0 .. TxK - 1 -> Slot]
  BY <1>3 DEF BlockOf
<1>5. CASE p < TxN
  <2>1. ~(p >= TxN) BY <1>2, <1>5
  <2>2. d = put_data(s, p, token(o, p)) BY <1>1, <2>1 DEF ingest, is_parity_frame
  <2> HIDE DEF d, s
  <2>3. d.data = [s.data EXCEPT ![p] = token(o, p)] /\ d.parity = s.parity
    BY <1>3, <1>4, <1>5, <2>2 DEF put_data, BlockOf
  <2>4. p \in 0 .. TxN - 1 BY <1>2, <1>5
  <2> QED BY <1>1, <1>2, <1>3, <1>4, <2>3, <2>4 DEF Arrived, d, f
<1>6. CASE p >= TxN
  <2>1. PICK j : j = p - TxN OBVIOUS
  <2>2. j \in 0 .. TxK - 1 /\ j \in Nat /\ p = TxN + j /\ j < TxK BY <1>2, <1>6, <2>1
  <2>3. d = put_parity(s, j, token(o, p)) BY <1>1, <1>6, <2>1 DEF ingest, is_parity_frame
  <2> HIDE DEF d, s
  <2>4. d.parity = [s.parity EXCEPT ![j] = token(o, p)] /\ d.data = s.data
    BY <1>3, <1>4, <2>2, <2>3 DEF put_parity, BlockOf
  <2>5. q >= TxN => q - TxN \in 0 .. TxK - 1 /\ (q - TxN = j <=> q = p) BY <1>2, <2>2
  <2>6. q < TxN => q # p BY <1>2, <1>6
  <2> QED BY <1>1, <1>2, <1>3, <1>4, <2>2, <2>4, <2>5, <2>6 DEF Arrived, d, f
<1> QED BY <1>2, <1>5, <1>6

LEMMA NewIsEmpty ==
  ASSUME NEW o, NEW g, NEW p \in Position, NEW q \in Position
  PROVE  ~Arrived(RxBlock(sent_frame(o, g, p)), q)
<1>1. PICK f : f = sent_frame(o, g, p) OBVIOUS
<1>2. f.n = TxN /\ f.k = TxK BY <1>1, SentFrame DEF Position
<1>3. q \in Nat /\ TxN \in Nat /\ TxK \in Nat /\ q < TxN + TxK BY Options DEF Position
<1>4. q < TxN => q \in 0 .. TxN - 1 BY <1>3
<1>5. ~(q < TxN) => q - TxN \in 0 .. TxK - 1 BY <1>3
<1> QED BY <1>1, <1>2, <1>4, <1>5 DEF RxBlock, Arrived

(* Hearing a frame adds it to its block, and nothing else.                 *)
LEMMA HeardArrives ==
  ASSUME TInv, RIInv, OInv, Sendable, NEW m \in net, Hears(m)
  PROVE  /\ m.frame.seq \in Position /\ m.frame.gen \in Gens
         /\ Open' = Open \cup {m.frame.gen}
         /\ \A q \in Position :
              Arrived(blocks'[m.frame.gen], q)
                <=> q = m.frame.seq \/ (m.frame.gen \in Open /\ Arrived(blocks[m.frame.gen], q))
<1>1. PICK o \in Sent, h \in GenIds, p \in Position : m.frame = sent_frame(o, h, p)
  BY DEF TInv, IsSent, Position
<1>2. PICK f : f = m.frame OBVIOUS
<1>3. /\ f \in Frames /\ f.gen \in Gens /\ f.gen = h /\ f.seq = p /\ f.n = TxN /\ f.k = TxK
      /\ now \in Nat /\ f.pay.origin = o
  BY <1>1, <1>2, SentAreFrames, FrameFields, SentFrame, TokenFields, Numbers DEF Position
<1>4. accepts(f) BY <1>2, NotRefused
<1>5. Ingest(f) BY <1>2, <1>4 DEF Hears, Recv, IngestRefused
<1>6. blocks'[f.gen] = ingest(find_or_emplace(f), now, f)
  BY <1>3, <1>5 DEF Ingest, RIInv, IInv
<1>7. Open' = Open \cup {f.gen}
  <2>1. Sound(ingest(find_or_emplace(f), now, f))
    BY <1>3, <1>4, IngestedSound DEF RIInv, IInv, Open
  <2>2. blocks'[f.gen] # NoBlock BY <1>6, <2>1, SoundIsBlock
  <2> QED BY <1>2, <1>3, <2>2, HeardOpens DEF Open
<1>8. find_or_emplace(f) \in BlockOf(TxN, TxK)
  <2>1. CASE blocks[f.gen] = NoBlock
    <3>1. RxBlock(f) \in BlockOf(TxN, TxK) BY <1>3, <1>4, NewBlockIsFresh DEF Fresh
    <3> QED BY <2>1, <3>1 DEF find_or_emplace
  <2>2. CASE blocks[f.gen] # NoBlock
    <3>1. f.gen \in Open BY <1>3, <2>2 DEF Open
    <3>2. PICK ow \in Sent : BlockOwned(blocks[f.gen], ow)
      <4>1. PICK s \in Nat, own \in [GenIds -> Sent] : Owns(s, own) BY DEF OInv
      <4> QED BY <3>1, <4>1 DEF Owns, InTable, Fits
    <3>3. Sound(blocks[f.gen]) BY <3>1 DEF RIInv, IInv
    <3> QED BY <2>2, <3>2, <3>3, OwnedShape DEF find_or_emplace, SoundOf
  <2> QED BY <2>1, <2>2
<1>9. ASSUME NEW q \in Position
      PROVE  Arrived(blocks'[f.gen], q) <=> q = p \/ (f.gen \in Open /\ Arrived(blocks[f.gen], q))
  <2>1. PICK c \in BlockOf(TxN, TxK) : c = find_or_emplace(f) BY <1>8
  <2>2. Arrived(ingest(c, now, sent_frame(o, h, p)), q) <=> q = p \/ Arrived(c, q)
    BY <1>1, <1>2, <1>3, IngestArrives
  <2>3. blocks'[f.gen] = ingest(c, now, sent_frame(o, h, p)) BY <1>1, <1>2, <1>6, <2>1
  <2>4. CASE blocks[f.gen] = NoBlock
    <3>1. c = RxBlock(sent_frame(o, h, p)) BY <1>1, <1>2, <2>1, <2>4 DEF find_or_emplace
    <3>2. ~Arrived(c, q) BY <3>1, NewIsEmpty
    <3> QED BY <2>2, <2>3, <2>4, <3>2 DEF Open
  <2>5. CASE blocks[f.gen] # NoBlock
    <3>1. c = blocks[f.gen] BY <2>1, <2>5 DEF find_or_emplace
    <3> QED BY <1>3, <2>2, <2>3, <2>5, <3>1 DEF Open
  <2> QED BY <2>4, <2>5
<1> QED BY <1>2, <1>3, <1>7, <1>9

LEMMA OwnedOpen ==
  ASSUME RIInv, OInv, NEW g \in Open
  PROVE  /\ g \in GenIds /\ SoundOf(blocks[g], TxN, TxK)
         /\ \E o \in Sent : BlockOwned(blocks[g], o)
<1>1. PICK s \in Nat, own \in [GenIds -> Sent] : Owns(s, own) BY DEF OInv
<1>2. BlockOwned(blocks[g], own[g]) /\ g \in GenIds BY <1>1 DEF Owns, InTable, Fits
<1>3. Sound(blocks[g]) BY DEF RIInv, IInv
<1>4. PICK o \in Sent : o = own[g] BY <1>2
<1>5. PICK c : c = blocks[g] OBVIOUS
<1>6. SoundOf(c, TxN, TxK) BY <1>2, <1>3, <1>4, <1>5, OwnedShape
<1> QED BY <1>2, <1>4, <1>5, <1>6

LEMMA SentPosition ==
  ASSUME TInv, NEW x \in net
  PROVE  x.frame.seq \in Position /\ x.frame.gen \in GenIds /\ x.frame.gen \in Gens
<1>1. PICK o \in Sent, g \in GenIds, p \in Position : x.frame = sent_frame(o, g, p)
  BY DEF TInv, IsSent, Position
<1>2. x.frame.seq = p /\ x.frame.gen = g BY <1>1, SentFrame DEF Position
<1> QED BY <1>1, <1>2, SentAreFrames, FrameFields

(* A block is due when it is complete or past its deadline.                *)
Complete(c) == c.trParity /\ c.trData = 0 .. TxN - 1

LEMMA DueWhy ==
  ASSUME InDeadline, TInv, RIInv, OInv, NEW g \in Open, should_close(blocks[g], now)
  PROVE  Complete(blocks[g]) \/ now >= blocks[g].start + Deadline
<1>1. PICK c : c = blocks[g] OBVIOUS
<1>2. SoundOf(c, TxN, TxK) BY <1>1, OwnedOpen
<1>3. c.N = TxN /\ c.start \in Nat BY <1>2 DEF SoundOf, BlockOf
<1>4. now \in Nat /\ Deadline \in Nat /\ Span \in Nat /\ MaxDelay \in Nat /\ Deadline > 0
  BY Numbers, DeadlineType, Pausing DEF InDeadline
<1>5. ReorderMs \in Nat /\ min_ms(TxN) \in Nat BY ConfigAssumption, MinMsType, Options
<1>6. Deadline <= ReorderMs /\ Deadline <= min_ms(TxN) BY <1>5 DEF Deadline
<1>7. CASE have_parity(c) /\ have_all_data(c)
  BY <1>1, <1>3, <1>7 DEF have_parity, have_all_data, Complete
<1>8. CASE age_ms(c, now) >= ReorderMs \/ age_ms(c, now) >= min_ms(TxN)
  <2>1. age_ms(c, now) = IF now >= c.start THEN now - c.start ELSE 0
    BY <1>2 DEF age_ms, SoundOf, Agrees
  <2>2. age_ms(c, now) \in Nat BY <1>3, <1>4, <2>1
  <2>3. age_ms(c, now) >= Deadline BY <1>4, <1>5, <1>6, <1>8, <2>2
  <2>4. now - c.start >= Deadline BY <1>3, <1>4, <2>1, <2>3
  <2>5. now >= c.start + Deadline BY <1>3, <1>4, <2>4
  <2> QED BY <1>1, <2>5
<1> QED BY <1>1, <1>3, <1>7, <1>8 DEF should_close

(* Past its deadline a block is not the newest, and nothing of it is on    *)
(* the path.                                                               *)
LEMMA PastDeadline ==
  ASSUME InDeadline, TInv, RIInv, Timely, pc = "scan",
         NEW g \in Open, now >= blocks[g].start + Deadline
  PROVE  g # gen /\ \A x \in net : x.frame.gen # g
<1>1. now \in Nat /\ Deadline \in Nat /\ MaxDelay \in Nat /\ blocks[g].start \in Nat
  BY Numbers, DeadlineType, Pausing, OpenStart
<1>2. g # gen
  <2> SUFFICES ASSUME g = gen PROVE FALSE OBVIOUS
  <2>1. now < blocks[g].start + Deadline BY DEF Timely, NewestStays
  <2> QED BY <1>1, <2>1
<1>3. ASSUME NEW x \in net, x.frame.gen = g PROVE FALSE
  <2>1. x.at + MaxDelay < blocks[g].start + Deadline /\ now <= x.at + MaxDelay
    BY <1>3 DEF Timely, ThereInTime, NotLate
  <2>2. x.at \in Nat BY OnPathTime
  <2> QED BY <1>1, <2>1, <2>2
<1> QED BY <1>2, <1>3

-----------------------------------------------------------------------------
(* With nothing repeated and one parity frame at most, a block is closed   *)
(* only when all of it has come or never will: it is closed once.          *)
NoTwins ==
  \A x, y \in net : x.frame.gen = y.frame.gen /\ x.frame.seq = y.frame.seq => x = y

NotBoth == \A x \in net : x.frame.gen \in Open => ~Arrived(blocks[x.frame.gen], x.frame.seq)

NotYet ==
  spc = "send" =>
    /\ \A x \in net : x.frame.gen = gen => x.frame.seq < i
    /\ gen \in Open => \A p \in Position : p >= i => ~Arrived(blocks[gen], p)

Over(g) ==
  /\ g \notin Open /\ \A x \in net : x.frame.gen # g
  /\ g = gen /\ spc = "send" => i = TxN + TxK

ClosedOver == \A g \in Closed : Over(g)

OneLine == \A j, k \in 1 .. Len(log) : log[j].gen = log[k].gen => j = k

Once == NoTwins /\ NotBoth /\ NotYet /\ ClosedOver /\ OneLine

LEMMA InitOnce == LInit => Once
<1> SUFFICES ASSUME LInit PROVE Once OBVIOUS
<1>1. net = {} /\ log = <<>> /\ spc = "assemble" BY DEF LInit, S!SInit, RInit
<1> QED BY <1>1 DEF Once, NoTwins, NotBoth, NotYet, ClosedOver, Closed, OneLine

LEMMA ClosedIsOver ==
  ASSUME TxK <= 1, InDeadline, TInv, RIInv, OInv, Timely, Once, pc = "scan",
         NEW g \in Open, should_close(blocks[g], now)
  PROVE  /\ \A x \in net : x.frame.gen # g
         /\ g = gen /\ spc = "send" => i = TxN + TxK
<1>1. CASE Complete(blocks[g])
  <2>1. PICK c : c = blocks[g] OBVIOUS
  <2>2. SoundOf(c, TxN, TxK) BY <2>1, OwnedOpen
  <2>3. /\ c.N = TxN /\ c.K = TxK /\ c.trParity /\ c.trData = 0 .. TxN - 1 /\ Agrees(c)
    BY <1>1, <2>1, <2>2 DEF SoundOf, BlockOf, Complete
  <2>4. ASSUME NEW p \in Position PROVE Arrived(c, p)
    <3>1. p \in Nat /\ TxN \in Nat /\ TxK \in Nat /\ p < TxN + TxK BY Options DEF Position
    <3>2. CASE p < TxN
      <4>1. p \in 0 .. TxN - 1 BY <3>1, <3>2
      <4> QED BY <2>3, <3>2, <4>1 DEF Arrived, Agrees
    <3>3. CASE ~(p < TxN)
      <4>1. PICK j \in 0 .. TxK - 1 : c.parity[j] # Missing BY <2>3 DEF Agrees
      <4>2. j = 0 /\ p - TxN = 0 BY <3>1, <3>3, <4>1
      <4> QED BY <3>3, <4>1, <4>2 DEF Arrived
    <3> QED BY <3>2, <3>3
  <2>5. ASSUME NEW x \in net, x.frame.gen = g PROVE FALSE
    BY <2>1, <2>4, <2>5, SentPosition DEF Once, NotBoth
  <2>6. ASSUME g = gen, spc = "send", i # TxN + TxK PROVE FALSE
    <3>1. i \in Position /\ i >= i BY <2>6, Options DEF TInv, Position
    <3>2. ~Arrived(blocks[gen], i) BY <2>6, <3>1 DEF Once, NotYet
    <3> QED BY <2>1, <2>4, <2>6, <3>1, <3>2
  <2> QED BY <2>5, <2>6
<1>2. CASE now >= blocks[g].start + Deadline BY <1>2, PastDeadline
<1> QED BY <1>1, <1>2, DueWhy

(* What only takes away from the path and the table keeps it.              *)
LEMMA OnceStays ==
  ASSUME Once, UNCHANGED <<gen, i, log>>, net' \subseteq net,
         spc' = spc \/ spc' # "send", Open' \subseteq Open, \A g \in Open' : blocks'[g] = blocks[g]
  PROVE  Once'
<1>1. NoTwins' BY DEF Once, NoTwins
<1>2. NotBoth'
  <2> SUFFICES ASSUME NEW x \in net', x.frame.gen \in Open'
               PROVE  ~Arrived(blocks'[x.frame.gen], x.frame.seq)
    BY DEF NotBoth, Arrived
  <2> QED BY DEF Once, NotBoth
<1>3. NotYet'
  <2> SUFFICES ASSUME spc' = "send"
               PROVE  /\ \A x \in net' : x.frame.gen = gen => x.frame.seq < i
                      /\ gen \in Open' => \A p \in Position : p >= i => ~Arrived(blocks'[gen], p)
    BY DEF NotYet, Arrived
  <2> QED BY DEF Once, NotYet
<1>4. ClosedOver'
  <2>1. Closed' = Closed BY DEF Closed
  <2>2. ASSUME NEW g \in Closed PROVE Over(g)' BY DEF Once, ClosedOver, Over
  <2> QED BY <2>1, <2>2 DEF ClosedOver
<1>5. OneLine' BY DEF Once, OneLine
<1> QED BY <1>1, <1>2, <1>3, <1>4, <1>5 DEF Once

LEMMA NextOnce ==
  ASSUME TxK <= 1, MaxCopies = 0, InDeadline, TInv,
         RIInv, OInv, Sendable, Ordered, Ordered', Timely, Once, LinkStep
  PROVE  Once'
<1>1. /\ now \in Nat /\ i \in Nat /\ gen \in Nat /\ TxN \in Nat /\ TxK \in Nat
  BY Numbers, Options
<1>2. ASSUME i' = 0, spc' # "killed" PROVE gen' \notin Used'
  <2>1. \A g \in Used' : g < gen' /\ g \in Nat BY <1>2 DEF Ordered, Below
  <2> QED BY <2>1
(* The sender takes up a new block, or starts over: its id is not in use.  *)
<1>3. ASSUME UNCHANGED <<net, blocks, log>>, i' = 0, spc' # "killed" PROVE Once'
  <2>1. Open' = Open /\ Closed' = Closed BY <1>3 DEF Open, Closed
  <2>2. gen' \notin Open /\ gen' \notin Closed /\ \A x \in net : x.frame.gen # gen'
    BY <1>2, <1>3, <2>1 DEF Used
  <2>3. NoTwins' BY <1>3 DEF Once, NoTwins
  <2>4. NotBoth' BY <1>3, <2>1 DEF Once, NotBoth, Arrived
  <2>5. NotYet' BY <1>3, <2>1, <2>2 DEF NotYet
  <2>6. ASSUME NEW g \in Closed PROVE Over(g)'
    <3>1. Over(g) BY DEF Once, ClosedOver
    <3>2. g # gen' BY <2>2
    <3> QED BY <1>3, <2>1, <3>1, <3>2 DEF Over
  <2>7. ClosedOver' BY <2>1, <2>6 DEF ClosedOver
  <2>8. OneLine' BY <1>3 DEF Once, OneLine
  <2> QED BY <2>3, <2>4, <2>5, <2>7, <2>8 DEF Once
<1>4. CASE TakesUp BY <1>3, <1>4 DEF TakesUp
<1>5. ASSUME NEW d \in Ticks, StartsOver(d) PROVE Once' BY <1>3, <1>5 DEF StartsOver
<1>6. CASE EndsBlock \/ Stops \/ Idles \/ \E d \in Ticks : Waits(d)
  <2>1. UNCHANGED <<gen, i, log, net, blocks>> /\ (spc' = spc \/ spc' # "send")
    BY <1>6 DEF EndsBlock, Stops, Idles, Waits, sender
  <2>2. Open' = Open BY <2>1 DEF Open
  <2> QED BY <2>1, <2>2, OnceStays
<1>7. ASSUME NEW m \in net, Drops(m) PROVE Once'
  <2>1. UNCHANGED <<gen, i, log, blocks, spc>> /\ net' \subseteq net BY <1>7 DEF Drops, sender
  <2>2. Open' = Open BY <2>1 DEF Open
  <2> QED BY <2>1, <2>2, OnceStays
<1>8. ASSUME NEW x, PutsOnPath(x) PROVE Once'
  <2>1. /\ spc = "send" /\ spc' = "send" /\ i < TxN + TxK /\ i' = i + 1 /\ net' = net \cup {x}
        /\ UNCHANGED <<gen, blocks, log>> /\ x.frame = sent_frame(<<run, b>>, gen, i)
    BY <1>8 DEF PutsOnPath
  <2>2. Open' = Open /\ Closed' = Closed BY <2>1 DEF Open, Closed
  <2>3. i \in Position BY <1>1, <2>1, Options DEF Position
  <2>4. x.frame.gen = gen /\ x.frame.seq = i BY <2>1, <2>3, SentFrame DEF Position
  <2>5. ASSUME NEW y \in net PROVE y.frame.seq \in Nat /\ (y.frame.gen = gen => y.frame.seq < i)
    BY <2>1, SentPosition DEF Once, NotYet, Position
  <2>6. NoTwins'
    <3> SUFFICES ASSUME NEW y \in net', NEW z \in net', y.frame.gen = z.frame.gen,
                        y.frame.seq = z.frame.seq
                 PROVE  y = z
      BY DEF NoTwins
    <3>1. ASSUME NEW w \in net, w.frame.gen = gen, w.frame.seq = i PROVE FALSE
      BY <1>1, <2>5, <3>1
    <3>2. y \in net /\ z \in net => y = z BY DEF Once, NoTwins
    <3> QED BY <2>1, <2>4, <3>1, <3>2
  <2>7. NotBoth'
    <3>1. gen \in Open => ~Arrived(blocks[gen], i)
      <4>1. i >= i BY <1>1
      <4> QED BY <2>1, <2>3, <4>1 DEF Once, NotYet
    <3> QED BY <2>1, <2>2, <2>4, <3>1 DEF Once, NotBoth, Arrived
  <2>8. NotYet'
    <3>1. ASSUME NEW y \in net', y.frame.gen = gen PROVE y.frame.seq < i + 1
      BY <1>1, <2>1, <2>4, <2>5, <3>1
    <3>2. ASSUME gen \in Open, NEW p \in Position, p >= i + 1 PROVE ~Arrived(blocks[gen], p)
      <4>1. p >= i BY <1>1, <3>2 DEF Position
      <4> QED BY <2>1, <3>2, <4>1 DEF Once, NotYet
    <3> QED BY <2>1, <2>2, <3>1, <3>2 DEF NotYet, Arrived
  <2>9. ASSUME NEW g \in Closed PROVE Over(g)'
    <3>1. Over(g) BY DEF Once, ClosedOver
    <3>2. g # gen BY <1>1, <2>1, <3>1 DEF Over
    <3> QED BY <2>1, <2>2, <2>4, <3>1, <3>2 DEF Over
  <2>10. ClosedOver' BY <2>2, <2>9 DEF ClosedOver
  <2>11. OneLine' BY <2>1 DEF Once, OneLine
  <2> QED BY <2>6, <2>7, <2>8, <2>10, <2>11 DEF Once
<1>9. ASSUME NEW m \in net, Hears(m) PROVE Once'
  <2>1. UNCHANGED <<gen, i, spc, log>> /\ net' = net \ {m}
    <3>1. copies = 0 BY Options DEF TInv
    <3> QED BY <1>9, <3>1 DEF Hears, sender
  <2>2. Closed' = Closed BY <2>1 DEF Closed
  <2>3. PICK h, q : h = m.frame.gen /\ q = m.frame.seq OBVIOUS
  <2>4. /\ q \in Position /\ h \in Gens /\ Open' = Open \cup {h}
        /\ \A p \in Position :
             Arrived(blocks'[h], p) <=> p = q \/ (h \in Open /\ Arrived(blocks[h], p))
    BY <1>9, <2>3, HeardArrives
  <2>5. \A g \in Open : g # h => blocks'[g] = blocks[g]
    BY <1>9, <2>3, HeardOpens DEF Open
  <2>6. ASSUME NEW g \in Open', NEW p \in Position, Arrived(blocks'[g], p)
        PROVE  (g = h /\ p = q) \/ (g \in Open /\ Arrived(blocks[g], p))
    BY <2>4, <2>5, <2>6
  <2>7. NoTwins' BY <2>1 DEF Once, NoTwins
  <2>8. NotBoth'
    <3> SUFFICES ASSUME NEW x \in net', x.frame.gen \in Open',
                        Arrived(blocks'[x.frame.gen], x.frame.seq)
                 PROVE  FALSE
      BY DEF NotBoth, Arrived
    <3>1. x \in net /\ x # m BY <2>1
    <3>2. ~(x.frame.gen = h /\ x.frame.seq = q) BY <2>3, <3>1 DEF Once, NoTwins
    <3>3. x.frame.seq \in Position BY <3>1, SentPosition
    <3> QED BY <2>6, <3>1, <3>2, <3>3 DEF Once, NotBoth
  <2>9. NotYet'
    <3> SUFFICES ASSUME spc = "send"
                 PROVE  /\ \A x \in net' : x.frame.gen = gen => x.frame.seq < i
                        /\ gen \in Open' => \A p \in Position : p >= i => ~Arrived(blocks'[gen], p)
      BY <2>1 DEF NotYet, Arrived
    <3>1. \A x \in net' : x.frame.gen = gen => x.frame.seq < i BY <2>1 DEF Once, NotYet
    <3>2. ASSUME gen \in Open', NEW p \in Position, p >= i, Arrived(blocks'[gen], p) PROVE FALSE
      <4>1. CASE gen = h /\ p = q
        <5>1. q < i BY <2>3, <4>1 DEF Once, NotYet
        <5> QED BY <1>1, <2>4, <3>2, <4>1, <5>1 DEF Position
      <4>2. CASE gen \in Open /\ Arrived(blocks[gen], p) BY <3>2, <4>2 DEF Once, NotYet
      <4> QED BY <2>6, <3>2, <4>1, <4>2
    <3> QED BY <3>1, <3>2
  <2>10. ASSUME NEW g \in Closed PROVE Over(g)'
    <3>1. Over(g) BY DEF Once, ClosedOver
    <3>2. g # h BY <2>3, <3>1 DEF Over
    <3> QED BY <2>1, <2>4, <3>1, <3>2 DEF Over
  <2>11. ClosedOver' BY <2>2, <2>10 DEF ClosedOver
  <2>12. OneLine' BY <2>1 DEF Once, OneLine
  <2> QED BY <2>7, <2>8, <2>9, <2>11, <2>12 DEF Once
<1>10. ASSUME NEW g \in Gens, Closes(g) PROVE Once'
  <2>1. /\ g \in Open /\ should_close(blocks[g], now) /\ Open' = Open \ {g}
        /\ \A h \in Open' : blocks'[h] = blocks[h]
        /\ Len(log) \in Nat /\ Len(log') = Len(log) + 1 /\ Closed' = Closed \cup {g}
        /\ \A k \in 1 .. Len(log) : log'[k] = log[k]
        /\ log'[Len(log) + 1].gen = g
    BY <1>10, ClosesOne
  <2>2. pc = "scan" /\ UNCHANGED <<net, gen, i, spc>> BY <1>10 DEF Closes, sender
  <2>3. /\ \A x \in net : x.frame.gen # g
        /\ g = gen /\ spc = "send" => i = TxN + TxK
    BY <2>1, <2>2, ClosedIsOver
  <2>4. NoTwins' BY <2>2 DEF Once, NoTwins
  <2>5. NotBoth' BY <2>1, <2>2 DEF Once, NotBoth, Arrived
  <2>6. NotYet' BY <2>1, <2>2 DEF Once, NotYet, Arrived
  <2>7. ASSUME NEW h \in Closed' PROVE Over(h)'
    <3>1. CASE h = g BY <2>1, <2>2, <2>3, <3>1 DEF Over
    <3>2. CASE h \in Closed
      <4>1. Over(h) BY <3>2 DEF Once, ClosedOver
      <4> QED BY <2>1, <2>2, <4>1 DEF Over
    <3> QED BY <2>1, <3>1, <3>2
  <2>8. ClosedOver' BY <2>7 DEF ClosedOver
  <2>9. OneLine'
    <3>1. g \notin Closed BY <2>1 DEF Once, ClosedOver, Over
    <3>2. ASSUME NEW k \in 1 .. Len(log') PROVE k \in 1 .. Len(log) \/ k = Len(log) + 1 BY <2>1
    <3>3. ASSUME NEW k \in 1 .. Len(log) PROVE log'[k].gen # g BY <2>1, <3>1 DEF Closed
    <3>4. ASSUME NEW j \in 1 .. Len(log'), NEW k \in 1 .. Len(log'), log'[j].gen = log'[k].gen
          PROVE  j = k
      <4>1. CASE j \in 1 .. Len(log) /\ k \in 1 .. Len(log) BY <2>1, <3>4, <4>1 DEF Once, OneLine
      <4>2. CASE j = Len(log) + 1 \/ k = Len(log) + 1 BY <2>1, <3>2, <3>3, <3>4, <4>2
      <4> QED BY <3>2, <4>1, <4>2
    <3> QED BY <3>4 DEF OneLine
  <2> QED BY <2>4, <2>5, <2>6, <2>8, <2>9 DEF Once
<1> QED BY <1>4, <1>5, <1>6, <1>7, <1>8, <1>9, <1>10 DEF LinkStep

LEMMA DistinctLines ==
  ASSUME RIInv, OneLine
  PROVE  Cardinality(Closed) = Len(log)
<1>1. Len(log) \in Nat
  <2>1. log \in Seq(Line) BY DEF RIInv, Counting
  <2> QED BY <2>1
<1> DEFINE h == [k \in 1 .. Len(log) |-> log[k].gen]
<1>2. IsFiniteSet(1 .. Len(log)) /\ Cardinality(1 .. Len(log)) = Len(log)
  <2>1. 1 \in Int /\ Len(log) \in Int /\ (1 > Len(log) <=> Len(log) = 0) BY <1>1
  <2> QED BY <1>1, <2>1, FS_Interval
<1>3. h \in Surjection(1 .. Len(log), Closed) BY DEF Closed, Surjection
<1>4. h \in Injection(1 .. Len(log), Closed)
  BY <1>3 DEF OneLine, Injection, IsInjective, Surjection
<1> HIDE DEF h
<1> QED BY <1>2, <1>3, <1>4, FS_Surjection

(* A receiver that reports ok has seen as many different blocks as it was  *)
(* asked for: if nothing is repeated, blocks have one parity frame at      *)
(* most, and the sender's pace and the path's delay stay inside the        *)
(* deadline.  Losses, failing calls, kills and restarts do not matter.     *)
THEOREM OkIsDistinct ==
  ASSUME NoWrap, Paced, InDeadline, TxK <= 1, MaxCopies = 0
  PROVE  LSpec => []OkMeansDistinctBlocks
<1> DEFINE Inv == TInv /\ RIInv /\ OInv /\ Ordered /\ Timely /\ Sendable /\ Once
<1>1. LInit => OInv /\ Ordered /\ Timely /\ Sendable /\ Once
  <2>1. LInit => Sendable BY DEF LInit, S!SInit, Sendable
  <2> QED BY <2>1, InitOInv, InitOrdered, InitTimely, InitOnce
<1>2. TInv /\ RIInv /\ OInv /\ [LNext]_lvars => OInv' BY NextOInv
<1>3. TInv /\ RIInv /\ OInv /\ Ordered /\ [LNext]_lvars => Ordered' BY StepKinds, NextOrdered
<1>4. TInv /\ RIInv /\ Ordered /\ Ordered' /\ Timely /\ [LNext]_lvars => Timely'
  BY StepKinds, NextTimely
<1>5. Sendable /\ [LNext]_lvars => Sendable' BY StepKinds, NextSendable
<1>6. TInv /\ RIInv /\ OInv /\ Sendable /\ Ordered /\ Ordered' /\ Timely /\ Once
        /\ [LNext]_lvars => Once'
  BY StepKinds, NextOnce
<1>7. RIInv /\ Once => OkMeansDistinctBlocks
  <2> SUFFICES ASSUME RIInv, Once, summary = <<"ok">> PROVE Cardinality(Closed) >= Expect
    BY DEF OkMeansDistinctBlocks, Closed
  <2>1. Len(log) = Expect BY DEF RIInv, Counting, StopsAtExpect
  <2>2. Cardinality(Closed) = Expect BY <2>1, DistinctLines DEF Once
  <2> QED BY <2>2, ExpectAssumption
<1> QED
  BY <1>1, <1>2, <1>3, <1>4, <1>5, <1>6, <1>7, LinkInvariance, LinkUsesReceiver, LoopInvariance,
     PTL DEF LSpec

-----------------------------------------------------------------------------
(* Frames of block g that have left and are neither on the path nor in the *)
(* table.                                                                  *)
Gone(g) ==
  {p \in Position :
     /\ g = gen => p < i
     /\ \A x \in net : ~(x.frame.gen = g /\ x.frame.seq = p)
     /\ ~(g \in Open /\ Arrived(blocks[g], p))}

Unbroken == run = 1 /\ spc # "killed"

(* The path has lost all that is gone.                                     *)
FewGone ==
  Unbroken /\ pc # "done" =>
    \A g \in 0 .. gen : g \notin Closed => Cardinality(Gone(g)) <= losses

LEMMA GoneFinite ==
  ASSUME NEW g
  PROVE  IsFiniteSet(Gone(g)) /\ Cardinality(Gone(g)) \in Nat
<1>1. IsFiniteSet(Position)
  <2>1. 0 \in Int /\ TxN + TxK - 1 \in Int BY Options
  <2> QED BY <2>1, FS_Interval DEF Position
<1>2. Gone(g) \in SUBSET Position BY DEF Gone
<1>3. IsFiniteSet(Gone(g)) BY <1>1, <1>2, FS_Subset
<1> QED BY <1>3, FS_CardinalityType

LEMMA NoMoreGone ==
  ASSUME NEW g, NEW G, G \in SUBSET Gone(g), NEW l \in Nat, Cardinality(Gone(g)) <= l
  PROVE  Cardinality(G) <= l
<1>1. IsFiniteSet(G) /\ Cardinality(G) <= Cardinality(Gone(g)) BY GoneFinite, FS_Subset
<1>2. Cardinality(G) \in Nat BY <1>1, FS_CardinalityType
<1> QED BY <1>1, <1>2, GoneFinite

LEMMA OneMoreGone ==
  ASSUME NEW g, NEW q, NEW G, G \in SUBSET (Gone(g) \cup {q}),
         NEW l \in Nat, Cardinality(Gone(g)) <= l
  PROVE  Cardinality(G) <= l + 1
<1>1. /\ IsFiniteSet(Gone(g) \cup {q})
      /\ Cardinality(Gone(g) \cup {q}) <= Cardinality(Gone(g)) + 1
  BY GoneFinite, FS_AddElement
<1>2. IsFiniteSet(G) /\ Cardinality(G) <= Cardinality(Gone(g) \cup {q}) BY <1>1, FS_Subset
<1>3. Cardinality(G) \in Nat /\ Cardinality(Gone(g) \cup {q}) \in Nat
  BY <1>1, <1>2, FS_CardinalityType
<1> QED BY <1>1, <1>2, <1>3, GoneFinite

LEMMA InitFewGone == LInit => FewGone
<1> SUFFICES ASSUME LInit, NEW g \in 0 .. gen PROVE Cardinality(Gone(g)) <= losses
  BY DEF FewGone
<1>1. gen = 0 /\ i = 0 /\ losses = 0
  BY Wrapped, Options DEF LInit, S!SInit
<1>2. g = gen BY <1>1
<1>3. \A p \in Position : ~(p < i) BY <1>1, Options DEF Position
<1>4. Gone(g) = {} BY <1>2, <1>3 DEF Gone
<1>5. Cardinality({}) = 0 BY FS_EmptySet
<1> QED BY <1>1, <1>4, <1>5

LEMMA WasUnbroken ==
  ASSUME TInv, LinkStep, Unbroken'
  PROVE  Unbroken /\ (pc = "done" => pc' = "done")
<1>1. ASSUME NEW d \in Ticks, StartsOver(d) PROVE FALSE
  <2>1. run \in Nat /\ run >= 1 /\ run + 1 = 1 BY <1>1 DEF StartsOver, Unbroken, TInv
  <2> QED BY <2>1
<1>2. run' = run /\ (spc = "killed" => spc' = "killed") /\ (pc = "done" => pc' = "done")
  BY <1>1 DEF LinkStep, TakesUp, PutsOnPath, EndsBlock, Stops, Hears, Drops, Closes, Idles,
              Waits, sender
<1> QED BY <1>2 DEF Unbroken

LEMMA NextFewGone ==
  ASSUME TInv, RIInv, OInv, Sendable, Ordered, FewGone, LinkStep
  PROVE  FewGone'
<1>1. /\ gen \in Nat /\ i \in Nat /\ run \in Nat /\ run >= 1 /\ losses \in Nat /\ i <= TxN + TxK
  BY Numbers, Options DEF TInv
<1>2. SUFFICES ASSUME Unbroken', pc' # "done"
               PROVE  \A g \in 0 .. gen' : g \notin Closed' => Cardinality(Gone(g)') <= losses'
  BY DEF FewGone
<1>3. Unbroken /\ pc # "done" BY <1>2, WasUnbroken
<1>4. \A g \in 0 .. gen : g \notin Closed => Cardinality(Gone(g)) <= losses
  BY <1>3 DEF FewGone
(* Most steps take nothing away.                                           *)
<1>5. ASSUME gen' = gen, Closed' = Closed, losses' = losses,
             \A g \in 0 .. gen : g \notin Closed => Gone(g)' \in SUBSET Gone(g)
      PROVE  \A g \in 0 .. gen' : g \notin Closed' => Cardinality(Gone(g)') <= losses'
  BY <1>1, <1>4, <1>5, NoMoreGone
<1>6. CASE TakesUp
  <2>1. /\ gen' = next_gen_id /\ i' = 0 /\ UNCHANGED <<net, blocks, log, losses>>
        /\ Open' = Open /\ Closed' = Closed
        /\ (next_gen_id = gen /\ i = 0) \/ (next_gen_id = gen + 1 /\ i = TxN + TxK)
    BY <1>6 DEF TakesUp, Open, Closed, Ordered
  <2>2. ASSUME NEW g \in 0 .. gen', g \notin Closed PROVE Cardinality(Gone(g)') <= losses
    <3>1. CASE g = gen'
      <4>1. \A p \in Position : ~(p < i') BY <2>1, Options DEF Position
      <4>2. Gone(g)' = {} BY <3>1, <4>1 DEF Gone
      <4>3. Cardinality({}) = 0 BY FS_EmptySet
      <4> QED BY <1>1, <4>2, <4>3
    <3>2. CASE g # gen'
      <4>1. g \in 0 .. gen /\ (g = gen => i = TxN + TxK) BY <1>1, <2>1, <3>2
      <4>2. \A p \in Position : p < TxN + TxK BY Options DEF Position
      <4>3. Gone(g)' \in SUBSET Gone(g) BY <2>1, <4>1, <4>2 DEF Gone, Arrived
      <4> QED BY <1>1, <1>4, <2>2, <4>1, <4>3, NoMoreGone
    <3> QED BY <3>1, <3>2
  <2> QED BY <2>1, <2>2
<1>7. ASSUME NEW x, PutsOnPath(x) PROVE \A g \in 0 .. gen : Gone(g)' \in SUBSET Gone(g)
  <2>1. /\ i < TxN + TxK /\ i' = i + 1 /\ net' = net \cup {x}
        /\ UNCHANGED <<gen, blocks>> /\ x.frame = sent_frame(<<run, b>>, gen, i) /\ Open' = Open
    BY <1>7 DEF PutsOnPath, Open
  <2>2. i \in Position BY <1>1, <2>1, Options DEF Position
  <2>3. x.frame.gen = gen /\ x.frame.seq = i BY <2>1, <2>2, SentFrame DEF Position
  <2>4. ASSUME NEW g, NEW p \in Gone(g)' PROVE p \in Gone(g)
    <3>1. /\ p \in Position
          /\ g = gen => p < i + 1
          /\ \A y \in net' : ~(y.frame.gen = g /\ y.frame.seq = p)
          /\ ~(g \in Open /\ Arrived(blocks[g], p))
      BY <2>1, <2>4 DEF Gone, Arrived
    <3>2. g = gen => p < i
      <4>1. p \in Nat BY <3>1, Options DEF Position
      <4>2. g = gen => p # i BY <2>1, <2>3, <3>1
      <4> QED BY <1>1, <3>1, <4>1, <4>2
    <3> QED BY <2>1, <3>1, <3>2 DEF Gone
  <2> QED BY <2>4
<1>8. CASE EndsBlock \/ Stops \/ Idles \/ \E d \in Ticks : Waits(d)
  <2>1. UNCHANGED <<gen, i, net, blocks, log, losses>>
    BY <1>8 DEF EndsBlock, Stops, Idles, Waits, sender
  <2>2. Open' = Open /\ Closed' = Closed BY <2>1 DEF Open, Closed
  <2>3. \A g : Gone(g)' = Gone(g) BY <2>1, <2>2 DEF Gone, Arrived
  <2> QED BY <1>5, <2>1, <2>2, <2>3
<1>9. ASSUME NEW m \in net, Drops(m)
      PROVE  \A g \in 0 .. gen' : g \notin Closed' => Cardinality(Gone(g)') <= losses'
  <2>1. /\ UNCHANGED <<gen, i, blocks, log>> /\ net' = net \ {m} /\ losses' = losses + 1
        /\ Open' = Open /\ Closed' = Closed
    BY <1>3, <1>9 DEF Drops, sender, Open, Closed
  <2>2. ASSUME NEW g \in 0 .. gen, g \notin Closed PROVE Cardinality(Gone(g)') <= losses + 1
    <3>1. Gone(g)' \in SUBSET (Gone(g) \cup {m.frame.seq}) BY <2>1 DEF Gone, Arrived
    <3> QED BY <1>1, <1>4, <2>2, <3>1, OneMoreGone
  <2> QED BY <2>1, <2>2
<1>10. ASSUME NEW m \in net, Hears(m) PROVE \A g \in 0 .. gen : Gone(g)' \in SUBSET Gone(g)
  <2>1. UNCHANGED <<gen, i>> /\ net \ {m} \subseteq net' BY <1>10 DEF Hears, sender
  <2>2. PICK h, q : h = m.frame.gen /\ q = m.frame.seq OBVIOUS
  <2>3. /\ q \in Position /\ Open' = Open \cup {h}
        /\ \A p \in Position :
             Arrived(blocks'[h], p) <=> p = q \/ (h \in Open /\ Arrived(blocks[h], p))
    BY <1>10, <2>2, HeardArrives
  <2>4. \A g \in Open : g # h => blocks'[g] = blocks[g]
    BY <1>10, <2>2, HeardOpens DEF Open
  <2>5. ASSUME NEW g, NEW p \in Gone(g)' PROVE p \in Gone(g)
    <3>1. /\ p \in Position
          /\ g = gen => p < i
          /\ \A y \in net' : ~(y.frame.gen = g /\ y.frame.seq = p)
          /\ ~(g \in Open' /\ Arrived(blocks'[g], p))
      BY <2>1, <2>5 DEF Gone, Arrived
    <3>2. ~(g = h /\ p = q) BY <2>3, <3>1
    <3>3. \A y \in net : ~(y.frame.gen = g /\ y.frame.seq = p) BY <2>1, <2>2, <3>1, <3>2
    <3>4. ~(g \in Open /\ Arrived(blocks[g], p)) BY <2>3, <2>4, <3>1
    <3> QED BY <3>1, <3>3, <3>4 DEF Gone
  <2> QED BY <2>5
<1>11. ASSUME NEW h \in Gens, Closes(h)
       PROVE  \A g \in 0 .. gen' : g \notin Closed' => Cardinality(Gone(g)') <= losses'
  <2>1. /\ UNCHANGED <<gen, i, net, losses>> /\ Open' = Open \ {h} /\ Closed' = Closed \cup {h}
        /\ \A g \in Open' : blocks'[g] = blocks[g]
    BY <1>11, ClosesOne DEF Closes, sender
  <2>2. ASSUME NEW g \in 0 .. gen, g \notin Closed' PROVE Cardinality(Gone(g)') <= losses
    <3>1. g # h /\ g \notin Closed BY <2>1, <2>2
    <3>2. Gone(g)' \in SUBSET Gone(g) BY <2>1, <3>1 DEF Gone, Arrived
    <3> QED BY <1>1, <1>4, <3>1, <3>2, NoMoreGone
  <2> QED BY <2>1, <2>2
<1>12. ASSUME NEW d \in Ticks, StartsOver(d) PROVE FALSE
  BY <1>1, <1>2, <1>12 DEF StartsOver, Unbroken
<1>13. ASSUME NEW x, PutsOnPath(x)
       PROVE  \A g \in 0 .. gen' : g \notin Closed' => Cardinality(Gone(g)') <= losses'
  <2>1. UNCHANGED <<gen, log, losses>> BY <1>13 DEF PutsOnPath
  <2> QED BY <1>5, <1>7, <1>13, <2>1 DEF Closed
<1>14. ASSUME NEW m \in net, Hears(m)
       PROVE  \A g \in 0 .. gen' : g \notin Closed' => Cardinality(Gone(g)') <= losses'
  <2>1. UNCHANGED <<gen, log, losses>> BY <1>14 DEF Hears, sender
  <2> QED BY <1>5, <1>10, <1>14, <2>1 DEF Closed
<1> QED BY <1>6, <1>8, <1>9, <1>11, <1>12, <1>13, <1>14 DEF LinkStep

-----------------------------------------------------------------------------
(* A block is closed whole when what is missing of it is no more than its  *)
(* parity frames: every hole has a row, and the decoders accept it.        *)
Solvable ==
  \A s \in Singular : ~(s[1] \subseteq 0 .. TxK - 1 /\ s[2] \subseteq 0 .. TxN - 1)

LEMMA Slots ==
  ASSUME NEW c, SoundOf(c, TxN, TxK)
  PROVE  /\ c.N = TxN /\ c.K = TxK
         /\ lost(c) = {q \in 0 .. TxN - 1 : c.data[q] = Missing}
         /\ rows(c) = {j \in 0 .. TxK - 1 : c.parity[j] # Missing}
         /\ rows(c) = c.stParity /\ c.stData = (0 .. TxN - 1) \ lost(c)
         /\ IsFiniteSet(lost(c)) /\ IsFiniteSet(rows(c)) /\ IsFiniteSet(c.stData)
         /\ Cardinality(lost(c)) \in Nat /\ Cardinality(rows(c)) \in Nat
         /\ Cardinality(rows(c)) <= TxK
         /\ Cardinality(lost(c)) = TxN - Cardinality(c.stData)
<1> DEFINE D == 0 .. TxN - 1
           P == 0 .. TxK - 1
<1>1. TxN \in Nat /\ TxN >= 1 /\ TxK \in Nat BY Options
<1>2. c.N = TxN /\ c.K = TxK /\ Agrees(c) /\ OneSize(c) BY DEF SoundOf, BlockOf
<1>3. lost(c) = {q \in D : c.data[q] = Missing} BY <1>1, LostIsMissing
<1>4. rows(c) = {j \in P : c.parity[j] # Missing} BY <1>2 DEF rows, full, OneSize
<1>5. rows(c) = c.stParity /\ c.stData = D \ lost(c) BY <1>2, <1>3, <1>4 DEF Agrees
<1>6. IsFiniteSet(D) /\ Cardinality(D) = TxN
  <2>1. 0 \in Int /\ TxN - 1 \in Int /\ ~(0 > TxN - 1) /\ (TxN - 1) - 0 + 1 = TxN BY <1>1
  <2> QED BY <2>1, FS_Interval
<1>7. IsFiniteSet(P) /\ Cardinality(P) = TxK
  <2>1. 0 \in Int /\ TxK - 1 \in Int /\ (0 > TxK - 1 <=> TxK = 0) /\ (TxK - 1) - 0 + 1 = TxK
    BY <1>1
  <2> QED BY <2>1, FS_Interval
<1>8. lost(c) \in SUBSET D /\ c.stData \in SUBSET D /\ rows(c) \in SUBSET P
  BY <1>3, <1>4, <1>5
<1>9. lost(c) \cup c.stData = D /\ lost(c) \cap c.stData = {} BY <1>5, <1>8
<1> HIDE DEF D, P
<1>10. /\ IsFiniteSet(lost(c)) /\ IsFiniteSet(rows(c)) /\ IsFiniteSet(c.stData)
       /\ Cardinality(rows(c)) <= TxK
  BY <1>6, <1>7, <1>8, FS_Subset
<1>11. Cardinality(lost(c)) \in Nat /\ Cardinality(rows(c)) \in Nat /\ Cardinality(c.stData) \in Nat
  BY <1>10, FS_CardinalityType
<1>12. Cardinality(lost(c)) = TxN - Cardinality(c.stData)
  <2>1. Cardinality(D) = Cardinality(lost(c)) + Cardinality(c.stData) - Cardinality({})
    BY <1>9, <1>10, FS_Union
  <2>2. Cardinality({}) = 0 BY FS_EmptySet
  <2> QED BY <1>1, <1>6, <1>11, <2>1, <2>2
<1> QED BY <1>2, <1>3, <1>4, <1>5, <1>10, <1>11, <1>12 DEF D, P

LEMMA RowsForHoles ==
  ASSUME NEW c, SoundOf(c, TxN, TxK),
         NEW W, W = {p \in Position : ~Arrived(c, p)}, Cardinality(W) <= TxK
  PROVE  Cardinality(lost(c)) <= Cardinality(rows(c))
<1> DEFINE P == 0 .. TxK - 1
           A == P \ rows(c)
           V == W \ lost(c)
           h == [j \in A |-> TxN + j]
<1>1. /\ TxN \in Nat /\ TxN >= 1 /\ TxK \in Nat BY Options
<1>2. /\ lost(c) = {q \in 0 .. TxN - 1 : c.data[q] = Missing}
      /\ rows(c) = {j \in P : c.parity[j] # Missing}
      /\ IsFiniteSet(lost(c)) /\ IsFiniteSet(rows(c))
      /\ Cardinality(lost(c)) \in Nat /\ Cardinality(rows(c)) \in Nat
  BY Slots
<1>3. IsFiniteSet(P) /\ Cardinality(P) = TxK
  <2>1. 0 \in Int /\ TxK - 1 \in Int /\ (0 > TxK - 1 <=> TxK = 0) /\ (TxK - 1) - 0 + 1 = TxK
    BY <1>1
  <2> QED BY <2>1, FS_Interval
<1>4. IsFiniteSet(W)
  <2>1. IsFiniteSet(Position)
    <3>1. 0 \in Int /\ TxN + TxK - 1 \in Int BY <1>1
    <3> QED BY <3>1, FS_Interval DEF Position
  <2>2. W \in SUBSET Position OBVIOUS
  <2> QED BY <2>1, <2>2, FS_Subset
<1>5. lost(c) \in SUBSET W
  <2> SUFFICES ASSUME NEW q \in lost(c) PROVE q \in W OBVIOUS
  <2>1. q \in Position /\ q < TxN /\ c.data[q] = Missing BY <1>1, <1>2 DEF Position
  <2> QED BY <2>1 DEF Arrived
<1>6. h \in Injection(A, V)
  <2>1. ASSUME NEW j \in A PROVE TxN + j \in V
    <3>1. j \in 0 .. TxK - 1 /\ c.parity[j] = Missing BY <1>2, <2>1
    <3>2. /\ j \in Nat /\ TxN + j \in Position /\ ~(TxN + j < TxN) /\ (TxN + j) - TxN = j
          /\ TxN + j \notin 0 .. TxN - 1
      BY <1>1, <3>1 DEF Position
    <3>3. ~Arrived(c, TxN + j) BY <3>1, <3>2 DEF Arrived
    <3> QED BY <1>2, <3>2, <3>3
  <2>2. \A j, k \in A : TxN + j = TxN + k => j = k
    <3>1. A \subseteq Nat BY <1>1
    <3> QED BY <1>1, <3>1
  <2> HIDE DEF A, V
  <2> QED BY <2>1, <2>2 DEF Injection, IsInjective
<1>7. A \cup rows(c) = P /\ A \cap rows(c) = {} /\ A \in SUBSET P BY <1>2
<1>8. V \cup lost(c) = W /\ V \cap lost(c) = {} /\ V \in SUBSET W BY <1>5
<1> HIDE DEF A, V, h, P
<1>9. IsFiniteSet(A) /\ IsFiniteSet(V) BY <1>3, <1>4, <1>7, <1>8, FS_Subset
<1>10. Cardinality(A) \in Nat /\ Cardinality(V) \in Nat BY <1>9, FS_CardinalityType
<1>11. Cardinality(A) <= Cardinality(V) BY <1>6, <1>9, FS_Injection
<1>12. Cardinality({}) = 0 BY FS_EmptySet
<1>13. Cardinality(P) = Cardinality(A) + Cardinality(rows(c)) - Cardinality({})
  BY <1>2, <1>7, <1>9, FS_Union
<1>14. Cardinality(W) = Cardinality(V) + Cardinality(lost(c)) - Cardinality({})
  BY <1>2, <1>8, <1>9, FS_Union
<1> QED BY <1>1, <1>2, <1>3, <1>10, <1>11, <1>12, <1>13, <1>14

LEMMA RecoversAll ==
  ASSUME Solvable, NEW c, SoundOf(c, TxN, TxK), Cardinality(lost(c)) <= Cardinality(rows(c))
  PROVE  recovered(c) = lost(c)
<1> DEFINE m == Cardinality(lost(c))
           r == Cardinality(rows(c))
<1>1. PICK k \in 0 .. 4 : TxK = k BY LinkAssumption
<1>2. /\ c.N = TxN /\ c.K = k /\ rows(c) = c.stParity /\ rows(c) \subseteq 0 .. k - 1
      /\ lost(c) \subseteq 0 .. TxN - 1 /\ IsFiniteSet(lost(c))
      /\ m \in Nat /\ r \in Nat /\ m <= r /\ r <= k /\ m = TxN - Cardinality(c.stData)
      /\ Cardinality(c.stData) = TxN - m
  <2>1. Cardinality(c.stData) \in Nat BY Slots, FS_CardinalityType
  <2> HIDE DEF m, r
  <2>2. /\ c.N = TxN /\ c.K = TxK /\ rows(c) = c.stParity /\ rows(c) \subseteq 0 .. TxK - 1
        /\ lost(c) \subseteq 0 .. TxN - 1 /\ IsFiniteSet(lost(c))
        /\ m \in Nat /\ r \in Nat /\ r <= TxK /\ m = TxN - Cardinality(c.stData)
    BY Slots DEF m, r
  <2>3. m <= r BY DEF m, r
  <2> QED BY <1>1, <2>1, <2>2, <2>3, Options
<1>3. m = 0 <=> lost(c) = {} BY <1>2, FS_EmptySet
<1> HIDE DEF m, r
<1>4. CASE m = 0 BY <1>3, <1>4 DEF recovered
<1>5. CASE m # 0 /\ k = 1
  <2>1. rows(c) = {} \/ rows(c) = {0} BY <1>2, <1>5
  <2>2. Cardinality({}) = 0 BY FS_EmptySet
  <2>3. rows(c) = {0} /\ m = 1
    <3>1. r # 0 /\ m = 1 BY <1>2, <1>5
    <3> QED BY <2>1, <2>2, <3>1 DEF r
  <2>4. c.N - Cardinality(c.stData) = 1 BY <1>2, <2>3, Options
  <2>5. xor_recovers(c) BY <1>2, <1>5, <2>3, <2>4 DEF xor_recovers, recoverable_k1, m
  <2> QED BY <2>5 DEF recovered
<1>6. CASE m # 0 /\ k >= 2
  <2>1. <<first_rows(c, m), lost(c)>> \notin Singular
    <3>1. first_rows(c, m) \subseteq 0 .. TxK - 1 BY <1>1, <1>2 DEF first_rows
    <3> QED BY <1>2, <3>1 DEF Solvable
  <2>2. gf256_recovers(c) BY <1>1, <1>2, <1>3, <1>6, <2>1 DEF gf256_recovers, m, r
  <2> QED BY <2>2 DEF recovered
<1> QED BY <1>1, <1>2, <1>4, <1>5, <1>6

LEMMA WholeLine ==
  ASSUME NEW g \in Gens, NEW c, SoundOf(c, TxN, TxK), recovered(c) = lost(c)
  PROVE  LET l == closed_line(extract_closed(g, c)) IN l.present = l.N
<1> DEFINE e == extract_closed(g, c)
           D == 0 .. TxN - 1
<1>1. TxN \in Nat /\ TxN >= 1 /\ TxK \in Nat BY Options
<1>2. e.N = TxN BY DEF extract_closed, SoundOf, BlockOf
<1>3. ASSUME NEW q \in D PROVE e.data[q] # Missing
  <2>1. c.N = TxN /\ lost(c) = {p \in D : c.data[p] = Missing} BY Slots
  <2>2. e.data[q] = IF q \in recovered(c)
                    THEN decode(c, first_rows(c, Cardinality(lost(c))), q)
                    ELSE c.data[q]
    BY <2>1 DEF extract_closed
  <2>3. CASE q \in lost(c)
    <3>1. c \in BlockOf(TxN, TxK) BY DEF SoundOf
    <3>2. decode(c, first_rows(c, Cardinality(lost(c))), q) \in Payload \cup {Garbage}
      BY <1>1, <3>1, DecodeType
    <3> QED BY <2>2, <2>3, <3>2, TokenAssumption
  <2>4. CASE q \notin lost(c) BY <2>1, <2>2, <2>4
  <2> QED BY <2>3, <2>4
<1>4. Cardinality(D) = TxN
  <2>1. 0 \in Int /\ TxN - 1 \in Int /\ ~(0 > TxN - 1) /\ (TxN - 1) - 0 + 1 = TxN BY <1>1
  <2> QED BY <2>1, FS_Interval
<1> HIDE DEF e
<1>5. {q \in 0 .. e.N - 1 : e.data[q] # Missing} = D BY <1>2, <1>3
<1>6. closed_line(e).present = TxN /\ closed_line(e).N = TxN BY <1>2, <1>4, <1>5 DEF closed_line
<1> QED BY <1>6 DEF e

(* The first close of a generation.                                        *)
LEMMA WholeAtClose ==
  ASSUME MaxLoss <= TxK, Solvable, InDeadline, TInv, RIInv, OInv, Ordered, Timely, FewGone,
         Unbroken, pc = "scan", NEW g \in Open, should_close(blocks[g], now), g \notin Closed
  PROVE  LET l == closed_line(extract_closed(g, blocks[g])) IN l.present = l.N
<1>1. PICK c : c = blocks[g] OBVIOUS
<1>2. SoundOf(c, TxN, TxK) BY <1>1, OwnedOpen
<1>3. g \in Gens BY DEF Open
<1>4. recovered(c) = lost(c)
  <2>1. CASE Complete(c)
    <3>1. c.stData = 0 .. TxN - 1 BY <1>2, <2>1 DEF Complete, SoundOf, Agrees
    <3>2. lost(c) = {} BY <1>2, <3>1, Slots
    <3> QED BY <3>2 DEF recovered
  <2>2. CASE now >= c.start + Deadline
    <3>1. g # gen /\ \A x \in net : x.frame.gen # g BY <1>1, <2>2, PastDeadline
    <3>2. Gone(g) = {p \in Position : ~Arrived(c, p)} BY <1>1, <3>1 DEF Gone
    <3>3. g \in 0 .. gen
      <4>1. g \in Nat /\ g <= gen BY DEF Ordered, Used, Below, Unbroken
      <4> QED BY <4>1, Numbers
    <3>4. Cardinality(Gone(g)) <= losses BY <3>3 DEF FewGone
    <3>5. losses \in Nat /\ losses <= MaxLoss BY Options DEF TInv
    <3>6. Cardinality(Gone(g)) <= TxK BY <3>4, <3>5, GoneFinite, Options
    <3>7. Cardinality(lost(c)) <= Cardinality(rows(c)) BY <1>2, <3>2, <3>6, RowsForHoles
    <3> QED BY <1>2, <3>7, RecoversAll
  <2> QED BY <1>1, <2>1, <2>2, DueWhy
<1> QED BY <1>1, <1>2, <1>3, <1>4, WholeLine

LEMMA NextFirstWhole ==
  ASSUME MaxLoss <= TxK, Solvable, InDeadline, TInv, RIInv, OInv, Ordered, Timely, FewGone,
         FirstCloseWhole, LinkStep
  PROVE  FirstCloseWhole'
<1> SUFFICES ASSUME Unbroken'
             PROVE  \A k \in 1 .. Len(log') : first_close(k)' => log'[k].present = log'[k].N
  BY DEF FirstCloseWhole, Unbroken
<1>1. Unbroken BY WasUnbroken
<1>2. \A k \in 1 .. Len(log) : first_close(k) => log[k].present = log[k].N
  BY <1>1 DEF FirstCloseWhole, Unbroken
<1>3. ASSUME NEW g \in Gens, Closes(g)
      PROVE  \A k \in 1 .. Len(log') : first_close(k)' => log'[k].present = log'[k].N
  <2>1. PICK n : n = Len(log) OBVIOUS
  <2>2. PICK l : l = closed_line(extract_closed(g, blocks[g])) OBVIOUS
  <2>3. /\ g \in Open /\ should_close(blocks[g], now) /\ n \in Nat /\ Len(log') = n + 1
        /\ \A k \in 1 .. n : log'[k] = log[k]
        /\ log'[n + 1] = l /\ log'[n + 1].gen = g
    BY <1>3, <2>1, <2>2, ClosesOne
  <2>4. pc = "scan" BY <1>3 DEF Closes
  <2>5. ASSUME NEW k \in 1 .. Len(log'), first_close(k)' PROVE log'[k].present = log'[k].N
    <3>1. \A j \in 1 .. k - 1 : log'[j].gen # log'[k].gen BY <2>5 DEF first_close
    <3>2. CASE k \in 1 .. n
      <4>1. \A j \in 1 .. k - 1 : j \in 1 .. n BY <2>3, <3>2
      <4>2. first_close(k) BY <2>3, <3>1, <3>2, <4>1 DEF first_close
      <4> QED BY <1>2, <2>1, <2>3, <3>2, <4>2
    <3>3. CASE k = n + 1
      <4>1. k - 1 = n BY <2>3, <3>3
      <4>2. g \notin Closed BY <2>1, <2>3, <3>1, <3>3, <4>1 DEF Closed
      <4>3. l.present = l.N BY <1>1, <2>2, <2>3, <2>4, <4>2, WholeAtClose
      <4> QED BY <2>3, <3>3, <4>3
    <3>4. k \in 1 .. n \/ k = n + 1 BY <2>3
    <3> QED BY <3>2, <3>3, <3>4
  <2> QED BY <2>5
<1>4. ASSUME log' = log
      PROVE  \A k \in 1 .. Len(log') : first_close(k)' => log'[k].present = log'[k].N
  BY <1>2, <1>4 DEF first_close
<1>5. (\E g \in Gens : Closes(g)) \/ log' = log
  BY DEF LinkStep, TakesUp, PutsOnPath, EndsBlock, Stops, Hears, Drops, Idles, Waits, StartsOver
<1> QED BY <1>3, <1>4, <1>5

(* Unless the sender was killed, a generation is whole when it is first    *)
(* closed: if the path loses no more frames than a block has parity        *)
(* frames, the decoders can solve what they meet, and the sender's pace    *)
(* and the path's delay stay inside the deadline.  Repeated frames and     *)
(* failing calls do not matter.                                            *)
THEOREM FirstIsWhole ==
  ASSUME NoWrap, Paced, InDeadline, MaxLoss <= TxK, Solvable
  PROVE  LSpec => []FirstCloseWhole
<1>1. LInit => OInv /\ Ordered /\ Timely /\ Sendable /\ FewGone /\ FirstCloseWhole
  <2>1. LInit => Sendable BY DEF LInit, S!SInit, Sendable
  <2>2. LInit => FirstCloseWhole
    <3>1. LInit => log = <<>> BY DEF LInit, RInit
    <3> QED BY <3>1 DEF FirstCloseWhole
  <2> QED BY <2>1, <2>2, InitOInv, InitOrdered, InitTimely, InitFewGone
<1>2. TInv /\ RIInv /\ OInv /\ [LNext]_lvars => OInv' BY NextOInv
<1>3. TInv /\ RIInv /\ OInv /\ Ordered /\ [LNext]_lvars => Ordered' BY StepKinds, NextOrdered
<1>4. TInv /\ RIInv /\ Ordered /\ Ordered' /\ Timely /\ [LNext]_lvars => Timely'
  BY StepKinds, NextTimely
<1>5. Sendable /\ [LNext]_lvars => Sendable' BY StepKinds, NextSendable
<1>6. TInv /\ RIInv /\ OInv /\ Sendable /\ Ordered /\ FewGone /\ [LNext]_lvars => FewGone'
  BY StepKinds, NextFewGone
<1>7. TInv /\ RIInv /\ OInv /\ Ordered /\ Timely /\ FewGone /\ FirstCloseWhole /\ [LNext]_lvars
        => FirstCloseWhole'
  BY StepKinds, NextFirstWhole
<1> QED
  BY <1>1, <1>2, <1>3, <1>4, <1>5, <1>6, <1>7, LinkInvariance, LinkUsesReceiver, LoopInvariance,
     PTL DEF LSpec
===============================================================================
