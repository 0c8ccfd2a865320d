--------------------------- MODULE Sender_proofs ---------------------------
(***************************************************************************)
(* What fec_sender guarantees, for every shape, frame rate, block count    *)
(* and clock, over any number of kills and restarts.                       *)
(*                                                                         *)
(* TInv keeps types and counters.  Three invariants stand on it:           *)
(*   IdInv     ids never run ahead of the clock, so a new incarnation      *)
(*             starts above every id that was used before it               *)
(*   PaceInv   how many frames can have left at the present reading        *)
(*   SentInv   which sequence numbers of which block have left             *)
(***************************************************************************)
EXTENDS Sender, TLAPS, FiniteSetTheorems

TInv ==
  /\ STypeOK
  /\ now <= MaxTime
  /\ spc = "send" => b < Blocks
  /\ spc = "killed" => run < MaxRuns
  /\ \A x \in net : x.at \in Nat /\ x.at <= now

LEMMA Options ==
  /\ TxN \in Nat /\ TxN >= 1 /\ TxK \in Nat /\ TxN + TxK <= 259
  /\ Blocks \in Nat /\ Blocks >= 1 /\ InterBlockMs \in Nat
  /\ GenWrap \in Nat /\ GenWrap >= 1 /\ MaxTime \in Nat /\ MaxRuns \in Nat /\ MaxRuns >= 1
  /\ Ticks \subseteq Nat
BY OptionsAssumption, SenderClockAssumption

LEMMA Wrapped == \A n \in Nat : u32(n) \in 0 .. GenWrap - 1 /\ (n < GenWrap => u32(n) = n)
BY Options DEF u32

LEMMA Pause == dt_ms \in Nat /\ dt_ms >= 1
<1>1. Fps \in Nat /\ Fps > 0 BY OptionsAssumption
<1>2. 1000 \div Fps \in Int BY <1>1
<1> QED BY <1>2 DEF dt_ms

(* The frame that leaves next.                                             *)
LEMMA NextFrame ==
  ASSUME TInv, i < TxN + TxK
  PROVE  /\ block_frames[i].gen = gen /\ block_frames[i].seq = i
         /\ block_frames[i].pay.origin = <<run, b>>
<1>1. i \in Nat /\ i \in 0 .. TxN + TxK - 1 /\ i <= 259 BY Options DEF TInv, STypeOK
<1>2. block_frames[i] = out_frame(<<run, b>>, gen, TxN, TxK, payload_len, i)
  BY <1>1 DEF block_frames, assemble_block
<1>3. CASE i < TxN BY <1>2, <1>3 DEF out_frame, data_frame
<1>4. CASE ~(i < TxN)
  <2>1. TxN + (i - TxN) = i /\ i % 65536 = i BY <1>1, Options
  <2> QED BY <1>2, <1>4, <2>1 DEF out_frame, parity_frame
<1> QED BY <1>3, <1>4

LEMMA InitTInv == SInit => TInv
<1> SUFFICES ASSUME SInit PROVE TInv OBVIOUS
<1>1. u32(0) \in 0 .. GenWrap - 1 BY Wrapped
<1>2. <<>> \in Seq({"error", "ok"}) OBVIOUS
<1> QED BY <1>1, <1>2, Options DEF SInit, TInv, STypeOK

LEMMA NextTInv == TInv /\ [SNext]_svars => TInv'
<1> SUFFICES ASSUME TInv, [SNext]_svars PROVE TInv' OBVIOUS
<1> USE Options DEF TInv, STypeOK
<1>1. CASE Assemble
  <2>1. u32(next_gen_id + 1) \in 0 .. GenWrap - 1 BY Wrapped
  <2> QED BY <1>1, <2>1 DEF Assemble
<1>2. CASE SendFrame BY <1>2, Pause DEF SendFrame
<1>3. CASE NextBlock BY <1>3 DEF NextBlock
<1>4. CASE Finish
  <2>1. footers' \in Seq({"error", "ok"}) BY <1>4 DEF Finish
  <2> QED BY <1>4, <2>1 DEF Finish
<1>5. CASE SendError
  <2>1. footers' \in Seq({"error", "ok"}) BY <1>5 DEF SendError
  <2> QED BY <1>5, <2>1 DEF SendError
<1>6. CASE Kill BY <1>6 DEF Kill
<1>7. ASSUME NEW d \in Ticks, Restart(d) PROVE TInv'
  <2>1. d \in Nat /\ now' = now + d /\ now' \in Nat BY <1>7 DEF Restart
  <2>2. u32(now') \in 0 .. GenWrap - 1 BY <2>1, Wrapped
  <2>3. <<>> \in Seq({"error", "ok"}) OBVIOUS
  <2> QED BY <1>7, <2>1, <2>2, <2>3 DEF Restart, Start
<1>8. ASSUME NEW d \in Ticks, Sleep(d) PROVE TInv'
  BY <1>8 DEF Sleep, process
<1>9. CASE UNCHANGED svars BY <1>9 DEF svars, process
<1> QED BY <1>1, <1>2, <1>3, <1>4, <1>5, <1>6, <1>7, <1>8, <1>9 DEF SNext, Send

THEOREM SenderInvariance == SSpec => []TInv
BY InitTInv, NextTInv, PTL DEF SSpec

(* Counters, ids and footers keep their ranges over kills and restarts.    *)
THEOREM SenderTypeCorrect == SSpec => []STypeOK
<1>1. TInv => STypeOK BY DEF TInv
<1> QED BY <1>1, SenderInvariance, PTL

-----------------------------------------------------------------------------
(* Ids and the clock.  s is the id the present incarnation began with.     *)
IdsFrom(s) ==
  /\ spc = "assemble" => next_gen_id = s + b /\ next_gen_id <= wake
  /\ spc = "send" => /\ gen = s + b /\ next_gen_id = gen + 1 /\ gen <= now
                     /\ i >= 1 /\ TxN >= 2 => gen + 1 <= wake
                     /\ i >= TxN => wake <= now
  /\ \A x \in net :
       LET o == x.frame.pay.origin
       IN /\ o \in Nat \X Nat /\ x.frame.gen \in Nat /\ x.frame.gen <= now
          /\ o[1] = run => x.frame.gen = s + o[2]
          /\ o[1] # run => o[1] < run /\ x.frame.gen < s

IdInv == (\E s \in Nat : IdsFrom(s)) /\ GenNamesOneBlock

(* Ids fit their 32 bits, and every block takes a millisecond: it has a    *)
(* paced frame, or the user asked for a pause between blocks.              *)
NoWrap == MaxTime + 1 < GenWrap
Paced == TxN >= 2 \/ InterBlockMs >= 1

LEMMA InitIdInv == SInit => IdInv
<1> SUFFICES ASSUME SInit PROVE IdInv OBVIOUS
<1>1. u32(0) = 0 BY Wrapped, Options
<1>2. IdsFrom(0) BY <1>1 DEF SInit, IdsFrom
<1> QED BY <1>2 DEF IdInv, GenNamesOneBlock, SInit

LEMMA NextIdInv ==
  ASSUME NoWrap, Paced
  PROVE  TInv /\ IdInv /\ [SNext]_svars => IdInv'
<1> SUFFICES ASSUME TInv, IdInv, [SNext]_svars PROVE IdInv' OBVIOUS
<1>1. PICK s \in Nat : IdsFrom(s) BY DEF IdInv
<1>2. /\ now \in Nat /\ wake \in Nat /\ run \in Nat /\ b \in Nat /\ i \in Nat
      /\ gen \in Nat /\ next_gen_id \in Nat /\ now <= MaxTime
  BY Options DEF TInv, STypeOK
<1>3. CASE Assemble
  <2>1. next_gen_id + 1 < GenWrap \/ spc' # "send"
    BY <1>1, <1>2, <1>3, Options DEF Assemble, IdsFrom, NoWrap
  <2>2. u32(next_gen_id + 1) = next_gen_id + 1 \/ spc' # "send"
    BY <1>2, <2>1, Wrapped
  <2>3. IdsFrom(s)' BY <1>1, <1>2, <1>3, <2>2, Options DEF Assemble, IdsFrom
  <2>4. GenNamesOneBlock' BY <1>3 DEF Assemble, IdInv, GenNamesOneBlock
  <2> QED BY <2>3, <2>4 DEF IdInv
<1>4. CASE SendFrame
  <2> DEFINE x == [frame |-> block_frames[i], at |-> now]
  <2>1. /\ net' = net \cup {x} /\ x.frame.gen = s + b /\ x.frame.pay.origin = <<run, b>>
        /\ s + b <= now
    BY <1>1, <1>4, NextFrame DEF SendFrame, IdsFrom
  <2> HIDE DEF x
  <2>2. IdsFrom(s)'
    <3>1. gen' = s + b' /\ next_gen_id' = gen' + 1 /\ gen' <= now' /\ spc' = "send"
          /\ run' = run /\ b' = b /\ now' = now
      BY <1>1, <1>4 DEF SendFrame, IdsFrom
    <3>2. i' >= 1 /\ TxN >= 2 => gen' + 1 <= wake'
      BY <1>1, <1>2, <1>4, Pause, Options DEF SendFrame, IdsFrom
    <3>3. i' >= TxN => wake' <= now'
      BY <1>2, <1>4, Options DEF SendFrame
    <3>4. ASSUME NEW y \in net'
          PROVE  LET o == y.frame.pay.origin
                 IN /\ o \in Nat \X Nat /\ y.frame.gen \in Nat /\ y.frame.gen <= now'
                    /\ o[1] = run' => y.frame.gen = s + o[2]
                    /\ o[1] # run' => o[1] < run' /\ y.frame.gen < s
      <4>1. CASE y \in net BY <1>1, <3>1, <4>1 DEF IdsFrom
      <4>2. CASE y = x
        <5>1. /\ <<run, b>> \in Nat \X Nat /\ <<run, b>>[1] = run /\ <<run, b>>[2] = b
          BY <1>2
        <5>2. s + b \in Nat BY <1>2
        <5> QED BY <2>1, <3>1, <4>2, <5>1, <5>2
      <4> QED BY <2>1, <4>1, <4>2
    <3> QED BY <3>1, <3>2, <3>3, <3>4 DEF IdsFrom
  <2>3. ASSUME NEW y \in net, y.frame.gen = x.frame.gen
        PROVE  y.frame.pay.origin = <<run, b>>
    <3> DEFINE o == y.frame.pay.origin
    <3>1. /\ o \in Nat \X Nat
          /\ o[1] = run => s + b = s + o[2]
          /\ o[1] # run => s + b < s
      BY <1>1, <2>1, <2>3 DEF IdsFrom
    <3>2. o[1] = run /\ o[2] = b BY <1>2, <3>1
    <3> QED BY <3>1, <3>2
  <2>4. GenNamesOneBlock' BY <2>1, <2>3 DEF IdInv, GenNamesOneBlock
  <2> QED BY <2>2, <2>4 DEF IdInv
<1>5. CASE NextBlock
  <2>1. gen + 1 <= now + InterBlockMs
    BY <1>1, <1>2, <1>5, Options DEF NextBlock, IdsFrom, Paced
  <2>2. IdsFrom(s)' BY <1>1, <1>2, <1>5, <2>1, Options DEF NextBlock, IdsFrom
  <2>3. GenNamesOneBlock' BY <1>5 DEF NextBlock, IdInv, GenNamesOneBlock
  <2> QED BY <2>2, <2>3 DEF IdInv
<1>6. CASE Finish \/ SendError \/ Kill
  <2>1. /\ UNCHANGED <<net, run, now>> /\ spc' \notin {"assemble", "send"}
    BY <1>6 DEF Finish, SendError, Kill
  <2>2. IdsFrom(s)' BY <1>1, <2>1 DEF IdsFrom
  <2>3. GenNamesOneBlock' BY <2>1 DEF IdInv, GenNamesOneBlock
  <2> QED BY <2>2, <2>3 DEF IdInv
<1>7. ASSUME NEW d \in Ticks, Restart(d) PROVE IdInv'
  <2>1. /\ d \in Nat /\ d > 0 /\ now' = now + d /\ now' \in Nat /\ now' <= MaxTime
        /\ net' = net /\ run' = run + 1 /\ b' = 0 /\ i' = 0 /\ spc' = "assemble"
        /\ next_gen_id' = u32(now') /\ wake' = now'
    BY <1>2, <1>7, Options DEF Restart, Start
  <2> PICK t \in Nat : t = now' BY <2>1
  <2>2. next_gen_id' = t BY <2>1, Options, Wrapped DEF NoWrap
  <2>3. ASSUME NEW x \in net
        PROVE  LET o == x.frame.pay.origin
               IN /\ o \in Nat \X Nat /\ x.frame.gen \in Nat /\ x.frame.gen < t
                  /\ o[1] < run'
    BY <1>1, <1>2, <2>1 DEF IdsFrom
  <2>4. \A x \in net : x.frame.pay.origin[1] # run'
    <3> SUFFICES ASSUME NEW x \in net PROVE x.frame.pay.origin[1] # run' OBVIOUS
    <3>1. x.frame.pay.origin[1] \in Nat /\ x.frame.pay.origin[1] < run' BY <2>3
    <3> QED BY <1>2, <2>1, <3>1
  <2>5. IdsFrom(t)'
    BY <2>1, <2>2, <2>3, <2>4 DEF IdsFrom
  <2>6. GenNamesOneBlock' BY <2>1 DEF IdInv, GenNamesOneBlock
  <2> QED BY <2>1, <2>5, <2>6 DEF IdInv
<1>8. ASSUME NEW d \in Ticks, Sleep(d) PROVE IdInv'
  <2>1. d \in Nat /\ now' = now + d /\ UNCHANGED <<net, spc, run, b, i, gen, next_gen_id, wake>>
    BY <1>8, Options DEF Sleep, process
  <2>2. IdsFrom(s)' BY <1>1, <1>2, <2>1 DEF IdsFrom
  <2>3. GenNamesOneBlock' BY <2>1 DEF IdInv, GenNamesOneBlock
  <2> QED BY <2>2, <2>3 DEF IdInv
<1>9. CASE UNCHANGED svars
  BY <1>9 DEF svars, process, IdInv, IdsFrom, GenNamesOneBlock
<1> QED BY <1>3, <1>4, <1>5, <1>6, <1>7, <1>8, <1>9 DEF SNext, Send

(* A generation id names one block for good, over restarts too, as long as *)
(* ids fit 32 bits and blocks take at least a millisecond each.            *)
THEOREM IdsAreUnique ==
  ASSUME NoWrap, Paced
  PROVE  SSpec => []GenNamesOneBlock
<1>1. TInv /\ IdInv /\ [SNext]_svars => IdInv' BY NextIdInv
<1>2. IdInv => GenNamesOneBlock BY DEF IdInv
<1> QED BY <1>1, <1>2, InitIdInv, SenderInvariance, PTL DEF SSpec

-----------------------------------------------------------------------------
(* Pacing.  At(t) left at the reading t.                                   *)
At(t) == {y \in net : y.at = t}

(* How many frames have left at the present reading, by where the loop is. *)
PacedNow(c) ==
  /\ spc = "assemble" => c <= TxK + 1 /\ (TxN = 1 /\ now >= wake => c = 0)
  /\ spc = "send" /\ i = 0 => c <= TxK + 1 /\ (TxN = 1 => c = 0)
  /\ spc = "send" /\ i >= 1 /\ i < TxN /\ now >= wake => c = 0
  /\ spc = "send" /\ i >= TxN => c <= 1 + (i - TxN)

PaceInv ==
  /\ IsFiniteSet(net)
  /\ \A t \in Nat : Cardinality(At(t)) <= TxK + 2
  /\ PacedNow(Cardinality(At(now)))

LEMMA Countable ==
  ASSUME IsFiniteSet(net), NEW t
  PROVE  IsFiniteSet(At(t)) /\ Cardinality(At(t)) \in Nat
<1>1. At(t) \in SUBSET net BY DEF At
<1> QED BY <1>1, FS_Subset, FS_CardinalityType

LEMMA InitPaceInv == SInit => PaceInv
<1> SUFFICES ASSUME SInit PROVE PaceInv OBVIOUS
<1>1. net = {} /\ spc = "assemble" /\ now = 0 BY DEF SInit
<1>2. \A t : At(t) = {} BY <1>1 DEF At
<1> QED BY <1>1, <1>2, FS_EmptySet, Options DEF PaceInv, PacedNow

LEMMA NextPaceInv ==
  ASSUME Paced
  PROVE  TInv /\ PaceInv /\ [SNext]_svars => PaceInv'
<1> SUFFICES ASSUME TInv, PaceInv, [SNext]_svars PROVE PaceInv' OBVIOUS
<1> DEFINE c == Cardinality(At(now))
<1>1. /\ now \in Nat /\ wake \in Nat /\ i \in Nat /\ i <= TxN + TxK /\ c \in Nat
  BY Options, Countable DEF TInv, STypeOK, PaceInv
<1>2. ASSUME net' = net, now' = now, PacedNow(c)' PROVE PaceInv'
  <2>1. \A t : At(t)' = At(t) BY <1>2 DEF At
  <2>2. At(now)' = At(now) BY <1>2 DEF At
  <2> QED BY <1>2, <2>1, <2>2 DEF PaceInv
<1>3. ASSUME net' = net, now' = now PROVE c' = c
  <2>1. At(now)' = At(now) BY <1>3 DEF At
  <2> QED BY <2>1
<1>4. ASSUME NEW d \in Nat \ {0}, net' = net, now' = now + d
      PROVE  PaceInv'
  <2>1. At(now)' = {} BY <1>1, <1>4 DEF At, TInv
  <2>2. \A t \in Nat : At(t)' = At(t) BY <1>4 DEF At
  <2>3. Cardinality(At(now)') = 0 BY <2>1, FS_EmptySet
  <2>4. PacedNow(c)'
    <3>1. c' = 0 BY <2>3
    <3>2. spc' = "send" /\ i' >= TxN => 0 <= 1 + (i' - TxN)
      BY Options, NextTInv DEF TInv, STypeOK
    <3> HIDE DEF c
    <3> QED BY <3>1, <3>2, Options DEF PacedNow
  <2> QED BY <1>4, <2>2, <2>4 DEF PaceInv
<1>5. CASE Assemble
  <2>1. c' = c BY <1>3, <1>5 DEF Assemble
  <2> HIDE DEF c
  <2>2. PacedNow(c)'
    BY <1>1, <1>5, <2>1, Options DEF Assemble, PaceInv, PacedNow, c
  <2> QED BY <1>2, <1>5, <2>2 DEF Assemble
<1>6. CASE SendFrame
  <2> DEFINE x == [frame |-> block_frames[i], at |-> now]
  <2>1. net' = net \cup {x} /\ now' = now /\ x.at = now BY <1>6 DEF SendFrame
  <2> HIDE DEF x
  <2>2. At(now)' = At(now) \cup {x} BY <2>1 DEF At
  <2>3. \A t \in Nat : t # now => At(t)' = At(t) BY <2>1 DEF At
  <2>4. c' <= c + 1 /\ c' \in Nat
    <3>1. IsFiniteSet(At(now)) BY Countable DEF PaceInv
    <3>2. Cardinality(At(now) \cup {x}) \in {c, c + 1} BY <3>1, FS_AddElement
    <3> QED BY <1>1, <2>2, <3>2
  <2>5. IsFiniteSet(net') BY <2>1, FS_AddElement DEF PaceInv
  <2>6. PacedNow(c) BY DEF PaceInv
  <2> HIDE DEF c
  <2>7. PacedNow(c)' /\ c' <= TxK + 2
    BY <1>1, <1>6, <2>4, <2>6, Pause, Options DEF SendFrame, PacedNow
  <2>8. \A t \in Nat : Cardinality(At(t)') <= TxK + 2
    BY <2>1, <2>2, <2>3, <2>7 DEF PaceInv, c
  <2> QED BY <2>5, <2>7, <2>8 DEF PaceInv, c
<1>7. CASE NextBlock
  <2>1. c' = c BY <1>3, <1>7 DEF NextBlock
  <2>2. PacedNow(c) BY DEF PaceInv
  <2> HIDE DEF c
  <2>3. PacedNow(c)'
    BY <1>1, <1>7, <2>1, <2>2, Options DEF NextBlock, PacedNow, Paced
  <2> QED BY <1>2, <1>7, <2>3 DEF NextBlock, c
<1>8. CASE Finish \/ SendError \/ Kill
  <2>1. net' = net /\ now' = now /\ spc' \notin {"assemble", "send"}
    BY <1>8 DEF Finish, SendError, Kill
  <2> QED BY <1>2, <2>1 DEF PacedNow
<1>9. ASSUME NEW d \in Ticks, Restart(d) PROVE PaceInv'
  BY <1>1, <1>4, <1>9, Options DEF Restart
<1>10. ASSUME NEW d \in Ticks, Sleep(d) PROVE PaceInv'
  <2>1. d \in Nat /\ net' = net /\ now' = now + d /\ UNCHANGED <<spc, i, wake>>
    BY <1>10, Options DEF Sleep, process
  <2>2. CASE d # 0 BY <1>4, <2>1, <2>2
  <2>3. CASE d = 0
    <3>1. now' = now BY <1>1, <2>1, <2>3
    <3>2. c' = c BY <1>3, <2>1, <3>1
    <3>3. PacedNow(c) BY DEF PaceInv
    <3> HIDE DEF c
    <3>4. PacedNow(c)' BY <2>1, <3>1, <3>2, <3>3 DEF PacedNow
    <3> QED BY <1>2, <2>1, <3>1, <3>4 DEF c
  <2> QED BY <2>2, <2>3
<1>11. CASE UNCHANGED svars
  <2>1. UNCHANGED <<net, now, spc, i, wake>> BY <1>11 DEF svars, process
  <2>2. c' = c BY <1>3, <2>1
  <2>3. PacedNow(c) BY DEF PaceInv
  <2> HIDE DEF c
  <2>4. PacedNow(c)' BY <2>1, <2>2, <2>3 DEF PacedNow
  <2> QED BY <1>2, <2>1, <2>4 DEF c
<1> QED BY <1>5, <1>6, <1>7, <1>8, <1>9, <1>10, <1>11 DEF SNext, Send

(* No more than the last data frame, the parity frames and the first frame *)
(* of the next block ever leave at one instant.                            *)
THEOREM BurstsAreSmall ==
  ASSUME Paced
  PROVE  SSpec => []BurstBound
<1>1. TInv /\ PaceInv /\ [SNext]_svars => PaceInv' BY NextPaceInv
<1>2. TInv /\ PaceInv => BurstBound
  BY DEF TInv, PaceInv, BurstBound, At
<1> QED BY <1>1, <1>2, InitPaceInv, SenderInvariance, PTL DEF SSpec

-----------------------------------------------------------------------------
(* What has left, by block: sequence numbers under origin o.               *)
Seqs(o) == {x.frame.seq : x \in {y \in net : y.frame.pay.origin = o}}

Accepted == assembles(TxN, TxK, payload_len, MaxPayloadLen)
AllSeqs == 0 .. TxN + TxK - 1

SentInv ==
  /\ \A x \in net :
       LET o == x.frame.pay.origin
       IN /\ o \in Nat \X Nat /\ o[1] <= run
          /\ o[1] = run => o[2] <= b /\ (spc = "assemble" => o[2] < b)
  /\ spc \in {"assemble", "send"} =>
       footers = <<>> /\ \A k \in 0 .. b - 1 : Seqs(<<run, k>>) = AllSeqs
  /\ spc = "send" => Seqs(<<run, b>>) = 0 .. i - 1
  /\ spc = "finish" => footers = <<"error">> \/ (footers = <<>> /\ ~Accepted)
  /\ spc = "done" /\ footers = <<"ok">> /\ Accepted =>
       \A k \in 0 .. Blocks - 1 : Seqs(<<run, k>>) = AllSeqs
  /\ spc = "killed" => footers # <<"ok">>

LEMMA FooterWords ==
  /\ <<>> # <<"ok">> /\ <<"error">> # <<"ok">>
  /\ Append(<<>>, "error") = <<"error">>
  /\ Append(<<"error">>, "ok") # <<"ok">>
<1>1. Len(Append(<<"error">>, "ok")) = 2 /\ Len(<<"ok">>) = 1 /\ Len(<<>>) = 0 OBVIOUS
<1>2. <<"error">>[1] = "error" /\ <<"ok">>[1] = "ok" OBVIOUS
<1> QED BY <1>1, <1>2

LEMMA InitSentInv == SInit => SentInv
<1> SUFFICES ASSUME SInit PROVE SentInv OBVIOUS
<1>1. 0 .. 0 - 1 = {} OBVIOUS
<1> QED BY <1>1 DEF SInit, SentInv

LEMMA NextSentInv == TInv /\ SentInv /\ [SNext]_svars => SentInv'
<1> SUFFICES ASSUME TInv, SentInv, [SNext]_svars PROVE SentInv' OBVIOUS
<1>1. /\ run \in Nat /\ b \in Nat /\ i \in Nat /\ i <= TxN + TxK
  BY Options DEF TInv, STypeOK
<1>2. ASSUME net' = net PROVE \A o : Seqs(o)' = Seqs(o) BY <1>2 DEF Seqs
<1>3. CASE Assemble
  <2>1. UNCHANGED <<net, run, b, footers, payload_len>> /\ spc = "assemble"
        /\ spc' \in {"send", "finish"}
        /\ (spc' = "send" => i' = 0) /\ (spc' = "finish" => ~Accepted)
    BY <1>3 DEF Assemble, Accepted
  <2>2. Seqs(<<run, b>>) = {}
    <3>1. \A x \in net : x.frame.pay.origin # <<run, b>>
      <4> SUFFICES ASSUME NEW x \in net, x.frame.pay.origin = <<run, b>> PROVE FALSE OBVIOUS
      <4>1. <<run, b>>[1] = run /\ <<run, b>>[2] = b OBVIOUS
      <4> QED BY <1>1, <2>1, <4>1 DEF SentInv
    <3> QED BY <3>1 DEF Seqs
  <2>3. \A o : Seqs(o)' = Seqs(o) BY <1>2, <2>1
  <2>4. Accepted' = Accepted BY <2>1 DEF Accepted
  <2>5. 0 .. 0 - 1 = {} OBVIOUS
  <2> QED BY <2>1, <2>2, <2>3, <2>4, <2>5 DEF SentInv
<1>4. CASE SendFrame
  <2> DEFINE x == [frame |-> block_frames[i], at |-> now]
             o0 == <<run, b>>
  <2>1. /\ net' = net \cup {x} /\ x.frame.seq = i /\ x.frame.pay.origin = o0
        /\ UNCHANGED <<run, b, footers, spc>> /\ spc = "send" /\ i' = i + 1
    BY <1>4, NextFrame DEF SendFrame
  <2>2. o0 \in Nat \X Nat /\ o0[1] = run /\ o0[2] = b BY <1>1
  <2> HIDE DEF x
  <2>3. Seqs(o0)' = Seqs(o0) \cup {i}
    <3> HIDE DEF o0
    <3>1. {y \in net' : y.frame.pay.origin = o0} = {y \in net : y.frame.pay.origin = o0} \cup {x}
      BY <2>1
    <3> QED BY <2>1, <3>1 DEF Seqs, o0
  <2>4. Seqs(<<run, b>>)' = 0 .. i' - 1
    <3>1. Seqs(<<run, b>>) = 0 .. i - 1 BY <2>1 DEF SentInv
    <3>2. (0 .. i - 1) \cup {i} = 0 .. (i + 1) - 1 BY <1>1
    <3> QED BY <2>1, <2>3, <3>1, <3>2
  <2>5. ASSUME NEW k \in 0 .. b - 1 PROVE Seqs(<<run, k>>)' = AllSeqs
    <3>1. <<run, k>> # o0 BY <1>1, <2>2
    <3> HIDE DEF o0
    <3>2. {y \in net' : y.frame.pay.origin = <<run, k>>}
            = {y \in net : y.frame.pay.origin = <<run, k>>}
      BY <2>1, <3>1
    <3>3. Seqs(<<run, k>>)' = Seqs(<<run, k>>) BY <2>1, <3>2 DEF Seqs
    <3> QED BY <2>1, <3>3 DEF SentInv
  <2>6. ASSUME NEW y \in net'
        PROVE  LET o == y.frame.pay.origin
               IN o \in Nat \X Nat /\ o[1] <= run /\ (o[1] = run => o[2] <= b)
    <3>1. CASE y \in net BY <3>1 DEF SentInv
    <3>2. CASE y = x BY <1>1, <2>1, <2>2, <3>2
    <3> QED BY <2>1, <3>1, <3>2
  <2> HIDE DEF o0
  <2> QED BY <2>1, <2>4, <2>5, <2>6 DEF SentInv
<1>5. CASE NextBlock
  <2>1. UNCHANGED <<net, run, footers>> /\ spc = "send" /\ spc' = "assemble" /\ b' = b + 1
        /\ i = TxN + TxK
    BY <1>5 DEF NextBlock
  <2>2. \A o : Seqs(o)' = Seqs(o) BY <1>2, <2>1
  <2>3. ASSUME NEW k \in 0 .. b' - 1 PROVE Seqs(<<run, k>>) = AllSeqs
    <3>1. k \in 0 .. b - 1 => Seqs(<<run, k>>) = AllSeqs BY <2>1 DEF SentInv
    <3>2. Seqs(<<run, b>>) = 0 .. i - 1 BY <2>1 DEF SentInv
    <3>3. Seqs(<<run, b>>) = AllSeqs BY <1>1, <2>1, <3>2, Options DEF AllSeqs
    <3>4. k \in 0 .. b - 1 \/ k = b BY <1>1, <2>1
    <3> QED BY <3>1, <3>3, <3>4
  <2>4. ASSUME NEW x \in net
        PROVE  LET o == x.frame.pay.origin
               IN o \in Nat \X Nat /\ o[1] <= run /\ (o[1] = run => o[2] < b')
    BY <1>1, <2>1 DEF SentInv
  <2>6. \A x \in net : x.frame.pay.origin[1] = run => x.frame.pay.origin[2] <= b'
    <3> SUFFICES ASSUME NEW x \in net, x.frame.pay.origin[1] = run
                 PROVE  x.frame.pay.origin[2] <= b'
      OBVIOUS
    <3>1. x.frame.pay.origin[2] \in Nat /\ x.frame.pay.origin[2] < b' BY <2>4
    <3> QED BY <1>1, <2>1, <3>1
  <2> QED BY <2>1, <2>2, <2>3, <2>4, <2>6 DEF SentInv
<1>6. CASE Finish
  <2>1. UNCHANGED <<net, run, b, payload_len>> /\ spc' = "done" /\ footers' = Append(footers, "ok")
        /\ (spc = "finish" \/ (spc = "assemble" /\ b = Blocks))
    BY <1>6 DEF Finish
  <2>2. \A o : Seqs(o)' = Seqs(o) BY <1>2, <2>1
  <2>3. Accepted' = Accepted BY <2>1 DEF Accepted
  <2>4. footers' = <<"ok">> /\ Accepted => \A k \in 0 .. Blocks - 1 : Seqs(<<run, k>>) = AllSeqs
    BY <2>1, FooterWords DEF SentInv
  <2> QED BY <2>1, <2>2, <2>3, <2>4 DEF SentInv
<1>7. CASE SendError
  <2>1. UNCHANGED <<net, run, b>> /\ spc' = "finish" /\ spc = "send"
        /\ footers' = Append(footers, "error")
    BY <1>7 DEF SendError
  <2>2. footers' = <<"error">> BY <2>1, FooterWords DEF SentInv
  <2> QED BY <2>1, <2>2 DEF SentInv
<1>8. CASE Kill
  <2>1. UNCHANGED <<net, run, b, footers>> /\ spc' = "killed"
        /\ spc \notin {"done", "killed"}
    BY <1>8 DEF Kill
  <2>2. footers # <<"ok">> BY <2>1, FooterWords DEF SentInv, TInv, STypeOK
  <2> QED BY <2>1, <2>2 DEF SentInv
<1>9. ASSUME NEW d \in Ticks, Restart(d) PROVE SentInv'
  <2>1. net' = net /\ run' = run + 1 /\ b' = 0 /\ spc' = "assemble" /\ footers' = <<>>
    BY <1>9 DEF Restart, Start
  <2>2. ASSUME NEW x \in net
        PROVE  LET o == x.frame.pay.origin
               IN o \in Nat \X Nat /\ o[1] <= run' /\ o[1] # run'
    <3>1. /\ x.frame.pay.origin \in Nat \X Nat /\ x.frame.pay.origin[1] <= run
          /\ x.frame.pay.origin[1] \in Nat
      BY DEF SentInv
    <3> QED BY <1>1, <2>1, <3>1
  <2>3. 0 .. 0 - 1 = {} OBVIOUS
  <2> QED BY <2>1, <2>2, <2>3 DEF SentInv
<1>10. CASE UNCHANGED <<process, payload_len, net>>
  <2>1. \A o : Seqs(o)' = Seqs(o) BY <1>2, <1>10
  <2>2. UNCHANGED <<spc, run, b, i, footers, net, payload_len>> BY <1>10 DEF process
  <2>3. Accepted' = Accepted BY <2>2 DEF Accepted
  <2> QED BY <2>1, <2>2, <2>3 DEF SentInv
<1> QED
  BY <1>3, <1>4, <1>5, <1>6, <1>7, <1>8, <1>9, <1>10 DEF SNext, Send, Sleep, svars

LEMMA AllSeqsCount == Cardinality(AllSeqs) = TxN + TxK
<1>1. 0 \in Int /\ TxN + TxK - 1 \in Int /\ ~(0 > TxN + TxK - 1)
  BY Options
<1> QED BY <1>1, FS_Interval, Options DEF AllSeqs

(* A metrics file with the one footer ok belongs to a run that sent every  *)
(* frame of every block.                                                   *)
THEOREM OkIsTrue == SSpec => []OkMeansAllSent
<1>1. TInv /\ SentInv => OkMeansAllSent
  <2> SUFFICES ASSUME TInv, SentInv, footers = <<"ok">>, Accepted, NEW k \in 0 .. Blocks - 1
               PROVE  Cardinality(Seqs(<<run, k>>)) = TxN + TxK
    BY DEF OkMeansAllSent, Seqs, Accepted
  <2>1. spc = "done" BY FooterWords DEF TInv, STypeOK, SentInv
  <2> QED BY <2>1, AllSeqsCount DEF SentInv
<1> QED BY <1>1, InitSentInv, NextSentInv, SenderInvariance, PTL DEF SSpec
=============================================================================
