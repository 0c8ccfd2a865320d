------------------------------- MODULE Sender -------------------------------
(***************************************************************************)
(* The main loop of fec_sender: Blocks blocks of TxN payloads, assembled   *)
(* and sent one frame at a time.  It pauses dt_ms after every frame but    *)
(* the last data frame, so the last data frame and all the parity frames   *)
(* of a block leave back to back, and then inter_block_ms between blocks.  *)
(*                                                                         *)
(* The first generation id is the clock at start-up.  A sender that was    *)
(* killed can be started again; run counts the incarnations.               *)
(***************************************************************************)
EXTENDS TxBlock, Integers, Sequences, FiniteSets

CONSTANTS TxN, TxK, MaxPayloadLen,        \* TxConfig
          TxLens,                         \* payload lengths a user may ask for
          Fps, InterBlockMs, Blocks,      \* --fps, --inter-block-ms, --blocks
          Ticks, MaxTime,                 \* the clock
          GenWrap,                        \* 2^32, the range of fec_gen_id
          MaxRuns                         \* bound on the incarnations

ASSUME OptionsAssumption ==
  /\ TxN \in 1 .. 255 /\ TxK \in 0 .. 4 /\ TxLens \subseteq Nat /\ MaxPayloadLen \in Nat
  /\ Fps \in Nat \ {0} /\ InterBlockMs \in Nat /\ Blocks \in Nat \ {0}
  /\ GenWrap \in Nat \ {0}
ASSUME SenderClockAssumption ==
  Ticks \subseteq Nat /\ MaxTime \in Nat /\ MaxRuns \in Nat \ {0}

VARIABLES now,      \* steady_clock, in ms
          spc,      \* "assemble", "send", "finish", "done" or "killed"
          run,      \* which incarnation this is
          b,        \* index of the block
          i,        \* index of the next frame of the block
          gen, next_gen_id,
          wake,     \* the end of the current sleep
          net,      \* datagrams handed to the network, with their time
          payload_len,  \* --payload-len, or the length of --msg
          footers   \* summary footers of the metrics file

process == <<spc, run, b, i, gen, next_gen_id, wake, footers>>
svars == <<now, process, payload_len, net>>

u32(n) == n % GenWrap

dt_ms == IF 1000 \div Fps > 1 THEN 1000 \div Fps ELSE 1

(* A payload is known by the incarnation and the block it was made for.    *)
block_frames == assemble_block(<<run, b>>, gen, TxN, TxK, payload_len)

(* Bug: ids start at 0 in every incarnation.                               *)
Start_at_zero(r) ==
  /\ spc' = "assemble" /\ run' = r /\ b' = 0 /\ i' = 0
  /\ gen' = 0 /\ next_gen_id' = 0
  /\ wake' = now' /\ footers' = <<>>

Start(r) == /\ spc' = "assemble" /\ run' = r /\ b' = 0 /\ i' = 0
            /\ gen' = u32(now') /\ next_gen_id' = u32(now')   \* the seed
            /\ wake' = now' /\ footers' = <<>>

SInit == /\ now = 0
         /\ spc = "assemble" /\ run = 1 /\ b = 0 /\ i = 0
         /\ gen = u32(now) /\ next_gen_id = u32(now)
         /\ wake = now /\ footers = <<>> /\ net = {}
         /\ payload_len \in TxLens

(* Bug: one block too many.                                                *)
Assemble_one_more ==
  /\ spc = "assemble" /\ b <= Blocks /\ now >= wake
  /\ assembles(TxN, TxK, payload_len, MaxPayloadLen)
  /\ gen' = next_gen_id /\ next_gen_id' = u32(next_gen_id + 1)
  /\ i' = 0 /\ spc' = "send"
  /\ UNCHANGED <<now, payload_len, run, b, wake, net, footers>>

Assemble ==
  /\ spc = "assemble" /\ b < Blocks /\ now >= wake
  /\ \/ /\ assembles(TxN, TxK, payload_len, MaxPayloadLen)
        /\ gen' = next_gen_id
        /\ next_gen_id' = u32(next_gen_id + 1)
        /\ i' = 0
        /\ spc' = "send"
     \/ /\ ~assembles(TxN, TxK, payload_len, MaxPayloadLen)
        /\ spc' = "finish"
        /\ UNCHANGED <<gen, next_gen_id, i>>
  /\ UNCHANGED <<now, payload_len, run, b, wake, net, footers>>

(* Bug: the frames of a block leave without a pause.                       *)
SendFrame_unpaced ==
  /\ spc = "send" /\ i < TxN + TxK
  /\ net' = net \cup {[frame |-> block_frames[i], at |-> now]}
  /\ i' = i + 1
  /\ UNCHANGED <<now, payload_len, spc, run, b, gen, next_gen_id, wake, footers>>

SendFrame ==
  /\ spc = "send" /\ i < TxN + TxK /\ now >= wake
  /\ net' = net \cup {[frame |-> block_frames[i], at |-> now]}
  /\ i' = i + 1
  /\ wake' = IF i + 1 < TxN THEN now + dt_ms ELSE now
  /\ UNCHANGED <<now, payload_len, spc, run, b, gen, next_gen_id, footers>>

(* Bug: a failed send leaves no footer of its own.                         *)
SendError_silent ==
  /\ spc = "send" /\ i < TxN + TxK /\ now >= wake
  /\ spc' = "finish"
  /\ UNCHANGED <<now, payload_len, run, b, i, gen, next_gen_id, wake, net, footers>>

(* send_to fails: an error row and a footer, then straight to finish.      *)
SendError ==
  /\ spc = "send" /\ i < TxN + TxK /\ now >= wake
  /\ footers' = Append(footers, "error")
  /\ spc' = "finish"
  /\ UNCHANGED <<now, payload_len, run, b, i, gen, next_gen_id, wake, net>>

NextBlock ==
  /\ spc = "send" /\ i = TxN + TxK
  /\ b' = b + 1
  /\ wake' = now + InterBlockMs
  /\ spc' = "assemble"
  /\ UNCHANGED <<now, payload_len, run, i, gen, next_gen_id, net, footers>>

(* The loop is over, or it was left; either way the footer says ok.        *)
Finish ==
  /\ \/ spc = "finish"
     \/ spc = "assemble" /\ b = Blocks /\ now >= wake
  /\ footers' = Append(footers, "ok")
  /\ spc' = "done"
  /\ UNCHANGED <<now, payload_len, run, b, i, gen, next_gen_id, wake, net>>

Kill ==
  /\ spc \notin {"done", "killed"} /\ run < MaxRuns
  /\ spc' = "killed"
  /\ UNCHANGED <<now, payload_len, run, b, i, gen, next_gen_id, wake, net, footers>>

(* Start-up takes the clock past the reading of the last send.             *)
Restart(d) ==
  /\ spc = "killed" /\ d > 0 /\ now + d <= MaxTime
  /\ now' = now + d
  /\ Start(run + 1)
  /\ UNCHANGED <<net, payload_len>>

Sleep(d) ==
  /\ now + d <= MaxTime
  /\ now' = now + d
  /\ UNCHANGED <<process, payload_len, net>>

Send == Assemble \/ SendFrame \/ NextBlock \/ Finish

SNext == Send \/ SendError \/ Kill \/ (\E d \in Ticks : Restart(d) \/ Sleep(d))

SSpec == SInit /\ [][SNext]_svars
-----------------------------------------------------------------------------
(* In this module nothing takes a datagram out of net: it is all that was  *)
(* ever sent.                                                              *)
STypeOK ==
  /\ now \in Nat /\ wake \in Nat
  /\ spc \in {"assemble", "send", "finish", "done", "killed"}
  /\ run \in 1 .. MaxRuns /\ b \in 0 .. Blocks /\ i \in 0 .. TxN + TxK
  /\ gen \in 0 .. GenWrap - 1 /\ next_gen_id \in 0 .. GenWrap - 1
  /\ footers \in Seq({"error", "ok"})

(* A generation id names one block for good, over restarts of the sender   *)
(* too: ids start at the clock and grow by one per block, and with two or  *)
(* more data frames the pacing lets the clock grow at least as fast.       *)
GenNamesOneBlock ==
  \A x, y \in net : x.frame.gen = y.frame.gen => x.frame.pay.origin = y.frame.pay.origin

(* Pacing keeps bursts small: at most the last data frame of a block, its  *)
(* parity frames and the first frame of the next block share an instant.   *)
BurstBound ==
  \A x \in net : Cardinality({y \in net : y.at = x.at}) <= TxK + 2

(* When the payload is one the assembler takes, a file that says ok, and   *)
(* nothing else, belongs to a run that sent every frame of every block.    *)
OkMeansAllSent ==
  footers = <<"ok">> /\ assembles(TxN, TxK, payload_len, MaxPayloadLen) =>
    \A k \in 0 .. Blocks - 1 :
      Cardinality({x.frame.seq : x \in {y \in net : y.frame.pay.origin = <<run, k>>}}) = TxN + TxK

(* The metrics file ends in one summary footer.                            *)
OneFooter == Len(footers) <= 1
=============================================================================
