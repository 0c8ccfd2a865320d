-------------------------------- MODULE Link --------------------------------
(***************************************************************************)
(* fec_sender, a UDP path and fec_receiver.  The path delays a datagram by *)
(* at most MaxDelay, loses or damages up to MaxLoss and repeats up to      *)
(* MaxCopies of them, and keeps no order.  Sleeps end up to Oversleep ms   *)
(* late.                                                                   *)
(***************************************************************************)
EXTENDS Receiver

CONSTANTS TxN, TxK, TxLens, Blocks, InterBlockMs, GenWrap, MaxRuns,   \* as in Sender
          Oversleep,                     \* how late a sleep may end
          MaxDelay, MaxLoss, MaxCopies,  \* the path
          MayFail                        \* socket calls may fail

ASSUME PathAssumption ==
  /\ MaxDelay \in Nat /\ MaxLoss \in Nat /\ MaxCopies \in Nat /\ Oversleep \in Nat
  /\ MayFail \in BOOLEAN

VARIABLES net,
          spc, run, b, i, gen, next_gen_id, wake, payload_len, footers,  \* sender
          losses, copies                                                 \* path

S == INSTANCE Sender

(* The options are those of Sender, and the frames of the receiver include *)
(* all that the sender can make: an origin is an incarnation and a block.  *)
ASSUME LinkAssumption ==
  /\ TxN \in 1 .. 255 /\ TxK \in 0 .. 4 /\ TxLens \subseteq Nat
  /\ Fps \in Nat \ {0} /\ InterBlockMs \in Nat /\ Blocks \in Nat \ {0}
  /\ GenWrap \in Nat \ {0} /\ MaxRuns \in Nat \ {0}
  /\ \A r \in 1 .. MaxRuns, k \in 0 .. Blocks - 1 :
       /\ <<r, k>> \in Origins
       /\ \A g \in 0 .. GenWrap - 1, l \in TxLens, p \in 0 .. TxN + TxK - 1 :
            S!assemble_block(<<r, k>>, g, TxN, TxK, l)[p] \in Frames

sender == <<spc, run, b, i, gen, next_gen_id, wake, payload_len, footers>>
receiver == <<blocks, out, pc, last_seen_ms, todo, closed_blocks, log, summary>>
path == <<losses, copies>>
lvars == <<now, net, sender, receiver, path>>

LInit == S!SInit /\ RInit /\ losses = 0 /\ copies = 0

SenderSends == S!Send /\ UNCHANGED <<receiver, path>>
SenderFails == MayFail /\ S!SendError /\ UNCHANGED <<receiver, path>>
SenderKilled == S!Kill /\ UNCHANGED <<receiver, path>>

Deliver(m) ==
  /\ Recv(m.frame)
  /\ net' = net \ {m}
  /\ UNCHANGED <<sender, path>>

DeliverCopy(m) ==
  /\ copies < MaxCopies
  /\ Recv(m.frame)
  /\ copies' = copies + 1
  /\ UNCHANGED <<net, sender, losses>>

(* The path damages it so that decode_frame or the CRC check fails.        *)
Damage(m) ==
  /\ losses < MaxLoss
  /\ RecvDamaged
  /\ net' = net \ {m}
  /\ losses' = losses + 1
  /\ UNCHANGED <<sender, copies>>

Lose(m) ==
  /\ losses < MaxLoss
  /\ net' = net \ {m}
  /\ losses' = losses + 1
  /\ UNCHANGED <<now, sender, receiver, copies>>

(* Nobody reads the socket any more.                                       *)
Discard(m) ==
  /\ pc = "done"
  /\ net' = net \ {m}
  /\ UNCHANGED <<now, sender, receiver, path>>

ReceiverScans == (Scan \/ Continue) /\ UNCHANGED <<net, sender, path>>
ReceiverFails == MayFail /\ RecvError /\ UNCHANGED <<net, sender, path>>

(* The receiver's turn takes no time, a datagram is not late, and a sleep  *)
(* is over Oversleep ms after its end.                                     *)
InTime(d) ==
  /\ pc \in {"recv", "done"}
  /\ \A m \in net : now + d - m.at <= MaxDelay
  /\ spc \in {"assemble", "send"} => now + d <= wake + Oversleep
  /\ spc # "finish"

Time(d) == d > 0 /\ InTime(d) /\ S!Sleep(d) /\ out' = NoBlock
           /\ UNCHANGED <<blocks, pc, last_seen_ms, todo, closed_blocks, log, summary, path>>

Restarts(d) == InTime(d) /\ S!Restart(d) /\ out' = NoBlock
           /\ UNCHANGED <<blocks, pc, last_seen_ms, todo, closed_blocks, log, summary, path>>

LNext == \/ SenderSends \/ SenderFails \/ SenderKilled
         \/ \E m \in net : Deliver(m) \/ DeliverCopy(m) \/ Damage(m) \/ Lose(m) \/ Discard(m)
         \/ ReceiverScans \/ ReceiverFails
         \/ \E d \in Ticks : Time(d) \/ Restarts(d)

LSpec == LInit /\ [][LNext]_lvars

(* The operating system runs both processes, delivers what the path did    *)
(* not lose, and the clock goes on.  Nothing makes a sender fail, a        *)
(* datagram vanish or arrive damaged, or a process start.                  *)
Fairness ==
  /\ WF_lvars(SenderSends)
  /\ WF_lvars(ReceiverScans)
  /\ WF_lvars(\E m \in net : Deliver(m))
  /\ WF_lvars(\E d \in Ticks : Time(d))

LFairSpec == LSpec /\ Fairness

-----------------------------------------------------------------------------
LTypeOK ==
  /\ RTypeOK
  /\ \A m \in net : m.frame \in Frames /\ m.at \in 0 .. now
  /\ losses \in 0 .. MaxLoss /\ copies \in 0 .. MaxCopies

(* Whatever the path does and however often the sender starts over, a      *)
(* block handed over holds payloads of ONE assembled block, at the places  *)
(* the sender gave them: nothing recovered mixes two blocks.               *)
BlockIntegrity ==
  out # NoBlock =>
    \E o \in Origins : \A k \in 0 .. out.N - 1 :
      out.data[k] \in {Missing} \cup {[origin |-> o, pos |-> k, len |-> out.len]}

first_close(k) == \A j \in 1 .. k - 1 : log[j].gen # log[k].gen

(* Unless the sender was killed, the first time a generation is closed, it *)
(* is closed whole.                                                        *)
FirstCloseWhole ==
  run = 1 /\ spc # "killed" =>
    \A k \in 1 .. Len(log) : first_close(k) => log[k].present = log[k].N

(* A receiver that reports ok has seen Expect different blocks.            *)
OkMeansDistinctBlocks ==
  summary = <<"ok">> => Cardinality({log[k].gen : k \in 1 .. Len(log)}) >= Expect

(* Every block the receiver opened it closes, unless it stops.             *)
EveryBlockCloses ==
  \A g \in Gens : g \in Open ~> (g \notin Open \/ pc = "done")

(* The receiver is done when all blocks have come through.                 *)
ReceiverFinishes == <>(summary = <<"ok">>)
=============================================================================
