----------------------------- MODULE RxDelivery -----------------------------
(***************************************************************************)
(* The table fed by honest generations, every frame of which is one that   *)
(* assemble_block built with the configuration of that generation's        *)
(* sender, beside generations that are not: two senders share their id and *)
(* contradict each other.  The network may lose, repeat and reorder frames *)
(* at will; it invents none (the CRC check drops what it damages).         *)
(***************************************************************************)
EXTENDS RxBlockTable, TxBlock

CONSTANTS Honest,           \* generation ids that only one sender uses
          TxN, TxK, TxLen,  \* for each: TxConfig, the length of its payloads,
          OriginOf          \* and the assembled block that carries the id

(* The ranges fec_sender admits for --N and --K and the assembler for the  *)
(* payload length.                                                         *)
ASSUME SenderAssumption ==
  /\ Honest \subseteq Gens
  /\ TxN \in [Honest -> 1 .. 255] /\ TxK \in [Honest -> 0 .. 4] /\ TxLen \in [Honest -> Nat]
  /\ \A g \in Honest : assembles(TxN[g], TxK[g], TxLen[g], MaxPayloadLen)
  /\ OriginOf \in [Honest -> Origins]

Position(g) == 0 .. TxN[g] + TxK[g] - 1

frame(g, p) == assemble_block(OriginOf[g], g, TxN[g], TxK[g], TxLen[g])[p]

ASSUME TrafficAssumption ==
  {f \in Frames : f.gen \in Honest} = UNION {{frame(g, p) : p \in Position(g)} : g \in Honest}

payload(g, p) == frame(g, p).pay

-----------------------------------------------------------------------------
(* No byte that the sender did not put at that position of that block is   *)
(* ever handed over, in a slot that arrived or in one that was recovered;  *)
(* whatever goes on under other generation ids.                            *)
Integrity ==
  out # NoBlock /\ out.gen \in Honest =>
    \A i \in 0 .. out.N - 1 : out.data[i] \in {Missing, payload(out.gen, i)}

(* The positions of the frames an open block holds.                        *)
positions(b) == b.stData \cup {b.N + j : j \in b.stParity}

(* The earliest of the deadlines.                                          *)
earliest(D) == CHOOSE d \in D : \A e \in D : d <= e

Delivery == INSTANCE BlockDelivery WITH
  Gens <- Honest,
  N <- TxN, K <- TxK,
  Sent <- [g \in Honest |-> [i \in 0 .. TxN[g] - 1 |-> payload(g, i)]],
  Deadline <- [g \in Honest |-> earliest({ReorderMs, 60, 2 * block_span_ms(TxN[g])})],
  None <- NoBlock,
  got <- [g \in Honest |-> IF g \in Open THEN positions(blocks[g]) ELSE {}],
  born <- [g \in Honest |-> IF g \in Open THEN blocks[g].start ELSE 0],
  delivered <- IF out = NoBlock THEN NoBlock
               ELSE IF out.gen \notin Honest THEN NoBlock
               ELSE [gen |-> out.gen, data |-> out.data, rec |-> out.rec]

(* The table keeps the promise of BlockDelivery to every honest generation *)
(* of a shape whose systems solve_gf256 solves: any N of the N + K frames  *)
(* of a block restore it, the deadline runs from the block's first frame,  *)
(* and the payloads handed over are the ones that were sent.  With K = 4   *)
(* and N > 21, shapes fec_sender admits, the code does not keep it.        *)
DeliverySpec == Delivery!Spec
=============================================================================
