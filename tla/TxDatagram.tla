----------------------------- MODULE TxDatagram -----------------------------
(***************************************************************************)
(* The bytes of the frames that TxBlock describes: the headers that        *)
(* assemble_block fills in, and the payloads of fec_sender.                *)
(***************************************************************************)
EXTENDS FrameCodec, TxBlock

CONSTANT Msg   \* the characters of --msg

ASSUME MsgAssumption == Msg \in Seq(0 .. 255) /\ Msg # <<>>

(* The payload of a position, salted with the block and the position.      *)
make_payload(len, block, idx) ==
  [i \in 1 .. len |-> xor(bits(Msg[1 + ((i - 1) % Len(Msg))]),
                          bits((block * 31 + idx * 17 + i - 1) % 256))]

(* k - 1 in eight bits: 255 for k = 0.                                     *)
flags2_pack_parity_count_minus_one(k) == bits((k + 255) % 256)

scheme_id(k) == CASE k = 2 -> 10 [] k = 3 -> 11 [] k = 4 -> 12 [] OTHER -> 1

header(f) ==
  [version |-> {0}, flags1 |-> {}, flags2 |-> flags2_pack_parity_count_minus_one(f.k),
   fec_gen_id |-> bits(f.gen), seq_in_block |-> bits(f.seq),
   data_count |-> bits(f.n), parity_count |-> bits(f.k), payload_len |-> bits(f.pay.len)]

subheader(f) == [fec_scheme_id |-> bits(scheme_id(f.k)), fec_parity_index |-> bits(f.pidx)]

(* Parity bytes are somebody else's business (ErasureCode): any will do.   *)
payload_of(f) == make_payload(f.pay.len, 0, f.pay.pos)

datagram(f) ==
  IF is_parity_frame(f) THEN encode_parity_frame(header(f), subheader(f), payload_of(f))
                        ELSE encode_data_frame(header(f), payload_of(f))

(* What is in it, as decode_frame shows it: no subheader reads as zeros.   *)
contents(f) ==
  [header |-> header(f), par |-> is_parity_frame(f),
   sub |-> IF is_parity_frame(f) THEN subheader(f) ELSE NoSub,
   payload |-> payload_of(f), crc |-> crc32c(payload_of(f))]

(* What the receiver makes of a datagram whose payload is known as pay.    *)
received(in, pay) ==
  LET d == decode_frame(in)
  IN [gen |-> number(d.header.fec_gen_id), seq |-> number(d.header.seq_in_block),
      n |-> number(d.header.data_count), k |-> number(d.header.parity_count),
      pidx |-> number(d.sub.fec_parity_index), pay |-> pay]
=============================================================================
