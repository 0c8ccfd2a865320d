----------------------------- MODULE FrameCodec -----------------------------
(***************************************************************************)
(* The bytes of a frame: header, subheader of parity frames, payload and a *)
(* checksum of the payload alone.  Header fields are words; a datagram is  *)
(* a sequence of bytes, counted from 1.                                    *)
(***************************************************************************)
EXTENDS Crc32c

Header == [version: Byte, flags1: Byte, flags2: Word16, fec_gen_id: Word32,
           seq_in_block: Word16, data_count: Word16, parity_count: Word16, payload_len: Word16]
ParitySubheader == [fec_scheme_id: Byte, fec_parity_index: Byte]

kBase == 16
kParitySub == 2
kCrcTrailer == 4

encoded_size(len, par) == kBase + (IF par THEN kParitySub ELSE 0) + len + kCrcTrailer

carries_parity(h) == number(h.seq_in_block) >= number(h.data_count)

write_base_header(h) ==
  <<h.version, h.flags1, byte_of(h.flags2, 0), byte_of(h.flags2, 1),
    byte_of(h.fec_gen_id, 0), byte_of(h.fec_gen_id, 1),
    byte_of(h.fec_gen_id, 2), byte_of(h.fec_gen_id, 3),
    byte_of(h.seq_in_block, 0), byte_of(h.seq_in_block, 1),
    byte_of(h.data_count, 0), byte_of(h.data_count, 1),
    byte_of(h.parity_count, 0), byte_of(h.parity_count, 1),
    byte_of(h.payload_len, 0), byte_of(h.payload_len, 1)>>

(* Bug: data_count and parity_count are read the wrong way round.          *)
read_base_header_swapped(in) ==
  [version |-> in[1], flags1 |-> in[2], flags2 |-> read_u16_le(in, 3),
   fec_gen_id |-> read_u32_le(in, 5), seq_in_block |-> read_u16_le(in, 9),
   data_count |-> read_u16_le(in, 13), parity_count |-> read_u16_le(in, 11),
   payload_len |-> read_u16_le(in, 15)]

read_base_header(in) ==
  [version |-> in[1], flags1 |-> in[2], flags2 |-> read_u16_le(in, 3),
   fec_gen_id |-> read_u32_le(in, 5), seq_in_block |-> read_u16_le(in, 9),
   data_count |-> read_u16_le(in, 11), parity_count |-> read_u16_le(in, 13),
   payload_len |-> read_u16_le(in, 15)]

write_u32_le(x) == <<byte_of(x, 0), byte_of(x, 1), byte_of(x, 2), byte_of(x, 3)>>

(* What the two encoders refuse; room is the size of the caller's buffer.  *)
encodes(room, h, par, payload) ==
  /\ carries_parity(h) = par
  /\ Len(payload) = number(h.payload_len)
  /\ room >= encoded_size(Len(payload), par)

encode_data_frame(h, payload) ==
  write_base_header(h) \o payload \o write_u32_le(crc32c(payload))

encode_parity_frame(h, sub, payload) ==
  write_base_header(h) \o <<sub.fec_scheme_id, sub.fec_parity_index>>
    \o payload \o write_u32_le(crc32c(payload))

NoSub == [fec_scheme_id |-> {}, fec_parity_index |-> {}]

(* Sizes are the only thing checked: not the version, and more bytes than  *)
(* the header asks for are ignored.                                        *)
decodes(in) ==
  /\ Len(in) >= kBase + kCrcTrailer
  /\ LET h == read_base_header(in)
     IN Len(in) >= encoded_size(number(h.payload_len), carries_parity(h))

decode_frame(in) ==
  LET h == read_base_header(in)
      par == carries_parity(h)
      off == IF par THEN kBase + kParitySub ELSE kBase
      len == number(h.payload_len)
  IN [header |-> h, par |-> par,
      sub |-> IF par THEN [fec_scheme_id |-> in[kBase + 1], fec_parity_index |-> in[kBase + 2]]
                     ELSE NoSub,
      payload |-> SubSeq(in, off + 1, off + len),
      crc |-> read_u32_le(in, off + len + 1)]

(* Bug: the checksum is not compared.                                      *)
accepts_any_crc(in) == decodes(in)

(* What the receiver hands to its table: the checksum fits the payload.    *)
accepts_datagram(in) ==
  decodes(in) /\ crc32c(decode_frame(in).payload) = decode_frame(in).crc
=============================================================================
