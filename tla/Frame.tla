------------------------------- MODULE Frame -------------------------------
(***************************************************************************)
(* A frame as decode_frame hands it to its caller: the header fields the   *)
(* receiver reads, the parity index of the subheader, and the payload.     *)
(*                                                                         *)
(* A payload is a token.  It says which block a sender assembled it for,   *)
(* the position it was given there (0..N-1 for the data payloads, N+j for  *)
(* parity row j) and its length.  Two payloads are equal iff their tokens  *)
(* are, and the linear equation a parity row stands for is known from its  *)
(* token.  The CRC is checked before a frame gets this far.                *)
(***************************************************************************)
EXTENDS Naturals

CONSTANTS Gens,     \* generation ids (fec_gen_id)
          Origins   \* the senders' assembled blocks; one per sender and gen

Payload == [origin: Origins, pos: Nat, len: Nat]

(* n, k: data_count and parity_count; pidx: fec_parity_index, read only    *)
(* from a frame that carries a parity subheader.                           *)
BaseFrame == [gen: Gens, seq: Nat, n: Nat, k: Nat, pidx: Nat, pay: Payload]

(* A frame carries a parity subheader iff its sequence number lies beyond  *)
(* the data frames its own header announces.                               *)
is_parity_frame(f) == f.seq >= f.n
=============================================================================
