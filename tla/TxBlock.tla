------------------------------- MODULE TxBlock -------------------------------
(***************************************************************************)
(* What TxBlockAssembler::assemble_block emits for one block of n payloads *)
(* of length l, all stamped with generation g: n data frames and k parity  *)
(* frames, in the order of the output vector.                              *)
(***************************************************************************)
EXTENDS Frame

data_frame(o, g, n, k, l, i) ==
  [gen |-> g, seq |-> i, n |-> n, k |-> k, pidx |-> 0,
   pay |-> [origin |-> o, pos |-> i, len |-> l]]

(* Sequence number and parity index are cut to their u16 and u8 fields.    *)
parity_frame(o, g, n, k, l, j) ==
  [gen |-> g, seq |-> (n + j) % 65536, n |-> n, k |-> k, pidx |-> j % 256,
   pay |-> [origin |-> o, pos |-> n + j, len |-> l]]

out_frame(o, g, n, k, l, p) ==
  IF p < n THEN data_frame(o, g, n, k, l, p)
           ELSE parity_frame(o, g, n, k, l, p - n)

(* The frames of one block, indexed 0..n+k-1 as out_frames is.             *)
assemble_block(o, g, n, k, l) == [p \in 0 .. n + k - 1 |-> out_frame(o, g, n, k, l, p)]

(* Validation: a payload for every data frame, none empty and none over    *)
(* max (0: no limit).  The encoders refuse a length that does not fit the  *)
(* header, and a parity sequence number that wrapped to one of a data      *)
(* frame.                                                                  *)
assembles(n, k, l, max) ==
  /\ n > 0 /\ l > 0
  /\ max = 0 \/ l <= max
  /\ l < 65536
  /\ \A j \in 0 .. k - 1 : (n + j) % 65536 >= n
=============================================================================
