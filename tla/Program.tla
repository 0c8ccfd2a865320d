------------------------------ MODULE Program ------------------------------
(***************************************************************************)
(* fec_sender and fec_receiver around their loops: the command line, the   *)
(* socket, the metrics file and its rows, the exit code, and the bytes     *)
(* that arrive.  The loops themselves are Sender and Receiver; here a step *)
(* of a loop is the row it writes.                                         *)
(*                                                                         *)
(* A scenario is a command line and what happens around the program:       *)
(*   app, ask, text     the program, what it is asked for ("run", "help",  *)
(*                      "version", "malformed"), --dest or --listen        *)
(*                      (<<>>: missing)                                    *)
(*   mif, ttl, loopback --mcast-if, --mcast-ttl, --mcast-loopback          *)
(*   N, K, fps, count   --N, --K, --fps, --blocks or --expect-blocks       *)
(*   reorder, gap       --reorder-ms, --inter-block-ms                     *)
(*   seed               what uuid_v4 makes of clock and stack address      *)
(*   fails              calls on the socket that the system refuses        *)
(*   air                datagrams that may arrive: [frame, change]         *)
(***************************************************************************)
EXTENDS Udp, CsvWriter, TxDatagram, Rng

CONSTANTS Scenarios, MaxRows,   \* a bound on the rows of a file
          BufferSize,           \* the receiver's buffer for a datagram (4096)
          None

(* A frame as fec_sender sends it: its numbers fit the header's fields (32 *)
(* bits are 31 here, see Words), and only parity frames have an index.     *)
sendable(f) ==
  /\ f \in BaseFrame
  /\ f.gen \in Nat /\ f.gen - power[30] < power[30]
  /\ f.seq < power[16] /\ f.n < power[16] /\ f.k < power[16] /\ f.pay.len < power[16]
  /\ f.pidx < power[8] /\ (~is_parity_frame(f) => f.pidx = 0)

(* What may happen to a datagram under way, and datagrams of zeros that no *)
(* sender sent.                                                            *)
possible(d) ==
  \/ d.change.how = "zeros" /\ d.change.at \in Nat
  \/ /\ sendable(d.frame)
     /\ \/ d.change.how \in {"none", "longer"}
        \/ d.change.how = "flip" /\ d.change.at \in Nat /\ d.change.bit \in 0 .. 7
        \/ d.change.how = "cut" /\ d.change.at \in 0 .. Len(datagram(d.frame))

ASSUME ScenariosAssumption ==
  \A s \in Scenarios :
    /\ s.app \in {"sender", "receiver"} /\ s.ask \in {"run", "help", "version", "malformed"}
    /\ s.text \in Seq(Range(s.text))
    /\ {s.ttl, s.fps, s.count, s.reorder} \subseteq Int
    /\ \A d \in s.air : possible(d)

ASSUME RowsAssumption == MaxRows \in Nat \ {0}

ASSUME BufferAssumption == BufferSize \in Nat

ASSUME NoneAssumption == None \notin [addr: [1 .. 4 -> 0 .. 255], port: 1 .. MaxPort]

VARIABLES opt,      \* the scenario
          pc,       \* "args", "socket", "loop", "turn", "again", "finish", "save", "exit", "abort"
          ep,       \* the parsed end point
          cfg,      \* the options as the loop uses them
          run_id,
          sock,     \* the calls that succeeded, with what they were given
          buf,      \* CsvWriter::buf_
          wrote,    \* the fields add_row was given (history)
          file,     \* the file in metrics/, or None
          code,     \* the value main is going to return
          heard     \* the datagram of this turn

vars == <<opt, pc, ep, cfg, run_id, sock, buf, wrote, file, code, heard>>

is_sender == opt.app = "sender"

Init == /\ opt \in Scenarios
        /\ pc = "args" /\ ep = None /\ cfg = None /\ run_id = None
        /\ sock = None /\ buf = <<>> /\ wrote = <<>> /\ file = None
        /\ code = 0 /\ heard = None

(* The checks that end in exit code 2; only the sender looks at N and K.   *)
accepted ==
  /\ is_sender => opt.N \in 1 .. 255 /\ opt.K \in 0 .. 4
  /\ parses_endpoint(opt.text)
  /\ ipv4_is_multicast(parse_endpoint(opt.text).addr) => opt.mif # ""

Leave ==
  /\ pc = "args" /\ pc' = "exit"
  /\ \/ opt.ask \in {"help", "version"} /\ code' = 0
     \/ opt.ask = "malformed" /\ code' = 2
     \/ opt.ask = "run" /\ ~accepted /\ code' = 2
  /\ UNCHANGED <<opt, ep, cfg, run_id, sock, buf, wrote, file, heard>>

at_least(n, least, instead) == IF n < least THEN instead ELSE n

(* How long BlockTracker takes a block of n data frames to be under way,   *)
(* and the sender's pause after each of them.                              *)
block_span_ms(n, fps) == IF fps = 0 THEN 0 ELSE (1000 * n + (fps - 1)) \div fps
dt_ms(fps) == IF 1000 \div fps > 1 THEN 1000 \div fps ELSE 1

sender_config(multicast) ==
  [N |-> opt.N, K |-> opt.K, dt_ms |-> dt_ms(at_least(opt.fps, 1, 30)),
   blocks |-> at_least(opt.count, 1, 1), inter_block_ms |-> at_least(opt.gap, 0, 0),
   mttl |-> IF multicast THEN <<clamp_ttl(opt.ttl)>> ELSE <<>>,
   mloop |-> IF multicast THEN <<opt.loopback # 0>> ELSE <<>>]

(* Bug: the frame rate is cut to eight bits.                               *)
receiver_config_narrow ==
  [expect |-> at_least(opt.count, 1, 1), reorder_ms |-> at_least(opt.reorder, 50, 50),
   fps |-> at_least(opt.fps, 1, 30) % 256]

(* The frame rate becomes a uint16_t.                                      *)
receiver_config ==
  [expect |-> at_least(opt.count, 1, 1), reorder_ms |-> at_least(opt.reorder, 50, 50),
   fps |-> at_least(opt.fps, 1, 30) % power[16]]

(* What main gives add_row: times, sizes and the run id are opaque pieces. *)
id == <<"run_id">>
fields(event, address) ==
  <<schema_version, id, <<"ts">>, <<opt.app>>, <<event>>, address, <<"port">>, <<"bytes">>>>

log_row(event, address) ==
  /\ wrote' = Append(wrote, fields(event, address))
  /\ buf' = buf \o add_row(id, fields(event, address))

(* Octets as numerals: no piece of the format's own.                       *)
octets == <<"a", ".", "b", ".", "c", ".", "d">>

Begin ==
  /\ pc = "args" /\ opt.ask = "run" /\ accepted /\ pc' = "socket"
  /\ ep' = parse_endpoint(opt.text)
  /\ cfg' = IF is_sender THEN sender_config(ipv4_is_multicast(ep'.addr)) ELSE receiver_config
  /\ run_id' = uuid_v4(opt.seed)
  /\ wrote' = <<fields("start", octets)>>
  /\ buf' = set_header(standard_header) \o add_row(id, fields("start", octets))
  /\ UNCHANGED <<opt, sock, file, code, heard>>

opened ==
  IF is_sender THEN open_and_configure(ep, opt.mif, cfg.mttl, cfg.mloop, opt.fails)
               ELSE open_and_bind(ep, opt.mif, opt.fails)

calls ==
  IF is_sender THEN configure_calls(ep, cfg.mttl, cfg.mloop) ELSE bind_calls(ep)

OpenSocket ==
  /\ pc = "socket" /\ sock' = opened
  /\ DOMAIN sock' = Range(calls) /\ pc' = "loop"
  /\ UNCHANGED <<opt, ep, cfg, run_id, buf, wrote, file, code, heard>>

(* Bug: no footer when the socket fails.                                   *)
SocketError_silent ==
  /\ pc = "socket" /\ sock' = opened
  /\ DOMAIN sock' # Range(calls) /\ pc' = "save"
  /\ code' = IF is_sender THEN 4 ELSE 3
  /\ UNCHANGED <<opt, ep, cfg, run_id, buf, wrote, file, heard>>

SocketError ==
  /\ pc = "socket" /\ sock' = opened
  /\ DOMAIN sock' # Range(calls) /\ pc' = "save"
  /\ buf' = buf \o finish_with_summary(id, <<"error">>)
  /\ code' = IF is_sender THEN 4 ELSE 3
  /\ UNCHANGED <<opt, ep, cfg, run_id, wrote, file, heard>>

-----------------------------------------------------------------------------
(* The loop of fec_sender: a row for a frame that went out, a row and a    *)
(* footer for one that did not; it ends by itself, too.                    *)
Sent(event) ==
  /\ pc = "loop" /\ is_sender /\ Len(wrote) < MaxRows
  /\ log_row(event, opt.text)
  /\ UNCHANGED <<opt, pc, ep, cfg, run_id, sock, file, code, heard>>

(* recv_error ends the receiver without the footer ok, send_error the      *)
(* sender with both.                                                       *)
LoopError ==
  /\ pc = "loop" /\ pc' = IF is_sender THEN "finish" ELSE "save"
  /\ LET f == fields(IF is_sender THEN "send_error" ELSE "recv_error", opt.text)
     IN /\ wrote' = Append(wrote, f)
        /\ buf' = buf \o add_row(id, f) \o finish_with_summary(id, <<"error">>)
  /\ UNCHANGED <<opt, ep, cfg, run_id, sock, file, code, heard>>

Finish ==
  /\ pc = "finish" \/ (pc = "loop" /\ is_sender)
  /\ pc' = "save"
  /\ buf' = buf \o finish_with_summary(id, <<"ok">>)
  /\ UNCHANGED <<opt, ep, cfg, run_id, sock, wrote, file, code, heard>>

-----------------------------------------------------------------------------
(* What arrives when d is sent.                                            *)
arriving(d) ==
  CASE d.change.how = "zeros" -> [i \in 1 .. d.change.at |-> {}]
    [] d.change.how = "none" -> datagram(d.frame)
    [] d.change.how = "flip" -> [datagram(d.frame) EXCEPT ![d.change.at] = xor(@, {d.change.bit})]
    [] d.change.how = "cut" -> SubSeq(datagram(d.frame), 1, d.change.at)
    [] d.change.how = "longer" -> Append(datagram(d.frame), {})

(* What receive_from leaves in the buffer: POSIX drops what does not fit   *)
(* without a word (Windows reports an error instead: LoopError).           *)
truncated(s) == IF Len(s) <= BufferSize THEN s ELSE SubSeq(s, 1, BufferSize)

Recv(d) ==
  /\ pc = "loop" /\ ~is_sender
  /\ accepts_datagram(truncated(arriving(d))) /\ pc' = "turn"
  /\ heard' = [sent |-> d, in |-> truncated(arriving(d))]
  /\ UNCHANGED <<opt, ep, cfg, run_id, sock, buf, wrote, file, code>>

(* A datagram that is refused ends the turn: no block is tried.            *)
RecvRefused(d) ==
  /\ pc = "loop" /\ ~is_sender /\ Len(wrote) < MaxRows
  /\ ~accepts_datagram(truncated(arriving(d))) /\ pc' = "again"
  /\ heard' = [sent |-> d, in |-> truncated(arriving(d))]
  /\ log_row("decode_error", opt.text)
  /\ UNCHANGED <<opt, ep, cfg, run_id, sock, file, code>>

closed_blocks == Cardinality({r \in DOMAIN wrote : wrote[r][5] = <<"block_closed">>})

(* A turn may close any number of blocks; the last one expected ends it.   *)
Close ==
  /\ pc = "turn" /\ Len(wrote) < MaxRows
  /\ LET f == fields("block_closed", opt.text)
         last == closed_blocks + 1 >= cfg.expect
     IN /\ wrote' = Append(wrote, f)
        /\ buf' = buf \o add_row(id, f)
                      \o (IF last THEN finish_with_summary(id, <<"ok">>) ELSE <<>>)
        /\ pc' = IF last THEN "save" ELSE "turn"
  /\ UNCHANGED <<opt, ep, cfg, run_id, sock, file, code, heard>>

TurnEnd ==
  /\ pc \in {"turn", "again"} /\ pc' = "loop" /\ heard' = None
  /\ UNCHANGED <<opt, ep, cfg, run_id, sock, buf, wrote, file, code>>

-----------------------------------------------------------------------------
(* create_directories may throw, which ends the program; the result of     *)
(* save_to_file is ignored.                                                *)
Save ==
  /\ pc = "save"
  /\ \/ file' = [name |-> run_id, text |-> buf] /\ pc' = "exit"
     \/ file' = None /\ pc' \in {"exit", "abort"}
  /\ UNCHANGED <<opt, ep, cfg, run_id, sock, buf, wrote, code, heard>>

SenderLoop == \E event \in {"sent_data", "sent_parity"} : Sent(event)
ReceiverLoop == (\E d \in opt.air : Recv(d) \/ RecvRefused(d)) \/ Close \/ TurnEnd

Next == \/ Leave \/ Begin \/ OpenSocket \/ SocketError
        \/ SenderLoop \/ ReceiverLoop \/ LoopError \/ Finish \/ Save

Spec == Init /\ [][Next]_vars

-----------------------------------------------------------------------------
PTypeOK ==
  /\ pc \in {"args", "socket", "loop", "turn", "again", "finish", "save", "exit", "abort"}
  /\ code \in {0, 2, 3, 4}
  /\ ep # None => ep.addr \in [1 .. 4 -> 0 .. 255] /\ ep.port \in 1 .. MaxPort
  /\ run_id # None => /\ run_id \in [0 .. 15 -> Byte]
                      /\ run_id[6] \ (0 .. 3) = {6} /\ run_id[8] \cap {6, 7} = {7}
  /\ Len(wrote) \in 0 .. MaxRows + 1

(* No text is read as another end point than the one it spells, with no    *)
(* piece missing, out of range or attributed to the wrong side of a        *)
(* separator, and none that spells one is refused; with one deviation that *)
(* ip.h:37 and :56 do not announce: after a fourth dot, anything up to the *)
(* last colon is skipped, so that 192.0.0.1.x:5000 is taken.               *)
AddressReadRight ==
  /\ ep # None => LET t == without_tail(opt.text) IN spells(t) /\ ep = spelled(t)
  /\ pc = "exit" /\ ep = None /\ opt.ask = "run" /\ spells(opt.text) =>
       \/ is_sender /\ ~(opt.N \in 1 .. 255 /\ opt.K \in 0 .. 4)
       \/ opt.mif = "" /\ spelled(opt.text).addr[1] \in 224 .. 239

(* No loop runs over a half-configured socket, and main's test for a       *)
(* multicast address agrees with the socket layer's, at its edges too: a   *)
(* group is joined or sent to, through the interface the user named, with  *)
(* the TTL and loopback asked for, exactly when main insisted on one.      *)
SocketIsReady ==
  pc \in {"loop", "turn", "again", "finish"} =>
    LET multicast == ipv4_is_multicast(ep.addr)
    IN /\ multicast => opt.mif \in Interfaces
       /\ is_sender =>
            /\ DOMAIN sock = {"open"} \cup
                 (IF multicast THEN {"outbound_interface", "hops", "enable_loopback"} ELSE {})
            /\ sock.open = ep
            /\ multicast =>
                 /\ sock.outbound_interface = opt.mif
                 /\ sock.hops \in 0 .. 255
                 /\ \A n \in 0 .. 255 : /\ n > sock.hops => opt.ttl <= sock.hops
                                       /\ n < sock.hops => opt.ttl >= sock.hops
                 /\ sock.enable_loopback = (opt.loopback # 0)
       /\ ~is_sender =>
            /\ sock.bind.port = ep.port
            /\ sock.bind.addr = IF multicast THEN <<0, 0, 0, 0>> ELSE ep.addr
            /\ multicast = ("join_group" \in DOMAIN sock)
            /\ multicast => sock.join_group = [group |-> ep.addr, interface |-> opt.mif]

(* What the file says fits how the program ended: it ends in a footer;     *)
(* after a failed socket (3, 4) the footer is an error and no row follows  *)
(* the first; a receiver's file says ok iff it lists as many closed blocks *)
(* as were asked for; without a socket tried (2) there is no file.         *)
FileTellsTheExit ==
  /\ file # None =>
       LET rows == read_rows(file.text)
           footer == rows[Len(rows)]
           closed == {r \in 2 .. Len(rows) - 1 : rows[r][7] = <<"block_closed">>}
       IN /\ footer[1] = <<"# summary">> /\ footer[4] \in {<<"ok">>, <<"error">>}
          /\ code # 0 <=> footer[4] = <<"error">> /\ Len(rows) = 3
          /\ ~is_sender => (footer[4] = <<"ok">> <=> Cardinality(closed) = cfg.expect)
  /\ code = 2 => file = None

(* Whatever the address given by the user looks like, a reader of CSV gets *)
(* back what main wrote: a header, the rows under it cell by cell, then    *)
(* footers of four cells.  Writer and main both put schema_version and     *)
(* run_uuid in front, so the two stand twice: ten columns, where           *)
(* csv.h:23-25, docs/README.md:60-61, DESIGN.md:117-118 and                *)
(* TEST-MATRIX.md:81-82 have eight; but rows and header agree.             *)
prefix_twice(cells) == SubSeq(cells, 1, 2) \o cells

ColumnsLineUp ==
  file # None =>
    LET rows == read_rows(file.text)
    IN /\ rows[1] = prefix_twice(standard_header)
       /\ \A r \in DOMAIN wrote : rows[1 + r] = prefix_twice(wrote[r])
       /\ \A r \in 2 + Len(wrote) .. Len(rows) :
            \E text \in {"ok", "error"} : rows[r] = <<<<"# summary">>, schema_version, id, <<text>>>>

(* The receiver never takes a block to span less time than a sender with   *)
(* the same --fps needs for its data frames, from 1 to 1000 frames per     *)
(* second and for the nonsensical values both replace.                     *)
TableGetsTheRate ==
  cfg # None /\ ~is_sender =>
    /\ opt.fps <= 1000 =>
         \A n \in 1 .. 255 : block_span_ms(n, cfg.fps) >= n * dt_ms(at_least(opt.fps, 1, 30))
    /\ cfg.reorder_ms >= 50 /\ cfg.expect >= 1

(* An undamaged datagram is accepted iff it fits the receiver's buffer, and*)
(* then every field of header and subheader, the payload and the checksum  *)
(* read as they were written, and give the table the frame that was sent.  *)
IntactIsUnderstood ==
  heard # None /\ heard.sent.change.how = "none" =>
    LET f == heard.sent.frame
    IN /\ accepts_datagram(heard.in) <=> Len(datagram(f)) <= BufferSize
       /\ accepts_datagram(heard.in) =>
            decode_frame(heard.in) = contents(f) /\ received(heard.in, f.pay) = f

(* Before its end a datagram holds bytes that happen to be followed by     *)
(* their checksum: a payload for a header that is wrong about the place.   *)
nested(in) ==
  \E off \in {kBase, kBase + kParitySub}, n \in 1 .. Len(in) :
    /\ off + n + kCrcTrailer < Len(in)
    /\ crc32c(SubSeq(in, off + 1, off + n)) = read_u32_le(in, off + n + 1)

NothingNested ==
  \A s \in Scenarios :
    \A f \in {d.frame : d \in {d \in s.air : d.change.how # "zeros"}} : ~nested(datagram(f))

(* Whatever bit is flipped, header included, wherever a datagram is cut:   *)
(* if the receiver accepts it, the payload is the one that was sent, or    *)
(* empty, which the table refuses.  The header may be wrong: no checksum   *)
(* covers it.                                                              *)
NoForeignPayload ==
  heard # None /\ accepts_datagram(heard.in) =>
    LET payload == decode_frame(heard.in).payload
    IN payload = <<>> \/ (heard.sent.change.how # "zeros" /\ payload = payload_of(heard.sent.frame))

(* The table-driven checksum on the wire is the CRC-32C of the payload.    *)
TrailerIsRemainder ==
  heard # None /\ accepts_datagram(heard.in) =>
    decode_frame(heard.in).crc = crc_of(decode_frame(heard.in).payload)
=============================================================================
