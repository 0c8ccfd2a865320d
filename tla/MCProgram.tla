----------------------------- MODULE MCProgram -----------------------------
(***************************************************************************)
(* Scenarios that differ from a default in one respect, or in the few that *)
(* matter together.                                                        *)
(***************************************************************************)
EXTENDS Program

MCNumeral ==
  [p \in {"0", "1", "007", "192", "223", "224", "239", "240", "255", "256", "5000", "65535", "65536",
          "99999999999"} |->
     CASE p = "0" -> 0 [] p = "1" -> 1 [] p = "007" -> 7 [] p = "192" -> 192 [] p = "223" -> 223
       [] p = "224" -> 224 [] p = "239" -> 239 [] p = "240" -> 240 [] p = "255" -> 255
       [] p = "256" -> 256 [] p = "5000" -> 5000 [] p = "65535" -> 65535 [] p = "65536" -> 65536
       [] OTHER -> 2147483647]   \* out of range for from_chars

MCMsg == <<108, 116, 0, 255>>

(* Texts: one piece replaced, inserted or left out, and what may follow a  *)
(* fourth dot.                                                             *)
spelling(o) == <<o, ".", "0", ".", "0", ".", "1", ":", "5000">>
Plain == spelling("192")
Other == {".", ":", "x", " ", ",", Quote, Newline, "\r"}
Pieces == DOMAIN MCNumeral \cup Other
cut_right(t) == \A i \in 1 .. Len(t) - 1 : {t[i], t[i + 1]} \cap Other # {}

Edited == {[Plain EXCEPT ![i] = p] : i \in DOMAIN Plain, p \in Pieces}
            \cup {SubSeq(Plain, 1, i) \o <<p>> \o SubSeq(Plain, i + 1, 9) : i \in 0 .. 9, p \in Other}
            \cup {SubSeq(Plain, 1, i - 1) \o SubSeq(Plain, i + 1, 9) : i \in DOMAIN Plain}
Trailing == {SubSeq(Plain, 1, 7) \o <<".", p, q>> \o SubSeq(Plain, 8, 9) : p \in Other, q \in Other}
Texts == {t \in Edited \cup Trailing : cut_right(t)} \cup {<<>>, <<":">>, <<"1">>}

Default(app) ==
  [app |-> app, ask |-> "run", text |-> Plain, mif |-> "10.0.0.7", ttl |-> 1, loopback |-> 0,
   N |-> 8, K |-> 1, fps |-> 30, count |-> 1, reorder |-> 200, gap |-> 0,
   seed |-> {1, 3}, fails |-> {}, air |-> {}]

Frames == {out_frame("o", 16909060, 2, 2, 3, p) : p \in {0, 3}}       \* gen 0x01020304
            \cup {out_frame("o", 65535, 255, 4, 1, p) : p \in {254, 258}}
            \cup {out_frame("o", 7, 1, 0, 2, 0)}
Changes(f) ==
  LET length == Len(datagram(f))
  IN {[how |-> h, at |-> 0, bit |-> 0] : h \in {"none", "longer"}}
       \cup [how: {"flip"}, at: 1 .. length, bit: 0 .. 7]
       \cup [how: {"cut"}, at: 0 .. length - 1, bit: {0}]
(* One byte more than BufferSize.                                          *)
TooLong == out_frame("o", 16909060, 2, 2, 4, 3)
Air == UNION {{[frame |-> f, change |-> c] : c \in Changes(f)} : f \in Frames}
         \cup {[frame |-> TooLong, change |-> [how |-> "none", at |-> 0, bit |-> 0]]}
         \cup {[frame |-> None, change |-> [how |-> "zeros", at |-> n, bit |-> 0]] : n \in 19 .. 24}

Calls == {"open", "outbound_interface", "hops", "enable_loopback", "reuse_address", "bind", "join_group"}

MCScenarios ==
  LET defaults == {Default("sender"), Default("receiver")}
  IN {[d EXCEPT !.text = t] : d \in defaults, t \in Texts}
       \cup {[d EXCEPT !.text = spelling(o), !.mif = i, !.ttl = n, !.loopback = n]
               : d \in defaults, o \in {"223", "224", "239", "240"},
                 i \in {"", "10.0.0.7", "eth0"}, n \in {-1, 0, 1, 255, 256}}
       \cup {[d EXCEPT !.text = spelling(o), !.fails = {c}]
               : d \in defaults, o \in {"192", "224"}, c \in Calls}
       \cup {[d EXCEPT !.ask = a] : d \in defaults, a \in {"help", "version", "malformed"}}
       \cup {[d EXCEPT !.N = n, !.K = k]
               : d \in defaults, n \in {0, 1, 255, 256}, k \in {-1, 0, 4, 5}}
       \cup {[d EXCEPT !.fps = f] : d \in defaults, f \in {-1, 0, 1, 30, 512, 999, 1000, 65535, 65536}}
       \cup {[d EXCEPT !.count = c, !.gap = c, !.reorder = r]
               : d \in defaults, c \in {-1, 0, 2}, r \in {-1, 49, 50}}
       \cup {[d EXCEPT !.seed = s] : d \in defaults, s \in {{}, {31}, 0 .. 31}}
       \cup {[Default("receiver") EXCEPT !.air = Air, !.count = 2]}
       \cup {[Default("receiver") EXCEPT !.text = t, !.count = c,
                !.air = {[frame |-> out_frame("o", 7, 1, 0, 2, 0),
                          change |-> [how |-> h, at |-> 5, bit |-> 0]] : h \in {"none", "cut"}}]
               : t \in {u \in Trailing : cut_right(u)}, c \in {1, 2}}

(* No frame sent here holds a payload within its payload.                  *)
ASSUME NothingNestedAssumption == NothingNested
=============================================================================
