------------------------------ MODULE Endpoint ------------------------------
(***************************************************************************)
(* The parser for --dest and --listen.  A text is a sequence of pieces: a  *)
(* run of digits, a separator, or something else; no two runs of digits    *)
(* are neighbours.                                                         *)
(***************************************************************************)
EXTENDS Integers, Sequences, FiniteSets

CONSTANT Numeral   \* the value of each run of digits

ASSUME NumeralAssumption ==
  \A p \in DOMAIN Numeral : Numeral[p] \in Nat /\ p \notin {".", ":"}

ipv4_is_multicast(a) == a[1] >= 224 /\ a[1] <= 239

MaxPort == 65535

(* Bug: what follows the digits is not looked at (result ptr unchecked).   *)
parses_uint_prefix(s, maxv) ==
  Len(s) >= 1 /\ s[1] \in DOMAIN Numeral /\ Numeral[s[1]] <= maxv

parses_uint(s, maxv) == Len(s) = 1 /\ s[1] \in DOMAIN Numeral /\ Numeral[s[1]] <= maxv

at(s, piece) == {i \in 1 .. Len(s) : s[i] = piece}

(* Where the k-th field between dots begins, and where it ends.            *)
dot(s, k) ==
  IF k = 0 THEN 0
  ELSE CHOOSE i \in at(s, ".") : Cardinality({j \in at(s, ".") : j <= i}) = k
field(s, k) ==
  SubSeq(s, dot(s, k - 1) + 1, IF k <= Cardinality(at(s, ".")) THEN dot(s, k) - 1 ELSE Len(s))

(* Four fields are read; what follows a fourth dot is not looked at.       *)
parses_ipv4(s) ==
  /\ Cardinality(at(s, ".")) >= 3
  /\ \A k \in 1 .. 4 : parses_uint(field(s, k), 255)

parse_ipv4(s) == [k \in 1 .. 4 |-> Numeral[field(s, k)[1]]]

(* The last colon separates address and port.                              *)
colon(s) == CHOOSE i \in at(s, ":") : \A j \in at(s, ":") : j <= i
ip(s) == SubSeq(s, 1, colon(s) - 1)
ps(s) == SubSeq(s, colon(s) + 1, Len(s))

parses_endpoint(s) ==
  /\ at(s, ":") # {}
  /\ parses_ipv4(ip(s))
  /\ parses_uint(ps(s), MaxPort) /\ Numeral[ps(s)[1]] > 0

parse_endpoint(s) == [addr |-> parse_ipv4(ip(s)), port |-> Numeral[ps(s)[1]]]

-----------------------------------------------------------------------------
(* The texts that name an end point, as ip.h:37 and :56 have it: a.b.c.d,  *)
(* a colon and a port.                                                     *)
numeral(piece, range) == piece \in DOMAIN Numeral /\ Numeral[piece] \in range

spells(s) ==
  /\ Len(s) = 9
  /\ \A i \in {1, 3, 5, 7} : numeral(s[i], 0 .. 255)
  /\ s[2] = "." /\ s[4] = "." /\ s[6] = "."
  /\ s[8] = ":" /\ numeral(s[9], 1 .. MaxPort)

spelled(s) ==
  [addr |-> <<Numeral[s[1]], Numeral[s[3]], Numeral[s[5]], Numeral[s[7]]>>, port |-> Numeral[s[9]]]

(* A fourth dot, against that rule, and the text without it and whatever   *)
(* stands between it and the last colon.                                   *)
has_tail(s) == Len(s) > 9 /\ s[8] = "."
without_tail(s) ==
  IF has_tail(s) THEN SubSeq(s, 1, 7) \o SubSeq(s, Len(s) - 1, Len(s)) ELSE s
=============================================================================
