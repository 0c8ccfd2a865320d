-------------------------------- MODULE Udp --------------------------------
(***************************************************************************)
(* UdpSender::open_and_configure and UdpReceiver::open_and_bind: calls to  *)
(* the system, made one after the other until one fails.  A socket is      *)
(* known by the calls that succeeded and what each was given; after a      *)
(* failure it stays open and half configured.                              *)
(***************************************************************************)
EXTENDS Endpoint

CONSTANT Interfaces   \* the texts that name the address of an interface

AnyAddress == <<0, 0, 0, 0>>

(* Bug: everything from 224.0.0.0 on.                                      *)
is_multicast_wide(a) == a[1] >= 224

(* Asio's test: the top four bits are 1110.                                *)
is_multicast(a) == a[1] \div 16 = 14

(* TTL and loopback are optional: a sequence of one value or none.         *)
configure_calls(ep, ttl, loopback) ==
  <<"open">> \o
  (IF is_multicast(ep.addr)
   THEN <<"outbound_interface">> \o (IF ttl = <<>> THEN <<>> ELSE <<"hops">>)
          \o (IF loopback = <<>> THEN <<>> ELSE <<"enable_loopback">>)
   ELSE <<>>)

bind_calls(ep) ==
  IF is_multicast(ep.addr) THEN <<"open", "reuse_address", "bind", "join_group">>
                           ELSE <<"open", "reuse_address", "bind">>

(* The interface is looked at just before the call that needs it.          *)
refused(call, mcast_if, fails) ==
  \/ call \in fails
  \/ call \in {"outbound_interface", "join_group"} /\ mcast_if \notin Interfaces

made(calls, mcast_if, fails) ==
  {calls[i] : i \in {k \in DOMAIN calls : \A j \in 1 .. k : ~refused(calls[j], mcast_if, fails)}}

clamp_ttl(ttl) == IF ttl < 0 THEN 0 ELSE IF ttl > 255 THEN 255 ELSE ttl

open_and_configure(ep, mcast_if, ttl, loopback, fails) ==
  [c \in made(configure_calls(ep, ttl, loopback), mcast_if, fails) |->
     CASE c = "open" -> ep
       [] c = "outbound_interface" -> mcast_if
       [] c = "hops" -> clamp_ttl(ttl[1])
       [] c = "enable_loopback" -> loopback[1]]

open_and_bind(ep, mcast_if, fails) ==
  [c \in made(bind_calls(ep), mcast_if, fails) |->
     CASE c = "open" -> TRUE
       [] c = "reuse_address" -> TRUE
       [] c = "bind" -> IF is_multicast(ep.addr) THEN [ep EXCEPT !.addr = AnyAddress] ELSE ep
       [] c = "join_group" -> [group |-> ep.addr, interface |-> mcast_if]]
=============================================================================
