---------------------------- MODULE BlockDelivery ----------------------------
(***************************************************************************)
(* What a receiver promises its user, with no vectors, bits or matrices:   *)
(* N payloads of a block travel as N + K frames, ANY N of which give all   *)
(* the payloads back; with fewer, the payloads that arrived are handed     *)
(* over alone.  A block is handed over no earlier than its deadline unless *)
(* nothing was lost, and what is handed over is what was sent.             *)
(*                                                                         *)
(* A frame that comes after its block was handed over opens it afresh: the *)
(* promise is per opening, not per generation id.                          *)
(***************************************************************************)
EXTENDS Integers, FiniteSets

CONSTANTS Gens, N, K,      \* N[g], K[g]: the shape of block g
          Sent,            \* Sent[g][i]: the i-th payload of block g
          Missing,
          Deadline,        \* Deadline[g]: ms from the first frame of block g
          Ticks, MaxTime,
          None

VARIABLES now,
          got,        \* positions of the frames of a block that have arrived
          born,       \* when the first of them did
          delivered   \* the block the latest step handed over

vars == <<now, got, born, delivered>>

Data(g) == 0 .. N[g] - 1
Parity(g) == N[g] .. N[g] + K[g] - 1

Init == /\ now = 0
        /\ got = [g \in Gens |-> {}]
        /\ born = [g \in Gens |-> 0]
        /\ delivered = None

Arrive(g, p) ==
  /\ got' = [got EXCEPT ![g] = @ \cup {p}]
  /\ born' = IF got[g] = {} THEN [born EXCEPT ![g] = now] ELSE born
  /\ delivered' = None
  /\ UNCHANGED now

Due(g) ==
  /\ got[g] # {}
  /\ \/ Data(g) \subseteq got[g] /\ got[g] \cap Parity(g) # {}
     \/ now - born[g] >= Deadline[g]

Restored(g) == IF Cardinality(got[g]) >= N[g] THEN Data(g) ELSE got[g] \cap Data(g)

Deliver(g) ==
  /\ Due(g)
  /\ delivered' =
       [gen  |-> g,
        data |-> [i \in Data(g) |-> IF i \in Restored(g) THEN Sent[g][i] ELSE Missing],
        rec  |-> Restored(g) \ got[g]]
  /\ got' = [got EXCEPT ![g] = {}]
  /\ born' = [born EXCEPT ![g] = 0]
  /\ UNCHANGED now

Pass(d) ==
  /\ now + d <= MaxTime
  /\ now' = now + d
  /\ delivered' = None
  /\ UNCHANGED <<got, born>>

(* Something happens to a block that this promise is not about.            *)
Elsewhere == delivered' = None /\ UNCHANGED <<now, got, born>>

Next == \/ \E g \in Gens : \E p \in Data(g) \cup Parity(g) : Arrive(g, p)
        \/ \E g \in Gens : Deliver(g)
        \/ \E d \in Ticks : Pass(d)
        \/ Elsewhere

Spec == Init /\ [][Next]_vars
=============================================================================
