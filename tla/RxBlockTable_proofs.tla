-------------------------- MODULE RxBlockTable_proofs --------------------------
(***************************************************************************)
(* What RxBlockTable guarantees to every caller, for all generations,      *)
(* frames, block shapes, payload lengths and clocks.                       *)
(*                                                                         *)
(* An open block is Sound when it has its type, one payload size and       *)
(* agreeing trackers.  The lemmas follow a frame through the operators of  *)
(* RxBlock (creation, start, put_data, put_parity, ingest); the invariant  *)
(* then needs one step per action of the table.                            *)
(***************************************************************************)
EXTENDS RxBlockTable, TLAPS, FiniteSetTheorems

(* b has the shape n + k and everything written down about it agrees.      *)
SoundOf(b, n, k) == b \in BlockOf(n, k) /\ OneSize(b) /\ Agrees(b)

Sound(b) == \E n \in Ns, k \in Ks : SoundOf(b, n, k)

(* As SoundOf, but nothing has arrived and the clock may not run yet.      *)
Fresh(b, n, k) ==
  /\ b \in BlockOf(n, k)
  /\ OneSize(b)
  /\ b.stData = {} /\ b.trData = {} /\ b.stParity = {} /\ ~b.trParity
  /\ \A i \in 0 .. n - 1 : b.data[i] = Missing
  /\ \A j \in 0 .. k - 1 : b.parity[j] = Missing

LEMMA FrameFields ==
  ASSUME NEW f \in Frames
  PROVE  /\ f.gen \in Gens /\ f.seq \in Nat /\ f.n \in Nat /\ f.k \in Nat /\ f.pidx \in Nat
         /\ f.pay \in Payload /\ f.pay.len \in Nat
         /\ f.n \in Ns /\ f.k \in Ks
         /\ f.pay # Missing
BY FramesAssumption, TokenAssumption DEF BaseFrame, Payload, Ns, Ks

LEMMA NewBlockIsFresh ==
  ASSUME NEW f \in Frames, accepts(f)
  PROVE  Fresh(RxBlock(f), f.n, f.k)
<1>1. RxBlock(f) \in BlockOf(f.n, f.k)
  BY FrameFields DEF RxBlock, BlockOf, Slot
<1>2. /\ OneSize(RxBlock(f))
  BY FrameFields DEF RxBlock, OneSize, accepts
<1> QED BY <1>1, <1>2, FrameFields DEF Fresh, RxBlock

LEMMA StartFresh ==
  ASSUME NEW n \in Nat, NEW k \in Nat, NEW b, Fresh(b, n, k), NEW t \in Nat
  PROVE  SoundOf(start(b, t), n, k)
<1>1. start(b, t) \in BlockOf(n, k)
  BY DEF start, Fresh, BlockOf
<1> QED BY <1>1 DEF start, Fresh, BlockOf, SoundOf, OneSize, Agrees

LEMMA StartSound ==
  ASSUME NEW b, Agrees(b), NEW t
  PROVE  start(b, t) = b
BY DEF start, Agrees

LEMMA PutData ==
  ASSUME NEW n \in Nat, NEW k \in Nat, NEW b, SoundOf(b, n, k),
         NEW i \in Nat, NEW p \in Payload, p.len = b.len
  PROVE  SoundOf(put_data(b, i, p), n, k)
<1>1. CASE ~(i < b.N) BY <1>1 DEF put_data
<1>2. CASE i < b.N
  <2> DEFINE c == put_data(b, i, p)
  <2>1. b.N = n /\ b.K = k /\ i \in 0 .. n - 1 /\ b.data \in [0 .. n - 1 -> Slot]
        /\ b.parity \in [0 .. k - 1 -> Slot]
    BY <1>2 DEF SoundOf, BlockOf
  <2>2. c = [b EXCEPT !.data = [b.data EXCEPT ![i] = p],
                      !.stData = b.stData \cup {i}, !.trData = b.trData \cup {i}]
    BY <1>2 DEF put_data
  <2>3. c \in BlockOf(n, k)
    <3> DEFINE v == [b.data EXCEPT ![i] = p]
               s == b.stData \cup {i}
               r == b.trData \cup {i}
    <3>1. v \in [0 .. n - 1 -> Slot] BY <2>1 DEF Slot
    <3>2. s \in SUBSET (0 .. n - 1) /\ r \in SUBSET (0 .. n - 1)
      BY <2>1 DEF SoundOf, BlockOf
    <3> HIDE DEF v, s, r
    <3>3. [b EXCEPT !.data = v, !.stData = s, !.trData = r] \in BlockOf(n, k)
      BY <3>1, <3>2 DEF SoundOf, BlockOf
    <3> QED BY <3>3, <2>2 DEF v, s, r
  <2>4. /\ c.N = n /\ c.K = k /\ c.len = b.len /\ c.started = b.started
        /\ c.parity = b.parity /\ c.stParity = b.stParity /\ c.trParity = b.trParity
        /\ c.stData = b.stData \cup {i} /\ c.trData = b.trData \cup {i}
        /\ c.data[i] = p /\ \A h \in 0 .. n - 1 : h # i => c.data[h] = b.data[h]
    BY <2>1, <2>2 DEF SoundOf, BlockOf
  <2> HIDE DEF c
  <2>5. OneSize(c)
    BY <2>1, <2>4 DEF SoundOf, OneSize
  <2>6. Agrees(c)
    BY <2>1, <2>4, TokenAssumption DEF SoundOf, Agrees
  <2> QED BY <2>3, <2>5, <2>6 DEF SoundOf, c
<1> QED BY <1>1, <1>2

LEMMA PutParity ==
  ASSUME NEW n \in Nat, NEW k \in Nat, NEW b, SoundOf(b, n, k),
         NEW j \in Nat, NEW p \in Payload, p.len = b.len
  PROVE  SoundOf(put_parity(b, j, p), n, k)
<1>1. CASE ~(j < b.K) BY <1>1 DEF put_parity
<1>2. CASE j < b.K
  <2> DEFINE c == put_parity(b, j, p)
  <2>1. b.N = n /\ b.K = k /\ j \in 0 .. k - 1 /\ b.data \in [0 .. n - 1 -> Slot]
        /\ b.parity \in [0 .. k - 1 -> Slot]
    BY <1>2 DEF SoundOf, BlockOf
  <2>2. c = [b EXCEPT !.parity = [b.parity EXCEPT ![j] = p],
                      !.stParity = b.stParity \cup {j}, !.trParity = TRUE]
    BY <1>2 DEF put_parity
  <2>3. c \in BlockOf(n, k)
    <3> DEFINE v == [b.parity EXCEPT ![j] = p]
               s == b.stParity \cup {j}
    <3>1. v \in [0 .. k - 1 -> Slot] BY <2>1 DEF Slot
    <3>2. s \in SUBSET (0 .. k - 1)
      BY <2>1 DEF SoundOf, BlockOf
    <3> HIDE DEF v, s
    <3>3. [b EXCEPT !.parity = v, !.stParity = s, !.trParity = TRUE] \in BlockOf(n, k)
      BY <3>1, <3>2 DEF SoundOf, BlockOf
    <3> QED BY <3>3, <2>2 DEF v, s
  <2>4. /\ c.N = n /\ c.K = k /\ c.len = b.len /\ c.started = b.started
        /\ c.data = b.data /\ c.stData = b.stData /\ c.trData = b.trData
        /\ c.stParity = b.stParity \cup {j} /\ c.trParity = TRUE
        /\ c.parity[j] = p /\ \A h \in 0 .. k - 1 : h # j => c.parity[h] = b.parity[h]
    BY <2>1, <2>2 DEF SoundOf, BlockOf
  <2> HIDE DEF c
  <2>5. OneSize(c)
    BY <2>1, <2>4 DEF SoundOf, OneSize
  <2>6. Agrees(c)
    <3>1. c.stParity = {h \in 0 .. k - 1 : c.parity[h] # Missing}
      BY <2>1, <2>4, TokenAssumption DEF SoundOf, Agrees
    <3>2. c.trParity = (c.stParity # {}) BY <2>4
    <3>3. /\ c.started
          /\ c.stData = {h \in 0 .. n - 1 : c.data[h] # Missing}
          /\ c.trData = c.stData
      BY <2>1, <2>4 DEF SoundOf, Agrees
    <3> QED BY <2>4, <3>1, <3>2, <3>3 DEF Agrees
  <2> QED BY <2>3, <2>5, <2>6 DEF SoundOf, c
<1> QED BY <1>1, <1>2

(* A frame the table accepts leaves its block sound.                       *)
LEMMA IngestFresh ==
  ASSUME NEW f \in Frames, accepts(f), NEW t \in Nat
  PROVE  SoundOf(ingest(RxBlock(f), t, f), f.n, f.k)
<1> DEFINE c == start(RxBlock(f), t)
<1>1. SoundOf(c, f.n, f.k) BY NewBlockIsFresh, StartFresh, FrameFields
<1>2. c.len = f.pay.len BY DEF start, RxBlock
<1> HIDE DEF c
<1>3. SoundOf(put_data(c, f.seq, f.pay), f.n, f.k) BY <1>1, <1>2, PutData, FrameFields
<1>4. SoundOf(put_parity(c, f.pidx, f.pay), f.n, f.k) BY <1>1, <1>2, PutParity, FrameFields
<1> QED BY <1>3, <1>4 DEF ingest, c

LEMMA IngestSound ==
  ASSUME NEW f \in Frames, NEW t \in Nat,
         NEW n \in Nat, NEW k \in Nat, NEW b, SoundOf(b, n, k), b.len = f.pay.len
  PROVE  SoundOf(ingest(b, t, f), n, k)
<1>1. start(b, t) = b BY StartSound DEF SoundOf
<1>2. SoundOf(put_data(b, f.seq, f.pay), n, k) BY PutData, FrameFields
<1>3. SoundOf(put_parity(b, f.pidx, f.pay), n, k) BY PutParity, FrameFields
<1> QED BY <1>1, <1>2, <1>3 DEF ingest

LEMMA ShapesAreNat == Ns \subseteq Nat /\ Ks \subseteq Nat
BY FrameFields DEF Ns, Ks

LEMMA SoundIsBlock ==
  ASSUME NEW b, Sound(b)
  PROVE  b # NoBlock /\ IsBlock(b)
BY NoBlockAssumption DEF Sound, SoundOf, IsBlock

(* The block an accepted frame goes to, after it went there.               *)
LEMMA IngestedSound ==
  ASSUME NEW f \in Frames, accepts(f), now \in Nat, blocks[f.gen] # NoBlock => Sound(blocks[f.gen])
  PROVE  Sound(ingest(find_or_emplace(f), now, f))
<1>1. CASE blocks[f.gen] = NoBlock
  BY <1>1, IngestFresh, FrameFields DEF find_or_emplace, Sound
<1>2. CASE blocks[f.gen] # NoBlock
  <2>1. PICK n \in Ns, k \in Ks : SoundOf(blocks[f.gen], n, k) BY <1>2 DEF Sound
  <2>2. blocks[f.gen].len = f.pay.len BY <1>2 DEF accepts
  <2>3. SoundOf(ingest(blocks[f.gen], now, f), n, k)
    BY <2>1, <2>2, IngestSound, ShapesAreNat
  <2> QED BY <2>3, <1>2 DEF find_or_emplace, Sound
<1> QED BY <1>1, <1>2

-----------------------------------------------------------------------------
(* The m smallest elements of a set of at least m numbers are m of them:   *)
(* counting the elements below each is a bijection onto an initial segment.*)
LEMMA Smallest ==
  ASSUME NEW S \in SUBSET Nat, IsFiniteSet(S), NEW m \in Nat, m <= Cardinality(S)
  PROVE  Cardinality({j \in S : Cardinality({i \in S : i < j}) < m}) >= m
<1> DEFINE below(j) == {i \in S : i < j}
           n == Cardinality(S)
           r == [j \in S |-> Cardinality(below(j))]
           F == {j \in S : Cardinality(below(j)) < m}
           h == [j \in F |-> r[j]]
<1>1. n \in Nat BY FS_CardinalityType
<1>2. ASSUME NEW j \in S
      PROVE  /\ IsFiniteSet(below(j)) /\ Cardinality(below(j)) \in Nat
             /\ Cardinality(below(j)) < n
  <2>1. below(j) \in SUBSET S /\ j \notin below(j) OBVIOUS
  <2>2. /\ IsFiniteSet(below(j)) /\ Cardinality(below(j)) <= n
        /\ n = Cardinality(below(j)) => S = below(j)
    <3> HIDE DEF below
    <3> QED BY <2>1, FS_Subset
  <2>3. Cardinality(below(j)) \in Nat BY <2>2, FS_CardinalityType
  <2> HIDE DEF below
  <2> QED BY <1>1, <2>1, <2>2, <2>3
<1>3. ASSUME NEW i \in S, NEW j \in S, i < j
      PROVE  Cardinality(below(i)) < Cardinality(below(j))
  <2>1. below(i) \in SUBSET below(j) /\ i \in below(j) /\ i \notin below(i)
    <3>1. i \in Nat /\ j \in Nat /\ S \subseteq Nat OBVIOUS
    <3>2. \A k \in S : k < i => k < j BY <1>3, <3>1
    <3>3. \A k \in below(i) : k \in below(j) BY <3>2
    <3>4. i \in below(j) BY <1>3
    <3>5. i \notin below(i) BY <3>1
    <3> HIDE DEF below
    <3> QED BY <3>3, <3>4, <3>5
  <2> HIDE DEF below
  <2>2. /\ Cardinality(below(i)) <= Cardinality(below(j))
        /\ Cardinality(below(j)) = Cardinality(below(i)) => below(j) = below(i)
    BY <1>2, <2>1, FS_Subset
  <2> QED BY <1>2, <2>1, <2>2
<1>4. r \in Injection(S, 0 .. n - 1)
  <2>1. r \in [S -> 0 .. n - 1] BY <1>1, <1>2
  <2>2. ASSUME NEW i \in S, NEW j \in S, r[i] = r[j] PROVE i = j
    <3> HIDE DEF below
    <3>1. Cardinality(below(i)) = Cardinality(below(j)) BY <2>2
    <3>2. ~(i < j) /\ ~(j < i) BY <1>2, <1>3, <3>1
    <3> QED BY <3>2
  <2> QED BY <2>1, <2>2 DEF Injection, IsInjective
<1>5. IsFiniteSet(0 .. n - 1) /\ Cardinality(0 .. n - 1) = n
  <2>1. 0 \in Int /\ n - 1 \in Int /\ (0 > n - 1 <=> n = 0) BY <1>1
  <2> QED BY <1>1, <2>1, FS_Interval
<1>6. r \in Surjection(S, 0 .. n - 1)
  BY <1>4, <1>5, FS_Injection
<1>7. IsFiniteSet(0 .. m - 1) /\ Cardinality(0 .. m - 1) = m
  <2>1. 0 \in Int /\ m - 1 \in Int /\ (0 > m - 1 <=> m = 0) OBVIOUS
  <2> QED BY <2>1, FS_Interval
<1>8. h \in Surjection(F, 0 .. m - 1)
  <2>0. \A j \in F : j \in S /\ h[j] = r[j] /\ h[j] \in 0 .. m - 1
    <3> TAKE j \in F
    <3>1. j \in S /\ h[j] = Cardinality(below(j)) /\ Cardinality(below(j)) < m OBVIOUS
    <3> HIDE DEF below
    <3> QED BY <1>2, <3>1
  <2>1. h \in [F -> 0 .. m - 1] BY <2>0
  <2>2. ASSUME NEW x \in 0 .. m - 1 PROVE \E j \in F : h[j] = x
    <3>1. x \in 0 .. n - 1 BY <1>1
    <3>2. PICK j \in S : r[j] = x BY <1>6, <3>1 DEF Surjection
    <3>3. r[j] = Cardinality(below(j)) /\ x < m OBVIOUS
    <3> QED BY <3>2, <3>3
  <2> QED BY <2>1, <2>2 DEF Surjection
<1>9. IsFiniteSet(F)
  <2>1. F \in SUBSET S OBVIOUS
  <2> QED BY <2>1, FS_Subset
<1> HIDE DEF F, h
<1>10. Cardinality(0 .. m - 1) <= Cardinality(F)
  BY <1>8, <1>9, FS_Surjection
<1>11. Cardinality(F) \in Nat BY <1>9, FS_CardinalityType
<1> QED BY <1>7, <1>10, <1>11 DEF F

-----------------------------------------------------------------------------
(* In a sound block a vector is full exactly when something arrived for it.*)
LEMMA LostIsMissing ==
  ASSUME NEW n \in Nat, NEW k \in Nat, NEW b, SoundOf(b, n, k)
  PROVE  /\ lost(b) = {i \in 0 .. n - 1 : b.data[i] = Missing}
         /\ recovered(b) \in {{}, lost(b)}
BY DEF SoundOf, BlockOf, OneSize, lost, full, recovered

LEMMA DecodeType ==
  ASSUME NEW n \in Nat, NEW k \in Nat, NEW b \in BlockOf(n, k), NEW R, NEW i \in 0 .. n - 1
  PROVE  decode(b, R, i) \in Payload \cup {Garbage}
<1>1. CASE \E o \in Origins : consistent(b, R, o)
  <2>1. (CHOOSE o \in Origins : consistent(b, R, o)) \in Origins BY <1>1
  <2>2. b.len \in Nat BY DEF BlockOf
  <2> QED BY <2>1, <2>2 DEF decode, Payload
<1> QED BY <1>1 DEF decode

LEMMA ExtractType ==
  ASSUME NEW n \in Nat, NEW k \in Nat, NEW b, SoundOf(b, n, k), NEW g \in Gens
  PROVE  extract_closed(g, b) \in ClosedOf(n, k)
<1>1. b.N = n /\ b.K = k /\ b.len \in Nat /\ b.data \in [0 .. n - 1 -> Slot]
  BY DEF SoundOf, BlockOf
<1>2. recovered(b) \in SUBSET (0 .. n - 1) BY LostIsMissing
<1> DEFINE R == first_rows(b, Cardinality(lost(b)))
           v(i) == IF i \in recovered(b) THEN decode(b, R, i) ELSE b.data[i]
<1>3. ASSUME NEW i \in 0 .. n - 1 PROVE v(i) \in Slot \cup {Garbage}
  <2>1. decode(b, R, i) \in Payload \cup {Garbage}
    BY DecodeType DEF SoundOf
  <2> QED BY <2>1, <1>1 DEF Slot
<1>4. [i \in 0 .. n - 1 |-> v(i)] \in [0 .. n - 1 -> Slot \cup {Garbage}] BY <1>3
<1>5. extract_closed(g, b) =
        [gen |-> g, N |-> n, K |-> k, len |-> b.len,
         data |-> [i \in 0 .. n - 1 |-> v(i)], rec |-> recovered(b)]
  BY <1>1 DEF extract_closed
<1> QED BY <1>1, <1>2, <1>4, <1>5 DEF ClosedOf

(* Closing a sound block changes no payload that arrived.                  *)
LEMMA ExtractKeeps ==
  ASSUME NEW n \in Nat, NEW k \in Nat, NEW b, SoundOf(b, n, k), NEW g \in Gens
  PROVE  LET c == extract_closed(g, b)
             arrived == {i \in 0 .. b.N - 1 : b.data[i] # Missing}
         IN /\ c.gen = g
            /\ \A i \in arrived : c.data[i] = b.data[i]
            /\ c.rec \in {{}, (0 .. b.N - 1) \ arrived}
            /\ \A i \in (0 .. b.N - 1) \ arrived : c.data[i] = Missing <=> i \notin c.rec
<1> DEFINE arrived == {i \in 0 .. n - 1 : b.data[i] # Missing}
           R == first_rows(b, Cardinality(lost(b)))
           c == extract_closed(g, b)
<1>1. b.N = n BY DEF SoundOf, BlockOf
<1>2. lost(b) = (0 .. n - 1) \ arrived /\ recovered(b) \in {{}, lost(b)}
  BY LostIsMissing
<1>3. \A i \in 0 .. n - 1 :
        c.data[i] = IF i \in recovered(b) THEN decode(b, R, i) ELSE b.data[i]
  BY <1>1 DEF extract_closed
<1>4. c.gen = g /\ c.rec = recovered(b) BY DEF extract_closed
<1>5. \A i \in 0 .. n - 1 : decode(b, R, i) # Missing
  BY DecodeType, TokenAssumption DEF SoundOf
<1> HIDE DEF c, R
<1> QED BY <1>1, <1>2, <1>3, <1>4, <1>5 DEF c

-----------------------------------------------------------------------------
(* The inductive invariant.                                                *)
IInv ==
  /\ now \in Nat
  /\ DOMAIN blocks = Gens
  /\ \A g \in Open : Sound(blocks[g])
  /\ out # NoBlock => IsClosed(out)

LEMMA InitIInv == Init => IInv
BY DEF Init, IInv, Open

LEMMA NextIInv == IInv /\ [Next]_vars => IInv'
<1> SUFFICES ASSUME IInv, [Next]_vars PROVE IInv' OBVIOUS
<1> USE DEF IInv
<1>1. ASSUME NEW f \in Frames, Ingest(f) PROVE IInv'
  <2>1. f.gen \in Gens BY FrameFields
  <2>2. Sound(ingest(find_or_emplace(f), now, f))
    BY <1>1, <2>1, IngestedSound DEF Ingest, Open
  <2>3. \A g \in Gens : blocks'[g] = IF g = f.gen THEN ingest(find_or_emplace(f), now, f)
                                                 ELSE blocks[g]
    BY <1>1 DEF Ingest
  <2>4. \A g \in Open' : Sound(blocks'[g]) BY <2>2, <2>3 DEF Open
  <2> QED BY <1>1, <2>4 DEF Ingest
<1>2. ASSUME NEW f \in Frames, IngestRefused(f) PROVE IInv'
  BY <1>2 DEF IngestRefused, Open
<1>3. ASSUME NEW g \in Gens, close_if_ready(g) PROVE IInv'
  <2>1. PICK n \in Ns, k \in Ks : SoundOf(blocks[g], n, k)
    BY <1>3 DEF close_if_ready, Due, Sound
  <2>2. out' \in ClosedOf(n, k) BY <1>3, <2>1, ExtractType, ShapesAreNat DEF close_if_ready
  <2>3. IsClosed(out') BY <2>2 DEF IsClosed
  <2>4. \A h \in Open' : h \in Open /\ blocks'[h] = blocks[h]
    BY <1>3 DEF close_if_ready, Open
  <2> QED BY <1>3, <2>3, <2>4 DEF close_if_ready
<1>4. ASSUME NEW d \in Ticks, Tick(d) PROVE IInv'
  BY <1>4, ClockAssumption DEF Tick, Open
<1>5. CASE UNCHANGED vars BY <1>5 DEF vars, Open
<1> QED BY <1>1, <1>2, <1>3, <1>4, <1>5 DEF Next

THEOREM Invariance == Spec => []IInv
BY InitIInv, NextIInv, PTL DEF Spec

LEMMA IInvImplies == IInv => TypeOK /\ OneSizePerBlock /\ TrackersAgree
<1>1. \A b : Sound(b) => IsBlock(b) /\ OneSize(b) /\ Agrees(b)
  BY DEF Sound, SoundOf, IsBlock
<1> QED BY <1>1 DEF IInv, TypeOK, OneSizePerBlock, TrackersAgree

(* Entries are blocks of the shape their first frame announced, whatever   *)
(* frames follow; results have the shape of the block they came from.      *)
THEOREM TypeCorrect == Spec => []TypeOK
BY Invariance, IInvImplies, PTL

(* The buffers the decoders read all have the length they read.            *)
THEOREM OneSizeSafe == Spec => []OneSizePerBlock
BY Invariance, IInvImplies, PTL

(* Vectors, BlockState and BlockTracker never disagree on what arrived.    *)
THEOREM TrackersSafe == Spec => []TrackersAgree
BY Invariance, IInvImplies, PTL

-----------------------------------------------------------------------------
(* A frame neither restarts the clock of a sound block nor takes anything  *)
(* away from what has arrived.                                             *)
LEMMA IngestGrows ==
  ASSUME NEW f \in Frames, NEW t,
         NEW n \in Nat, NEW k \in Nat, NEW b, SoundOf(b, n, k)
  PROVE  LET c == ingest(b, t, f)
         IN /\ c.N = b.N /\ c.started /\ c.start = b.start
            /\ b.trData \subseteq c.trData
            /\ b.trParity => c.trParity
<1>1. start(b, t) = b BY StartSound DEF SoundOf
<1>2. /\ b.started /\ b.N = n
      /\ b \in BlockOf(n, k)
  BY DEF SoundOf, Agrees, BlockOf
<1>3. \A i, p : LET c == put_data(b, i, p)
                IN /\ c.N = b.N /\ c.started /\ c.start = b.start
                   /\ b.trData \subseteq c.trData /\ c.trParity = b.trParity
  BY <1>2 DEF put_data, BlockOf
<1>4. \A j, p : LET c == put_parity(b, j, p)
                IN /\ c.N = b.N /\ c.started /\ c.start = b.start
                   /\ c.trData = b.trData
                   /\ b.trParity => c.trParity
  BY <1>2 DEF put_parity, BlockOf
<1> QED BY <1>1, <1>3, <1>4 DEF ingest

LEMMA SpanType == \A n \in Nat : block_span_ms(n) \in Nat
<1> SUFFICES ASSUME NEW n \in Nat PROVE block_span_ms(n) \in Nat OBVIOUS
<1>1. CASE Fps = 0 BY <1>1 DEF block_span_ms
<1>2. CASE Fps # 0
  <2>1. Fps \in Nat /\ Fps > 0 BY <1>2, ConfigAssumption
  <2> DEFINE a == 1000 * n + (Fps - 1)
  <2>2. a \in Nat BY <2>1
  <2> HIDE DEF a
  <2>3. a \div Fps \in Nat BY <2>1, <2>2
  <2> QED BY <1>2, <2>3 DEF block_span_ms, a
<1> QED BY <1>1, <1>2

LEMMA MinMsType == \A n \in Nat : min_ms(n) \in Nat
BY SpanType DEF min_ms

LEMMA ShouldCloseMonotone ==
  ASSUME NEW n \in Nat, NEW k \in Nat, NEW b, SoundOf(b, n, k),
         NEW c, c.N = b.N, c.started, c.start = b.start,
         b.trData \subseteq c.trData, c.trData \subseteq 0 .. n - 1,
         b.trParity => c.trParity,
         NEW t \in Nat, NEW u \in Nat, t <= u, should_close(b, t)
  PROVE  should_close(c, u)
<1>1. b.N = n /\ b.start \in Nat BY DEF SoundOf, BlockOf
<1>2. CASE have_parity(b) /\ have_all_data(b)
  BY <1>1, <1>2 DEF should_close, have_parity, have_all_data
<1>3. age_ms(b, t) <= age_ms(c, u) /\ age_ms(b, t) \in Nat /\ age_ms(c, u) \in Nat
  BY <1>1 DEF age_ms, should_close
<1>4. ReorderMs \in Nat /\ min_ms(n) \in Nat BY ConfigAssumption, MinMsType
<1>5. CASE age_ms(b, t) >= ReorderMs \/ age_ms(b, t) >= min_ms(b.N)
  BY <1>1, <1>3, <1>4, <1>5 DEF should_close
<1> QED BY <1>2, <1>5 DEF should_close

DueStep == \A g \in Gens : Due(g) /\ blocks'[g] # NoBlock => should_close(blocks'[g], now')

LEMMA NextDue == IInv /\ [Next]_vars => [DueStep]_vars
<1> SUFFICES ASSUME IInv, Next, NEW g \in Gens, Due(g), blocks'[g] # NoBlock
             PROVE  should_close(blocks'[g], now')
  BY DEF DueStep
<1>1. PICK n \in Ns, k \in Ks : SoundOf(blocks[g], n, k) BY DEF IInv, Due, Sound
<1>2. n \in Nat /\ k \in Nat /\ now \in Nat /\ should_close(blocks[g], now)
  BY ShapesAreNat DEF IInv, Due
<1>3. ASSUME NEW f \in Frames, Ingest(f) PROVE should_close(blocks'[g], now')
  <2>1. CASE g # f.gen BY <1>2, <1>3, <2>1 DEF Ingest, IInv
  <2>2. CASE g = f.gen
    <3> DEFINE c == ingest(blocks[g], now, f)
    <3>1. blocks'[g] = c /\ now' = now
      BY <1>3, <2>2 DEF Ingest, IInv, find_or_emplace, Due, Open
    <3>2. blocks[g].len = f.pay.len BY <1>3, <2>2 DEF Ingest, accepts, Due, Open
    <3>3. SoundOf(c, n, k) BY <1>1, <1>2, <3>2, IngestSound
    <3>4. c.trData \subseteq 0 .. n - 1 BY <3>3 DEF SoundOf, BlockOf
    <3>5. /\ c.N = blocks[g].N /\ c.started /\ c.start = blocks[g].start
          /\ blocks[g].trData \subseteq c.trData
          /\ blocks[g].trParity => c.trParity
      BY <1>1, <1>2, IngestGrows
    <3> HIDE DEF c
    <3> QED BY <1>1, <1>2, <3>1, <3>4, <3>5, ShouldCloseMonotone
  <2> QED BY <2>1, <2>2
<1>4. ASSUME NEW f \in Frames, IngestRefused(f) PROVE should_close(blocks'[g], now')
  BY <1>2, <1>4 DEF IngestRefused
<1>5. ASSUME NEW h \in Gens, close_if_ready(h) PROVE should_close(blocks'[g], now')
  BY <1>2, <1>5 DEF close_if_ready, IInv
<1>6. ASSUME NEW d \in Ticks, Tick(d) PROVE should_close(blocks'[g], now')
  <2>1. now' \in Nat /\ now <= now' /\ blocks' = blocks
    BY <1>2, <1>6, ClockAssumption DEF Tick
  <2>2. /\ blocks[g].started /\ blocks[g].trData \subseteq 0 .. n - 1
    BY <1>1 DEF SoundOf, Agrees, BlockOf
  <2> QED BY <1>1, <1>2, <2>1, <2>2, ShouldCloseMonotone
<1> QED BY <1>3, <1>4, <1>5, <1>6 DEF Next

(* A block that is due stays due until it is closed: no frame and no tick  *)
(* of the clock takes the verdict of should_close back.                    *)
THEOREM DueIsStable == Spec => DueStaysDue
<1>1. IInv /\ [Next]_vars => [DueStep]_vars BY NextDue
<1> QED BY <1>1, Invariance, PTL DEF Spec, DueStaysDue, DueStep

-----------------------------------------------------------------------------
KeepStep ==
  \A g \in Open : blocks'[g] = NoBlock =>
    LET b == blocks[g]
        arrived == {i \in 0 .. b.N - 1 : b.data[i] # Missing}
    IN /\ out' # NoBlock
       /\ out'.gen = g
       /\ \A i \in arrived : out'.data[i] = b.data[i]
       /\ out'.rec \in {{}, (0 .. b.N - 1) \ arrived}
       /\ \A i \in (0 .. b.N - 1) \ arrived : out'.data[i] = Missing <=> i \notin out'.rec

LEMMA NextKeeps == IInv /\ [Next]_vars => [KeepStep]_vars
<1> SUFFICES ASSUME IInv, Next, NEW g \in Open, blocks'[g] = NoBlock
             PROVE  /\ close_if_ready(g)
                    /\ out' = extract_closed(g, blocks[g])
                    /\ out' # NoBlock
                    /\ \E n \in Nat, k \in Nat : SoundOf(blocks[g], n, k)
  <2>1. ASSUME NEW g \in Open, NEW n \in Nat, NEW k \in Nat, SoundOf(blocks[g], n, k),
               out' = extract_closed(g, blocks[g]), out' # NoBlock
        PROVE  LET b == blocks[g]
                   arrived == {i \in 0 .. b.N - 1 : b.data[i] # Missing}
               IN /\ out' # NoBlock
                  /\ out'.gen = g
                  /\ \A i \in arrived : out'.data[i] = b.data[i]
                  /\ out'.rec \in {{}, (0 .. b.N - 1) \ arrived}
                  /\ \A i \in (0 .. b.N - 1) \ arrived : out'.data[i] = Missing <=> i \notin out'.rec
    BY <2>1, ExtractKeeps DEF Open
  <2> QED BY <2>1 DEF KeepStep
<1>1. g \in Gens /\ blocks[g] # NoBlock BY DEF Open
<1>2. PICK n \in Ns, k \in Ks : SoundOf(blocks[g], n, k) BY DEF IInv, Sound
<1>3. close_if_ready(g)
  <2>1. ASSUME NEW f \in Frames, Ingest(f) PROVE FALSE
    <3>1. Sound(ingest(find_or_emplace(f), now, f))
      BY <2>1, FrameFields, IngestedSound DEF Ingest, IInv, Open
    <3> QED BY <1>1, <2>1, <3>1, SoundIsBlock DEF Ingest, IInv
  <2>2. ASSUME NEW f \in Frames, IngestRefused(f) PROVE FALSE
    BY <1>1, <2>2 DEF IngestRefused
  <2>3. ASSUME NEW d \in Ticks, Tick(d) PROVE FALSE BY <1>1, <2>3 DEF Tick
  <2>4. ASSUME NEW h \in Gens, close_if_ready(h) PROVE h = g
    BY <1>1, <2>4 DEF close_if_ready, IInv
  <2> QED BY <2>1, <2>2, <2>3, <2>4 DEF Next
<1>4. out' = extract_closed(g, blocks[g]) BY <1>3 DEF close_if_ready
<1>5. out' # NoBlock
  BY <1>1, <1>2, <1>4, ExtractType, ShapesAreNat, NoBlockAssumption
<1> QED BY <1>2, <1>3, <1>4, <1>5, ShapesAreNat

(* Closing hands over every payload that arrived unchanged, marks none of  *)
(* them recovered, and fills all the holes of a block or none.             *)
THEOREM ClosingKeepsArrived == Spec => CloseKeepsArrived
<1>1. IInv /\ [Next]_vars => [KeepStep]_vars BY NextKeeps
<1> QED BY <1>1, Invariance, PTL DEF Spec, CloseKeepsArrived, KeepStep
=============================================================================
