-------------------------- MODULE RxDelivery_proofs --------------------------
(***************************************************************************)
(* What the table hands over, for every configuration, shape and length    *)
(* that fec_sender admits, any loss, repetition and order of frames, and   *)
(* anything at all under the ids that are not honest: nothing but the      *)
(* bytes that were sent, whichever systems solve_gf256 fails to solve; and *)
(* all of them from any N frames (the promise of BlockDelivery) when K <= 3*)
(* or N <= 21.  With K = 4 and more frames the code breaks that promise.   *)
(*                                                                         *)
(* A block of an honest generation holds nothing but its sender's payloads *)
(* at their positions (HonestOf).  What closing makes of such a block is a *)
(* matter of counting: recovery is of every hole or none, and only with N  *)
(* frames (RecoversAllOrNone), a row for every hole (Counted); the first m *)
(* rows are m rows (Smallest), and rows and payloads name the one origin   *)
(* that decoding needs (HonestDecode).  Where the systems are solvable the *)
(* decoders' guards let recovery happen (RecoversEnough).  DInv carries    *)
(* HonestOf through the table's actions (HonestStep); the refinement maps  *)
(* ingest to Arrive, closing to Deliver, and other generations to          *)
(* Elsewhere.                                                              *)
(***************************************************************************)
EXTENDS RxDelivery, RxBlockTable_proofs

(* What b holds comes from g's sender, each payload at its position.       *)
HonestOf(g, b) ==
  /\ b.N = TxN[g] /\ b.K = TxK[g] /\ b.len = TxLen[g]
  /\ \A i \in 0 .. TxN[g] - 1 : b.data[i] \in {Missing, payload(g, i)}
  /\ \A j \in 0 .. TxK[g] - 1 : b.parity[j] \in {Missing, payload(g, TxN[g] + j)}

-----------------------------------------------------------------------------
(* The frames of an honest generation.                                     *)
LEMMA HonestRanges ==
  ASSUME NEW g \in Honest
  PROVE  /\ g \in Gens /\ OriginOf[g] \in Origins
         /\ TxN[g] \in 1 .. 255 /\ TxK[g] \in 0 .. 4 /\ TxLen[g] \in Nat
BY SenderAssumption

LEMMA PositionRange ==
  ASSUME NEW g \in Honest, NEW p \in Position(g)
  PROVE  /\ p \in Nat /\ TxN[g] \in Nat /\ TxK[g] \in Nat
         /\ p < TxN[g] + TxK[g] /\ p <= 259
         /\ p \in 0 .. TxN[g] + TxK[g] - 1
<1>1. PICK n \in 1 .. 255, k \in 0 .. 4 : TxN[g] = n /\ TxK[g] = k BY HonestRanges
<1>2. p \in 0 .. n + k - 1 BY <1>1 DEF Position
<1> QED BY <1>1, <1>2

LEMMA FrameShape ==
  ASSUME NEW g \in Honest, NEW p \in Position(g)
  PROVE  /\ frame(g, p).gen = g /\ frame(g, p).seq = p
         /\ frame(g, p).n = TxN[g] /\ frame(g, p).k = TxK[g]
         /\ p >= TxN[g] => frame(g, p).pidx = p - TxN[g]
         /\ frame(g, p).pay = payload(g, p)
         /\ payload(g, p) = [origin |-> OriginOf[g], pos |-> p, len |-> TxLen[g]]
<1>1. /\ p \in Nat /\ TxN[g] \in Nat /\ p < TxN[g] + TxK[g] /\ p <= 259
      /\ p \in 0 .. TxN[g] + TxK[g] - 1
  BY PositionRange
<1>2. frame(g, p) = out_frame(OriginOf[g], g, TxN[g], TxK[g], TxLen[g], p)
  BY <1>1 DEF frame, assemble_block
<1>3. CASE p < TxN[g]
  BY <1>1, <1>2, <1>3 DEF out_frame, data_frame, payload
<1>4. CASE ~(p < TxN[g])
  <2>1. /\ p - TxN[g] \in 0 .. 4 /\ TxN[g] + (p - TxN[g]) = p
    BY <1>1, <1>4, HonestRanges
  <2>2. p % 65536 = p /\ (p - TxN[g]) % 256 = p - TxN[g]
    BY <1>1, <2>1
  <2> QED BY <1>2, <1>4, <2>1, <2>2 DEF out_frame, parity_frame, payload
<1> QED BY <1>3, <1>4

LEMMA HonestFrame ==
  ASSUME NEW f \in Frames, f.gen \in Honest
  PROVE  \E p \in Position(f.gen) : f = frame(f.gen, p)
<1> DEFINE sent(g) == {frame(g, p) : p \in Position(g)}
<1>1. f \in UNION {sent(g) : g \in Honest}
  BY TrafficAssumption
<1> HIDE DEF sent
<1>2. PICK g \in Honest : f \in sent(g) BY <1>1
<1>3. PICK p \in Position(g) : f = frame(g, p) BY <1>2 DEF sent
<1> QED BY <1>3, FrameShape

-----------------------------------------------------------------------------
(* A frame of g's sender that goes to a block of its payloads, or to a new *)
(* one, adds its position to it.                                           *)
LEMMA HonestIngest ==
  ASSUME NEW g \in Honest, NEW p \in Position(g), NEW t \in Nat,
         NEW b, HonestOf(g, b), b.started => Agrees(b),
         b \in BlockOf(TxN[g], TxK[g])
  PROVE  LET c == ingest(b, t, frame(g, p))
             s == start(b, t)
         IN /\ HonestOf(g, c)
            /\ c.start = s.start /\ c.started
            /\ c.stData \cup {c.N + j : j \in c.stParity} =
                 s.stData \cup {s.N + j : j \in s.stParity} \cup {p}
<1> DEFINE s == start(b, t)
           f == frame(g, p)
           c == ingest(b, t, f)
<1>1. /\ f.seq = p /\ f.n = TxN[g] /\ f.pay = payload(g, p)
      /\ p >= TxN[g] => f.pidx = p - TxN[g]
  BY FrameShape
<1>2. /\ p \in Nat /\ TxN[g] \in Nat /\ TxK[g] \in Nat /\ p < TxN[g] + TxK[g]
  BY PositionRange
<1>3. HonestOf(g, s) /\ s.started /\ s \in BlockOf(TxN[g], TxK[g])
  BY DEF start, HonestOf, BlockOf
<1>4. CASE p < TxN[g]
  <2>1. c = put_data(s, p, payload(g, p))
    BY <1>1, <1>2, <1>4 DEF ingest, is_parity_frame
  <2>2. /\ c.N = s.N /\ c.K = s.K /\ c.len = s.len /\ c.start = s.start /\ c.started
        /\ c.data = [s.data EXCEPT ![p] = payload(g, p)] /\ c.parity = s.parity
        /\ c.stData = s.stData \cup {p} /\ c.stParity = s.stParity
    BY <1>2, <1>3, <1>4, <2>1 DEF put_data, HonestOf, BlockOf
  <2>3. HonestOf(g, c) BY <1>2, <1>3, <1>4, <2>2 DEF HonestOf, BlockOf
  <2> HIDE DEF c, s
  <2> QED BY <2>2, <2>3 DEF c, s
<1>5. CASE p >= TxN[g]
  <2> DEFINE j == p - TxN[g]
  <2>0. j \in 0 .. TxK[g] - 1 /\ j \in Nat /\ TxN[g] + j = p BY <1>2, <1>5
  <2>1. c = put_parity(s, j, payload(g, p))
    BY <1>1, <1>2, <1>5 DEF ingest, is_parity_frame
  <2>6. j < s.K /\ s.K \in Nat BY <1>2, <1>3, <2>0 DEF HonestOf
  <2> HIDE DEF c, s, j
  <2>2. /\ c.N = s.N /\ c.K = s.K /\ c.len = s.len /\ c.start = s.start /\ c.started
        /\ c.parity = [s.parity EXCEPT ![j] = payload(g, p)] /\ c.data = s.data
        /\ c.stParity = s.stParity \cup {j} /\ c.stData = s.stData
    BY <1>3, <2>6, <2>1 DEF put_parity, BlockOf
  <2>3. HonestOf(g, c)
    <3>1. s.parity \in [0 .. TxK[g] - 1 -> Slot] BY <1>3 DEF BlockOf
    <3>2. \A i \in 0 .. TxK[g] - 1 :
            c.parity[i] = IF i = j THEN payload(g, TxN[g] + i) ELSE s.parity[i]
      BY <2>0, <2>2, <3>1
    <3> QED BY <1>3, <2>2, <3>2 DEF HonestOf
  <2>4. s.N = TxN[g] BY <1>3 DEF HonestOf
  <2>5. {c.N + i : i \in c.stParity} = {s.N + i : i \in s.stParity} \cup {p}
    BY <2>0, <2>2, <2>4
  <2> QED BY <2>2, <2>3, <2>5 DEF c, s
<1> QED BY <1>2, <1>4, <1>5

-----------------------------------------------------------------------------
(* What is missing and what can replace it, counted.                       *)
Enough(b) == Cardinality(b.stData) + Cardinality(b.stParity) >= b.N

LEMMA PayloadType ==
  ASSUME NEW g \in Honest, NEW p \in Position(g)
  PROVE  /\ payload(g, p) \in Payload /\ payload(g, p) # Missing
         /\ payload(g, p).origin = OriginOf[g] /\ payload(g, p).pos = p
         /\ payload(g, p).len = TxLen[g]
<1>1. payload(g, p) = [origin |-> OriginOf[g], pos |-> p, len |-> TxLen[g]]
  BY FrameShape
<1>2. payload(g, p) \in Payload
  BY <1>1, HonestRanges, PositionRange DEF Payload
<1> QED BY <1>1, <1>2, TokenAssumption

LEMMA HonestBlock ==
  ASSUME NEW g \in Honest, NEW b, HonestOf(g, b), Sound(b)
  PROVE  /\ b \in BlockOf(TxN[g], TxK[g]) /\ OneSize(b) /\ Agrees(b)
         /\ b.stData \subseteq 0 .. TxN[g] - 1 /\ b.stParity \subseteq 0 .. TxK[g] - 1
         /\ lost(b) = (0 .. TxN[g] - 1) \ b.stData
         /\ rows(b) = b.stParity
<1>1. PICK n \in Ns, k \in Ks : SoundOf(b, n, k) BY DEF Sound
<1>2. b.N = n /\ b.K = k BY <1>1 DEF SoundOf, BlockOf
<1>3. n = TxN[g] /\ k = TxK[g] BY <1>2 DEF HonestOf
<1>4. SoundOf(b, TxN[g], TxK[g]) /\ TxN[g] \in Nat /\ TxK[g] \in Nat
  BY <1>1, <1>3, HonestRanges
<1>5. b \in BlockOf(TxN[g], TxK[g]) /\ OneSize(b) /\ Agrees(b) /\ b.N = TxN[g] /\ b.K = TxK[g]
  BY <1>4, <1>2, <1>3 DEF SoundOf
<1>6. lost(b) = {i \in 0 .. TxN[g] - 1 : b.data[i] = Missing} BY <1>4, LostIsMissing
<1>7. b.stData = {i \in 0 .. TxN[g] - 1 : b.data[i] # Missing} BY <1>5 DEF Agrees
<1>8. b.stParity = {j \in 0 .. TxK[g] - 1 : b.parity[j] # Missing} BY <1>5 DEF Agrees
<1>9. rows(b) = b.stParity BY <1>5, <1>8 DEF rows, full, OneSize
<1> QED BY <1>5, <1>6, <1>7, <1>8, <1>9

LEMMA Counted ==
  ASSUME NEW g \in Honest, NEW b, HonestOf(g, b), Sound(b)
  PROVE  /\ IsFiniteSet(b.stData) /\ IsFiniteSet(b.stParity) /\ IsFiniteSet(lost(b))
         /\ Cardinality(b.stData) \in Nat /\ Cardinality(b.stParity) \in Nat
         /\ Cardinality(lost(b)) \in Nat
         /\ Cardinality(lost(b)) = TxN[g] - Cardinality(b.stData)
         /\ Cardinality(b.stParity) <= TxK[g]
         /\ Cardinality(lost(b)) = 0 <=> lost(b) = {}
         /\ Enough(b) <=> Cardinality(rows(b)) >= Cardinality(lost(b))
<1> DEFINE D == 0 .. TxN[g] - 1
           P == 0 .. TxK[g] - 1
<1>1. PICK n \in 1 .. 255, k \in 0 .. 4 : TxN[g] = n /\ TxK[g] = k BY HonestRanges
<1>2. IsFiniteSet(D) /\ Cardinality(D) = n
  <2>1. 0 \in Int /\ n - 1 \in Int /\ ~(0 > n - 1) /\ (n - 1) - 0 + 1 = n OBVIOUS
  <2> QED BY <1>1, <2>1, FS_Interval
<1>3. IsFiniteSet(P) /\ Cardinality(P) = k
  <2>1. 0 \in Int /\ k - 1 \in Int /\ (0 > k - 1 <=> k = 0) /\ (k - 1) - 0 + 1 = k OBVIOUS
  <2> QED BY <1>1, <2>1, FS_Interval
<1>4. b.stData \in SUBSET D /\ b.stParity \in SUBSET P /\ lost(b) \in SUBSET D
  BY HonestBlock
<1> HIDE DEF D, P
<1>5. /\ IsFiniteSet(b.stData) /\ IsFiniteSet(b.stParity) /\ IsFiniteSet(lost(b))
      /\ Cardinality(b.stParity) <= k
  BY <1>2, <1>3, <1>4, FS_Subset
<1>6. /\ Cardinality(b.stData) \in Nat /\ Cardinality(b.stParity) \in Nat
      /\ Cardinality(lost(b)) \in Nat
  BY <1>5, FS_CardinalityType
<1>7. Cardinality(lost(b)) = n - Cardinality(b.stData)
  <2>1. lost(b) \cup b.stData = D /\ lost(b) \cap b.stData = {}
    BY <1>4, HonestBlock DEF D
  <2>2. Cardinality(D) = Cardinality(lost(b)) + Cardinality(b.stData) - Cardinality({})
    BY <1>5, <2>1, FS_Union
  <2>3. Cardinality({}) = 0 BY FS_EmptySet
  <2> QED BY <1>2, <1>6, <2>2, <2>3
<1>8. Cardinality(lost(b)) = 0 <=> lost(b) = {} BY <1>5, FS_EmptySet
<1>9. rows(b) = b.stParity /\ b.N = n BY <1>1, HonestBlock DEF HonestOf
<1>10. Enough(b) <=> Cardinality(rows(b)) >= Cardinality(lost(b))
  BY <1>6, <1>7, <1>9 DEF Enough
<1> QED BY <1>1, <1>5, <1>6, <1>7, <1>8, <1>10

(* Recovery fills every hole or none, and happens only when N frames came. *)
LEMMA RecoversAllOrNone ==
  ASSUME NEW g \in Honest, NEW b, HonestOf(g, b), Sound(b)
  PROVE  recovered(b) = {} \/ (recovered(b) = lost(b) /\ Enough(b))
<1>1. (Enough(b) <=> Cardinality(rows(b)) >= Cardinality(lost(b))) /\ IsFiniteSet(rows(b))
  BY Counted, HonestBlock
<1>2. CASE xor_recovers(b)
  <2>1. 0 \in rows(b) /\ Cardinality(lost(b)) = 1 BY <1>2 DEF xor_recovers
  <2>2. Cardinality({0}) <= Cardinality(rows(b)) /\ Cardinality(rows(b)) \in Nat
    BY <1>1, <2>1, FS_Subset, FS_CardinalityType
  <2>3. Cardinality({0}) = 1 BY FS_Singleton
  <2>4. Enough(b) BY <1>1, <2>1, <2>2, <2>3
  <2> QED BY <1>2, <2>4 DEF recovered
<1>3. CASE gf256_recovers(b)
  <2>1. Enough(b) BY <1>1, <1>3 DEF gf256_recovers
  <2> QED BY <1>3, <2>1 DEF recovered
<1> QED BY <1>2, <1>3 DEF recovered

(* solve_gf256 meets a pivot in every column of every system of the shape. *)
Solvable(g) ==
  \A s \in Singular : ~(s[1] \subseteq 0 .. TxK[g] - 1 /\ s[2] \subseteq 0 .. TxN[g] - 1)

(* Then recovery happens whenever N frames came: the guards of the two     *)
(* decoders exclude nothing that can be recovered, for K <= 4.             *)
LEMMA RecoversEnough ==
  ASSUME NEW g \in Honest, NEW b, HonestOf(g, b), Sound(b), Solvable(g)
  PROVE  recovered(b) = IF Enough(b) THEN lost(b) ELSE {}
<1> DEFINE m == Cardinality(lost(b))
           r == Cardinality(rows(b))
<1>1. PICK n \in 1 .. 255, k \in 0 .. 4 : TxN[g] = n /\ TxK[g] = k BY HonestRanges
<1>2. b.N = n /\ b.K = k /\ rows(b) = b.stParity BY <1>1, HonestBlock DEF HonestOf
<1>3. /\ m \in Nat /\ r \in Nat /\ r <= k /\ m = n - Cardinality(b.stData)
      /\ (m = 0 <=> lost(b) = {}) /\ (Enough(b) <=> r >= m)
  BY <1>1, <1>2, Counted
<1>4. rows(b) \subseteq 0 .. k - 1 BY <1>1, HonestBlock
<1> HIDE DEF m, r
<1>5. CASE m = 0 BY <1>3, <1>5 DEF recovered
<1>6. CASE m # 0 /\ k = 0
  <2>1. ~Enough(b) BY <1>3, <1>6
  <2>2. ~xor_recovers(b) BY <1>2, <1>6 DEF xor_recovers, recoverable_k1
  <2>3. ~gf256_recovers(b) BY <1>2, <1>6 DEF gf256_recovers
  <2> QED BY <2>1, <2>2, <2>3 DEF recovered
<1>7. CASE m # 0 /\ k = 1
  <2>1. ~gf256_recovers(b) BY <1>2, <1>7 DEF gf256_recovers
  <2>2. rows(b) = {} \/ rows(b) = {0} BY <1>4, <1>7
  <2>3. Cardinality({}) = 0 /\ Cardinality({0}) = 1 BY FS_EmptySet, FS_Singleton
  <2>4. r = IF 0 \in rows(b) THEN 1 ELSE 0 BY <2>2, <2>3 DEF r
  <2>5. xor_recovers(b) <=> m = 1 /\ 0 \in rows(b)
    BY <1>2, <1>3, <1>7, <2>2 DEF xor_recovers, recoverable_k1, m
  <2>6. Enough(b) <=> m = 1 /\ 0 \in rows(b) BY <1>3, <1>7, <2>4
  <2> QED BY <2>1, <2>5, <2>6 DEF recovered
<1>8. CASE m # 0 /\ k >= 2
  <2>1. ~xor_recovers(b) BY <1>2, <1>8 DEF xor_recovers, recoverable_k1
  <2>2. <<first_rows(b, m), lost(b)>> \notin Singular
    <3>1. first_rows(b, m) \subseteq 0 .. TxK[g] - 1 BY <1>1, <1>4 DEF first_rows
    <3>2. lost(b) \subseteq 0 .. TxN[g] - 1 BY HonestBlock
    <3> QED BY <3>1, <3>2 DEF Solvable
  <2>3. gf256_recovers(b) <=> r >= m
    BY <1>2, <1>3, <1>8, <2>2 DEF gf256_recovers, m, r
  <2> QED BY <1>3, <2>1, <2>3 DEF recovered
<1> QED BY <1>1, <1>5, <1>6, <1>7, <1>8

-----------------------------------------------------------------------------
(* With N frames of g's sender, what decoding writes into a hole is what   *)
(* the sender put there: the equations name one origin, and there are rows *)
(* enough.                                                                 *)
LEMMA HonestConsistent ==
  ASSUME NEW g \in Honest, NEW b, HonestOf(g, b), Sound(b), NEW R \in SUBSET rows(b)
  PROVE  consistent(b, R, OriginOf[g])
<1>1. /\ b \in BlockOf(TxN[g], TxK[g]) /\ b.N = TxN[g] /\ b.K = TxK[g]
      /\ b.stParity \subseteq 0 .. TxK[g] - 1 /\ rows(b) = b.stParity
      /\ lost(b) = (0 .. TxN[g] - 1) \ b.stData /\ Agrees(b)
  BY HonestBlock DEF HonestOf
<1>2. PICK n \in 1 .. 255, k \in 0 .. 4 : TxN[g] = n /\ TxK[g] = k BY HonestRanges
<1>3. ASSUME NEW i \in (0 .. b.N - 1) \ lost(b)
      PROVE  b.data[i].origin = OriginOf[g] /\ b.data[i].pos = i
  <2>1. i \in 0 .. n - 1 /\ i \in b.stData BY <1>1, <1>2
  <2>2. b.data[i] = payload(g, i) BY <1>1, <1>2, <2>1 DEF Agrees, HonestOf
  <2>3. i \in Position(g) BY <1>2, <2>1 DEF Position
  <2> QED BY <2>2, <2>3, PayloadType
<1>4. ASSUME NEW j \in R
      PROVE  b.parity[j].origin = OriginOf[g] /\ b.parity[j].pos = b.N + j
  <2>1. j \in 0 .. k - 1 /\ j \in b.stParity BY <1>1, <1>2
  <2>2. b.parity[j] = payload(g, n + j) BY <1>1, <1>2, <2>1 DEF Agrees, HonestOf
  <2>3. n + j \in Position(g) BY <1>2, <2>1 DEF Position
  <2> QED BY <1>1, <1>2, <2>2, <2>3, PayloadType
<1> QED BY <1>3, <1>4 DEF consistent

LEMMA HonestDecode ==
  ASSUME NEW g \in Honest, NEW b, HonestOf(g, b), Sound(b), Enough(b), NEW i \in lost(b)
  PROVE  decode(b, first_rows(b, Cardinality(lost(b))), i) = payload(g, i)
<1> DEFINE m == Cardinality(lost(b))
           R == first_rows(b, m)
           o == CHOOSE p \in Origins : consistent(b, R, p)
<1>1. /\ IsFiniteSet(rows(b)) /\ rows(b) \in SUBSET Nat /\ m \in Nat /\ m # 0
      /\ m <= Cardinality(rows(b)) /\ Cardinality(rows(b)) \in Nat
  <2>1. rows(b) = b.stParity /\ b.stParity \subseteq 0 .. TxK[g] - 1 BY HonestBlock
  <2> QED BY <2>1, Counted
<1>2. R \in SUBSET rows(b) BY DEF first_rows
<1>3. Cardinality(R) >= m
  <2> HIDE DEF m
  <2>1. R = {j \in rows(b) : Cardinality({h \in rows(b) : h < j}) < m} BY DEF first_rows
  <2> QED BY <1>1, <2>1, Smallest
<1>4. consistent(b, R, OriginOf[g]) /\ OriginOf[g] \in Origins
  BY <1>2, HonestConsistent, HonestRanges
<1>5. o \in Origins /\ consistent(b, R, o) BY <1>4
<1>6. PICK j \in R : TRUE
  <2>1. Cardinality({}) = 0 BY FS_EmptySet
  <2>2. R # {}
    <3> SUFFICES ASSUME R = {} PROVE FALSE OBVIOUS
    <3> HIDE DEF R, m
    <3> QED BY <1>1, <1>3, <2>1
  <2> QED BY <2>2
<1>7. o = OriginOf[g]
  <2> HIDE DEF o, R
  <2> QED BY <1>4, <1>5, <1>6 DEF consistent
<1>8. decode(b, R, i) = [origin |-> o, pos |-> i, len |-> b.len]
  <2> HIDE DEF R
  <2>1. \E p \in Origins : consistent(b, R, p) BY <1>4
  <2> QED BY <1>3, <2>1 DEF decode
<1>9. payload(g, i) = [origin |-> OriginOf[g], pos |-> i, len |-> TxLen[g]]
  <2>1. PICK n \in 1 .. 255, k \in 0 .. 4 : TxN[g] = n /\ TxK[g] = k BY HonestRanges
  <2>2. i \in 0 .. n - 1 BY <2>1, HonestBlock
  <2>3. i \in Position(g) BY <2>1, <2>2 DEF Position
  <2> QED BY <2>3, FrameShape
<1>10. b.len = TxLen[g] BY DEF HonestOf
<1> QED BY <1>7, <1>8, <1>9, <1>10

(* Closing a block of g's sender: what came and what was recovered, each   *)
(* payload where its sender put it.                                        *)
LEMMA HonestExtract ==
  ASSUME NEW g \in Honest, NEW b, HonestOf(g, b), Sound(b)
  PROVE  LET c == extract_closed(g, b)
         IN /\ c.gen = g /\ c.N = TxN[g]
            /\ c.data = [i \in 0 .. TxN[g] - 1 |->
                           IF i \in b.stData \cup recovered(b) THEN payload(g, i) ELSE Missing]
            /\ c.rec = recovered(b)
<1> DEFINE R == first_rows(b, Cardinality(lost(b)))
           c == extract_closed(g, b)
           v(i) == IF i \in recovered(b) THEN decode(b, R, i) ELSE b.data[i]
           w(i) == IF i \in b.stData \cup recovered(b) THEN payload(g, i) ELSE Missing
<1>1. /\ b.N = TxN[g] /\ Agrees(b) /\ b.stData \subseteq 0 .. TxN[g] - 1
      /\ lost(b) = (0 .. TxN[g] - 1) \ b.stData
  BY HonestBlock DEF HonestOf
<1>2. recovered(b) = {} \/ (recovered(b) = lost(b) /\ Enough(b)) BY RecoversAllOrNone
<1>3. c.gen = g /\ c.N = TxN[g] /\ c.rec = recovered(b)
      /\ c.data = [i \in 0 .. TxN[g] - 1 |-> v(i)]
  BY <1>1 DEF extract_closed
<1>4. ASSUME NEW i \in 0 .. TxN[g] - 1 PROVE v(i) = w(i)
  <2>1. i \in b.stData => b.data[i] = payload(g, i)
    BY <1>1 DEF Agrees, HonestOf
  <2>2. i \notin b.stData => b.data[i] = Missing BY <1>1 DEF Agrees
  <2>3. i \in recovered(b) => decode(b, R, i) = payload(g, i)
    BY <1>2, HonestDecode
  <2> QED BY <1>1, <1>2, <2>1, <2>2, <2>3
<1> HIDE DEF c, v, w
<1>5. c.data = [i \in 0 .. TxN[g] - 1 |-> w(i)] BY <1>3, <1>4
<1> QED BY <1>3, <1>5 DEF c, w

(* Where the systems are solvable that is all of it from N frames, else    *)
(* what came.                                                              *)
Restored(g, b) == IF Enough(b) THEN 0 .. TxN[g] - 1 ELSE b.stData

LEMMA RestoredIsRecovered ==
  ASSUME NEW g \in Honest, NEW b, HonestOf(g, b), Sound(b), Solvable(g)
  PROVE  /\ Restored(g, b) = b.stData \cup recovered(b)
         /\ recovered(b) = Restored(g, b) \ b.stData
<1>1. lost(b) = (0 .. TxN[g] - 1) \ b.stData /\ b.stData \subseteq 0 .. TxN[g] - 1
  BY HonestBlock
<1>2. recovered(b) = IF Enough(b) THEN lost(b) ELSE {} BY RecoversEnough
<1> QED BY <1>1, <1>2 DEF Restored

-----------------------------------------------------------------------------
(* The inductive invariant: the table's own, and open blocks of honest     *)
(* generations hold only what their sender sent, and something of it.      *)
HonestOpen ==
  \A g \in Honest \cap Open :
    HonestOf(g, blocks[g]) /\ positions(blocks[g]) # {} /\ blocks[g].start <= now

DInv == IInv /\ HonestOpen /\ Integrity

(* The new block of a frame.                                               *)
LEMMA NewHonest ==
  ASSUME NEW g \in Honest, NEW p \in Position(g), frame(g, p) \in Frames, accepts(frame(g, p))
  PROVE  LET b == RxBlock(frame(g, p))
         IN /\ HonestOf(g, b) /\ ~b.started /\ b \in BlockOf(TxN[g], TxK[g])
            /\ b.stData = {} /\ b.stParity = {}
<1> DEFINE f == frame(g, p)
<1>1. /\ f.n = TxN[g] /\ f.k = TxK[g] /\ f.pay.len = TxLen[g]
  BY FrameShape, PayloadType
<1>2. RxBlock(f) \in BlockOf(TxN[g], TxK[g]) BY <1>1, NewBlockIsFresh DEF Fresh
<1> HIDE DEF f
<1>3. /\ HonestOf(g, RxBlock(f)) /\ ~RxBlock(f).started
      /\ RxBlock(f).stData = {} /\ RxBlock(f).stParity = {}
  BY <1>1 DEF RxBlock, HonestOf
<1> QED BY <1>2, <1>3 DEF f

(* What a frame of an honest generation does to its block: one position    *)
(* more, and a clock that starts with the first.                           *)
LEMMA HonestStep ==
  ASSUME IInv, HonestOpen, NEW f \in Frames, f.gen \in Honest, Ingest(f)
  PROVE  LET g == f.gen
         IN /\ HonestOf(g, blocks'[g]) /\ blocks'[g] # NoBlock
            /\ blocks'[g].start = IF g \in Open THEN blocks[g].start ELSE now
            /\ \E p \in Position(g) :
                 positions(blocks'[g]) = (IF g \in Open THEN positions(blocks[g]) ELSE {}) \cup {p}
<1> DEFINE g == f.gen
           b == find_or_emplace(f)
           c == ingest(b, now, f)
           s == start(b, now)
<1>1. PICK p \in Position(g) : f = frame(g, p) BY HonestFrame
<1>2. g \in Gens /\ now \in Nat /\ blocks'[g] = c /\ accepts(f) BY HonestRanges DEF Ingest, IInv
<1>3. c # NoBlock
  BY <1>2, IngestedSound, SoundIsBlock DEF IInv, Open
<1>4. /\ HonestOf(g, b) /\ (b.started => Agrees(b)) /\ b \in BlockOf(TxN[g], TxK[g])
      /\ s.start = IF g \in Open THEN blocks[g].start ELSE now
      /\ positions(s) = IF g \in Open THEN positions(blocks[g]) ELSE {}
  <2>1. CASE g \in Open
    <3>1. b = blocks[g] BY <2>1 DEF find_or_emplace, Open
    <3>2. HonestOf(g, b) /\ Sound(b) BY <2>1, <3>1 DEF HonestOpen, IInv
    <3>3. Agrees(b) /\ b \in BlockOf(TxN[g], TxK[g]) BY <3>2, HonestBlock
    <3>4. s = b BY <3>3, StartSound
    <3> HIDE DEF b, s
    <3> QED BY <2>1, <3>1, <3>2, <3>3, <3>4
  <2>2. CASE g \notin Open
    <3>1. b = RxBlock(frame(g, p)) BY <1>1, <1>2, <2>2 DEF find_or_emplace, Open
    <3>2. /\ HonestOf(g, b) /\ ~b.started /\ b \in BlockOf(TxN[g], TxK[g])
          /\ b.stData = {} /\ b.stParity = {}
      BY <1>1, <1>2, <3>1, NewHonest
    <3>3. s.start = now /\ s.stData = {} /\ s.stParity = {}
      BY <3>2 DEF start, BlockOf
    <3> HIDE DEF b, s
    <3> QED BY <2>2, <3>2, <3>3 DEF positions
  <2> QED BY <2>1, <2>2
<1> HIDE DEF b
<1>5. /\ HonestOf(g, c) /\ c.start = s.start
      /\ positions(c) = positions(s) \cup {p}
  <2>1. LET d == ingest(b, now, frame(g, p))
        IN /\ HonestOf(g, d) /\ d.start = s.start
           /\ d.stData \cup {d.N + j : j \in d.stParity} =
                s.stData \cup {s.N + j : j \in s.stParity} \cup {p}
    BY <1>2, <1>4, HonestIngest
  <2> QED BY <1>1, <2>1 DEF positions
<1> HIDE DEF c, s
<1> QED BY <1>2, <1>3, <1>4, <1>5

LEMMA InitDInv == Init => DInv
BY InitIInv DEF Init, DInv, HonestOpen, Integrity, Open

LEMMA NextDInv == DInv /\ [Next]_vars => DInv'
<1> SUFFICES ASSUME DInv, [Next]_vars PROVE DInv' OBVIOUS
<1>1. IInv' BY NextIInv DEF DInv
<1>2. ASSUME NEW f \in Frames, Ingest(f) PROVE HonestOpen' /\ Integrity'
  <2>1. f.gen \in Gens /\ out' = NoBlock /\ now' = now /\ now \in Nat
    BY <1>2, FrameFields DEF Ingest, DInv, IInv
  <2>2. ASSUME NEW g \in (Honest \cap Open)'
        PROVE  HonestOf(g, blocks'[g]) /\ positions(blocks'[g]) # {} /\ blocks'[g].start <= now
    <3>1. CASE g = f.gen
      <4>1. /\ HonestOf(g, blocks'[g]) /\ positions(blocks'[g]) # {}
            /\ blocks'[g].start = IF g \in Open THEN blocks[g].start ELSE now
        BY <1>2, <3>1, HonestStep DEF DInv
      <4>2. g \in Open => blocks[g].start <= now BY DEF DInv, HonestOpen
      <4> QED BY <2>1, <4>1, <4>2
    <3>2. CASE g # f.gen
      <4>1. g \in Open /\ blocks'[g] = blocks[g] BY <1>2, <3>2 DEF Ingest, Open, DInv, IInv
      <4> QED BY <4>1 DEF DInv, HonestOpen
    <3> QED BY <3>1, <3>2
  <2> QED BY <2>1, <2>2 DEF HonestOpen, Integrity
<1>3. ASSUME NEW f \in Frames, IngestRefused(f) PROVE HonestOpen' /\ Integrity'
  BY <1>3 DEF IngestRefused, DInv, HonestOpen, Integrity, Open
<1>4. ASSUME NEW g \in Gens, close_if_ready(g) PROVE HonestOpen' /\ Integrity'
  <2>1. HonestOpen'
    BY <1>4 DEF close_if_ready, DInv, HonestOpen, Open, IInv
  <2>2. Integrity'
    <3>1. out' = extract_closed(g, blocks[g]) /\ out'.gen = g
      BY <1>4 DEF close_if_ready, extract_closed
    <3>2. CASE g \notin Honest BY <3>1, <3>2 DEF Integrity
    <3>3. CASE g \in Honest
      <4>1. HonestOf(g, blocks[g]) /\ Sound(blocks[g])
        BY <1>4, <3>3 DEF close_if_ready, Due, DInv, HonestOpen, IInv
      <4>2. out'.N = TxN[g] /\ \A i \in 0 .. TxN[g] - 1 : out'.data[i] \in {Missing, payload(g, i)}
        <5> DEFINE c == extract_closed(g, blocks[g])
        <5>1. /\ c.N = TxN[g]
              /\ c.data = [i \in 0 .. TxN[g] - 1 |->
                             IF i \in blocks[g].stData \cup recovered(blocks[g])
                             THEN payload(g, i) ELSE Missing]
          BY <3>3, <4>1, HonestExtract
        <5>2. out' = c BY <3>1
        <5> HIDE DEF c
        <5> QED BY <5>1, <5>2
      <4> QED BY <3>1, <4>2 DEF Integrity
    <3> QED BY <3>2, <3>3
  <2> QED BY <2>1, <2>2
<1>5. ASSUME NEW d \in Ticks, Tick(d) PROVE HonestOpen' /\ Integrity'
  <2>1. /\ now \in Nat /\ now' = now + d /\ d \in Nat /\ out' = NoBlock /\ blocks' = blocks
    BY <1>5, ClockAssumption DEF Tick, DInv, IInv
  <2>2. ASSUME NEW g \in Honest \cap Open PROVE blocks[g].start <= now'
    <3>1. HonestOf(g, blocks[g]) /\ Sound(blocks[g]) /\ blocks[g].start <= now
      BY DEF DInv, HonestOpen, IInv
    <3>2. blocks[g].start \in Nat BY <3>1, HonestBlock DEF BlockOf
    <3> QED BY <2>1, <3>1, <3>2
  <2> QED BY <2>1, <2>2 DEF DInv, HonestOpen, Integrity, Open
<1>6. ASSUME UNCHANGED vars PROVE HonestOpen' /\ Integrity'
  <2>1. now' = now /\ blocks' = blocks /\ out' = out BY <1>6 DEF vars
  <2>2. HonestOpen' BY <2>1 DEF DInv, HonestOpen, Open
  <2>3. Integrity' BY <2>1 DEF DInv, Integrity
  <2> QED BY <2>2, <2>3
<1> QED BY <1>1, <1>2, <1>3, <1>4, <1>5, <1>6 DEF DInv, Next

THEOREM DeliveryInvariance == Spec => []DInv
BY InitDInv, NextDInv, PTL DEF Spec

(* Only bytes the sender put at that position of that block are ever       *)
(* handed over, for every configuration and every shape fec_sender admits, *)
(* whichever systems solve_gf256 takes for unsolvable.                     *)
THEOREM DeliversOnlySent == Spec => []Integrity
<1>1. DInv => Integrity BY DEF DInv
<1> QED BY <1>1, DeliveryInvariance, PTL

-----------------------------------------------------------------------------
(* The promise's words for a block of g's sender.                          *)
LEMMA PositionsOf ==
  ASSUME NEW g \in Honest, NEW b, HonestOf(g, b), Sound(b)
  PROVE  /\ positions(b) \cap (0 .. TxN[g] - 1) = b.stData
         /\ Enough(b) <=> Cardinality(positions(b)) >= TxN[g]
         /\ b.stParity # {} =>
              positions(b) \cap (TxN[g] .. TxN[g] + TxK[g] - 1) # {}
<1> DEFINE P == {TxN[g] + j : j \in b.stParity}
           shift == [j \in b.stParity |-> TxN[g] + j]
<1>1. PICK n \in 1 .. 255, k \in 0 .. 4 : TxN[g] = n /\ TxK[g] = k BY HonestRanges
<1>2. /\ b.N = n /\ positions(b) = b.stData \cup P
      /\ b.stData \subseteq 0 .. n - 1 /\ b.stParity \subseteq 0 .. k - 1
  BY <1>1, HonestBlock DEF HonestOf, positions
<1>3. \A x \in P : x \in n .. n + k - 1 BY <1>1, <1>2
<1>4. /\ IsFiniteSet(b.stData) /\ IsFiniteSet(b.stParity)
      /\ Cardinality(b.stData) \in Nat /\ Cardinality(b.stParity) \in Nat
  BY Counted
<1>5. shift \in Bijection(b.stParity, P)
  <2>1. shift \in [b.stParity -> P] OBVIOUS
  <2>2. \A i, j \in b.stParity : shift[i] = shift[j] => i = j BY <1>1, <1>2
  <2>3. \A x \in P : \E j \in b.stParity : shift[j] = x OBVIOUS
  <2> QED BY <2>1, <2>2, <2>3 DEF Bijection, Injection, IsInjective, Surjection
<1>6. IsFiniteSet(P) /\ Cardinality(P) = Cardinality(b.stParity)
  BY <1>4, <1>5, FS_Bijection DEF ExistsBijection
<1>7. b.stParity # {} => \E x \in P : x \in n .. n + k - 1 BY <1>3
<1> HIDE DEF P
<1>8. b.stData \cap P = {} BY <1>2, <1>3
<1>9. Cardinality(positions(b)) = Cardinality(b.stData) + Cardinality(b.stParity)
  <2>1. Cardinality(b.stData \cup P) = Cardinality(b.stData) + Cardinality(P) - Cardinality({})
    BY <1>4, <1>6, <1>8, FS_Union
  <2> QED BY <1>2, <1>4, <1>6, <2>1, FS_EmptySet
<1> QED BY <1>1, <1>2, <1>3, <1>7, <1>9 DEF Enough

(* Of three deadlines that passed, the earliest passed.                    *)
LEMMA EarliestOfThree ==
  ASSUME NEW x \in Nat, NEW y \in Nat, NEW z \in Nat
  PROVE  LET e == earliest({x, y, z}) IN e \in Nat /\ e <= x /\ e <= y /\ e <= z
<1>1. \E d \in {x, y, z} : \A e \in {x, y, z} : d <= e
  <2>1. CASE x <= y /\ x <= z BY <2>1
  <2>2. CASE y <= x /\ y <= z BY <2>2
  <2>3. CASE z <= x /\ z <= y BY <2>3
  <2> QED BY <2>1, <2>2, <2>3
<1>2. /\ earliest({x, y, z}) \in {x, y, z}
      /\ \A e \in {x, y, z} : earliest({x, y, z}) <= e
  BY <1>1 DEF earliest
<1> QED BY <1>2

(* What the table closes is due by the promise.                            *)
LEMMA DueIsDue ==
  ASSUME NEW g \in Honest, NEW b, HonestOf(g, b), Sound(b), NEW t \in Nat, b.start <= t,
         should_close(b, t)
  PROVE  \/ /\ 0 .. TxN[g] - 1 \subseteq positions(b)
            /\ positions(b) \cap (TxN[g] .. TxN[g] + TxK[g] - 1) # {}
         \/ t - b.start >= earliest({ReorderMs, 60, 2 * block_span_ms(TxN[g])})
<1> DEFINE span == 2 * block_span_ms(TxN[g])
<1>1. /\ b.N = TxN[g] /\ Agrees(b) /\ b \in BlockOf(TxN[g], TxK[g]) /\ TxN[g] \in Nat
  BY HonestBlock, HonestRanges DEF HonestOf
<1>2. b.start \in Nat /\ b.started BY <1>1 DEF BlockOf, Agrees
<1>3. CASE have_parity(b) /\ have_all_data(b)
  <2>1. b.stData = 0 .. TxN[g] - 1 /\ b.stParity # {}
    BY <1>1, <1>3 DEF Agrees, have_parity, have_all_data
  <2>2. b.stData \subseteq positions(b) BY DEF positions
  <2> QED BY <2>1, <2>2, PositionsOf
<1>4. CASE age_ms(b, t) >= ReorderMs \/ age_ms(b, t) >= min_ms(b.N)
  <2>1. age_ms(b, t) = t - b.start BY <1>2 DEF age_ms
  <2>2. span \in Nat /\ ReorderMs \in Nat
    BY <1>1, SpanType, ConfigAssumption
  <2>3. min_ms(b.N) = IF 60 < span THEN 60 ELSE span BY <1>1 DEF min_ms
  <2> HIDE DEF span
  <2>4. /\ earliest({ReorderMs, 60, span}) \in Nat
        /\ earliest({ReorderMs, 60, span}) <= ReorderMs
        /\ earliest({ReorderMs, 60, span}) <= 60
        /\ earliest({ReorderMs, 60, span}) <= span
    BY <2>2, EarliestOfThree
  <2>5. t - b.start >= earliest({ReorderMs, 60, span})
    BY <1>2, <1>4, <2>1, <2>2, <2>3, <2>4
  <2> QED BY <2>5 DEF span
<1> QED BY <1>3, <1>4 DEF should_close

-----------------------------------------------------------------------------
(* The refinement.  arrived, first and handed are what the mapping puts    *)
(* for got, born and delivered.                                            *)
arrived == [g \in Honest |-> IF g \in Open THEN positions(blocks[g]) ELSE {}]
first == [g \in Honest |-> IF g \in Open THEN blocks[g].start ELSE 0]
handed == IF out = NoBlock THEN NoBlock
          ELSE IF out.gen \notin Honest THEN NoBlock
          ELSE [gen |-> out.gen, data |-> out.data, rec |-> out.rec]

(* The promise counts as the table does.                                   *)
LEMMA SameCount == \A S : Delivery!Cardinality(S) = Cardinality(S)
BY DEF Delivery!Cardinality, Delivery!IsFiniteSet, Cardinality, IsFiniteSet

LEMMA InitDelivery == Init => Delivery!Init
BY DEF Init, Delivery!Init, Open

(* A frame of an honest generation arrives.                                *)
LEMMA ArriveStep ==
  ASSUME DInv, NEW f \in Frames, f.gen \in Honest, Ingest(f)
  PROVE  Delivery!Next
<1> DEFINE g == f.gen
<1>1. PICK p \in Position(g) :
        positions(blocks'[g]) = (IF g \in Open THEN positions(blocks[g]) ELSE {}) \cup {p}
  BY HonestStep DEF DInv
<1>2. /\ blocks'[g] # NoBlock
      /\ blocks'[g].start = IF g \in Open THEN blocks[g].start ELSE now
  BY HonestStep DEF DInv
<1>3. /\ g \in Gens /\ Honest \subseteq Gens /\ g \in Open' /\ out' = NoBlock /\ now' = now
      /\ \A h \in Gens : h # g => blocks'[h] = blocks[h]
  BY <1>2, SenderAssumption DEF Ingest, Open, DInv, IInv
<1>4. \A h \in Honest : h # g => (h \in Open' <=> h \in Open) BY <1>3 DEF Open
<1>5. arrived' = [arrived EXCEPT ![g] = @ \cup {p}]
  <2>1. arrived' = [h \in Honest |-> IF h \in Open' THEN positions(blocks'[h]) ELSE {}]
    BY DEF arrived, positions
  <2>2. ASSUME NEW h \in Honest
        PROVE  (IF h \in Open' THEN positions(blocks'[h]) ELSE {})
                 = IF h = g THEN arrived[g] \cup {p} ELSE arrived[h]
    BY <1>1, <1>3, <1>4 DEF arrived
  <2> QED BY <2>1, <2>2 DEF arrived
<1>6. first' = IF arrived[g] = {} THEN [first EXCEPT ![g] = now] ELSE first
  <2>1. first' = [h \in Honest |-> IF h \in Open' THEN blocks'[h].start ELSE 0]
    BY DEF first
  <2>2. arrived[g] = {} <=> g \notin Open BY DEF DInv, HonestOpen, arrived
  <2>3. ASSUME NEW h \in Honest
        PROVE  (IF h \in Open' THEN blocks'[h].start ELSE 0)
                 = IF h = g /\ arrived[g] = {} THEN now ELSE first[h]
    BY <1>2, <1>3, <1>4, <2>2 DEF first
  <2> QED BY <2>1, <2>3 DEF first
<1>7. p \in Delivery!Data(g) \cup Delivery!Parity(g)
  <2>1. PICK n \in 1 .. 255, k \in 0 .. 4 : TxN[g] = n /\ TxK[g] = k BY HonestRanges
  <2>2. p \in 0 .. n - 1 \/ p \in n .. n + k - 1 BY <2>1 DEF Position
  <2> QED BY <2>1, <2>2 DEF Delivery!Data, Delivery!Parity
<1>8. Delivery!Arrive(g, p)
  BY <1>3, <1>5, <1>6 DEF Delivery!Arrive, arrived, first
<1> QED BY <1>7, <1>8 DEF Delivery!Next

(* The table closes a block of an honest generation.                       *)
LEMMA DeliverStep ==
  ASSUME DInv, NEW g \in Honest, Solvable(g), close_if_ready(g)
  PROVE  Delivery!Next
<1> DEFINE b == blocks[g]
<1>1. g \in Open /\ should_close(b, now) /\ Honest \subseteq Gens /\ now \in Nat
      /\ out' = extract_closed(g, b) /\ now' = now
  BY SenderAssumption DEF close_if_ready, Due, DInv, IInv
<1>2. HonestOf(g, b) /\ Sound(b) /\ b.start <= now /\ positions(b) # {}
  BY <1>1 DEF DInv, HonestOpen, IInv
<1>3. /\ \A h \in Honest : h # g => (h \in Open' <=> h \in Open) /\ blocks'[h] = blocks[h]
      /\ g \notin Open'
  BY <1>1 DEF close_if_ready, Open, DInv, IInv
<1>4. arrived[g] = positions(b) /\ first[g] = b.start BY <1>1 DEF arrived, first
<1>5. Delivery!Due(g)
  <2>1. \/ /\ 0 .. TxN[g] - 1 \subseteq positions(b)
           /\ positions(b) \cap (TxN[g] .. TxN[g] + TxK[g] - 1) # {}
        \/ now - b.start >= earliest({ReorderMs, 60, 2 * block_span_ms(TxN[g])})
    BY <1>1, <1>2, DueIsDue
  <2> QED BY <1>2, <1>4, <2>1 DEF Delivery!Due, Delivery!Data, Delivery!Parity, arrived, first
<1>6. arrived' = [arrived EXCEPT ![g] = {}] BY <1>3 DEF arrived
<1>7. first' = [first EXCEPT ![g] = 0] BY <1>3 DEF first
<1>8. Delivery!Restored(g) = Restored(g, b)
  <2>1. Delivery!Restored(g) =
          IF Cardinality(arrived[g]) >= TxN[g] THEN 0 .. TxN[g] - 1
          ELSE arrived[g] \cap (0 .. TxN[g] - 1)
    BY SameCount DEF Delivery!Restored, Delivery!Data, arrived
  <2> QED BY <1>2, <1>4, <2>1, PositionsOf DEF Restored
<1>9. handed' = [gen |-> g,
                 data |-> [i \in 0 .. TxN[g] - 1 |->
                             IF i \in Restored(g, b) THEN payload(g, i) ELSE Missing],
                 rec |-> Restored(g, b) \ arrived[g]]
  <2> DEFINE c == extract_closed(g, b)
  <2>1. /\ c.gen = g
        /\ c.data = [i \in 0 .. TxN[g] - 1 |->
                       IF i \in Restored(g, b) THEN payload(g, i) ELSE Missing]
        /\ c.rec = Restored(g, b) \ b.stData
    BY <1>2, HonestExtract, RestoredIsRecovered
  <2>2. Restored(g, b) \ b.stData = Restored(g, b) \ positions(b)
    <3>1. b.stData \subseteq 0 .. TxN[g] - 1 BY <1>2, HonestBlock
    <3>2. positions(b) \cap (0 .. TxN[g] - 1) = b.stData BY <1>2, PositionsOf
    <3> QED BY <3>1, <3>2 DEF Restored
  <2>3. c # NoBlock
    <3>1. PICK n \in Ns, k \in Ks : SoundOf(b, n, k) BY <1>2 DEF Sound
    <3> QED BY <1>1, <3>1, ExtractType, ShapesAreNat, NoBlockAssumption
  <2>4. handed' = [gen |-> c.gen, data |-> c.data, rec |-> c.rec]
    <3> HIDE DEF c
    <3>1. out' = c BY <1>1 DEF c
    <3> QED BY <2>1, <2>3, <3>1 DEF handed
  <2> HIDE DEF c
  <2> QED BY <1>4, <2>1, <2>2, <2>4
<1>10. Delivery!Deliver(g)
  <2>1. [i \in Delivery!Data(g) |->
           IF i \in Delivery!Restored(g)
           THEN [h \in Honest |-> [j \in 0 .. TxN[h] - 1 |-> payload(h, j)]][g][i]
           ELSE Missing]
        = [i \in 0 .. TxN[g] - 1 |-> IF i \in Restored(g, b) THEN payload(g, i) ELSE Missing]
    BY <1>8 DEF Delivery!Data
  <2> QED BY <1>1, <1>5, <1>6, <1>7, <1>8, <1>9, <2>1 DEF Delivery!Deliver, arrived, first, handed
<1> QED BY <1>10 DEF Delivery!Next

(* What happens to other generations is not seen.                          *)
LEMMA ElsewhereStep ==
  ASSUME now' = now, \A g \in Honest : blocks'[g] = blocks[g], Honest \subseteq Gens,
         out' = NoBlock \/ out'.gen \notin Honest
  PROVE  Delivery!Next
<1>1. \A g \in Honest : g \in Open' <=> g \in Open BY DEF Open
<1>2. arrived' = arrived /\ first' = first /\ handed' = NoBlock
  BY <1>1 DEF arrived, first, handed
<1> QED BY <1>2 DEF Delivery!Next, Delivery!Elsewhere, arrived, first, handed

AllSolvable == \A g \in Honest : Solvable(g)

LEMMA NextDelivery == AllSolvable /\ DInv /\ [Next]_vars => [Delivery!Next]_(Delivery!vars)
<1> SUFFICES ASSUME AllSolvable, DInv, [Next]_vars PROVE Delivery!Next \/ UNCHANGED Delivery!vars
  OBVIOUS
<1>1. Honest \subseteq Gens /\ DOMAIN blocks = Gens BY SenderAssumption DEF DInv, IInv
<1>2. ASSUME NEW f \in Frames, Ingest(f) PROVE Delivery!Next
  <2>1. CASE f.gen \in Honest BY <1>2, <2>1, ArriveStep
  <2>2. CASE f.gen \notin Honest
    BY <1>1, <1>2, <2>2, ElsewhereStep DEF Ingest
  <2> QED BY <2>1, <2>2
<1>3. ASSUME NEW f \in Frames, IngestRefused(f) PROVE Delivery!Next
  BY <1>1, <1>3, ElsewhereStep DEF IngestRefused
<1>4. ASSUME NEW g \in Gens, close_if_ready(g) PROVE Delivery!Next
  <2>1. CASE g \in Honest BY <1>4, <2>1, DeliverStep DEF AllSolvable
  <2>2. CASE g \notin Honest
    <3>1. out'.gen = g BY <1>4 DEF close_if_ready, extract_closed
    <3> QED BY <1>1, <1>4, <2>2, <3>1, ElsewhereStep DEF close_if_ready
  <2> QED BY <2>1, <2>2
<1>5. ASSUME NEW d \in Ticks, Tick(d) PROVE Delivery!Next
  <2>1. arrived' = arrived /\ first' = first /\ handed' = NoBlock
    BY <1>5 DEF Tick, arrived, first, handed, Open
  <2>2. Delivery!Pass(d) BY <1>5, <2>1 DEF Tick, Delivery!Pass, arrived, first, handed
  <2> QED BY <2>2 DEF Delivery!Next
<1>6. CASE UNCHANGED vars
  <2>1. now' = now /\ arrived' = arrived /\ first' = first /\ handed' = handed
    BY <1>6 DEF vars, arrived, first, handed, Open
  <2> QED BY <2>1 DEF Delivery!vars, arrived, first, handed
<1> QED BY <1>2, <1>3, <1>4, <1>5, <1>6 DEF Next

LEMMA KeptWhereSolvable == ASSUME AllSolvable PROVE Spec => DeliverySpec
<1>1. Init => Delivery!Init BY InitDelivery
<1>2. DInv /\ [Next]_vars => [Delivery!Next]_(Delivery!vars) BY NextDelivery
<1> QED BY <1>1, <1>2, DeliveryInvariance, PTL DEF Spec, DeliverySpec, Delivery!Spec

(* Which systems solve_gf256 fails on (EnoughRowsUpToThree of              *)
(* ErasureCode_proofs): only ones with the fourth parity row and a payload *)
(* lost from position 21 on.                                               *)
OnlyLargeSystemsFail ==
  \A s \in Singular : ~(s[1] \subseteq 0 .. 2) /\ ~(s[2] \subseteq 0 .. 20)

LEMMA SmallShapesSolvable ==
  ASSUME OnlyLargeSystemsFail, NEW g \in Honest, TxK[g] <= 3 \/ TxN[g] <= 21
  PROVE  Solvable(g)
<1>1. PICK n \in 1 .. 255, k \in 0 .. 4 : TxN[g] = n /\ TxK[g] = k BY HonestRanges
<1>2. 0 .. k - 1 \subseteq 0 .. 2 \/ 0 .. n - 1 \subseteq 0 .. 20 BY <1>1
<1> QED BY <1>1, <1>2 DEF OnlyLargeSystemsFail, Solvable

(* With K <= 3, or at most 21 data frames, the table implements the        *)
(* promise: any N of the N + K frames of an honest block restore it, with  *)
(* fewer the payloads that came are handed over alone, and none before the *)
(* deadline unless the block is complete.                                  *)
THEOREM KeepsThePromise ==
  ASSUME OnlyLargeSystemsFail, \A g \in Honest : TxK[g] <= 3 \/ TxN[g] <= 21
  PROVE  Spec => DeliverySpec
<1>1. AllSolvable BY SmallShapesSolvable DEF AllSolvable
<1> QED BY <1>1, KeptWhereSolvable
=============================================================================
