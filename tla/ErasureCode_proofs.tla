-------------------------- MODULE ErasureCode_proofs --------------------------
(***************************************************************************)
(* What block recovery restores is what was lost, for every block length   *)
(* N, every data, every loss, and every K the sender admits. K = 1: the    *)
(* parity that has been sent is the sum of all bytes, and while the        *)
(* receiver takes the bytes it has off that sum, what is left is the sum   *)
(* of those it has not come to and, once it has passed the hole, the lost  *)
(* byte (XorInv). K = 2 .. 4: FieldTables gives the field laws; sums of    *)
(* bytes are taken apart one summand at a time (SumAdd); encoding fills    *)
(* each row with its sum over all data; what Travel sets up holds for the  *)
(* bytes that were sent (SetUpHolds); each column eliminated keeps that    *)
(* (ColumnKeeps); and an eliminated system is its solution (EndSolves).    *)
(* GfInv carries this through a run.                                       *)
(*                                                                         *)
(* And what it restores when there are as many parity frames as holes.     *)
(* The rows sent are powers of alpha, so rows of consecutive exponents     *)
(* vanish only at zero when the holes are less than 255 apart; a row left  *)
(* out in between leaves the sum of the powers of the holes as a factor,   *)
(* which NoThreeAddUp shows not to be zero among the first 21 frames       *)
(* (RowsDetermine). A column eliminated keeps that (ColumnKeepsOne), and   *)
(* without a pivot it would be false (PivotThere). SolveInv carries this   *)
(* through a run.                                                          *)
(***************************************************************************)
EXTENDS ErasureCode, FiniteSetTheorems, TLAPS

(* s[k] is the sum of the first k bytes of column c, as far as k <= n.     *)
PartialSums(c, s, n) ==
  /\ s \in [0 .. c.N -> Byte]
  /\ s[0] = {}
  /\ \A k \in 0 .. n - 1 : s[k + 1] = gf_add(s[k], c.data[k])

(* What the receiver has taken off the parity after n frames, i being lost,*)
(* is the sum of the first n bytes without byte i.                         *)
taken(c, s, n, i) == IF n <= i THEN s[n] ELSE gf_add(s[n], c.data[i])

SumSoFar == \E s : PartialSums(blk, s, frame) /\ parity[0] = s[frame]

SumOfAll == \E s : PartialSums(blk, s, blk.N) /\ parity[0] = s[blk.N]

Rest(i) ==
  \E s : PartialSums(blk, s, blk.N) /\ rec = gf_add(s[blk.N], taken(blk, s, frame, i))

XorInv ==
  /\ blk \in Columns
  /\ blk.K = 1 =>
       /\ pc \in {"encode", "travel", "xor", "done", "left"}
       /\ frame \in 0 .. blk.N
       /\ parity \in [{0} -> Byte]
       /\ pc = "encode" => SumSoFar
       /\ pc = "travel" => SumOfAll
       /\ pc = "xor" => \E i \in Data : lost = {i} /\ Rest(i)
       /\ pc = "done" => \A i \in lost : out[i] = blk.data[i]

LEMMA AddType == ASSUME NEW y \in Byte, NEW z \in Byte PROVE gf_add(y, z) \in Byte
BY DEF gf_add, Byte

LEMMA AddAssociates ==
  ASSUME NEW y \in Byte, NEW z \in Byte, NEW w \in Byte
  PROVE  gf_add(gf_add(y, z), w) = gf_add(y, gf_add(z, w))
BY DEF gf_add

LEMMA AddCommutes ==
  ASSUME NEW y \in Byte, NEW z \in Byte PROVE gf_add(y, z) = gf_add(z, y)
BY DEF gf_add

LEMMA AddCancels ==
  ASSUME NEW y \in Byte, NEW z \in Byte
  PROVE  /\ gf_add(gf_add(y, z), z) = y
         /\ gf_add(y, gf_add(y, z)) = z
         /\ gf_add(y, {}) = y
BY DEF gf_add

-----------------------------------------------------------------------------
(* The field.  FieldTables says what the tables hold, entry by entry; the  *)
(* laws of multiplication follow.                                          *)

one == {0}

LEMMA ExpEntry ==
  /\ \A e \in 0 .. 511 : exp[e] \in Byte /\ exp[e] # {} /\ log[exp[e]] = e % 255
  /\ exp[0] = one
<1>1. exp \in [0 .. 511 -> Byte \ {{}}] BY FieldTables
<1>2. \A e \in 0 .. 511 : exp[e] \in Byte \ {{}} BY <1>1
<1>3. \A e \in 0 .. 511 : log[exp[e]] = e % 255 BY FieldTables
<1>4. exp[0] = one BY FieldTables DEF one
<1> QED BY <1>2, <1>3, <1>4

LEMMA LogEntry ==
  \A y \in Byte : y # {} => log[y] \in 0 .. 254 /\ exp[log[y]] = y
<1>1. log \in [Byte \ {{}} -> 0 .. 254] BY FieldTables
<1>2. \A y \in Byte \ {{}} : log[y] \in 0 .. 254 BY <1>1
<1>3. \A y \in Byte \ {{}} : exp[log[y]] = y BY FieldTables
<1> QED BY <1>2, <1>3

LEMMA MulType ==
  ASSUME NEW x \in Byte, NEW y \in Byte
  PROVE  /\ gf_mul(x, y) \in Byte
         /\ gf_mul(x, {}) = {} /\ gf_mul({}, x) = {}
         /\ gf_mul(x, y) = gf_mul(y, x)
<1>1. {} \in Byte BY DEF Byte
<1>2. ASSUME x # {}, y # {}
      PROVE  /\ log[x] \in 0 .. 254 /\ log[y] \in 0 .. 254
             /\ log[x] + log[y] \in 0 .. 511 /\ log[x] + log[y] = log[y] + log[x]
  <2>1. log[x] \in 0 .. 254 BY <1>2, LogEntry
  <2>2. log[y] \in 0 .. 254 BY <1>2, LogEntry
  <2>3. \A i, j \in 0 .. 254 : i + j \in 0 .. 511 /\ i + j = j + i OBVIOUS
  <2> QED BY <2>1, <2>2, <2>3
<1>3. ASSUME x # {}, y # {} PROVE exp[log[x] + log[y]] \in Byte
  BY <1>2, <1>3, ExpEntry
<1> QED BY <1>1, <1>2, <1>3 DEF gf_mul

LEMMA PowType == ASSUME NEW e \in Nat PROVE gf_pow_alpha(e) \in Byte
<1>1. e % 255 \in 0 .. 511 OBVIOUS
<1> QED BY <1>1, ExpEntry DEF gf_pow_alpha

LEMMA ExpPeriod == ASSUME NEW e \in 0 .. 511 PROVE exp[e] = exp[e % 255]
<1>1. exp[e] \in Byte /\ exp[e] # {} /\ log[exp[e]] = e % 255 BY ExpEntry
<1>2. exp[log[exp[e]]] = exp[e] BY <1>1, LogEntry
<1> QED BY <1>1, <1>2

(* The product of two powers.                                              *)
LEMMA MulPowers ==
  ASSUME NEW d \in 0 .. 254, NEW e \in 0 .. 254
  PROVE  gf_mul(exp[d], exp[e]) = exp[(d + e) % 255]
<1>0. d \in 0 .. 511 /\ e \in 0 .. 511 /\ d % 255 = d /\ e % 255 = e OBVIOUS
<1>1. exp[d] # {} /\ exp[e] # {} BY <1>0, ExpEntry
<1>2. log[exp[d]] = d /\ log[exp[e]] = e BY <1>0, ExpEntry
<1>3. d + e \in 0 .. 511 OBVIOUS
<1> QED BY <1>1, <1>2, <1>3, ExpPeriod DEF gf_mul

LEMMA IsPower ==
  ASSUME NEW x \in Byte, x # {} PROVE \E d \in 0 .. 254 : x = exp[d]
<1>1. log[x] \in 0 .. 254 /\ exp[log[x]] = x BY LogEntry
<1> QED BY <1>1

LEMMA MulAssociates ==
  ASSUME NEW x \in Byte, NEW y \in Byte, NEW z \in Byte
  PROVE  gf_mul(gf_mul(x, y), z) = gf_mul(x, gf_mul(y, z))
<1>1. CASE x = {} \/ y = {} \/ z = {}
  BY <1>1, MulType DEF Byte
<1>2. CASE x # {} /\ y # {} /\ z # {}
  <2>1. PICK d \in 0 .. 254 : x = exp[d] BY <1>2, IsPower
  <2>2. PICK e \in 0 .. 254 : y = exp[e] BY <1>2, IsPower
  <2>3. PICK f \in 0 .. 254 : z = exp[f] BY <1>2, IsPower
  <2>4. PICK u \in 0 .. 254 : u = (d + e) % 255 OBVIOUS
  <2>5. PICK v \in 0 .. 254 : v = (e + f) % 255 OBVIOUS
  <2>6. gf_mul(x, y) = exp[u] BY <2>1, <2>2, <2>4, MulPowers
  <2>7. gf_mul(exp[u], z) = exp[(u + f) % 255] BY <2>3, MulPowers
  <2>8. gf_mul(y, z) = exp[v] BY <2>2, <2>3, <2>5, MulPowers
  <2>9. gf_mul(x, exp[v]) = exp[(d + v) % 255] BY <2>1, MulPowers
  <2>10. (u + f) % 255 = (d + v) % 255 BY <2>4, <2>5
  <2> QED BY <2>6, <2>7, <2>8, <2>9, <2>10
<1> QED BY <1>1, <1>2

LEMMA MulOne == ASSUME NEW x \in Byte PROVE gf_mul(one, x) = x /\ gf_mul(x, one) = x
<1>0. one \in Byte BY DEF one, Byte, Bit
<1>1. CASE x = {} BY <1>0, <1>1, MulType
<1>2. CASE x # {}
  <2>1. PICK d \in 0 .. 254 : x = exp[d] BY <1>2, IsPower
  <2>2. PICK o \in 0 .. 254 : o = 0 OBVIOUS
  <2>3. gf_mul(exp[o], exp[d]) = exp[(o + d) % 255] BY MulPowers
  <2>4. (o + d) % 255 = d BY <2>2
  <2>5. gf_mul(exp[o], x) = x BY <2>1, <2>3, <2>4
  <2>6. exp[o] = one BY <2>2, ExpEntry
  <2>7. gf_mul(one, x) = x BY <2>5, <2>6
  <2> QED BY <1>0, <2>7, MulType
<1> QED BY <1>1, <1>2

LEMMA MulInverse ==
  ASSUME NEW x \in Byte, x # {}
  PROVE  gf_inv(x) \in Byte /\ gf_mul(x, gf_inv(x)) = one
<1>1. PICK d \in 0 .. 254 : x = exp[d] BY IsPower
<1>2. log[x] = d
  <2>1. d \in 0 .. 511 /\ d % 255 = d OBVIOUS
  <2> QED BY <1>1, <2>1, ExpEntry
<1>3. 255 - d \in 0 .. 511 OBVIOUS
<1>m. \A v \in 0 .. 254 : gf_mul(exp[d], exp[v]) = exp[(d + v) % 255] BY MulPowers
<1> PICK u \in 0 .. 254 : u = (255 - d) % 255 OBVIOUS
<1>4. gf_inv(x) = exp[u] BY <1>2, <1>3, ExpPeriod DEF gf_inv
<1>5. gf_mul(x, gf_inv(x)) = exp[(d + u) % 255]
  <2>1. gf_mul(exp[d], exp[u]) = exp[(d + u) % 255] BY <1>m, Zenon
  <2> QED BY <1>1, <1>4, <2>1, Zenon
<1>6. (d + u) % 255 = 0 OBVIOUS
<1>7. gf_inv(x) \in Byte BY <1>2, <1>3, ExpEntry DEF gf_inv
<1> QED BY <1>5, <1>6, <1>7, ExpEntry

LEMMA MulNewBit ==
  ASSUME NEW x \in Byte, NEW y \in Byte, NEW n \in Bit, n \notin y
  PROVE  gf_mul(x, y \cup {n}) = gf_add(gf_mul(x, y), gf_mul(x, {n}))
<1>1. \A u, v \in Byte : \A k \in Bit \ v :
        gf_mul(u, v \cup {k}) = gf_add(gf_mul(u, v), gf_mul(u, {k}))
  BY FieldTables, Zenon
<1> QED BY <1>1, Zenon

(* Adding a bit to a factor adds its product, whether the bit was there or *)
(* not; bit by bit this gives distributivity.                              *)
LEMMA MulAddsBit ==
  ASSUME NEW x \in Byte, NEW y \in Byte, NEW n \in Bit
  PROVE  gf_mul(x, gf_add(y, {n})) = gf_add(gf_mul(x, y), gf_mul(x, {n}))
<1>1. {n} \in Byte BY DEF Byte
<1>2. CASE n \notin y
  <2>1. gf_add(y, {n}) = y \cup {n} BY <1>2 DEF gf_add
  <2>2. gf_mul(x, y \cup {n}) = gf_add(gf_mul(x, y), gf_mul(x, {n})) BY <1>2, MulNewBit
  <2> QED BY <2>1, <2>2, Zenon
<1>3. CASE n \in y
  <2> DEFINE v == y \ {n}
  <2>1. v \in Byte /\ n \notin v /\ y = v \cup {n} /\ gf_add(y, {n}) = v
    BY <1>3 DEF gf_add, Byte
  <2> HIDE DEF v
  <2>2. gf_mul(x, v \cup {n}) = gf_add(gf_mul(x, v), gf_mul(x, {n})) BY <2>1, MulNewBit
  <2>3. gf_mul(x, v) \in Byte /\ gf_mul(x, {n}) \in Byte BY <1>1, <2>1, MulType
  <2> QED BY <2>1, <2>2, <2>3, AddCancels
<1> QED BY <1>2, <1>3

LEMMA DistributesBit ==
  ASSUME NEW x \in Byte, NEW y \in Byte, NEW v \in Byte, NEW n \in Bit, n \notin v,
         gf_mul(x, gf_add(y, v)) = gf_add(gf_mul(x, y), gf_mul(x, v))
  PROVE  gf_mul(x, gf_add(y, v \cup {n})) = gf_add(gf_mul(x, y), gf_mul(x, v \cup {n}))
<1> DEFINE w == {n}
<1>1. w \in Byte /\ v \cup w = gf_add(v, w) BY DEF Byte, gf_add
<1>4. gf_mul(x, v \cup w) = gf_add(gf_mul(x, v), gf_mul(x, w)) BY MulNewBit
<1>a. \A u \in Byte : gf_mul(x, gf_add(u, w)) = gf_add(gf_mul(x, u), gf_mul(x, w))
  BY MulAddsBit
<1> HIDE DEF w
<1>2. gf_add(y, v \cup w) = gf_add(gf_add(y, v), w)
  <2>1. gf_add(gf_add(y, v), w) = gf_add(y, gf_add(v, w)) BY <1>1, AddAssociates
  <2> QED BY <1>1, <2>1, Zenon
<1>3. gf_mul(x, gf_add(y, v \cup w)) = gf_add(gf_add(gf_mul(x, y), gf_mul(x, v)), gf_mul(x, w))
  <2>1. gf_add(y, v) \in Byte BY AddType
  <2> QED BY <1>2, <1>a, <2>1
<1>5. gf_mul(x, y) \in Byte /\ gf_mul(x, v) \in Byte /\ gf_mul(x, w) \in Byte BY <1>1, MulType
<1>6. gf_mul(x, gf_add(y, v \cup w)) = gf_add(gf_mul(x, y), gf_mul(x, v \cup w))
  BY <1>3, <1>4, <1>5, AddAssociates
<1> QED BY <1>6 DEF w

LEMMA MulDistributes ==
  ASSUME NEW x \in Byte, NEW y \in Byte, NEW z \in Byte
  PROVE  /\ gf_mul(x, gf_add(y, z)) = gf_add(gf_mul(x, y), gf_mul(x, z))
         /\ gf_mul(gf_add(y, z), x) = gf_add(gf_mul(y, x), gf_mul(z, x))
<1> DEFINE low(n) == {k \in z : k < n}
           Good(v) == gf_mul(x, gf_add(y, v)) = gf_add(gf_mul(x, y), gf_mul(x, v))
<1>0. \A k \in z : k \in Int /\ k >= 0 /\ k < 8 BY DEF Byte, Bit
<1>1. \A n : low(n) \in Byte BY DEF Byte
<1>2. ASSUME NEW n \in Bit, Good(low(n)) PROVE Good(low(n + 1))
  <2>1. low(n) \in Byte /\ n \notin low(n) BY <1>1 DEF Bit
  <2>2. CASE n \in z
    <3>0. \A k \in z : k < n + 1 <=> k < n \/ k = n BY <1>0 DEF Bit
    <3>1. low(n + 1) = low(n) \cup {n} BY <2>2, <3>0
    <3> HIDE DEF low
    <3> QED BY <1>2, <2>1, <3>1, DistributesBit
  <2>3. CASE n \notin z
    <3>0. \A k \in z : k < n + 1 <=> k < n BY <1>0, <2>3 DEF Bit
    <3>1. low(n + 1) = low(n) BY <3>0
    <3> HIDE DEF low
    <3> QED BY <1>2, <3>1
  <2> QED BY <2>2, <2>3
<1>3. Good(low(0))
  <2>1. low(0) = {} BY <1>0
  <2>2. gf_add(y, {}) = y /\ gf_mul(x, {}) = {} /\ gf_mul(x, y) \in Byte BY AddCancels, MulType
  <2>3. gf_add(gf_mul(x, y), {}) = gf_mul(x, y) BY <2>2, AddCancels
  <2> HIDE DEF low
  <2> QED BY <2>1, <2>2, <2>3
<1>4. low(8) = z BY <1>0
<1> HIDE DEF low, Good
<1>5. \A n \in Bit : Good(low(n)) => Good(low(n + 1)) BY <1>2
<1>6. Good(low(1)) /\ Good(low(2)) /\ Good(low(3)) /\ Good(low(4))
  BY <1>3, <1>5 DEF Bit
<1>7. Good(low(5)) /\ Good(low(6)) /\ Good(low(7)) /\ Good(low(8))
  BY <1>5, <1>6 DEF Bit
<1>8. gf_mul(x, gf_add(y, z)) = gf_add(gf_mul(x, y), gf_mul(x, z))
  BY <1>4, <1>7 DEF Good
<1> QED BY <1>8, AddType, MulType

LEMMA ColumnType ==
  ASSUME NEW c \in Columns
  PROVE  /\ c.N \in Nat \ {0}
         /\ c.data \in [0 .. c.N - 1 -> Byte]
BY ColumnsAssumption

(* One more frame: the sums go on with the byte that was added.            *)
LEMMA SumsExtend ==
  ASSUME NEW c \in Columns, NEW n \in 0 .. c.N - 1, NEW s, PartialSums(c, s, n)
  PROVE  \E t : PartialSums(c, t, n + 1) /\ t[n + 1] = gf_add(s[n], c.data[n])
<1> DEFINE t == [s EXCEPT ![n + 1] = gf_add(s[n], c.data[n])]
<1>1. c.N \in Nat \ {0} /\ c.data[n] \in Byte
  BY ColumnType
<1>2. s \in [0 .. c.N -> Byte] /\ n + 1 \in 0 .. c.N /\ s[n] \in Byte
  BY <1>1 DEF PartialSums
<1>3. gf_add(s[n], c.data[n]) \in Byte
  BY <1>1, <1>2, AddType
<1>4. t \in [0 .. c.N -> Byte] /\ t[n + 1] = gf_add(s[n], c.data[n])
  BY <1>2, <1>3
<1>5. t[0] = {}
  BY <1>2 DEF PartialSums
<1>6. ASSUME NEW k \in 0 .. n PROVE t[k + 1] = gf_add(t[k], c.data[k])
  <2>1. t[k] = s[k]
    BY <1>1, <1>2
  <2>2. CASE k = n
    BY <2>1, <2>2, <1>4
  <2>3. CASE k # n
    <3>1. t[k + 1] = s[k + 1]
      BY <1>1, <1>2, <2>3
    <3>2. s[k + 1] = gf_add(s[k], c.data[k])
      BY <2>3 DEF PartialSums
    <3> QED BY <2>1, <3>1, <3>2
  <2> QED BY <2>2, <2>3
<1>7. PartialSums(c, t, n + 1)
  BY <1>4, <1>5, <1>6 DEF PartialSums
<1> QED BY <1>4, <1>7

(* One frame of the receiver's walk.                                       *)
LEMMA TakenStep ==
  ASSUME NEW c \in Columns, NEW s, PartialSums(c, s, c.N),
         NEW i \in 0 .. c.N - 1, NEW n \in 0 .. c.N - 1
  PROVE  LET r == gf_add(s[c.N], taken(c, s, n, i))
         IN gf_add(s[c.N], taken(c, s, n + 1, i)) = IF n = i THEN r ELSE gf_add(r, c.data[n])
<1> DEFINE S == s[c.N]  y == c.data[n]  z == c.data[i]
<1>1. c.N \in Nat \ {0} /\ y \in Byte /\ z \in Byte
  BY ColumnType
<1>2. S \in Byte /\ s[n] \in Byte /\ s[n + 1] = gf_add(s[n], y)
  BY <1>1 DEF PartialSums
<1>3. gf_add(s[n], y) \in Byte /\ gf_add(s[n], z) \in Byte
  BY <1>1, <1>2, AddType
<1>4. CASE n = i
  <2>1. taken(c, s, n + 1, i) = gf_add(gf_add(s[n], y), y)
    BY <1>1, <1>2, <1>4 DEF taken
  <2>2. taken(c, s, n, i) = s[n]
    BY <1>1, <1>4 DEF taken
  <2> QED BY <2>1, <2>2, <1>1, <1>2, <1>4, AddCancels
<1>5. CASE n < i
  <2>1. taken(c, s, n + 1, i) = gf_add(s[n], y) /\ taken(c, s, n, i) = s[n]
    BY <1>1, <1>2, <1>5 DEF taken
  <2>2. gf_add(S, gf_add(s[n], y)) = gf_add(gf_add(S, s[n]), y)
    BY <1>1, <1>2, AddAssociates
  <2> QED BY <2>1, <2>2, <1>1, <1>5
<1>6. CASE n > i
  <2>1. /\ taken(c, s, n + 1, i) = gf_add(gf_add(s[n], y), z)
        /\ taken(c, s, n, i) = gf_add(s[n], z)
    BY <1>1, <1>2, <1>6 DEF taken
  <2>2. gf_add(gf_add(s[n], y), z) = gf_add(gf_add(s[n], z), y)
    BY <1>1, <1>2, AddAssociates, AddCommutes
  <2>3. gf_add(S, gf_add(gf_add(s[n], z), y)) = gf_add(gf_add(S, gf_add(s[n], z)), y)
    BY <1>1, <1>2, <1>3, AddAssociates
  <2> QED BY <2>1, <2>2, <2>3, <1>1, <1>6
<1> QED BY <1>1, <1>4, <1>5, <1>6

(* At the end of the walk the lost byte is left.                           *)
LEMMA TakenEnd ==
  ASSUME NEW c \in Columns, NEW s, PartialSums(c, s, c.N), NEW i \in 0 .. c.N - 1
  PROVE  gf_add(s[c.N], taken(c, s, c.N, i)) = c.data[i]
<1>1. c.N \in Nat \ {0} /\ c.data[i] \in Byte
  BY ColumnType
<1>2. s[c.N] \in Byte
  BY <1>1 DEF PartialSums
<1>3. taken(c, s, c.N, i) = gf_add(s[c.N], c.data[i])
  BY <1>1 DEF taken
<1> QED BY <1>1, <1>2, <1>3, AddCancels

LEMMA InitXorInv == Init => XorInv
<1> SUFFICES ASSUME Init, blk.K = 1 PROVE SumSoFar /\ parity \in [{0} -> Byte] /\ frame \in 0 .. blk.N
  BY DEF Init, XorInv
<1>1. blk.N \in Nat \ {0}
  BY ColumnType DEF Init
<1>2. parity = [r \in {0} |-> {}] /\ frame = 0 /\ {} \in Byte
  BY DEF Init, Rows, Byte
<1> DEFINE s == [k \in 0 .. blk.N |-> {}]
<1>3. PartialSums(blk, s, 0) /\ parity[0] = s[0]
  BY <1>1, <1>2 DEF PartialSums
<1>4. SumSoFar
  BY <1>2, <1>3, Zenon DEF SumSoFar
<1> QED BY <1>1, <1>2, <1>4

(* With one parity frame every step keeps the sums.                        *)
LEMMA NextXorInv == XorInv /\ [Next]_vars => XorInv'
<1> SUFFICES ASSUME XorInv, [Next]_vars PROVE XorInv'
  OBVIOUS
<1>1. blk' = blk
  BY DEF Next, Encode, Recover, EncodeXor, EncodeGf256, EncodeEnd, Travel, XorFrame, XorEnd,
         SolveColumn, SolveFails, SolveEnd, vars
<1>2. CASE blk.K # 1
  BY <1>1, <1>2 DEF XorInv
<1>3. CASE blk.K = 1
  <2>1. /\ blk \in Columns /\ frame \in 0 .. blk.N /\ parity \in [{0} -> Byte]
        /\ pc \in {"encode", "travel", "xor", "done", "left"}
        /\ blk.N \in Nat \ {0} /\ blk.data \in [Data -> Byte]
    BY <1>3, ColumnType DEF XorInv, Data
  <2>2. pick_scheme(blk.K) = "xor" /\ \A L, P : ~gf256_applies(L, P)
    BY <1>3 DEF pick_scheme, gf256_applies
  <2>3. CASE EncodeXor
    <3>1. SumSoFar /\ frame \in 0 .. blk.N - 1 /\ pc = "encode"
      BY <1>3, <2>1, <2>3 DEF XorInv, EncodeXor
    <3>2. PICK s : PartialSums(blk, s, frame) /\ parity[0] = s[frame]
      BY <3>1, Zenon DEF SumSoFar
    <3>3. PICK t : PartialSums(blk, t, frame + 1) /\ t[frame + 1] = gf_add(s[frame], blk.data[frame])
      BY <2>1, <3>1, <3>2, SumsExtend
    <3>4. frame' = frame + 1 /\ parity' = [parity EXCEPT ![0] = gf_add(@, blk.data[frame])] /\ pc' = pc
      BY <2>3 DEF EncodeXor
    <3>5. gf_add(parity[0], blk.data[frame]) \in Byte
      BY <2>1, <3>1, AddType DEF Data
    <3>6. parity' \in [{0} -> Byte] /\ parity'[0] = t[frame + 1]
      BY <2>1, <3>2, <3>3, <3>4, <3>5
    <3>7. PartialSums(blk', t, frame') /\ parity'[0] = t[frame']
      BY <1>1, <3>3, <3>4, <3>6
    <3>8. SumSoFar'
      BY <3>7, Zenon DEF SumSoFar
    <3>9. frame' \in 0 .. blk.N
      BY <2>1, <3>1, <3>4
    <3> QED BY <1>1, <2>1, <3>1, <3>4, <3>6, <3>8, <3>9 DEF XorInv
  <2>4. CASE EncodeGf256
    BY <2>2, <2>4 DEF EncodeGf256
  <2>5. CASE EncodeEnd
    <3>1. pc = "encode" /\ frame = blk.N /\ pc' = "travel" /\ UNCHANGED <<blk, frame, parity>>
      BY <2>2, <2>5 DEF EncodeEnd
    <3>2. SumOfAll'
      BY <1>3, <3>1 DEF XorInv, SumSoFar, SumOfAll, PartialSums
    <3> QED BY <1>3, <2>1, <3>1, <3>2 DEF XorInv
  <2>6. ASSUME pc = "travel", NEW L \in Losses, NEW P \in SUBSET Rows, L \subseteq Data, Travel(L, P)
        PROVE  XorInv'
    <3>1. CASE xor_applies(L, P)
      <4>1. /\ lost' = L /\ pc' = "xor" /\ rec' = parity[0] /\ frame' = 0 /\ parity' = parity
        BY <2>2, <2>6, <3>1 DEF Travel
      <4>2. PICK i \in Data : L = {i}
        <5>1. IsFiniteSet(Data)
          BY <2>1, FS_Interval DEF Data
        <5>2. IsFiniteSet(L) /\ Cardinality(L) = 1
          BY <5>1, <2>6, <3>1, FS_Subset DEF xor_applies
        <5>3. \E i : L = {i}
          BY <5>2, FS_Singleton
        <5> QED BY <5>3, <2>6
      <4>3. PICK s : PartialSums(blk, s, blk.N) /\ parity[0] = s[blk.N]
        BY <1>3, <2>6, Zenon DEF XorInv, SumOfAll
      <4>4. s[blk.N] \in Byte /\ taken(blk, s, 0, i) = {}
        BY <2>1, <4>2, <4>3 DEF PartialSums, taken, Data
      <4>5. rec' = gf_add(s[blk.N], taken(blk, s, 0, i))
        BY <4>1, <4>3, <4>4, AddCancels DEF Byte
      <4>6. Rest(i)'
        BY <1>1, <4>1, <4>3, <4>5 DEF Rest
      <4>7. i \in Data'
        BY <1>1, <4>2 DEF Data
      <4> QED BY <1>1, <1>3, <2>1, <4>1, <4>2, <4>6, <4>7 DEF XorInv
    <3>2. CASE ~xor_applies(L, P)
      <4>1. pc' = "left" /\ UNCHANGED <<frame, parity>>
        BY <2>2, <2>6, <3>2 DEF Travel
      <4> QED BY <1>1, <1>3, <2>1, <4>1 DEF XorInv
    <3> QED BY <3>1, <3>2
  <2>7. CASE XorFrame
    <3>1. /\ pc = "xor" /\ frame \in 0 .. blk.N - 1 /\ UNCHANGED <<pc, lost, parity>>
          /\ frame' = frame + 1
          /\ rec' = IF frame \in lost THEN rec ELSE gf_add(rec, blk.data[frame])
      BY <2>1, <2>7 DEF XorFrame
    <3>2. PICK i \in Data : lost = {i} /\ Rest(i)
      BY <1>3, <3>1 DEF XorInv
    <3>3. PICK s : PartialSums(blk, s, blk.N) /\ rec = gf_add(s[blk.N], taken(blk, s, frame, i))
      BY <3>2, Zenon DEF Rest
    <3>4. rec' = gf_add(s[blk.N], taken(blk, s, frame + 1, i))
      BY <2>1, <3>1, <3>2, <3>3, TakenStep DEF Data
    <3>5. Rest(i)'
      BY <1>1, <3>1, <3>3, <3>4 DEF Rest
    <3>6. i \in Data' /\ lost' = {i} /\ frame' \in 0 .. blk.N
      BY <1>1, <2>1, <3>1, <3>2 DEF Data
    <3> QED BY <1>1, <1>3, <2>1, <3>1, <3>5, <3>6 DEF XorInv
  <2>8. CASE XorEnd
    <3>1. /\ pc = "xor" /\ frame = blk.N /\ pc' = "done" /\ UNCHANGED <<lost, frame, parity>>
          /\ out' = [i \in lost |-> rec]
      BY <2>8 DEF XorEnd
    <3>2. PICK i \in Data : lost = {i} /\ Rest(i)
      BY <1>3, <3>1 DEF XorInv
    <3>3. PICK s : PartialSums(blk, s, blk.N) /\ rec = gf_add(s[blk.N], taken(blk, s, blk.N, i))
      BY <3>1, <3>2, Zenon DEF Rest
    <3>4. rec = blk.data[i]
      BY <2>1, <3>2, <3>3, TakenEnd DEF Data
    <3>5. \A k \in lost' : out'[k] = blk'.data[k]
      BY <1>1, <3>1, <3>2, <3>4
    <3> QED BY <1>1, <1>3, <2>1, <3>1, <3>5 DEF XorInv
  <2>9. CASE SolveColumn \/ SolveFails \/ SolveEnd
    BY <2>1, <2>9 DEF SolveColumn, SolveFails, SolveEnd
  <2>10. CASE UNCHANGED vars
    BY <2>10 DEF vars, XorInv, SumSoFar, SumOfAll, Rest, Data
  <2> QED
    BY <2>3, <2>4, <2>5, <2>6, <2>7, <2>8, <2>9, <2>10 DEF Next, Encode, Recover
<1> QED BY <1>2, <1>3

(* Block recovery with one parity frame: if block_xor_recover_one runs at  *)
(* all, it leaves in the hole the byte that FecEncoder was given, for any  *)
(* N and any data.                                                         *)
THEOREM XorRecovers == Spec => [](blk.K = 1 => RecoveredIsOriginal)
<1>1. XorInv => (blk.K = 1 => RecoveredIsOriginal)
  BY DEF XorInv, RecoveredIsOriginal
<1> QED BY <1>1, InitXorInv, NextXorInv, PTL DEF Spec

-----------------------------------------------------------------------------
(* Sums of bytes.                                                          *)

LEMMA SumEmpty == ASSUME NEW f PROVE xor_sum({}, f) = {}
<1>1. \A n : {k \in {} : n \in f[k]} = {} OBVIOUS
<1>2. Cardinality({}) = 0 BY FS_EmptySet
<1>3. 0 % 2 = 0 OBVIOUS
<1> QED BY <1>1, <1>2, <1>3 DEF xor_sum

LEMMA SumType == ASSUME NEW S, NEW f PROVE xor_sum(S, f) \in Byte
BY DEF xor_sum, Byte

LEMMA SumAgrees ==
  ASSUME NEW S, NEW f, NEW g, \A k \in S : f[k] = g[k]
  PROVE  xor_sum(S, f) = xor_sum(S, g)
<1>1. \A n : {k \in S : n \in f[k]} = {k \in S : n \in g[k]} OBVIOUS
<1> QED BY <1>1 DEF xor_sum

(* One more summand.                                                       *)
LEMMA SumAdd ==
  ASSUME NEW S, IsFiniteSet(S), NEW j, j \notin S, NEW f, f[j] \in Byte
  PROVE  xor_sum(S \cup {j}, f) = gf_add(xor_sum(S, f), f[j])
<1> DEFINE T(n) == {k \in S : n \in f[k]}
           U(n) == {k \in S \cup {j} : n \in f[k]}
<1>1. ASSUME NEW n PROVE IsFiniteSet(T(n)) /\ Cardinality(T(n)) \in Nat /\ j \notin T(n)
  BY FS_Subset, FS_CardinalityType
<1>2. ASSUME NEW n, n \in f[j] PROVE Cardinality(U(n)) = Cardinality(T(n)) + 1
  <2>1. U(n) = T(n) \cup {j} BY <1>2
  <2> HIDE DEF T, U
  <2> QED BY <1>1, <2>1, FS_AddElement
<1>3. ASSUME NEW n, n \notin f[j] PROVE U(n) = T(n)
  BY <1>3
<1>4. \A c \in Nat : (c + 1) % 2 = 1 <=> ~(c % 2 = 1) OBVIOUS
<1>5. xor_sum(S, f) = {n \in Bit : Cardinality(T(n)) % 2 = 1} BY DEF xor_sum
<1>6. xor_sum(S \cup {j}, f) = {n \in Bit : Cardinality(U(n)) % 2 = 1} BY DEF xor_sum
<1> HIDE DEF T, U
<1>7. ASSUME NEW n \in Bit
      PROVE  n \in xor_sum(S \cup {j}, f) <=> n \in gf_add(xor_sum(S, f), f[j])
  <2>1. CASE n \in f[j]
    <3>1. Cardinality(U(n)) % 2 = 1 <=> ~(Cardinality(T(n)) % 2 = 1)
      BY <1>1, <1>2, <1>4, <2>1
    <3> QED BY <1>5, <1>6, <2>1, <3>1 DEF gf_add
  <2>2. CASE n \notin f[j]
    <3>1. U(n) = T(n) BY <1>3, <2>2
    <3> QED BY <1>5, <1>6, <2>2, <3>1 DEF gf_add
  <2> QED BY <2>1, <2>2
<1>8. gf_add(xor_sum(S, f), f[j]) \in Byte BY SumType, AddType
<1>9. xor_sum(S \cup {j}, f) \in Byte BY SumType
<1> QED BY <1>7, <1>8, <1>9 DEF Byte

(* The sum over an initial segment, one summand at a time.                 *)
LEMMA SumStep ==
  ASSUME NEW n \in Nat, NEW f, f[n] \in Byte
  PROVE  xor_sum(0 .. n, f) = gf_add(xor_sum(0 .. n - 1, f), f[n])
<1>1. 0 .. n = (0 .. n - 1) \cup {n} /\ n \notin 0 .. n - 1 OBVIOUS
<1>2. IsFiniteSet(0 .. n - 1) BY FS_Interval
<1> QED BY <1>1, <1>2, SumAdd

LEMMA SumNone == ASSUME NEW f PROVE xor_sum(0 .. 0 - 1, f) = {}
<1>1. 0 .. 0 - 1 = {} OBVIOUS
<1> QED BY <1>1, SumEmpty

-----------------------------------------------------------------------------
(* Rows of at most four unknowns.                                          *)

Row(V, X, n) == xor_sum(0 .. n - 1, [c \in 0 .. n - 1 |-> gf_mul(V[c], X[c])])

(* The sum of the first k terms of a row of n.                             *)
Upto(V, X, n, k) == xor_sum(0 .. k - 1, [c \in 0 .. n - 1 |-> gf_mul(V[c], X[c])])

LEMMA UptoStep ==
  ASSUME NEW n \in Nat, NEW k \in 0 .. n - 1, NEW V, V[k] \in Byte, NEW X, X[k] \in Byte
  PROVE  Upto(V, X, n, k + 1) = gf_add(Upto(V, X, n, k), gf_mul(V[k], X[k]))
<1> DEFINE f == [c \in 0 .. n - 1 |-> gf_mul(V[c], X[c])]
<1>1. f[k] = gf_mul(V[k], X[k]) /\ f[k] \in Byte BY MulType
<1>2. k \in Nat /\ (k + 1) - 1 = k OBVIOUS
<1> HIDE DEF f
<1>3. xor_sum(0 .. k, f) = gf_add(xor_sum(0 .. k - 1, f), f[k]) BY <1>1, <1>2, SumStep
<1> QED BY <1>1, <1>2, <1>3 DEF Upto, f

LEMMA UptoType == ASSUME NEW V, NEW X, NEW n, NEW k PROVE Upto(V, X, n, k) \in Byte
BY SumType DEF Upto

LEMMA UptoNone == ASSUME NEW V, NEW X, NEW n PROVE Upto(V, X, n, 0) = {}
BY SumNone DEF Upto

(* What holds for no summand and is kept by one more holds up to four.     *)
LEMMA FourSteps ==
  ASSUME NEW n \in 0 .. 4, NEW G, 0 \in G, \A k \in 0 .. n - 1 : k \in G => k + 1 \in G
  PROVE  n \in G
<1>1. n > 0 => 1 \in G OBVIOUS
<1>2. n > 1 => 2 \in G BY <1>1
<1>3. n > 2 => 3 \in G BY <1>2
<1>4. n > 3 => 4 \in G BY <1>3
<1> QED BY <1>1, <1>2, <1>3, <1>4

(* (a + b) + (c + d) = (a + c) + (b + d).                                  *)
LEMMA AddSwaps ==
  ASSUME NEW x \in Byte, NEW y \in Byte, NEW z \in Byte, NEW w \in Byte
  PROVE  gf_add(gf_add(x, y), gf_add(z, w)) = gf_add(gf_add(x, z), gf_add(y, w))
BY DEF gf_add

(* Adding a times row W to row V adds a times its value.                   *)
LEMMA RowCombines ==
  ASSUME NEW n \in 0 .. 4, NEW a \in Byte,
         NEW V \in [0 .. n - 1 -> Byte], NEW W \in [0 .. n - 1 -> Byte],
         NEW X \in [0 .. n - 1 -> Byte], NEW Z,
         \A c \in 0 .. n - 1 : Z[c] = gf_add(V[c], gf_mul(a, W[c]))
  PROVE  Row(Z, X, n) = gf_add(Row(V, X, n), gf_mul(a, Row(W, X, n)))
<1> DEFINE Same(k) == Upto(Z, X, n, k) = gf_add(Upto(V, X, n, k), gf_mul(a, Upto(W, X, n, k)))
           G == {k \in 0 .. n : Same(k)}
<1>1. Same(0)
  <2>1. gf_mul(a, {}) = {} BY MulType
  <2>2. gf_add({}, {}) = {} BY DEF gf_add
  <2> QED BY <2>1, <2>2, UptoNone
<1>2. ASSUME NEW k \in 0 .. n - 1, Same(k) PROVE Same(k + 1)
  <2>1. V[k] \in Byte /\ W[k] \in Byte /\ X[k] \in Byte OBVIOUS
  <2>2. gf_mul(a, W[k]) \in Byte BY <2>1, MulType
  <2>3. Z[k] = gf_add(V[k], gf_mul(a, W[k])) /\ Z[k] \in Byte BY <2>1, <2>2, AddType
  <2>4. gf_mul(Z[k], X[k]) = gf_add(gf_mul(V[k], X[k]), gf_mul(gf_mul(a, W[k]), X[k]))
    BY <2>1, <2>2, <2>3, MulDistributes
  <2>5. gf_mul(gf_mul(a, W[k]), X[k]) = gf_mul(a, gf_mul(W[k], X[k])) BY <2>1, MulAssociates
  <2> DEFINE v == Upto(V, X, n, k)  w == Upto(W, X, n, k)
             p == gf_mul(V[k], X[k])  q == gf_mul(W[k], X[k])
  <2>6. v \in Byte /\ w \in Byte /\ p \in Byte /\ q \in Byte BY <2>1, UptoType, MulType
  <2>7. Upto(Z, X, n, k + 1) = gf_add(gf_add(v, gf_mul(a, w)), gf_add(p, gf_mul(a, q)))
    <3>1. Upto(Z, X, n, k + 1) = gf_add(Upto(Z, X, n, k), gf_mul(Z[k], X[k]))
      BY <2>1, <2>3, UptoStep
    <3> QED BY <1>2, <2>4, <2>5, <3>1
  <2>8. Upto(V, X, n, k + 1) = gf_add(v, p) /\ Upto(W, X, n, k + 1) = gf_add(w, q)
    BY <2>1, UptoStep
  <2> HIDE DEF v, w, p, q
  <2>9. gf_mul(a, gf_add(w, q)) = gf_add(gf_mul(a, w), gf_mul(a, q)) BY <2>6, MulDistributes
  <2>10. gf_mul(a, w) \in Byte /\ gf_mul(a, q) \in Byte BY <2>6, MulType
  <2>11. gf_add(gf_add(v, gf_mul(a, w)), gf_add(p, gf_mul(a, q)))
           = gf_add(gf_add(v, p), gf_add(gf_mul(a, w), gf_mul(a, q)))
    BY <2>6, <2>10, AddSwaps
  <2> QED BY <2>7, <2>8, <2>9, <2>11
<1> HIDE DEF Same
<1>3. 0 \in G BY <1>1
<1>4. \A k \in 0 .. n - 1 : k \in G => k + 1 \in G BY <1>2
<1> HIDE DEF G
<1>5. n \in G BY <1>3, <1>4, FourSteps
<1> QED BY <1>5 DEF G, Same, Row, Upto

(* A multiple of a row has the multiple of its value.                      *)
LEMMA RowScales ==
  ASSUME NEW n \in 0 .. 4, NEW a \in Byte, NEW W \in [0 .. n - 1 -> Byte],
         NEW X \in [0 .. n - 1 -> Byte], NEW Z,
         \A c \in 0 .. n - 1 : Z[c] = gf_mul(a, W[c])
  PROVE  Row(Z, X, n) = gf_mul(a, Row(W, X, n))
<1> DEFINE V == [c \in 0 .. n - 1 |-> {}]
           Same(k) == Upto(V, X, n, k) = {}
           G == {k \in 0 .. n : Same(k)}
<1>0. {} \in Byte BY DEF Byte
<1>1. V \in [0 .. n - 1 -> Byte] BY <1>0
<1>2. \A c \in 0 .. n - 1 : Z[c] = gf_add(V[c], gf_mul(a, W[c]))
  BY DEF gf_add
<1>3. \A c \in 0 .. n - 1 : V[c] = {} OBVIOUS
<1> HIDE DEF V
<1>4. Row(Z, X, n) = gf_add(Row(V, X, n), gf_mul(a, Row(W, X, n))) BY <1>1, <1>2, RowCombines
<1>5. 0 \in G BY UptoNone
<1>6. ASSUME NEW k \in 0 .. n - 1, k \in G PROVE k + 1 \in G
  <2>1. X[k] \in Byte /\ n \in Nat OBVIOUS
  <2>v. V[k] = {} BY <1>3, Zenon
  <2>w. V[k] \in Byte BY <1>0, <2>v, Zenon
  <2>2. Upto(V, X, n, k + 1) = gf_add(Upto(V, X, n, k), gf_mul(V[k], X[k]))
    <3> HIDE DEF G
    <3> QED BY <2>1, <2>w, UptoStep
  <2>3. gf_mul(V[k], X[k]) = {} BY <2>1, <2>v, MulType
  <2> QED BY <1>6, <2>2, <2>3 DEF gf_add
<1> HIDE DEF G
<1>7. n \in G BY <1>5, <1>6, FourSteps
<1>8. Row(V, X, n) = {} BY <1>7 DEF G, Row, Upto
<1> QED BY <1>4, <1>8 DEF gf_add

(* A unit row has the value of its unknown.                                *)
LEMMA RowUnit ==
  ASSUME NEW n \in 0 .. 4, NEW r \in 0 .. n - 1, NEW V,
         NEW X \in [0 .. n - 1 -> Byte],
         \A c \in 0 .. n - 1 : V[c] = IF c = r THEN one ELSE {}
  PROVE  Row(V, X, n) = X[r]
<1> DEFINE Same(k) == Upto(V, X, n, k) = IF r < k THEN X[r] ELSE {}
           G == {k \in 0 .. n : Same(k)}
<1>0. {} \in Byte /\ one \in Byte BY DEF Byte, one, Bit
<1>1. 0 \in G BY UptoNone
<1>2. ASSUME NEW k \in 0 .. n - 1, k \in G PROVE k + 1 \in G
  <2>1. X[k] \in Byte /\ V[k] \in Byte BY <1>0
  <2>2. Upto(V, X, n, k + 1) = gf_add(Upto(V, X, n, k), gf_mul(V[k], X[k]))
    BY <2>1, UptoStep
  <2>3. CASE k = r
    <3>1. gf_mul(V[k], X[k]) = X[k] BY <2>1, <2>3, MulOne
    <3>2. Upto(V, X, n, k) = {} BY <1>2, <2>3
    <3>3. Upto(V, X, n, k + 1) = X[r] BY <2>2, <2>3, <3>1, <3>2 DEF gf_add
    <3> QED BY <2>3, <3>3
  <2>4. CASE k # r
    <3>1. gf_mul(V[k], X[k]) = {} BY <2>1, <2>4, MulType
    <3>2. Upto(V, X, n, k + 1) = Upto(V, X, n, k) BY <2>2, <3>1 DEF gf_add
    <3>3. r < k + 1 <=> r < k BY <2>4
    <3> QED BY <1>2, <3>2, <3>3
  <2> QED BY <2>3, <2>4
<1> HIDE DEF G
<1>3. n \in G BY <1>1, <1>2, FourSteps
<1>4. r < n OBVIOUS
<1> QED BY <1>3, <1>4 DEF G, Row, Upto

-----------------------------------------------------------------------------
(* Counting the elements below each numbers a finite set of naturals from  *)
(* 0, and nth is the inverse.                                              *)

rank(S, s) == Cardinality({t \in S : t < s})

LEMMA RankRange ==
  ASSUME NEW S \in SUBSET Nat, IsFiniteSet(S), NEW s \in S
  PROVE  rank(S, s) \in 0 .. Cardinality(S) - 1
<1> DEFINE T == {t \in S : t < s}
<1>1. T \in SUBSET S /\ s \notin T OBVIOUS
<1> HIDE DEF T
<1>2. /\ IsFiniteSet(T) /\ Cardinality(T) <= Cardinality(S)
      /\ Cardinality(S) = Cardinality(T) => S = T
  BY <1>1, FS_Subset
<1>3. Cardinality(T) \in Nat /\ Cardinality(S) \in Nat BY <1>2, FS_CardinalityType
<1>4. Cardinality(T) \in 0 .. Cardinality(S) - 1 BY <1>1, <1>2, <1>3
<1> QED BY <1>4 DEF T, rank

LEMMA RankGrows ==
  ASSUME NEW S \in SUBSET Nat, IsFiniteSet(S), NEW s \in S, NEW u \in S, s < u
  PROVE  rank(S, s) < rank(S, u)
<1> DEFINE T == {t \in S : t < s}  U == {t \in S : t < u}
<1>0. \A t \in S : t < s => t < u OBVIOUS
<1>1. T \in SUBSET U /\ s \notin T /\ s \in U /\ U \in SUBSET S
  <2>1. s \in Nat /\ ~(s < s) OBVIOUS
  <2>2. s \notin T /\ s \in U /\ U \in SUBSET S BY <2>1
  <2>3. \A t \in T : t \in U BY <1>0
  <2> QED BY <2>2, <2>3
<1> HIDE DEF T, U
<1>2. IsFiniteSet(U) BY <1>1, FS_Subset
<1>3. /\ IsFiniteSet(T) /\ Cardinality(T) <= Cardinality(U)
      /\ Cardinality(U) = Cardinality(T) => U = T
  BY <1>1, <1>2, FS_Subset
<1>4. Cardinality(T) \in Nat /\ Cardinality(U) \in Nat BY <1>2, <1>3, FS_CardinalityType
<1>5. Cardinality(T) < Cardinality(U) BY <1>1, <1>3, <1>4
<1> QED BY <1>5 DEF T, U, rank

LEMMA RankInjective ==
  ASSUME NEW S \in SUBSET Nat, IsFiniteSet(S), NEW s \in S, NEW u \in S, rank(S, s) = rank(S, u)
  PROVE  s = u
<1>1. s \in Nat /\ u \in Nat OBVIOUS
<1>2. rank(S, s) \in Int BY RankRange
<1>3. s < u => rank(S, s) < rank(S, u) BY RankGrows
<1>4. u < s => rank(S, u) < rank(S, s) BY RankGrows
<1> QED BY <1>1, <1>2, <1>3, <1>4

(* An injection between sets of one size reaches every number.             *)
LEMMA RankReaches ==
  ASSUME NEW S \in SUBSET Nat, IsFiniteSet(S), NEW k \in 0 .. Cardinality(S) - 1
  PROVE  \E s \in S : rank(S, s) = k
<1> DEFINE n == Cardinality(S)
           T == 0 .. n - 1
           f == [s \in S |-> rank(S, s)]
<1>1. n \in Nat BY FS_CardinalityType
<1>2. IsFiniteSet(T) /\ Cardinality(T) = n
  <2> HIDE DEF n
  <2> QED BY <1>1, FS_Interval
<1>3. f \in [S -> T] BY RankRange
<1>4. \A s, u \in S : f[s] = f[u] => s = u BY RankInjective
<1>5. f \in Injection(S, T) BY <1>3, <1>4 DEF Injection, IsInjective
<1> HIDE DEF f, T
<1>6. f \in Surjection(S, T) BY <1>2, <1>5, FS_Injection DEF n
<1>7. \A t \in T : \E s \in S : f[s] = t BY <1>6 DEF Surjection
<1> QED BY <1>7 DEF f, T

LEMMA NthRank ==
  ASSUME NEW S \in SUBSET Nat, IsFiniteSet(S), NEW k \in 0 .. Cardinality(S) - 1
  PROVE  nth(S, k) \in S /\ rank(S, nth(S, k)) = k
<1>1. \E s \in S : rank(S, s) = k BY RankReaches
<1>2. nth(S, k) = CHOOSE s \in S : rank(S, s) = k BY DEF nth, rank
<1> QED BY <1>1, <1>2

LEMMA RankNth ==
  ASSUME NEW S \in SUBSET Nat, IsFiniteSet(S), NEW s \in S
  PROVE  nth(S, rank(S, s)) = s
<1>1. rank(S, s) \in 0 .. Cardinality(S) - 1 BY RankRange
<1>2. nth(S, rank(S, s)) \in S /\ rank(S, nth(S, rank(S, s))) = rank(S, s) BY <1>1, NthRank
<1>3. \A u, v \in S : rank(S, u) = rank(S, v) => u = v BY RankInjective
<1> QED BY <1>2, <1>3, Zenon

-----------------------------------------------------------------------------
(* A sum over all data, less the data that are there, is the sum over what *)
(* is lost, in the order of the unknowns.                                  *)
LEMMA SumOfLost ==
  ASSUME NEW D \in SUBSET Nat, IsFiniteSet(D), NEW L \in SUBSET D, Cardinality(L) \in 0 .. 4,
         NEW g \in [D -> Byte], NEW h,
         \A c \in 0 .. Cardinality(L) - 1 : h[c] = g[nth(L, c)]
  PROVE  gf_add(xor_sum(D, g), xor_sum(D \ L, g)) = xor_sum(0 .. Cardinality(L) - 1, h)
<1> DEFINE n == Cardinality(L)
           first(k) == {l \in L : rank(L, l) < k}
           Same(k) == xor_sum((D \ L) \cup first(k), g)
                        = gf_add(xor_sum(D \ L, g), xor_sum(0 .. k - 1, h))
           G == {k \in 0 .. n : Same(k)}
<1>1. L \in SUBSET Nat /\ IsFiniteSet(L) /\ IsFiniteSet(D \ L) BY FS_Subset
<1>2. \A l \in L : rank(L, l) \in 0 .. n - 1 BY <1>1, RankRange
<1>3. Same(0)
  <2>0. \A l \in L : ~(rank(L, l) < 0) BY <1>2
  <2>1. first(0) = {} BY <2>0
  <2>2. xor_sum(0 .. 0 - 1, h) = {} BY SumNone
  <2>3. (D \ L) \cup {} = D \ L OBVIOUS
  <2> QED BY <2>1, <2>2, <2>3 DEF gf_add
<1>4. ASSUME NEW k \in 0 .. n - 1, Same(k) PROVE Same(k + 1)
  <2> DEFINE l == nth(L, k)  S == (D \ L) \cup first(k)
  <2>1. l \in L /\ rank(L, l) = k BY <1>1, NthRank
  <2>2. first(k + 1) = first(k) \cup {l}
    <3>1. \A j \in L : rank(L, j) < k + 1 <=> rank(L, j) < k \/ rank(L, j) = k BY <1>2
    <3>0. \A u, v \in L : rank(L, u) = rank(L, v) => u = v BY <1>1, RankInjective
    <3>2. \A j \in L : rank(L, j) = k <=> j = l BY <2>1, <3>0, Zenon
    <3> QED BY <2>1, <3>1, <3>2
  <2>3. l \notin S BY <2>1
  <2>4. IsFiniteSet(S)
    <3>1. S \in SUBSET D OBVIOUS
    <3> QED BY <3>1, FS_Subset
  <2>5. (D \ L) \cup first(k + 1) = S \cup {l} BY <2>2
  <2>6. g[l] \in Byte /\ h[k] = g[l] BY <2>1
  <2> HIDE DEF l, S
  <2>7. xor_sum(S \cup {l}, g) = gf_add(xor_sum(S, g), g[l]) BY <2>3, <2>4, <2>6, SumAdd
  <2>8. xor_sum(0 .. k, h) = gf_add(xor_sum(0 .. k - 1, h), h[k]) BY <2>6, SumStep
  <2>9. xor_sum(S, g) = gf_add(xor_sum(D \ L, g), xor_sum(0 .. k - 1, h)) BY <1>4 DEF S
  <2>10. gf_add(gf_add(xor_sum(D \ L, g), xor_sum(0 .. k - 1, h)), g[l])
           = gf_add(xor_sum(D \ L, g), gf_add(xor_sum(0 .. k - 1, h), g[l]))
    BY <2>6, SumType, AddAssociates
  <2>11. (k + 1) - 1 = k OBVIOUS
  <2> QED BY <2>5, <2>6, <2>7, <2>8, <2>9, <2>10, <2>11
<1> HIDE DEF Same
<1>5. n \in G
  <2>1. n \in 0 .. 4 /\ 0 \in G BY <1>3
  <2>2. \A k \in 0 .. n - 1 : k \in G => k + 1 \in G BY <1>4
  <2> HIDE DEF G, n
  <2> QED BY <2>1, <2>2, FourSteps
<1>6. first(n) = L
  <2>1. \A l \in L : rank(L, l) < n BY <1>2
  <2> QED BY <2>1
<1>7. (D \ L) \cup L = D OBVIOUS
<1>8. xor_sum(D, g) = gf_add(xor_sum(D \ L, g), xor_sum(0 .. n - 1, h))
  BY <1>5, <1>6, <1>7 DEF G, Same
<1> DEFINE y == xor_sum(D \ L, g)  z == xor_sum(0 .. n - 1, h)
<1>9. y \in Byte /\ z \in Byte BY SumType
<1>10. xor_sum(D, g) = gf_add(y, z) BY <1>8
<1> HIDE DEF y, z
<1>11. gf_add(gf_add(y, z), y) = z BY <1>9 DEF gf_add
<1>12. gf_add(xor_sum(D, g), y) = z BY <1>10, <1>11, Zenon
<1> QED BY <1>12 DEF y, z

-----------------------------------------------------------------------------
(* The types, with what makes them inductive.                              *)

gf256 == blk.K \in 2 .. 4

TInv ==
  /\ blk \in Columns
  /\ pc \in {"encode", "travel", "xor", "solve", "done", "left"}
  /\ row \in 0 .. blk.K /\ frame \in 0 .. blk.N
  /\ parity \in [Rows -> Byte] /\ rec \in Byte
  /\ lost \subseteq Data /\ got \subseteq Rows
  /\ col \in 0 .. m
  /\ pc = "encode" /\ gf256 => frame < blk.N
  /\ pc \in {"encode", "travel"} => lost = {} /\ col = 0
  /\ pc = "xor" => blk.K = 1
  /\ pc = "solve" => /\ blk.K > 1 /\ m \in 1 .. 4
                     /\ A \in [0 .. m - 1 -> [0 .. m - 1 -> Byte]]
  /\ pc \in {"solve", "done"} /\ blk.K > 1 => rhs \in [0 .. m - 1 -> Byte]

(* What data frame i adds to parity row r.                                 *)
term(r) == [i \in Data |-> gf_mul(coef(r, i), blk.data[i])]

(* Finished rows are sums over all data, the row at work over the frames   *)
(* it has come to.                                                         *)
Encoded ==
  \A r \in Rows :
    parity[r] = IF pc # "encode" \/ r < row THEN xor_sum(Data, term(r))
                ELSE IF r = row THEN xor_sum(0 .. frame - 1, term(r)) ELSE {}

unknowns == [c \in 0 .. m - 1 |-> blk.data[nth(lost, c)]]

(* The columns eliminated are unit columns.                                *)
Eliminated ==
  \A r \in 0 .. m - 1 : \A k \in 0 .. col - 1 : A[r][k] = IF k = r THEN one ELSE {}

RowsHold == \A r \in 0 .. m - 1 : Row(A[r], unknowns, m) = rhs[r]

GfInv ==
  /\ TInv
  /\ gf256 => /\ Encoded
              /\ pc = "solve" => Eliminated /\ RowsHold
              /\ RecoveredIsOriginal

LEMMA Shape ==
  ASSUME blk \in Columns
  PROVE  /\ blk.N \in Nat \ {0} /\ blk.K \in Nat \ {0} /\ blk.data \in [Data -> Byte]
         /\ Data \in SUBSET Nat /\ IsFiniteSet(Data)
         /\ Rows \in SUBSET Nat /\ IsFiniteSet(Rows)
<1>1. blk.N \in Nat \ {0} /\ blk.K \in Nat \ {0} /\ blk.data \in [Data -> Byte]
  BY ColumnsAssumption DEF Data
<1>2. IsFiniteSet(0 .. blk.N - 1) /\ IsFiniteSet(0 .. blk.K - 1)
  <2>1. 0 \in Int /\ blk.N - 1 \in Int /\ blk.K - 1 \in Int BY <1>1
  <2> QED BY <2>1, FS_Interval
<1> QED BY <1>1, <1>2 DEF Data, Rows

LEMMA CoefType == ASSUME NEW r \in Nat, NEW i \in Nat PROVE coef(r, i) \in Byte
<1>1. r * i \in Nat OBVIOUS
<1> QED BY <1>1, PowType DEF coef

LEMMA TermType ==
  ASSUME blk \in Columns, NEW r \in Nat
  PROVE  term(r) \in [Data -> Byte]
<1>1. ASSUME NEW i \in Data PROVE gf_mul(coef(r, i), blk.data[i]) \in Byte
  <2>1. i \in Nat /\ blk.data[i] \in Byte BY Shape
  <2> QED BY <2>1, CoefType, MulType
<1> QED BY <1>1 DEF term

(* What set-up needs of the sets: the rows used and the holes exist.       *)
LEMMA SystemShape ==
  ASSUME blk \in Columns, NEW L \in SUBSET Data, NEW P \in SUBSET Rows, gf256_applies(L, P)
  PROVE  /\ Cardinality(L) \in 1 .. 4 /\ blk.K > 1
         /\ \A c \in 0 .. Cardinality(L) - 1 : nth(L, c) \in L /\ nth(P, c) \in P
<1>1. L \in SUBSET Nat /\ IsFiniteSet(L) /\ P \in SUBSET Nat /\ IsFiniteSet(P)
  BY Shape, FS_Subset
<1>2. Cardinality(L) \in Nat /\ Cardinality(P) \in Nat /\ Cardinality(L) # 0
  BY <1>1, FS_CardinalityType, FS_EmptySet DEF gf256_applies
<1>3. Cardinality(L) \in 1 .. 4 /\ blk.K > 1 /\ Cardinality(P) >= Cardinality(L)
  BY <1>2, Shape DEF gf256_applies
<1>4. ASSUME NEW c \in 0 .. Cardinality(L) - 1 PROVE nth(L, c) \in L /\ nth(P, c) \in P
  <2>1. c \in 0 .. Cardinality(P) - 1 BY <1>2, <1>3
  <2> QED BY <1>1, <2>1, NthRank
<1> QED BY <1>3, <1>4

LEMMA TravelTypes ==
  ASSUME TInv, NEW L \in SUBSET Data, NEW P \in SUBSET Rows, gf256_applies(L, P), Travel(L, P)
  PROVE  /\ A' \in [0 .. m' - 1 -> [0 .. m' - 1 -> Byte]]
         /\ rhs' \in [0 .. m' - 1 -> Byte]
         /\ m' = Cardinality(L)
         /\ \A r, c \in 0 .. m' - 1 : A'[r][c] = coef(nth(P, r), nth(L, c))
         /\ \A r \in 0 .. m' - 1 : rhs'[r] = right_hand_side(nth(P, r))
<1>0. blk \in Columns /\ parity \in [Rows -> Byte] BY DEF TInv
<1>1. m' = Cardinality(L) BY DEF Travel, m
<1>2. ~xor_applies(L, P) BY <1>0, SystemShape, Shape DEF xor_applies
<1>3. /\ A' = [r \in 0 .. m' - 1 |-> [c \in 0 .. m' - 1 |-> coef(nth(P, r), nth(L, c))]]
      /\ rhs' = [r \in 0 .. m' - 1 |-> right_hand_side(nth(P, r))]
  BY <1>2 DEF Travel
<1>4. \A c \in 0 .. m' - 1 : nth(L, c) \in L /\ nth(P, c) \in P BY <1>0, <1>1, SystemShape
<1>5. L \in SUBSET Nat /\ P \in SUBSET Nat BY <1>0, Shape
<1>6. ASSUME NEW r \in 0 .. m' - 1, NEW c \in 0 .. m' - 1
      PROVE  coef(nth(P, r), nth(L, c)) \in Byte
  <2>1. nth(P, r) \in Nat /\ nth(L, c) \in Nat BY <1>4, <1>5
  <2> QED BY <2>1, CoefType
<1>7. ASSUME NEW r \in 0 .. m' - 1 PROVE right_hand_side(nth(P, r)) \in Byte
  <2>1. parity[nth(P, r)] \in Byte BY <1>0, <1>4
  <2> QED BY <2>1, SumType, AddType DEF right_hand_side
<1> QED BY <1>1, <1>3, <1>6, <1>7

(* One column: there is a pivot row p, whose entries are not all zero.     *)
LEMMA PivotRow ==
  ASSUME TInv, SolveColumn
  PROVE  \E p \in col .. m - 1 :
           /\ A[p][col] # {}
           /\ A' = [r \in 0 .. m - 1 |-> [k \in 0 .. m - 1 |->
                      IF k < col THEN A[r][k]
                      ELSE eliminated(from(r, p), p, A[from(r, p)][k], A[p][k])]]
           /\ rhs' = [r \in 0 .. m - 1 |-> eliminated(from(r, p), p, rhs[from(r, p)], rhs[p])]
<1>1. m \in 1 .. 4 /\ col \in 0 .. m /\ pivots # {} BY DEF TInv, SolveColumn
<1>2. pivots \in SUBSET (col .. m - 1) BY DEF pivots
<1>3. IsFiniteSet(col .. m - 1) /\ col .. m - 1 \in SUBSET Nat BY <1>1, FS_Interval
<1>4. IsFiniteSet(pivots) /\ pivots \in SUBSET Nat BY <1>2, <1>3, FS_Subset
<1>5. Cardinality(pivots) \in Nat /\ Cardinality(pivots) # 0
  BY <1>1, <1>4, FS_CardinalityType, FS_EmptySet
<1>6. 0 \in 0 .. Cardinality(pivots) - 1 BY <1>5
<1>7. nth(pivots, 0) \in pivots BY <1>4, <1>6, NthRank
<1>8. nth(pivots, 0) \in col .. m - 1 /\ A[nth(pivots, 0)][col] # {} BY <1>7 DEF pivots
<1> QED BY <1>8 DEF SolveColumn

LEMMA EliminatedType ==
  ASSUME TInv, SolveColumn, NEW p \in col .. m - 1, A[p][col] # {},
         NEW r \in 0 .. m - 1, NEW v \in Byte, NEW w \in Byte
  PROVE  /\ gf_inv(A[p][col]) \in Byte /\ scaled(p, v) \in Byte /\ A[r][col] \in Byte
         /\ eliminated(r, p, v, w) \in Byte
<1>1. m \in 1 .. 4 /\ col \in 0 .. m - 1 /\ A \in [0 .. m - 1 -> [0 .. m - 1 -> Byte]]
  BY DEF TInv, SolveColumn
<1>2. p \in 0 .. m - 1 BY <1>1
<1>3. A[p][col] \in Byte /\ A[r][col] \in Byte BY <1>1, <1>2
<1>4. gf_inv(A[p][col]) \in Byte BY <1>3, MulInverse
<1>5. scaled(p, v) \in Byte /\ scaled(p, w) \in Byte BY <1>4, MulType DEF scaled
<1>6. gf_mul(A[r][col], scaled(p, w)) \in Byte BY <1>3, <1>5, MulType
<1>7. gf_add(v, gf_mul(A[r][col], scaled(p, w))) \in Byte BY <1>6, AddType
<1> QED BY <1>3, <1>4, <1>5, <1>7 DEF eliminated

LEMMA InitTInv == Init => TInv
<1> SUFFICES ASSUME Init PROVE TInv OBVIOUS
<1>1. blk \in Columns BY DEF Init
<1>2. blk.N \in Nat \ {0} /\ blk.K \in Nat \ {0} BY <1>1, Shape
<1>3. m = 0 BY FS_EmptySet DEF Init, m
<1>4. {} \in Byte BY DEF Byte
<1> QED BY <1>1, <1>2, <1>3, <1>4 DEF Init, TInv, gf256

LEMMA NextTInv == TInv /\ [Next]_vars => TInv'
<1> SUFFICES ASSUME TInv, [Next]_vars PROVE TInv' OBVIOUS
<1>1. blk' = blk
  BY DEF Next, Encode, Recover, EncodeXor, EncodeGf256, EncodeEnd, Travel, XorFrame, XorEnd,
         SolveColumn, SolveFails, SolveEnd, vars
<1>2. /\ blk \in Columns /\ row \in 0 .. blk.K /\ frame \in 0 .. blk.N
      /\ parity \in [Rows -> Byte] /\ rec \in Byte
      /\ lost \subseteq Data /\ got \subseteq Rows /\ col \in 0 .. m
  BY DEF TInv
<1>3. /\ blk.N \in Nat \ {0} /\ blk.K \in Nat \ {0} /\ blk.data \in [Data -> Byte]
      /\ 0 \in Rows /\ Data' = Data /\ Rows' = Rows /\ gf256' = gf256
  BY <1>1, <1>2, Shape DEF Rows, Data, gf256
<1>4. CASE EncodeXor
  <2>1. /\ pc = "encode" /\ frame < blk.N /\ ~gf256 /\ frame' = frame + 1
        /\ parity' = [parity EXCEPT ![0] = gf_add(@, blk.data[frame])]
        /\ UNCHANGED <<pc, row, lost, got, rec, A, rhs, col>>
    BY <1>4 DEF EncodeXor, pick_scheme, gf256
  <2>2. frame \in Data BY <1>2, <1>3, <2>1 DEF Data
  <2>3. gf_add(parity[0], blk.data[frame]) \in Byte BY <1>2, <1>3, <2>2, AddType
  <2>4. parity' \in [Rows -> Byte] BY <1>2, <2>1, <2>3
  <2>5. frame' \in 0 .. blk.N BY <1>2, <1>3, <2>1
  <2>6. m' = m BY <2>1 DEF m
  <2> QED BY <1>1, <1>3, <2>1, <2>4, <2>5, <2>6 DEF TInv
<1>5. CASE EncodeGf256
  <2>1. /\ pc = "encode" /\ row < blk.K
        /\ parity' = [parity EXCEPT ![row] = gf_add(@, gf_mul(coef(row, frame), blk.data[frame]))]
        /\ \/ frame + 1 < blk.N /\ frame' = frame + 1 /\ row' = row
           \/ frame' = 0 /\ row' = row + 1
        /\ UNCHANGED <<pc, lost, got, rec, A, rhs, col>>
    BY <1>5 DEF EncodeGf256, coef
  <2>2. gf256 BY <1>3, <1>5 DEF EncodeGf256, pick_scheme, gf256
  <2>3. frame \in Data /\ row \in Rows BY <1>2, <1>3, <2>1, <2>2 DEF TInv, Data, Rows
  <2>4. row \in Nat /\ frame \in Nat BY <1>2
  <2>5. gf_mul(coef(row, frame), blk.data[frame]) \in Byte
    BY <1>3, <2>3, <2>4, CoefType, MulType
  <2>6. gf_add(parity[row], gf_mul(coef(row, frame), blk.data[frame])) \in Byte
    BY <1>2, <2>3, <2>5, AddType
  <2>7. parity' \in [Rows -> Byte] BY <1>2, <2>1, <2>6
  <2>8. frame' \in 0 .. blk.N /\ row' \in 0 .. blk.K /\ frame' < blk.N
    BY <1>2, <1>3, <2>1
  <2>9. m' = m BY <2>1 DEF m
  <2> QED BY <1>1, <1>3, <2>1, <2>7, <2>8, <2>9 DEF TInv
<1>6. CASE EncodeEnd
  <2>1. pc = "encode" /\ pc' = "travel" /\ UNCHANGED <<row, frame, parity, lost, got, rec, A, rhs, col>>
    BY <1>6 DEF EncodeEnd
  <2>2. m' = m BY <2>1 DEF m
  <2> QED BY <1>1, <1>3, <2>1, <2>2 DEF TInv
<1>7. ASSUME pc = "travel", NEW L \in Losses, NEW P \in SUBSET Rows, L \subseteq Data, Travel(L, P)
      PROVE  TInv'
  <2>1. lost' = L /\ got' = P /\ UNCHANGED <<blk, row, parity, col>> BY <1>7 DEF Travel
  <2>2. L \in SUBSET Data /\ IsFiniteSet(L) BY <1>2, <1>7, Shape, FS_Subset
  <2>3. m' = Cardinality(L) /\ m' \in Nat BY <2>1, <2>2, FS_CardinalityType DEF m
  <2>4. col' = 0 /\ col' \in 0 .. m' BY <1>7, <2>1, <2>3 DEF TInv
  <2>5. lost' \subseteq Data' /\ got' \subseteq Rows' BY <1>3, <2>1, <2>2
  <2>6. CASE xor_applies(L, P)
    <3>1. blk.K = 1 BY <2>6 DEF xor_applies
    <3>2. ~gf256_applies(L, P) BY <3>1 DEF gf256_applies
    <3>3. pc' = "xor" /\ rec' = parity[0] /\ frame' = 0 BY <1>7, <2>6, <3>2 DEF Travel
    <3>4. rec' \in Byte /\ frame' \in 0 .. blk.N BY <1>2, <1>3, <3>3
    <3> QED BY <1>1, <1>2, <1>3, <2>1, <2>4, <2>5, <3>1, <3>3, <3>4 DEF TInv
  <2>7. CASE gf256_applies(L, P)
    <3>1. Cardinality(L) \in 1 .. 4 /\ blk.K > 1 BY <1>2, <2>2, <2>7, SystemShape
    <3>2. ~xor_applies(L, P) BY <3>1 DEF xor_applies
    <3>3. pc' = "solve" /\ UNCHANGED <<rec, frame>> BY <1>7, <2>7, <3>2 DEF Travel
    <3>4. /\ A' \in [0 .. m' - 1 -> [0 .. m' - 1 -> Byte]]
          /\ rhs' \in [0 .. m' - 1 -> Byte]
      BY <1>7, <2>2, <2>7, TravelTypes
    <3> QED BY <1>1, <1>2, <1>3, <2>1, <2>3, <2>4, <2>5, <3>1, <3>3, <3>4 DEF TInv
  <2>8. CASE ~xor_applies(L, P) /\ ~gf256_applies(L, P)
    <3>1. pc' = "left" /\ UNCHANGED <<rec, frame>> BY <1>7, <2>8 DEF Travel
    <3> QED BY <1>1, <1>2, <1>3, <2>1, <2>4, <2>5, <3>1 DEF TInv
  <2> QED BY <2>6, <2>7, <2>8
<1>8. CASE XorFrame
  <2>1. /\ pc = "xor" /\ frame < blk.N /\ frame' = frame + 1
        /\ rec' = IF frame \in lost THEN rec ELSE gf_add(rec, blk.data[frame])
        /\ UNCHANGED <<pc, row, parity, lost, got, A, rhs, col>>
    BY <1>8 DEF XorFrame
  <2>2. frame \in Data /\ frame' \in 0 .. blk.N BY <1>2, <1>3, <2>1 DEF Data
  <2>3. rec' \in Byte BY <1>2, <1>3, <2>1, <2>2, AddType
  <2>4. m' = m BY <2>1 DEF m
  <2> QED BY <1>1, <1>3, <2>1, <2>2, <2>3, <2>4 DEF TInv
<1>9. CASE XorEnd
  <2>1. pc = "xor" /\ pc' = "done" /\ UNCHANGED <<row, frame, parity, lost, got, rec, A, rhs, col>>
    BY <1>9 DEF XorEnd
  <2>2. m' = m /\ blk.K = 1 BY <2>1 DEF m, TInv
  <2> QED BY <1>1, <1>3, <2>1, <2>2 DEF TInv
<1>10. CASE SolveColumn
  <2>1. /\ pc = "solve" /\ col < m /\ col' = col + 1
        /\ UNCHANGED <<pc, row, frame, parity, lost, got, rec>>
    BY <1>10 DEF SolveColumn
  <2>2. m' = m BY <2>1 DEF m
  <2>3. /\ blk.K > 1 /\ m \in 1 .. 4 /\ A \in [0 .. m - 1 -> [0 .. m - 1 -> Byte]]
        /\ rhs \in [0 .. m - 1 -> Byte] /\ col \in 0 .. m - 1
    BY <1>2, <2>1 DEF TInv
  <2>4. PICK p \in col .. m - 1 :
          /\ A[p][col] # {}
          /\ A' = [r \in 0 .. m - 1 |-> [k \in 0 .. m - 1 |->
                     IF k < col THEN A[r][k]
                     ELSE eliminated(from(r, p), p, A[from(r, p)][k], A[p][k])]]
          /\ rhs' = [r \in 0 .. m - 1 |-> eliminated(from(r, p), p, rhs[from(r, p)], rhs[p])]
    BY <1>10, PivotRow
  <2>5. p \in 0 .. m - 1 BY <2>3
  <2>6. ASSUME NEW r \in 0 .. m - 1 PROVE from(r, p) \in 0 .. m - 1
    BY <2>3, <2>5 DEF from
  <2>7. ASSUME NEW r \in 0 .. m - 1, NEW k \in 0 .. m - 1
        PROVE  eliminated(from(r, p), p, A[from(r, p)][k], A[p][k]) \in Byte
    <3>1. A[from(r, p)][k] \in Byte /\ A[p][k] \in Byte BY <2>3, <2>5, <2>6
    <3> QED BY <1>10, <2>4, <2>6, <3>1, EliminatedType
  <2>8. ASSUME NEW r \in 0 .. m - 1
        PROVE  eliminated(from(r, p), p, rhs[from(r, p)], rhs[p]) \in Byte
    <3>1. rhs[from(r, p)] \in Byte /\ rhs[p] \in Byte BY <2>3, <2>5, <2>6
    <3> QED BY <1>10, <2>4, <2>6, <3>1, EliminatedType
  <2>9. A' \in [0 .. m - 1 -> [0 .. m - 1 -> Byte]]
    BY <2>3, <2>4, <2>7
  <2>10. rhs' \in [0 .. m - 1 -> Byte] BY <2>4, <2>8
  <2>11. col' \in 0 .. m BY <2>1, <2>3
  <2> QED BY <1>1, <1>2, <1>3, <2>1, <2>2, <2>3, <2>9, <2>10, <2>11 DEF TInv
<1>11. CASE SolveFails
  <2>1. pc = "solve" /\ pc' = "left" /\ UNCHANGED <<row, frame, parity, lost, got, rec, A, rhs, col>>
    BY <1>11 DEF SolveFails
  <2>2. m' = m BY <2>1 DEF m
  <2> QED BY <1>1, <1>2, <1>3, <2>1, <2>2 DEF TInv
<1>12. CASE SolveEnd
  <2>1. pc = "solve" /\ pc' = "done" /\ UNCHANGED <<row, frame, parity, lost, got, rec, A, rhs, col>>
    BY <1>12 DEF SolveEnd
  <2>2. m' = m BY <2>1 DEF m
  <2> QED BY <1>1, <1>2, <1>3, <2>1, <2>2 DEF TInv
<1>13. CASE UNCHANGED vars
  <2>1. m' = m BY <1>13 DEF vars, m
  <2> QED BY <1>1, <1>2, <1>3, <1>13, <2>1 DEF vars, TInv
<1> QED
  BY <1>4, <1>5, <1>6, <1>7, <1>8, <1>9, <1>10, <1>11, <1>12, <1>13 DEF Next, Encode, Recover

(* The loop counters of encoder, XOR walk and elimination stay within the  *)
(* block, and the bytes and the system they fill stay typed, for every N   *)
(* and K.                                                                  *)
THEOREM Types == Spec => []ECTypeOK
<1>1. TInv => ECTypeOK BY DEF TInv, ECTypeOK
<1> QED BY <1>1, InitTInv, NextTInv, PTL DEF Spec

(* Encoding fills the rows.                                                *)
LEMMA EncodeKeeps ==
  ASSUME GfInv, gf256, EncodeGf256 PROVE Encoded'
<1>1. /\ blk \in Columns /\ row \in 0 .. blk.K - 1 /\ frame \in 0 .. blk.N - 1
      /\ parity \in [Rows -> Byte] /\ pc = "encode" /\ pc' = pc /\ blk' = blk
      /\ Encoded /\ blk.N \in Nat \ {0} /\ blk.K \in Nat \ {0}
      /\ blk.data \in [Data -> Byte]
  BY Shape DEF GfInv, TInv, EncodeGf256
<1>2. /\ parity' = [parity EXCEPT ![row] = gf_add(@, gf_mul(coef(row, frame), blk.data[frame]))]
      /\ \/ frame + 1 < blk.N /\ frame' = frame + 1 /\ row' = row
         \/ ~(frame + 1 < blk.N) /\ frame' = 0 /\ row' = row + 1
  BY DEF EncodeGf256, coef
<1>3. Rows' = Rows /\ Data' = Data /\ \A r \in Rows : term(r)' = term(r)
  BY <1>1 DEF Rows, Data, term, coef
<1>4. row \in Rows /\ frame \in Data /\ row \in Nat /\ frame \in Nat BY <1>1 DEF Rows, Data
<1>5. parity'[row] = xor_sum(0 .. frame, term(row))
  <2>1. parity[row] = xor_sum(0 .. frame - 1, term(row)) BY <1>1, <1>4 DEF Encoded
  <2>2. term(row)[frame] = gf_mul(coef(row, frame), blk.data[frame]) BY <1>4 DEF term
  <2>3. term(row)[frame] \in Byte BY <1>1, <1>4, TermType
  <2>4. xor_sum(0 .. frame, term(row)) = gf_add(xor_sum(0 .. frame - 1, term(row)), term(row)[frame])
    BY <1>4, <2>3, SumStep
  <2> QED BY <1>1, <1>2, <1>4, <2>1, <2>2, <2>4
<1>6. \A r \in Rows : r # row => parity'[r] = parity[r] BY <1>1, <1>2
<1>7. \A r \in Rows : r \in Nat BY DEF Rows
<1>8. CASE frame + 1 < blk.N
  <2>1. frame' = frame + 1 /\ row' = row BY <1>2, <1>8
  <2>2. (frame + 1) - 1 = frame BY <1>4
  <2>3. ASSUME NEW r \in Rows
        PROVE  parity'[r] = IF r < row THEN xor_sum(Data, term(r))
                            ELSE IF r = row THEN xor_sum(0 .. frame, term(r)) ELSE {}
    <3>1. CASE r = row
      <4>1. ~(r < row) BY <1>4, <3>1
      <4> QED BY <1>5, <3>1, <4>1, Zenon
    <3>2. CASE r # row
      <4>1. parity'[r] = parity[r] BY <1>6, <3>2
      <4>2. parity[r] = IF r < row THEN xor_sum(Data, term(r)) ELSE {}
        BY <1>1, <3>2 DEF Encoded
      <4> QED BY <3>2, <4>1, <4>2
    <3> QED BY <3>1, <3>2
  <2> QED BY <1>1, <1>3, <2>1, <2>2, <2>3 DEF Encoded
<1>9. CASE ~(frame + 1 < blk.N)
  <2>1. frame' = 0 /\ row' = row + 1 BY <1>2, <1>9
  <2>2. 0 .. frame = Data BY <1>1, <1>9 DEF Data
  <2>3. \A r \in Rows : xor_sum(0 .. 0 - 1, term(r)) = {} BY SumNone
  <2>4. ASSUME NEW r \in Rows
        PROVE  parity'[r] = IF r < row + 1 THEN xor_sum(Data, term(r)) ELSE {}
    <3>1. CASE r = row BY <1>4, <1>5, <2>2, <3>1
    <3>2. CASE r # row
      <4>1. r < row + 1 <=> r < row BY <1>4, <1>7, <3>2
      <4>2. parity'[r] = parity[r] BY <1>6, <3>2
      <4>3. parity[r] = IF r < row THEN xor_sum(Data, term(r)) ELSE {}
        BY <1>1, <3>2 DEF Encoded
      <4> QED BY <4>1, <4>2, <4>3
    <3> QED BY <3>1, <3>2
  <2> QED BY <1>1, <1>3, <2>1, <2>3, <2>4 DEF Encoded
<1> QED BY <1>8, <1>9

(* The system that Travel sets up holds for the bytes that were sent.      *)
LEMMA SetUpHolds ==
  ASSUME GfInv, gf256, pc = "travel", NEW L \in SUBSET Data, NEW P \in SUBSET Rows,
         gf256_applies(L, P), Travel(L, P)
  PROVE  RowsHold' /\ Eliminated'
<1>1. blk \in Columns /\ Encoded /\ col = 0 BY DEF GfInv, TInv
<1>2. blk' = blk /\ lost' = L /\ col' = col BY DEF Travel
<1>3. /\ m' = Cardinality(L)
      /\ \A r, c \in 0 .. m' - 1 : A'[r][c] = coef(nth(P, r), nth(L, c))
      /\ \A r \in 0 .. m' - 1 : rhs'[r] = right_hand_side(nth(P, r))
  BY TravelTypes DEF GfInv
<1>4. /\ Cardinality(L) \in 1 .. 4
      /\ \A c \in 0 .. Cardinality(L) - 1 : nth(L, c) \in L /\ nth(P, c) \in P
  BY <1>1, SystemShape
<1> DEFINE n == Cardinality(L)
           X == [c \in 0 .. n - 1 |-> blk.data[nth(L, c)]]
<1>5. unknowns' = X BY <1>2, <1>3 DEF unknowns
<1>6. ASSUME NEW r \in 0 .. n - 1 PROVE Row(A'[r], X, n) = rhs'[r]
  <2> DEFINE q == nth(P, r)
             h == [c \in 0 .. n - 1 |-> gf_mul(A'[r][c], X[c])]
  <2>1. q \in Rows /\ q \in Nat
    <3>1. q \in P /\ Rows \in SUBSET Nat BY <1>1, <1>4, Shape
    <3> HIDE DEF q
    <3> QED BY <3>1
  <2>2. \A c \in 0 .. n - 1 : h[c] = term(q)[nth(L, c)]
    <3>1. ASSUME NEW c \in 0 .. n - 1 PROVE h[c] = term(q)[nth(L, c)]
      <4>1. nth(L, c) \in Data BY <1>4
      <4>2. A'[r][c] = coef(q, nth(L, c)) BY <1>3
      <4>3. X[c] = blk.data[nth(L, c)] OBVIOUS
      <4>4. h[c] = gf_mul(A'[r][c], X[c]) OBVIOUS
      <4> HIDE DEF h, X, q
      <4> QED BY <4>1, <4>2, <4>3, <4>4 DEF term
    <3> QED BY <3>1
  <2>3. rhs'[r] = gf_add(parity[q], xor_sum(Data \ L, term(q)))
    <3>1. rhs'[r] = right_hand_side(q) BY <1>3
    <3> HIDE DEF q
    <3> QED BY <1>2, <3>1 DEF right_hand_side, term
  <2>4. parity[q] = xor_sum(Data, term(q)) BY <1>1, <2>1 DEF Encoded
  <2>5. term(q) \in [Data -> Byte] BY <1>1, <2>1, TermType
  <2>6. Data \in SUBSET Nat /\ IsFiniteSet(Data) BY <1>1, Shape
  <2>7. Cardinality(L) \in 0 .. 4 BY <1>4
  <2>8. Row(A'[r], X, n) = xor_sum(0 .. n - 1, h) BY DEF Row
  <2> HIDE DEF h, q
  <2>9. gf_add(xor_sum(Data, term(q)), xor_sum(Data \ L, term(q))) = xor_sum(0 .. n - 1, h)
    BY <2>2, <2>5, <2>6, <2>7, SumOfLost
  <2> QED BY <2>3, <2>4, <2>8, <2>9
<1>7. RowsHold'
  <2>1. \A r \in 0 .. n - 1 : Row(A'[r], X, n) = rhs'[r] BY <1>6
  <2> HIDE DEF X
  <2> QED BY <1>3, <1>5, <2>1 DEF RowsHold
<1>8. Eliminated' BY <1>1, <1>2 DEF Eliminated
<1> QED BY <1>7, <1>8

(* What one column of the elimination does to every row, p being the pivot *)
(* row, in all columns: in those the code skips the pivot row is zero.     *)
ClearsBy(p) ==
  /\ p \in col .. m - 1 /\ A[p][col] \in Byte /\ A[p][col] # {}
  /\ \A r \in 0 .. m - 1 :
       /\ from(r, p) \in 0 .. m - 1
       /\ rhs'[r] = eliminated(from(r, p), p, rhs[from(r, p)], rhs[p])
       /\ \A k \in 0 .. m - 1 :
            /\ A'[r][k] = eliminated(from(r, p), p, A[from(r, p)][k], A[p][k])
            /\ k < col => A'[r][k] = A[r][k]

LEMMA ColumnClears ==
  ASSUME GfInv, gf256, SolveColumn PROVE \E p \in col .. m - 1 : ClearsBy(p)
<1>1. /\ m \in 1 .. 4 /\ col \in 0 .. m - 1
      /\ A \in [0 .. m - 1 -> [0 .. m - 1 -> Byte]] /\ Eliminated
  BY DEF GfInv, TInv, SolveColumn
<1>2. PICK p \in col .. m - 1 :
        /\ A[p][col] # {}
        /\ A' = [r \in 0 .. m - 1 |-> [k \in 0 .. m - 1 |->
                   IF k < col THEN A[r][k]
                   ELSE eliminated(from(r, p), p, A[from(r, p)][k], A[p][k])]]
        /\ rhs' = [r \in 0 .. m - 1 |-> eliminated(from(r, p), p, rhs[from(r, p)], rhs[p])]
  BY PivotRow DEF GfInv
<1>3. p \in 0 .. m - 1 /\ A[p][col] \in Byte /\ gf_inv(A[p][col]) \in Byte
  <2>1. p \in 0 .. m - 1 BY <1>1
  <2>2. A[p][col] \in Byte BY <1>1, <2>1
  <2> QED BY <1>2, <2>1, <2>2, MulInverse
<1>4. scaled(p, {}) = {} BY <1>3, MulType DEF scaled
<1>5. ASSUME NEW r \in 0 .. m - 1
      PROVE  /\ from(r, p) \in 0 .. m - 1
             /\ rhs'[r] = eliminated(from(r, p), p, rhs[from(r, p)], rhs[p])
             /\ \A k \in 0 .. m - 1 :
                  /\ A'[r][k] = eliminated(from(r, p), p, A[from(r, p)][k], A[p][k])
                  /\ k < col => A'[r][k] = A[r][k]
  <2>1. from(r, p) \in 0 .. m - 1 BY <1>1, <1>3 DEF from
  <2>2. ASSUME NEW k \in 0 .. m - 1
        PROVE  A'[r][k] = eliminated(from(r, p), p, A[from(r, p)][k], A[p][k])
    <3>1. CASE ~(k < col) BY <1>2, <3>1
    <3>2. CASE k < col
      <4>1. k \in 0 .. col - 1 /\ k # p /\ p > k BY <1>1, <1>2, <3>2
      <4>2. A[p][k] = {} BY <1>1, <1>3, <4>1 DEF Eliminated
      <4>3. A'[r][k] = A[r][k] BY <1>2, <3>2
      <4>4. A[from(r, p)][col] \in Byte BY <1>1, <2>1
      <4>5. gf_mul(A[from(r, p)][col], {}) = {} BY <4>4, MulType
      <4>6. A[from(r, p)][k] = A[r][k]
        <5>1. \A s \in 0 .. m - 1 : s >= col => A[s][k] = {}
          BY <1>1, <4>1 DEF Eliminated
        <5>2. from(r, p) = r \/ (r >= col /\ from(r, p) >= col) BY <1>1, <1>2 DEF from
        <5> QED BY <2>1, <5>1, <5>2
      <4>7. \A v : gf_add(v, {}) = v BY DEF gf_add
      <4>8. from(r, p) = p => A[r][k] = {} BY <4>2, <4>6
      <4> QED BY <1>4, <4>2, <4>3, <4>5, <4>6, <4>7, <4>8 DEF eliminated
    <3> QED BY <3>1, <3>2
  <2>3. \A k \in 0 .. m - 1 : k < col => A'[r][k] = A[r][k] BY <1>2
  <2>4. rhs'[r] = eliminated(from(r, p), p, rhs[from(r, p)], rhs[p]) BY <1>2
  <2> QED BY <2>1, <2>2, <2>3, <2>4
<1> QED BY <1>2, <1>3, <1>5 DEF ClearsBy

(* The value of a row, whatever stands for the unknowns, follows the row.  *)
LEMMA RowFollows ==
  ASSUME GfInv, gf256, SolveColumn, NEW p \in col .. m - 1, ClearsBy(p),
         NEW X \in [0 .. m - 1 -> Byte], NEW r \in 0 .. m - 1
  PROVE  Row(A'[r], X, m) = eliminated(from(r, p), p, Row(A[from(r, p)], X, m), Row(A[p], X, m))
<1>1. m \in 1 .. 4 /\ col \in 0 .. m - 1 /\ A \in [0 .. m - 1 -> [0 .. m - 1 -> Byte]]
  BY DEF GfInv, TInv, SolveColumn
<1>2. PICK inv \in Byte : inv = gf_inv(A[p][col]) BY MulInverse DEF ClearsBy
<1>3. \A w : scaled(p, w) = gf_mul(w, inv) BY <1>2 DEF scaled
<1>4. PICK s \in 0 .. m - 1 :
        s = from(r, p) /\ \A k \in 0 .. m - 1 : A'[r][k] = eliminated(s, p, A[s][k], A[p][k])
  BY DEF ClearsBy
<1>5. /\ p \in 0 .. m - 1 /\ A[s] \in [0 .. m - 1 -> Byte] /\ A[p] \in [0 .. m - 1 -> Byte]
      /\ A[s][col] \in Byte /\ m \in 0 .. 4
  BY <1>1
<1>6. \A V \in [0 .. m - 1 -> Byte] : \A Z :
        (\A k \in 0 .. m - 1 : Z[k] = gf_mul(inv, V[k]))
          => Row(Z, X, m) = gf_mul(inv, Row(V, X, m))
  BY <1>5, RowScales
<1>a. PICK a \in Byte : a = A[s][col] BY <1>5
<1>7. \A V, U \in [0 .. m - 1 -> Byte] : \A Z :
        (\A k \in 0 .. m - 1 : Z[k] = gf_add(V[k], gf_mul(a, U[k])))
          => Row(Z, X, m) = gf_add(Row(V, X, m), gf_mul(a, Row(U, X, m)))
  BY <1>5, RowCombines
<1>8. Row(A[p], X, m) \in Byte BY SumType DEF Row
<1> DEFINE W == [k \in 0 .. m - 1 |-> scaled(p, A[p][k])]
<1>9. \A k \in 0 .. m - 1 : W[k] = gf_mul(inv, A[p][k]) /\ W[k] \in Byte
  <2>1. ASSUME NEW k \in 0 .. m - 1 PROVE W[k] = gf_mul(inv, A[p][k]) /\ W[k] \in Byte
    <3>1. A[p][k] \in Byte BY <1>5
    <3> QED BY <1>3, <3>1, MulType
  <2> QED BY <2>1
<1>10. W \in [0 .. m - 1 -> Byte] BY <1>9
<1>11. \A k \in 0 .. m - 1 : W[k] = scaled(p, A[p][k]) OBVIOUS
<1> HIDE DEF W
<1>12. Row(W, X, m) = scaled(p, Row(A[p], X, m))
  <2>1. Row(W, X, m) = gf_mul(inv, Row(A[p], X, m)) BY <1>5, <1>6, <1>9, Zenon
  <2> QED BY <1>3, <1>8, <2>1, MulType
<1>13. CASE s = p
  <2>1. \A k \in 0 .. m - 1 : A'[r][k] = gf_mul(inv, A[p][k])
    BY <1>4, <1>9, <1>11, <1>13 DEF eliminated
  <2>2. Row(A'[r], X, m) = gf_mul(inv, Row(A[p], X, m)) BY <1>5, <1>6, <2>1, Zenon
  <2> QED BY <1>3, <1>4, <1>8, <1>13, <2>2, MulType DEF eliminated
<1>14. CASE s # p
  <2>1. \A k \in 0 .. m - 1 : A'[r][k] = gf_add(A[s][k], gf_mul(a, W[k]))
    BY <1>4, <1>11, <1>14, <1>a DEF eliminated
  <2>2. Row(A'[r], X, m) = gf_add(Row(A[s], X, m), gf_mul(a, Row(W, X, m)))
    BY <1>5, <1>7, <1>10, <2>1, Zenon
  <2> QED BY <1>4, <1>12, <1>14, <1>a, <2>2 DEF eliminated
<1> QED BY <1>13, <1>14

(* So one column keeps the equations, and leaves its own column a unit.    *)
LEMMA ColumnKeeps ==
  ASSUME GfInv, gf256, SolveColumn
  PROVE  RowsHold' /\ Eliminated'
<1>1. /\ m \in 1 .. 4 /\ col \in 0 .. m - 1
      /\ A \in [0 .. m - 1 -> [0 .. m - 1 -> Byte]]
      /\ Eliminated /\ RowsHold /\ blk \in Columns /\ lost \in SUBSET Data
  BY DEF GfInv, TInv, SolveColumn
<1>2. m' = m /\ col' = col + 1 /\ blk' = blk /\ lost' = lost BY DEF SolveColumn, m
<1> DEFINE X == unknowns
<1>3. X \in [0 .. m - 1 -> Byte] /\ X' = X
  <2>1. lost \in SUBSET Nat /\ IsFiniteSet(lost) /\ blk.data \in [Data -> Byte]
    BY <1>1, Shape, FS_Subset
  <2>2. \A c \in 0 .. m - 1 : nth(lost, c) \in lost BY <2>1, NthRank DEF m
  <2>3. \A c \in 0 .. m - 1 : blk.data[nth(lost, c)] \in Byte BY <1>1, <2>1, <2>2
  <2> QED BY <1>2, <2>3 DEF unknowns
<1> HIDE DEF X
<1>4. PICK p \in col .. m - 1 : ClearsBy(p) BY ColumnClears
<1>5. p \in 0 .. m - 1 /\ scaled(p, A[p][col]) = one
  <2>1. gf_mul(A[p][col], gf_inv(A[p][col])) = one BY <1>4, MulInverse DEF ClearsBy
  <2> QED BY <1>1, <2>1 DEF scaled
<1>6. ASSUME NEW r \in 0 .. m - 1 PROVE Row(A'[r], X, m) = rhs'[r]
  <2>1. from(r, p) \in 0 .. m - 1 /\ rhs'[r] = eliminated(from(r, p), p, rhs[from(r, p)], rhs[p])
    BY <1>4 DEF ClearsBy
  <2>2. Row(A[from(r, p)], X, m) = rhs[from(r, p)] /\ Row(A[p], X, m) = rhs[p]
    BY <1>1, <1>5, <2>1 DEF RowsHold, X
  <2>3. Row(A'[r], X, m)
          = eliminated(from(r, p), p, Row(A[from(r, p)], X, m), Row(A[p], X, m))
    BY <1>3, <1>4, RowFollows
  <2> QED BY <2>1, <2>2, <2>3
<1>7. RowsHold' BY <1>2, <1>3, <1>6 DEF RowsHold, X
<1>8. ASSUME NEW r \in 0 .. m - 1 PROVE A'[r][col] = IF col = r THEN one ELSE {}
  <2>1. /\ from(r, p) \in 0 .. m - 1
        /\ A'[r][col] = eliminated(from(r, p), p, A[from(r, p)][col], A[p][col])
    BY <1>1, <1>4 DEF ClearsBy
  <2>2. CASE r = col
    <3>1. from(r, p) = p BY <2>2 DEF from
    <3> QED BY <1>5, <2>1, <2>2, <3>1 DEF eliminated
  <2>3. CASE r # col
    <3>1. from(r, p) # p BY <2>3 DEF from
    <3>2. A[from(r, p)][col] \in Byte BY <1>1, <2>1
    <3>3. gf_mul(A[from(r, p)][col], one) = A[from(r, p)][col] BY <3>2, MulOne
    <3>4. \A v : gf_add(v, v) = {} BY DEF gf_add
    <3> QED BY <1>5, <2>1, <2>3, <3>1, <3>3, <3>4 DEF eliminated
  <2> QED BY <2>2, <2>3
<1>9. Eliminated'
  <2>1. ASSUME NEW r \in 0 .. m - 1, NEW k \in 0 .. col - 1
        PROVE  A'[r][k] = IF k = r THEN one ELSE {}
    <3>1. k \in 0 .. m - 1 /\ k < col BY <1>1
    <3>2. A'[r][k] = A[r][k] BY <1>4, <3>1 DEF ClearsBy
    <3> QED BY <1>1, <3>2 DEF Eliminated
  <2>2. \A k \in 0 .. (col + 1) - 1 : k = col \/ k \in 0 .. col - 1 BY <1>1
  <2> QED BY <1>2, <1>8, <2>1, <2>2 DEF Eliminated
<1> QED BY <1>7, <1>9

(* An eliminated system is the solution.                                   *)
LEMMA EndSolves ==
  ASSUME GfInv, gf256, SolveEnd
  PROVE  \A i \in lost : out'[i] = blk.data[i]
<1>1. /\ m \in 1 .. 4 /\ col = m /\ Eliminated /\ RowsHold
      /\ blk \in Columns /\ lost \in SUBSET Data
  BY DEF GfInv, TInv, SolveEnd
<1>2. lost \in SUBSET Nat /\ IsFiniteSet(lost) /\ blk.data \in [Data -> Byte]
  BY <1>1, Shape, FS_Subset
<1>3. unknowns \in [0 .. m - 1 -> Byte]
  <2>1. \A c \in 0 .. m - 1 : nth(lost, c) \in lost BY <1>2, NthRank DEF m
  <2>2. \A c \in 0 .. m - 1 : blk.data[nth(lost, c)] \in Byte BY <1>1, <1>2, <2>1
  <2> QED BY <2>2 DEF unknowns
<1>4. ASSUME NEW i \in lost PROVE out'[i] = blk.data[i]
  <2> DEFINE r == rank(lost, i)
  <2>1. r \in 0 .. m - 1 BY <1>2, RankRange DEF m
  <2>2. nth(lost, r) = i BY <1>2, RankNth
  <2>3. out'[i] = rhs[r] BY DEF SolveEnd, rank
  <2> HIDE DEF r
  <2>4. \A c \in 0 .. m - 1 : A[r][c] = IF c = r THEN one ELSE {}
    BY <1>1, <2>1 DEF Eliminated
  <2>5. m \in 0 .. 4 BY <1>1
  <2>6. Row(A[r], unknowns, m) = unknowns[r] BY <1>3, <2>1, <2>4, <2>5, RowUnit
  <2>7. unknowns[r] = blk.data[i] BY <2>1, <2>2 DEF unknowns
  <2> QED BY <1>1, <2>1, <2>3, <2>6, <2>7 DEF RowsHold
<1> QED BY <1>4

LEMMA InitGfInv == Init => GfInv
<1> SUFFICES ASSUME Init PROVE GfInv OBVIOUS
<1>1. TInv BY InitTInv
<1>2. blk \in Columns /\ row = 0 /\ frame = 0 /\ pc = "encode"
      /\ parity = [r \in Rows |-> {}]
  BY DEF Init
<1>3. \A r \in Rows : r \in Nat /\ parity[r] = {} BY <1>2, Shape
<1>4. \A r : xor_sum(0 .. 0 - 1, term(r)) = {} BY SumNone
<1>5. Encoded BY <1>2, <1>3, <1>4 DEF Encoded
<1> QED BY <1>1, <1>2, <1>5 DEF GfInv, RecoveredIsOriginal

(* With two to four parity frames every step keeps the sums and the rows.  *)
LEMMA NextGfInv == GfInv /\ [Next]_vars => GfInv'
<1> SUFFICES ASSUME GfInv, [Next]_vars PROVE GfInv' OBVIOUS
<1>1. TInv' BY NextTInv DEF GfInv
<1>2. blk' = blk /\ (gf256' <=> gf256) /\ Rows' = Rows /\ Data' = Data
      /\ \A r : term(r)' = term(r)
  BY DEF Next, Encode, Recover, EncodeXor, EncodeGf256, EncodeEnd, Travel, XorFrame, XorEnd,
         SolveColumn, SolveFails, SolveEnd, vars, gf256, Rows, Data, term, coef
<1>3. CASE ~gf256 BY <1>1, <1>2, <1>3 DEF GfInv
<1>4. CASE gf256
  <2>1. TInv /\ Encoded /\ blk \in Columns /\ blk.K # 1 /\ row \in 0 .. blk.K
    BY <1>4 DEF GfInv, TInv, gf256
  (* Once encoding is over, nothing changes the parity bytes.              *)
  <2>2. ASSUME pc # "encode", pc' # "encode", parity' = parity PROVE Encoded'
    BY <1>2, <2>1, <2>2 DEF Encoded
  <2>3. CASE EncodeXor BY <1>4, <2>3 DEF EncodeXor, pick_scheme, gf256
  <2>4. CASE EncodeGf256
    <3>1. pc' = "encode" BY <2>4 DEF EncodeGf256
    <3>2. Encoded' BY <1>4, <2>4, EncodeKeeps
    <3> QED BY <1>1, <3>1, <3>2 DEF GfInv, RecoveredIsOriginal
  <2>5. CASE EncodeEnd
    <3>1. row = blk.K /\ pc' = "travel" /\ parity' = parity
      BY <1>4, <2>5 DEF EncodeEnd, pick_scheme, gf256
    <3>2. \A r \in Rows : r < row BY <2>1, <3>1, Shape DEF Rows
    <3>3. Encoded' BY <1>2, <2>1, <3>1, <3>2 DEF Encoded
    <3> QED BY <1>1, <3>1, <3>3 DEF GfInv, RecoveredIsOriginal
  <2>6. ASSUME pc = "travel", NEW L \in Losses, NEW P \in SUBSET Rows, L \subseteq Data, Travel(L, P)
        PROVE  GfInv'
    <3>1. ~xor_applies(L, P) BY <2>1 DEF xor_applies
    <3>2. CASE gf256_applies(L, P)
      <4>1. pc' = "solve" /\ parity' = parity BY <2>6, <3>1, <3>2 DEF Travel
      <4>2. RowsHold' /\ Eliminated' BY <1>4, <2>6, <3>2, SetUpHolds
      <4>3. Encoded' BY <2>2, <2>6, <4>1
      <4> QED BY <1>1, <4>1, <4>2, <4>3 DEF GfInv, RecoveredIsOriginal
    <3>3. CASE ~gf256_applies(L, P)
      <4>1. pc' = "left" /\ parity' = parity BY <2>6, <3>1, <3>3 DEF Travel
      <4>2. Encoded' BY <2>2, <2>6, <4>1
      <4> QED BY <1>1, <4>1, <4>2 DEF GfInv, RecoveredIsOriginal
    <3> QED BY <3>2, <3>3
  <2>7. CASE XorFrame \/ XorEnd BY <2>1, <2>7 DEF TInv, XorFrame, XorEnd
  <2>8. CASE SolveColumn
    <3>1. pc = "solve" /\ pc' = pc /\ parity' = parity BY <2>8 DEF SolveColumn
    <3>2. RowsHold' /\ Eliminated' BY <1>4, <2>8, ColumnKeeps
    <3>3. Encoded' BY <2>2, <3>1
    <3> QED BY <1>1, <3>1, <3>2, <3>3 DEF GfInv, RecoveredIsOriginal
  <2>9. CASE SolveFails
    <3>1. pc = "solve" /\ pc' = "left" /\ parity' = parity BY <2>9 DEF SolveFails
    <3>2. Encoded' BY <2>2, <3>1
    <3> QED BY <1>1, <3>1, <3>2 DEF GfInv, RecoveredIsOriginal
  <2>10. CASE SolveEnd
    <3>1. pc = "solve" /\ pc' = "done" /\ parity' = parity /\ lost' = lost BY <2>10 DEF SolveEnd
    <3>2. \A i \in lost : out'[i] = blk.data[i] BY <1>4, <2>10, EndSolves
    <3>3. Encoded' BY <2>2, <3>1
    <3> QED BY <1>1, <1>2, <3>1, <3>2, <3>3 DEF GfInv, RecoveredIsOriginal
  <2>11. CASE UNCHANGED vars
    <3>1. UNCHANGED <<m, unknowns>> BY <2>11 DEF vars, m, unknowns
    <3>2. Encoded' /\ (Eliminated' <=> Eliminated) /\ (RowsHold' <=> RowsHold)
      BY <1>2, <2>1, <2>11, <3>1 DEF vars, Encoded, Eliminated, RowsHold
    <3> QED BY <1>1, <1>2, <2>11, <3>2 DEF GfInv, RecoveredIsOriginal, vars
  <2> QED
    BY <2>3, <2>4, <2>5, <2>6, <2>7, <2>8, <2>9, <2>10, <2>11 DEF Next, Encode, Recover
<1> QED BY <1>3, <1>4

LEMMA RowsAreSystem == GfInv => (gf256 => SystemHoldsForSent)
<1> SUFFICES ASSUME GfInv, gf256, pc = "solve", NEW r \in 0 .. m - 1
             PROVE  xor_sum(0 .. m - 1, [c \in 0 .. m - 1 |-> gf_mul(A[r][c], blk.data[nth(lost, c)])])
                      = rhs[r]
  BY DEF SystemHoldsForSent
<1>1. Row(A[r], unknowns, m) = rhs[r] BY DEF GfInv, RowsHold
<1>2. [c \in 0 .. m - 1 |-> gf_mul(A[r][c], unknowns[c])]
        = [c \in 0 .. m - 1 |-> gf_mul(A[r][c], blk.data[nth(lost, c)])]
  BY DEF unknowns
<1> QED BY <1>1, <1>2 DEF Row

(* Block recovery, both codes: whatever extract_closed writes into a hole  *)
(* is the byte the sender had there. K <= 4 is what fec_sender admits;     *)
(* beyond it FecEncoder and the decoder disagree about the code.           *)
THEOREM RecoveryIsExact == Spec => [](blk.K <= 4 => RecoveredIsOriginal)
<1>1. GfInv /\ XorInv => (blk.K <= 4 => RecoveredIsOriginal)
  <2> SUFFICES ASSUME GfInv, XorInv, blk.K <= 4 PROVE RecoveredIsOriginal OBVIOUS
  <2>1. blk.K = 1 \/ gf256 BY Shape DEF XorInv, gf256
  <2> QED BY <2>1 DEF GfInv, XorInv, RecoveredIsOriginal
<1> QED BY <1>1, InitXorInv, NextXorInv, InitGfInv, NextGfInv, PTL DEF Spec

(* The elimination of solve_gf256 loses nothing: from set-up to the end    *)
(* the bytes that were sent satisfy every row of the system.               *)
THEOREM SystemHolds == Spec => [](blk.K <= 4 => SystemHoldsForSent)
<1>1. GfInv => (blk.K <= 4 => SystemHoldsForSent)
  <2> SUFFICES ASSUME GfInv, blk.K <= 4, pc = "solve" PROVE SystemHoldsForSent
    BY DEF SystemHoldsForSent
  <2>1. gf256 BY Shape DEF GfInv, TInv, gf256
  <2> QED BY <2>1, RowsAreSystem
<1> QED BY <1>1, InitGfInv, NextGfInv, PTL DEF Spec

-----------------------------------------------------------------------------
(* When a system has one solution.                                         *)

zero == {}

LEMMA Zero ==
  /\ zero \in Byte
  /\ \A x \in Byte : /\ gf_mul(x, zero) = zero /\ gf_mul(zero, x) = zero
                      /\ gf_add(x, zero) = x /\ gf_add(zero, x) = x /\ gf_add(x, x) = zero
  /\ \A x, y \in Byte : gf_add(x, y) = zero <=> x = y
<1>1. zero \in Byte BY DEF zero, Byte
<1>2. \A x \in Byte : gf_mul(x, zero) = zero /\ gf_mul(zero, x) = zero BY MulType DEF zero
<1>3. \A x \in Byte : gf_add(x, zero) = x /\ gf_add(zero, x) = x /\ gf_add(x, x) = zero
  BY DEF zero, gf_add
<1>4. \A x, y \in Byte : gf_add(x, y) = zero <=> x = y BY DEF zero, gf_add
<1> QED BY <1>1, <1>2, <1>3, <1>4

LEMMA NoZeroDivisors ==
  ASSUME NEW x \in Byte, NEW y \in Byte, gf_mul(x, y) = zero, x # zero
  PROVE  y = zero
<1>1. gf_inv(x) \in Byte /\ gf_mul(x, gf_inv(x)) = one BY MulInverse DEF zero
<1> PICK u \in Byte : u = gf_inv(x) BY <1>1
<1>2. gf_mul(gf_mul(u, x), y) = gf_mul(u, gf_mul(x, y)) BY MulAssociates
<1>3. gf_mul(u, x) = one BY <1>1, MulType
<1>4. gf_mul(u, zero) = zero BY Zero
<1> QED BY <1>2, <1>3, <1>4, MulOne

LEMMA MulSwaps ==
  ASSUME NEW x \in Byte, NEW y \in Byte, NEW z \in Byte
  PROVE  gf_mul(x, gf_mul(y, z)) = gf_mul(y, gf_mul(x, z))
<1>1. gf_mul(gf_mul(x, y), z) = gf_mul(x, gf_mul(y, z)) BY MulAssociates
<1>2. gf_mul(gf_mul(y, x), z) = gf_mul(y, gf_mul(x, z)) BY MulAssociates
<1>3. gf_mul(x, y) = gf_mul(y, x) BY MulType
<1> QED BY <1>1, <1>2, <1>3

(* Sums over two, three and four unknowns, and what it means that rows of  *)
(* exponents 0, 1, .. over coefficients x, y, .. have no value.            *)
three(x, y, z) == gf_add(gf_add(x, y), z)
four(x, y, z, w) == gf_add(three(x, y, z), w)

TwoVanish(x, y, u, v) ==
  /\ x # y
  /\ gf_add(u, v) = zero
  /\ gf_add(gf_mul(x, u), gf_mul(y, v)) = zero

ThreeVanish(x, y, z, u, v, w) ==
  /\ x # y /\ x # z /\ y # z
  /\ three(u, v, w) = zero
  /\ three(gf_mul(x, u), gf_mul(y, v), gf_mul(z, w)) = zero
  /\ three(gf_mul(x, gf_mul(x, u)), gf_mul(y, gf_mul(y, v)), gf_mul(z, gf_mul(z, w))) = zero

FourVanish(x, y, z, k, u, v, w, t) ==
  /\ x # y /\ x # z /\ y # z /\ x # k /\ y # k /\ z # k
  /\ four(u, v, w, t) = zero
  /\ four(gf_mul(x, u), gf_mul(y, v), gf_mul(z, w), gf_mul(k, t)) = zero
  /\ four(gf_mul(x, gf_mul(x, u)), gf_mul(y, gf_mul(y, v)),
          gf_mul(z, gf_mul(z, w)), gf_mul(k, gf_mul(k, t))) = zero
  /\ four(gf_mul(x, gf_mul(x, gf_mul(x, u))), gf_mul(y, gf_mul(y, gf_mul(y, v))),
          gf_mul(z, gf_mul(z, gf_mul(z, w))), gf_mul(k, gf_mul(k, gf_mul(k, t)))) = zero

LEMMA TwoRows ==
  \A x, y, u, v \in Byte : TwoVanish(x, y, u, v) => u = zero /\ v = zero
<1> TAKE x, y, u, v \in Byte
<1>h. SUFFICES ASSUME TwoVanish(x, y, u, v) PROVE u = zero /\ v = zero OBVIOUS
<1>1. u = v BY <1>h, Zero DEF TwoVanish
<1>2. gf_mul(gf_add(x, y), u) = gf_add(gf_mul(x, u), gf_mul(y, u)) BY MulDistributes
<1>3. gf_mul(gf_add(x, y), u) = zero BY <1>1, <1>2, <1>h DEF TwoVanish
<1>4. gf_add(x, y) \in Byte /\ gf_add(x, y) # zero BY <1>h, AddType, Zero DEF TwoVanish
<1>5. u = zero BY <1>3, <1>4, NoZeroDivisors
<1> QED BY <1>1, <1>5

(* x times u, less z times u.                                              *)
less(x, z, u) == gf_mul(gf_add(x, z), u)

LEMMA LessIs ==
  \A x, z, u \in Byte : /\ less(x, z, u) \in Byte
                        /\ less(x, z, u) = gf_add(gf_mul(x, u), gf_mul(z, u))
<1> TAKE x, z, u \in Byte
<1> PICK d \in Byte : d = gf_add(x, z) BY AddType
<1>1. gf_mul(gf_add(x, z), u) = gf_add(gf_mul(x, u), gf_mul(z, u)) BY MulDistributes, Zenon
<1>2. gf_mul(d, u) \in Byte BY MulType, Zenon
<1> QED BY <1>1, <1>2 DEF less

LEMMA LessMoves ==
  \A x, z, u \in Byte : less(x, z, gf_mul(x, u)) = gf_mul(x, less(x, z, u))
<1> TAKE x, z, u \in Byte
<1> PICK d \in Byte : d = gf_add(x, z) BY AddType
<1>1. gf_mul(d, gf_mul(x, u)) = gf_mul(x, gf_mul(d, u)) BY MulSwaps, Zenon
<1> QED BY <1>1 DEF less

LEMMA LessIsZero ==
  \A x, z, u \in Byte : x # z /\ less(x, z, u) = zero => u = zero
<1> TAKE x, z, u \in Byte
<1>h. SUFFICES ASSUME x # z, less(x, z, u) = zero PROVE u = zero OBVIOUS
<1>1. PICK d \in Byte : d = gf_add(x, z) BY AddType
<1>2. d # zero BY <1>h, <1>1, Zero
<1>3. gf_mul(d, u) = zero BY <1>h, <1>1 DEF less
<1> QED BY <1>2, <1>3, NoZeroDivisors, Zenon

(* A row with z as its last coefficient, less z times the row of ones, is a*)
(* row without the last unknown.                                           *)
DropsThird(x, y, z, u, v, w) ==
  gf_add(less(x, z, u), less(y, z, v))
    = gf_add(three(gf_mul(x, u), gf_mul(y, v), gf_mul(z, w)), gf_mul(z, three(u, v, w)))

LEMMA DropThird == \A x, y, z, u, v, w \in Byte : DropsThird(x, y, z, u, v, w)
<1> TAKE x, y, z, u, v, w \in Byte
<1>a. PICK a \in Byte, b \in Byte, c \in Byte :
         a = gf_mul(x, u) /\ b = gf_mul(y, v) /\ c = gf_mul(z, w)
  BY MulType
<1>b. PICK d \in Byte, e \in Byte : d = gf_mul(z, u) /\ e = gf_mul(z, v) BY MulType
<1>1. less(x, z, u) = gf_add(a, d) /\ less(y, z, v) = gf_add(b, e)
  BY <1>a, <1>b, LessIs
<1>2. gf_mul(z, three(u, v, w)) = three(d, e, c)
  <2>1. gf_add(u, v) \in Byte BY AddType
  <2>2. gf_mul(z, gf_add(gf_add(u, v), w)) = gf_add(gf_mul(z, gf_add(u, v)), gf_mul(z, w))
    BY <2>1, MulDistributes
  <2>3. gf_mul(z, gf_add(u, v)) = gf_add(d, e) BY <1>b, MulDistributes
  <2> QED BY <1>a, <2>2, <2>3 DEF three
<1>3. gf_add(gf_add(a, d), gf_add(b, e)) = gf_add(three(a, b, c), three(d, e, c))
  BY DEF three, gf_add
<1> QED BY <1>1, <1>2, <1>3, <1>a DEF DropsThird

(* The same with four unknowns, for rows that have no value.               *)
DropsFourth(x, y, z, k, u, v, w, t) ==
  /\ four(u, v, w, t) = zero
  /\ four(gf_mul(x, u), gf_mul(y, v), gf_mul(z, w), gf_mul(k, t)) = zero
  => three(less(x, k, u), less(y, k, v), less(z, k, w)) = zero

LEMMA DropFourth ==
  \A x, y, z, k, u, v, w, t \in Byte : DropsFourth(x, y, z, k, u, v, w, t)
<1> TAKE x, y, z, k, u, v, w, t \in Byte
<1>h. SUFFICES ASSUME four(u, v, w, t) = zero,
                      four(gf_mul(x, u), gf_mul(y, v), gf_mul(z, w), gf_mul(k, t)) = zero
               PROVE  three(less(x, k, u), less(y, k, v), less(z, k, w)) = zero
  BY DEF DropsFourth
<1>a. PICK a \in Byte, b \in Byte, c \in Byte, d \in Byte :
         a = gf_mul(x, u) /\ b = gf_mul(y, v) /\ c = gf_mul(z, w) /\ d = gf_mul(k, t)
  BY MulType
<1>b. PICK e \in Byte, f \in Byte, g \in Byte :
         e = gf_mul(k, u) /\ f = gf_mul(k, v) /\ g = gf_mul(k, w)
  BY MulType
<1>1. /\ less(x, k, u) = gf_add(a, e) /\ less(y, k, v) = gf_add(b, f)
      /\ less(z, k, w) = gf_add(c, g)
  BY <1>a, <1>b, LessIs
<1>2. t = three(u, v, w) /\ gf_add(u, v) \in Byte
  <2>1. gf_add(u, v) \in Byte BY AddType
  <2>2. three(u, v, w) \in Byte BY <2>1, AddType DEF three
  <2> QED BY <1>h, <2>1, <2>2, Zero DEF four
<1>3. d = three(e, f, g)
  <2>1. gf_mul(k, gf_add(gf_add(u, v), w)) = gf_add(gf_mul(k, gf_add(u, v)), g)
    BY <1>b, <1>2, MulDistributes
  <2>2. gf_mul(k, gf_add(u, v)) = gf_add(e, f) BY <1>b, MulDistributes
  <2> QED BY <1>a, <1>2, <2>1, <2>2 DEF three
<1>4. three(gf_add(a, e), gf_add(b, f), gf_add(c, g)) = four(a, b, c, three(e, f, g))
  BY DEF three, four, gf_add
<1> QED BY <1>1, <1>3, <1>4, <1>a, <1>h

LEMMA ThreeRows ==
  \A x, y, z, u, v, w \in Byte :
    ThreeVanish(x, y, z, u, v, w) => u = zero /\ v = zero /\ w = zero
<1> TAKE x, y, z, u, v, w \in Byte
<1>h. SUFFICES ASSUME ThreeVanish(x, y, z, u, v, w)
               PROVE  u = zero /\ v = zero /\ w = zero
  OBVIOUS
<1>a. PICK xu \in Byte, yv \in Byte, zw \in Byte :
         xu = gf_mul(x, u) /\ yv = gf_mul(y, v) /\ zw = gf_mul(z, w)
  BY MulType
<1>b. PICK p \in Byte, q \in Byte : p = less(x, z, u) /\ q = less(y, z, v) BY LessIs
<1>0. gf_mul(z, zero) = zero /\ gf_add(zero, zero) = zero BY Zero
<1>1. gf_add(p, q) = zero
  <2>1. DropsThird(x, y, z, u, v, w) BY DropThird
  <2> QED BY <1>0, <1>b, <1>h, <2>1 DEF ThreeVanish, DropsThird
<1>2. gf_add(less(x, z, xu), less(y, z, yv)) = zero
  <2>1. DropsThird(x, y, z, xu, yv, zw) BY DropThird
  <2> QED BY <1>0, <1>a, <1>h, <2>1 DEF ThreeVanish, DropsThird
<1>3. gf_add(gf_mul(x, p), gf_mul(y, q)) = zero
  <2>1. less(x, z, xu) = gf_mul(x, p) /\ less(y, z, yv) = gf_mul(y, q)
    BY <1>a, <1>b, LessMoves
  <2> QED BY <1>2, <2>1
<1>4. p = zero /\ q = zero
  <2>1. TwoVanish(x, y, p, q) BY <1>1, <1>3, <1>h DEF TwoVanish, ThreeVanish
  <2> QED BY <2>1, TwoRows
<1>5. u = zero /\ v = zero BY <1>4, <1>b, <1>h, LessIsZero DEF ThreeVanish
<1>6. w = zero
  <2>1. gf_add(gf_add(u, v), w) = zero BY <1>h DEF ThreeVanish, three
  <2> QED BY <1>5, <2>1, Zero
<1> QED BY <1>5, <1>6

LEMMA FourRows ==
  \A x, y, z, k, u, v, w, t \in Byte :
    FourVanish(x, y, z, k, u, v, w, t) => u = zero /\ v = zero /\ w = zero /\ t = zero
<1> TAKE x, y, z, k, u, v, w, t \in Byte
<1>h. SUFFICES ASSUME FourVanish(x, y, z, k, u, v, w, t)
               PROVE  u = zero /\ v = zero /\ w = zero /\ t = zero
  OBVIOUS
<1>a. PICK xu \in Byte, yv \in Byte, zw \in Byte, kt \in Byte :
         xu = gf_mul(x, u) /\ yv = gf_mul(y, v) /\ zw = gf_mul(z, w) /\ kt = gf_mul(k, t)
  BY MulType
<1>b. PICK xxu \in Byte, yyv \in Byte, zzw \in Byte, kkt \in Byte :
         xxu = gf_mul(x, xu) /\ yyv = gf_mul(y, yv) /\ zzw = gf_mul(z, zw) /\ kkt = gf_mul(k, kt)
  BY MulType
<1>c. PICK p \in Byte, q \in Byte, r \in Byte :
         p = less(x, k, u) /\ q = less(y, k, v) /\ r = less(z, k, w)
  BY LessIs
<1>1. three(p, q, r) = zero
  <2>1. DropsFourth(x, y, z, k, u, v, w, t) BY DropFourth
  <2> QED BY <1>c, <1>h, <2>1 DEF FourVanish, DropsFourth
<1>2. less(x, k, xu) = gf_mul(x, p) /\ less(y, k, yv) = gf_mul(y, q) /\ less(z, k, zw) = gf_mul(z, r)
  BY <1>a, <1>c, LessMoves
<1>3. three(gf_mul(x, p), gf_mul(y, q), gf_mul(z, r)) = zero
  <2>1. DropsFourth(x, y, z, k, xu, yv, zw, kt) BY DropFourth
  <2> QED BY <1>2, <1>a, <1>h, <2>1 DEF FourVanish, DropsFourth
<1>4. /\ less(x, k, xxu) = gf_mul(x, gf_mul(x, p)) /\ less(y, k, yyv) = gf_mul(y, gf_mul(y, q))
      /\ less(z, k, zzw) = gf_mul(z, gf_mul(z, r))
  BY <1>2, <1>b, LessMoves
<1>5. three(gf_mul(x, gf_mul(x, p)), gf_mul(y, gf_mul(y, q)), gf_mul(z, gf_mul(z, r))) = zero
  <2>1. DropsFourth(x, y, z, k, xxu, yyv, zzw, kkt) BY DropFourth
  <2> QED BY <1>4, <1>a, <1>b, <1>h, <2>1 DEF FourVanish, DropsFourth
<1>6. p = zero /\ q = zero /\ r = zero
  <2>1. ThreeVanish(x, y, z, p, q, r) BY <1>1, <1>3, <1>5, <1>h DEF ThreeVanish, FourVanish
  <2> QED BY <2>1, ThreeRows
<1>7. u = zero /\ v = zero /\ w = zero BY <1>6, <1>c, <1>h, LessIsZero DEF FourVanish
<1>8. t = zero
  <2>1. gf_add(gf_add(gf_add(u, v), w), t) = zero BY <1>h DEF FourVanish, four, three
  <2> QED BY <1>7, <2>1, Zero
<1> QED BY <1>7, <1>8

(* Exponents 0, 1 and 3.  What the row of exponent 2 would have been is    *)
(* zero too, unless the coefficients add up to zero.                       *)
GapVanish(x, y, z, u, v, w) ==
  /\ x # y /\ x # z /\ y # z /\ three(x, y, z) # zero
  /\ three(u, v, w) = zero
  /\ three(gf_mul(x, u), gf_mul(y, v), gf_mul(z, w)) = zero
  /\ three(gf_mul(x, gf_mul(x, gf_mul(x, u))), gf_mul(y, gf_mul(y, gf_mul(y, v))),
           gf_mul(z, gf_mul(z, gf_mul(z, w)))) = zero

LEMMA RowsWithGap ==
  \A x, y, z, u, v, w \in Byte :
    GapVanish(x, y, z, u, v, w) => u = zero /\ v = zero /\ w = zero
<1> TAKE x, y, z, u, v, w \in Byte
<1>h. SUFFICES ASSUME GapVanish(x, y, z, u, v, w)
               PROVE  u = zero /\ v = zero /\ w = zero
  OBVIOUS
<1>a. PICK xu \in Byte, yv \in Byte, zw \in Byte :
         xu = gf_mul(x, u) /\ yv = gf_mul(y, v) /\ zw = gf_mul(z, w)
  BY MulType
<1>b. PICK xxu \in Byte, yyv \in Byte, zzw \in Byte :
         xxu = gf_mul(x, xu) /\ yyv = gf_mul(y, yv) /\ zzw = gf_mul(z, zw)
  BY MulType
<1>s. PICK s \in Byte : s = three(xxu, yyv, zzw)
  <2>1. gf_add(xxu, yyv) \in Byte BY AddType
  <2>2. gf_add(gf_add(xxu, yyv), zzw) \in Byte BY <2>1, AddType
  <2> QED BY <2>2 DEF three
<1>c. PICK p \in Byte, q \in Byte : p = less(x, z, u) /\ q = less(y, z, v) BY LessIs
<1>d. PICK xp \in Byte, yp \in Byte : xp = gf_mul(x, p) /\ yp = gf_mul(y, p) BY MulType
<1>z. gf_mul(z, zero) = zero /\ gf_add(zero, zero) = zero /\ gf_add(s, zero) = s
  BY Zero
<1>1. p = q
  <2>1. DropsThird(x, y, z, u, v, w) BY DropThird
  <2>2. gf_add(p, q) = zero BY <1>c, <1>h, <1>z, <2>1 DEF GapVanish, DropsThird
  <2> QED BY <2>2, Zero
<1>m. less(x, z, xu) = xp /\ less(y, z, yv) = yp
  <2>1. less(x, z, gf_mul(x, u)) = gf_mul(x, less(x, z, u)) BY LessMoves
  <2>2. less(y, z, gf_mul(y, v)) = gf_mul(y, less(y, z, v)) BY LessMoves
  <2> QED BY <1>1, <1>a, <1>c, <1>d, <2>1, <2>2
<1>2. gf_add(xp, yp) = s
  <2>1. DropsThird(x, y, z, xu, yv, zw) BY DropThird
  <2> QED BY <1>a, <1>b, <1>h, <1>s, <1>z, <1>m, <2>1 DEF GapVanish, DropsThird
<1>3. gf_add(gf_mul(x, xp), gf_mul(y, yp)) = gf_mul(z, s)
  <2>1. DropsThird(x, y, z, xxu, yyv, zzw) BY DropThird
  <2>3. less(x, z, xxu) = gf_mul(x, xp) /\ less(y, z, yyv) = gf_mul(y, yp)
    BY <1>b, <1>m, LessMoves
  <2>4. gf_add(gf_mul(x, xp), gf_mul(y, yp)) = gf_add(zero, gf_mul(z, s))
    BY <1>a, <1>b, <1>h, <1>s, <2>1, <2>3 DEF GapVanish, DropsThird
  <2>5. gf_mul(z, s) \in Byte BY MulType
  <2> QED BY <2>4, <2>5, Zero
(* With d = x + y: d p = s and d s = z s.                                  *)
<1>4. gf_add(gf_mul(x, s), gf_mul(y, s)) = gf_mul(z, s)
  <2>1. gf_mul(x, s) = gf_add(gf_mul(x, xp), gf_mul(x, yp)) BY <1>2, MulDistributes
  <2>2. gf_mul(y, s) = gf_add(gf_mul(y, xp), gf_mul(y, yp)) BY <1>2, MulDistributes
  <2>3. gf_mul(y, xp) = gf_mul(x, yp) BY <1>d, MulSwaps
  <2>4. PICK a \in Byte, b \in Byte, c \in Byte :
           a = gf_mul(x, xp) /\ b = gf_mul(x, yp) /\ c = gf_mul(y, yp)
    BY MulType
  <2>5. gf_add(gf_add(a, b), gf_add(b, c)) = gf_add(a, c) BY DEF gf_add
  <2> QED BY <1>3, <2>1, <2>2, <2>3, <2>4, <2>5
<1>5. gf_mul(three(x, y, z), s) = zero
  <2>1. PICK d \in Byte : d = gf_add(x, y) BY AddType
  <2>2. less(d, z, s) = gf_add(gf_mul(d, s), gf_mul(z, s)) BY LessIs
  <2>3. gf_mul(d, s) = gf_mul(z, s)
    <3>1. less(x, y, s) = gf_add(gf_mul(x, s), gf_mul(y, s)) BY LessIs
    <3> QED BY <1>4, <2>1, <3>1 DEF less
  <2>4. gf_mul(z, s) \in Byte BY MulType
  <2>5. gf_add(gf_mul(z, s), gf_mul(z, s)) = zero BY <2>4, Zero
  <2> QED BY <2>1, <2>2, <2>3, <2>5 DEF three, less
<1>6. s = zero
  <2>1. gf_add(x, y) \in Byte BY AddType
  <2>2. three(x, y, z) \in Byte BY <2>1, AddType DEF three
  <2> QED BY <1>5, <1>h, <2>2, NoZeroDivisors DEF GapVanish
<1>7. ThreeVanish(x, y, z, u, v, w)
  BY <1>6, <1>a, <1>b, <1>h, <1>s DEF GapVanish, ThreeVanish
<1> QED BY <1>7, ThreeRows

-----------------------------------------------------------------------------
(* Powers of alpha.                                                        *)

pw(e) == gf_pow_alpha(e)

LEMMA PowByte ==
  \A e \in Nat : pw(e) \in Byte /\ pw(e) # zero /\ log[pw(e)] = e % 255
<1>0. \A d \in 0 .. 511 : exp[d] \in Byte /\ exp[d] # zero /\ log[exp[d]] = d % 255
  BY ExpEntry DEF zero
<1> TAKE e \in Nat
<1>1. e % 255 \in 0 .. 511 /\ (e % 255) % 255 = e % 255 OBVIOUS
<1>2. PICK d \in 0 .. 511 : d = e % 255 BY <1>1
<1>3. pw(e) = exp[d] BY <1>2 DEF pw, gf_pow_alpha
<1>4. exp[d] \in Byte /\ exp[d] # zero /\ log[exp[d]] = d % 255 BY <1>0
<1>5. d % 255 = e % 255 BY <1>1, <1>2
<1> QED BY <1>3, <1>4, <1>5

LEMMA PowSame ==
  \A d, e \in Nat : pw(d) = pw(e) <=> d % 255 = e % 255
<1> TAKE d, e \in Nat
<1>1. log[pw(d)] = d % 255 /\ log[pw(e)] = e % 255 BY PowByte
<1>2. d % 255 = e % 255 => pw(d) = pw(e) BY DEF pw, gf_pow_alpha
<1> QED BY <1>1, <1>2

LEMMA PowAdd ==
  \A d, e \in Nat : gf_mul(pw(d), pw(e)) = pw(d + e)
<1> TAKE d, e \in Nat
<1>1. PICK i \in 0 .. 254 : i = d % 255 OBVIOUS
<1>2. PICK j \in 0 .. 254 : j = e % 255 OBVIOUS
<1>3. gf_mul(exp[i], exp[j]) = exp[(i + j) % 255] BY MulPowers
<1>4. (i + j) % 255 = (d + e) % 255 BY <1>1, <1>2
<1> QED BY <1>1, <1>2, <1>3, <1>4 DEF pw, gf_pow_alpha

(* Row e of unknown l, times alpha^(gl), is row e + g.                     *)
LEMMA PowShift ==
  \A e, g, l \in Nat : \A a \in Byte :
    gf_mul(pw(g * l), gf_mul(pw(e * l), a)) = gf_mul(pw((e + g) * l), a)
<1> TAKE e, g, l \in Nat
<1> TAKE a \in Byte
<1>1. PICK i \in Nat : i = g * l OBVIOUS
<1>2. PICK j \in Nat : j = e * l OBVIOUS
<1>3. (e + g) * l = i + j BY <1>1, <1>2
<1>4. pw(i) \in Byte /\ pw(j) \in Byte BY PowByte
<1>5. gf_mul(gf_mul(pw(i), pw(j)), a) = gf_mul(pw(i), gf_mul(pw(j), a)) BY <1>4, MulAssociates
<1>6. gf_mul(pw(i), pw(j)) = pw(i + j) BY PowAdd
<1> QED BY <1>1, <1>2, <1>3, <1>5, <1>6

(* Summand of row e: the unknown a at position l.                          *)
at(e, l, a) == gf_mul(pw(e * l), a)

LEMMA AtByte == \A e, l \in Nat : \A a \in Byte : at(e, l, a) \in Byte
<1> TAKE e, l \in Nat
<1> TAKE a \in Byte
<1>1. e * l \in Nat OBVIOUS
<1>2. pw(e * l) \in Byte BY <1>1, PowByte
<1> QED BY <1>2, MulType DEF at

LEMMA AtZero == \A e, l \in Nat : \A a \in Byte : at(e, l, a) = zero => a = zero
<1> TAKE e, l \in Nat
<1> TAKE a \in Byte
<1>1. e * l \in Nat OBVIOUS
<1>2. pw(e * l) \in Byte /\ pw(e * l) # zero BY <1>1, PowByte
<1> QED BY <1>2, NoZeroDivisors DEF at

LEMMA AtShift ==
  \A e, g, l \in Nat : \A a \in Byte : gf_mul(pw(g * l), at(e, l, a)) = at(e + g, l, a)
BY PowShift DEF at

(* Row e over two, three and four holes.                                   *)
twoAt(e, l, j, a, b) == gf_add(at(e, l, a), at(e, j, b))
threeAt(e, l, j, k, a, b, c) == three(at(e, l, a), at(e, j, b), at(e, k, c))
fourAt(e, l, j, k, i, a, b, c, d) == four(at(e, l, a), at(e, j, b), at(e, k, c), at(e, i, d))

Hole == 0 .. 254
Near == 0 .. 20

(* Two holes, rows e and e + g.                                            *)
LEMMA TwoHoles ==
  ASSUME NEW l \in Hole, NEW j \in Hole, l # j, NEW e \in Nat, NEW g \in 1 .. 3,
         g = 3 => l <= 20 /\ j <= 20,
         NEW a \in Byte, NEW b \in Byte,
         twoAt(e, l, j, a, b) = zero, twoAt(e + g, l, j, a, b) = zero
  PROVE  a = zero /\ b = zero
<1>1. l \in Nat /\ j \in Nat /\ g \in Nat /\ g * l \in Nat /\ g * j \in Nat BY DEF Hole
<1>2. (g * l) % 255 # (g * j) % 255
  <2>1. g = 1 \/ g = 2 \/ g = 3 OBVIOUS
  <2>2. CASE g = 1
    <3>1. g * l = l /\ g * j = j BY <1>1, <2>2
    <3>2. l % 255 = l /\ j % 255 = j BY DEF Hole
    <3> QED BY <3>1, <3>2
  <2>3. CASE g = 2 BY <2>3 DEF Hole
  <2>4. CASE g = 3 BY <2>4 DEF Hole
  <2> QED BY <2>1, <2>2, <2>3, <2>4
<1>3. PICK x \in Byte, y \in Byte : x = pw(g * l) /\ y = pw(g * j) BY <1>1, PowByte
<1>4. x # y BY <1>1, <1>2, <1>3, PowSame
<1>5. PICK u \in Byte, v \in Byte : u = at(e, l, a) /\ v = at(e, j, b) BY <1>1, AtByte
<1>6. gf_mul(x, u) = at(e + g, l, a) /\ gf_mul(y, v) = at(e + g, j, b)
  BY <1>1, <1>3, <1>5, AtShift
<1>7. TwoVanish(x, y, u, v) BY <1>4, <1>5, <1>6 DEF TwoVanish, twoAt
<1>8. u = zero /\ v = zero BY <1>7, TwoRows
<1> QED BY <1>1, <1>5, <1>8, AtZero

LEMMA PowDistinct == \A l, j \in Hole : l # j => pw(1 * l) # pw(1 * j)
<1> TAKE l, j \in Hole
<1>1. 1 * l \in Nat /\ 1 * j \in Nat /\ (1 * l) % 255 = l /\ (1 * j) % 255 = j BY DEF Hole
<1> QED BY <1>1, PowSame

(* Three holes, three rows in succession.                                  *)
LEMMA ThreeHoles ==
  ASSUME NEW l \in Hole, NEW j \in Hole, NEW k \in Hole, l # j, l # k, j # k, NEW e \in Nat,
         NEW a \in Byte, NEW b \in Byte, NEW c \in Byte,
         threeAt(e, l, j, k, a, b, c) = zero, threeAt(e + 1, l, j, k, a, b, c) = zero,
         threeAt(e + 2, l, j, k, a, b, c) = zero
  PROVE  a = zero /\ b = zero /\ c = zero
<1>1. l \in Nat /\ j \in Nat /\ k \in Nat /\ 1 \in Nat /\ e + 1 \in Nat /\ (e + 1) + 1 = e + 2
      /\ 1 * l \in Nat /\ 1 * j \in Nat /\ 1 * k \in Nat
  BY DEF Hole
<1>2. PICK x \in Byte, y \in Byte, z \in Byte : x = pw(1 * l) /\ y = pw(1 * j) /\ z = pw(1 * k)
  BY <1>1, PowByte
<1>3. x # y /\ x # z /\ y # z BY <1>2, PowDistinct
<1>4. PICK u \in Byte, v \in Byte, w \in Byte :
        u = at(e, l, a) /\ v = at(e, j, b) /\ w = at(e, k, c)
  BY <1>1, AtByte
<1>5. \A n, i \in Nat : \A d \in Byte : gf_mul(pw(1 * i), at(n, i, d)) = at(n + 1, i, d)
  BY AtShift
<1>6. gf_mul(x, u) = at(e + 1, l, a) /\ gf_mul(y, v) = at(e + 1, j, b)
      /\ gf_mul(z, w) = at(e + 1, k, c)
  BY <1>1, <1>2, <1>4, <1>5
<1>7. gf_mul(x, gf_mul(x, u)) = at(e + 2, l, a) /\ gf_mul(y, gf_mul(y, v)) = at(e + 2, j, b)
      /\ gf_mul(z, gf_mul(z, w)) = at(e + 2, k, c)
  BY <1>1, <1>2, <1>5, <1>6
<1>8. ThreeVanish(x, y, z, u, v, w) BY <1>3, <1>4, <1>6, <1>7 DEF ThreeVanish, threeAt
<1>9. u = zero /\ v = zero /\ w = zero BY <1>8, ThreeRows
<1> QED BY <1>1, <1>4, <1>9, AtZero

(* The rows 0, 1 and 3 when row 2 is lost: up to 20 frames apart.          *)
LEMMA GapAtTwo ==
  ASSUME NEW l \in Near, NEW j \in Near, NEW k \in Near, l # j, l # k, j # k,
         NEW a \in Byte, NEW b \in Byte, NEW c \in Byte,
         threeAt(0, l, j, k, a, b, c) = zero, threeAt(1, l, j, k, a, b, c) = zero,
         threeAt(3, l, j, k, a, b, c) = zero
  PROVE  a = zero /\ b = zero /\ c = zero
<1>1. l \in Nat /\ j \in Nat /\ k \in Nat /\ l \in Hole /\ j \in Hole /\ k \in Hole
      /\ 1 * l \in Nat /\ 1 * j \in Nat /\ 1 * k \in Nat
  BY DEF Hole, Near
<1>2. PICK x \in Byte, y \in Byte, z \in Byte : x = pw(1 * l) /\ y = pw(1 * j) /\ z = pw(1 * k)
  BY <1>1, PowByte
<1>3. x # y /\ x # z /\ y # z BY <1>1, <1>2, PowDistinct
<1>4. PICK u \in Byte, v \in Byte, w \in Byte :
        u = at(0, l, a) /\ v = at(0, j, b) /\ w = at(0, k, c)
  BY <1>1, AtByte
<1>5. \A n, i \in Nat : \A d \in Byte : gf_mul(pw(1 * i), at(n, i, d)) = at(n + 1, i, d)
  BY AtShift
<1>6. \A i \in Nat : \A d \in Byte :
        /\ gf_mul(pw(1 * i), at(0, i, d)) = at(1, i, d)
        /\ gf_mul(pw(1 * i), at(1, i, d)) = at(2, i, d)
        /\ gf_mul(pw(1 * i), at(2, i, d)) = at(3, i, d)
  <2>1. 0 + 1 = 1 /\ 1 + 1 = 2 /\ 2 + 1 = 3 OBVIOUS
  <2> QED BY <1>5, <2>1
<1>7. gf_mul(x, u) = at(1, l, a) /\ gf_mul(y, v) = at(1, j, b) /\ gf_mul(z, w) = at(1, k, c)
  BY <1>1, <1>2, <1>4, <1>6
<1>8. /\ gf_mul(x, gf_mul(x, gf_mul(x, u))) = at(3, l, a)
      /\ gf_mul(y, gf_mul(y, gf_mul(y, v))) = at(3, j, b)
      /\ gf_mul(z, gf_mul(z, gf_mul(z, w))) = at(3, k, c)
  BY <1>1, <1>2, <1>6, <1>7
<1>9. three(x, y, z) # zero
  <2>1. \A i \in Near : pw(1 * i) = exp[i]
    <3>1. \A i \in Near : (1 * i) % 255 = i BY DEF Near
    <3> QED BY <3>1 DEF pw, gf_pow_alpha
  <2>2. x = exp[l] /\ y = exp[j] /\ z = exp[k] BY <1>2, <2>1
  <2> QED BY <2>2, NoThreeAddUp DEF three, zero, Near
<1>10. GapVanish(x, y, z, u, v, w) BY <1>3, <1>4, <1>7, <1>8, <1>9 DEF GapVanish, threeAt
<1>11. u = zero /\ v = zero /\ w = zero BY <1>10, RowsWithGap
<1> QED BY <1>1, <1>4, <1>11, AtZero

(* The rows 0, 2 and 3 when row 1 is lost: the same with the reciprocals,  *)
(* which are the powers of alpha^254, and the rows read backwards.         *)
LEMMA GapAtOne ==
  ASSUME NEW l \in Near, NEW j \in Near, NEW k \in Near, l # j, l # k, j # k,
         NEW a \in Byte, NEW b \in Byte, NEW c \in Byte,
         threeAt(0, l, j, k, a, b, c) = zero, threeAt(2, l, j, k, a, b, c) = zero,
         threeAt(3, l, j, k, a, b, c) = zero
  PROVE  a = zero /\ b = zero /\ c = zero
<1>1. l \in Nat /\ j \in Nat /\ k \in Nat
      /\ 254 * l \in Nat /\ 254 * j \in Nat /\ 254 * k \in Nat
  BY DEF Near
<1>2. PICK x \in Byte, y \in Byte, z \in Byte :
        x = pw(254 * l) /\ y = pw(254 * j) /\ z = pw(254 * k)
  BY <1>1, PowByte
<1>3. x # y /\ x # z /\ y # z
  <2>1. \A i, n \in Near : i # n => (254 * i) % 255 # (254 * n) % 255 BY DEF Near
  <2> QED BY <1>1, <1>2, <2>1, PowSame
<1>4. PICK u \in Byte, v \in Byte, w \in Byte :
        u = at(3, l, a) /\ v = at(3, j, b) /\ w = at(3, k, c)
  BY <1>1, AtByte
(* Going back from row e.                                                  *)
<1>5. ASSUME NEW i \in Nat, NEW d \in Byte, NEW e \in 0 .. 2
      PROVE  gf_mul(pw(254 * i), at(e + 1, i, d)) = at(e, i, d)
  <2>1. gf_mul(pw(254 * i), at(e + 1, i, d)) = at(e + 255, i, d)
    <3>1. \A n, h \in Nat : \A q \in Byte : gf_mul(pw(254 * h), at(n, h, q)) = at(n + 254, h, q)
      BY AtShift
    <3>2. PICK n \in Nat : n = e + 1 OBVIOUS
    <3>3. gf_mul(pw(254 * i), at(n, i, d)) = at(n + 254, i, d) BY <3>1
    <3>4. n + 254 = e + 255 BY <3>2
    <3> QED BY <3>2, <3>3, <3>4
  <2>2. (e + 255) * i \in Nat /\ e * i \in Nat /\ ((e + 255) * i) % 255 = (e * i) % 255
    <3>1. PICK n \in Nat : n = e * i OBVIOUS
    <3>2. (e + 255) * i = n + 255 * i BY <3>1
    <3>3. (n + 255 * i) % 255 = n % 255 OBVIOUS
    <3>4. n + 255 * i \in Nat OBVIOUS
    <3> QED BY <3>1, <3>2, <3>3, <3>4
  <2>3. pw((e + 255) * i) = pw(e * i) BY <2>2, PowSame
  <2> QED BY <2>1, <2>3 DEF at
<1>6. \A i \in Nat : \A d \in Byte :
        /\ gf_mul(pw(254 * i), at(3, i, d)) = at(2, i, d)
        /\ gf_mul(pw(254 * i), at(2, i, d)) = at(1, i, d)
        /\ gf_mul(pw(254 * i), at(1, i, d)) = at(0, i, d)
  <2>1. 0 + 1 = 1 /\ 1 + 1 = 2 /\ 2 + 1 = 3 OBVIOUS
  <2>2. \A i \in Nat : \A d \in Byte : \A e \in 0 .. 2 :
          gf_mul(pw(254 * i), at(e + 1, i, d)) = at(e, i, d)
    BY <1>5
  <2> QED BY <2>1, <2>2
<1>7. gf_mul(x, u) = at(2, l, a) /\ gf_mul(y, v) = at(2, j, b) /\ gf_mul(z, w) = at(2, k, c)
  BY <1>1, <1>2, <1>4, <1>6
<1>8. /\ gf_mul(x, gf_mul(x, gf_mul(x, u))) = at(0, l, a)
      /\ gf_mul(y, gf_mul(y, gf_mul(y, v))) = at(0, j, b)
      /\ gf_mul(z, gf_mul(z, gf_mul(z, w))) = at(0, k, c)
  BY <1>1, <1>2, <1>6, <1>7
<1>9. three(x, y, z) # zero
  <2>1. PICK t \in Byte : t = pw(20) BY PowByte
  <2>2. ASSUME NEW i \in Near PROVE gf_mul(t, pw(254 * i)) = exp[20 - i]
    <3>1. 20 \in Nat /\ 254 * i \in Nat /\ 20 + 254 * i \in Nat /\ (20 + 254 * i) % 255 = 20 - i
      BY DEF Near
    <3>2. gf_mul(pw(20), pw(254 * i)) = pw(20 + 254 * i) BY <3>1, PowAdd
    <3> QED BY <2>1, <3>1, <3>2 DEF pw, gf_pow_alpha
  <2>3. gf_mul(t, x) = exp[20 - l] /\ gf_mul(t, y) = exp[20 - j] /\ gf_mul(t, z) = exp[20 - k]
    BY <1>2, <2>2
  <2>4. 20 - l \in 0 .. 20 /\ 20 - j \in 0 .. 20 /\ 20 - k \in 0 .. 20 BY DEF Near
  <2>5. three(gf_mul(t, x), gf_mul(t, y), gf_mul(t, z)) # zero
    BY <2>3, <2>4, NoThreeAddUp DEF three, zero
  <2>6. gf_mul(t, three(x, y, z)) = three(gf_mul(t, x), gf_mul(t, y), gf_mul(t, z))
    <3>1. PICK d \in Byte : d = gf_add(x, y) BY AddType
    <3>2. gf_mul(t, gf_add(d, z)) = gf_add(gf_mul(t, d), gf_mul(t, z)) BY MulDistributes
    <3>3. gf_mul(t, gf_add(x, y)) = gf_add(gf_mul(t, x), gf_mul(t, y)) BY MulDistributes
    <3> QED BY <3>1, <3>2, <3>3 DEF three
  <2>7. gf_mul(t, zero) = zero BY Zero
  <2> QED BY <2>5, <2>6, <2>7
<1>10. GapVanish(x, y, z, u, v, w) BY <1>3, <1>4, <1>7, <1>8, <1>9 DEF GapVanish, threeAt
<1>11. u = zero /\ v = zero /\ w = zero BY <1>10, RowsWithGap
<1> QED BY <1>1, <1>4, <1>11, AtZero

(* Four holes and all four rows.                                           *)
LEMMA FourHoles ==
  ASSUME NEW l \in Hole, NEW j \in Hole, NEW k \in Hole, NEW i \in Hole,
         l # j, l # k, j # k, l # i, j # i, k # i,
         NEW a \in Byte, NEW b \in Byte, NEW c \in Byte, NEW d \in Byte,
         fourAt(0, l, j, k, i, a, b, c, d) = zero, fourAt(1, l, j, k, i, a, b, c, d) = zero,
         fourAt(2, l, j, k, i, a, b, c, d) = zero, fourAt(3, l, j, k, i, a, b, c, d) = zero
  PROVE  a = zero /\ b = zero /\ c = zero /\ d = zero
<1>1. l \in Nat /\ j \in Nat /\ k \in Nat /\ i \in Nat
      /\ 1 * l \in Nat /\ 1 * j \in Nat /\ 1 * k \in Nat /\ 1 * i \in Nat
  BY DEF Hole
<1>2. PICK x \in Byte, y \in Byte, z \in Byte, q \in Byte :
        x = pw(1 * l) /\ y = pw(1 * j) /\ z = pw(1 * k) /\ q = pw(1 * i)
  BY <1>1, PowByte
<1>3. x # y /\ x # z /\ y # z /\ x # q /\ y # q /\ z # q BY <1>2, PowDistinct
<1>4. PICK u \in Byte, v \in Byte, w \in Byte, t \in Byte :
        u = at(0, l, a) /\ v = at(0, j, b) /\ w = at(0, k, c) /\ t = at(0, i, d)
  BY <1>1, AtByte
<1>5. \A n, h \in Nat : \A e \in Byte : gf_mul(pw(1 * h), at(n, h, e)) = at(n + 1, h, e)
  BY AtShift
<1>6. \A h \in Nat : \A e \in Byte :
        /\ gf_mul(pw(1 * h), at(0, h, e)) = at(1, h, e)
        /\ gf_mul(pw(1 * h), at(1, h, e)) = at(2, h, e)
        /\ gf_mul(pw(1 * h), at(2, h, e)) = at(3, h, e)
  <2>1. 0 + 1 = 1 /\ 1 + 1 = 2 /\ 2 + 1 = 3 OBVIOUS
  <2> QED BY <1>5, <2>1
<1>7. /\ gf_mul(x, u) = at(1, l, a) /\ gf_mul(y, v) = at(1, j, b)
      /\ gf_mul(z, w) = at(1, k, c) /\ gf_mul(q, t) = at(1, i, d)
  BY <1>1, <1>2, <1>4, <1>6
<1>8. /\ gf_mul(x, gf_mul(x, u)) = at(2, l, a) /\ gf_mul(y, gf_mul(y, v)) = at(2, j, b)
      /\ gf_mul(z, gf_mul(z, w)) = at(2, k, c) /\ gf_mul(q, gf_mul(q, t)) = at(2, i, d)
  BY <1>1, <1>2, <1>6, <1>7
<1>9. /\ gf_mul(x, gf_mul(x, gf_mul(x, u))) = at(3, l, a)
      /\ gf_mul(y, gf_mul(y, gf_mul(y, v))) = at(3, j, b)
      /\ gf_mul(z, gf_mul(z, gf_mul(z, w))) = at(3, k, c)
      /\ gf_mul(q, gf_mul(q, gf_mul(q, t))) = at(3, i, d)
  BY <1>1, <1>2, <1>6, <1>8
<1>10. FourVanish(x, y, z, q, u, v, w, t) BY <1>3, <1>4, <1>7, <1>8, <1>9 DEF FourVanish, fourAt
<1>11. u = zero /\ v = zero /\ w = zero /\ t = zero BY <1>10, FourRows
<1> QED BY <1>1, <1>4, <1>11, AtZero

LEMMA OneHole ==
  ASSUME NEW l \in Hole, NEW e \in Nat, NEW a \in Byte, at(e, l, a) = zero PROVE a = zero
<1>1. l \in Nat BY DEF Hole
<1> QED BY <1>1, AtZero

-----------------------------------------------------------------------------
(* The system that Travel sets up.                                         *)

LEMMA NthGrows ==
  ASSUME NEW S \in SUBSET Nat, IsFiniteSet(S),
         NEW i \in 0 .. Cardinality(S) - 1, NEW j \in 0 .. Cardinality(S) - 1, i < j
  PROVE  nth(S, i) < nth(S, j)
<1>1. nth(S, i) \in S /\ rank(S, nth(S, i)) = i BY NthRank
<1>2. nth(S, j) \in S /\ rank(S, nth(S, j)) = j BY NthRank
<1>3. PICK s \in S : s = nth(S, i) /\ rank(S, s) = i BY <1>1
<1>4. PICK t \in S : t = nth(S, j) /\ rank(S, t) = j BY <1>2
<1>5. s # t BY <1>3, <1>4
<1>6. ~(t < s)
  <2>1. t < s => rank(S, t) < rank(S, s) BY RankGrows
  <2> QED BY <1>3, <1>4, <2>1
<1>7. s \in Nat /\ t \in Nat OBVIOUS
<1> QED BY <1>3, <1>4, <1>5, <1>6, <1>7

(* A row of up to four unknowns, written out.                              *)
WrittenOut(V, X, n) ==
  /\ n = 1 => Row(V, X, n) = gf_mul(V[0], X[0])
  /\ n = 2 => Row(V, X, n) = gf_add(gf_mul(V[0], X[0]), gf_mul(V[1], X[1]))
  /\ n = 3 => Row(V, X, n) = three(gf_mul(V[0], X[0]), gf_mul(V[1], X[1]), gf_mul(V[2], X[2]))
  /\ n = 4 => Row(V, X, n) = four(gf_mul(V[0], X[0]), gf_mul(V[1], X[1]),
                                  gf_mul(V[2], X[2]), gf_mul(V[3], X[3]))

LEMMA RowIs ==
  ASSUME NEW n \in 1 .. 4, NEW V \in [0 .. n - 1 -> Byte], NEW X \in [0 .. n - 1 -> Byte]
  PROVE  WrittenOut(V, X, n)
<1>1. ASSUME NEW k \in 0 .. n - 1
      PROVE  Upto(V, X, n, k + 1) = gf_add(Upto(V, X, n, k), gf_mul(V[k], X[k]))
  <2>1. V[k] \in Byte /\ X[k] \in Byte /\ n \in Nat OBVIOUS
  <2> QED BY <2>1, UptoStep
<1>2. Upto(V, X, n, 1) = gf_mul(V[0], X[0])
  <2>1. 0 \in 0 .. n - 1 /\ 0 + 1 = 1 OBVIOUS
  <2>2. Upto(V, X, n, 0) = zero BY UptoNone DEF zero
  <2>3. gf_mul(V[0], X[0]) \in Byte
    <3>1. V[0] \in Byte /\ X[0] \in Byte BY <2>1
    <3> QED BY <3>1, MulType
  <2>4. Upto(V, X, n, 0 + 1) = gf_add(Upto(V, X, n, 0), gf_mul(V[0], X[0])) BY <1>1, <2>1
  <2> QED BY <2>1, <2>2, <2>3, <2>4, Zero
<1>3. n > 1 => Upto(V, X, n, 2) = gf_add(Upto(V, X, n, 1), gf_mul(V[1], X[1]))
  <2>1. 1 + 1 = 2 OBVIOUS
  <2>2. n > 1 => 1 \in 0 .. n - 1 OBVIOUS
  <2> QED BY <1>1, <2>1, <2>2
<1>4. n > 2 => Upto(V, X, n, 3) = gf_add(Upto(V, X, n, 2), gf_mul(V[2], X[2]))
  <2>1. 2 + 1 = 3 OBVIOUS
  <2>2. n > 2 => 2 \in 0 .. n - 1 OBVIOUS
  <2> QED BY <1>1, <2>1, <2>2
<1>5. n > 3 => Upto(V, X, n, 4) = gf_add(Upto(V, X, n, 3), gf_mul(V[3], X[3]))
  <2>1. 3 + 1 = 4 OBVIOUS
  <2>2. n > 3 => 3 \in 0 .. n - 1 OBVIOUS
  <2> QED BY <1>1, <2>1, <2>2
<1>6. Row(V, X, n) = Upto(V, X, n, n) BY DEF Row, Upto
<1> QED BY <1>2, <1>3, <1>4, <1>5, <1>6 DEF three, four, WrittenOut

(* n rows for the exponents e, in ascending order, and as many holes l;    *)
(* where a row is left out between the others the holes are among the      *)
(* first 21 frames.                                                        *)
SystemOf(n, e, l, M) ==
  /\ n \in 1 .. 4
  /\ e \in [0 .. n - 1 -> 0 .. 3]
  /\ l \in [0 .. n - 1 -> Hole]
  /\ \A i, j \in 0 .. n - 1 : i < j => e[i] < e[j] /\ l[i] # l[j]
  /\ \/ e[n - 1] - e[0] = n - 1
     \/ n = 2 /\ e[1] - e[0] = 2
     \/ \A i \in 0 .. n - 1 : l[i] <= 20
  /\ M \in [0 .. n - 1 -> [0 .. n - 1 -> Byte]]
  /\ \A r, c \in 0 .. n - 1 : M[r][c] = coef(e[r], l[c])

(* The rows M have no value only where no unknown has one.                 *)
Determines(n, M) ==
  \A X \in [0 .. n - 1 -> Byte] :
    (\A r \in 0 .. n - 1 : Row(M[r], X, n) = zero) => \A c \in 0 .. n - 1 : X[c] = zero

(* Such rows determine the unknowns.                                       *)
LEMMA RowsDetermine == \A n, e, l, M : SystemOf(n, e, l, M) => Determines(n, M)
<1> SUFFICES ASSUME NEW n, NEW e, NEW l, NEW M, SystemOf(n, e, l, M),
                    NEW X \in [0 .. n - 1 -> Byte],
                    \A r \in 0 .. n - 1 : Row(M[r], X, n) = zero
             PROVE  \A c \in 0 .. n - 1 : X[c] = zero
  BY DEF Determines
<1> /\ n \in 1 .. 4
    /\ e \in [0 .. n - 1 -> 0 .. 3]
    /\ l \in [0 .. n - 1 -> Hole]
    /\ \A i, j \in 0 .. n - 1 : i < j => e[i] < e[j] /\ l[i] # l[j]
    /\ \/ e[n - 1] - e[0] = n - 1
       \/ n = 2 /\ e[1] - e[0] = 2
       \/ \A i \in 0 .. n - 1 : l[i] <= 20
    /\ M \in [0 .. n - 1 -> [0 .. n - 1 -> Byte]]
    /\ \A r, c \in 0 .. n - 1 : M[r][c] = coef(e[r], l[c])
  BY DEF SystemOf
<1>1. ASSUME NEW r \in 0 .. n - 1, NEW c \in 0 .. n - 1
      PROVE  gf_mul(M[r][c], X[c]) = at(e[r], l[c], X[c])
  BY DEF at, pw, coef
<1>2. ASSUME NEW r \in 0 .. n - 1 PROVE WrittenOut(M[r], X, n)
  <2>1. M[r] \in [0 .. n - 1 -> Byte] OBVIOUS
  <2>2. \A V \in [0 .. n - 1 -> Byte] : WrittenOut(V, X, n) BY RowIs
  <2> QED BY <2>1, <2>2, Zenon
<1>3. CASE n = 1
  <2>1. 0 \in 0 .. n - 1 /\ \A c \in 0 .. n - 1 : c = 0 BY <1>3
  <2>2. at(e[0], l[0], X[0]) = zero BY <1>1, <1>2, <1>3, <2>1 DEF WrittenOut
  <2>3. e[0] \in Nat /\ l[0] \in Hole /\ X[0] \in Byte BY <2>1
  <2>4. X[0] = zero BY <2>2, <2>3, OneHole
  <2> QED BY <2>1, <2>4
<1>4. CASE n = 2
  <2>1. 0 \in 0 .. n - 1 /\ 1 \in 0 .. n - 1 /\ \A c \in 0 .. n - 1 : c = 0 \/ c = 1 BY <1>4
  <2>2. \A r \in 0 .. n - 1 : twoAt(e[r], l[0], l[1], X[0], X[1]) = zero
    BY <1>1, <1>2, <1>4, <2>1 DEF twoAt, WrittenOut
  <2>3. PICK k \in Nat, g \in 1 .. 3 : e[0] = k /\ e[1] = k + g
    <3>1. e[0] \in 0 .. 3 /\ e[1] \in 0 .. 3 /\ e[0] < e[1] BY <2>1
    <3>2. e[1] - e[0] \in 1 .. 3 /\ e[1] = e[0] + (e[1] - e[0]) /\ e[0] \in Nat BY <3>1
    <3> QED BY <3>2
  <2>4. PICK a \in Hole, b \in Hole : a = l[0] /\ b = l[1] BY <2>1
  <2>5. a # b BY <2>1, <2>4
  <2>6. g = 3 => a <= 20 /\ b <= 20
    <3>1. e[1] - e[0] = g BY <2>3
    <3> QED BY <1>4, <2>1, <2>4, <3>1
  <2>7. PICK u \in Byte, v \in Byte : u = X[0] /\ v = X[1] BY <2>1
  <2>8. twoAt(k, a, b, u, v) = zero /\ twoAt(k + g, a, b, u, v) = zero
    BY <2>1, <2>2, <2>3, <2>4, <2>7
  <2>9. u = zero /\ v = zero BY <2>5, <2>6, <2>8, TwoHoles
  <2> QED BY <2>1, <2>7, <2>9
<1>5. CASE n = 3
  <2>1. 0 \in 0 .. n - 1 /\ 1 \in 0 .. n - 1 /\ 2 \in 0 .. n - 1
        /\ \A c \in 0 .. n - 1 : c = 0 \/ c = 1 \/ c = 2
    BY <1>5
  <2>2. \A r \in 0 .. n - 1 : threeAt(e[r], l[0], l[1], l[2], X[0], X[1], X[2]) = zero
    BY <1>1, <1>2, <1>5, <2>1 DEF threeAt, WrittenOut
  <2>3. PICK a \in Hole, b \in Hole, c \in Hole : a = l[0] /\ b = l[1] /\ c = l[2] BY <2>1
  <2>4. a # b /\ a # c /\ b # c BY <2>1, <2>3
  <2>5. PICK u \in Byte, v \in Byte, w \in Byte : u = X[0] /\ v = X[1] /\ w = X[2] BY <2>1
  <2>6. /\ threeAt(e[0], a, b, c, u, v, w) = zero /\ threeAt(e[1], a, b, c, u, v, w) = zero
        /\ threeAt(e[2], a, b, c, u, v, w) = zero
    BY <2>1, <2>2, <2>3, <2>5
  <2>7. e[0] \in 0 .. 3 /\ e[1] \in 0 .. 3 /\ e[2] \in 0 .. 3 /\ e[0] < e[1] /\ e[1] < e[2]
    BY <2>1
  <2>8. \/ e[0] \in 0 .. 1 /\ e[1] = e[0] + 1 /\ e[2] = e[0] + 2
        \/ e[0] = 0 /\ e[1] = 1 /\ e[2] = 3
        \/ e[0] = 0 /\ e[1] = 2 /\ e[2] = 3
    BY <2>7
  <2>9. e[2] = 3 /\ e[0] = 0 => a \in Near /\ b \in Near /\ c \in Near
    <3>1. e[2] = 3 /\ e[0] = 0 => a <= 20 /\ b <= 20 /\ c <= 20 BY <1>5, <2>1, <2>3
    <3>2. \A h \in Hole : h <= 20 => h \in Near BY DEF Hole, Near
    <3> QED BY <3>1, <3>2
  <2>10. CASE e[0] \in 0 .. 1 /\ e[1] = e[0] + 1 /\ e[2] = e[0] + 2
    <3>1. PICK k \in Nat : k = e[0] BY <2>10
    <3>2. /\ threeAt(k, a, b, c, u, v, w) = zero /\ threeAt(k + 1, a, b, c, u, v, w) = zero
          /\ threeAt(k + 2, a, b, c, u, v, w) = zero
      BY <2>6, <2>10, <3>1
    <3>3. u = zero /\ v = zero /\ w = zero BY <2>4, <3>2, ThreeHoles
    <3> QED BY <2>1, <2>5, <3>3
  <2>11. CASE e[0] = 0 /\ e[1] = 1 /\ e[2] = 3
    <3>1. a \in Near /\ b \in Near /\ c \in Near BY <2>9, <2>11
    <3>2. /\ threeAt(0, a, b, c, u, v, w) = zero /\ threeAt(1, a, b, c, u, v, w) = zero
          /\ threeAt(3, a, b, c, u, v, w) = zero
      BY <2>6, <2>11
    <3>3. u = zero /\ v = zero /\ w = zero BY <2>4, <3>1, <3>2, GapAtTwo
    <3> QED BY <2>1, <2>5, <3>3
  <2>12. CASE e[0] = 0 /\ e[1] = 2 /\ e[2] = 3
    <3>1. a \in Near /\ b \in Near /\ c \in Near BY <2>9, <2>12
    <3>2. /\ threeAt(0, a, b, c, u, v, w) = zero /\ threeAt(2, a, b, c, u, v, w) = zero
          /\ threeAt(3, a, b, c, u, v, w) = zero
      BY <2>6, <2>12
    <3>3. u = zero /\ v = zero /\ w = zero BY <2>4, <3>1, <3>2, GapAtOne
    <3> QED BY <2>1, <2>5, <3>3
  <2> QED BY <2>8, <2>10, <2>11, <2>12
<1>6. CASE n = 4
  <2>1. 0 \in 0 .. n - 1 /\ 1 \in 0 .. n - 1 /\ 2 \in 0 .. n - 1 /\ 3 \in 0 .. n - 1
        /\ \A c \in 0 .. n - 1 : c = 0 \/ c = 1 \/ c = 2 \/ c = 3
    BY <1>6
  <2>2. \A r \in 0 .. n - 1 :
          fourAt(e[r], l[0], l[1], l[2], l[3], X[0], X[1], X[2], X[3]) = zero
    BY <1>1, <1>2, <1>6, <2>1 DEF fourAt, WrittenOut
  <2>3. PICK a \in Hole, b \in Hole, c \in Hole, d \in Hole :
          a = l[0] /\ b = l[1] /\ c = l[2] /\ d = l[3]
    BY <2>1
  <2>4. a # b /\ a # c /\ b # c /\ a # d /\ b # d /\ c # d BY <2>1, <2>3
  <2>5. PICK u \in Byte, v \in Byte, w \in Byte, t \in Byte :
          u = X[0] /\ v = X[1] /\ w = X[2] /\ t = X[3]
    BY <2>1
  <2>6. e[0] = 0 /\ e[1] = 1 /\ e[2] = 2 /\ e[3] = 3
    <3>1. e[0] \in 0 .. 3 /\ e[1] \in 0 .. 3 /\ e[2] \in 0 .. 3 /\ e[3] \in 0 .. 3 BY <2>1
    <3>2. e[0] < e[1] /\ e[1] < e[2] /\ e[2] < e[3] BY <2>1
    <3> QED BY <3>1, <3>2
  <2>7. /\ fourAt(0, a, b, c, d, u, v, w, t) = zero /\ fourAt(1, a, b, c, d, u, v, w, t) = zero
        /\ fourAt(2, a, b, c, d, u, v, w, t) = zero /\ fourAt(3, a, b, c, d, u, v, w, t) = zero
    BY <2>1, <2>2, <2>3, <2>5, <2>6
  <2>8. u = zero /\ v = zero /\ w = zero /\ t = zero BY <2>4, <2>7, FourHoles
  <2> QED BY <2>1, <2>5, <2>8
<1>7. n = 1 \/ n = 2 \/ n = 3 \/ n = 4 OBVIOUS
<1> QED BY <1>3, <1>4, <1>5, <1>6, <1>7

-----------------------------------------------------------------------------
(* The rows have no value only where no unknown has one: a solution of the *)
(* system is the only one.                                                 *)
OneSolution == Determines(m, A)

LEMMA ColumnKeepsOne ==
  ASSUME GfInv, gf256, SolveColumn, OneSolution PROVE OneSolution'
<1>1. m' = m /\ m \in 1 .. 4 /\ col \in 0 .. m - 1
      /\ A \in [0 .. m - 1 -> [0 .. m - 1 -> Byte]]
  BY DEF SolveColumn, m, GfInv, TInv
<1>2. PICK p \in col .. m - 1 : ClearsBy(p) BY ColumnClears
<1> SUFFICES ASSUME NEW X \in [0 .. m - 1 -> Byte],
                    \A r \in 0 .. m - 1 : Row(A'[r], X, m) = zero
             PROVE  \A c \in 0 .. m - 1 : X[c] = zero
  BY <1>1 DEF OneSolution, Determines
<1>3. \A r \in 0 .. m - 1 :
        eliminated(from(r, p), p, Row(A[from(r, p)], X, m), Row(A[p], X, m)) = zero
  BY <1>2, RowFollows
<1>4. \A V : Row(V, X, m) \in Byte BY SumType DEF Row
<1>5. PICK inv \in Byte : inv = gf_inv(A[p][col]) /\ inv # zero
  <2>1. gf_inv(A[p][col]) \in Byte /\ gf_mul(A[p][col], gf_inv(A[p][col])) = one
    BY <1>2, MulInverse DEF ClearsBy
  <2>2. gf_mul(A[p][col], zero) = zero BY <1>2, Zero DEF ClearsBy
  <2>3. one # zero BY DEF one, zero
  <2> QED BY <2>1, <2>2, <2>3
<1>6. Row(A[p], X, m) = zero
  <2>1. col \in 0 .. m - 1 /\ from(col, p) = p BY <1>1 DEF from
  <2>2. gf_mul(Row(A[p], X, m), inv) = zero BY <1>3, <1>5, <2>1 DEF eliminated, scaled
  <2>3. gf_mul(inv, Row(A[p], X, m)) = zero BY <1>4, <2>2, MulType
  <2> QED BY <1>4, <1>5, <2>3, NoZeroDivisors
<1>7. ASSUME NEW s \in 0 .. m - 1 PROVE Row(A[s], X, m) = zero
  <2>1. CASE s = p BY <1>6, <2>1
  <2>2. CASE s # p
    <3>1. PICK r \in 0 .. m - 1 : from(r, p) = s
      <4>1. p \in 0 .. m - 1 BY <1>1
      <4>2. CASE s = col
        <5>1. from(p, p) = s BY <2>2, <4>2 DEF from
        <5> QED BY <4>1, <5>1
      <4>3. CASE s # col
        <5>1. from(s, p) = s BY <2>2, <4>3 DEF from
        <5> QED BY <5>1
      <4> QED BY <4>2, <4>3
    <3>2. gf_add(Row(A[s], X, m), gf_mul(A[s][col], scaled(p, zero))) = zero
      BY <1>3, <1>6, <2>2, <3>1 DEF eliminated
    <3>3. scaled(p, zero) = zero BY <1>5, Zero DEF scaled
    <3>4. A[s][col] \in Byte BY <1>1
    <3>5. gf_mul(A[s][col], zero) = zero BY <3>4, Zero
    <3> QED BY <1>4, <3>2, <3>3, <3>5, Zero
  <2> QED BY <2>1, <2>2
<1> QED BY <1>7 DEF OneSolution, Determines

(* Without a pivot in column col the rows have no value at X: the entries  *)
(* of that column for the unknowns before it, one for its own.             *)
LEMMA PivotThere ==
  ASSUME GfInv, gf256, SolveFails, OneSolution PROVE FALSE
<1>1. /\ m \in 1 .. 4 /\ col \in 0 .. m - 1 /\ Eliminated /\ pivots = {}
      /\ A \in [0 .. m - 1 -> [0 .. m - 1 -> Byte]]
  BY DEF GfInv, TInv, SolveFails
<1>2. \A r \in col .. m - 1 : A[r][col] = zero BY <1>1 DEF pivots, zero
<1> DEFINE X == [k \in 0 .. m - 1 |-> IF k < col THEN A[k][col] ELSE IF k = col THEN one ELSE zero]
<1>3. one \in Byte /\ zero \in Byte /\ one # zero BY DEF one, zero, Byte, Bit
<1>4. X \in [0 .. m - 1 -> Byte]
  <2>1. \A k \in 0 .. m - 1 : A[k][col] \in Byte BY <1>1
  <2> QED BY <1>3, <2>1
<1>5. ASSUME NEW r \in 0 .. m - 1 PROVE Row(A[r], X, m) = zero
  <2>1. PICK V \in [0 .. m - 1 -> Byte] : V = A[r] BY <1>1
  <2> DEFINE Same(k) == Upto(V, X, m, k) = IF r < k /\ k <= col THEN V[col] ELSE zero
             G == {k \in 0 .. m : Same(k)}
  <2>2. V[col] \in Byte /\ (r >= col => V[col] = zero) BY <1>1, <1>2, <2>1
  <2>3. 0 \in G
    <3>1. Upto(V, X, m, 0) = zero BY UptoNone DEF zero
    <3> QED BY <1>1, <3>1
  <2>4. ASSUME NEW k \in 0 .. m - 1, k \in G PROVE k + 1 \in G
    <3>1. V[k] \in Byte /\ X[k] \in Byte /\ m \in Nat BY <1>1, <1>4
    <3>2. Upto(V, X, m, k + 1) = gf_add(Upto(V, X, m, k), gf_mul(V[k], X[k])) BY <3>1, UptoStep
    <3>3. Upto(V, X, m, k) = IF r < k /\ k <= col THEN V[col] ELSE zero BY <2>4
    <3>4. k + 1 \in 0 .. m BY <1>1
    <3>5. CASE k < col
      <4>1. V[k] = IF k = r THEN one ELSE zero BY <1>1, <2>1, <3>5 DEF Eliminated, zero
      <4>2. X[k] = A[k][col] BY <3>5
      <4>3. gf_mul(V[k], X[k]) = IF k = r THEN V[col] ELSE zero
        <5>1. k = r => X[k] = V[col] BY <2>1, <4>2
        <5>2. gf_mul(one, X[k]) = X[k] /\ gf_mul(zero, X[k]) = zero BY <3>1, MulOne, Zero
        <5> QED BY <4>1, <5>1, <5>2
      <4>4. Same(k + 1)
        <5>1. r < k + 1 <=> r < k \/ r = k BY <1>1
        <5>2. k + 1 <= col /\ k <= col /\ ~(r < k /\ r = k) BY <1>1, <3>5
        <5> QED BY <2>2, <3>2, <3>3, <4>3, <5>1, <5>2, Zero, <1>3
      <4> QED BY <3>4, <4>4
    <3>6. CASE k = col
      <4>1. X[k] = one /\ V[k] = V[col] BY <1>1, <3>6
      <4>2. gf_mul(V[k], X[k]) = V[col] BY <2>2, <4>1, MulOne
      <4>3. Same(k + 1)
        <5>1. ~(k + 1 <= col) BY <3>6
        <5>2. r < k => Upto(V, X, m, k) = V[col] BY <3>3, <3>6
        <5>3. ~(r < k) => Upto(V, X, m, k) = zero /\ V[col] = zero BY <2>2, <3>3, <3>6
        <5> QED BY <1>3, <2>2, <3>2, <4>2, <5>1, <5>2, <5>3, Zero
      <4> QED BY <3>4, <4>3
    <3>7. CASE k > col
      <4>1. X[k] = zero BY <1>1, <3>7
      <4>2. gf_mul(V[k], X[k]) = zero BY <3>1, <4>1, Zero
      <4>3. Upto(V, X, m, k) = zero BY <1>1, <3>3, <3>7
      <4>4. Same(k + 1)
        <5>1. ~(k + 1 <= col) BY <1>1, <3>7
        <5> QED BY <1>3, <3>2, <4>2, <4>3, <5>1, Zero
      <4> QED BY <3>4, <4>4
    <3> QED BY <1>1, <3>5, <3>6, <3>7
  <2>5. m \in 0 .. 4 BY <1>1
  <2> HIDE DEF G
  <2>6. m \in G BY <2>3, <2>4, <2>5, FourSteps
  <2>7. Upto(V, X, m, m) = zero BY <1>1, <2>6 DEF G
  <2> QED BY <2>1, <2>7 DEF Row, Upto
<1>6. X[col] = one BY <1>1
<1> HIDE DEF X
<1> QED BY <1>1, <1>3, <1>4, <1>5, <1>6 DEF OneSolution, Determines

-----------------------------------------------------------------------------
(* The one excuse: a parity frame lost between those used, with K = 4 in a *)
(* block of more than 21.                                                  *)
GapUsed(P, n) == blk.K = 4 /\ blk.N > 21 /\ nth(P, n - 1) - nth(P, 0) > n - 1

LEMMA SetUpDetermines ==
  ASSUME TInv, gf256, blk.N <= 255, NEW L \in SUBSET Data, NEW P \in SUBSET Rows,
         gf256_applies(L, P), Travel(L, P), ~GapUsed(P, Cardinality(L))
  PROVE  OneSolution'
<1>1. /\ blk \in Columns /\ blk.K \in 2 .. 4 /\ blk.N \in 1 .. 255
      /\ Data \in SUBSET Hole /\ Rows \in SUBSET (0 .. 3) /\ Rows \in SUBSET Nat
      /\ Data \in SUBSET Nat /\ IsFiniteSet(Data) /\ IsFiniteSet(Rows)
  <2>1. blk \in Columns BY DEF TInv
  <2>2. blk.K \in 2 .. 4 BY DEF gf256
  <2>3. blk.N \in Nat \ {0} BY <2>1, Shape
  <2>4. blk.N \in 1 .. 255 BY <2>3
  <2>5. Data \in SUBSET Hole BY <2>4 DEF Data, Hole
  <2>6. Rows \in SUBSET (0 .. 3) BY <2>2 DEF Rows
  <2> QED BY <2>1, <2>2, <2>4, <2>5, <2>6, Shape
<1>2. PICK n \in 1 .. 4 : n = Cardinality(L) BY <1>1, SystemShape
<1>3. /\ A' \in [0 .. n - 1 -> [0 .. n - 1 -> Byte]]
      /\ \A r, c \in 0 .. n - 1 : A'[r][c] = coef(nth(P, r), nth(L, c))
      /\ m' = n
  BY <1>2, TravelTypes
<1>4. L \in SUBSET Nat /\ IsFiniteSet(L) /\ P \in SUBSET Nat /\ IsFiniteSet(P)
  BY <1>1, FS_Subset
<1>5. Cardinality(P) \in Nat /\ n <= Cardinality(P) /\ n <= blk.K
  BY <1>1, <1>2, <1>4, FS_CardinalityType DEF gf256_applies
<1>6. PICK M : M = A' OBVIOUS
<1>7. PICK e : e = [r \in 0 .. n - 1 |-> nth(P, r)] OBVIOUS
<1>8. PICK l : l = [c \in 0 .. n - 1 |-> nth(L, c)] OBVIOUS
<1>9. \A c \in 0 .. n - 1 : nth(L, c) \in L /\ nth(P, c) \in P BY <1>1, <1>2, SystemShape
<1>10. e \in [0 .. n - 1 -> 0 .. 3] /\ l \in [0 .. n - 1 -> Hole]
  BY <1>1, <1>7, <1>8, <1>9
<1>11. ASSUME NEW i \in 0 .. n - 1, NEW j \in 0 .. n - 1, i < j
       PROVE  e[i] < e[j] /\ l[i] # l[j]
  <2>1. i \in 0 .. Cardinality(P) - 1 /\ j \in 0 .. Cardinality(P) - 1 BY <1>5
  <2>2. nth(P, i) < nth(P, j) BY <1>4, <1>11, <2>1, NthGrows
  <2>3. nth(L, i) < nth(L, j) BY <1>2, <1>4, <1>11, NthGrows
  <2>4. nth(L, i) \in Nat BY <1>4, <1>9
  <2> QED BY <1>7, <1>8, <2>2, <2>3, <2>4
<1>12. \A i, j \in 0 .. n - 1 : i < j => e[i] < e[j] /\ l[i] # l[j] BY <1>11
<1>13. \/ e[n - 1] - e[0] = n - 1
       \/ n = 2 /\ e[1] - e[0] = 2
       \/ \A i \in 0 .. n - 1 : l[i] <= 20
  <2>1. \A i \in 0 .. n - 1 : e[i] \in 0 .. 3 /\ e[i] <= blk.K - 1
    <3>1. \A i \in 0 .. n - 1 : nth(P, i) \in Rows BY <1>9
    <3> QED BY <1>1, <1>7, <1>10, <3>1 DEF Rows
  <2>2. 0 \in 0 .. n - 1 /\ n - 1 \in 0 .. n - 1 OBVIOUS
  <2>3. e[n - 1] - e[0] >= n - 1
    <3>1. \A i, j \in 0 .. n - 1 : i < j => e[i] < e[j] BY <1>12
    <3>2. CASE n = 1 BY <2>1, <2>2, <3>2
    <3>3. CASE n = 2
      <4>1. e[0] < e[1] BY <3>1, <3>3
      <4> QED BY <2>1, <2>2, <3>3, <4>1
    <3>4. CASE n = 3
      <4>1. 1 \in 0 .. n - 1 /\ e[0] < e[1] /\ e[1] < e[2] BY <3>1, <3>4
      <4> QED BY <2>1, <2>2, <3>4, <4>1
    <3>5. CASE n = 4
      <4>1. 1 \in 0 .. n - 1 /\ 2 \in 0 .. n - 1 /\ e[0] < e[1] /\ e[1] < e[2] /\ e[2] < e[3]
        BY <3>1, <3>5
      <4> QED BY <2>1, <2>2, <3>5, <4>1
    <3> QED BY <3>2, <3>3, <3>4, <3>5
  <2>4. CASE blk.N <= 21
    <3>1. \A i \in 0 .. n - 1 : nth(L, i) \in Data BY <1>9
    <3>2. blk.N \in Nat BY <1>1
    <3>3. \A i \in Data : i <= 20 BY <2>4, <3>2 DEF Data
    <3> QED BY <1>8, <3>1, <3>3
  <2>5. CASE blk.K # 4
    <3>1. e[n - 1] <= 2 /\ e[n - 1] \in 0 .. 3 /\ e[0] \in 0 .. 3 BY <1>1, <2>1, <2>2, <2>5
    <3>2. n <= 3 BY <1>1, <1>5, <2>5
    <3>3. n = 1 \/ n = 2 \/ n = 3 BY <3>2
    <3>4. n = 1 => e[n - 1] - e[0] = n - 1 BY <3>1
    <3>5. n = 2 => n - 1 = 1 /\ (e[1] - e[0] = 1 \/ e[1] - e[0] = 2) BY <2>3, <3>1
    <3>6. n = 3 => e[n - 1] - e[0] = n - 1 BY <2>3, <3>1
    <3> QED BY <3>3, <3>4, <3>5, <3>6
  <2>6. CASE blk.K = 4 /\ blk.N > 21
    <3>1. ~(e[n - 1] - e[0] > n - 1) BY <1>2, <1>7, <2>2, <2>6 DEF GapUsed
    <3>2. e[n - 1] \in Int /\ e[0] \in Int BY <2>1, <2>2
    <3> QED BY <2>3, <3>1, <3>2
  <2> QED BY <1>1, <2>4, <2>5, <2>6
<1>14. \A r, c \in 0 .. n - 1 : M[r][c] = coef(e[r], l[c]) BY <1>3, <1>6, <1>7, <1>8
<1>15. M \in [0 .. n - 1 -> [0 .. n - 1 -> Byte]] BY <1>3, <1>6
<1>16. SystemOf(n, e, l, M) BY <1>2, <1>10, <1>12, <1>13, <1>14, <1>15, Zenon DEF SystemOf
<1>17. Determines(n, M) BY <1>16, RowsDetermine
<1> QED BY <1>3, <1>6, <1>17 DEF OneSolution

(* Wherever a loss that should be repaired is left, the excuse holds.      *)
SolveInv ==
  /\ GfInv
  /\ blk.K <= 4 /\ blk.N <= 255 =>
       /\ pc = "solve" => Cardinality(got) >= m /\ (~GapUsed(got, m) => OneSolution)
       /\ OnlyGapsDefeat

LEMMA InitSolveInv == Init => SolveInv
BY InitGfInv DEF Init, SolveInv, OnlyGapsDefeat

LEMMA NextSolveInv == SolveInv /\ [Next]_vars => SolveInv'
<1> SUFFICES ASSUME SolveInv, [Next]_vars PROVE SolveInv' OBVIOUS
<1>1. GfInv /\ GfInv' BY NextGfInv DEF SolveInv
<1>2. blk' = blk
  BY DEF Next, Encode, Recover, EncodeXor, EncodeGf256, EncodeEnd, Travel, XorFrame, XorEnd,
         SolveColumn, SolveFails, SolveEnd, vars
<1>3. CASE ~(blk.K <= 4 /\ blk.N <= 255) BY <1>1, <1>2, <1>3 DEF SolveInv
<1>4. CASE blk.K <= 4 /\ blk.N <= 255
  <2>1. /\ TInv /\ blk \in Columns /\ blk.K \in 1 .. 4 /\ OnlyGapsDefeat
        /\ pc = "solve" => gf256 /\ Cardinality(got) >= m /\ (~GapUsed(got, m) => OneSolution)
    BY <1>1, <1>4, Shape DEF SolveInv, GfInv, TInv, gf256
  (* Anywhere else there is nothing to show.                               *)
  <2>2. ASSUME pc' \notin {"solve", "left"} PROVE SolveInv'
    BY <1>1, <2>2 DEF SolveInv, OnlyGapsDefeat
  <2>3. CASE EncodeXor BY <2>2, <2>3 DEF EncodeXor
  <2>4. CASE EncodeGf256 BY <2>2, <2>4 DEF EncodeGf256
  <2>5. CASE EncodeEnd BY <2>2, <2>5 DEF EncodeEnd
  <2>6. ASSUME pc = "travel", NEW L \in Losses, NEW P \in SUBSET Rows, L \subseteq Data, Travel(L, P)
        PROVE  SolveInv'
    <3>1. lost' = L /\ got' = P /\ m' = Cardinality(L) BY <2>6 DEF Travel, m
    <3>2. CASE xor_applies(L, P)
      <4>1. ~gf256_applies(L, P) BY <2>1, <3>2, Shape DEF xor_applies, gf256_applies
      <4>2. pc' = "xor" BY <2>6, <3>2, <4>1 DEF Travel
      <4> QED BY <2>2, <4>2
    <3>3. CASE gf256_applies(L, P) /\ ~xor_applies(L, P)
      <4>1. pc' = "solve" BY <2>6, <3>3 DEF Travel
      <4>2. gf256 BY <2>1, <3>3 DEF gf256, gf256_applies
      <4>3. ~GapUsed(P, Cardinality(L)) => OneSolution'
        BY <1>4, <2>1, <2>6, <3>3, <4>2, SetUpDetermines
      <4>4. GapUsed(got, m)' <=> GapUsed(P, Cardinality(L))
        BY <1>2, <3>1 DEF GapUsed
      <4>5. Cardinality(got') >= m' BY <3>1, <3>3 DEF gf256_applies
      <4> QED BY <1>1, <4>1, <4>3, <4>4, <4>5 DEF SolveInv, OnlyGapsDefeat
    <3>4. CASE ~gf256_applies(L, P) /\ ~xor_applies(L, P)
      <4>1. pc' = "left" BY <2>6, <3>4 DEF Travel
      <4>2. /\ IsFiniteSet(L) /\ IsFiniteSet(P) /\ IsFiniteSet(Rows)
            /\ Cardinality(L) \in Nat /\ Cardinality(P) \in Nat
            /\ Cardinality(P) <= Cardinality(Rows) /\ Cardinality(Rows) = blk.K
            /\ L # {} => Cardinality(L) # 0
        <5>1. IsFiniteSet(Data) /\ IsFiniteSet(Rows) BY <2>1, Shape
        <5>2. Cardinality(0 .. blk.K - 1) = blk.K
          <6>1. 0 \in Int /\ blk.K - 1 \in Int BY <2>1
          <6>2. Cardinality(0 .. blk.K - 1) = IF 0 > blk.K - 1 THEN 0 ELSE (blk.K - 1) - 0 + 1
            BY <6>1, FS_Interval
          <6> QED BY <2>1, <6>2
        <5> QED BY <2>6, <5>1, <5>2, FS_Subset, FS_CardinalityType, FS_EmptySet DEF Rows
      <4>3. L # {} => Cardinality(P) < Cardinality(L)
        <5> SUFFICES ASSUME L # {}, Cardinality(P) >= Cardinality(L) PROVE FALSE BY <4>2
        <5>1. Cardinality(L) <= blk.K /\ Cardinality(L) <= 4 BY <2>1, <4>2
        <5>2. CASE blk.K = 1
          <6>1. Cardinality(L) = 1 /\ Cardinality(P) # 0 BY <4>2, <5>1, <5>2
          <6>2. P # {} BY <6>1, FS_EmptySet
          <6>3. Rows = {0} BY <5>2 DEF Rows
          <6>4. 0 \in P BY <2>6, <6>2, <6>3
          <6> QED BY <3>4, <5>2, <6>1, <6>4 DEF xor_applies
        <5>3. CASE blk.K # 1
          <6>1. blk.K >= 2 BY <2>1, <5>3
          <6> QED BY <3>4, <5>1, <6>1 DEF gf256_applies
        <5> QED BY <5>2, <5>3
      <4>4. OnlyGapsDefeat' BY <3>1, <4>2, <4>3 DEF OnlyGapsDefeat
      <4> QED BY <1>1, <4>1, <4>4 DEF SolveInv
    <3> QED BY <3>2, <3>3, <3>4
  <2>7. CASE XorFrame BY <2>2, <2>7 DEF XorFrame
  <2>8. CASE XorEnd BY <2>2, <2>8 DEF XorEnd
  <2>9. CASE SolveColumn
    <3>1. pc = "solve" /\ pc' = "solve" /\ got' = got /\ m' = m BY <2>9 DEF SolveColumn, m
    <3>2. OneSolution => OneSolution' BY <1>1, <2>1, <2>9, <3>1, ColumnKeepsOne
    <3>3. GapUsed(got, m)' <=> GapUsed(got, m) BY <1>2, <3>1 DEF GapUsed
    <3> QED BY <1>1, <2>1, <3>1, <3>2, <3>3 DEF SolveInv, OnlyGapsDefeat
  <2>10. CASE SolveFails
    <3>1. pc = "solve" /\ pc' = "left" /\ got' = got /\ lost' = lost /\ m' = m
      BY <2>10 DEF SolveFails, m
    <3>2. GapUsed(got, m) BY <1>1, <2>1, <2>10, <3>1, PivotThere
    <3>3. OnlyGapsDefeat' BY <1>2, <3>1, <3>2 DEF OnlyGapsDefeat, GapUsed
    <3> QED BY <1>1, <3>1, <3>3 DEF SolveInv
  <2>11. CASE SolveEnd BY <2>2, <2>11 DEF SolveEnd
  <2>12. CASE UNCHANGED vars
    <3>1. m' = m /\ (OneSolution' <=> OneSolution) BY <2>12 DEF vars, m, OneSolution
    <3>2. pc' = pc /\ got' = got /\ lost' = lost BY <2>12 DEF vars
    <3>3. GapUsed(got, m)' <=> GapUsed(got, m) BY <1>2, <3>1, <3>2 DEF GapUsed
    <3>4. OnlyGapsDefeat' <=> OnlyGapsDefeat BY <1>2, <3>1, <3>2 DEF OnlyGapsDefeat
    <3> QED BY <1>1, <2>1, <3>1, <3>2, <3>3, <3>4 DEF SolveInv
  <2> QED
    BY <2>3, <2>4, <2>5, <2>6, <2>7, <2>8, <2>9, <2>10, <2>11, <2>12 DEF Next, Encode, Recover
<1> QED BY <1>3, <1>4

(* What defeats recovery with rows enough, in any block fec_sender makes:  *)
(* only a parity frame lost between the rows used, with K = 4 and N > 21.  *)
THEOREM WhatDefeatsRecovery == Spec => [](blk.K <= 4 /\ blk.N <= 255 => OnlyGapsDefeat)
<1>1. SolveInv => (blk.K <= 4 /\ blk.N <= 255 => OnlyGapsDefeat) BY DEF SolveInv
<1> QED BY <1>1, InitSolveInv, NextSolveInv, PTL DEF Spec

(* With up to three parity frames, and with four in blocks of up to 21, as *)
(* many parity frames as holes always restore the block: the code has no   *)
(* unsolvable system there.                                                *)
THEOREM EnoughRowsUpToThree ==
  Spec => [](blk.N <= 255 /\ (blk.K <= 3 \/ (blk.K = 4 /\ blk.N <= 21)) => EnoughRowsSuffice)
<1>1. SolveInv => (blk.N <= 255 /\ (blk.K <= 3 \/ (blk.K = 4 /\ blk.N <= 21)) => EnoughRowsSuffice)
  <2> SUFFICES ASSUME SolveInv, blk.N <= 255, blk.K <= 3 \/ (blk.K = 4 /\ blk.N <= 21),
                      pc = "left", lost # {}
               PROVE  Cardinality(got) < Cardinality(lost)
    BY DEF EnoughRowsSuffice
  <2>1. blk \in Columns /\ lost \in SUBSET Data /\ got \in SUBSET Rows
    BY DEF SolveInv, GfInv, TInv
  <2>2. blk.K \in Nat /\ blk.N \in Nat BY <2>1, Shape
  <2>3. Cardinality(got) \in Nat /\ Cardinality(lost) \in Nat
    BY <2>1, Shape, FS_Subset, FS_CardinalityType
  <2>4. ~(blk.K = 4 /\ blk.N > 21) /\ blk.K <= 4 BY <2>2
  <2>5. OnlyGapsDefeat BY <2>4 DEF SolveInv
  <2> QED BY <2>3, <2>4, <2>5 DEF OnlyGapsDefeat
<1> QED BY <1>1, InitSolveInv, NextSolveInv, PTL DEF Spec
=============================================================================
