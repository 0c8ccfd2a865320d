-------------------------- MODULE FrameCodec_proofs --------------------------
(***************************************************************************)
(* What an encoder of frames writes, its decoder reads back: for every     *)
(* header, every subheader, every payload of any length.  The checksum     *)
(* between them is CRC-32C, and the numbers in a header are the ones that  *)
(* were put there.                                                         *)
(***************************************************************************)
EXTENDS FrameCodec, SequenceTheorems, WellFoundedInduction, TLAPS

(* Induction, stated of sets: the library states it of operators, which no *)
(* prover here can instantiate.                                            *)
LEMMA SetInduction ==
  ASSUME NEW G, 0 \in G, \A k \in Nat : k \in G => k + 1 \in G
  PROVE  Nat \subseteq G
<1> SUFFICES ASSUME Nat \ G # {} PROVE FALSE OBVIOUS
<1>1. PICK R : R = OpToRel(<, Nat) OBVIOUS
<1>2. IsWellFoundedOn(R, Nat) BY <1>1, NatLessThanWellFounded, Zenon
<1>3. PICK x \in Nat \ G : \A y \in Nat \ G : ~(<<y, x>> \in R)
  <2>1. Nat \ G \subseteq Nat OBVIOUS
  <2> QED BY <1>2, <2>1, WFMin, Zenon
<1>4. \A y \in Nat : y < x => <<y, x>> \in R
  BY <1>1 DEF OpToRel
<1>5. x # 0 /\ x - 1 \in Nat /\ x - 1 < x OBVIOUS
<1>6. x - 1 \in G BY <1>3, <1>4, <1>5
<1> QED BY <1>5, <1>6

(* Induction from 0 up to m.                                               *)
LEMMA UpFromZero ==
  ASSUME NEW m \in Nat, NEW G, 0 \in G, \A k \in 0 .. m - 1 : k \in G => k + 1 \in G
  PROVE  0 .. m \subseteq G
<1> DEFINE H == {k \in Nat : k <= m => k \in G}
<1>1. 0 \in H OBVIOUS
<1>2. ASSUME NEW k \in Nat, k \in H PROVE k + 1 \in H
  <2>1. CASE k + 1 <= m
    <3>1. k \in 0 .. m - 1 BY <2>1
    <3>2. k \in G BY <1>2, <3>1
    <3>3. k + 1 \in G BY <3>1, <3>2
    <3> QED BY <3>3
  <2>2. CASE ~(k + 1 <= m) BY <2>2
  <2> QED BY <2>1, <2>2
<1> HIDE DEF H
<1>3. Nat \subseteq H BY <1>1, <1>2, SetInduction
<1> QED BY <1>3 DEF H

(* A function defined by recursion from 0 up to m, where next[n] makes the *)
(* value of n from that of n - 1.                                          *)
IsStep(next, m, S) == next \in [1 .. m -> [S -> S]]
Computes(f, a, next, m, S) ==
  f \in [0 .. m -> S] /\ f[0] = a /\ \A n \in 1 .. m : f[n] = next[n][f[n - 1]]

LEMMA Recursion ==
  ASSUME NEW m \in Nat, NEW S, NEW a \in S, NEW next, IsStep(next, m, S)
  PROVE  \E f : Computes(f, a, next, m, S)
<1> DEFINE good(f, k) == f[0] = a /\ \A n \in 1 .. k : f[n] = next[n][f[n - 1]]
           G == {k \in 0 .. m : \E f \in [0 .. k -> S] : good(f, k)}
<1>s. next \in [1 .. m -> [S -> S]] BY DEF IsStep
<1>1. 0 \in G
  <2>1. [n \in 0 .. 0 |-> a] \in [0 .. 0 -> S] /\ good([n \in 0 .. 0 |-> a], 0) OBVIOUS
  <2>2. 0 \in 0 .. m OBVIOUS
  <2> QED BY <2>1, <2>2
<1>2. ASSUME NEW k \in 0 .. m - 1, k \in G PROVE k + 1 \in G
  <2>1. PICK f \in [0 .. k -> S] : good(f, k) BY <1>2
  <2> DEFINE g == [n \in 0 .. k + 1 |-> IF n = k + 1 THEN next[k + 1][f[k]] ELSE f[n]]
  <2>2. k + 1 \in 1 .. m /\ k + 1 \in 0 .. m /\ k \in 0 .. k OBVIOUS
  <2>3. \A n \in 0 .. k + 1 : n = k + 1 \/ n \in 0 .. k OBVIOUS
  <2>4. f[k] \in S /\ next[k + 1] \in [S -> S] BY <1>s, <2>2
  <2>5. g \in [0 .. k + 1 -> S] BY <2>3, <2>4
  <2>6. g[k + 1] = next[k + 1][f[k]] /\ \A n \in 0 .. k : g[n] = f[n]
    <3>1. k + 1 \in 0 .. k + 1 /\ \A n \in 0 .. k : n \in 0 .. k + 1 /\ n # k + 1 OBVIOUS
    <3> QED BY <3>1
  <2> HIDE DEF g
  <2>7. \A n \in 1 .. k + 1 : n - 1 \in 0 .. k /\ (n = k + 1 \/ n \in 1 .. k) /\ (n = k + 1 => n - 1 = k) /\ n \in 0 .. k + 1
    OBVIOUS
  <2>8. good(g, k + 1)
    <3>1. g[0] = a BY <2>1, <2>6
    <3>2. ASSUME NEW n \in 1 .. k + 1 PROVE g[n] = next[n][g[n - 1]]
      <4>1. g[n - 1] = f[n - 1] BY <2>6, <2>7
      <4>2. CASE n = k + 1 BY <2>6, <2>7, <4>1, <4>2
      <4>3. CASE n \in 1 .. k
        <5>1. f[n] = next[n][f[n - 1]] BY <2>1, <4>3
        <5>2. n \in 0 .. k BY <4>3
        <5> QED BY <2>6, <4>1, <5>1, <5>2
      <4> QED BY <2>7, <4>2, <4>3
    <3> QED BY <3>1, <3>2
  <2> QED BY <2>2, <2>5, <2>8
<1>3. m \in G
  <2> HIDE DEF G
  <2>1. m \in 0 .. m OBVIOUS
  <2> QED BY <1>1, <1>2, <2>1, UpFromZero
<1> QED BY <1>3 DEF Computes

LEMMA Powers ==
  /\ power \in [0 .. 30 -> Nat \ {0}] /\ power[0] = 1
  /\ \A b \in 1 .. 30 : power[b] = 2 * power[b - 1]
<1> DEFINE S == Nat \ {0}
           double == [b \in 1 .. 30 |-> [p \in S |-> 2 * p]]
<1>1. double \in [1 .. 30 -> [S -> S]] /\ 1 \in S /\ 30 \in Nat OBVIOUS
<1>2. PICK f : f \in [0 .. 30 -> S] /\ f[0] = 1 /\ \A n \in 1 .. 30 : f[n] = double[n][f[n - 1]]
  <2>1. IsStep(double, 30, S) BY <1>1 DEF IsStep
  <2> HIDE DEF double, S
  <2>2. \E f : Computes(f, 1, double, 30, S) BY <1>1, <2>1, Recursion
  <2> QED BY <2>2 DEF Computes
<1>3. f = [b \in 0 .. 30 |-> IF b = 0 THEN 1 ELSE 2 * f[b - 1]]
  <2>1. \A b \in 1 .. 30 : double[b][f[b - 1]] = 2 * f[b - 1]
    <3>1. \A b \in 1 .. 30 : f[b - 1] \in S BY <1>2
    <3> QED BY <3>1
  <2> HIDE DEF double, S
  <2>2. \A b \in 0 .. 30 : b = 0 \/ b \in 1 .. 30 OBVIOUS
  <2> QED BY <1>2, <2>1, <2>2
<1>4. power = CHOOSE p : p = [b \in 0 .. 30 |-> IF b = 0 THEN 1 ELSE 2 * p[b - 1]] BY DEF power
<1>5. power = [b \in 0 .. 30 |-> IF b = 0 THEN 1 ELSE 2 * power[b - 1]] BY <1>3, <1>4, Zenon
<1>6. ASSUME NEW p, p = [b \in 0 .. 30 |-> IF b = 0 THEN 1 ELSE 2 * p[b - 1]]
      PROVE  p = f
  <2> DEFINE G == {b \in 0 .. 30 : p[b] = f[b]}
  <2>1. 0 \in G BY <1>3, <1>6
  <2>2. ASSUME NEW b \in 0 .. 30 - 1, b \in G PROVE b + 1 \in G
    <3>1. b + 1 \in 0 .. 30 /\ b + 1 # 0 /\ b + 1 - 1 = b OBVIOUS
    <3>2. p[b + 1] = 2 * p[b] /\ f[b + 1] = 2 * f[b] BY <1>3, <1>6, <3>1
    <3> QED BY <2>2, <3>1, <3>2
  <2>3. 0 .. 30 \subseteq G
    <3> HIDE DEF G
    <3> QED BY <2>1, <2>2, UpFromZero
  <2>4. \A b \in 0 .. 30 : p[b] = f[b] BY <2>3
  <2> QED BY <1>3, <1>6, <2>4
<1>7. power = f BY <1>5, <1>6
<1>8. \A b \in 1 .. 30 : b \in 0 .. 30 /\ b # 0 OBVIOUS
<1>9. \A b \in 1 .. 30 : f[b] = 2 * f[b - 1] BY <1>3, <1>8
<1> QED BY <1>2, <1>7, <1>9

LEMMA Quotient ==
  ASSUME NEW P \in Nat \ {0}, NEW q \in Int, NEW r \in 0 .. P - 1
  PROVE  (P * q + r) \div P = q /\ (P * q + r) % P = r
OBVIOUS

LEMMA Divided ==
  ASSUME NEW n \in Nat, NEW P \in Nat \ {0}
  PROVE  \E q \in Nat, r \in 0 .. P - 1 : n = P * q + r /\ n \div P = q /\ n % P = r
<1> DEFINE G == {k \in Nat : \E q \in Nat, r \in 0 .. P - 1 : k = P * q + r}
<1>1. 0 \in G
  <2>1. 0 \in 0 .. P - 1 /\ 0 = P * 0 + 0 OBVIOUS
  <2> QED BY <2>1
<1>2. ASSUME NEW k \in Nat, k \in G PROVE k + 1 \in G
  <2>1. PICK q \in Nat, r \in 0 .. P - 1 : k = P * q + r BY <1>2
  <2>2. CASE r + 1 < P
    <3>1. r + 1 \in 0 .. P - 1 /\ k + 1 = P * q + (r + 1) BY <2>1, <2>2
    <3> QED BY <3>1
  <2>3. CASE r + 1 = P
    <3>1. P * (q + 1) = P * q + P OBVIOUS
    <3>2. PICK z \in Int : z = P * q OBVIOUS
    <3>3. 0 \in 0 .. P - 1 /\ k + 1 = P * (q + 1) + 0 BY <2>1, <2>3, <3>1, <3>2
    <3>4. PICK h \in Nat : h = q + 1 OBVIOUS
    <3>5. k + 1 = P * h + 0 BY <3>3, <3>4, Zenon
    <3> QED BY <3>3, <3>5
  <2> QED BY <2>2, <2>3
<1>3. Nat \subseteq G
  <2> HIDE DEF G
  <2> QED BY <1>1, <1>2, SetInduction
<1>4. PICK q \in Nat, r \in 0 .. P - 1 : n = P * q + r BY <1>3
<1> QED BY <1>4, Quotient

LEMMA Halved ==
  ASSUME NEW n \in Nat, NEW P \in Nat \ {0}
  PROVE  /\ n % (2 * P) = (n % P) + (IF (n \div P) % 2 = 1 THEN P ELSE 0)
         /\ n < P => n \div P = 0 /\ n % P = n
<1>1. PICK q \in Nat, r \in 0 .. P - 1 : n = P * q + r /\ n \div P = q /\ n % P = r BY Divided
<1>2. PICK h \in Nat, b \in 0 .. 1 : q = 2 * h + b /\ q % 2 = b
  <2>1. PICK h \in Nat, b \in 0 .. 2 - 1 : q = 2 * h + b /\ q \div 2 = h /\ q % 2 = b
    BY Divided
  <2> QED BY <2>1
<1>3. P * q = (2 * P) * h + (IF b = 1 THEN P ELSE 0)
  <2>1. PICK z \in Int : z = P * h OBVIOUS
  <2>2. P * (2 * h) = 2 * z /\ (2 * P) * h = 2 * z BY <2>1
  <2>3. CASE b = 0 
    <3>1. q = 2 * h BY <1>2, <2>3
    <3> QED BY <2>2, <2>3, <3>1
  <2>4. CASE b = 1
    <3>1. q = 2 * h + 1 BY <1>2, <2>4
    <3>2. P * (2 * h + 1) = P * (2 * h) + P OBVIOUS
    <3> QED BY <2>2, <2>4, <3>1, <3>2
  <2> QED BY <2>3, <2>4
<1>4. n % (2 * P) = r + (IF b = 1 THEN P ELSE 0)
  <2> DEFINE d == r + (IF b = 1 THEN P ELSE 0)
  <2>1. d \in 0 .. 2 * P - 1 /\ 2 * P \in Nat \ {0} OBVIOUS
  <2>2. n = (2 * P) * h + d
    <3>1. PICK z \in Int : z = (2 * P) * h OBVIOUS
    <3> QED BY <1>1, <1>3, <3>1
  <2> HIDE DEF d
  <2>3. PICK D \in Nat \ {0} : D = 2 * P BY <2>1
  <2>4. d \in 0 .. D - 1 /\ n = D * h + d BY <2>1, <2>2, <2>3, Zenon
  <2>5. n % D = d BY <2>4, Quotient
  <2> QED BY <2>3, <2>5 DEF d
<1>5. ASSUME n < P PROVE n \div P = 0 /\ n % P = n
  <2>1. n \in 0 .. P - 1 /\ n = P * 0 + n BY <1>5
  <2> QED BY <2>1, Quotient
<1> QED BY <1>1, <1>2, <1>4, <1>5

LEMMA BitsBelow ==
  ASSUME NEW w \in 0 .. 30, NEW n \in Nat, n < power[w]
  PROVE  bits(n) \in SUBSET (0 .. w - 1)
<1> DEFINE G == {d \in 0 .. 30 - w : n < power[w + d]}
<1>1. 0 \in G OBVIOUS
<1>2. ASSUME NEW d \in 0 .. 30 - w - 1, d \in G PROVE d + 1 \in G
  <2>1. w + d + 1 \in 1 .. 30 /\ w + d + 1 - 1 = w + d /\ w + d \in 0 .. 30 /\ w + (d + 1) = w + d + 1 /\ d + 1 \in 0 .. 30 - w
    OBVIOUS
  <2>2. power[w + d + 1] = 2 * power[w + d] /\ power[w + d] \in Nat BY <2>1, Powers
  <2> QED BY <1>2, <2>1, <2>2
<1>3. 0 .. 30 - w \subseteq G
  <2> HIDE DEF G
  <2>1. 30 - w \in Nat OBVIOUS
  <2> QED BY <1>1, <1>2, <2>1, UpFromZero
<1>4. ASSUME NEW b \in w .. 30 PROVE b \notin bits(n)
  <2>1. b - w \in 0 .. 30 - w /\ w + (b - w) = b /\ b \in 0 .. 30 OBVIOUS
  <2>2. n < power[b] BY <1>3, <2>1
  <2>3. power[b] \in Nat \ {0} BY <2>1, Powers
  <2>4. n \div power[b] = 0 BY <2>2, <2>3, Halved
  <2> QED BY <2>4 DEF bits
<1>5. \A b \in 0 .. 30 : b \in w .. 30 \/ b \in 0 .. w - 1 OBVIOUS
<1> QED BY <1>4, <1>5 DEF bits

LEMMA ValueIs ==
  ASSUME NEW x
  PROVE  \E v \in [0 .. 31 -> Nat] :
           /\ v[0] = 0 /\ number(x) = v[31]
           /\ \A k \in 1 .. 31 : v[k] = v[k - 1] + (IF k - 1 \in x THEN power[k - 1] ELSE 0)
<1> DEFINE add == [k \in 1 .. 31 |-> [y \in Nat |-> y + (IF k - 1 \in x THEN power[k - 1] ELSE 0)]]
           v == CHOOSE value : value = [n \in 0 .. 31 |-> IF n = 0 THEN 0 ELSE value[n - 1] + (IF n - 1 \in x THEN power[n - 1] ELSE 0)]
<1>1. number(x) = v[31] BY Zenon DEF number
<1>2. \A k \in 1 .. 31 : (IF k - 1 \in x THEN power[k - 1] ELSE 0) \in Nat
  <2>1. \A k \in 1 .. 31 : k - 1 \in 0 .. 30 OBVIOUS
  <2> QED BY <2>1, Powers
<1>3. PICK f : Computes(f, 0, add, 31, Nat)
  <2>1. IsStep(add, 31, Nat) BY <1>2 DEF IsStep
  <2> HIDE DEF add
  <2> QED BY <2>1, Recursion
<1>4. f \in [0 .. 31 -> Nat] /\ f[0] = 0 /\ \A k \in 1 .. 31 : f[k] = f[k - 1] + (IF k - 1 \in x THEN power[k - 1] ELSE 0)
  <2>1. \A k \in 1 .. 31 : f[k] = add[k][f[k - 1]] /\ f[k - 1] \in Nat
    <3> HIDE DEF add
    <3>1. \A k \in 1 .. 31 : k - 1 \in 0 .. 31 OBVIOUS
    <3> QED BY <1>3, <3>1 DEF Computes
  <2>2. f \in [0 .. 31 -> Nat] /\ f[0] = 0 BY <1>3, Zenon DEF Computes
  <2> QED BY <2>1, <2>2
<1>5. f = [n \in 0 .. 31 |-> IF n = 0 THEN 0 ELSE f[n - 1] + (IF n - 1 \in x THEN power[n - 1] ELSE 0)]
  <2>1. \A n \in 0 .. 31 : n = 0 \/ n \in 1 .. 31 OBVIOUS
  <2> QED BY <1>4, <2>1
<1>6. v = [n \in 0 .. 31 |-> IF n = 0 THEN 0 ELSE v[n - 1] + (IF n - 1 \in x THEN power[n - 1] ELSE 0)]
  BY <1>5, Zenon
<1> HIDE DEF v
<1>7. v[0] = 0 /\ \A k \in 1 .. 31 : v[k] = v[k - 1] + (IF k - 1 \in x THEN power[k - 1] ELSE 0)
  <2>1. \A k \in 1 .. 31 : k \in 0 .. 31 /\ k # 0 OBVIOUS
  <2> QED BY <1>6, <2>1
<1> DEFINE G == {k \in 0 .. 31 : v[k] \in Nat}
<1>8. 0 \in G BY <1>7
<1>9. ASSUME NEW k \in 0 .. 31 - 1, k \in G PROVE k + 1 \in G
  <2>1. k + 1 \in 1 .. 31 /\ k + 1 - 1 = k /\ k + 1 \in 0 .. 31 OBVIOUS
  <2>2. v[k + 1] = v[k] + (IF k \in x THEN power[k] ELSE 0) BY <1>7, <2>1
  <2>3. (IF k \in x THEN power[k] ELSE 0) \in Nat BY <1>2, <2>1
  <2>4. v[k] \in Nat BY <1>9
  <2> QED BY <2>1, <2>2, <2>3, <2>4
<1>10. 0 .. 31 \subseteq G
  <2> HIDE DEF G
  <2> QED BY <1>8, <1>9, UpFromZero
<1>11. v \in [0 .. 31 -> Nat] BY <1>6, <1>10
<1> QED BY <1>1, <1>7, <1>11

(* A number that fits is read from the bits it was written as.             *)
LEMMA NumberOfBits ==
  ASSUME NEW n \in Nat, n - power[30] < power[30]
  PROVE  number(bits(n)) = n
<1>1. PICK v \in [0 .. 31 -> Nat] :
        /\ v[0] = 0 /\ number(bits(n)) = v[31]
        /\ \A k \in 1 .. 31 : v[k] = v[k - 1] + (IF k - 1 \in bits(n) THEN power[k - 1] ELSE 0)
  BY ValueIs
<1> DEFINE G == {k \in 0 .. 30 : v[k] = n % power[k]}
<1>2. 0 \in G BY <1>1, Powers
<1>3. ASSUME NEW k \in 0 .. 30 - 1, k \in G PROVE k + 1 \in G
  <2>1. k + 1 \in 1 .. 30 /\ k + 1 \in 1 .. 31 /\ k + 1 - 1 = k /\ k \in 0 .. 30 /\ k + 1 \in 0 .. 30 OBVIOUS
  <2>2. power[k] \in Nat \ {0} /\ power[k + 1] = 2 * power[k] BY <2>1, Powers
  <2>3. n % (2 * power[k]) = (n % power[k]) + (IF (n \div power[k]) % 2 = 1 THEN power[k] ELSE 0) BY <2>2, Halved
  <2>4. k \in bits(n) <=> (n \div power[k]) % 2 = 1 BY <2>1 DEF bits
  <2>5. v[k + 1] = v[k] + (IF k \in bits(n) THEN power[k] ELSE 0) BY <1>1, <2>1
  <2>6. v[k + 1] = n % power[k + 1] BY <1>3, <2>2, <2>3, <2>4, <2>5
  <2> QED BY <2>1, <2>6
<1>4. 0 .. 30 \subseteq G
  <2> HIDE DEF G
  <2> QED BY <1>2, <1>3, UpFromZero
<1>5. v[30] = n % power[30] /\ power[30] \in Nat \ {0}
  <2>1. 30 \in 0 .. 30 OBVIOUS
  <2> HIDE DEF G
  <2>2. 30 \in G BY <1>4, <2>1
  <2> QED BY <2>1, <2>2, Powers DEF G
<1>6. v[31] = v[30] + (IF (n \div power[30]) % 2 = 1 THEN power[30] ELSE 0)
  <2>1. 30 \in bits(n) <=> (n \div power[30]) % 2 = 1 BY DEF bits
  <2> QED BY <1>1, <2>1
<1>7. v[31] = n % (2 * power[30])
  <2>1. PICK Q \in Nat \ {0} : Q = power[30] BY <1>5
  <2>2. n % (2 * Q) = (n % Q) + (IF (n \div Q) % 2 = 1 THEN Q ELSE 0) BY Halved
  <2> QED BY <1>5, <1>6, <2>1, <2>2, Zenon
<1>8. PICK P \in Nat \ {0} : P = 2 * power[30] BY <1>5
<1>9. n < P BY <1>5, <1>8
<1>10. n % P = n BY <1>9, Halved
<1> QED BY <1>1, <1>7, <1>8, <1>10

-----------------------------------------------------------------------------

LEMMA WordXor ==
  ASSUME NEW x \in Word32, NEW y \in Word32
  PROVE  xor(x, y) \in Word32
BY DEF xor, Word32

LEMMA WordShr ==
  ASSUME NEW x \in Word32, NEW n \in Nat
  PROVE  shr(x, n) \in Word32
BY DEF shr, Word32

LEMMA PolyType == kPoly \in Word32
BY DEF kPoly, Word32

LEMMA ShiftedType ==
  ASSUME NEW c \in Word32
  PROVE  shifted(c) \in Word32
<1>1. 1 \in Nat OBVIOUS
<1> QED BY <1>1, WordShr, WordXor, PolyType DEF shifted

(* Bits that are not shifted out pass through a step unchanged.            *)
LEMMA ShiftedLinear ==
  ASSUME NEW x \in Word32, NEW y \in Word32, 0 \notin y
  PROVE  shifted(xor(x, y)) = xor(shifted(x), shr(y, 1))
<1>1. 0 \in xor(x, y) <=> 0 \in x BY DEF xor
<1>2. shr(xor(x, y), 1) = xor(shr(x, 1), shr(y, 1)) BY DEF shr, xor
<1>3. \A p, q, r : xor(xor(p, q), r) = xor(xor(p, r), q) BY DEF xor
<1>4. CASE 0 \in x
  <2>1. shifted(xor(x, y)) = xor(xor(shr(x, 1), shr(y, 1)), kPoly) BY <1>1, <1>2, <1>4, Zenon DEF shifted
  <2>2. shifted(x) = xor(shr(x, 1), kPoly) BY <1>4, Zenon DEF shifted
  <2>3. xor(xor(shr(x, 1), shr(y, 1)), kPoly) = xor(xor(shr(x, 1), kPoly), shr(y, 1)) BY <1>3
  <2> QED BY <2>1, <2>2, <2>3, Zenon
<1>5. CASE 0 \notin x BY <1>1, <1>2, <1>5, Zenon DEF shifted
<1> QED BY <1>4, <1>5

(* The eight steps behind an entry of the table.                           *)
LEMMA TableIs ==
  ASSUME NEW i \in Byte
  PROVE  \E c \in [0 .. 8 -> Word32] :
           c[0] = i /\ c[8] = table[i] /\ \A k \in 1 .. 8 : c[k] = shifted(c[k - 1])
<1> DEFINE next == [k \in 1 .. 8 |-> [w \in Word32 |-> shifted(w)]]
           c == CHOOSE c : c = [k \in 0 .. 8 |-> IF k = 0 THEN i ELSE shifted(c[k - 1])]
<1>1. table[i] = c[8] BY Zenon DEF table
<1>2. i \in Word32 BY DEF Byte, Word32
<1>3. PICK f : Computes(f, i, next, 8, Word32)
  <2>1. IsStep(next, 8, Word32) BY ShiftedType DEF IsStep
  <2> HIDE DEF next
  <2> QED BY <1>2, <2>1, Recursion
<1>4. f \in [0 .. 8 -> Word32] /\ f[0] = i /\ \A k \in 1 .. 8 : f[k] = shifted(f[k - 1])
  <2>1. \A k \in 1 .. 8 : f[k] = next[k][f[k - 1]] /\ f[k - 1] \in Word32
    <3> HIDE DEF next
    <3>1. \A k \in 1 .. 8 : k - 1 \in 0 .. 8 OBVIOUS
    <3> QED BY <1>3, <3>1 DEF Computes
  <2>2. f \in [0 .. 8 -> Word32] /\ f[0] = i BY <1>3, Zenon DEF Computes
  <2> QED BY <2>1, <2>2
<1>5. f = [k \in 0 .. 8 |-> IF k = 0 THEN i ELSE shifted(f[k - 1])]
  <2>1. \A k \in 0 .. 8 : k = 0 \/ k \in 1 .. 8 OBVIOUS
  <2> QED BY <1>4, <2>1
<1>6. c = [k \in 0 .. 8 |-> IF k = 0 THEN i ELSE shifted(c[k - 1])] BY <1>5, Zenon
<1> HIDE DEF c
<1>7. c[0] = i /\ \A k \in 1 .. 8 : c[k] = shifted(c[k - 1])
  <2>1. \A k \in 1 .. 8 : k \in 0 .. 8 /\ k # 0 OBVIOUS
  <2> QED BY <1>6, <2>1
<1> DEFINE G == {k \in 0 .. 8 : c[k] \in Word32}
<1>8. 0 \in G BY <1>2, <1>7
<1>9. ASSUME NEW k \in 0 .. 8 - 1, k \in G PROVE k + 1 \in G
  <2>1. k + 1 \in 1 .. 8 /\ k + 1 - 1 = k /\ k + 1 \in 0 .. 8 OBVIOUS
  <2>2. c[k + 1] = shifted(c[k]) BY <1>7, <2>1
  <2> QED BY <1>9, <2>1, <2>2, ShiftedType
<1>10. 0 .. 8 \subseteq G
  <2> HIDE DEF G
  <2> QED BY <1>8, <1>9, UpFromZero
<1>11. c \in [0 .. 8 -> Word32] BY <1>6, <1>10
<1> QED BY <1>1, <1>7, <1>11

(* The register after each byte.                                           *)
LEMMA UpdateIs ==
  ASSUME NEW state \in Word32, NEW data \in Seq(Byte)
  PROVE  \E c \in [0 .. Len(data) -> Word32] :
           /\ c[0] = state /\ crc32c_update(state, data) = c[Len(data)]
           /\ \A n \in 1 .. Len(data) :
                c[n] = xor(table[byte_of(xor(c[n - 1], data[n]), 0)], shr(c[n - 1], 8))
<1> DEFINE m == Len(data)
           next == [n \in 1 .. m |-> [w \in Word32 |-> xor(table[byte_of(xor(w, data[n]), 0)], shr(w, 8))]]
           c == CHOOSE crc : crc = [n \in 0 .. m |->
                  IF n = 0 THEN state
                  ELSE xor(table[byte_of(xor(crc[n - 1], data[n]), 0)], shr(crc[n - 1], 8))]
<1>1. crc32c_update(state, data) = c[m] BY Zenon DEF crc32c_update
<1>2. m \in Nat OBVIOUS
<1>t. \A w, b : xor(table[byte_of(xor(w, b), 0)], shr(w, 8)) \in Word32
  <2> TAKE w, b
  <2>1. byte_of(xor(w, b), 0) \in Byte BY DEF byte_of, Byte
  <2>2. table[byte_of(xor(w, b), 0)] \in Word32
    <3> DEFINE i == byte_of(xor(w, b), 0)
    <3>1. PICK f \in [0 .. 8 -> Word32] : f[8] = table[i] BY <2>1, TableIs
    <3>2. 8 \in 0 .. 8 OBVIOUS
    <3> QED BY <3>1, <3>2
  <2>3. shr(w, 8) \in Word32 BY DEF shr, Word32
  <2> QED BY <2>2, <2>3, WordXor
<1>3. PICK f : Computes(f, state, next, m, Word32)
  <2>1. IsStep(next, m, Word32) BY <1>t DEF IsStep
  <2> HIDE DEF next
  <2> QED BY <1>2, <2>1, Recursion
<1>4. f \in [0 .. m -> Word32] /\ f[0] = state
        /\ \A n \in 1 .. m : f[n] = xor(table[byte_of(xor(f[n - 1], data[n]), 0)], shr(f[n - 1], 8))
  <2>1. \A n \in 1 .. m : f[n] = next[n][f[n - 1]] /\ f[n - 1] \in Word32
    <3> HIDE DEF next
    <3>1. \A n \in 1 .. m : n - 1 \in 0 .. m BY <1>2
    <3> QED BY <1>3, <3>1 DEF Computes
  <2>2. f \in [0 .. m -> Word32] /\ f[0] = state BY <1>3, Zenon DEF Computes
  <2> HIDE DEF m
  <2> QED BY <2>1, <2>2
<1>5. f = [n \in 0 .. m |-> IF n = 0 THEN state ELSE xor(table[byte_of(xor(f[n - 1], data[n]), 0)], shr(f[n - 1], 8))]
  <2>1. \A n \in 0 .. m : n = 0 \/ n \in 1 .. m BY <1>2
  <2> HIDE DEF m
  <2> QED BY <1>4, <2>1
<1>6. c = [n \in 0 .. m |-> IF n = 0 THEN state ELSE xor(table[byte_of(xor(c[n - 1], data[n]), 0)], shr(c[n - 1], 8))]
  BY <1>5, Zenon
<1> HIDE DEF c, m
<1>7. c[0] = state /\ \A n \in 1 .. m : c[n] = xor(table[byte_of(xor(c[n - 1], data[n]), 0)], shr(c[n - 1], 8))
  <2>1. \A n \in 1 .. m : n \in 0 .. m /\ n # 0 BY <1>2
  <2>2. 0 \in 0 .. m BY <1>2
  <2> QED BY <1>6, <2>1, <2>2
<1>8. c \in [0 .. m -> Word32]
  <2>1. \A n \in 0 .. m : n = 0 \/ n \in 1 .. m BY <1>2
  <2>2. \A n \in 0 .. m : c[n] \in Word32 BY <1>7, <1>t, <2>1
  <2> QED BY <1>6, <2>2
<1>9. m = Len(data) BY DEF m
<1> QED BY <1>1, <1>7, <1>8, <1>9, Zenon

(* The register after each bit, when the bits go in one at a time.         *)
bit_at(data, t) == (t % 8) \in data[1 + t \div 8]
fed(c, data, t) == xor(c, IF bit_at(data, t) THEN {0} ELSE {})

LEMMA SerialIs ==
  ASSUME NEW data \in Seq(Byte)
  PROVE  \E s \in [0 .. 8 * Len(data) -> Word32] :
           /\ s[0] = 0 .. 31
           /\ \A t \in 0 .. 8 * Len(data) - 1 : s[t + 1] = shifted(fed(s[t], data, t))
<1> DEFINE m == 8 * Len(data)
           next == [t \in 1 .. m |-> [w \in Word32 |-> shifted(fed(w, data, t - 1))]]
<1>1. \A w \in Word32 : \A t : fed(w, data, t) \in Word32
  <2>1. {0} \in Word32 /\ {} \in Word32 BY DEF Word32
  <2> QED BY <2>1, WordXor DEF fed
<1>2. IsStep(next, m, Word32) BY <1>1, ShiftedType DEF IsStep
<1>3. m \in Nat /\ 0 .. 31 \in Word32 BY DEF Word32
<1>4. PICK s : Computes(s, 0 .. 31, next, m, Word32)
  <2> HIDE DEF next, m
  <2> QED BY <1>2, <1>3, Recursion
<1>5. s \in [0 .. m -> Word32] /\ s[0] = 0 .. 31 BY <1>4, Zenon DEF Computes
<1>6. ASSUME NEW t \in 0 .. m - 1 PROVE s[t + 1] = shifted(fed(s[t], data, t))
  <2>1. t + 1 \in 1 .. m /\ t + 1 - 1 = t /\ t \in 0 .. m BY <1>3
  <2>2. s[t + 1] = next[t + 1][s[t + 1 - 1]]
    <3> HIDE DEF next, m
    <3>1. \A n \in 1 .. m : s[n] = next[n][s[n - 1]] BY <1>4 DEF Computes
    <3> QED BY <2>1, <3>1
  <2>3. s[t] \in Word32 BY <1>5, <2>1
  <2> QED BY <2>1, <2>2, <2>3
<1> QED BY <1>5, <1>6

(* A byte at a time through the table, or its bits one by one.             *)
LEMMA ByteIsEightBits ==
  ASSUME NEW c \in [0 .. 8 -> Word32], NEW B \in Byte,
         \A j \in 0 .. 7 : c[j + 1] = shifted(xor(c[j], IF j \in B THEN {0} ELSE {}))
  PROVE  c[8] = xor(table[byte_of(xor(c[0], B), 0)], shr(c[0], 8))
<1> DEFINE low == byte_of(xor(c[0], B), 0)
           v == B \cup {b \in c[0] : b >= 8}
<1>1. c[0] \in Word32 OBVIOUS
<1>2. low = {b \in 0 .. 7 : b \in xor(c[0], B)} BY DEF byte_of
<1>3. low \in Byte BY <1>2 DEF Byte
<1>b. B \subseteq 0 .. 7 /\ c[0] \subseteq 0 .. 31 /\ \A b \in 0 .. 7 : b \in 0 .. 31 BY <1>1 DEF Byte, Word32
<1>4. v \in Word32 BY <1>b DEF Word32
<1>5. c[0] = xor(low, v)
  <2>1. \A b \in c[0] : b >= 8 <=> b \notin 0 .. 7 BY <1>b
  <2>2. \A b : b \in low <=> b \in 0 .. 7 /\ b \in xor(c[0], B) BY <1>2
  <2>3. v = B \cup {b \in c[0] : b \notin 0 .. 7} BY <2>1
  <2> HIDE DEF low, v
  <2>4. ASSUME NEW b PROVE b \in c[0] <=> b \in xor(low, v)
    <3>1. b \in xor(low, v) <=> ~(b \in low <=> b \in v) BY DEF xor
    <3>2. b \in xor(c[0], B) <=> ~(b \in c[0] <=> b \in B) BY DEF xor
    <3>3. CASE b \in 0 .. 7 BY <2>2, <2>3, <3>1, <3>2, <3>3
    <3>4. CASE b \notin 0 .. 7 BY <1>b, <2>2, <2>3, <3>1, <3>4
    <3> QED BY <3>3, <3>4
  <2> QED BY <2>4
<1>6. PICK w \in [0 .. 8 -> Word32] :
        w[0] = low /\ w[8] = table[low] /\ \A k \in 1 .. 8 : w[k] = shifted(w[k - 1])
  <2> HIDE DEF low
  <2> QED BY <1>3, TableIs
<1>7. \A j \in 0 .. 7 : j \in v <=> j \in B BY DEF Byte
<1>8. shr(v, 0) = v BY <1>4 DEF shr, Word32
<1>9. shr(v, 8) = shr(c[0], 8) BY DEF shr, Byte
<1> HIDE DEF low, v
<1> DEFINE G == {j \in 0 .. 8 : c[j] = xor(w[j], shr(v, j))}
<1>10. 0 \in G BY <1>5, <1>6, <1>8
<1>11. ASSUME NEW j \in 0 .. 8 - 1, j \in G PROVE j + 1 \in G
  <2>1. j \in 0 .. 7 /\ j \in 0 .. 8 /\ j + 1 \in 0 .. 8 /\ j + 1 \in 1 .. 8 /\ j + 1 - 1 = j OBVIOUS
  <2> DEFINE u == shr(v, j) \ {0}
  <2>2. w[j] \in Word32 /\ u \in Word32 /\ 0 \notin u BY <2>1 DEF shr, Word32
  <2>3. 0 \in shr(v, j) <=> j \in B BY <1>7, <2>1 DEF shr
  <2>4. xor(c[j], IF j \in B THEN {0} ELSE {}) = xor(w[j], u)
    <3>1. c[j] = xor(w[j], shr(v, j)) BY <1>11
    <3>2. \A p, q : 0 \in q => xor(xor(p, q), {0}) = xor(p, q \ {0}) BY DEF xor
    <3>3. \A p, q : 0 \notin q => xor(xor(p, q), {}) = xor(p, q \ {0}) BY DEF xor
    <3>4. CASE j \in B BY <2>3, <3>1, <3>2, <3>4, Zenon
    <3>5. CASE j \notin B BY <2>3, <3>1, <3>3, <3>5, Zenon
    <3> QED BY <3>4, <3>5
  <2>5. shr(u, 1) = shr(v, j + 1)
    <3>1. \A b \in 0 .. 31 : b + 1 \in u <=> b + (j + 1) \in v
      <4> TAKE b \in 0 .. 31
      <4>1. b + 1 + j = b + (j + 1) /\ b + 1 # 0 OBVIOUS
      <4>2. b + (j + 1) \in v => b + 1 \in 0 .. 31 BY <1>4, <2>1 DEF Word32
      <4> QED BY <4>1, <4>2 DEF shr
    <3> HIDE DEF u
    <3> QED BY <3>1 DEF shr
  <2> HIDE DEF u
  <2>6. shifted(xor(w[j], u)) = xor(shifted(w[j]), shr(u, 1)) BY <2>2, ShiftedLinear
  <2>7. c[j + 1] = xor(w[j + 1], shr(v, j + 1))
    <3>1. c[j + 1] = shifted(xor(c[j], IF j \in B THEN {0} ELSE {})) BY <2>1
    <3>2. w[j + 1] = shifted(w[j]) BY <1>6, <2>1
    <3> QED BY <2>4, <2>5, <2>6, <3>1, <3>2, Zenon
  <2> QED BY <2>1, <2>7
<1>12. 0 .. 8 \subseteq G
  <2> HIDE DEF G
  <2>1. 8 \in Nat OBVIOUS
  <2> QED BY <1>10, <1>11, <2>1, UpFromZero
<1>13. c[8] = xor(w[8], shr(v, 8)) BY <1>12
<1> QED BY <1>6, <1>9, <1>13 DEF low

(* The remainder after each step of the division.                          *)
divided(r, d) == IF d \in r THEN xor(r, {e + d - 32 : e \in generator}) ELSE r

LEMMA RestIs ==
  ASSUME NEW p \in SUBSET Int, NEW m \in Nat
  PROVE  \E r \in [0 .. m -> SUBSET Int] :
           /\ r[0] = p /\ remainder(p, m + 31) = r[m]
           /\ \A t \in 0 .. m - 1 : r[t + 1] = divided(r[t], m + 31 - t)
<1> DEFINE next == [t \in 1 .. m |-> [q \in SUBSET Int |-> divided(q, m + 32 - t)]]
           rest == CHOOSE rest : rest = [d \in 32 .. m + 31 + 1 |->
                     IF d > m + 31 THEN p
                     ELSE LET r == rest[d + 1]
                          IN IF d \in r THEN xor(r, {e + d - 32 : e \in generator}) ELSE r]
<1>1. remainder(p, m + 31) = rest[32] BY Zenon DEF remainder
<1>2. \A q \in SUBSET Int, d \in Int : divided(q, d) \in SUBSET Int
  <2>1. generator \in SUBSET Int BY DEF generator, kPoly
  <2>2. \A d \in Int, e \in generator : e + d - 32 \in Int BY <2>1
  <2> QED BY <2>2 DEF divided, xor
<1>3. PICK s : Computes(s, p, next, m, SUBSET Int)
  <2>1. \A t \in 1 .. m : m + 32 - t \in Int OBVIOUS
  <2>2. IsStep(next, m, SUBSET Int) BY <1>2, <2>1 DEF IsStep
  <2> HIDE DEF next
  <2> QED BY <2>2, Recursion
<1>4. s \in [0 .. m -> SUBSET Int] /\ s[0] = p BY <1>3, Zenon DEF Computes
<1>5. \A t \in 1 .. m : s[t] = divided(s[t - 1], m + 32 - t)
  <2> TAKE t \in 1 .. m
  <2>1. s[t] = next[t][s[t - 1]]
    <3> HIDE DEF next
    <3> QED BY <1>3 DEF Computes
  <2>2. t - 1 \in 0 .. m OBVIOUS
  <2>3. s[t - 1] \in SUBSET Int BY <1>4, <2>2
  <2> QED BY <2>1, <2>3
<1> DEFINE f == [d \in 32 .. m + 31 + 1 |-> s[m + 32 - d]]
           body(g, d) == IF d > m + 31 THEN p ELSE divided(g[d + 1], d)
<1>6. \A d \in 32 .. m + 31 + 1 : f[d] = body(f, d)
  <2> TAKE d \in 32 .. m + 31 + 1
  <2>1. f[d] = s[m + 32 - d] OBVIOUS
  <2>2. CASE d > m + 31
    <3>1. m + 32 - d = 0 BY <2>2
    <3> QED BY <1>4, <2>1, <2>2, <3>1
  <2>3. CASE ~(d > m + 31)
    <3>1. /\ m + 32 - d \in 1 .. m /\ m + 32 - d - 1 = m + 32 - (d + 1)
          /\ m + 32 - (m + 32 - d) = d /\ d + 1 \in 32 .. m + 31 + 1
      BY <2>3
    <3>2. f[d + 1] = s[m + 32 - (d + 1)] BY <3>1
    <3>3. s[m + 32 - d] = divided(s[m + 32 - d - 1], m + 32 - (m + 32 - d)) BY <1>5, <3>1
    <3> HIDE DEF f
    <3> QED BY <2>1, <2>3, <3>1, <3>2, <3>3
  <2> QED BY <2>2, <2>3
<1>7. f = [d \in 32 .. m + 31 + 1 |-> body(f, d)] BY <1>6
<1>8. rest = [d \in 32 .. m + 31 + 1 |-> body(rest, d)]
  <2> DEFINE whole(g) == [d \in 32 .. m + 31 + 1 |->
                           IF d > m + 31 THEN p
                           ELSE LET r == g[d + 1]
                                IN IF d \in r THEN xor(r, {e + d - 32 : e \in generator}) ELSE r]
  <2>1. \A g : whole(g) = [d \in 32 .. m + 31 + 1 |-> body(g, d)] BY Zenon DEF divided
  <2>2. f = whole(f)
    <3> HIDE DEF f, whole, body
    <3> QED BY <1>7, <2>1, Zenon
  <2>3. rest = whole(rest)
    <3> HIDE DEF f
    <3> QED BY <2>2, Zenon
  <2> HIDE DEF rest, whole, body
  <2> QED BY <2>1, <2>3, Zenon
<1> HIDE DEF rest, f, next
<1> DEFINE r == [t \in 0 .. m |-> rest[m + 32 - t]]
<1>9. r[0] = p
  <2>1. m + 32 - 0 = m + 32 /\ m + 32 \in 32 .. m + 31 + 1 /\ m + 32 > m + 31 /\ 0 \in 0 .. m OBVIOUS
  <2> QED BY <1>8, <2>1
<1>10. r[m] = rest[32]
  <2>1. m + 32 - m = 32 /\ m \in 0 .. m OBVIOUS
  <2> QED BY <2>1
<1>11. \A t \in 0 .. m - 1 : r[t + 1] = divided(r[t], m + 31 - t)
  <2> TAKE t \in 0 .. m - 1
  <2>1. /\ m + 32 - (t + 1) = m + 31 - t /\ m + 31 - t + 1 = m + 32 - t
        /\ m + 31 - t \in 32 .. m + 31 + 1 /\ ~(m + 31 - t > m + 31)
        /\ t \in 0 .. m /\ t + 1 \in 0 .. m
    OBVIOUS
  <2>2. rest[m + 31 - t] = divided(rest[m + 31 - t + 1], m + 31 - t) BY <1>8, <2>1
  <2>3. r[t + 1] = rest[m + 31 - t] /\ r[t] = rest[m + 32 - t] BY <2>1
  <2> HIDE DEF r
  <2> QED BY <2>1, <2>2, <2>3
<1>12. r \in [0 .. m -> SUBSET Int]
  <2> DEFINE G == {t \in 0 .. m : r[t] \in SUBSET Int}
  <2>1. 0 \in G
    <3>1. 0 \in 0 .. m OBVIOUS
    <3> QED BY <1>9, <3>1
  <2>2. ASSUME NEW t \in 0 .. m - 1, t \in G PROVE t + 1 \in G
    <3>1. m + 31 - t \in Int /\ t + 1 \in 0 .. m OBVIOUS
    <3>2. r[t + 1] = divided(r[t], m + 31 - t) /\ r[t] \in SUBSET Int BY <1>11, <2>2
    <3> HIDE DEF r
    <3>3. r[t + 1] \in SUBSET Int BY <1>2, <3>1, <3>2
    <3> QED BY <3>1, <3>3
  <2>3. 0 .. m \subseteq G
    <3> HIDE DEF G
    <3> QED BY <2>1, <2>2, UpFromZero
  <2> QED BY <2>3
<1> HIDE DEF r
<1> QED BY <1>1, <1>9, <1>10, <1>11, <1>12

(* A register as the exponents it stands for when t of m bits are in.      *)
reflected(c, m, t) == {m - t + 31 - b : b \in c}
pending(data, m, t) == {e \in 32 .. m + 31 - t : bit_at(data, m + 31 - e)}

LEMMA ReflectedXor ==
  ASSUME NEW x \in Word32, NEW y \in Word32, NEW m \in Int, NEW t \in Int
  PROVE  reflected(xor(x, y), m, t) = xor(reflected(x, m, t), reflected(y, m, t))
<1>1. ASSUME NEW e PROVE e \in reflected(xor(x, y), m, t) <=> e \in xor(reflected(x, m, t), reflected(y, m, t))
  <2>1. CASE \E b \in 0 .. 31 : e = m - t + 31 - b
    <3>1. PICK b \in 0 .. 31 : e = m - t + 31 - b BY <2>1
    <3>2. \A z \in Word32 : e \in reflected(z, m, t) <=> b \in z
      <4> TAKE z \in Word32
      <4>1. \A h \in 0 .. 31 : e = m - t + 31 - h => h = b BY <3>1
      <4>2. \A h \in z : h \in 0 .. 31 BY DEF Word32
      <4> QED BY <3>1, <4>1, <4>2 DEF reflected
    <3>3. xor(x, y) \in Word32 BY WordXor
    <3> QED BY <3>2, <3>3 DEF xor
  <2>2. CASE ~\E b \in 0 .. 31 : e = m - t + 31 - b
    <3>1. \A z \in Word32 : e \notin reflected(z, m, t) BY <2>2 DEF reflected, Word32
    <3>2. xor(x, y) \in Word32 BY WordXor
    <3> QED BY <3>1, <3>2 DEF xor
  <2> QED BY <2>1, <2>2
<1> QED BY <1>1

(* One bit fed to the register is one step of the division.                *)
LEMMA StepDivides ==
  ASSUME NEW m \in Nat, NEW t \in 0 .. m - 1, NEW y \in Word32,
         NEW pend \in SUBSET (32 .. m + 30 - t)
  PROVE  divided(xor(pend, reflected(y, m, t)), m + 31 - t)
           = xor(pend, reflected(shifted(y), m, t + 1))
<1> DEFINE d == m + 31 - t
           r == xor(pend, reflected(y, m, t))
<1>1. d \in Int /\ t \in Int /\ t + 1 \in Int /\ m \in Int OBVIOUS
<1>2. d \notin pend OBVIOUS
<1>3. d \in reflected(y, m, t) <=> 0 \in y
  <2>1. \A b \in 0 .. 31 : d = m - t + 31 - b <=> b = 0 OBVIOUS
  <2>2. \A b \in y : b \in 0 .. 31 BY DEF Word32
  <2> QED BY <2>1, <2>2 DEF reflected
<1>4. reflected(shr(y, 1), m, t + 1) = reflected(y, m, t) \ {d}
  <2>1. ASSUME NEW e \in reflected(shr(y, 1), m, t + 1) PROVE e \in reflected(y, m, t) \ {d}
    <3>1. PICK b \in 0 .. 31 : b + 1 \in y /\ e = m - (t + 1) + 31 - b BY DEF reflected, shr
    <3>2. e = m - t + 31 - (b + 1) /\ e # d BY <3>1
    <3> QED BY <3>1, <3>2 DEF reflected
  <2>2. ASSUME NEW e \in reflected(y, m, t), e # d PROVE e \in reflected(shr(y, 1), m, t + 1)
    <3>1. PICK b \in y : e = m - t + 31 - b BY DEF reflected
    <3>2. b \in 0 .. 31 BY DEF Word32
    <3>3. b # 0 BY <2>2, <3>1
    <3>4. b - 1 \in 0 .. 31 /\ b - 1 + 1 = b /\ e = m - (t + 1) + 31 - (b - 1) BY <3>1, <3>2, <3>3
    <3>5. b - 1 \in shr(y, 1) BY <3>1, <3>4 DEF shr
    <3> QED BY <3>4, <3>5 DEF reflected
  <2> QED BY <2>1, <2>2
<1>5. d \in r <=> 0 \in y BY <1>2, <1>3 DEF xor
<1>6. CASE 0 \notin y
  <2>1. shifted(y) = shr(y, 1) BY <1>6 DEF shifted
  <2>2. reflected(shr(y, 1), m, t + 1) = reflected(y, m, t) BY <1>3, <1>4, <1>6
  <2> QED BY <1>5, <1>6, <2>1, <2>2, Zenon DEF divided
<1>7. CASE 0 \in y
  <2> DEFINE k == reflected(kPoly, m, t + 1)
             g == {e + d - 32 : e \in generator}
  <2>1. shifted(y) = xor(shr(y, 1), kPoly) BY <1>7 DEF shifted
  <2>2. reflected(shifted(y), m, t + 1) = xor(reflected(y, m, t) \ {d}, k)
    <3>1. shr(y, 1) \in Word32 BY WordShr
    <3>2. reflected(xor(shr(y, 1), kPoly), m, t + 1) = xor(reflected(shr(y, 1), m, t + 1), k)
      BY <1>1, <3>1, PolyType, ReflectedXor
    <3> HIDE DEF k, d
    <3> QED BY <1>4, <2>1, <3>2, Zenon
  <2>3. \A b \in kPoly : b \in 0 .. 31 /\ 31 - b + d - 32 = m - (t + 1) + 31 - b /\ m - (t + 1) + 31 - b # d
    <3>1. \A b \in 0 .. 31 : 31 - b + d - 32 = m - (t + 1) + 31 - b /\ m - (t + 1) + 31 - b # d OBVIOUS
    <3> QED BY <3>1, PolyType DEF Word32
  <2>4. g = {d} \cup k /\ d \notin k
    <3>1. 32 + d - 32 = d OBVIOUS
    <3> HIDE DEF d
    <3> QED BY <2>3, <3>1 DEF generator, reflected
  <2>5. divided(r, d) = xor(r, g) BY <1>5, <1>7, Zenon DEF divided
  <2> HIDE DEF k, g, d
  <2>6. d \in reflected(y, m, t) BY <1>3, <1>7
  <2>7. xor(r, g) = xor(pend, xor(reflected(y, m, t) \ {d}, k))
    <3>1. \A e : e \in xor(r, g) <=> e \in xor(pend, xor(reflected(y, m, t) \ {d}, k))
      BY <1>2, <2>4, <2>6 DEF xor
    <3> QED BY <3>1
  <2> QED BY <2>2, <2>5, <2>7 DEF d
<1> QED BY <1>6, <1>7

LEMMA FullRegister ==
  ASSUME NEW m \in Nat
  PROVE  reflected(0 .. 31, m, 0) = m .. m + 31
<1>1. ASSUME NEW e \in m .. m + 31 PROVE e \in reflected(0 .. 31, m, 0)
  <2>1. m + 31 - e \in 0 .. 31 /\ e = m - 0 + 31 - (m + 31 - e) OBVIOUS
  <2> QED BY <2>1 DEF reflected
<1>2. \A b \in 0 .. 31 : m - 0 + 31 - b \in m .. m + 31 OBVIOUS
<1> QED BY <1>1, <1>2 DEF reflected

LEMMA PendingBit ==
  ASSUME NEW data, NEW m \in Nat, NEW t \in 0 .. m - 1
  PROVE  /\ pending(data, m, t)
              = pending(data, m, t + 1) \cup (IF bit_at(data, t) THEN {m + 31 - t} ELSE {})
         /\ pending(data, m, t + 1) \in SUBSET (32 .. m + 30 - t)
         /\ reflected({0}, m, t) = {m + 31 - t}
<1>1. m + 31 - (m + 31 - t) = t /\ m + 31 - t \in 32 .. m + 31 - t /\ m + 31 - (t + 1) = m + 30 - t OBVIOUS
<1>2. \A e \in Int : e \in 32 .. m + 31 - t <=> e \in 32 .. m + 30 - t \/ e = m + 31 - t OBVIOUS
<1>3. m - t + 31 - 0 = m + 31 - t OBVIOUS
<1> QED BY <1>1, <1>2, <1>3 DEF pending, reflected

(* The remainder of the whole message is the register after its last bit.  *)
LEMMA SerialDivides ==
  ASSUME NEW data \in Seq(Byte), NEW m \in Nat, m = 8 * Len(data), NEW s \in [0 .. m -> Word32],
         s[0] = 0 .. 31, \A t \in 0 .. m - 1 : s[t + 1] = shifted(fed(s[t], data, t))
  PROVE  remainder(message(data), m + 31) = reflected(s[m], 0, 0)
<1>1. message(data) = xor(pending(data, m, 0), reflected(0 .. 31, m, 0))
  <2> DEFINE bit(e) == m - 1 - e
             sent == {e \in 0 .. m - 1 : bit(e) % 8 \in data[1 + bit(e) \div 8]}
  <2>1. message(data) = xor({e + 32 : e \in sent}, m .. m + 31) BY DEF message
  <2>2. reflected(0 .. 31, m, 0) = m .. m + 31 BY FullRegister
  <2>3. {e + 32 : e \in sent} = pending(data, m, 0)
    <3>1. \A e \in 0 .. m - 1 : e \in sent <=> bit_at(data, m - 1 - e) BY DEF bit_at
    <3>2. ASSUME NEW e \in sent PROVE e + 32 \in pending(data, m, 0)
      <4>1. e \in 0 .. m - 1 OBVIOUS
      <4>2. e + 32 \in 32 .. m + 31 - 0 /\ m + 31 - (e + 32) = m - 1 - e BY <4>1
      <4> HIDE DEF sent
      <4> QED BY <3>1, <4>1, <4>2 DEF pending
    <3>3. ASSUME NEW h \in pending(data, m, 0) PROVE \E e \in sent : h = e + 32
      <4>1. h \in 32 .. m + 31 - 0 /\ bit_at(data, m + 31 - h) BY DEF pending
      <4>2. h - 32 \in 0 .. m - 1 /\ h = h - 32 + 32 /\ m - 1 - (h - 32) = m + 31 - h BY <4>1
      <4> HIDE DEF sent
      <4> QED BY <3>1, <4>1, <4>2
    <3> HIDE DEF sent
    <3> QED BY <3>2, <3>3
  <2> HIDE DEF sent
  <2> QED BY <2>1, <2>2, <2>3
<1>2. message(data) \in SUBSET Int
  <2>1. pending(data, m, 0) \in SUBSET Int BY DEF pending
  <2>2. reflected(0 .. 31, m, 0) \in SUBSET Int BY FullRegister
  <2> QED BY <1>1, <2>1, <2>2 DEF xor
<1>3. PICK r \in [0 .. m -> SUBSET Int] :
        /\ r[0] = message(data) /\ remainder(message(data), m + 31) = r[m]
        /\ \A t \in 0 .. m - 1 : r[t + 1] = divided(r[t], m + 31 - t)
  BY <1>2, RestIs
<1> DEFINE G == {t \in 0 .. m : r[t] = xor(pending(data, m, t), reflected(s[t], m, t))}
<1>4. 0 \in G
  <2>1. 0 \in 0 .. m OBVIOUS
  <2> QED BY <1>1, <1>3, <2>1
<1>5. ASSUME NEW t \in 0 .. m - 1, t \in G PROVE t + 1 \in G
  <2> DEFINE y == fed(s[t], data, t)
             pend == pending(data, m, t + 1)
  <2>1. t \in 0 .. m /\ t + 1 \in 0 .. m /\ m \in Int /\ t \in Int OBVIOUS
  <2>a. {0} \in Word32 /\ {} \in Word32 BY DEF Word32
  <2>2. s[t] \in Word32 /\ {0} \in Word32 /\ {} \in Word32 BY <2>1, <2>a
  <2>3. y \in Word32 BY <2>2, WordXor DEF fed
  <2>4. pend \in SUBSET (32 .. m + 30 - t) BY PendingBit
  <2>5. xor(pending(data, m, t), reflected(s[t], m, t)) = xor(pend, reflected(y, m, t))
    <3>3. pending(data, m, t) = pend \cup (IF bit_at(data, t) THEN {m + 31 - t} ELSE {})
      BY PendingBit
    <3>4. m + 31 - t \notin pend
      <4>1. m + 31 - t \notin 32 .. m + 30 - t OBVIOUS
      <4> QED BY <2>4, <4>1
    <3>5. reflected({0}, m, t) = {m + 31 - t} BY PendingBit
    <3>6. CASE bit_at(data, t)
      <4>1. y = xor(s[t], {0}) BY <3>6 DEF fed
      <4>2. reflected(xor(s[t], {0}), m, t) = xor(reflected(s[t], m, t), reflected({0}, m, t))
        BY <2>1, <2>2, ReflectedXor
      <4>3. pending(data, m, t) = pend \cup {m + 31 - t} BY <3>3, <3>6
      <4> HIDE DEF pend, y
      <4>4. reflected(y, m, t) = xor(reflected(s[t], m, t), {m + 31 - t}) BY <3>5, <4>1, <4>2, Zenon
      <4>5. \A a, b, e : e \notin a => xor(a \cup {e}, b) = xor(a, xor(b, {e})) BY DEF xor
      <4> QED BY <3>4, <4>3, <4>4, <4>5
    <3>7. CASE ~bit_at(data, t)
      <4>1. y = s[t] BY <3>7 DEF fed, xor
      <4>2. pending(data, m, t) = pend BY <3>3, <3>7
      <4> QED BY <4>1, <4>2
    <3> QED BY <3>6, <3>7
  <2>6. r[t + 1] = divided(xor(pend, reflected(y, m, t)), m + 31 - t)
    <3> HIDE DEF pend, y
    <3> QED BY <1>3, <1>5, <2>5
  <2>7. s[t + 1] = shifted(y) BY <2>1
  <2> HIDE DEF pend, y
  <2>8. r[t + 1] = xor(pend, reflected(s[t + 1], m, t + 1)) BY <2>3, <2>4, <2>6, <2>7, StepDivides
  <2> QED BY <2>1, <2>8 DEF pend
<1>6. 0 .. m \subseteq G
  <2> HIDE DEF G
  <2> QED BY <1>4, <1>5, UpFromZero
<1>7. r[m] = xor(pending(data, m, m), reflected(s[m], m, m)) BY <1>6
<1>8. pending(data, m, m) = {}
  <2>1. ~\E e : e \in 32 .. m + 31 - m OBVIOUS
  <2> QED BY <2>1 DEF pending
<1>9. reflected(s[m], m, m) = reflected(s[m], 0, 0)
  <2>1. \A b \in 0 .. 31 : m - m + 31 - b = 0 - 0 + 31 - b OBVIOUS
  <2>2. s[m] \subseteq 0 .. 31
    <3>1. m \in 0 .. m OBVIOUS
    <3>2. s[m] \in Word32 BY <3>1
    <3> QED BY <3>2 DEF Word32
  <2>3. \A b \in s[m] : m - m + 31 - b = 0 - 0 + 31 - b BY <2>1, <2>2, Zenon
  <2> QED BY <2>3 DEF reflected
<1>10. \A x : xor({}, x) = x BY DEF xor
<1> QED BY <1>3, <1>7, <1>8, <1>9, <1>10

(* The register after a byte by table is the one after its eight bits.     *)
LEMMA SerialChecksum ==
  ASSUME NEW data \in Seq(Byte), NEW m \in Nat, m = 8 * Len(data), NEW s \in [0 .. m -> Word32],
         s[0] = 0 .. 31, \A t \in 0 .. m - 1 : s[t + 1] = shifted(fed(s[t], data, t))
  PROVE  crc32c_update(0 .. 31, data) = s[m]
<1>1. PICK n \in Nat : n = Len(data) OBVIOUS
<1>2. PICK c \in [0 .. n -> Word32] :
        /\ c[0] = 0 .. 31 /\ crc32c_update(0 .. 31, data) = c[n]
        /\ \A k \in 1 .. n : c[k] = xor(table[byte_of(xor(c[k - 1], data[k]), 0)], shr(c[k - 1], 8))
  <2>1. 0 .. 31 \in Word32 BY DEF Word32
  <2> QED BY <1>1, <2>1, UpdateIs
<1> DEFINE G == {k \in 0 .. n : c[k] = s[8 * k]}
<1>5. 0 \in G
  <2>1. 0 \in 0 .. n /\ 8 * 0 = 0 OBVIOUS
  <2> QED BY <1>2, <2>1
<1>6. ASSUME NEW k \in 0 .. n - 1, k \in G PROVE k + 1 \in G
  <2>m. m = 8 * n BY <1>1
  <2>1. /\ k + 1 \in 1 .. n /\ k + 1 \in 0 .. n /\ k + 1 - 1 = k /\ 8 * (k + 1) = 8 * k + 8
        /\ \A j \in 0 .. 8 : 8 * k + j \in 0 .. m
        /\ \A j \in 0 .. 7 : 8 * k + j \in 0 .. m - 1 /\ 8 * k + j + 1 = 8 * k + (j + 1)
                             /\ (8 * k + j) % 8 = j /\ 1 + (8 * k + j) \div 8 = k + 1
    <3>1. k + 1 \in 1 .. n /\ k + 1 \in 0 .. n /\ k + 1 - 1 = k /\ 8 * (k + 1) = 8 * k + 8 OBVIOUS
    <3>2. \A j \in 0 .. 8 : 8 * k + j \in 0 .. m BY <2>m
    <3>3. \A j \in 0 .. 7 : 8 * k + j \in 0 .. m - 1 /\ 8 * k + j + 1 = 8 * k + (j + 1) BY <2>m
    <3>4. \A j \in 0 .. 7 : (8 * k + j) % 8 = j /\ 1 + (8 * k + j) \div 8 = k + 1
      <4> TAKE j \in 0 .. 7
      <4>1. 8 \in Nat \ {0} /\ k \in Int /\ j \in 0 .. 8 - 1 OBVIOUS
      <4>2. (8 * k + j) \div 8 = k /\ (8 * k + j) % 8 = j BY <4>1, Quotient
      <4>3. 1 + k = k + 1 OBVIOUS
      <4> QED BY <4>2, <4>3, Zenon
    <3> QED BY <3>1, <3>2, <3>3, <3>4
  <2>2. data[k + 1] \in Byte BY <1>1, <2>1, ElementOfSeq
  <2> DEFINE f == [j \in 0 .. 8 |-> s[8 * k + j]]
             B == data[k + 1]
  <2>3. f \in [0 .. 8 -> Word32] BY <2>1
  <2>4. \A j \in 0 .. 7 : f[j + 1] = shifted(xor(f[j], IF j \in B THEN {0} ELSE {}))
    <3> TAKE j \in 0 .. 7
    <3>1. f[j] = s[8 * k + j] /\ f[j + 1] = s[8 * k + (j + 1)]
      <4>1. j \in 0 .. 8 /\ j + 1 \in 0 .. 8 OBVIOUS
      <4> QED BY <4>1
    <3>2. bit_at(data, 8 * k + j) <=> j \in B BY <2>1 DEF bit_at
    <3>3. s[8 * k + j + 1] = shifted(fed(s[8 * k + j], data, 8 * k + j)) BY <2>1
    <3> HIDE DEF f, B
    <3>4. CASE j \in B BY <2>1, <3>1, <3>2, <3>3, <3>4 DEF fed
    <3>5. CASE j \notin B BY <2>1, <3>1, <3>2, <3>3, <3>5 DEF fed
    <3> QED BY <3>4, <3>5
  <2>5. f[0] = s[8 * k] /\ f[8] = s[8 * k + 8]
    <3>1. 0 \in 0 .. 8 /\ 8 \in 0 .. 8 /\ 8 * k + 0 = 8 * k OBVIOUS
    <3> QED BY <3>1
  <2>6. B \in Byte BY <2>2
  <2> HIDE DEF f
  <2>7. f[8] = xor(table[byte_of(xor(f[0], B), 0)], shr(f[0], 8))
    <3> HIDE DEF B
    <3> QED BY <2>3, <2>4, <2>6, ByteIsEightBits
  <2>8. c[k + 1] = xor(table[byte_of(xor(c[k], B), 0)], shr(c[k], 8)) BY <1>2, <2>1
  <2>9. c[k] = s[8 * k] BY <1>6
  <2>10. c[k + 1] = s[8 * (k + 1)] BY <2>1, <2>5, <2>7, <2>8, <2>9
  <2> QED BY <2>1, <2>10
<1>7. 0 .. n \subseteq G
  <2> HIDE DEF G
  <2> QED BY <1>5, <1>6, UpFromZero
<1>8. 8 * n = m /\ n \in 0 .. n BY <1>1
<1> QED BY <1>2, <1>7, <1>8

(* What the table computes byte after byte is the remainder of the message *)
(* as a polynomial, for data of any length: the checksum of crc32c.cpp is  *)
(* CRC-32C.                                                                *)
THEOREM ChecksumIsTheRemainder ==
  ASSUME NEW data \in Seq(Byte)
  PROVE  crc32c(data) = crc_of(data)
<1>1. PICK m \in Nat : m = 8 * Len(data) OBVIOUS
<1>2. PICK s \in [0 .. m -> Word32] :
        s[0] = 0 .. 31 /\ \A t \in 0 .. m - 1 : s[t + 1] = shifted(fed(s[t], data, t))
  BY <1>1, SerialIs
<1>3. crc32c_update(0 .. 31, data) = s[m] BY <1>1, <1>2, SerialChecksum
<1>4. remainder(message(data), m + 31) = reflected(s[m], 0, 0) BY <1>1, <1>2, SerialDivides
<1>5. {31 - e : e \in reflected(s[m], 0, 0)} = s[m]
  <2>1. s[m] \in Word32 OBVIOUS
  <2>2. \A b \in s[m] : 31 - (0 - 0 + 31 - b) = b BY <2>1 DEF Word32
  <2> QED BY <2>2 DEF reflected
<1>6. crc_of(data) = (0 .. 31) \ s[m] BY <1>1, <1>4, <1>5, Zenon DEF crc_of
<1> QED BY <1>3, <1>6, Zenon DEF crc32c, crc32c_finish

-----------------------------------------------------------------------------
(* What the checksum detects: two registers are compared bit by bit, as    *)
(* the set of positions at which they differ.                              *)

(* The difference of two registers goes through a step like a register.    *)
LEMMA DifferenceShifted == \A x, y : shifted(xor(x, y)) = xor(shifted(x), shifted(y))
<1> TAKE x, y
<1>1. 0 \in xor(x, y) <=> ~(0 \in x <=> 0 \in y) BY DEF xor
<1>2. shr(xor(x, y), 1) = xor(shr(x, 1), shr(y, 1)) BY DEF shr, xor
<1>3. PICK p, q : p = shr(x, 1) /\ q = shr(y, 1) OBVIOUS
<1>4. CASE 0 \in x /\ 0 \in y
  <2>1. xor(xor(p, kPoly), xor(q, kPoly)) = xor(p, q) BY DEF xor
  <2> QED BY <1>1, <1>2, <1>3, <1>4, <2>1, Zenon DEF shifted
<1>5. CASE 0 \in x /\ 0 \notin y
  <2>1. xor(xor(p, kPoly), q) = xor(xor(p, q), kPoly) BY DEF xor
  <2> QED BY <1>1, <1>2, <1>3, <1>5, <2>1, Zenon DEF shifted
<1>6. CASE 0 \notin x /\ 0 \in y
  <2>1. xor(p, xor(q, kPoly)) = xor(xor(p, q), kPoly) BY DEF xor
  <2> QED BY <1>1, <1>2, <1>3, <1>6, <2>1, Zenon DEF shifted
<1>7. CASE 0 \notin x /\ 0 \notin y BY <1>1, <1>2, <1>7, Zenon DEF shifted
<1> QED BY <1>4, <1>5, <1>6, <1>7

(* Bit 31 tells what was shifted out: the polynomial has it, a shifted     *)
(* word has not.                                                           *)
LEMMA ShiftedBack ==
  ASSUME NEW x \in Word32, NEW k \in 0 .. 31, shifted(x) \in SUBSET (0 .. k - 1)
  PROVE  0 \notin x /\ x \in SUBSET (0 .. k)
<1>1. 31 \notin shifted(x) OBVIOUS
<1>2. 31 \notin shr(x, 1) BY DEF shr, Word32
<1>3. 31 \in kPoly BY DEF kPoly
<1>4. 0 \notin x
  <2> SUFFICES ASSUME 0 \in x PROVE FALSE OBVIOUS
  <2>1. shifted(x) = xor(shr(x, 1), kPoly) BY DEF shifted
  <2> QED BY <1>1, <1>2, <1>3, <2>1 DEF xor
<1>5. shifted(x) = shr(x, 1) BY <1>4 DEF shifted
<1>6. ASSUME NEW b \in x PROVE b \in 0 .. k
  <2>1. b \in 1 .. 31 BY <1>4 DEF Word32
  <2>2. b - 1 \in 0 .. 31 /\ b - 1 + 1 = b BY <2>1
  <2>3. b - 1 \in shr(x, 1) BY <2>2 DEF shr
  <2>4. b - 1 \in 0 .. k - 1 BY <1>5, <2>3
  <2> QED BY <2>1, <2>4
<1> QED BY <1>4, <1>6

(* Differences e of two registers over k <= 32 bits, x after a bit is fed: *)
(* if they begin with none and end below bit 32 - k, no two bits differ.   *)
Differences(e, x, k) ==
  /\ e \in [0 .. k -> Word32] /\ x \in [0 .. k - 1 -> Word32]
  /\ e[0] = {} /\ e[k] \in SUBSET (0 .. 31 - k)
  /\ \A j \in 0 .. k - 1 : e[j + 1] = shifted(x[j])
  /\ \A j \in 0 .. k - 1 : x[j] = e[j] \/ x[j] = xor(e[j], {0})

LEMMA ShortBurst ==
  ASSUME NEW k \in 0 .. 32, NEW e, NEW x, Differences(e, x, k)
  PROVE  /\ \A j \in 0 .. k - 1 : x[j] = e[j]
         /\ \A j \in 0 .. k : e[j] = {}
<1> USE DEF Differences
<1> DEFINE G == {i \in 0 .. k : e[k - i] \in SUBSET (0 .. 31 - k + i)}
<1>1. 0 \in G OBVIOUS
<1>2. ASSUME NEW i \in 0 .. k - 1, e[k - i] \in SUBSET (0 .. 31 - k + i)
      PROVE  0 \notin x[k - i - 1] /\ e[k - i - 1] \in SUBSET (0 .. 31 - k + i + 1)
  <2>1. PICK j \in 0 .. k - 1 : j = k - i - 1 OBVIOUS
  <2>2. PICK w \in 0 .. 31 : w = 31 - k + i + 1 OBVIOUS
  <2>3. j + 1 = k - i /\ 31 - k + i = w - 1 BY <2>1, <2>2
  <2>4. shifted(x[j]) \in SUBSET (0 .. w - 1) BY <1>2, <2>3
  <2>5. x[j] \in Word32 OBVIOUS
  <2>6. 0 \notin x[j] /\ x[j] \in SUBSET (0 .. w) BY <2>4, <2>5, ShiftedBack
  <2>7. e[j] \in SUBSET (0 .. w)
    <3>1. x[j] = e[j] \/ x[j] = xor(e[j], {0}) OBVIOUS
    <3>2. \A a \in e[j] : a \in x[j] \/ a = 0 BY <3>1 DEF xor
    <3>3. 0 \in 0 .. w OBVIOUS
    <3> QED BY <2>6, <3>2, <3>3
  <2> QED BY <2>1, <2>2, <2>6, <2>7
<1>3. ASSUME NEW i \in 0 .. k - 1, i \in G PROVE i + 1 \in G
  <2>1. i + 1 \in 0 .. k /\ k - (i + 1) = k - i - 1 /\ 31 - k + (i + 1) = 31 - k + i + 1 OBVIOUS
  <2>2. e[k - i - 1] \in SUBSET (0 .. 31 - k + i + 1) BY <1>2, <1>3
  <2>3. e[k - (i + 1)] \in SUBSET (0 .. 31 - k + (i + 1)) BY <2>1, <2>2
  <2> QED BY <2>1, <2>3
<1>4. 0 .. k \subseteq G
  <2> HIDE DEF G
  <2>1. k \in Nat OBVIOUS
  <2> QED BY <1>1, <1>3, <2>1, UpFromZero
<1>5. \A j \in 0 .. k - 1 : 0 \notin x[j]
  <2> TAKE j \in 0 .. k - 1
  <2>1. PICK i \in 0 .. k - 1 : i = k - 1 - j OBVIOUS
  <2>2. k - i - 1 = j /\ i \in 0 .. k BY <2>1
  <2>3. e[k - i] \in SUBSET (0 .. 31 - k + i) BY <1>4, <2>2
  <2> QED BY <1>2, <2>2, <2>3
<1> DEFINE H == {j \in 0 .. k : e[j] = {}}
<1>6. 0 \in H OBVIOUS
<1>7. ASSUME NEW j \in 0 .. k - 1, e[j] = {} PROVE x[j] = e[j] /\ e[j + 1] = {}
  <2>1. x[j] = {} \/ x[j] = xor({}, {0}) BY <1>7
  <2>2. 0 \notin x[j] BY <1>5
  <2>3. 0 \in xor({}, {0}) BY DEF xor
  <2>4. x[j] = {} BY <2>1, <2>2, <2>3
  <2>5. shifted({}) = {} BY DEF shifted, shr
  <2> QED BY <1>7, <2>4, <2>5
<1>8. ASSUME NEW j \in 0 .. k - 1, j \in H PROVE j + 1 \in H
  <2>1. j + 1 \in 0 .. k OBVIOUS
  <2> QED BY <1>7, <1>8, <2>1
<1>9. 0 .. k \subseteq H
  <2> HIDE DEF H
  <2>1. k \in Nat OBVIOUS
  <2> QED BY <1>6, <1>8, <2>1, UpFromZero
<1>10. \A j \in 0 .. k : e[j] = {} BY <1>9
<1>11. \A j \in 0 .. k - 1 : j \in 0 .. k OBVIOUS
<1> QED BY <1>7, <1>10, <1>11

(* r is the register over the first m bits of data.                        *)
Register(r, data, m) ==
  r \in [0 .. m -> Word32] /\ \A t \in 0 .. m - 1 : r[t + 1] = shifted(fed(r[t], data, t))

SameBetween(a, b, lo, hi) == \A t \in lo .. hi - 1 : bit_at(a, t) <=> bit_at(b, t)

(* The registers over a and b agree at lo and differ at hi below the bits  *)
(* still to come: then no bit between lo and hi differs.                   *)
LEMMA RegistersAgree ==
  ASSUME NEW a, NEW b, NEW m \in Nat,
         NEW r, Register(r, a, m), NEW s, Register(s, b, m),
         NEW lo \in 0 .. m, NEW hi \in lo .. m, hi - lo <= 32,
         r[lo] = s[lo], xor(r[hi], s[hi]) \in SUBSET (0 .. 31 - (hi - lo))
  PROVE  SameBetween(a, b, lo, hi)
<1> USE DEF Register
<1>1. PICK k \in 0 .. 32 : k = hi - lo OBVIOUS
<1>2. \A j \in 0 .. k : lo + j \in 0 .. m BY <1>1
<1>3. \A j \in 0 .. k - 1 : lo + j \in 0 .. m - 1 /\ lo + j \in 0 .. m /\ lo + j + 1 = lo + (j + 1)
                            /\ j \in 0 .. k /\ j + 1 \in 0 .. k
  BY <1>1
<1> DEFINE e == [j \in 0 .. k |-> xor(r[lo + j], s[lo + j])]
           x == [j \in 0 .. k - 1 |-> xor(fed(r[lo + j], a, lo + j), fed(s[lo + j], b, lo + j))]
<1>f. \A w \in Word32 : \A d, t : fed(w, d, t) \in Word32
  <2>1. {0} \in Word32 /\ {} \in Word32 BY DEF Word32
  <2> QED BY <2>1, WordXor DEF fed
<1>4. e \in [0 .. k -> Word32]
  <2>1. \A j \in 0 .. k : r[lo + j] \in Word32 /\ s[lo + j] \in Word32 BY <1>2
  <2> QED BY <2>1, WordXor
<1>5. x \in [0 .. k - 1 -> Word32]
  <2>1. \A j \in 0 .. k - 1 : r[lo + j] \in Word32 /\ s[lo + j] \in Word32 BY <1>3
  <2>2. \A j \in 0 .. k - 1 : fed(r[lo + j], a, lo + j) \in Word32 /\ fed(s[lo + j], b, lo + j) \in Word32
    BY <1>f, <2>1
  <2> QED BY <2>2, WordXor
<1>6. e[0] = {} /\ e[k] \in SUBSET (0 .. 31 - k)
  <2>1. 0 \in 0 .. k /\ k \in 0 .. k /\ lo + 0 = lo /\ lo + k = hi BY <1>1
  <2>2. e[0] = xor(r[lo], s[lo]) /\ e[k] = xor(r[hi], s[hi]) BY <2>1
  <2> HIDE DEF e
  <2> QED BY <1>1, <2>2 DEF xor
<1>7. \A j \in 0 .. k - 1 : e[j + 1] = shifted(x[j])
  <2> TAKE j \in 0 .. k - 1
  <2>1. r[lo + j + 1] = shifted(fed(r[lo + j], a, lo + j)) /\ s[lo + j + 1] = shifted(fed(s[lo + j], b, lo + j))
    BY <1>3
  <2>2. e[j + 1] = xor(r[lo + (j + 1)], s[lo + (j + 1)]) BY <1>3
  <2>3. x[j] = xor(fed(r[lo + j], a, lo + j), fed(s[lo + j], b, lo + j)) OBVIOUS
  <2> HIDE DEF e, x
  <2> QED BY <1>3, <2>1, <2>2, <2>3, DifferenceShifted
<1>8. \A j \in 0 .. k - 1 : /\ x[j] = e[j] \/ x[j] = xor(e[j], {0})
                            /\ x[j] = e[j] => (bit_at(a, lo + j) <=> bit_at(b, lo + j))
  <2> TAKE j \in 0 .. k - 1
  <2>1. e[j] = xor(r[lo + j], s[lo + j]) BY <1>3
  <2>2. x[j] = xor(fed(r[lo + j], a, lo + j), fed(s[lo + j], b, lo + j)) OBVIOUS
  <2>3. PICK u, v : u = r[lo + j] /\ v = s[lo + j] OBVIOUS
  <2>4. PICK t : t = lo + j OBVIOUS
  <2> HIDE DEF e, x
  <2>5. e[j] = xor(u, v) /\ x[j] = xor(fed(u, a, t), fed(v, b, t)) BY <2>1, <2>2, <2>3, <2>4, Zenon
  <2>6. xor(u, {}) = u /\ xor(v, {}) = v BY DEF xor
  <2>7. CASE bit_at(a, t) <=> bit_at(b, t)
    <3>1. xor(xor(u, {0}), xor(v, {0})) = xor(u, v) BY DEF xor
    <3> QED BY <2>4, <2>5, <2>6, <2>7, <3>1, Zenon DEF fed
  <2>8. CASE ~(bit_at(a, t) <=> bit_at(b, t))
    <3>1. xor(xor(u, {0}), v) = xor(xor(u, v), {0}) /\ xor(u, xor(v, {0})) = xor(xor(u, v), {0}) BY DEF xor
    <3>2. x[j] = xor(e[j], {0}) BY <2>5, <2>6, <2>8, <3>1, Zenon DEF fed
    <3>3. xor(e[j], {0}) # e[j]
      <4>1. 0 \in xor(e[j], {0}) <=> 0 \notin e[j] BY DEF xor
      <4> QED BY <4>1
    <3> QED BY <3>2, <3>3
  <2> QED BY <2>7, <2>8
<1>9. (\A j \in 0 .. k - 1 : x[j] = e[j]) /\ \A j \in 0 .. k : e[j] = {}
  <2> HIDE DEF e, x
  <2>1. \A j \in 0 .. k - 1 : x[j] = e[j] \/ x[j] = xor(e[j], {0}) BY <1>8
  <2>2. Differences(e, x, k) BY <1>4, <1>5, <1>6, <1>7, <2>1 DEF Differences
  <2> QED BY <2>2, ShortBurst, Zenon
<1> HIDE DEF e, x
<1>10. ASSUME NEW t \in lo .. hi - 1 PROVE bit_at(a, t) <=> bit_at(b, t)
  <2>1. PICK j \in 0 .. k - 1 : t = lo + j
    <3>1. t - lo \in 0 .. k - 1 /\ t = lo + (t - lo) BY <1>1
    <3> QED BY <3>1
  <2> QED BY <1>8, <1>9, <2>1
<1> QED BY <1>10 DEF SameBetween

(* Registers that agree go on to agree as long as the bits do, and agreed  *)
(* as long as the bits did.                                                *)
LEMMA AgreeOn ==
  ASSUME NEW a, NEW b, NEW m \in Nat,
         NEW r, Register(r, a, m), NEW s, Register(s, b, m),
         NEW lo \in 0 .. m, NEW hi \in lo .. m,
         SameBetween(a, b, lo, hi)
  PROVE  r[lo] = s[lo] <=> r[hi] = s[hi]
<1> USE DEF Register
<1>1. ASSUME NEW t \in lo .. hi - 1 PROVE r[t] = s[t] <=> r[t + 1] = s[t + 1]
  <2>1. t \in 0 .. m - 1 /\ t \in 0 .. m /\ t + 1 \in 0 .. m /\ t + 1 \in lo .. m /\ t \in 0 .. m OBVIOUS
  <2>2. r[t + 1] = shifted(fed(r[t], a, t)) /\ s[t + 1] = shifted(fed(s[t], b, t)) BY <2>1
  <2>3. bit_at(a, t) <=> bit_at(b, t) BY DEF SameBetween
  <2>4. ASSUME r[t] = s[t] PROVE r[t + 1] = s[t + 1] BY <2>2, <2>3, <2>4, Zenon DEF fed
  <2>5. ASSUME r[t + 1] = s[t + 1] PROVE r[t] = s[t]
    <3>1. PICK u \in Word32, v \in Word32 : u = fed(r[t], a, t) /\ v = fed(s[t], b, t)
      <4>1. {0} \in Word32 /\ {} \in Word32 BY DEF Word32
      <4>2. r[t] \in Word32 /\ s[t] \in Word32 BY <2>1
      <4> QED BY <4>1, <4>2, WordXor DEF fed
    <3>2. shifted(xor(u, v)) = {}
      <4>1. \A p : xor(p, p) = {} BY DEF xor
      <4> QED BY <2>2, <2>5, <3>1, <4>1, DifferenceShifted, Zenon
    <3>3. xor(u, v) = {}
      <4>1. xor(u, v) \in Word32 /\ 0 \in 0 .. 31 /\ shifted(xor(u, v)) \in SUBSET (0 .. 0 - 1)
        BY <3>2, WordXor
      <4>2. PICK w \in Word32 : w = xor(u, v) BY <4>1
      <4>3. 0 \notin w /\ w \in SUBSET (0 .. 0) BY <4>1, <4>2, ShiftedBack
      <4> QED BY <4>2, <4>3
    <3>4. u = v BY <3>3 DEF xor
    <3>5. \A p, q, n : xor(p, n) = xor(q, n) => p = q BY DEF xor
    <3>6. xor(r[t], IF bit_at(a, t) THEN {0} ELSE {}) = xor(s[t], IF bit_at(a, t) THEN {0} ELSE {})
      BY <2>3, <3>1, <3>4, Zenon DEF fed
    <3> QED BY <3>5, <3>6, Zenon
  <2> QED BY <2>4, <2>5
<1>2. PICK n \in Nat : n = hi - lo OBVIOUS
<1> DEFINE G == {j \in 0 .. n : r[lo] = s[lo] <=> r[lo + j] = s[lo + j]}
<1>3. 0 \in G
  <2>1. 0 \in 0 .. n /\ lo + 0 = lo OBVIOUS
  <2> QED BY <2>1
<1>4. ASSUME NEW j \in 0 .. n - 1, j \in G PROVE j + 1 \in G
  <2>1. lo + j \in lo .. hi - 1 /\ lo + j + 1 = lo + (j + 1) /\ j + 1 \in 0 .. n BY <1>2
  <2>2. r[lo + j] = s[lo + j] <=> r[lo + (j + 1)] = s[lo + (j + 1)] BY <1>1, <2>1
  <2> QED BY <1>4, <2>1, <2>2
<1>5. 0 .. n \subseteq G
  <2> HIDE DEF G
  <2> QED BY <1>3, <1>4, UpFromZero
<1>6. n \in 0 .. n /\ lo + n = hi BY <1>2
<1>7. n \in G
  <2> HIDE DEF G
  <2> QED BY <1>5, <1>6
<1> QED BY <1>6, <1>7

(* A sequence of bytes is known from its bits.                             *)
LEMMA SameBits ==
  ASSUME NEW p \in Seq(Byte), NEW q \in Seq(Byte), Len(p) = Len(q),
         \A t \in 0 .. 8 * Len(p) - 1 : bit_at(p, t) <=> bit_at(q, t)
  PROVE  p = q
<1>1. PICK n \in Nat : n = Len(p) OBVIOUS
<1>2. p \in [1 .. n -> Byte] /\ q \in [1 .. n -> Byte] BY <1>1
<1>3. ASSUME NEW i \in 1 .. n PROVE p[i] = q[i]
  <2>1. ASSUME NEW b \in 0 .. 7 PROVE b \in p[i] <=> b \in q[i]
    <3>1. PICK k \in Nat : k = i - 1 OBVIOUS
    <3>2. 8 * k + b \in 0 .. 8 * n - 1 /\ 1 + k = i BY <3>1
    <3>3. (8 * k + b) \div 8 = k /\ (8 * k + b) % 8 = b
      <4>1. 8 \in Nat \ {0} /\ k \in Int /\ b \in 0 .. 8 - 1 OBVIOUS
      <4> QED BY <4>1, Quotient
    <3>4. bit_at(p, 8 * k + b) <=> bit_at(q, 8 * k + b) BY <1>1, <3>2
    <3> QED BY <3>2, <3>3, <3>4, Zenon DEF bit_at
  <2>2. p[i] \in SUBSET (0 .. 7) /\ q[i] \in SUBSET (0 .. 7) BY <1>2 DEF Byte
  <2> QED BY <2>1, <2>2
<1> QED BY <1>2, <1>3

(* No burst of up to 32 bits escapes the checksum: if two payloads and     *)
(* their checksums, sent one after the other, differ only within 32        *)
(* consecutive bits, in the payload, the checksum or across the border of  *)
(* the two, they do not differ at all.                                     *)
THEOREM BurstIsDetected ==
  ASSUME NEW p \in Seq(Byte), NEW q \in Seq(Byte), NEW m \in Nat,
         m = 8 * Len(p), Len(q) = Len(p), NEW T \in Int,
         \A t \in 0 .. m - 1 : t \notin T .. T + 31 => (bit_at(p, t) <=> bit_at(q, t)),
         \A b \in 0 .. 31 : m + b \notin T .. T + 31 => (b \in crc32c(p) <=> b \in crc32c(q))
  PROVE  p = q
<1>1. PICK r : Register(r, p, m) /\ r[0] = 0 .. 31 BY SerialIs DEF Register
<1>2. PICK s : Register(s, q, m) /\ s[0] = 0 .. 31
  <2>1. m = 8 * Len(q) OBVIOUS
  <2> QED BY <2>1, SerialIs DEF Register
<1>3. crc32c_update(0 .. 31, p) = r[m] BY <1>1, SerialChecksum DEF Register
<1>4. crc32c_update(0 .. 31, q) = s[m]
  <2>1. m = 8 * Len(q) OBVIOUS
  <2> QED BY <1>2, <2>1, SerialChecksum DEF Register
<1>5. m \in 0 .. m /\ 0 \in 0 .. m OBVIOUS
<1>6. r[m] \in SUBSET (0 .. 31) /\ s[m] \in SUBSET (0 .. 31) BY <1>1, <1>2, <1>5 DEF Word32, Register
<1>7. \A b \in 0 .. 31 : (b \in crc32c(p) <=> b \in crc32c(q)) <=> (b \in r[m] <=> b \in s[m])
  BY <1>3, <1>4 DEF crc32c, crc32c_finish
<1>8. \A b : b \in xor(r[m], s[m]) => b \in 0 .. 31 /\ m + b \in T .. T + 31
  <2> TAKE b
  <2> HAVE b \in xor(r[m], s[m])
  <2>1. b \in 0 .. 31 /\ ~(b \in r[m] <=> b \in s[m]) BY <1>6 DEF xor
  <2> QED BY <1>7, <2>1
<1>9. r[0] = s[0] BY <1>1, <1>2
<1>10. \A t \in 0 .. m - 1 : bit_at(p, t) <=> bit_at(q, t)
  <2>1. CASE T >= m \/ T + 32 <= 0
    <3>1. \A t \in 0 .. m - 1 : t \notin T .. T + 31 BY <2>1
    <3> QED BY <3>1
  <2>2. CASE T < m /\ T + 32 > 0
    <3>1. PICK lo \in 0 .. m : lo = IF T < 0 THEN 0 ELSE T
      <4>1. CASE T < 0 BY <4>1
      <4>2. CASE ~(T < 0)
        <5>1. T \in 0 .. m BY <2>2, <4>2
        <5> QED BY <4>2, <5>1
      <4> QED BY <4>1, <4>2
    <3>2. PICK hi \in lo .. m : hi = IF T + 32 < m THEN T + 32 ELSE m
      <4>1. CASE T + 32 < m
        <5>1. T + 32 \in lo .. m
          <6>1. lo = 0 \/ lo = T BY <3>1
          <6>2. lo <= T + 32 BY <2>2, <6>1
          <6> QED BY <4>1, <6>2
        <5> QED BY <4>1, <5>1
      <4>2. CASE ~(T + 32 < m)
        <5>1. m \in lo .. m OBVIOUS
        <5> QED BY <4>2, <5>1
      <4> QED BY <4>1, <4>2
    <3>3. hi - lo <= 32 BY <3>1, <3>2
    <3>4. \A t \in 0 .. lo - 1 : t \in 0 .. m - 1 /\ t \notin T .. T + 31 BY <3>1
    <3>5. \A t \in hi .. m - 1 : t \in 0 .. m - 1 /\ t \notin T .. T + 31 BY <3>2
    <3>6. r[lo] = s[lo]
      <4>1. SameBetween(p, q, 0, lo) BY <3>4 DEF SameBetween
      <4>2. PICK z \in 0 .. m : z = 0 OBVIOUS
      <4>3. lo \in z .. m /\ SameBetween(p, q, z, lo) BY <4>1, <4>2
      <4>4. r[z] = s[z] <=> r[lo] = s[lo] BY <1>1, <1>2, <4>3, AgreeOn
      <4> QED BY <1>9, <4>2, <4>4
    <3>7. xor(r[hi], s[hi]) \in SUBSET (0 .. 31 - (hi - lo))
      <4>1. CASE T + 32 < m
        <5>1. r[m] = s[m]
          <6>1. \A b \in 0 .. 31 : m + b \notin T .. T + 31 BY <4>1
          <6>2. xor(r[m], s[m]) = {} BY <1>8, <6>1
          <6> QED BY <6>2 DEF xor
        <5>2. SameBetween(p, q, hi, m) BY <3>5 DEF SameBetween
        <5>3. hi \in 0 .. m /\ m \in hi .. m BY <3>1, <3>2
        <5>4. r[hi] = s[hi] BY <1>1, <1>2, <5>1, <5>2, <5>3, AgreeOn
        <5> QED BY <5>4 DEF xor
      <4>2. CASE ~(T + 32 < m)
        <5>1. hi = m BY <3>2, <4>2
        <5>2. \A b \in 0 .. 31 : m + b \in T .. T + 31 => b \in 0 .. 31 - (hi - lo) BY <3>1, <5>1
        <5> QED BY <1>8, <5>1, <5>2
      <4> QED BY <4>1, <4>2
    <3>8. SameBetween(p, q, lo, hi)
      BY <1>1, <1>2, <3>3, <3>6, <3>7, RegistersAgree
    <3>9. \A t \in 0 .. m - 1 : t \in 0 .. lo - 1 \/ t \in lo .. hi - 1 \/ t \in hi .. m - 1
      BY <3>1, <3>2
    <3> QED BY <3>4, <3>5, <3>8, <3>9 DEF SameBetween
  <2> QED BY <2>1, <2>2
<1> QED BY <1>10, SameBits

-----------------------------------------------------------------------------

(* A word is known from its bytes: bit b is bit b % 8 of byte b \div 8.    *)
LEMMA Read16 ==
  ASSUME NEW x \in Word16, NEW s, NEW o \in Nat,
         s[o] = byte_of(x, 0), s[o + 1] = byte_of(x, 1)
  PROVE  read_u16_le(s, o) = x
<1>1. \A b \in 0 .. 15 : b % 8 \in s[o + b \div 8] <=> b \in x
  <2> TAKE b \in 0 .. 15
  <2>1. b % 8 \in 0 .. 7 /\ b \div 8 \in {0, 1} /\ (b % 8) + 8 * (b \div 8) = b
    OBVIOUS
  <2>2. s[o + b \div 8] = byte_of(x, b \div 8)
    BY <2>1
  <2>3. b % 8 \in byte_of(x, b \div 8) <=> (b % 8) + 8 * (b \div 8) \in x
    BY <2>1 DEF byte_of
  <2> QED BY <2>1, <2>2, <2>3
<1> QED BY <1>1 DEF read_u16_le, Word16

LEMMA Read32 ==
  ASSUME NEW x \in Word32, NEW s, NEW o \in Nat,
         s[o] = byte_of(x, 0), s[o + 1] = byte_of(x, 1),
         s[o + 2] = byte_of(x, 2), s[o + 3] = byte_of(x, 3)
  PROVE  read_u32_le(s, o) = x
<1>1. \A b \in 0 .. 31 : b % 8 \in s[o + b \div 8] <=> b \in x
  <2> TAKE b \in 0 .. 31
  <2>1. b % 8 \in 0 .. 7 /\ b \div 8 \in 0 .. 3 /\ (b % 8) + 8 * (b \div 8) = b
    OBVIOUS
  <2>2. s[o + b \div 8] = byte_of(x, b \div 8)
    BY <2>1
  <2>3. b % 8 \in byte_of(x, b \div 8) <=> (b % 8) + 8 * (b \div 8) \in x
    BY <2>1 DEF byte_of
  <2> QED BY <2>1, <2>2, <2>3
<1> QED BY <1>1 DEF read_u32_le, Word32

LEMMA ByteType == \A x, k : byte_of(x, k) \in Byte
BY DEF byte_of, Byte

LEMMA HeaderBytes ==
  ASSUME NEW h \in Header
  PROVE  write_base_header(h) \in Seq(Byte) /\ Len(write_base_header(h)) = 16
<1>1. h.version \in Byte /\ h.flags1 \in Byte
  BY DEF Header
<1> QED BY <1>1, ByteType DEF write_base_header

(* Whatever follows the sixteen bytes, reading them gives the header back. *)
LEMMA HeaderRoundTrip ==
  ASSUME NEW h \in Header, NEW in,
         \A i \in 1 .. 16 : in[i] = write_base_header(h)[i]
  PROVE  read_base_header(in) = h
<1> DEFINE w == write_base_header(h)
<1>1. /\ in[1] = h.version /\ in[2] = h.flags1
      /\ in[3] = byte_of(h.flags2, 0) /\ in[4] = byte_of(h.flags2, 1)
      /\ in[5] = byte_of(h.fec_gen_id, 0) /\ in[6] = byte_of(h.fec_gen_id, 1)
      /\ in[7] = byte_of(h.fec_gen_id, 2) /\ in[8] = byte_of(h.fec_gen_id, 3)
      /\ in[9] = byte_of(h.seq_in_block, 0) /\ in[10] = byte_of(h.seq_in_block, 1)
      /\ in[11] = byte_of(h.data_count, 0) /\ in[12] = byte_of(h.data_count, 1)
      /\ in[13] = byte_of(h.parity_count, 0) /\ in[14] = byte_of(h.parity_count, 1)
      /\ in[15] = byte_of(h.payload_len, 0) /\ in[16] = byte_of(h.payload_len, 1)
  BY DEF write_base_header
<1>2. /\ h.flags2 \in Word16 /\ h.seq_in_block \in Word16 /\ h.data_count \in Word16
      /\ h.parity_count \in Word16 /\ h.payload_len \in Word16 /\ h.fec_gen_id \in Word32
  BY DEF Header
<1>3. read_u16_le(in, 3) = h.flags2
  BY <1>1, <1>2, Read16
<1>4. read_u32_le(in, 5) = h.fec_gen_id
  BY <1>1, <1>2, Read32
<1>5. read_u16_le(in, 9) = h.seq_in_block
  BY <1>1, <1>2, Read16
<1>6. read_u16_le(in, 11) = h.data_count
  BY <1>1, <1>2, Read16
<1>7. read_u16_le(in, 13) = h.parity_count
  BY <1>1, <1>2, Read16
<1>8. read_u16_le(in, 15) = h.payload_len
  BY <1>1, <1>2, Read16
<1> QED BY <1>1, <1>3, <1>4, <1>5, <1>6, <1>7, <1>8 DEF read_base_header, Header

LEMMA ChecksumType == \A data : crc32c(data) \in Word32
BY DEF crc32c, crc32c_finish, Word32

(* What follows the headers is found where their length says.              *)
LEMMA Framed ==
  ASSUME NEW front \in Seq(Byte), NEW payload \in Seq(Byte), NEW c \in Word32
  PROVE  LET in == front \o payload \o write_u32_le(c)
         IN /\ Len(in) = Len(front) + Len(payload) + 4
            /\ \A i \in 1 .. Len(front) : in[i] = front[i]
            /\ SubSeq(in, Len(front) + 1, Len(front) + Len(payload)) = payload
            /\ read_u32_le(in, Len(front) + Len(payload) + 1) = c
<1> DEFINE body == front \o payload
           last == write_u32_le(c)
           in == body \o last
<1>1. /\ body \in Seq(Byte) /\ Len(body) = Len(front) + Len(payload)
      /\ \A i \in 1 .. Len(body) : body[i] = IF i <= Len(front) THEN front[i] ELSE payload[i - Len(front)]
  BY ConcatProperties
<1>2. /\ last \in Seq(Byte) /\ Len(last) = 4
      /\ \A k \in 0 .. 3 : last[k + 1] = byte_of(c, k)
  BY ByteType DEF write_u32_le
<1>3. Len(front) \in Nat /\ Len(payload) \in Nat
  OBVIOUS
<1> HIDE DEF body, last
<1>4. /\ in \in Seq(Byte) /\ Len(in) = Len(body) + 4
      /\ \A i \in 1 .. Len(body) + 4 : in[i] = IF i <= Len(body) THEN body[i] ELSE last[i - Len(body)]
  <2>1. body \in Seq(Byte) /\ last \in Seq(Byte)
    BY <1>1, <1>2
  <2>2. /\ in \in Seq(Byte) /\ Len(in) = Len(body) + Len(last)
        /\ \A i \in 1 .. Len(body) + Len(last) :
             in[i] = IF i <= Len(body) THEN body[i] ELSE last[i - Len(body)]
    BY <2>1, ConcatProperties
  <2> HIDE DEF in
  <2> QED BY <1>2, <2>2
<1> HIDE DEF in
<1>5. \A i \in 1 .. Len(front) : in[i] = front[i]
  BY <1>1, <1>3, <1>4
<1>6. SubSeq(in, Len(front) + 1, Len(front) + Len(payload)) = payload
  <2> DEFINE sub == SubSeq(in, Len(front) + 1, Len(front) + Len(payload))
  <2>1. \A i \in Len(front) + 1 .. Len(front) + Len(payload) : in[i] \in Byte
    BY <1>1, <1>3, <1>4
  <2>2. /\ sub \in Seq(Byte) /\ Len(sub) = Len(payload)
        /\ \A i \in 1 .. Len(payload) : sub[i] = in[Len(front) + i]
    BY <1>3, <2>1, SubSeqProperties
  <2>3. \A i \in 1 .. Len(payload) : in[Len(front) + i] = payload[i]
    BY <1>1, <1>3, <1>4
  <2> HIDE DEF sub
  <2>4. sub = payload
    BY <2>2, <2>3
  <2> QED BY <2>4 DEF sub
<1>7. read_u32_le(in, Len(front) + Len(payload) + 1) = c
  <2> DEFINE o == Len(front) + Len(payload) + 1
  <2>1. o \in Nat
    BY <1>3
  <2>2. \A k \in 0 .. 3 : in[o + k] = byte_of(c, k)
    <3> TAKE k \in 0 .. 3
    <3>1. in[o + k] = last[k + 1]
      BY <1>1, <1>3, <1>4
    <3> QED BY <1>2, <3>1
  <2> HIDE DEF o
  <2>3. in[o] = byte_of(c, 0) /\ in[o + 1] = byte_of(c, 1) /\ in[o + 2] = byte_of(c, 2) /\ in[o + 3] = byte_of(c, 3)
    BY <2>1, <2>2
  <2>4. read_u32_le(in, o) = c
    BY <2>1, <2>3, Read32
  <2> QED BY <2>4 DEF o
<1>8. Len(in) = Len(front) + Len(payload) + 4
  BY <1>1, <1>4
<1> QED BY <1>5, <1>6, <1>7, <1>8 DEF in, body, last

(* A data frame that encode_data_frame makes is decoded to the header and  *)
(* the payload it was made from, and its checksum fits: the receiver       *)
(* accepts it.                                                             *)
THEOREM DataRoundTrip ==
  ASSUME NEW h \in Header, NEW payload \in Seq(Byte), NEW room,
         encodes(room, h, FALSE, payload)
  PROVE  LET in == encode_data_frame(h, payload)
         IN /\ accepts_datagram(in)
            /\ Len(in) = encoded_size(Len(payload), FALSE)
            /\ decode_frame(in) = [header |-> h, par |-> FALSE, sub |-> NoSub,
                                   payload |-> payload, crc |-> crc32c(payload)]
<1> DEFINE front == write_base_header(h)
           len == Len(payload)
           c == crc32c(payload)
           in == front \o payload \o write_u32_le(c)
<1>1. carries_parity(h) = FALSE /\ number(h.payload_len) = len /\ len \in Nat
  BY DEF encodes
<1>2. front \in Seq(Byte) /\ Len(front) = 16 /\ c \in Word32
  BY HeaderBytes, ChecksumType
<1> HIDE DEF front, c
<1>3. /\ Len(in) = 16 + len + 4
      /\ \A i \in 1 .. 16 : in[i] = front[i]
      /\ SubSeq(in, 16 + 1, 16 + len) = payload
      /\ read_u32_le(in, 16 + len + 1) = c
  <2>1. /\ Len(in) = Len(front) + len + 4
        /\ \A i \in 1 .. Len(front) : in[i] = front[i]
        /\ SubSeq(in, Len(front) + 1, Len(front) + len) = payload
        /\ read_u32_le(in, Len(front) + len + 1) = c
    BY <1>2, Framed
  <2> HIDE DEF in
  <2> QED BY <1>2, <2>1
<1> HIDE DEF in
<1>4. read_base_header(in) = h
  BY <1>3, HeaderRoundTrip DEF front
<1>5. decode_frame(in) = [header |-> h, par |-> FALSE, sub |-> NoSub, payload |-> payload, crc |-> c]
  BY <1>1, <1>3, <1>4 DEF decode_frame, kBase
<1>6. decodes(in) /\ Len(in) = encoded_size(len, FALSE)
  <2>1. Len(in) = 16 + len + 4
    BY <1>3
  <2>2. Len(in) = encoded_size(len, FALSE) /\ Len(in) >= kBase + kCrcTrailer
        /\ Len(in) >= encoded_size(len, FALSE)
    BY <1>1, <2>1 DEF encoded_size, kBase, kCrcTrailer, kParitySub
  <2>3. encoded_size(number(h.payload_len), carries_parity(h)) = encoded_size(len, FALSE)
    BY <1>1, Zenon
  <2>4. Len(in) >= encoded_size(number(h.payload_len), carries_parity(h))
    BY <2>2, <2>3, Zenon
  <2> QED BY <1>4, <2>2, <2>4 DEF decodes
<1>7. accepts_datagram(in)
  BY <1>5, <1>6 DEF accepts_datagram, c
<1>8. encode_data_frame(h, payload) = in
  BY DEF encode_data_frame, in, front, c
<1> QED BY <1>5, <1>6, <1>7, <1>8 DEF c

(* The four parts of a parity frame lie in "in" where their sizes say.     *)
PartsOf(in, base, two, payload, c) ==
  /\ Len(in) = 18 + Len(payload) + 4
  /\ \A i \in 1 .. 16 : in[i] = base[i]
  /\ in[17] = two[1] /\ in[18] = two[2]
  /\ SubSeq(in, 18 + 1, 18 + Len(payload)) = payload
  /\ read_u32_le(in, 18 + Len(payload) + 1) = c

LEMMA ParityFramed ==
  ASSUME NEW base \in Seq(Byte), Len(base) = 16, NEW two \in Seq(Byte), Len(two) = 2,
         NEW payload \in Seq(Byte), NEW c \in Word32
  PROVE  PartsOf(base \o two \o payload \o write_u32_le(c), base, two, payload, c)
<1> DEFINE front == base \o two
           in == front \o payload \o write_u32_le(c)
<1>1. /\ front \in Seq(Byte) /\ Len(front) = Len(base) + Len(two)
      /\ \A i \in 1 .. Len(base) + Len(two) :
           front[i] = IF i <= Len(base) THEN base[i] ELSE two[i - Len(base)]
  BY ConcatProperties
<1> HIDE DEF front
<1>2. /\ Len(in) = Len(front) + Len(payload) + 4
      /\ \A i \in 1 .. Len(front) : in[i] = front[i]
      /\ SubSeq(in, Len(front) + 1, Len(front) + Len(payload)) = payload
      /\ read_u32_le(in, Len(front) + Len(payload) + 1) = c
  BY <1>1, Framed
<1> HIDE DEF in
<1>3. Len(front) = 18
  BY <1>1
<1>4. \A i \in 1 .. 16 : in[i] = base[i]
  <2> TAKE i \in 1 .. 16
  <2>1. front[i] = base[i]
    BY <1>1
  <2>2. in[i] = front[i]
    <3>1. i \in 1 .. Len(front)
      BY <1>3
    <3>2. \A k \in 1 .. Len(front) : in[k] = front[k]
      BY <1>2
    <3> QED BY <3>1, <3>2
  <2> QED BY <2>1, <2>2
<1>5. in[17] = two[1] /\ in[18] = two[2]
  <2>1. 17 \in 1 .. Len(front) /\ 18 \in 1 .. Len(front)
    BY <1>3
  <2>2. \A k \in 1 .. Len(front) : in[k] = front[k]
    BY <1>2
  <2>3. in[17] = front[17] /\ in[18] = front[18]
    BY <2>1, <2>2
  <2>4. \A k \in 1 .. Len(base) + Len(two) :
          front[k] = IF k <= Len(base) THEN base[k] ELSE two[k - Len(base)]
    BY <1>1
  <2>5. front[17] = two[17 - 16] /\ front[18] = two[18 - 16]
    <3>1. Len(base) = 16 /\ Len(base) + Len(two) = 18
      OBVIOUS
    <3>2. \A k \in 1 .. 18 : front[k] = IF k <= 16 THEN base[k] ELSE two[k - 16]
      BY <2>4, <3>1
    <3> QED BY <3>2
  <2>6. front[17] = two[1] /\ front[18] = two[2]
    BY <2>5
  <2> QED BY <2>3, <2>6
<1>6. /\ Len(in) = 18 + Len(payload) + 4
      /\ SubSeq(in, 18 + 1, 18 + Len(payload)) = payload
      /\ read_u32_le(in, 18 + Len(payload) + 1) = c
  BY <1>2, <1>3
<1>7. PartsOf(in, base, two, payload, c)
  BY <1>4, <1>5, <1>6 DEF PartsOf
<1> QED BY <1>7 DEF in, front

(* The same for a parity frame and its subheader.                          *)
THEOREM ParityRoundTrip ==
  ASSUME NEW h \in Header, NEW sub \in ParitySubheader, NEW payload \in Seq(Byte), NEW room,
         encodes(room, h, TRUE, payload)
  PROVE  LET in == encode_parity_frame(h, sub, payload)
         IN /\ accepts_datagram(in)
            /\ Len(in) = encoded_size(Len(payload), TRUE)
            /\ decode_frame(in) = [header |-> h, par |-> TRUE, sub |-> sub,
                                   payload |-> payload, crc |-> crc32c(payload)]
<1> DEFINE base == write_base_header(h)
           two == <<sub.fec_scheme_id, sub.fec_parity_index>>
           in == encode_parity_frame(h, sub, payload)
           c == crc32c(payload)
<1>1. carries_parity(h) = TRUE /\ number(h.payload_len) = Len(payload) /\ Len(payload) \in Nat
  BY DEF encodes
<1>2. base \in Seq(Byte) /\ Len(base) = 16
  BY HeaderBytes
<1>3. two \in Seq(Byte) /\ Len(two) = 2 /\ two[1] = sub.fec_scheme_id /\ two[2] = sub.fec_parity_index
  BY DEF ParitySubheader
<1>4. c \in Word32
  BY ChecksumType
<1> HIDE DEF base, two, c
<1>5. in = base \o two \o payload \o write_u32_le(c)
  BY DEF encode_parity_frame, base, two, c
<1> HIDE DEF in
<1>6. /\ Len(in) = 18 + Len(payload) + 4
      /\ \A i \in 1 .. 16 : in[i] = base[i]
      /\ in[17] = two[1] /\ in[18] = two[2]
      /\ SubSeq(in, 18 + 1, 18 + Len(payload)) = payload
      /\ read_u32_le(in, 18 + Len(payload) + 1) = c
  <2>1. base \in Seq(Byte) /\ Len(base) = 16 /\ two \in Seq(Byte) /\ Len(two) = 2
    BY <1>2, <1>3
  <2>2. PartsOf(base \o two \o payload \o write_u32_le(c), base, two, payload, c)
    BY <2>1, <1>4, ParityFramed
  <2>3. PartsOf(in, base, two, payload, c)
    BY <1>5, <2>2
  <2> QED BY <2>3 DEF PartsOf
<1>7. read_base_header(in) = h
  BY <1>6, HeaderRoundTrip DEF base
<1>8. [fec_scheme_id |-> in[17], fec_parity_index |-> in[18]] = sub
  BY <1>3, <1>6 DEF ParitySubheader
<1>9. decode_frame(in) = [header |-> h, par |-> TRUE, sub |-> sub, payload |-> payload, crc |-> c]
  <2>1. /\ kBase + 1 = 17 /\ kBase + 2 = 18 /\ kBase + kParitySub = 18
    BY DEF kBase, kParitySub
  <2> QED BY <1>1, <1>6, <1>7, <1>8, <2>1 DEF decode_frame
<1>10. decodes(in) /\ Len(in) = encoded_size(Len(payload), TRUE)
  <2>1. Len(in) = 18 + Len(payload) + 4
    BY <1>6
  <2>2. Len(in) = encoded_size(Len(payload), TRUE) /\ Len(in) >= kBase + kCrcTrailer
        /\ Len(in) >= encoded_size(Len(payload), TRUE)
    BY <1>1, <2>1 DEF encoded_size, kBase, kCrcTrailer, kParitySub
  <2>3. encoded_size(number(h.payload_len), carries_parity(h)) = encoded_size(Len(payload), TRUE)
    BY <1>1, Zenon
  <2>4. Len(in) >= encoded_size(number(h.payload_len), carries_parity(h))
    BY <2>2, <2>3, Zenon
  <2> QED BY <1>7, <2>2, <2>4 DEF decodes
<1>11. accepts_datagram(in)
  BY <1>9, <1>10 DEF accepts_datagram, c
<1> QED BY <1>9, <1>10, <1>11 DEF in, c

-----------------------------------------------------------------------------
LEMMA NumberType == ASSUME NEW x PROVE number(x) \in Nat
BY ValueIs

(* Where the header says the payload begins, and how long it is.           *)
offset_of(in) == IF carries_parity(read_base_header(in)) THEN kBase + kParitySub ELSE kBase
length_of(in) == number(read_base_header(in).payload_len)
SameLayout(a, b) == offset_of(a) = offset_of(b) /\ length_of(a) = length_of(b)

(* The payload and the checksum of a datagram that is accepted.            *)
LEMMA Window ==
  ASSUME NEW in \in Seq(Byte), accepts_datagram(in)
  PROVE  /\ offset_of(in) \in {16, 18} /\ length_of(in) \in Nat
         /\ Len(in) >= offset_of(in) + length_of(in) + 4
         /\ decode_frame(in).payload = SubSeq(in, offset_of(in) + 1, offset_of(in) + length_of(in))
         /\ decode_frame(in).payload \in Seq(Byte)
         /\ Len(decode_frame(in).payload) = length_of(in)
         /\ crc32c(decode_frame(in).payload) = read_u32_le(in, offset_of(in) + length_of(in) + 1)
<1>1. PICK len \in Nat : len = length_of(in) BY NumberType DEF length_of
<1>2. PICK off \in {16, 18} : off = offset_of(in) /\ Len(in) >= off + len + 4
  <2>0. PICK off \in {16, 18} : off = offset_of(in) BY DEF offset_of, kBase, kParitySub
  <2>1. Len(in) >= encoded_size(len, carries_parity(read_base_header(in)))
    BY <1>1, Zenon DEF accepts_datagram, decodes, length_of
  <2>2. encoded_size(len, carries_parity(read_base_header(in))) = off + len + 4
    BY <2>0 DEF encoded_size, kBase, kParitySub, kCrcTrailer, offset_of
  <2> QED BY <2>0, <2>1, <2>2
<1>3. decode_frame(in).payload = SubSeq(in, off + 1, off + len)
  BY <1>1, <1>2, Zenon DEF decode_frame, offset_of, length_of
<1>4. SubSeq(in, off + 1, off + len) \in Seq(Byte) /\ Len(SubSeq(in, off + 1, off + len)) = len
  <2>1. \A i \in off + 1 .. off + len : in[i] \in Byte BY <1>2
  <2> QED BY <2>1, SubSeqProperties
<1>5. decode_frame(in).crc = read_u32_le(in, off + len + 1)
  BY <1>1, <1>2, Zenon DEF decode_frame, offset_of, length_of
<1>6. crc32c(decode_frame(in).payload) = decode_frame(in).crc BY DEF accepts_datagram
<1> QED BY <1>1, <1>2, <1>3, <1>4, <1>5, <1>6

(* Their bits among those of the datagram.                                 *)
LEMMA PayloadBits ==
  ASSUME NEW in \in Seq(Byte), NEW off \in Nat, NEW len \in Nat, Len(in) >= off + len + 4,
         NEW p, p = SubSeq(in, off + 1, off + len), NEW t \in 0 .. 8 * len - 1
  PROVE  bit_at(p, t) <=> bit_at(in, 8 * off + t)
<1>0. t \in Nat /\ 8 \in Nat \ {0} OBVIOUS
<1>1. PICK q \in Nat, r \in 0 .. 8 - 1 : t = 8 * q + r /\ t \div 8 = q /\ t % 8 = r
  BY <1>0, Divided
<1>2. q < len BY <1>1
<1>3. (8 * off + t) \div 8 = off + q /\ (8 * off + t) % 8 = r
  <2>1. 8 * off + t = 8 * (off + q) + r /\ off + q \in Int /\ 8 \in Nat \ {0} BY <1>1
  <2> QED BY <2>1, Quotient
<1>4. SubSeq(in, off + 1, off + len)[1 + q] = in[1 + (off + q)]
  <2>1. 1 + q \in 1 .. (off + len) - (off + 1) + 1 BY <1>2
  <2>2. off + 1 \in 1 .. Len(in) + 1 /\ off + len \in off + 1 - 1 .. Len(in) OBVIOUS
  <2>3. \A i \in off + 1 .. off + len : in[i] \in Byte OBVIOUS
  <2>4. SubSeq(in, off + 1, off + len)[1 + q] = in[off + 1 + (1 + q) - 1] BY <2>1, <2>3, SubSeqProperties
  <2>5. off + 1 + (1 + q) - 1 = 1 + (off + q) OBVIOUS
  <2> QED BY <2>4, <2>5, Zenon
<1>5. bit_at(p, t) <=> r \in p[1 + q] BY <1>1, Zenon DEF bit_at
<1>6. bit_at(in, 8 * off + t) <=> r \in in[1 + (off + q)] BY <1>3, Zenon DEF bit_at
<1> QED BY <1>4, <1>5, <1>6, Zenon

LEMMA TrailerBits ==
  ASSUME NEW in \in Seq(Byte), NEW off \in Nat, NEW len \in Nat, Len(in) >= off + len + 4,
         NEW c, c = read_u32_le(in, off + len + 1), NEW b \in 0 .. 31
  PROVE  b \in c <=> bit_at(in, 8 * off + (8 * len + b))
<1>1. PICK q \in Nat, r \in 0 .. 8 - 1 : b = 8 * q + r /\ b \div 8 = q /\ b % 8 = r
  BY Divided
<1>2. (8 * off + (8 * len + b)) \div 8 = off + len + q /\ (8 * off + (8 * len + b)) % 8 = r
  <2>1. 8 * off + (8 * len + b) = 8 * (off + len + q) + r /\ off + len + q \in Int /\ 8 \in Nat \ {0} BY <1>1
  <2> QED BY <2>1, Quotient
<1>3. 1 + (off + len + q) = off + len + 1 + q OBVIOUS
<1>4. b \in read_u32_le(in, off + len + 1) <=> r \in in[off + len + 1 + q]
  <2>1. b \in read_u32_le(in, off + len + 1) <=> b % 8 \in in[off + len + 1 + b \div 8] BY DEF read_u32_le
  <2> QED BY <1>1, <2>1, Zenon
<1> QED BY <1>2, <1>3, <1>4, Zenon DEF bit_at

(* Up to the length of "sent", "in" differs from it in 32 bits from T on.   *)
DiffersWithin(in, sent, T) ==
  \A t \in 0 .. 8 * Len(sent) - 1 : t \notin T .. T + 31 => (bit_at(in, t) <=> bit_at(sent, t))

(* A burst of up to 32 bits, wherever it hits a datagram the receiver      *)
(* would have accepted, headers included: as long as the header still says *)
(* where the payload is, the receiver refuses what is left or gets the     *)
(* payload that was sent.                                                  *)
THEOREM BurstIsRefused ==
  ASSUME NEW sent \in Seq(Byte), NEW in \in Seq(Byte), NEW T \in Int, DiffersWithin(in, sent, T),
         accepts_datagram(sent), accepts_datagram(in), SameLayout(in, sent)
  PROVE  decode_frame(in).payload = decode_frame(sent).payload
<1>1. PICK off \in {16, 18} : off = offset_of(sent) /\ off = offset_of(in)
  BY Window DEF SameLayout
<1>2. PICK len \in Nat : len = length_of(sent) /\ len = length_of(in)
  BY Window DEF SameLayout
<1>3. PICK p \in Seq(Byte) :
        /\ p = decode_frame(in).payload /\ p = SubSeq(in, off + 1, off + len) /\ Len(p) = len
        /\ crc32c(p) = read_u32_le(in, off + len + 1) /\ Len(in) >= off + len + 4
  BY <1>1, <1>2, Window
<1>4. PICK q \in Seq(Byte) :
        /\ q = decode_frame(sent).payload /\ q = SubSeq(sent, off + 1, off + len) /\ Len(q) = len
        /\ crc32c(q) = read_u32_le(sent, off + len + 1) /\ Len(sent) >= off + len + 4
  BY <1>1, <1>2, Window
<1>a. off \in Nat OBVIOUS
<1>5. PICK m \in Nat : m = 8 * len OBVIOUS
<1>6. PICK U \in Int : U = T - 8 * off OBVIOUS
<1>7. \A t \in 0 .. m - 1 : t \notin U .. U + 31 => (bit_at(p, t) <=> bit_at(q, t))
  <2> TAKE t \in 0 .. m - 1
  <2> HAVE t \notin U .. U + 31
  <2>1. bit_at(p, t) <=> bit_at(in, 8 * off + t) BY <1>a, <1>3, <1>5, PayloadBits
  <2>2. bit_at(q, t) <=> bit_at(sent, 8 * off + t) BY <1>a, <1>4, <1>5, PayloadBits
  <2>3. 8 * off + t \in 0 .. 8 * Len(sent) - 1 /\ 8 * off + t \notin T .. T + 31
    BY <1>4, <1>5, <1>6
  <2> QED BY <2>1, <2>2, <2>3 DEF DiffersWithin
<1>8. \A b \in 0 .. 31 : m + b \notin U .. U + 31 => (b \in crc32c(p) <=> b \in crc32c(q))
  <2> TAKE b \in 0 .. 31
  <2> HAVE m + b \notin U .. U + 31
  <2>1. b \in crc32c(p) <=> bit_at(in, 8 * off + (8 * len + b)) BY <1>a, <1>3, TrailerBits
  <2>2. b \in crc32c(q) <=> bit_at(sent, 8 * off + (8 * len + b)) BY <1>a, <1>4, TrailerBits
  <2>3. /\ 8 * off + (8 * len + b) \in 0 .. 8 * Len(sent) - 1
        /\ 8 * off + (8 * len + b) \notin T .. T + 31
    BY <1>4, <1>5, <1>6
  <2> QED BY <2>1, <2>2, <2>3 DEF DiffersWithin
<1>9. m = 8 * Len(p) /\ Len(q) = Len(p) BY <1>3, <1>4, <1>5
<1>10. p = q BY <1>7, <1>8, <1>9, BurstIsDetected
<1> QED BY <1>3, <1>4, <1>10
=============================================================================
