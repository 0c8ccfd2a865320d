--------------------------- MODULE Program_proofs ---------------------------
(***************************************************************************)
(* What holds of both programs from the command line to the exit code, for *)
(* every command line, every refusal of the system, every datagram that    *)
(* may arrive and every number of rows.                                    *)
(*                                                                         *)
(* First the parts, each for every input: run ids; the parser of addresses *)
(* (ParsesWhatIsSpelled); what a reader of CSV makes of what the writer    *)
(* wrote (RowIsReadBack); what the decoder makes of a datagram under way   *)
(* (Understood, Remainder, WhatArrives).  Then the programs: PInv follows  *)
(* what was made of the command line, the buffer, read as a table of rows  *)
(* and footers, the socket and the datagram of the turn.                   *)
(***************************************************************************)
EXTENDS Program, FrameCodec_proofs, FiniteSetTheorems

-----------------------------------------------------------------------------
(* The generator and the run id.                                           *)
LEMMA ShiftType ==
  ASSUME NEW x \in Word32, NEW n \in Nat
  PROVE  shl(x, n) \in Word32 /\ shr(x, n) \in Word32
BY DEF shl, shr, Word32

LEMMA XorZero ==
  ASSUME NEW x, NEW y, xor(x, y) = {}
  PROVE  x = y
BY DEF xor

LEMMA Step13 ==
  ASSUME NEW x \in Word32, x # {}
  PROVE  step13(x) \in Word32 /\ step13(x) # {}
<1>1. step13(x) \in Word32
  BY WordXor, ShiftType DEF step13
<1>2. ASSUME step13(x) = {} PROVE FALSE
  <2>1. x = shl(x, 13)
    BY <1>2, XorZero DEF step13
  <2>2. \A b \in x : b - 13 \in x
    BY <2>1 DEF shl
  <2>3. PICK b \in x : b \in 0 .. 31
    BY DEF Word32
  <2>4. b - 13 \in x /\ (b - 13) - 13 \in x /\ ((b - 13) - 13) - 13 \in x
    BY <2>2
  <2>5. ((b - 13) - 13) - 13 \in 0 .. 31
    BY <2>4 DEF Word32
  <2> QED BY <2>3, <2>5
<1> QED BY <1>1, <1>2

LEMMA Step17 ==
  ASSUME NEW x \in Word32, x # {}
  PROVE  step17(x) \in Word32 /\ step17(x) # {}
<1>1. step17(x) \in Word32
  BY WordXor, ShiftType DEF step17
<1>2. ASSUME step17(x) = {} PROVE FALSE
  <2>1. x = shr(x, 17)
    BY <1>2, XorZero DEF step17
  <2>2. \A b \in x : b + 17 \in x
    BY <2>1 DEF shr
  <2>3. PICK b \in x : b \in 0 .. 31
    BY DEF Word32
  <2>4. (b + 17) + 17 \in x
    BY <2>2
  <2>5. (b + 17) + 17 \in 0 .. 31
    BY <2>4 DEF Word32
  <2> QED BY <2>3, <2>5
<1> QED BY <1>1, <1>2

LEMMA Step5 ==
  ASSUME NEW x \in Word32, x # {}
  PROVE  step5(x) \in Word32 /\ step5(x) # {}
<1>1. step5(x) \in Word32
  BY WordXor, ShiftType DEF step5
<1>2. ASSUME step5(x) = {} PROVE FALSE
  <2>1. x = shl(x, 5)
    BY <1>2, XorZero DEF step5
  <2>2. \A b \in x : b - 5 \in x /\ b \in 0 .. 31
    BY <2>1 DEF shl, Word32
  <2>3. PICK b \in x : TRUE
    OBVIOUS
  <2>4. \A c \in x : c \in 0 .. 31 /\ c - 10 \in x
    <3> TAKE c \in x
    <3>1. c - 5 \in x /\ (c - 5) - 5 \in x /\ c \in 0 .. 31
      BY <2>2
    <3> QED BY <3>1
  <2>5. \A c \in x : c \in 0 .. 31 /\ c - 20 \in x
    <3> TAKE c \in x
    <3>1. c - 10 \in x /\ (c - 10) - 10 \in x /\ c \in 0 .. 31
      BY <2>4
    <3> QED BY <3>1
  <2>6. b - 20 \in x /\ (b - 20) - 20 \in x /\ b \in 0 .. 31
    BY <2>3, <2>5
  <2>7. (b - 20) - 20 \in 0 .. 31
    BY <2>6, <2>2
  <2> QED BY <2>6, <2>7
<1> QED BY <1>1, <1>2

(* XorShift32 starts outside 0, whatever the seed, and next_u32 never      *)
(* leads there: the generator of run ids and simulated losses keeps going. *)
THEOREM NeverStuck ==
  /\ \A seed \in Word32 : XorShift32(seed) \in Word32 \ {{}}
  /\ \A x \in Word32 \ {{}} : next_u32(x) \in Word32 \ {{}}
<1>1. ASSUME NEW seed \in Word32 PROVE XorShift32(seed) \in Word32 \ {{}}
  BY DEF XorShift32, kSeed, Word32
<1>2. ASSUME NEW x \in Word32 \ {{}} PROVE next_u32(x) \in Word32 \ {{}}
  <2>1. step13(x) \in Word32 /\ step13(x) # {}
    BY Step13
  <2>2. step17(step13(x)) \in Word32 /\ step17(step13(x)) # {}
    BY <2>1, Step17
  <2>3. step5(step17(step13(x))) \in Word32 /\ step5(step17(step13(x))) # {}
    BY <2>2, Step5
  <2> QED BY <2>3 DEF next_u32
<1> QED BY <1>1, <1>2

(* Every run id is a version 4 UUID of variant 10, whatever is drawn.      *)
THEOREM UuidIsVersion4 ==
  ASSUME NEW seed
  PROVE  /\ uuid_v4(seed) \in [0 .. 15 -> Byte]
         /\ uuid_v4(seed)[6] \ (0 .. 3) = {6}
         /\ uuid_v4(seed)[8] \cap {6, 7} = {7}
<1> DEFINE b == drawn(seed)
           b6 == (b[6] \cap (0 .. 3)) \cup {6}
           b8 == (b[8] \cap (0 .. 5)) \cup {7}
<1>1. b \in [0 .. 15 -> Byte]
  <2>1. \A w : byte_of(w, 0) \in Byte
    BY DEF byte_of, Byte
  <2> QED BY <2>1 DEF drawn
<1>2. b6 \in Byte /\ b6 \ (0 .. 3) = {6}
  BY DEF Byte
<1>3. b8 \in Byte /\ b8 \cap {6, 7} = {7}
  BY DEF Byte
<1>4. uuid_v4(seed) = [b EXCEPT ![6] = b6, ![8] = b8]
  BY DEF uuid_v4, marked
<1> HIDE DEF b, b6, b8
<1> QED BY <1>1, <1>2, <1>3, <1>4
-----------------------------------------------------------------------------
LEMMA HasLeast ==
  ASSUME NEW D \in SUBSET Nat, D # {}
  PROVE  \E i \in D : \A j \in D : i <= j
<1>1. PICK R : R = OpToRel(<, Nat) OBVIOUS
<1>2. IsWellFoundedOn(R, Nat) BY <1>1, NatLessThanWellFounded, Zenon
<1>3. PICK x \in D : \A y \in D : ~(<<y, x>> \in R) BY <1>2, WFMin, Zenon
<1>4. \A y \in D : y < x => <<y, x>> \in R BY <1>1 DEF OpToRel
<1>5. \A y \in D : ~(y < x) => x <= y OBVIOUS
<1> QED BY <1>3, <1>4, <1>5

LEMMA HasLargest ==
  ASSUME NEW n \in Nat, NEW D \in SUBSET (0 .. n), D # {}
  PROVE  \E i \in D : \A j \in D : i >= j
<1> DEFINE E == {n - i : i \in D}
<1>1. PICK e \in E : \A f \in E : e <= f
  <2>1. \A i \in 0 .. n : n - i \in Nat OBVIOUS
  <2>2. E \in SUBSET Nat /\ E # {} BY <2>1
  <2> HIDE DEF E
  <2> QED BY <2>2, HasLeast
<1>2. PICK i \in D : e = n - i BY <1>1
<1>3. \A j \in D : n - j \in E OBVIOUS
<1>4. \A j \in D : n - i <= n - j BY <1>1, <1>2, <1>3
<1> QED BY <1>2, <1>4

-----------------------------------------------------------------------------
Upto(D, i) == {j \in D : j <= i}

(* The k-th dot is the one with k dots up to it.                           *)
LEMMA DotIs ==
  ASSUME NEW s, Len(s) \in Nat, NEW i \in at(s, "."), NEW k \in Nat \ {0},
         Cardinality(Upto(at(s, "."), i)) = k
  PROVE  dot(s, k) = i
<1> DEFINE D == at(s, ".")
<1>1. D \in SUBSET (1 .. Len(s)) /\ IsFiniteSet(D)
  <2>1. D \in SUBSET (1 .. Len(s)) BY DEF at
  <2>2. IsFiniteSet(1 .. Len(s)) BY FS_Interval
  <2> QED BY <2>1, <2>2, FS_Subset
<1>2. ASSUME NEW j \in D, NEW h \in D, j < h
      PROVE  Cardinality(Upto(D, j)) # Cardinality(Upto(D, h))
  <2>1. Upto(D, j) \subseteq Upto(D, h) /\ h \in Upto(D, h) /\ h \notin Upto(D, j)
    BY <1>1, <1>2 DEF Upto
  <2>2. IsFiniteSet(Upto(D, h)) BY <1>1, FS_Subset DEF Upto
  <2> QED BY <2>1, <2>2, FS_Subset, FS_CardinalityType
<1>3. ASSUME NEW j \in D, Cardinality(Upto(D, j)) = k PROVE j = i
  <2>1. j \in Int /\ i \in Int BY <1>1
  <2> QED BY <1>2, <1>3, <2>1
<1>4. dot(s, k) = CHOOSE j \in D : Cardinality(Upto(D, j)) = k BY DEF dot, Upto
<1> HIDE DEF D
<1>5. i \in D BY DEF D
<1>6. Cardinality(Upto(D, i)) = k BY DEF D
<1> QED BY <1>3, <1>4, <1>5, <1>6

LEMMA UptoFinite ==
  ASSUME NEW n \in Nat, NEW D \in SUBSET (1 .. n), NEW i \in 0 .. n
  PROVE  /\ IsFiniteSet(D) /\ IsFiniteSet(Upto(D, i))
         /\ Cardinality(D) \in Nat /\ Cardinality(Upto(D, i)) \in Nat
         /\ Cardinality(Upto(D, i)) < Cardinality(D) <=> \E j \in D : j > i
<1>1. IsFiniteSet(1 .. n) BY FS_Interval
<1>2. IsFiniteSet(D) BY <1>1, FS_Subset
<1>3. Upto(D, i) \subseteq D BY DEF Upto
<1>4. /\ IsFiniteSet(Upto(D, i)) /\ Cardinality(Upto(D, i)) <= Cardinality(D)
      /\ Cardinality(D) = Cardinality(Upto(D, i)) => D = Upto(D, i)
  BY <1>2, <1>3, FS_Subset
<1>5. Cardinality(D) \in Nat /\ Cardinality(Upto(D, i)) \in Nat BY <1>2, <1>4, FS_CardinalityType
<1>6. D = Upto(D, i) <=> ~\E j \in D : j > i
  <2>1. \A j \in D : j > i <=> ~(j <= i) OBVIOUS
  <2>2. D = Upto(D, i) <=> \A j \in D : j <= i BY Zenon DEF Upto
  <2> QED BY <2>1, <2>2, Zenon
<1> QED BY <1>2, <1>4, <1>5, <1>6

LEMMA NextDot ==
  ASSUME NEW n \in Nat, NEW D \in SUBSET (1 .. n), NEW i \in 0 .. n,
         Cardinality(Upto(D, i)) < Cardinality(D)
  PROVE  \E d \in D : /\ d > i /\ Cardinality(Upto(D, d)) = Cardinality(Upto(D, i)) + 1
                      /\ \A j \in D : j <= i \/ d <= j
<1>1. {j \in D : j > i} # {} /\ {j \in D : j > i} \in SUBSET Nat
  <2>1. \E j \in D : j > i BY UptoFinite
  <2>2. D \in SUBSET Nat OBVIOUS
  <2> QED BY <2>1, <2>2, Zenon
<1>2. PICK d \in {j \in D : j > i} : \A j \in {h \in D : h > i} : d <= j BY <1>1, HasLeast, Zenon
<1>3. d \in D /\ d > i /\ d \notin Upto(D, i) BY <1>2 DEF Upto
<1>4. \A j \in D : j <= i \/ d <= j BY <1>2
<1>5. Upto(D, d) = Upto(D, i) \cup {d}
  <2>1. \A j \in D : j <= d <=> j <= i \/ j = d BY <1>3, <1>4
  <2> QED BY <1>3, <2>1, Zenon DEF Upto
<1>6. IsFiniteSet(Upto(D, i)) BY UptoFinite
<1>7. Cardinality(Upto(D, d)) = Cardinality(Upto(D, i)) + 1 BY <1>3, <1>5, <1>6, FS_AddElement
<1> QED BY <1>3, <1>4, <1>7

(* Where the first dots of a text with at least three are.                 *)
Dots(t, d, e, f) ==
  /\ {d, e, f} \subseteq at(t, ".") /\ 0 < d /\ d < e /\ e < f
  /\ \A j \in at(t, ".") : j \in {d, e, f} \/ j > f
  /\ dot(t, 0) = 0 /\ dot(t, 1) = d /\ dot(t, 2) = e /\ dot(t, 3) = f
  /\ IF Cardinality(at(t, ".")) >= 4
     THEN dot(t, 4) \in at(t, ".") /\ dot(t, 4) > f
          /\ \A j \in at(t, ".") : j > f => dot(t, 4) <= j
     ELSE \A j \in at(t, ".") : j <= f

LEMMA FirstDots ==
  ASSUME NEW t, Len(t) \in Nat, Cardinality(at(t, ".")) >= 3
  PROVE  \E d, e, f \in 1 .. Len(t) : Dots(t, d, e, f)
<1> DEFINE D == at(t, ".")
           n == Len(t)
<1>1. D \in SUBSET (1 .. n) /\ n \in Nat /\ Cardinality(D) >= 3 BY DEF at
<1>2. \A i \in D, k \in Nat \ {0} : Cardinality(Upto(D, i)) = k => dot(t, k) = i BY DotIs
<1> HIDE DEF D, n
<1>3. Cardinality(D) \in Nat /\ Upto(D, 0) = {}
  <2>1. 0 \in 0 .. n BY <1>1
  <2>2. Upto(D, 0) = {}
    <3>1. \A j \in D : ~(j <= 0) BY <1>1
    <3> QED BY <3>1, Zenon DEF Upto
  <2> QED BY <1>1, <2>1, <2>2, UptoFinite
<1>4. Cardinality(Upto(D, 0)) = 0 BY <1>3, FS_EmptySet
<1>5. PICK d \in D : /\ d > 0 /\ Cardinality(Upto(D, d)) = 1 /\ \A j \in D : j <= 0 \/ d <= j
  <2>1. 0 \in 0 .. n /\ Cardinality(Upto(D, 0)) < Cardinality(D) BY <1>1, <1>3, <1>4
  <2>2. 0 + 1 = 1 OBVIOUS
  <2> QED BY <1>1, <1>4, <2>1, <2>2, NextDot
<1>6. PICK e \in D : /\ e > d /\ Cardinality(Upto(D, e)) = 2 /\ \A j \in D : j <= d \/ e <= j
  <2>1. d \in 0 .. n /\ Cardinality(Upto(D, d)) < Cardinality(D) BY <1>1, <1>3, <1>5
  <2>2. 1 + 1 = 2 OBVIOUS
  <2> QED BY <1>1, <1>5, <2>1, <2>2, NextDot
<1>7. PICK f \in D : /\ f > e /\ Cardinality(Upto(D, f)) = 3 /\ \A j \in D : j <= e \/ f <= j
  <2>1. e \in 0 .. n /\ Cardinality(Upto(D, e)) < Cardinality(D) BY <1>1, <1>3, <1>6
  <2>2. 2 + 1 = 3 OBVIOUS
  <2> QED BY <1>1, <1>6, <2>1, <2>2, NextDot
<1>8. dot(t, 0) = 0 /\ dot(t, 1) = d /\ dot(t, 2) = e /\ dot(t, 3) = f
  <2>1. dot(t, 0) = 0 BY DEF dot
  <2> QED BY <1>2, <1>5, <1>6, <1>7, <2>1
<1>9. \A j \in D : j \in {d, e, f} \/ j > f BY <1>1, <1>5, <1>6, <1>7
<1>10. f \in 0 .. n BY <1>1
<1>11. CASE Cardinality(D) >= 4
  <2>1. Cardinality(Upto(D, f)) < Cardinality(D) BY <1>3, <1>7, <1>11
  <2>2. PICK g \in D : /\ g > f /\ Cardinality(Upto(D, g)) = 4 /\ \A j \in D : j <= f \/ g <= j
    <3>1. 3 + 1 = 4 OBVIOUS
    <3> QED BY <1>1, <1>7, <1>10, <2>1, <3>1, NextDot
  <2>3. dot(t, 4) = g BY <1>2, <2>2
  <2>4. \A j \in D : j > f => g <= j BY <1>1, <2>2
  <2> QED BY <1>1, <1>5, <1>6, <1>7, <1>8, <1>9, <1>11, <2>2, <2>3, <2>4 DEF Dots, D, n
<1>12. CASE ~(Cardinality(D) >= 4)
  <2>1. ~\E j \in D : j > f BY <1>1, <1>3, <1>7, <1>10, <1>12, UptoFinite
  <2>2. \A j \in D : j <= f BY <1>1, <2>1
  <2> QED BY <1>1, <1>5, <1>6, <1>7, <1>8, <1>9, <1>12, <2>2 DEF Dots, D, n
<1> QED BY <1>11, <1>12

Quad(t) ==
  /\ Len(t) >= 7
  /\ \A i \in {1, 3, 5, 7} : numeral(t[i], 0 .. 255)
  /\ t[2] = "." /\ t[4] = "." /\ t[6] = "."
  /\ Len(t) = 7 \/ t[8] = "."

(* A stretch of a text is a numeral only if it is one piece.               *)
OnePiece(t, a, z) == Len(SubSeq(t, a, z)) = 1 /\ SubSeq(t, a, z)[1] = t[a]

LEMMA Stretch ==
  ASSUME NEW S, NEW t \in Seq(S), NEW a \in 1 .. Len(t) + 1, NEW z \in a - 1 .. Len(t)
  PROVE  Len(SubSeq(t, a, z)) = z - a + 1 /\ (z = a => OnePiece(t, a, z))
<1>1. a \in Int /\ z \in Int /\ Len(t) \in Nat OBVIOUS
<1>2. \A i \in a .. z : t[i] \in S BY <1>1, ElementOfSeq
<1>3. /\ Len(SubSeq(t, a, z)) = IF a <= z THEN z - a + 1 ELSE 0
      /\ \A i \in 1 .. z - a + 1 : SubSeq(t, a, z)[i] = t[a + i - 1]
  BY <1>1, <1>2, SubSeqProperties
<1>4. Len(SubSeq(t, a, z)) = z - a + 1 BY <1>1, <1>3
<1>5. CASE z = a
  <2>1. 1 \in 1 .. z - a + 1 /\ a + 1 - 1 = a /\ z - a + 1 = 1 BY <1>1, <1>5
  <2> QED BY <1>3, <1>4, <2>1 DEF OnePiece
<1> QED BY <1>4, <1>5

(* Where the fourth field ends.                                            *)
fourth_end(t) == IF Cardinality(at(t, ".")) >= 4 THEN dot(t, 4) - 1 ELSE Len(t)

(* The fields between these dots.                                          *)
Fields(t, d, e, f, last) ==
  /\ last \in f .. Len(t)
  /\ field(t, 1) = SubSeq(t, 1, d - 1) /\ Len(field(t, 1)) = d - 1
  /\ field(t, 2) = SubSeq(t, d + 1, e - 1) /\ Len(field(t, 2)) = e - d - 1
  /\ field(t, 3) = SubSeq(t, e + 1, f - 1) /\ Len(field(t, 3)) = f - e - 1
  /\ field(t, 4) = SubSeq(t, f + 1, last) /\ Len(field(t, 4)) = last - f

LEMMA FieldsBetween ==
  ASSUME NEW S, NEW t \in Seq(S), Cardinality(at(t, ".")) >= 3,
         NEW d \in 1 .. Len(t), NEW e \in 1 .. Len(t), NEW f \in 1 .. Len(t), Dots(t, d, e, f),
         NEW last, last = fourth_end(t)
  PROVE  Fields(t, d, e, f, last)
<1>1. /\ dot(t, 0) = 0 /\ dot(t, 1) = d /\ dot(t, 2) = e /\ dot(t, 3) = f
      /\ 0 < d /\ d < e /\ e < f /\ Len(t) \in Nat
  BY DEF Dots
<1>2. last \in f .. Len(t)
  <2>1. CASE Cardinality(at(t, ".")) >= 4
    <3>1. dot(t, 4) \in 1 .. Len(t) /\ dot(t, 4) > f BY <2>1 DEF Dots, at
    <3> QED BY <1>1, <2>1, <3>1 DEF fourth_end
  <2>2. CASE ~(Cardinality(at(t, ".")) >= 4) BY <1>1, <2>2 DEF fourth_end
  <2> QED BY <2>1, <2>2
<1>3. Cardinality(at(t, ".")) \in Nat
  <2>1. at(t, ".") \in SUBSET (1 .. Len(t)) /\ 0 \in 0 .. Len(t) BY <1>1 DEF at
  <2> QED BY <1>1, <2>1, UptoFinite
<1>4. /\ field(t, 1) = SubSeq(t, 1, d - 1) /\ field(t, 2) = SubSeq(t, d + 1, e - 1)
      /\ field(t, 3) = SubSeq(t, e + 1, f - 1)
  <2>1. 1 - 1 = 0 /\ 2 - 1 = 1 /\ 3 - 1 = 2 /\ 0 + 1 = 1 OBVIOUS
  <2>2. 1 <= Cardinality(at(t, ".")) /\ 2 <= Cardinality(at(t, ".")) /\ 3 <= Cardinality(at(t, "."))
    BY <1>3
  <2> QED BY <1>1, <2>1, <2>2, Zenon DEF field
<1>5. field(t, 4) = SubSeq(t, f + 1, last)
  <2>1. 4 - 1 = 3 OBVIOUS
  <2>2. field(t, 4) = SubSeq(t, f + 1, IF 4 <= Cardinality(at(t, ".")) THEN dot(t, 4) - 1 ELSE Len(t))
    BY <1>1, <2>1 DEF field
  <2>3. last = IF 4 <= Cardinality(at(t, ".")) THEN dot(t, 4) - 1 ELSE Len(t) BY <1>3 DEF fourth_end
  <2> QED BY <2>2, <2>3
<1>6. Len(field(t, 1)) = d - 1
  <2>1. 1 \in 1 .. Len(t) + 1 /\ d - 1 \in 1 - 1 .. Len(t) /\ d - 1 - 1 + 1 = d - 1 BY <1>1
  <2> QED BY <1>4, <2>1, Stretch
<1>7. Len(field(t, 2)) = e - d - 1
  <2>1. d + 1 \in 1 .. Len(t) + 1 /\ e - 1 \in (d + 1) - 1 .. Len(t) /\ e - 1 - (d + 1) + 1 = e - d - 1
    BY <1>1
  <2> QED BY <1>4, <2>1, Stretch
<1>8. Len(field(t, 3)) = f - e - 1
  <2>1. e + 1 \in 1 .. Len(t) + 1 /\ f - 1 \in (e + 1) - 1 .. Len(t) /\ f - 1 - (e + 1) + 1 = f - e - 1
    BY <1>1
  <2> QED BY <1>4, <2>1, Stretch
<1>9. Len(field(t, 4)) = last - f
  <2>1. f + 1 \in 1 .. Len(t) + 1 /\ last \in (f + 1) - 1 .. Len(t) /\ last - (f + 1) + 1 = last - f
    BY <1>1, <1>2
  <2> QED BY <1>5, <2>1, Stretch
<1> QED BY <1>2, <1>4, <1>5, <1>6, <1>7, <1>8, <1>9 DEF Fields

LEMMA NumeralIs == \A t : \A n \in Nat : parses_uint(t, n) <=> Len(t) = 1 /\ numeral(t[1], 0 .. n)
<1> SUFFICES ASSUME NEW p \in DOMAIN Numeral, NEW n \in Nat
             PROVE  Numeral[p] <= n <=> Numeral[p] \in 0 .. n
  BY Zenon DEF parses_uint, numeral
<1>1. PICK v \in Nat : v = Numeral[p] BY NumeralAssumption, Zenon
<1>2. v <= n <=> v \in 0 .. n OBVIOUS
<1> QED BY <1>1, <1>2

LEMMA Ipv4Quad ==
  ASSUME NEW S, NEW t \in Seq(S)
  PROVE  /\ parses_ipv4(t) <=> Quad(t)
         /\ Quad(t) => parse_ipv4(t) = <<Numeral[t[1]], Numeral[t[3]], Numeral[t[5]], Numeral[t[7]]>>
<1> DEFINE D == at(t, ".")
<1>1. Len(t) \in Nat /\ D \in SUBSET (1 .. Len(t)) /\ \A i \in 1 .. Len(t) : t[i] = "." <=> i \in D
  BY DEF at
<1>2. ASSUME Quad(t) PROVE Cardinality(D) >= 3
  <2>1. {2, 4, 6} \subseteq D BY <1>1, <1>2 DEF Quad
  <2>2. Cardinality({2, 4, 6}) = 3
    <3>1. IsFiniteSet({2}) /\ Cardinality({2}) = 1 BY FS_Singleton
    <3>2. PICK E : E = {2} \cup {4} OBVIOUS
    <3>3. IsFiniteSet(E) /\ Cardinality(E) = 1 + 1
      <4>1. 4 \notin {2} OBVIOUS
      <4> QED BY <3>1, <3>2, <4>1, FS_AddElement, Zenon
    <3>4. Cardinality(E \cup {6}) = 1 + 1 + 1
      <4>1. 6 \notin E BY <3>2
      <4> QED BY <3>3, <4>1, FS_AddElement, Zenon
    <3>5. E \cup {6} = {2, 4, 6} /\ 1 + 1 + 1 = 3 BY <3>2
    <3> QED BY <3>4, <3>5, Zenon
  <2>3. IsFiniteSet(D)
    <3>1. 0 \in 0 .. Len(t) BY <1>1
    <3> QED BY <1>1, <3>1, UptoFinite
  <2> HIDE DEF D
  <2> QED BY <2>1, <2>2, <2>3, FS_Subset
<1>3. ASSUME Cardinality(D) >= 3
      PROVE  /\ parses_ipv4(t) => Quad(t)
             /\ Quad(t) => parses_ipv4(t) /\ parse_ipv4(t) = <<Numeral[t[1]], Numeral[t[3]], Numeral[t[5]], Numeral[t[7]]>>
  <2>1. PICK d, e, f \in 1 .. Len(t) : Dots(t, d, e, f) BY <1>1, <1>3, FirstDots
  <2>0. PICK last : last = fourth_end(t) OBVIOUS
  <2>l. last = IF Cardinality(D) >= 4 THEN dot(t, 4) - 1 ELSE Len(t) BY <2>0 DEF fourth_end
  <2>2. /\ last \in f .. Len(t)
        /\ field(t, 1) = SubSeq(t, 1, d - 1) /\ Len(field(t, 1)) = d - 1
        /\ field(t, 2) = SubSeq(t, d + 1, e - 1) /\ Len(field(t, 2)) = e - d - 1
        /\ field(t, 3) = SubSeq(t, e + 1, f - 1) /\ Len(field(t, 3)) = f - e - 1
        /\ field(t, 4) = SubSeq(t, f + 1, last) /\ Len(field(t, 4)) = last - f
    <3>1. Cardinality(at(t, ".")) >= 3 BY <1>3
    <3> HIDE DEF D
    <3>2. Fields(t, d, e, f, last) BY <2>0, <2>1, <3>1, FieldsBetween
    <3> QED BY <3>2 DEF Fields
  <2>3. /\ {d, e, f} \subseteq D /\ 0 < d /\ d < e /\ e < f
        /\ \A j \in D : j \in {d, e, f} \/ j > f
        /\ IF Cardinality(D) >= 4
           THEN dot(t, 4) \in D /\ dot(t, 4) > f /\ \A j \in D : j > f => dot(t, 4) <= j
           ELSE \A j \in D : j <= f
    BY <2>1 DEF Dots
  <2> HIDE DEF D
  <2>4. ASSUME d = 2, e = 4, f = 6, last = 7
        PROVE  /\ \A k \in 1 .. 4 : Len(field(t, k)) = 1 /\ field(t, k)[1] = t[2 * k - 1]
               /\ Len(t) >= 7 /\ t[2] = "." /\ t[4] = "." /\ t[6] = "." /\ (Len(t) = 7 \/ t[8] = ".")
    <3>1. 7 \in 1 .. Len(t) BY <2>2, <2>4
    <3>2. /\ field(t, 1) = SubSeq(t, 1, 1) /\ field(t, 2) = SubSeq(t, 3, 3)
          /\ field(t, 3) = SubSeq(t, 5, 5) /\ field(t, 4) = SubSeq(t, 7, 7)
      BY <2>2, <2>4
    <3>3. ASSUME NEW a \in {1, 3, 5, 7} PROVE OnePiece(t, a, a)
      <4>1. a \in 1 .. Len(t) + 1 /\ a \in a - 1 .. Len(t) BY <1>1, <3>1
      <4> QED BY <4>1, Stretch
    <3>4. \A k \in 1 .. 4 : Len(field(t, k)) = 1 /\ field(t, k)[1] = t[2 * k - 1]
      <4>1. \A k \in 1 .. 4 : k = 1 \/ k = 2 \/ k = 3 \/ k = 4 OBVIOUS
      <4>2. 2 * 1 - 1 = 1 /\ 2 * 2 - 1 = 3 /\ 2 * 3 - 1 = 5 /\ 2 * 4 - 1 = 7 OBVIOUS
      <4>3. OnePiece(t, 1, 1) /\ OnePiece(t, 3, 3) /\ OnePiece(t, 5, 5) /\ OnePiece(t, 7, 7) BY <3>3
      <4> QED BY <3>2, <4>1, <4>2, <4>3 DEF OnePiece
    <3>5. t[2] = "." /\ t[4] = "." /\ t[6] = "." BY <1>1, <2>3, <2>4
    <3>6. Len(t) = 7 \/ t[8] = "."
      <4>1. CASE Cardinality(D) >= 4
        <5>1. dot(t, 4) \in D /\ dot(t, 4) \in 1 .. Len(t) BY <1>1, <2>3, <4>1
        <5>2. dot(t, 4) = 8 BY <2>l, <2>4, <4>1, <5>1
        <5> QED BY <1>1, <5>1, <5>2
      <4>2. CASE ~(Cardinality(D) >= 4) BY <2>l, <2>4, <4>2
      <4> QED BY <4>1, <4>2
    <3> QED BY <3>1, <3>4, <3>5, <3>6
  <2>5. ASSUME parses_ipv4(t) PROVE Quad(t)
    <3>1. \A k \in 1 .. 4 : Len(field(t, k)) = 1 /\ numeral(field(t, k)[1], 0 .. 255)
      <4>1. \A k \in 1 .. 4 : parses_uint(field(t, k), 255) BY <2>5 DEF parses_ipv4
      <4>2. 255 \in Nat OBVIOUS
      <4> QED BY <4>1, <4>2, NumeralIs, Zenon
    <3>2. d = 2 /\ e = 4 /\ f = 6 /\ last = 7
      <4>1. d - 1 = 1 /\ e - d - 1 = 1 /\ f - e - 1 = 1 /\ last - f = 1
        <5>1. 1 \in 1 .. 4 /\ 2 \in 1 .. 4 /\ 3 \in 1 .. 4 /\ 4 \in 1 .. 4 OBVIOUS
        <5>2. /\ Len(field(t, 1)) = 1 /\ Len(field(t, 2)) = 1
              /\ Len(field(t, 3)) = 1 /\ Len(field(t, 4)) = 1
          BY <3>1, <5>1, Zenon
        <5> QED BY <2>2, <5>2, Zenon
      <4>2. last \in Int BY <2>2
      <4> QED BY <4>1, <4>2
    <3>3. \A k \in 1 .. 4 : numeral(t[2 * k - 1], 0 .. 255) BY <2>4, <3>1, <3>2
    <3>4. \A i \in {1, 3, 5, 7} : numeral(t[i], 0 .. 255)
      <4>1. \A i \in {1, 3, 5, 7} : \E k \in 1 .. 4 : i = 2 * k - 1
        <5>1. 1 = 2 * 1 - 1 /\ 3 = 2 * 2 - 1 /\ 5 = 2 * 3 - 1 /\ 7 = 2 * 4 - 1 OBVIOUS
        <5> QED BY <5>1
      <4> QED BY <3>3, <4>1
    <3> QED BY <2>4, <3>2, <3>4 DEF Quad
  <2>6. ASSUME Quad(t)
        PROVE  parses_ipv4(t) /\ parse_ipv4(t) = <<Numeral[t[1]], Numeral[t[3]], Numeral[t[5]], Numeral[t[7]]>>
    <3>1. 2 \in D /\ 4 \in D /\ 6 \in D /\ 1 \notin D /\ 3 \notin D /\ 5 \notin D /\ 7 \notin D
      <4>1. t[1] # "." /\ t[3] # "." /\ t[5] # "." /\ t[7] # "."
        BY <2>6, NumeralAssumption DEF Quad, numeral
      <4> QED BY <1>1, <2>6, <4>1 DEF Quad
    <3>2. d = 2 /\ e = 4 /\ f = 6 BY <2>3, <3>1
    <3>3. last = 7
      <4>1. CASE Cardinality(D) >= 4
        <5>0. PICK g \in D : g = dot(t, 4) /\ g > 6 BY <2>3, <3>2, <4>1
        <5>1. g \in Int /\ g # 7 /\ g > 6 /\ g \in 1 .. Len(t) BY <1>1, <3>1, <5>0
        <5>2. t[8] = "." /\ 8 \in 1 .. Len(t)
          <6>1. Len(t) = 7 \/ t[8] = "." BY <2>6, Zenon DEF Quad
          <6> QED BY <1>1, <5>1, <6>1
        <5>3. 8 \in D /\ dot(t, 4) <= 8 BY <1>1, <2>3, <3>2, <4>1, <5>2
        <5> QED BY <2>l, <4>1, <5>0, <5>1, <5>3
      <4>2. CASE ~(Cardinality(D) >= 4)
        <5>1. 8 \notin D BY <2>3, <3>2, <4>2
        <5>2. Len(t) = 7
          <6>1. Len(t) >= 7 /\ (Len(t) = 7 \/ t[8] = ".") BY <2>6, Zenon DEF Quad
          <6>2. Len(t) # 7 => 8 \in 1 .. Len(t)
            <7>1. PICK n \in Nat : n = Len(t) BY <1>1, Zenon
            <7>2. n >= 7 BY <6>1, <7>1, Zenon
            <7>3. n # 7 => 8 \in 1 .. n BY <7>2
            <7> QED BY <7>1, <7>3
          <6> QED BY <1>1, <5>1, <6>1, <6>2, Zenon
        <5> QED BY <2>l, <4>2, <5>2
      <4> QED BY <4>1, <4>2
    <3>4. \A k \in 1 .. 4 : Len(field(t, k)) = 1 /\ field(t, k)[1] = t[2 * k - 1]
      BY <2>4, <3>2, <3>3
    <3>5. \A k \in 1 .. 4 : numeral(t[2 * k - 1], 0 .. 255)
      <4>1. \A k \in 1 .. 4 : 2 * k - 1 \in {1, 3, 5, 7} OBVIOUS
      <4> QED BY <2>6, <4>1 DEF Quad
    <3>6. \A k \in 1 .. 4 : parses_uint(field(t, k), 255)
      <4>1. 255 \in Nat OBVIOUS
      <4>2. \A k \in 1 .. 4 : Len(field(t, k)) = 1 /\ numeral(field(t, k)[1], 0 .. 255) BY <3>4, <3>5
      <4> QED BY <4>1, <4>2, NumeralIs, Zenon
    <3>7. parses_ipv4(t) BY <1>3, <3>6 DEF parses_ipv4, D
    <3>8. parse_ipv4(t) = [k \in 1 .. 4 |-> Numeral[t[2 * k - 1]]] BY <3>4 DEF parse_ipv4
    <3>9. [k \in 1 .. 4 |-> Numeral[t[2 * k - 1]]]
            = <<Numeral[t[1]], Numeral[t[3]], Numeral[t[5]], Numeral[t[7]]>>
      OBVIOUS
    <3> QED BY <3>7, <3>8, <3>9
  <2> QED BY <2>5, <2>6
<1>4. parses_ipv4(t) => Cardinality(D) >= 3 BY DEF parses_ipv4
<1> QED BY <1>2, <1>3, <1>4

(* The last colon of a text of n pieces.                                   *)
LEMMA ColonIs ==
  ASSUME NEW S, NEW s \in Seq(S), NEW c \in at(s, ":"), \A j \in at(s, ":") : j <= c
  PROVE  /\ colon(s) = c /\ c \in 1 .. Len(s)
         /\ ip(s) \in Seq(S) /\ Len(ip(s)) = c - 1 /\ \A i \in 1 .. c - 1 : ip(s)[i] = s[i]
         /\ Len(ps(s)) = Len(s) - c /\ \A i \in 1 .. Len(s) - c : ps(s)[i] = s[c + i]
<1>1. at(s, ":") \in SUBSET (1 .. Len(s)) /\ Len(s) \in Nat BY DEF at
<1>2. \A j \in at(s, ":") : (\A h \in at(s, ":") : h <= j) => j = c
  <2> SUFFICES ASSUME NEW j \in at(s, ":"), \A h \in at(s, ":") : h <= j PROVE j = c OBVIOUS
  <2>1. j <= c /\ c <= j /\ j \in 1 .. Len(s) /\ c \in 1 .. Len(s) BY <1>1
  <2> QED BY <2>1
<1>3. colon(s) = c BY <1>2, Zenon DEF colon
<1>4. c \in 1 .. Len(s) BY <1>1
<1>5. \A i \in 1 .. Len(s) : s[i] \in S BY ElementOfSeq
<1>6. ip(s) \in Seq(S) /\ Len(ip(s)) = c - 1 /\ \A i \in 1 .. c - 1 : ip(s)[i] = s[i]
  <2>1. 1 \in Int /\ c - 1 \in Int /\ \A i \in 1 .. c - 1 : s[i] \in S BY <1>1, <1>4, <1>5
  <2>2. /\ ip(s) \in Seq(S) /\ Len(ip(s)) = IF 1 <= c - 1 THEN c - 1 - 1 + 1 ELSE 0
        /\ \A i \in 1 .. c - 1 - 1 + 1 : ip(s)[i] = s[1 + i - 1]
    BY <1>3, <2>1, SubSeqProperties DEF ip
  <2>3. c - 1 - 1 + 1 = c - 1 /\ (~(1 <= c - 1) => c - 1 = 0) /\ \A i \in 1 .. c - 1 : 1 + i - 1 = i
    BY <1>4
  <2> QED BY <2>2, <2>3
<1>7. Len(ps(s)) = Len(s) - c /\ \A i \in 1 .. Len(s) - c : ps(s)[i] = s[c + i]
  <2>1. c + 1 \in Int /\ Len(s) \in Int /\ \A i \in c + 1 .. Len(s) : s[i] \in S BY <1>1, <1>4, <1>5
  <2>2. /\ Len(ps(s)) = IF c + 1 <= Len(s) THEN Len(s) - (c + 1) + 1 ELSE 0
        /\ \A i \in 1 .. Len(s) - (c + 1) + 1 : ps(s)[i] = s[c + 1 + i - 1]
    BY <1>3, <2>1, SubSeqProperties DEF ps
  <2>3. /\ Len(s) - (c + 1) + 1 = Len(s) - c /\ (~(c + 1 <= Len(s)) => Len(s) - c = 0)
        /\ \A i \in 1 .. Len(s) - c : c + 1 + i - 1 = c + i
    BY <1>1, <1>4
  <2> QED BY <2>2, <2>3
<1> QED BY <1>3, <1>4, <1>6, <1>7

LEMMA PortIs ==
  \A t : /\ parses_uint(t, MaxPort) /\ Numeral[t[1]] > 0 => Len(t) = 1 /\ numeral(t[1], 1 .. MaxPort)
         /\ Len(t) = 1 /\ numeral(t[1], 1 .. MaxPort) => parses_uint(t, MaxPort) /\ Numeral[t[1]] > 0
<1>1. ASSUME NEW p \in DOMAIN Numeral
      PROVE  /\ Numeral[p] <= MaxPort /\ Numeral[p] > 0 => Numeral[p] \in 1 .. MaxPort
             /\ Numeral[p] \in 1 .. MaxPort => Numeral[p] <= MaxPort /\ Numeral[p] > 0
  <2>1. PICK v \in Nat : v = Numeral[p] BY NumeralAssumption, Zenon
  <2>2. /\ v <= MaxPort /\ v > 0 => v \in 1 .. MaxPort
        /\ v \in 1 .. MaxPort => v <= MaxPort /\ v > 0
    <3>1. MaxPort \in Nat BY DEF MaxPort
    <3> QED BY <3>1
  <2> QED BY <2>1, <2>2, Zenon
<1> TAKE t
<1>2. ASSUME parses_uint(t, MaxPort), Numeral[t[1]] > 0
      PROVE  Len(t) = 1 /\ numeral(t[1], 1 .. MaxPort)
  <2>1. Len(t) = 1 /\ t[1] \in DOMAIN Numeral /\ Numeral[t[1]] <= MaxPort
    BY <1>2, Zenon DEF parses_uint
  <2> QED BY <1>1, <1>2, <2>1, Zenon DEF numeral
<1>3. ASSUME Len(t) = 1, numeral(t[1], 1 .. MaxPort)
      PROVE  parses_uint(t, MaxPort) /\ Numeral[t[1]] > 0
  <2>1. t[1] \in DOMAIN Numeral /\ Numeral[t[1]] \in 1 .. MaxPort BY <1>3, Zenon DEF numeral
  <2> QED BY <1>1, <1>3, <2>1, Zenon DEF parses_uint
<1> QED BY <1>2, <1>3, Zenon

(* What the parser takes, tail included, and what it reads.                *)
TakenUpTo(s, end) ==
  /\ end >= 9 /\ \A i \in {1, 3, 5, 7} : numeral(s[i], 0 .. 255)
  /\ s[2] = "." /\ s[4] = "." /\ s[6] = "." /\ (end = 9 \/ s[8] = ".")
  /\ s[end - 1] = ":" /\ numeral(s[end], 1 .. MaxPort)

taken(s) == TakenUpTo(s, Len(s))

taken_as(s) ==
  [addr |-> <<Numeral[s[1]], Numeral[s[3]], Numeral[s[5]], Numeral[s[7]]>>, port |-> Numeral[s[Len(s)]]]

LEMMA ParsesWhatIsTaken ==
  ASSUME NEW S, NEW s \in Seq(S)
  PROVE  /\ parses_endpoint(s) <=> taken(s)
         /\ taken(s) => parse_endpoint(s) = taken_as(s)
<1>1. PICK n \in Nat : n = Len(s) OBVIOUS
<1>2. at(s, ":") \in SUBSET (1 .. n) /\ \A i \in 1 .. n : s[i] = ":" <=> i \in at(s, ":")
  BY <1>1 DEF at
<1>s. taken(s) <=> /\ n >= 9 /\ \A i \in {1, 3, 5, 7} : numeral(s[i], 0 .. 255)
                    /\ s[2] = "." /\ s[4] = "." /\ s[6] = "." /\ (n = 9 \/ s[8] = ".")
                    /\ s[n - 1] = ":" /\ numeral(s[n], 1 .. MaxPort)
  BY <1>1 DEF taken, TakenUpTo
<1>4. ASSUME NEW t, n >= 2, Len(t) = n - 2, \A i \in 1 .. n - 2 : t[i] = s[i]
      PROVE  /\ taken(s) <=> Quad(t) /\ s[n - 1] = ":" /\ numeral(s[n], 1 .. MaxPort)
             /\ Quad(t) => /\ t[1] = s[1] /\ t[3] = s[3] /\ t[5] = s[5] /\ t[7] = s[7]
  <2>1. CASE n >= 9
    <3>1. /\ t[1] = s[1] /\ t[2] = s[2] /\ t[3] = s[3] /\ t[4] = s[4]
          /\ t[5] = s[5] /\ t[6] = s[6] /\ t[7] = s[7]
      <4>1. \A i \in 1 .. 7 : i \in 1 .. n - 2 BY <2>1
      <4> QED BY <1>4, <4>1
    <3>2. n = 9 \/ t[8] = s[8]
      <4>1. n = 9 \/ 8 \in 1 .. n - 2 BY <2>1
      <4> QED BY <1>4, <4>1
    <3>3. Len(t) >= 7 /\ (Len(t) = 7 <=> n = 9) BY <1>4, <2>1
    <3>4. (\A i \in {1, 3, 5, 7} : numeral(s[i], 0 .. 255))
            <=> \A i \in {1, 3, 5, 7} : numeral(t[i], 0 .. 255)
      BY <3>1
    <3>5. Quad(t) <=> /\ \A i \in {1, 3, 5, 7} : numeral(t[i], 0 .. 255)
                      /\ s[2] = "." /\ s[4] = "." /\ s[6] = "." /\ (n = 9 \/ s[8] = ".")
      BY <3>1, <3>2, <3>3, Zenon DEF Quad
    <3> DEFINE quads == \A i \in {1, 3, 5, 7} : numeral(s[i], 0 .. 255)
               quadt == \A i \in {1, 3, 5, 7} : numeral(t[i], 0 .. 255)
               dots == s[2] = "." /\ s[4] = "." /\ s[6] = "." /\ (n = 9 \/ s[8] = ".")
               port == s[n - 1] = ":" /\ numeral(s[n], 1 .. MaxPort)
    <3>6. quads <=> quadt BY <3>4
    <3>7. Quad(t) <=> quadt /\ dots BY <3>5
    <3>8. taken(s) <=> quads /\ dots /\ port BY <1>s, <2>1
    <3> HIDE DEF quads, quadt, dots, port
    <3>9. taken(s) <=> Quad(t) /\ port BY <3>6, <3>7, <3>8
    <3> QED BY <3>1, <3>9 DEF port
  <2>2. CASE ~(n >= 9)
    <3>1. ~(Len(t) >= 7) BY <1>4, <2>2
    <3> QED BY <1>s, <2>2, <3>1, Zenon DEF Quad
  <2> QED BY <2>1, <2>2
<1>5. ASSUME parses_endpoint(s) PROVE taken(s) /\ parse_endpoint(s) = taken_as(s)
  <2>1. /\ at(s, ":") # {} /\ parses_ipv4(ip(s))
        /\ parses_uint(ps(s), MaxPort) /\ Numeral[ps(s)[1]] > 0
    BY <1>5, Zenon DEF parses_endpoint
  <2>2. PICK c \in at(s, ":") : \A j \in at(s, ":") : j <= c
    <3>1. at(s, ":") \in SUBSET (0 .. n) BY <1>2
    <3>2. PICK c \in at(s, ":") : \A j \in at(s, ":") : c >= j BY <2>1, <3>1, HasLargest
    <3>3. \A j \in at(s, ":") : c >= j => j <= c BY <1>2
    <3> QED BY <3>2, <3>3
  <2>3. Len(ps(s)) = 1 /\ numeral(ps(s)[1], 1 .. MaxPort) BY <2>1, PortIs, Zenon
  <2>4. /\ c \in 1 .. n /\ ip(s) \in Seq(S)
        /\ Len(ip(s)) = c - 1 /\ \A i \in 1 .. c - 1 : ip(s)[i] = s[i]
        /\ Len(ps(s)) = n - c /\ \A i \in 1 .. n - c : ps(s)[i] = s[c + i]
    BY <1>1, <2>2, ColonIs
  <2>5. c = n - 1 /\ c - 1 = n - 2 /\ n >= 2 /\ 1 \in 1 .. n - c /\ c + 1 = n
    <3>1. n - c = 1 BY <2>3, <2>4, Zenon
    <3>2. c \in 1 .. n BY <2>4
    <3> QED BY <3>1, <3>2
  <2>6. s[n - 1] = ":" /\ ps(s)[1] = s[n] BY <1>2, <2>2, <2>4, <2>5
  <2>7. /\ Quad(ip(s))
        /\ parse_ipv4(ip(s)) = <<Numeral[ip(s)[1]], Numeral[ip(s)[3]], Numeral[ip(s)[5]], Numeral[ip(s)[7]]>>
    BY <2>1, <2>4, Ipv4Quad, Zenon
  <2>8. Len(ip(s)) = n - 2 /\ \A i \in 1 .. n - 2 : ip(s)[i] = s[i] BY <2>4, <2>5, Zenon
  <2>9. /\ taken(s) <=> Quad(ip(s)) /\ s[n - 1] = ":" /\ numeral(s[n], 1 .. MaxPort)
        /\ Quad(ip(s)) => /\ ip(s)[1] = s[1] /\ ip(s)[3] = s[3] /\ ip(s)[5] = s[5] /\ ip(s)[7] = s[7]
    BY <1>4, <2>5, <2>8
  <2>10. taken(s) BY <2>3, <2>6, <2>7, <2>9, Zenon
  <2> QED BY <1>1, <2>6, <2>7, <2>9, <2>10, Zenon DEF parse_endpoint, taken_as
<1>6. ASSUME taken(s) PROVE parses_endpoint(s)
  <2>1. n >= 9 /\ s[n - 1] = ":" /\ numeral(s[n], 1 .. MaxPort) BY <1>6, <1>s, Zenon
  <2>2. n >= 2 /\ n - 1 \in 1 .. n /\ n \in 1 .. n
    <3>1. n >= 9 BY <2>1, Zenon
    <3> QED BY <3>1
  <2>3. s[n] # ":" BY <2>1, NumeralAssumption, Zenon DEF numeral
  <2>4. n - 1 \in at(s, ":") /\ n \notin at(s, ":") BY <1>2, <2>1, <2>2, <2>3, Zenon
  <2>5. \A j \in at(s, ":") : j <= n - 1
    <3>1. \A j \in 1 .. n : j = n \/ j <= n - 1 OBVIOUS
    <3> QED BY <1>2, <2>4, <3>1, Zenon
  <2>6. /\ ip(s) \in Seq(S)
        /\ Len(ip(s)) = n - 1 - 1 /\ \A i \in 1 .. n - 1 - 1 : ip(s)[i] = s[i]
        /\ Len(ps(s)) = n - (n - 1) /\ \A i \in 1 .. n - (n - 1) : ps(s)[i] = s[n - 1 + i]
    BY <1>1, <2>4, <2>5, ColonIs
  <2>7. n - 1 - 1 = n - 2 /\ n - (n - 1) = 1 /\ 1 \in 1 .. 1 /\ n - 1 + 1 = n OBVIOUS
  <2>8. /\ Len(ip(s)) = n - 2 /\ \A i \in 1 .. n - 2 : ip(s)[i] = s[i]
        /\ Len(ps(s)) = 1 /\ ps(s)[1] = s[n]
    BY <2>6, <2>7, Zenon
  <2>9. taken(s) <=> Quad(ip(s)) /\ s[n - 1] = ":" /\ numeral(s[n], 1 .. MaxPort)
    BY <1>4, <2>2, <2>8
  <2>10. parses_ipv4(ip(s)) BY <1>6, <2>6, <2>9, Ipv4Quad, Zenon
  <2>11. parses_uint(ps(s), MaxPort) /\ Numeral[ps(s)[1]] > 0 BY <2>1, <2>8, PortIs, Zenon
  <2>12. at(s, ":") # {} BY <2>4
  <2> QED BY <2>10, <2>11, <2>12, Zenon DEF parses_endpoint
<1> QED BY <1>5, <1>6

LEMMA WithoutTail ==
  ASSUME NEW S, NEW s \in Seq(S)
  PROVE  /\ taken(s) <=> spells(without_tail(s))
         /\ taken(s) => taken_as(s) = spelled(without_tail(s))
         /\ spells(s) => without_tail(s) = s
<1>1. PICK n \in Nat : n = Len(s) OBVIOUS
<1>0. \A i \in 1 .. n : s[i] \in S BY <1>1, ElementOfSeq
<1>2. CASE has_tail(s)
  <2>1. n > 9 /\ s[8] = "." BY <1>1, <1>2 DEF has_tail
  <2>2. PICK t : t = without_tail(s) OBVIOUS
  <2>3. /\ Len(t) = 9 /\ t[8] = s[n - 1] /\ t[9] = s[n]
        /\ t[1] = s[1] /\ t[2] = s[2] /\ t[3] = s[3] /\ t[4] = s[4] /\ t[5] = s[5] /\ t[6] = s[6]
        /\ t[7] = s[7]
    <3>1. PICK u \in Seq(S) : u = SubSeq(s, 1, 7) /\ Len(u) = 7 /\ \A i \in 1 .. 7 : u[i] = s[i]
      <4>1. \A i \in 1 .. 7 : s[i] \in S BY <1>0, <2>1
      <4>2. /\ SubSeq(s, 1, 7) \in Seq(S) /\ Len(SubSeq(s, 1, 7)) = 7
            /\ \A i \in 1 .. 7 - 1 + 1 : SubSeq(s, 1, 7)[i] = s[1 + i - 1]
        BY <4>1, SubSeqProperties
      <4>3. 7 - 1 + 1 = 7 /\ \A i \in 1 .. 7 : 1 + i - 1 = i OBVIOUS
      <4>4. \A i \in 1 .. 7 : SubSeq(s, 1, 7)[i] = s[i] BY <4>2, <4>3
      <4> QED BY <4>2, <4>4, Zenon
    <3>2. PICK v \in Seq(S) : v = SubSeq(s, n - 1, n) /\ Len(v) = 2 /\ v[1] = s[n - 1] /\ v[2] = s[n]
      <4>1. \A i \in n - 1 .. n : s[i] \in S BY <1>0, <2>1
      <4>2. /\ SubSeq(s, n - 1, n) \in Seq(S)
            /\ Len(SubSeq(s, n - 1, n)) = IF n - 1 <= n THEN n - (n - 1) + 1 ELSE 0
            /\ \A i \in 1 .. n - (n - 1) + 1 : SubSeq(s, n - 1, n)[i] = s[n - 1 + i - 1]
        BY <4>1, SubSeqProperties
      <4>3. /\ (IF n - 1 <= n THEN n - (n - 1) + 1 ELSE 0) = 2 /\ n - (n - 1) + 1 = 2
            /\ n - 1 + 1 - 1 = n - 1 /\ n - 1 + 2 - 1 = n /\ 1 \in 1 .. 2 /\ 2 \in 1 .. 2
        OBVIOUS
      <4>4. SubSeq(s, n - 1, n)[1] = s[n - 1] /\ SubSeq(s, n - 1, n)[2] = s[n]
        BY <4>2, <4>3, Zenon
      <4> QED BY <4>2, <4>3, <4>4, Zenon
    <3>3. t = u \o v BY <1>1, <1>2, <2>2, <3>1, <3>2 DEF without_tail
    <3>4. Len(u \o v) = 9 /\ (u \o v)[8] = v[1] /\ (u \o v)[9] = v[2]
          /\ \A i \in 1 .. 7 : (u \o v)[i] = u[i]
      BY <3>1, <3>2
    <3> QED BY <3>1, <3>2, <3>3, <3>4
  <2>4. n >= 9 /\ n # 9 BY <2>1
  <2>5. taken(s) <=> spells(t)
    BY <1>1, <2>1, <2>3, <2>4 DEF taken, TakenUpTo, spells
  <2>6. taken_as(s) = spelled(t) BY <1>1, <2>3, Zenon DEF taken_as, spelled
  <2>7. ~spells(s) BY <1>1, <2>1 DEF spells
  <2> QED BY <2>2, <2>5, <2>6, <2>7
<1>3. CASE ~has_tail(s)
  <2>1. without_tail(s) = s BY <1>3 DEF without_tail
  <2>2. n > 9 => s[8] # "." BY <1>1, <1>3 DEF has_tail
  <2>3. taken(s) => n = 9 BY <1>1, <2>2 DEF taken, TakenUpTo
  <2>4. n = 9 => n - 1 = 8 /\ n >= 9 OBVIOUS
  <2>5. taken(s) <=> spells(s) BY <1>1, <2>3, <2>4, Zenon DEF taken, TakenUpTo, spells
  <2>6. taken(s) => taken_as(s) = spelled(s) BY <1>1, <2>3, Zenon DEF taken_as, spelled
  <2> QED BY <2>1, <2>5, <2>6
<1> QED BY <1>2, <1>3

(* parse_endpoint takes the texts that spell an end point, and reads the   *)
(* one they spell; it takes a text with a fourth dot as the one without    *)
(* that dot and what stands between it and the last colon; nothing else.   *)
THEOREM ParsesWhatIsSpelled ==
  ASSUME NEW S, NEW s \in Seq(S)
  PROVE  /\ parses_endpoint(s) <=> spells(without_tail(s))
         /\ spells(without_tail(s)) => parse_endpoint(s) = spelled(without_tail(s))
         /\ spells(s) => without_tail(s) = s
<1>1. /\ taken(s) <=> spells(without_tail(s))
      /\ taken(s) => taken_as(s) = spelled(without_tail(s))
      /\ spells(s) => without_tail(s) = s
  BY WithoutTail
<1>2. (parses_endpoint(s) <=> taken(s)) /\ (taken(s) => parse_endpoint(s) = taken_as(s))
  BY ParsesWhatIsTaken
<1> QED BY <1>1, <1>2, Zenon
-----------------------------------------------------------------------------

States(P) ==
  [rows: Seq(Seq(Seq(P))), row: Seq(Seq(P)), field: Seq(P), quoted: {"no", "in", "mark"}]

LEMMA ReadPieceType ==
  ASSUME NEW P, NEW r \in States(P), NEW p \in P
  PROVE  read_piece(r, p) \in States(P)
<1>1. /\ r.rows \in Seq(Seq(Seq(P))) /\ r.row \in Seq(Seq(P)) /\ r.field \in Seq(P)
      /\ <<>> \in Seq(P) /\ <<>> \in Seq(Seq(P))
      /\ r = [rows |-> r.rows, row |-> r.row, field |-> r.field, quoted |-> r.quoted]
  BY DEF States
<1>2. Append(r.field, p) \in Seq(P) /\ Append(r.row, r.field) \in Seq(Seq(P)) BY <1>1
<1>3. Append(r.rows, Append(r.row, r.field)) \in Seq(Seq(Seq(P))) BY <1>1, <1>2
<1>4. grown(r, p) \in States(P) /\ \A q \in {"no", "in", "mark"} : [grown(r, p) EXCEPT !.quoted = q] \in States(P)
  BY <1>2 DEF grown, States
<1>5. next_field(r) \in States(P) BY <1>1, <1>2 DEF next_field, States
<1>6. next_row(r) \in States(P) BY <1>1, <1>3 DEF next_row, States
<1>7. \A q \in {"no", "in", "mark"} : [r EXCEPT !.quoted = q] \in States(P) BY DEF States
<1> QED BY <1>4, <1>5, <1>6, <1>7, Zenon DEF read_piece

(* The first n elements of a sequence.                                     *)
LEMMA Parts ==
  ASSUME NEW P, NEW f \in Seq(P)
  PROVE  /\ \A n \in 0 .. Len(f) : SubSeq(f, 1, n) \in Seq(P) /\ Len(SubSeq(f, 1, n)) = n
         /\ \A n \in 0 .. Len(f) - 1 : SubSeq(f, 1, n + 1) = Append(SubSeq(f, 1, n), f[n + 1])
         /\ SubSeq(f, 1, 0) = <<>> /\ SubSeq(f, 1, Len(f)) = f
<1>1. PICK m \in Nat : m = Len(f) OBVIOUS
<1>2. \A i \in 1 .. m : f[i] \in P BY <1>1
<1>3. ASSUME NEW n \in 0 .. m
      PROVE  /\ SubSeq(f, 1, n) \in Seq(P) /\ Len(SubSeq(f, 1, n)) = n
             /\ \A i \in 1 .. n : SubSeq(f, 1, n)[i] = f[i]
  <2>1. /\ SubSeq(f, 1, n) \in Seq(P) /\ Len(SubSeq(f, 1, n)) = IF 1 <= n THEN n - 1 + 1 ELSE 0
        /\ \A i \in 1 .. n - 1 + 1 : SubSeq(f, 1, n)[i] = f[1 + i - 1]
    <3>1. 1 \in Int /\ n \in Int /\ \A i \in 1 .. n : f[i] \in P BY <1>2
    <3> QED BY <3>1, SubSeqProperties
  <2>2. n - 1 + 1 = n /\ (~(1 <= n) => n = 0) /\ \A i \in 1 .. n : 1 + i - 1 = i OBVIOUS
  <2> QED BY <2>1, <2>2
<1>4. ASSUME NEW n \in 0 .. m - 1 PROVE SubSeq(f, 1, n + 1) = Append(SubSeq(f, 1, n), f[n + 1])
  <2>1. n \in 0 .. m /\ n + 1 \in 0 .. m /\ n + 1 \in 1 .. m OBVIOUS
  <2>2. PICK a \in Seq(P) : a = SubSeq(f, 1, n) /\ Len(a) = n /\ \A i \in 1 .. n : a[i] = f[i] BY <1>3, <2>1
  <2>3. PICK b \in Seq(P) : b = SubSeq(f, 1, n + 1) /\ Len(b) = n + 1 /\ \A i \in 1 .. n + 1 : b[i] = f[i] BY <1>3, <2>1
  <2>4. /\ Append(a, f[n + 1]) \in Seq(P) /\ Len(Append(a, f[n + 1])) = n + 1
        /\ \A i \in 1 .. n : Append(a, f[n + 1])[i] = a[i]
        /\ Append(a, f[n + 1])[n + 1] = f[n + 1]
    BY <1>2, <2>1, <2>2, AppendProperties
  <2>5. \A i \in 1 .. n + 1 : i \in 1 .. n \/ i = n + 1 OBVIOUS
  <2>6. b = Append(a, f[n + 1]) BY <2>2, <2>3, <2>4, <2>5, SeqEqual
  <2> QED BY <2>2, <2>3, <2>6
<1>5. SubSeq(f, 1, 0) = <<>>
  <2>1. 0 \in 0 .. m OBVIOUS
  <2> QED BY <1>3, <2>1, EmptySeq
<1>6. SubSeq(f, 1, m) = f
  <2>1. m \in 0 .. m OBVIOUS
  <2> QED BY <1>1, <1>3, <2>1, SeqEqual
<1> QED BY <1>1, <1>3, <1>4, <1>5, <1>6

(* Reading the text t takes the reader from the state r to the state z.    *)
Leads(P, r, t, z) ==
  \E q \in [0 .. Len(t) -> States(P)] :
    /\ q[0] = r /\ q[Len(t)] = z
    /\ \A n \in 0 .. Len(t) - 1 : q[n + 1] = read_piece(q[n], t[n + 1])

LEMMA ReadOne ==
  ASSUME NEW P, NEW r \in States(P), NEW p \in P
  PROVE  Leads(P, r, <<p>>, read_piece(r, p))
<1>1. Len(<<p>>) = 1 /\ <<p>>[1] = p OBVIOUS
<1> DEFINE q == [n \in 0 .. 1 |-> IF n = 0 THEN r ELSE read_piece(r, p)]
<1>2. q \in [0 .. 1 -> States(P)] BY ReadPieceType
<1>3. q[0] = r /\ q[1] = read_piece(r, p) OBVIOUS
<1>4. \A n \in 0 .. 1 - 1 : n = 0 /\ n + 1 = 1 OBVIOUS
<1> HIDE DEF q
<1> QED BY <1>1, <1>2, <1>3, <1>4 DEF Leads

LEMMA ReadOn ==
  ASSUME NEW P, NEW a \in Seq(P), NEW b \in Seq(P), NEW r, NEW y, NEW z,
         Leads(P, r, a, y), Leads(P, y, b, z)
  PROVE  Leads(P, r, a \o b, z)
<1>1. PICK k \in Nat, m \in Nat : k = Len(a) /\ m = Len(b) OBVIOUS
<1>2. PICK f \in [0 .. k -> States(P)] :
        f[0] = r /\ f[k] = y /\ \A n \in 0 .. k - 1 : f[n + 1] = read_piece(f[n], a[n + 1])
  BY <1>1 DEF Leads
<1>3. PICK g \in [0 .. m -> States(P)] :
        g[0] = y /\ g[m] = z /\ \A n \in 0 .. m - 1 : g[n + 1] = read_piece(g[n], b[n + 1])
  BY <1>1 DEF Leads
<1> DEFINE t == a \o b
           q == [n \in 0 .. k + m |-> IF n <= k THEN f[n] ELSE g[n - k]]
<1>4. /\ Len(t) = k + m /\ \A n \in 1 .. k : t[n] = a[n]
      /\ \A n \in 1 .. m : t[k + n] = b[n]
  <2>1. Len(t) = k + m /\ \A n \in 1 .. k + m : t[n] = IF n <= k THEN a[n] ELSE b[n - k]
    BY <1>1, ConcatProperties
  <2>2. \A n \in 1 .. m : k + n \in 1 .. k + m /\ ~(k + n <= k) /\ k + n - k = n OBVIOUS
  <2>3. \A n \in 1 .. k : n \in 1 .. k + m /\ n <= k OBVIOUS
  <2> HIDE DEF t
  <2> QED BY <2>1, <2>2, <2>3
<1>5. q \in [0 .. k + m -> States(P)]
  <2>1. \A n \in 0 .. k + m : (n <= k => n \in 0 .. k) /\ (~(n <= k) => n - k \in 0 .. m) OBVIOUS
  <2>2. \A n \in 0 .. k + m : (IF n <= k THEN f[n] ELSE g[n - k]) \in States(P) BY <2>1
  <2> QED BY <2>2
<1>6. /\ \A n \in 0 .. k : q[n] = f[n]
      /\ \A n \in 0 .. m : q[k + n] = g[n]
  <2>1. \A n \in 0 .. k : n \in 0 .. k + m /\ n <= k OBVIOUS
  <2>2. \A n \in 1 .. m : k + n \in 0 .. k + m /\ ~(k + n <= k) /\ k + n - k = n OBVIOUS
  <2>3. k + 0 = k /\ k \in 0 .. k /\ \A n \in 0 .. m : n = 0 \/ n \in 1 .. m OBVIOUS
  <2>4. \A n \in 0 .. k : q[n] = f[n] BY <2>1
  <2>5. \A n \in 1 .. m : q[k + n] = g[n] BY <2>2
  <2> HIDE DEF q
  <2> QED BY <1>2, <1>3, <2>3, <2>4, <2>5
<1> HIDE DEF t, q
<1>7. q[0] = r /\ q[k + m] = z
  <2>1. 0 \in 0 .. k /\ m \in 0 .. m OBVIOUS
  <2> QED BY <1>2, <1>3, <1>6, <2>1
<1>8. ASSUME NEW n \in 0 .. k + m - 1 PROVE q[n + 1] = read_piece(q[n], t[n + 1])
  <2>1. CASE n \in 0 .. k - 1
    <3>1. n \in 0 .. k /\ n + 1 \in 0 .. k /\ n + 1 \in 1 .. k BY <2>1
    <3> QED BY <1>2, <1>4, <1>6, <2>1, <3>1
  <2>2. CASE n \notin 0 .. k - 1
    <3>1. PICK h \in 0 .. m - 1 : n = k + h
      <4>1. n - k \in 0 .. m - 1 /\ n = k + (n - k) BY <2>2
      <4> QED BY <4>1
    <3>2. h \in 0 .. m /\ h + 1 \in 0 .. m /\ h + 1 \in 1 .. m /\ n + 1 = k + (h + 1) BY <3>1
    <3>3. q[n + 1] = g[h + 1] /\ q[n] = g[h] /\ t[n + 1] = b[h + 1] BY <1>4, <1>6, <3>1, <3>2
    <3> QED BY <1>3, <3>1, <3>3
  <2> QED BY <2>1, <2>2
<1>9. /\ q \in [0 .. Len(t) -> States(P)] /\ q[0] = r /\ q[Len(t)] = z
      /\ \A n \in 0 .. Len(t) - 1 : q[n + 1] = read_piece(q[n], t[n + 1])
  <2>1. Len(t) = k + m BY <1>4
  <2>2. q \in [0 .. Len(t) -> States(P)] BY <1>5, <2>1, Zenon
  <2>3. q[0] = r /\ q[Len(t)] = z BY <1>7, <2>1, Zenon
  <2>4. ASSUME NEW n \in 0 .. Len(t) - 1 PROVE q[n + 1] = read_piece(q[n], t[n + 1])
    <3>1. n \in 0 .. k + m - 1 BY <2>1
    <3> QED BY <1>8, <3>1, Zenon
  <2> QED BY <2>2, <2>3, <2>4, Zenon
<1>10. Leads(P, r, t, z) BY <1>9, Zenon DEF Leads
<1> QED BY <1>10 DEF t

LEMMA ReadNothing ==
  ASSUME NEW P, NEW r \in States(P)
  PROVE  Leads(P, r, <<>>, r)
<1> DEFINE q == [n \in 0 .. 0 |-> r]
<1>1. q \in [0 .. 0 -> States(P)] /\ q[0] = r /\ Len(<<>>) = 0 OBVIOUS
<1>2. ~\E n : n \in 0 .. 0 - 1 OBVIOUS
<1> HIDE DEF q
<1> QED BY <1>1, <1>2 DEF Leads

(* The rows of a text are those of the state its reading leads to.         *)
LEMMA RowsRead ==
  ASSUME NEW P, NEW t \in Seq(P), NEW z, Leads(P, Reader, t, z)
  PROVE  read_rows(t) = z.rows
<1>1. PICK m \in Nat : m = Len(t) OBVIOUS
<1>2. PICK q \in [0 .. m -> States(P)] :
        q[0] = Reader /\ q[m] = z /\ \A n \in 0 .. m - 1 : q[n + 1] = read_piece(q[n], t[n + 1])
  BY <1>1 DEF Leads
<1> DEFINE read == CHOOSE read : read = [n \in 0 .. m |-> IF n = 0 THEN Reader ELSE read_piece(read[n - 1], t[n])]
<1>3. read_rows(t) = read[m].rows BY <1>1, Zenon DEF read_rows
<1>4. q = [n \in 0 .. m |-> IF n = 0 THEN Reader ELSE read_piece(q[n - 1], t[n])]
  <2>1. \A n \in 0 .. m : n # 0 => n - 1 \in 0 .. m - 1 /\ n - 1 + 1 = n OBVIOUS
  <2>2. \A n \in 0 .. m : n # 0 => q[n] = read_piece(q[n - 1], t[n]) BY <1>2, <2>1
  <2> QED BY <1>2, <2>2
<1>5. read = [n \in 0 .. m |-> IF n = 0 THEN Reader ELSE read_piece(read[n - 1], t[n])] BY <1>4, Zenon
<1> HIDE DEF read
<1> DEFINE G == {n \in 0 .. m : read[n] = q[n]}
<1>6. 0 \in G
  <2>1. 0 \in 0 .. m OBVIOUS
  <2> QED BY <1>2, <1>5, <2>1
<1>7. ASSUME NEW n \in 0 .. m - 1, n \in G PROVE n + 1 \in G
  <2>1. n + 1 \in 0 .. m /\ n + 1 # 0 /\ n + 1 - 1 = n OBVIOUS
  <2>2. read[n + 1] = read_piece(read[n], t[n + 1]) BY <1>5, <2>1
  <2>3. q[n + 1] = read_piece(q[n], t[n + 1]) BY <1>2
  <2>4. read[n] = q[n] BY <1>7
  <2> QED BY <2>1, <2>2, <2>3, <2>4
<1>8. 0 .. m \subseteq G
  <2> HIDE DEF G
  <2> QED BY <1>6, <1>7, UpFromZero
<1>9. read[m] = q[m] BY <1>8
<1> QED BY <1>2, <1>3, <1>9

(* FlattenSeq joins one element after the other.                           *)
LEMMA Flattened ==
  ASSUME NEW P, NEW s \in Seq(Seq(P)), s # <<>>
  PROVE  \E q \in [1 .. Len(s) -> Seq(P)] :
           /\ q[1] = s[1] /\ FlattenSeq(s) = q[Len(s)]
           /\ \A i \in 2 .. Len(s) : q[i] = q[i - 1] \o s[i]
<1>1. PICK m \in Nat : m = Len(s) - 1 /\ Len(s) = m + 1 /\ Len(s) # 0
  <2>1. Len(s) \in Nat /\ Len(s) # 0 BY EmptySeq
  <2>2. Len(s) - 1 \in Nat /\ Len(s) = Len(s) - 1 + 1 BY <2>1
  <2> QED BY <2>1, <2>2
<1>e. \A i \in 1 .. m + 1 : s[i] \in Seq(P) BY <1>1, ElementOfSeq
<1> DEFINE next == [n \in 1 .. m |-> [w \in Seq(P) |-> w \o s[n + 1]]]
           flat == CHOOSE flatten : flatten = [i \in 1 .. m + 1 |-> IF i = 1 THEN s[i] ELSE flatten[i - 1] \o s[i]]
<1>2. FlattenSeq(s) = flat[m + 1] BY <1>1, Zenon DEF FlattenSeq
<1>3. PICK f : Computes(f, s[1], next, m, Seq(P))
  <2>1. \A n \in 1 .. m : n + 1 \in 1 .. m + 1 OBVIOUS
  <2>2. \A n \in 1 .. m : s[n + 1] \in Seq(P) BY <1>e, <2>1
  <2>3. \A w \in Seq(P), v \in Seq(P) : w \o v \in Seq(P) BY ConcatProperties
  <2>4. IsStep(next, m, Seq(P)) BY <2>2, <2>3 DEF IsStep
  <2>5. 1 \in 1 .. m + 1 OBVIOUS
  <2>6. s[1] \in Seq(P) BY <1>e, <2>5
  <2> HIDE DEF next
  <2> QED BY <2>4, <2>6, Recursion
<1>4. f \in [0 .. m -> Seq(P)] /\ f[0] = s[1] BY <1>3, Zenon DEF Computes
<1>5. \A n \in 1 .. m : f[n] = f[n - 1] \o s[n + 1]
  <2> TAKE n \in 1 .. m
  <2>1. f[n] = next[n][f[n - 1]]
    <3> HIDE DEF next
    <3> QED BY <1>3 DEF Computes
  <2>2. n - 1 \in 0 .. m OBVIOUS
  <2>3. f[n - 1] \in Seq(P) BY <1>4, <2>2
  <2> QED BY <2>1, <2>3
<1> DEFINE q == [i \in 1 .. m + 1 |-> f[i - 1]]
<1>6. q \in [1 .. m + 1 -> Seq(P)]
  <2>1. \A i \in 1 .. m + 1 : i - 1 \in 0 .. m OBVIOUS
  <2> QED BY <1>4, <2>1
<1>7. q[1] = s[1] /\ \A i \in 2 .. m + 1 : q[i] = q[i - 1] \o s[i]
  <2>1. 1 \in 1 .. m + 1 /\ 1 - 1 = 0 OBVIOUS
  <2>2. \A i \in 2 .. m + 1 : i \in 1 .. m + 1 /\ i - 1 \in 1 .. m + 1 /\ i - 1 \in 1 .. m /\ i - 1 + 1 = i OBVIOUS
  <2> QED BY <1>4, <1>5, <2>1, <2>2
<1> HIDE DEF q
<1>8. q = [i \in 1 .. m + 1 |-> IF i = 1 THEN s[i] ELSE q[i - 1] \o s[i]]
  <2>1. \A i \in 1 .. m + 1 : i = 1 \/ i \in 2 .. m + 1 OBVIOUS
  <2>2. \A i \in 1 .. m + 1 : q[i] = IF i = 1 THEN s[i] ELSE q[i - 1] \o s[i] BY <1>7, <2>1
  <2> QED BY <1>6, <2>2
<1>9. flat = [i \in 1 .. m + 1 |-> IF i = 1 THEN s[i] ELSE flat[i - 1] \o s[i]] BY <1>8, Zenon
<1> HIDE DEF flat
<1> DEFINE G == {n \in 0 .. m : flat[n + 1] = q[n + 1]}
<1>10. 0 \in G
  <2>1. 0 \in 0 .. m /\ 0 + 1 = 1 /\ 1 \in 1 .. m + 1 OBVIOUS
  <2> QED BY <1>7, <1>9, <2>1
<1>11. ASSUME NEW n \in 0 .. m - 1, n \in G PROVE n + 1 \in G
  <2>1. n + 1 \in 0 .. m /\ n + 1 + 1 \in 2 .. m + 1 /\ n + 1 + 1 \in 1 .. m + 1 /\ n + 1 + 1 # 1 /\ n + 1 + 1 - 1 = n + 1 OBVIOUS
  <2>i. PICK i \in 2 .. m + 1 : i = n + 1 + 1 BY <2>1
  <2>j. i \in 1 .. m + 1 /\ i # 1 /\ i - 1 = n + 1 BY <2>i
  <2>2. flat[i] = flat[i - 1] \o s[i] BY <1>9, <2>j
  <2>3. q[i] = q[i - 1] \o s[i] BY <1>7
  <2>4. flat[n + 1] = q[n + 1] BY <1>11
  <2>5. flat[i] = q[i] BY <2>j, <2>2, <2>3, <2>4
  <2> QED BY <2>1, <2>i, <2>5
<1>12. 0 .. m \subseteq G
  <2> HIDE DEF G
  <2> QED BY <1>10, <1>11, UpFromZero
<1>13. flat[m + 1] = q[m + 1]
  <2>1. m \in 0 .. m OBVIOUS
  <2> QED BY <1>12, <2>1
<1> QED BY <1>1, <1>2, <1>6, <1>7, <1>13

-----------------------------------------------------------------------------
(* The reader has read rows, a part of a row, and is in a field.           *)
Within(rows, row, f, quoted) == [rows |-> rows, row |-> row, field |-> f, quoted |-> quoted]

LEMMA WithinType ==
  ASSUME NEW P, NEW rows \in Seq(Seq(Seq(P))), NEW row \in Seq(Seq(P)), NEW f \in Seq(P),
         NEW quoted \in {"no", "in", "mark"}
  PROVE  Within(rows, row, f, quoted) \in States(P)
BY DEF Within, States

LEMMA GrownWithin ==
  ASSUME NEW rows, NEW row, NEW f, NEW quoted, NEW p
  PROVE  grown(Within(rows, row, f, quoted), p) = Within(rows, row, Append(f, p), quoted)
BY DEF grown, Within

LEMMA Requoted ==
  ASSUME NEW rows, NEW row, NEW f, NEW quoted, NEW q
  PROVE  [Within(rows, row, f, quoted) EXCEPT !.quoted = q] = Within(rows, row, f, q)
BY DEF Within

LEMMA NextWithin ==
  ASSUME NEW rows, NEW row, NEW f, NEW quoted
  PROVE  /\ next_field(Within(rows, row, f, quoted)) = Within(rows, Append(row, f), <<>>, "no")
         /\ next_row(Within(rows, row, f, quoted))
              = Within(Append(rows, Append(row, f)), <<>>, <<>>, "no")
BY DEF next_field, next_row, Within

(* A field without a special piece stands as it is.                        *)
LEMMA PlainFieldRead ==
  ASSUME NEW P, NEW rows \in Seq(Seq(Seq(P))), NEW row \in Seq(Seq(P)), NEW f \in Seq(P),
         ~needs_quotes(f)
  PROVE  Leads(P, Within(rows, row, <<>>, "no"), f, Within(rows, row, f, "no"))
<1>1. PICK m \in Nat : m = Len(f) OBVIOUS
<1>2. \A i \in 1 .. m : f[i] \in P /\ f[i] \notin Special
  <2>1. \A i \in 1 .. m : i \in DOMAIN f /\ f[i] \in P BY <1>1
  <2> QED BY <2>1 DEF needs_quotes
<1> DEFINE part(n) == SubSeq(f, 1, n)
           q == [n \in 0 .. m |-> Within(rows, row, part(n), "no")]
<1>3. /\ \A n \in 0 .. m : part(n) \in Seq(P)
      /\ \A n \in 0 .. m - 1 : part(n + 1) = Append(part(n), f[n + 1])
      /\ part(0) = <<>> /\ part(m) = f
  BY <1>1, Parts
<1> HIDE DEF part
<1>4. q \in [0 .. m -> States(P)] BY <1>3, WithinType
<1>5. ASSUME NEW n \in 0 .. m - 1 PROVE q[n + 1] = read_piece(q[n], f[n + 1])
  <2>1. n \in 0 .. m /\ n + 1 \in 0 .. m /\ n + 1 \in 1 .. m OBVIOUS
  <2> DEFINE p == f[n + 1]
             r == Within(rows, row, part(n), "no")
  <2>2. p # "," /\ p # Quote /\ p # Newline /\ p # "\r" BY <1>2, <2>1 DEF Special
  <2>3. read_piece(r, p) = grown(r, p)
    <3>1. r.quoted = "no" BY DEF Within
    <3> HIDE DEF r, p
    <3> QED BY <2>2, <3>1 DEF read_piece
  <2>4. grown(r, p) = Within(rows, row, Append(part(n), p), "no") BY GrownWithin
  <2>5. q[n] = r /\ q[n + 1] = Within(rows, row, part(n + 1), "no") BY <2>1
  <2> QED BY <1>3, <2>3, <2>4, <2>5
<1>6. 0 \in 0 .. m /\ m \in 0 .. m OBVIOUS
<1>7. q[0] = Within(rows, row, <<>>, "no") /\ q[m] = Within(rows, row, f, "no") BY <1>3, <1>6
<1> HIDE DEF q
<1> QED BY <1>1, <1>4, <1>5, <1>7 DEF Leads

(* A field that is quoted: each quotation mark in it comes twice.          *)
twice(p) == IF p = Quote THEN <<Quote, Quote>> ELSE <<p>>

LEMMA TwiceRead ==
  ASSUME NEW P, Quote \in P, NEW rows \in Seq(Seq(Seq(P))), NEW row \in Seq(Seq(P)), NEW f \in Seq(P),
         NEW p \in P
  PROVE  /\ twice(p) \in Seq(P)
         /\ Leads(P, Within(rows, row, f, "in"), twice(p), Within(rows, row, Append(f, p), "in"))
<1> DEFINE r == Within(rows, row, f, "in")
           y == Within(rows, row, f, "mark")
           z == Within(rows, row, Append(f, p), "in")
<1>1. r \in States(P) /\ y \in States(P) BY WithinType
<1>2. CASE p = Quote
  <2>1. read_piece(r, Quote) = y
    <3>1. r.quoted = "in" /\ [r EXCEPT !.quoted = "mark"] = y BY DEF Within
    <3> HIDE DEF r, y
    <3> QED BY <3>1 DEF read_piece
  <2>2. read_piece(y, Quote) = z
    <3>1. y.quoted = "mark" /\ y.quoted # "in" BY DEF Within
    <3>2. [grown(y, Quote) EXCEPT !.quoted = "in"] = z
      <4>1. grown(y, Quote) = Within(rows, row, Append(f, Quote), "mark") BY GrownWithin
      <4>2. [Within(rows, row, Append(f, Quote), "mark") EXCEPT !.quoted = "in"] = z BY <1>2, Requoted
      <4> QED BY <4>1, <4>2, Zenon
    <3> HIDE DEF y, z
    <3>3. read_piece(y, Quote) = [grown(y, Quote) EXCEPT !.quoted = "in"]
      <4>1. Quote # "," /\ Quote # Newline /\ Quote # "\r" BY DEF Quote, Newline
      <4> QED BY <3>1, <4>1 DEF read_piece
    <3> QED BY <3>2, <3>3, Zenon
  <2> HIDE DEF r, y, z
  <2>3. Leads(P, r, <<Quote>>, y) BY <1>1, <2>1, ReadOne
  <2>4. Leads(P, y, <<Quote>>, z) BY <1>1, <2>2, ReadOne
  <2>5. <<Quote>> \in Seq(P) /\ <<Quote>> \o <<Quote>> = <<Quote, Quote>>
    <3>a. <<Quote>> \in Seq(P) OBVIOUS
    <3>b. <<Quote, Quote>> \in Seq(P) OBVIOUS
    <3>1. PICK a \in Seq(P) : a = <<Quote>> BY <3>a, Zenon
    <3>2. PICK b \in Seq(P) : b = <<Quote, Quote>> BY <3>b, Zenon
    <3>3. Len(a) = 1 /\ a[1] = Quote BY <3>1
    <3>4. Len(b) = 2 /\ b[1] = Quote /\ b[2] = Quote BY <3>2
    <3>5. a \o a \in Seq(P) /\ Len(a \o a) = 1 + 1
            /\ \A i \in 1 .. 1 + 1 : (a \o a)[i] = IF i <= 1 THEN a[i] ELSE a[i - 1]
      <4>1. /\ a \o a \in Seq(P) /\ Len(a \o a) = Len(a) + Len(a)
            /\ \A i \in 1 .. Len(a) + Len(a) : (a \o a)[i] = IF i <= Len(a) THEN a[i] ELSE a[i - Len(a)]
        BY ConcatProperties
      <4> QED BY <3>3, <4>1
    <3>6. Len(a \o a) = 2 /\ (a \o a)[1] = Quote /\ (a \o a)[2] = Quote BY <3>3, <3>5
    <3>7. \A i \in 1 .. 2 : i = 1 \/ i = 2 OBVIOUS
    <3>8. a \o a = b BY <3>4, <3>5, <3>6, <3>7, SeqEqual
    <3> QED BY <3>1, <3>2, <3>8
  <2>6. Leads(P, r, <<Quote>> \o <<Quote>>, z) BY <2>3, <2>4, <2>5, ReadOn
  <2>7. twice(p) = <<Quote, Quote>> BY <1>2 DEF twice
  <2>8. <<Quote, Quote>> \in Seq(P) OBVIOUS
  <2> QED BY <2>5, <2>6, <2>7, <2>8 DEF r, z
<1>3. CASE p # Quote
  <2>1. read_piece(r, p) = z
    <3>1. r.quoted = "in" /\ grown(r, p) = z
      <4>1. r.quoted = "in" BY DEF Within
      <4> QED BY <4>1, GrownWithin
    <3> HIDE DEF r, z
    <3> QED BY <1>3, <3>1 DEF read_piece
  <2> HIDE DEF r, y, z
  <2>2. Leads(P, r, <<p>>, z) BY <1>1, <2>1, ReadOne
  <2>3. twice(p) = <<p>> /\ <<p>> \in Seq(P) BY <1>3 DEF twice
  <2> QED BY <2>2, <2>3 DEF r, z
<1> QED BY <1>2, <1>3

LEMMA QuotedFieldRead ==
  ASSUME NEW P, Quote \in P, NEW rows \in Seq(Seq(Seq(P))), NEW row \in Seq(Seq(P)), NEW f \in Seq(P),
         f # <<>>
  PROVE  /\ <<Quote>> \o doubled(f) \o <<Quote>> \in Seq(P)
         /\ Leads(P, Within(rows, row, <<>>, "no"), <<Quote>> \o doubled(f) \o <<Quote>>,
                     Within(rows, row, f, "mark"))
<1>1. PICK m \in Nat : m + 1 = Len(f)
  <2>1. Len(f) \in Nat /\ Len(f) # 0 BY EmptySeq
  <2>2. Len(f) - 1 \in Nat /\ Len(f) - 1 + 1 = Len(f) BY <2>1
  <2> QED BY <2>2
<1>2. \A i \in 1 .. m + 1 : f[i] \in P BY <1>1
<1> DEFINE s == [i \in 1 .. m + 1 |-> twice(f[i])]
           part(n) == SubSeq(f, 1, n)
           at_start == Within(rows, row, <<>>, "in")
<1>3. s \in Seq(Seq(P)) /\ Len(s) = m + 1 /\ s # <<>>
  <2>1. \A i \in 1 .. m + 1 : twice(f[i]) \in Seq(P) BY <1>2, TwiceRead
  <2>2. m + 1 \in Nat /\ m + 1 # 0 OBVIOUS
  <2>3. s \in Seq(Seq(P)) /\ Len(s) = m + 1 BY <2>1, <2>2, IsASeq
  <2> HIDE DEF s
  <2> QED BY <2>2, <2>3, EmptySeq
<1>4. doubled(f) = FlattenSeq(s)
  <2>1. DOMAIN f = 1 .. m + 1 BY <1>1
  <2> QED BY <2>1, Zenon DEF doubled, twice
<1>5. /\ \A n \in 0 .. m + 1 : part(n) \in Seq(P)
      /\ \A n \in 0 .. m : part(n + 1) = Append(part(n), f[n + 1])
      /\ part(0) = <<>> /\ part(m + 1) = f
  <2>1. m + 1 - 1 = m OBVIOUS
  <2> QED BY <1>1, <2>1, Parts
<1>6. PICK q \in [1 .. m + 1 -> Seq(P)] :
        q[1] = s[1] /\ FlattenSeq(s) = q[m + 1] /\ \A i \in 2 .. m + 1 : q[i] = q[i - 1] \o s[i]
  <2> HIDE DEF s
  <2>1. \E q \in [1 .. Len(s) -> Seq(P)] :
          /\ q[1] = s[1] /\ FlattenSeq(s) = q[Len(s)]
          /\ \A i \in 2 .. Len(s) : q[i] = q[i - 1] \o s[i]
    BY <1>3, Flattened
  <2> QED BY <1>3, <2>1
<1>7. \A n \in 0 .. m : /\ s[n + 1] \in Seq(P)
                       /\ Leads(P, Within(rows, row, part(n), "in"), s[n + 1], Within(rows, row, part(n + 1), "in"))
  <2> TAKE n \in 0 .. m
  <2>1. n \in 0 .. m + 1 /\ n + 1 \in 1 .. m + 1 OBVIOUS
  <2>2. s[n + 1] = twice(f[n + 1]) /\ f[n + 1] \in P BY <1>2, <2>1
  <2>3. part(n) \in Seq(P) /\ part(n + 1) = Append(part(n), f[n + 1]) BY <1>5, <2>1
  <2> HIDE DEF s, part
  <2> QED BY <2>2, <2>3, TwiceRead
<1> HIDE DEF s, part
<1> DEFINE G == {n \in 0 .. m : Leads(P, at_start, q[n + 1], Within(rows, row, part(n + 1), "in"))}
<1>8. 0 \in G
  <2>1. 0 \in 0 .. m /\ 0 + 1 = 1 OBVIOUS
  <2> QED BY <1>5, <1>6, <1>7, <2>1
<1>9. ASSUME NEW n \in 0 .. m - 1, n \in G PROVE n + 1 \in G
  <2>1. PICK h \in 0 .. m : h = n + 1 OBVIOUS
  <2>2. h + 1 \in 2 .. m + 1 /\ h + 1 - 1 = h /\ h \in 1 .. m + 1 BY <2>1
  <2>3. q[h + 1] = q[h] \o s[h + 1] /\ q[h] \in Seq(P)
    <3>1. PICK i \in 2 .. m + 1 : i = h + 1 /\ i - 1 = h BY <2>2
    <3>2. q[i] = q[i - 1] \o s[i] BY <1>6
    <3> QED BY <1>6, <2>2, <3>1, <3>2
  <2>4. Leads(P, at_start, q[h], Within(rows, row, part(h), "in")) BY <1>9, <2>1
  <2>5. s[h + 1] \in Seq(P) /\ Leads(P, Within(rows, row, part(h), "in"), s[h + 1], Within(rows, row, part(h + 1), "in"))
    BY <1>7
  <2>6. Leads(P, at_start, q[h] \o s[h + 1], Within(rows, row, part(h + 1), "in"))
    <3> HIDE DEF at_start
    <3> QED BY <2>3, <2>4, <2>5, ReadOn
  <2> QED BY <2>1, <2>3, <2>6
<1>10. 0 .. m \subseteq G
  <2> HIDE DEF G
  <2> QED BY <1>8, <1>9, UpFromZero
<1>11. Leads(P, at_start, doubled(f), Within(rows, row, f, "in")) /\ doubled(f) \in Seq(P)
  <2>1. m \in 0 .. m /\ m + 1 \in 1 .. m + 1 OBVIOUS
  <2> QED BY <1>4, <1>5, <1>6, <1>10, <2>1
<1>12. Leads(P, Within(rows, row, <<>>, "no"), <<Quote>>, at_start)
  <2> DEFINE r == Within(rows, row, <<>>, "no")
  <2>1. r \in States(P)
    <3>1. <<>> \in Seq(P) OBVIOUS
    <3> QED BY <3>1, WithinType
  <2>2. read_piece(r, Quote) = at_start
    <3>1. r.quoted = "no" /\ [r EXCEPT !.quoted = "in"] = at_start
      <4>1. r.quoted = "no" BY DEF Within
      <4> QED BY <4>1, Requoted
    <3>2. Quote # "," /\ Quote # Newline /\ Quote # "\r" BY DEF Quote, Newline
    <3> HIDE DEF r, at_start
    <3> QED BY <3>1, <3>2 DEF read_piece
  <2> HIDE DEF r, at_start
  <2>3. Leads(P, r, <<Quote>>, at_start) BY <2>1, <2>2, ReadOne
  <2> QED BY <2>3 DEF r
<1>13. Leads(P, Within(rows, row, f, "in"), <<Quote>>, Within(rows, row, f, "mark"))
  <2> DEFINE r == Within(rows, row, f, "in")
             z == Within(rows, row, f, "mark")
  <2>1. r \in States(P) BY WithinType
  <2>2. read_piece(r, Quote) = z
    <3>1. r.quoted = "in" /\ [r EXCEPT !.quoted = "mark"] = z
      <4>1. r.quoted = "in" BY DEF Within
      <4> QED BY <4>1, Requoted
    <3> HIDE DEF r, z
    <3> QED BY <3>1 DEF read_piece
  <2> HIDE DEF r, z
  <2>3. Leads(P, r, <<Quote>>, z) BY <2>1, <2>2, ReadOne
  <2> QED BY <2>3 DEF r, z
<1>14. <<Quote>> \in Seq(P) /\ <<Quote>> \o doubled(f) \in Seq(P) BY <1>11, ConcatProperties
<1> HIDE DEF at_start
<1>15. Leads(P, Within(rows, row, <<>>, "no"), <<Quote>> \o doubled(f), Within(rows, row, f, "in"))
  BY <1>11, <1>12, <1>14, ReadOn
<1>16. <<Quote>> \o doubled(f) \o <<Quote>> \in Seq(P) BY <1>14, ConcatProperties
<1> QED BY <1>13, <1>14, <1>15, <1>16, ReadOn

(* The writer's own pieces.                                                *)
Punctuated(P) == Quote \in P /\ "," \in P /\ Newline \in P

LEMMA FieldRead ==
  ASSUME NEW P, Punctuated(P), NEW rows \in Seq(Seq(Seq(P))), NEW row \in Seq(Seq(P)),
         NEW f \in Seq(P)
  PROVE  /\ append_field_csv(f) \in Seq(P)
         /\ \E z \in {"no", "mark"} :
              Leads(P, Within(rows, row, <<>>, "no"), append_field_csv(f), Within(rows, row, f, z))
<1>1. CASE needs_quotes(f)
  <2>1. f # <<>>
    <3>1. PICK i \in 1 .. Len(f) : TRUE BY <1>1 DEF needs_quotes
    <3>2. Len(f) # 0 BY <3>1
    <3> QED BY <3>2
  <2>2. append_field_csv(f) = <<Quote>> \o doubled(f) \o <<Quote>> BY <1>1 DEF append_field_csv
  <2>3. /\ <<Quote>> \o doubled(f) \o <<Quote>> \in Seq(P)
        /\ Leads(P, Within(rows, row, <<>>, "no"), <<Quote>> \o doubled(f) \o <<Quote>>,
                    Within(rows, row, f, "mark"))
    BY <2>1, QuotedFieldRead DEF Punctuated
  <2> QED BY <2>2, <2>3, Zenon
<1>2. CASE ~needs_quotes(f)
  <2>1. append_field_csv(f) = f BY <1>2 DEF append_field_csv
  <2>2. Leads(P, Within(rows, row, <<>>, "no"), f, Within(rows, row, f, "no")) BY <1>2, PlainFieldRead
  <2> QED BY <2>1, <2>2, Zenon
<1> QED BY <1>1, <1>2

(* Between two rows.                                                       *)
AtRow(rows) == Within(rows, <<>>, <<>>, "no")

(* What append_row_csv writes is read as one more row, field for field,    *)
(* whatever the fields hold.                                               *)
THEOREM RowIsReadBack ==
  ASSUME NEW P, Punctuated(P), NEW rows \in Seq(Seq(Seq(P))),
         NEW columns \in Seq(Seq(P)), columns # <<>>
  PROVE  /\ append_row_csv(columns) \in Seq(P)
         /\ Leads(P, AtRow(rows), append_row_csv(columns), AtRow(Append(rows, columns)))
<1>1. PICK m \in Nat : m + 1 = Len(columns)
  <2>1. Len(columns) \in Nat /\ Len(columns) # 0 BY EmptySeq
  <2>2. Len(columns) - 1 \in Nat /\ Len(columns) - 1 + 1 = Len(columns) BY <2>1
  <2> QED BY <2>2
<1>2. \A i \in 1 .. m + 1 : columns[i] \in Seq(P) BY <1>1
<1> DEFINE s == [i \in 1 .. m + 1 |-> IF i = 1 THEN append_field_csv(columns[i])
                                     ELSE <<",">> \o append_field_csv(columns[i])]
           part(n) == SubSeq(columns, 1, n)
           reached(t, n) == \E z \in {"no", "mark"} :
                              Leads(P, AtRow(rows), t, Within(rows, part(n), columns[n + 1], z))
<1>c. <<",">> \in Seq(P)
  <2>1. \A p \in P : <<p>> \in Seq(P) OBVIOUS
  <2> QED BY <2>1, Zenon DEF Punctuated
<1>3. s \in Seq(Seq(P)) /\ Len(s) = m + 1 /\ s # <<>>
  <2>1. \A i \in 1 .. m + 1 : append_field_csv(columns[i]) \in Seq(P)
    <3>1. <<>> \in Seq(Seq(Seq(P))) /\ <<>> \in Seq(Seq(P)) OBVIOUS
    <3> QED BY <1>2, <3>1, FieldRead
  <2>2. \A i \in 1 .. m + 1 : <<",">> \o append_field_csv(columns[i]) \in Seq(P)
    BY <1>c, <2>1, ConcatProperties
  <2>3. \A i \in 1 .. m + 1 : s[i] \in Seq(P) BY <2>1, <2>2
  <2>4. m + 1 \in Nat /\ m + 1 # 0 OBVIOUS
  <2>5. s \in [1 .. m + 1 -> Seq(P)] BY <2>3
  <2> HIDE DEF s
  <2>6. s \in Seq(Seq(P)) /\ Len(s) = m + 1
    <3>1. \A n \in Nat : \A S, f : f \in [1 .. n -> S] => f \in Seq(S) /\ Len(f) = n OBVIOUS
    <3> QED BY <2>4, <2>5, <3>1
  <2> QED BY <2>4, <2>6, EmptySeq
<1>4. append_row_csv(columns) = FlattenSeq(s) \o <<Newline>>
  <2>1. DOMAIN columns = 1 .. m + 1 BY <1>1
  <2> QED BY <2>1, Zenon DEF append_row_csv
<1>5. /\ \A n \in 0 .. m + 1 : part(n) \in Seq(Seq(P))
      /\ \A n \in 0 .. m : part(n + 1) = Append(part(n), columns[n + 1])
      /\ part(0) = <<>> /\ part(m + 1) = columns
  <2>1. m + 1 - 1 = m OBVIOUS
  <2> QED BY <1>1, <2>1, Parts
<1>6. PICK q \in [1 .. m + 1 -> Seq(P)] :
        q[1] = s[1] /\ FlattenSeq(s) = q[m + 1] /\ \A i \in 2 .. m + 1 : q[i] = q[i - 1] \o s[i]
  <2> HIDE DEF s
  <2>1. \E q \in [1 .. Len(s) -> Seq(P)] :
          /\ q[1] = s[1] /\ FlattenSeq(s) = q[Len(s)]
          /\ \A i \in 2 .. Len(s) : q[i] = q[i - 1] \o s[i]
    BY <1>3, Flattened
  <2> QED BY <1>3, <2>1
<1> DEFINE G == {n \in 0 .. m : reached(q[n + 1], n)}
<1>8. 0 \in G
  <2>1. 0 \in 0 .. m /\ 0 + 1 = 1 /\ 1 \in 1 .. m + 1 OBVIOUS
  <2>2. s[1] = append_field_csv(columns[1]) /\ columns[1] \in Seq(P) BY <1>2, <2>1
  <2>3. <<>> \in Seq(Seq(P)) OBVIOUS
  <2> HIDE DEF s, part
  <2>4. \E z \in {"no", "mark"} :
          Leads(P, Within(rows, <<>>, <<>>, "no"), append_field_csv(columns[1]), Within(rows, <<>>, columns[1], z))
    BY <2>2, <2>3, FieldRead
  <2>5. reached(q[1], 0) BY <1>5, <1>6, <2>1, <2>2, <2>4 DEF AtRow
  <2> HIDE DEF reached
  <2> QED BY <2>1, <2>5
<1>9. ASSUME NEW n \in 0 .. m - 1, n \in G PROVE n + 1 \in G
  <2>1. PICK h \in 1 .. m : h = n + 1 OBVIOUS
  <2>2. PICK i \in 2 .. m + 1 : i = h + 1 OBVIOUS
  <2>3. i - 1 = h /\ i # 1 /\ i \in 1 .. m + 1 /\ h \in 1 .. m + 1 /\ h \in 0 .. m /\ h \in 0 .. m + 1 /\ n \in 0 .. m /\ n \in 0 .. m + 1
    BY <2>1, <2>2
  <2> DEFINE a == append_field_csv(columns[i])
  <2>4. q[i] = q[h] \o s[i] /\ q[h] \in Seq(P) BY <1>6, <2>3
  <2>5. s[i] = <<",">> \o a BY <2>3
  <2>6. PICK z \in {"no", "mark"} : Leads(P, AtRow(rows), q[h], Within(rows, part(n), columns[h], z))
    BY <1>9, <2>1
  <2>7. part(h) = Append(part(n), columns[h]) /\ part(n) \in Seq(Seq(P)) /\ part(h) \in Seq(Seq(P)) BY <1>5, <2>1, <2>3
  <2>8. columns[h] \in Seq(P) /\ columns[i] \in Seq(P) BY <1>2, <2>3
  <2> HIDE DEF s, part, reached
  <2>9. Leads(P, Within(rows, part(n), columns[h], z), <<",">>, Within(rows, part(h), <<>>, "no"))
    <3> DEFINE r == Within(rows, part(n), columns[h], z)
    <3>1. r \in States(P) /\ "," \in P BY <2>7, <2>8, WithinType DEF Punctuated
    <3>2. read_piece(r, ",") = Within(rows, part(h), <<>>, "no")
      <4>1. r.quoted = z /\ z # "in" BY DEF Within
      <4>2. next_field(r) = Within(rows, part(h), <<>>, "no") BY <2>7, NextWithin
      <4>3. Quote # "," /\ Newline # "," BY DEF Quote, Newline
      <4> HIDE DEF r
      <4>4. read_piece(r, ",") = next_field(r) BY <4>1, <4>3 DEF read_piece
      <4> QED BY <4>2, <4>4, Zenon
    <3> HIDE DEF r
    <3>3. Leads(P, r, <<",">>, read_piece(r, ",")) BY <3>1, ReadOne
    <3> QED BY <3>2, <3>3 DEF r
  <2>10. /\ a \in Seq(P)
         /\ \E y \in {"no", "mark"} : Leads(P, Within(rows, part(h), <<>>, "no"), a, Within(rows, part(h), columns[i], y))
    BY <2>7, <2>8, FieldRead
  <2> HIDE DEF a
  <2>11. PICK y \in {"no", "mark"} : Leads(P, Within(rows, part(h), <<>>, "no"), a, Within(rows, part(h), columns[i], y))
    BY <2>10
  <2>12. <<",">> \o a \in Seq(P) BY <1>c, <2>10, ConcatProperties
  <2>13. Leads(P, Within(rows, part(n), columns[h], z), <<",">> \o a, Within(rows, part(h), columns[i], y))
    BY <1>c, <2>9, <2>10, <2>11, ReadOn
  <2>14. Leads(P, AtRow(rows), q[h] \o (<<",">> \o a), Within(rows, part(h), columns[i], y))
    BY <2>4, <2>6, <2>12, <2>13, ReadOn
  <2>15. reached(q[h + 1], h) BY <2>2, <2>4, <2>5, <2>14 DEF reached
  <2> QED BY <2>1, <2>3, <2>15
<1>10. 0 .. m \subseteq G
  <2> HIDE DEF G
  <2> QED BY <1>8, <1>9, UpFromZero
<1>11. reached(q[m + 1], m)
  <2>1. m \in 0 .. m OBVIOUS
  <2> HIDE DEF reached
  <2> QED BY <1>10, <2>1
<1>12. PICK z \in {"no", "mark"} : Leads(P, AtRow(rows), q[m + 1], Within(rows, part(m), columns[m + 1], z))
  BY <1>11
<1>13. /\ part(m) \in Seq(Seq(P)) /\ columns[m + 1] \in Seq(P)
       /\ columns = Append(part(m), columns[m + 1]) /\ q[m + 1] \in Seq(P)
  <2>1. m \in 0 .. m /\ m \in 0 .. m + 1 /\ m + 1 \in 1 .. m + 1 OBVIOUS
  <2> HIDE DEF s, part
  <2> QED BY <1>2, <1>5, <1>6, <2>1
<1> HIDE DEF s, part, reached, G
<1>14. Leads(P, Within(rows, part(m), columns[m + 1], z), <<Newline>>, AtRow(Append(rows, columns)))
  <2> DEFINE r == Within(rows, part(m), columns[m + 1], z)
  <2>1. r \in States(P) /\ Newline \in P BY <1>13, WithinType DEF Punctuated
  <2>2. read_piece(r, Newline) = AtRow(Append(rows, columns))
    <3>1. r.quoted = z /\ z # "in" BY DEF Within
    <3>2. next_row(r) = AtRow(Append(rows, columns)) 
      <4>1. next_row(r) = Within(Append(rows, Append(part(m), columns[m + 1])), <<>>, <<>>, "no")
        BY NextWithin
      <4> QED BY <1>13, <4>1, Zenon DEF AtRow
    <3>3. Quote # Newline /\ Newline # "," BY DEF Quote, Newline
    <3> HIDE DEF r
    <3>4. read_piece(r, Newline) = next_row(r) BY <3>1, <3>3 DEF read_piece
    <3> QED BY <3>2, <3>4, Zenon
  <2> HIDE DEF r
  <2>3. Leads(P, r, <<Newline>>, read_piece(r, Newline)) BY <2>1, ReadOne
  <2> QED BY <2>2, <2>3 DEF r
<1>15. <<Newline>> \in Seq(P)
  <2>1. \A p \in P : <<p>> \in Seq(P) OBVIOUS
  <2> QED BY <2>1, Zenon DEF Punctuated
<1>16. q[m + 1] \o <<Newline>> \in Seq(P) BY <1>13, <1>15, ConcatProperties
<1>17. Leads(P, AtRow(rows), q[m + 1] \o <<Newline>>, AtRow(Append(rows, columns)))
  BY <1>12, <1>13, <1>14, <1>15, ReadOn
<1> QED BY <1>4, <1>6, <1>16, <1>17

-----------------------------------------------------------------------------
(* Datagrams.                                                              *)
LEMMA PowerValues == power[8] = 256 /\ power[16] \in Nat /\ power[16] > 1000
<1>1. /\ power[0] = 1 /\ power[1] = 2 * power[0] /\ power[2] = 2 * power[1]
      /\ power[3] = 2 * power[2] /\ power[4] = 2 * power[3] /\ power[5] = 2 * power[4]
      /\ power[6] = 2 * power[5] /\ power[7] = 2 * power[6] /\ power[8] = 2 * power[7]
      /\ power[9] = 2 * power[8] /\ power[10] = 2 * power[9] /\ power[11] = 2 * power[10]
      /\ power[12] = 2 * power[11] /\ power[13] = 2 * power[12] /\ power[14] = 2 * power[13]
      /\ power[15] = 2 * power[14] /\ power[16] = 2 * power[15]
  <2>1. \A b \in 1 .. 30 : power[b] = 2 * power[b - 1] BY Powers
  <2> QED BY <2>1, Powers
<1> QED BY <1>1

LEMMA SmallBits ==
  /\ \A n \in Nat : bits(n) \in SUBSET (0 .. 30)
  /\ \A n \in Nat : n < power[8] => bits(n) \in Byte
  /\ \A n \in Nat : n < power[16] => bits(n) \in Word16
  /\ \A n \in Nat : n < power[16] => number(bits(n)) = n
  /\ \A n \in Nat : n < power[8] => number(bits(n)) = n
  /\ number({}) = 0
<1>1. \A n \in Nat : bits(n) \in SUBSET (0 .. 30) BY DEF bits
<1>2. \A n \in Nat : n < power[8] => bits(n) \in Byte
  <2>1. 8 \in 0 .. 30 /\ 8 - 1 = 7 OBVIOUS
  <2> QED BY <2>1, BitsBelow DEF Byte
<1>3. \A n \in Nat : n < power[16] => bits(n) \in Word16
  <2>1. 16 \in 0 .. 30 /\ 16 - 1 = 15 OBVIOUS
  <2> QED BY <2>1, BitsBelow DEF Word16
<1>4. power[8] < power[30] /\ power[16] < power[30] /\ power[30] \in Nat /\ power[8] \in Nat /\ power[16] \in Nat
  <2>1. /\ power[17] = 2 * power[16] /\ power[18] = 2 * power[17] /\ power[19] = 2 * power[18]
        /\ power[20] = 2 * power[19] /\ power[21] = 2 * power[20] /\ power[22] = 2 * power[21]
        /\ power[23] = 2 * power[22] /\ power[24] = 2 * power[23] /\ power[25] = 2 * power[24]
        /\ power[26] = 2 * power[25] /\ power[27] = 2 * power[26] /\ power[28] = 2 * power[27]
        /\ power[29] = 2 * power[28] /\ power[30] = 2 * power[29]
    <3>1. \A b \in 1 .. 30 : power[b] = 2 * power[b - 1] BY Powers
    <3> QED BY <3>1
  <2> QED BY <2>1, PowerValues
<1>5. \A n \in Nat : n < power[30] => number(bits(n)) = n
  <2>1. \A n \in Nat : n < power[30] => n - power[30] < power[30] BY <1>4
  <2> QED BY <2>1, NumberOfBits
<1>6. number({}) = 0
  <2>1. bits(0) = {}
    <3>1. 0 \in 0 .. 30 /\ 0 < power[0] BY Powers
    <3>2. bits(0) \in SUBSET (0 .. 0 - 1) BY <3>1, BitsBelow
    <3> QED BY <3>2
  <2>2. number(bits(0)) = 0
    <3>1. 0 < power[30] BY <1>4, PowerValues
    <3> QED BY <1>5, <3>1
  <2> QED BY <2>1, <2>2
<1> QED BY <1>1, <1>2, <1>3, <1>4, <1>5, <1>6

LEMMA PayloadType ==
  ASSUME NEW len \in Nat, NEW block \in Nat, NEW idx \in Nat
  PROVE  make_payload(len, block, idx) \in Seq(Byte) /\ Len(make_payload(len, block, idx)) = len
<1>1. PICK m \in Nat \ {0} : m = Len(Msg) BY MsgAssumption, EmptySeq
<1>2. \A i \in 1 .. len : bits(Msg[1 + ((i - 1) % Len(Msg))]) \in Byte
  <2> TAKE i \in 1 .. len
  <2>1. 1 + ((i - 1) % m) \in 1 .. m
    <3>1. i - 1 \in Nat OBVIOUS
    <3>2. PICK q \in Nat, r \in 0 .. m - 1 : (i - 1) % m = r BY <3>1, Divided
    <3> QED BY <3>2
  <2>2. \A j \in 1 .. m : Msg[j] \in 0 .. 255 BY <1>1, MsgAssumption
  <2>4. Msg[1 + ((i - 1) % m)] \in 0 .. 255 BY <2>1, <2>2, Zenon
  <2>3. \A n \in 0 .. 255 : n \in Nat /\ n < power[8] BY PowerValues
  <2> QED BY <1>1, <2>3, <2>4, SmallBits
<1>3. \A i \in 1 .. len : bits((block * 31 + idx * 17 + i - 1) % 256) \in Byte
  <2> TAKE i \in 1 .. len
  <2>1. block * 31 + idx * 17 + i - 1 \in Nat OBVIOUS
  <2>2. (block * 31 + idx * 17 + i - 1) % 256 \in 0 .. 255 BY <2>1
  <2>3. \A n \in 0 .. 255 : n \in Nat /\ n < power[8] BY PowerValues
  <2> QED BY <2>2, <2>3, SmallBits
<1>4. \A x \in Byte, y \in Byte : xor(x, y) \in Byte BY DEF xor, Byte
<1>5. \A i \in 1 .. len : xor(bits(Msg[1 + ((i - 1) % Len(Msg))]), bits((block * 31 + idx * 17 + i - 1) % 256)) \in Byte
  BY <1>2, <1>3, <1>4, Zenon
<1>6. make_payload(len, block, idx) \in [1 .. len -> Byte] BY <1>5, Zenon DEF make_payload
<1>7. \A n \in Nat : \A S, f : f \in [1 .. n -> S] => f \in Seq(S) /\ Len(f) = n OBVIOUS
<1> QED BY <1>6, <1>7

(* The headers assemble_block fills in, and the numbers they hold.         *)
LEMMA SentHeader ==
  ASSUME NEW f, sendable(f)
  PROVE  /\ header(f) \in Header /\ subheader(f) \in ParitySubheader
         /\ payload_of(f) \in Seq(Byte) /\ Len(payload_of(f)) = f.pay.len
         /\ number(header(f).fec_gen_id) = f.gen /\ number(header(f).seq_in_block) = f.seq
         /\ number(header(f).data_count) = f.n /\ number(header(f).parity_count) = f.k
         /\ number(header(f).payload_len) = f.pay.len
         /\ number(subheader(f).fec_parity_index) = f.pidx
         /\ f.pay.len \in Nat
         /\ carries_parity(header(f)) = is_parity_frame(f)
<1>1. /\ f.gen \in Nat /\ f.seq \in Nat /\ f.n \in Nat /\ f.k \in Nat /\ f.pidx \in Nat
      /\ f.pay.len \in Nat /\ f.pay.pos \in Nat
  BY DEF sendable, BaseFrame, Payload
<1>2. /\ bits(f.gen) \in Word32 /\ number(bits(f.gen)) = f.gen
  <2>1. f.gen - power[30] < power[30] BY DEF sendable
  <2>2. number(bits(f.gen)) = f.gen BY <1>1, <2>1, NumberOfBits
  <2> QED BY <1>1, <2>2, SmallBits DEF Word32
<1>3. /\ bits(f.seq) \in Word16 /\ bits(f.n) \in Word16 /\ bits(f.k) \in Word16 /\ bits(f.pay.len) \in Word16
      /\ number(bits(f.seq)) = f.seq /\ number(bits(f.n)) = f.n /\ number(bits(f.k)) = f.k
      /\ number(bits(f.pay.len)) = f.pay.len
  <2>1. f.seq < power[16] /\ f.n < power[16] /\ f.k < power[16] /\ f.pay.len < power[16] BY DEF sendable
  <2> QED BY <1>1, <2>1, SmallBits
<1>4. bits(f.pidx) \in Byte /\ number(bits(f.pidx)) = f.pidx
  <2>1. f.pidx < power[8] BY DEF sendable
  <2> QED BY <1>1, <2>1, SmallBits
<1>5. flags2_pack_parity_count_minus_one(f.k) \in Word16
  <2>1. (f.k + 255) % 256 \in 0 .. 255 BY <1>1
  <2>2. \A n \in 0 .. 255 : n \in Nat /\ n < power[16] BY PowerValues
  <2> QED BY <2>1, <2>2, SmallBits DEF flags2_pack_parity_count_minus_one
<1>6. bits(scheme_id(f.k)) \in Byte
  <2>1. scheme_id(f.k) \in {1, 10, 11, 12} BY DEF scheme_id
  <2>2. \A n \in {1, 10, 11, 12} : n \in Nat /\ n < power[8] BY PowerValues
  <2> QED BY <2>1, <2>2, SmallBits
<1>7. {0} \in Byte /\ {} \in Byte BY DEF Byte
<1>8. header(f) \in Header BY <1>2, <1>3, <1>5, <1>7 DEF header, Header
<1>9. subheader(f) \in ParitySubheader BY <1>4, <1>6 DEF subheader, ParitySubheader
<1>10. payload_of(f) \in Seq(Byte) /\ Len(payload_of(f)) = f.pay.len
  <2>1. 0 \in Nat OBVIOUS
  <2> QED BY <1>1, <2>1, PayloadType DEF payload_of
<1>11. /\ number(header(f).fec_gen_id) = f.gen /\ number(header(f).seq_in_block) = f.seq
       /\ number(header(f).data_count) = f.n /\ number(header(f).parity_count) = f.k
       /\ number(header(f).payload_len) = f.pay.len
       /\ number(subheader(f).fec_parity_index) = f.pidx
  BY <1>2, <1>3, <1>4 DEF header, subheader
<1>12. carries_parity(header(f)) = is_parity_frame(f)
  BY <1>11, Zenon DEF carries_parity, is_parity_frame
<1> QED BY <1>1, <1>8, <1>9, <1>10, <1>11, <1>12

LEMMA DatagramType ==
  ASSUME NEW f, sendable(f)
  PROVE  datagram(f) \in Seq(Byte)
<1>1. /\ header(f) \in Header /\ subheader(f) \in ParitySubheader /\ payload_of(f) \in Seq(Byte)
  BY SentHeader
<1>2. write_base_header(header(f)) \in Seq(Byte) BY <1>1, HeaderBytes
<1>3. write_u32_le(crc32c(payload_of(f))) \in Seq(Byte)
  BY ByteType DEF write_u32_le
<1>4. <<subheader(f).fec_scheme_id, subheader(f).fec_parity_index>> \in Seq(Byte)
  <2>1. \A x, y \in Byte : <<x, y>> \in Seq(Byte) OBVIOUS
  <2>2. subheader(f).fec_scheme_id \in Byte /\ subheader(f).fec_parity_index \in Byte
    BY <1>1, Zenon DEF ParitySubheader
  <2> QED BY <2>1, <2>2
<1>5. \A a, b, c \in Seq(Byte) : a \o b \o c \in Seq(Byte) OBVIOUS
<1>6. \A a, b, c, d \in Seq(Byte) : a \o b \o c \o d \in Seq(Byte) OBVIOUS
<1>7. encode_data_frame(header(f), payload_of(f)) \in Seq(Byte)
  BY <1>1, <1>2, <1>3, <1>5, Zenon DEF encode_data_frame
<1>8. encode_parity_frame(header(f), subheader(f), payload_of(f)) \in Seq(Byte)
  BY <1>1, <1>2, <1>3, <1>4, <1>6, Zenon DEF encode_parity_frame
<1> QED BY <1>7, <1>8, Zenon DEF datagram

(* An intact datagram gives back the frame and the payload it was made     *)
(* from.                                                                   *)
LEMMA Understood ==
  ASSUME NEW f, sendable(f)
  PROVE  /\ accepts_datagram(datagram(f))
         /\ received(datagram(f), f.pay) = f
         /\ decode_frame(datagram(f)) = contents(f)
         /\ decode_frame(datagram(f)).payload = payload_of(f)
<1> DEFINE h == header(f)
           sub == subheader(f)
           payload == payload_of(f)
           in == datagram(f)
           d == decode_frame(in)
<1>1. /\ h \in Header /\ sub \in ParitySubheader /\ payload \in Seq(Byte) /\ Len(payload) = f.pay.len
      /\ number(h.fec_gen_id) = f.gen /\ number(h.seq_in_block) = f.seq
      /\ number(h.data_count) = f.n /\ number(h.parity_count) = f.k
      /\ number(h.payload_len) = f.pay.len /\ number(sub.fec_parity_index) = f.pidx
      /\ f.pay.len \in Nat /\ carries_parity(h) = is_parity_frame(f)
  BY SentHeader
<1>2. \A par : encoded_size(Len(payload), par) >= encoded_size(Len(payload), par)
  <2>1. \A par : encoded_size(Len(payload), par) \in Nat BY <1>1 DEF encoded_size, kBase, kParitySub, kCrcTrailer
  <2> QED BY <2>1
<1>3. is_parity_frame(f) \in BOOLEAN BY DEF is_parity_frame
<1>4. f = [gen |-> f.gen, seq |-> f.seq, n |-> f.n, k |-> f.k, pidx |-> f.pidx, pay |-> f.pay]
  BY DEF sendable, BaseFrame
<1> HIDE DEF h, sub, payload
<1>5. CASE ~is_parity_frame(f)
  <2>1. in = encode_data_frame(h, payload) BY <1>5 DEF datagram, h, sub, payload
  <2>2. encodes(encoded_size(Len(payload), FALSE), h, FALSE, payload)
    BY <1>1, <1>2, <1>5, <1>3 DEF encodes
  <2> HIDE DEF in
  <2>3. accepts_datagram(in) /\ d = [header |-> h, par |-> FALSE, sub |-> NoSub, payload |-> payload, crc |-> crc32c(payload)]
    BY <1>1, <2>1, <2>2, DataRoundTrip
  <2> HIDE DEF d
  <2>4. d.header = h /\ d.sub = NoSub /\ d.payload = payload BY <2>3
  <2>5. number(NoSub.fec_parity_index) = f.pidx
    <3>1. f.pidx = 0 BY <1>5 DEF sendable
    <3>2. NoSub.fec_parity_index = {} BY DEF NoSub
    <3> QED BY <3>1, <3>2, SmallBits, Zenon
  <2>6. received(in, f.pay) = [gen |-> f.gen, seq |-> f.seq, n |-> f.n, k |-> f.k, pidx |-> f.pidx, pay |-> f.pay]
    BY <1>1, <2>4, <2>5, Zenon DEF received, d
  <2>7. contents(f) = [header |-> h, par |-> FALSE, sub |-> NoSub, payload |-> payload, crc |-> crc32c(payload)]
    BY <1>3, <1>5 DEF contents, h, payload
  <2>8. d = contents(f) BY <2>3, <2>7
  <2> QED BY <1>4, <2>3, <2>4, <2>6, <2>8 DEF in, d, payload
<1>6. CASE is_parity_frame(f)
  <2>1. in = encode_parity_frame(h, sub, payload) BY <1>6 DEF datagram, h, sub, payload
  <2>2. encodes(encoded_size(Len(payload), TRUE), h, TRUE, payload)
    BY <1>1, <1>2, <1>6, <1>3 DEF encodes
  <2> HIDE DEF in
  <2>3. accepts_datagram(in) /\ d = [header |-> h, par |-> TRUE, sub |-> sub, payload |-> payload, crc |-> crc32c(payload)]
    BY <1>1, <2>1, <2>2, ParityRoundTrip
  <2> HIDE DEF d
  <2>4. d.header = h /\ d.sub = sub /\ d.payload = payload BY <2>3
  <2>5. received(in, f.pay) = [gen |-> f.gen, seq |-> f.seq, n |-> f.n, k |-> f.k, pidx |-> f.pidx, pay |-> f.pay]
    BY <1>1, <2>4, Zenon DEF received, d
  <2>7. contents(f) = [header |-> h, par |-> TRUE, sub |-> sub, payload |-> payload, crc |-> crc32c(payload)]
    BY <1>3, <1>6 DEF contents, h, sub, payload
  <2>8. d = contents(f) BY <2>3, <2>7
  <2> QED BY <1>4, <2>3, <2>4, <2>5, <2>8 DEF in, d, payload
<1> QED BY <1>5, <1>6

(* Whatever happens under way leaves a sequence of bytes.                  *)
LEMMA ArrivingType ==
  ASSUME NEW d, possible(d)
  PROVE  arriving(d) \in Seq(Byte)
<1>1. CASE d.change.how = "zeros"
  <2>1. arriving(d) = [i \in 1 .. d.change.at |-> {}] BY <1>1 DEF arriving
  <2>2. d.change.at \in Nat BY <1>1 DEF possible
  <2>3. {} \in Byte BY DEF Byte
  <2>4. \A n \in Nat : \A S, f : f \in [1 .. n -> S] => f \in Seq(S) OBVIOUS
  <2>5. arriving(d) \in [1 .. d.change.at -> Byte] BY <2>1, <2>3
  <2> QED BY <2>2, <2>4, <2>5
<1>2. CASE d.change.how # "zeros"
  <2>1. PICK s \in Seq(Byte) : s = datagram(d.frame) BY <1>2, DatagramType DEF possible
  <2>2. CASE d.change.how = "none"
    <3>1. arriving(d) = s BY <2>1, <2>2 DEF arriving
    <3> QED BY <3>1
  <2>3. CASE d.change.how = "flip"
    <3>1. arriving(d) = [s EXCEPT ![d.change.at] = xor(@, {d.change.bit})] BY <2>1, <2>3 DEF arriving
    <3>2. d.change.bit \in 0 .. 7 BY <2>3 DEF possible
    <3>3. \A x \in Byte : xor(x, {d.change.bit}) \in Byte BY <3>2 DEF xor, Byte
    <3>4. PICK n \in Nat : n = Len(s) /\ s \in [1 .. n -> Byte] BY <2>1
    <3>5. arriving(d) \in [1 .. n -> Byte] BY <3>1, <3>3, <3>4
    <3>6. \A m \in Nat : \A S, f : f \in [1 .. m -> S] => f \in Seq(S) OBVIOUS
    <3> QED BY <3>5, <3>6
  <2>4. CASE d.change.how = "cut"
    <3>1. arriving(d) = SubSeq(s, 1, d.change.at) BY <2>1, <2>4 DEF arriving
    <3>2. d.change.at \in 0 .. Len(s) BY <2>1, <2>4 DEF possible
    <3> QED BY <3>1, <3>2, Parts
  <2>5. CASE d.change.how = "longer"
    <3>1. arriving(d) = Append(s, {}) BY <2>1, <2>5 DEF arriving
    <3>2. {} \in Byte BY DEF Byte
    <3> QED BY <3>1, <3>2
  <2> QED BY <1>2, <2>2, <2>3, <2>4, <2>5 DEF possible
<1> QED BY <1>1, <1>2

(* The checksum of an accepted datagram is the CRC-32C of its payload.     *)
LEMMA Remainder ==
  ASSUME NEW in \in Seq(Byte), accepts_datagram(in)
  PROVE  decode_frame(in).crc = crc_of(decode_frame(in).payload)
<1>1. decode_frame(in).payload \in Seq(Byte) BY Window
<1>2. crc32c(decode_frame(in).payload) = decode_frame(in).crc BY DEF accepts_datagram
<1> QED BY <1>1, <1>2, ChecksumIsTheRemainder

(* The encoders leave nothing after the checksum.                          *)
LEMMA DatagramLength ==
  ASSUME NEW f, sendable(f)
  PROVE  LET s == datagram(f) IN Len(s) = offset_of(s) + length_of(s) + 4
<1> DEFINE h == header(f)
           sub == subheader(f)
           payload == payload_of(f)
           s == datagram(f)
           d == decode_frame(s)
<1>1. /\ h \in Header /\ sub \in ParitySubheader /\ payload \in Seq(Byte) /\ Len(payload) = f.pay.len
      /\ number(h.payload_len) = f.pay.len /\ f.pay.len \in Nat
      /\ carries_parity(h) = is_parity_frame(f)
  BY SentHeader
<1>2. \A par : encoded_size(Len(payload), par) >= encoded_size(Len(payload), par)
  <2>1. \A par : encoded_size(Len(payload), par) \in Nat BY <1>1 DEF encoded_size, kBase, kParitySub, kCrcTrailer
  <2> QED BY <2>1
<1>3. is_parity_frame(f) \in BOOLEAN BY DEF is_parity_frame
<1>4. PICK par \in BOOLEAN : par = is_parity_frame(f) BY <1>3
<1> HIDE DEF h, sub, payload
<1>5. d.header = h /\ Len(s) = encoded_size(Len(payload), par)
  <2>1. CASE ~par
    <3>1. s = encode_data_frame(h, payload) BY <1>4, <2>1 DEF datagram, h, sub, payload
    <3>2. encodes(encoded_size(Len(payload), FALSE), h, FALSE, payload)
      BY <1>1, <1>2, <1>4, <2>1 DEF encodes
    <3> HIDE DEF s
    <3>3. Len(s) = encoded_size(Len(payload), FALSE)
          /\ d = [header |-> h, par |-> FALSE, sub |-> NoSub, payload |-> payload, crc |-> crc32c(payload)]
      BY <1>1, <3>1, <3>2, DataRoundTrip
    <3> HIDE DEF d
    <3>4. d.header = h BY <3>3
    <3> QED BY <2>1, <3>3, <3>4
  <2>2. CASE par
    <3>1. s = encode_parity_frame(h, sub, payload) BY <1>4, <2>2 DEF datagram, h, sub, payload
    <3>2. encodes(encoded_size(Len(payload), TRUE), h, TRUE, payload)
      BY <1>1, <1>2, <1>4, <2>2 DEF encodes
    <3> HIDE DEF s
    <3>3. Len(s) = encoded_size(Len(payload), TRUE)
          /\ d = [header |-> h, par |-> TRUE, sub |-> sub, payload |-> payload, crc |-> crc32c(payload)]
      BY <1>1, <3>1, <3>2, ParityRoundTrip
    <3> HIDE DEF d
    <3>4. d.header = h BY <3>3
    <3> QED BY <2>2, <3>3, <3>4
  <2> QED BY <2>1, <2>2
<1>6. read_base_header(s) = h
  <2>1. d.header = read_base_header(s) BY DEF decode_frame
  <2> HIDE DEF d, s
  <2> QED BY <1>5, <2>1
<1> HIDE DEF s, d
<1>7. length_of(s) = Len(payload) BY <1>1, <1>6 DEF length_of
<1>8. offset_of(s) = IF par THEN 18 ELSE 16
  BY <1>1, <1>4, <1>6 DEF offset_of, kBase, kParitySub
<1>9. Len(s) = offset_of(s) + length_of(s) + 4
  BY <1>1, <1>5, <1>7, <1>8 DEF encoded_size, kBase, kParitySub, kCrcTrailer
<1> QED BY <1>9 DEF s

(* The fields that place the payload, and the bytes they are read from.    *)
LEMMA PlacedBy ==
  ASSUME NEW a, NEW b
  PROVE  /\ (\A i \in 9 .. 12 : a[i] = b[i]) => offset_of(a) = offset_of(b)
         /\ (\A i \in 15 .. 16 : a[i] = b[i]) => length_of(a) = length_of(b)
<1>1. \A k \in 0 .. 15 : k \div 8 \in {0, 1} OBVIOUS
<1>2. ASSUME NEW o \in Nat, a[o] = b[o], a[o + 1] = b[o + 1]
      PROVE  read_u16_le(a, o) = read_u16_le(b, o)
  <2>1. \A k \in 0 .. 15 : a[o + k \div 8] = b[o + k \div 8]
    <3> TAKE k \in 0 .. 15
    <3>1. o + k \div 8 = o \/ o + k \div 8 = o + 1 BY <1>1
    <3> QED BY <1>2, <3>1
  <2> QED BY <2>1 DEF read_u16_le
<1>3. ASSUME \A i \in 9 .. 12 : a[i] = b[i] PROVE offset_of(a) = offset_of(b)
  <2>1. a[9] = b[9] /\ a[10] = b[10] /\ a[11] = b[11] /\ a[12] = b[12] BY <1>3
  <2>2. read_u16_le(a, 9) = read_u16_le(b, 9)
    <3>1. 9 \in Nat /\ 9 + 1 = 10 OBVIOUS
    <3> QED BY <1>2, <2>1, <3>1
  <2>3. read_u16_le(a, 11) = read_u16_le(b, 11)
    <3>1. 11 \in Nat /\ 11 + 1 = 12 OBVIOUS
    <3> QED BY <1>2, <2>1, <3>1
  <2>4. \A c : /\ read_base_header(c).seq_in_block = read_u16_le(c, 9)
               /\ read_base_header(c).data_count = read_u16_le(c, 11)
    BY DEF read_base_header
  <2>5. carries_parity(read_base_header(a)) = carries_parity(read_base_header(b))
    BY <2>2, <2>3, <2>4, Zenon DEF carries_parity
  <2> QED BY <2>5, Zenon DEF offset_of
<1>4. ASSUME \A i \in 15 .. 16 : a[i] = b[i] PROVE length_of(a) = length_of(b)
  <2>1. a[15] = b[15] /\ a[16] = b[16] BY <1>4
  <2>2. read_u16_le(a, 15) = read_u16_le(b, 15)
    <3>1. 15 \in Nat /\ 15 + 1 = 16 OBVIOUS
    <3> QED BY <1>2, <2>1, <3>1
  <2>3. \A c : read_base_header(c).payload_len = read_u16_le(c, 15)
    BY DEF read_base_header
  <2> QED BY <2>2, <2>3, Zenon DEF length_of
<1> QED BY <1>3, <1>4

LEMMA StretchByte ==
  ASSUME NEW in \in Seq(Byte), NEW off \in Nat, NEW n \in Nat, Len(in) >= off + n, NEW i \in 1 .. n
  PROVE  SubSeq(in, off + 1, off + n)[i] = in[off + i]
<1>1. i \in 1 .. (off + n) - (off + 1) + 1 OBVIOUS
<1>2. off + 1 \in 1 .. Len(in) + 1 /\ off + n \in off + 1 - 1 .. Len(in) OBVIOUS
<1>3. \A j \in off + 1 .. off + n : in[j] \in Byte OBVIOUS
<1>4. SubSeq(in, off + 1, off + n)[i] = in[off + 1 + i - 1] BY <1>1, <1>3, SubSeqProperties
<1>5. off + 1 + i - 1 = off + i OBVIOUS
<1> QED BY <1>4, <1>5, Zenon

LEMMA StretchLen ==
  ASSUME NEW in \in Seq(Byte), NEW off \in Nat, NEW n \in Nat, Len(in) >= off + n
  PROVE  SubSeq(in, off + 1, off + n) \in Seq(Byte) /\ Len(SubSeq(in, off + 1, off + n)) = n
<1>1. \A j \in off + 1 .. off + n : in[j] \in Byte OBVIOUS
<1>2. off + 1 \in Int /\ off + n \in Int OBVIOUS
<1>3. /\ SubSeq(in, off + 1, off + n) \in Seq(Byte)
      /\ Len(SubSeq(in, off + 1, off + n)) = IF off + 1 <= off + n THEN off + n - (off + 1) + 1 ELSE 0
  BY <1>1, <1>2, SubSeqProperties
<1>4. (IF off + 1 <= off + n THEN off + n - (off + 1) + 1 ELSE 0) = n OBVIOUS
<1> QED BY <1>3, <1>4

SameTail(in, s) == \A i \in 17 .. Len(s) : in[i] = s[i]

(* A payload that lies before the end of the datagram is nested there.     *)
LEMMA ShorterIsNested ==
  ASSUME NEW s \in Seq(Byte), NEW in \in Seq(Byte), Len(in) = Len(s), accepts_datagram(in),
         SameTail(in, s), offset_of(in) + length_of(in) + 4 < Len(s)
  PROVE  decode_frame(in).payload = <<>> \/ nested(s)
<1>1. PICK off \in {16, 18} : off = offset_of(in) BY Window
<1>2. PICK n \in Nat : n = length_of(in) BY Window
<1>3. PICK p \in Seq(Byte) : /\ p = decode_frame(in).payload /\ p = SubSeq(in, off + 1, off + n)
                             /\ Len(p) = n /\ crc32c(p) = read_u32_le(in, off + n + 1)
  BY <1>1, <1>2, Window
<1>4. off + n + 4 < Len(s) /\ off \in Nat BY <1>1, <1>2
<1>5. p = SubSeq(s, off + 1, off + n)
  <2>1. PICK q : q = SubSeq(s, off + 1, off + n) OBVIOUS
  <2>2. q \in Seq(Byte) /\ Len(q) = n
    <3>1. Len(s) >= off + n BY <1>4
    <3> QED BY <1>4, <2>1, <3>1, StretchLen, Zenon
  <2>3. ASSUME NEW i \in 1 .. n PROVE p[i] = q[i]
    <3>1. p[i] = in[off + i]
      <4>1. Len(in) >= off + n BY <1>4
      <4>2. SubSeq(in, off + 1, off + n)[i] = in[off + i] BY <1>4, <4>1, StretchByte
      <4> QED BY <1>3, <4>2, Zenon
    <3>2. q[i] = s[off + i]
      <4>1. Len(s) >= off + n BY <1>4
      <4>2. SubSeq(s, off + 1, off + n)[i] = s[off + i] BY <1>4, <4>1, StretchByte
      <4> QED BY <2>1, <4>2, Zenon
    <3>3. off + i \in 17 .. Len(s)
      <4>1. off >= 16 BY <1>1
      <4> QED BY <1>4, <4>1
    <3>4. in[off + i] = s[off + i] BY <3>3, Zenon DEF SameTail
    <3> QED BY <3>1, <3>2, <3>4
  <2>4. Len(p) = n BY <1>3
  <2>5. p = q BY <2>2, <2>3, <2>4
  <2> QED BY <2>1, <2>5
<1>6. read_u32_le(in, off + n + 1) = read_u32_le(s, off + n + 1)
  <2>1. \A b \in 0 .. 31 : off + n + 1 + b \div 8 \in 17 .. Len(s)
    <3> TAKE b \in 0 .. 31
    <3>1. b \div 8 \in 0 .. 3 OBVIOUS
    <3> QED BY <1>4, <3>1
  <2>2. \A b \in 0 .. 31 : in[off + n + 1 + b \div 8] = s[off + n + 1 + b \div 8]
    BY <2>1, Zenon DEF SameTail
  <2> QED BY <2>2 DEF read_u32_le
<1>7. CASE n = 0 BY <1>3, <1>7
<1>8. CASE n # 0
  <2>1. n \in 1 .. Len(s) BY <1>4, <1>8
  <2>2. off \in {kBase, kBase + kParitySub} /\ off + n + kCrcTrailer < Len(s)
    BY <1>4 DEF kBase, kParitySub, kCrcTrailer
  <2>3. crc32c(SubSeq(s, off + 1, off + n)) = read_u32_le(s, off + n + 1) BY <1>3, <1>5, <1>6
  <2> QED BY <2>1, <2>2, <2>3 DEF nested
<1> QED BY <1>7, <1>8

(* Bytes that are the same have the same bits.                             *)
LEMMA ByteBits ==
  ASSUME NEW a, NEW b, NEW n \in Nat, \A i \in 1 .. n : a[i] = b[i], NEW t \in 0 .. 8 * n - 1
  PROVE  bit_at(a, t) <=> bit_at(b, t)
<1>1. t \in Nat /\ 8 \in Nat \ {0} OBVIOUS
<1>2. PICK q \in Nat, r \in 0 .. 8 - 1 : t = 8 * q + r /\ t \div 8 = q /\ t % 8 = r BY <1>1, Divided
<1>3. 1 + q \in 1 .. n BY <1>2
<1> QED BY <1>2, <1>3 DEF bit_at

Flipped(in, s, pos, bt) == in = [s EXCEPT ![pos] = xor(@, {bt})]

(* The bit that is flipped is the only one.                                *)
LEMMA FlippedWithin ==
  ASSUME NEW s \in Seq(Byte), NEW pos \in Nat, NEW bt \in 0 .. 7, NEW in,
         Flipped(in, s, pos, bt)
  PROVE  /\ \A i \in 1 .. Len(s) : i # pos => in[i] = s[i]
         /\ DiffersWithin(in, s, 8 * (pos - 1) + bt)
<1>1. PICK n \in Nat : n = Len(s) /\ s \in [1 .. n -> Byte] OBVIOUS
<1>2. \A i \in 1 .. n : i # pos => in[i] = s[i] BY <1>1 DEF Flipped
<1>3. pos \in 1 .. n => in[pos] = xor(s[pos], {bt}) BY <1>1 DEF Flipped
<1>4. PICK T \in Int : T = 8 * (pos - 1) + bt OBVIOUS
<1>5. ASSUME NEW t \in 0 .. 8 * n - 1, t \notin T .. T + 31
      PROVE  bit_at(in, t) <=> bit_at(s, t)
  <2>1. t \in Nat /\ 8 \in Nat \ {0} OBVIOUS
  <2>2. PICK q \in Nat, r \in 0 .. 8 - 1 : t = 8 * q + r /\ t \div 8 = q /\ t % 8 = r BY <2>1, Divided
  <2>q. t = 8 * q + r /\ t <= 8 * n - 1 BY <2>2
  <2>3. 1 + q \in 1 .. n BY <2>q
  <2>4. r \in in[1 + q] <=> r \in s[1 + q]
    <3>1. CASE 1 + q # pos BY <1>2, <2>3, <3>1
    <3>2. CASE 1 + q = pos
      <4>0. t # 8 * (pos - 1) + bt BY <1>4, <1>5
      <4>1. r # bt BY <2>q, <3>2, <4>0
      <4>2. in[1 + q] = xor(s[1 + q], {bt}) BY <1>3, <2>3, <3>2
      <4> QED BY <4>1, <4>2 DEF xor
    <3> QED BY <3>1, <3>2
  <2> QED BY <2>2, <2>4, Zenon DEF bit_at
<1>6. DiffersWithin(in, s, T) BY <1>1, <1>5 DEF DiffersWithin
<1> QED BY <1>1, <1>2, <1>4, <1>6

(* What the receiver makes of "in" when s was sent.                        *)
IntactOrNested(in, s) ==
  \/ decode_frame(in).payload = <<>>
  \/ decode_frame(in).payload = decode_frame(s).payload
  \/ nested(s)

SameHeader(a, b) == \A i \in 1 .. 16 : a[i] = b[i]

LEMMA HeaderTwin ==
  ASSUME NEW a, NEW b, SameHeader(a, b)
  PROVE  SameLayout(a, b)
<1>1. (\A i \in 9 .. 12 : a[i] = b[i]) /\ (\A i \in 15 .. 16 : a[i] = b[i])
  BY DEF SameHeader
<1> QED BY <1>1, PlacedBy, Zenon DEF SameLayout

LEMMA StartsWith ==
  ASSUME NEW s \in Seq(Byte), NEW in \in Seq(Byte), accepts_datagram(s), accepts_datagram(in),
         \A i \in 1 .. Len(s) : in[i] = s[i]
  PROVE  decode_frame(in).payload = decode_frame(s).payload
<1>1. PICK n \in Nat : n = Len(s) OBVIOUS
<1>2. \A i \in 1 .. n : in[i] = s[i] BY <1>1
<1>3. DiffersWithin(in, s, 0)
  <2>1. ASSUME NEW t \in 0 .. 8 * n - 1 PROVE bit_at(in, t) <=> bit_at(s, t)
    BY <1>2, ByteBits, Zenon
  <2> QED BY <1>1, <2>1, Zenon DEF DiffersWithin
<1>4. SameLayout(in, s)
  <2>1. n >= 20
    <3>1. PICK off \in {16, 18}, len \in Nat : n >= off + len + 4 BY <1>1, Window
    <3> QED BY <3>1
  <2>2. SameHeader(in, s) BY <1>2, <2>1 DEF SameHeader
  <2> QED BY <2>2, HeaderTwin, Zenon
<1>5. 0 \in Int OBVIOUS
<1> QED BY <1>3, <1>4, <1>5, BurstIsRefused, Zenon

(* One bit flipped: where the header still says where the payload is, the  *)
(* checksum shows it; otherwise the payload of the header that arrived is  *)
(* shorter, or begins earlier, than that of the header that was sent.      *)
LEMMA OneFlip ==
  ASSUME NEW s \in Seq(Byte), accepts_datagram(s), Len(s) = offset_of(s) + length_of(s) + 4,
         NEW pos \in Nat, NEW bt \in 0 .. 7, NEW in \in Seq(Byte),
         Flipped(in, s, pos, bt), accepts_datagram(in)
  PROVE  IntactOrNested(in, s)
<1>1. PICK n \in Nat : n = Len(s) /\ s \in [1 .. n -> Byte] OBVIOUS
<1>2. Len(in) = n
  <2>1. in \in [1 .. n -> Byte]
    <3>1. \A i \in 1 .. n : in[i] \in Byte
      <4>1. DOMAIN in = 1 .. n BY <1>1 DEF Flipped
      <4>2. \A i \in 1 .. Len(in) : in[i] \in Byte OBVIOUS
      <4>3. DOMAIN in = 1 .. Len(in) OBVIOUS
      <4> QED BY <4>1, <4>2, <4>3
    <3> QED BY <1>1, <3>1 DEF Flipped
  <2> QED BY <2>1
<1>3. PICK T \in Int : T = 8 * (pos - 1) + bt OBVIOUS
<1>4. (\A i \in 1 .. n : i # pos => in[i] = s[i]) /\ DiffersWithin(in, s, T)
  BY <1>1, <1>3, FlippedWithin
<1>5. PICK off, len, off1, len1 \in Nat :
        /\ off = offset_of(s) /\ len = length_of(s) /\ off1 = offset_of(in) /\ len1 = length_of(in)
        /\ off \in {16, 18} /\ off1 \in {16, 18}
  <2>1. offset_of(s) \in {16, 18} /\ length_of(s) \in Nat BY Window
  <2>2. offset_of(in) \in {16, 18} /\ length_of(in) \in Nat BY Window
  <2>3. 16 \in Nat /\ 18 \in Nat OBVIOUS
  <2> QED BY <2>1, <2>2, <2>3
<1>6. n = off + len + 4 /\ n >= off1 + len1 + 4
  <2>1. n = off + len + 4 BY <1>1, <1>5
  <2>2. n >= off1 + len1 + 4 BY <1>2, <1>5, Window
  <2> QED BY <2>1, <2>2
<1>h. n >= 20
  <2>1. off = 16 \/ off = 18 BY <1>5
  <2>2. len \in Nat /\ n = off + len + 4 BY <1>6
  <2> QED BY <2>1, <2>2
<1>7. off = off1 \/ len = len1
  <2>1. CASE pos \notin 9 .. 12
    <3>1. \A i \in 9 .. 12 : in[i] = s[i] BY <1>4, <1>h, <2>1
    <3> QED BY <1>5, <3>1, PlacedBy
  <2>2. CASE pos \in 9 .. 12
    <3>1. \A i \in 15 .. 16 : in[i] = s[i] BY <1>4, <1>h, <2>2
    <3> QED BY <1>5, <3>1, PlacedBy
  <2> QED BY <2>1, <2>2
<1>8. CASE off = off1 /\ len = len1
  <2>1. SameLayout(in, s) BY <1>5, <1>8 DEF SameLayout
  <2> QED BY <1>4, <2>1, BurstIsRefused, Zenon DEF IntactOrNested
<1>9. CASE ~(off = off1 /\ len = len1)
  <2>1. off1 + len1 + 4 < n BY <1>6, <1>7, <1>9
  <2>2. pos \in 1 .. 16
    <3>1. CASE pos \notin 1 .. 16
      <4>1. SameHeader(in, s) BY <1>4, <1>h, <3>1 DEF SameHeader
      <4>2. SameLayout(in, s) BY <4>1, HeaderTwin, Zenon
      <4> QED BY <1>5, <1>9, <4>2 DEF SameLayout
    <3> QED BY <3>1
  <2>3. SameTail(in, s)
    <3>1. \A i \in 17 .. n : i \in 1 .. n /\ i # pos BY <2>2
    <3>2. \A i \in 17 .. n : in[i] = s[i] BY <1>4, <3>1, Zenon
    <3> QED BY <1>1, <3>2, Zenon DEF SameTail
  <2>4. offset_of(in) + length_of(in) + 4 < Len(s) BY <1>1, <1>5, <2>1
  <2>5. Len(in) = Len(s) BY <1>1, <1>2
  <2> QED BY <2>3, <2>4, <2>5, ShorterIsNested, Zenon DEF IntactOrNested
<1> QED BY <1>8, <1>9

(* A datagram that was cut is too short for its header.                    *)
LEMMA OneCut ==
  ASSUME NEW s \in Seq(Byte), accepts_datagram(s), Len(s) = offset_of(s) + length_of(s) + 4,
         NEW k \in 0 .. Len(s), NEW in \in Seq(Byte), in = SubSeq(s, 1, k), accepts_datagram(in)
  PROVE  IntactOrNested(in, s) /\ k = Len(s)
<1>1. Len(in) = k /\ \A i \in 1 .. k : in[i] = s[i]
  BY Parts
<1>2. PICK off \in {16, 18}, len \in Nat : k >= off + len + 4 BY <1>1, Window
<1>3. SameHeader(in, s) BY <1>1, <1>2 DEF SameHeader
<1>4. SameLayout(in, s) BY <1>3, HeaderTwin, Zenon
<1>5. k >= Len(s)
  <2>1. k >= offset_of(in) + length_of(in) + 4 BY <1>1, Window
  <2> QED BY <1>4, <2>1 DEF SameLayout
<1>6. \A i \in 1 .. Len(s) : in[i] = s[i] BY <1>1, <1>5
<1>7. k = Len(s) BY <1>5
<1> QED BY <1>6, <1>7, StartsWith, Zenon DEF IntactOrNested

LEMMA OneMore ==
  ASSUME NEW s \in Seq(Byte), accepts_datagram(s), NEW in \in Seq(Byte), in = Append(s, {}),
         accepts_datagram(in)
  PROVE  IntactOrNested(in, s)
<1>1. {} \in Byte BY DEF Byte
<1>2. \A i \in 1 .. Len(s) : in[i] = s[i] BY <1>1
<1> QED BY <1>2, StartsWith, Zenon DEF IntactOrNested

(* What an accepted datagram is followed by is not looked at.              *)
LEMMA Extended ==
  ASSUME NEW q \in Seq(Byte), accepts_datagram(q), NEW in \in Seq(Byte), Len(in) >= Len(q),
         \A i \in 1 .. Len(q) : in[i] = q[i]
  PROVE  accepts_datagram(in) /\ decode_frame(in).payload = decode_frame(q).payload
<1>1. PICK m, n \in Nat : m = Len(q) /\ n = Len(in) OBVIOUS
<1>2. PICK off \in {16, 18} : off = offset_of(q) BY Window
<1>3. PICK len \in Nat : len = length_of(q) BY Window
<1>4. PICK p \in Seq(Byte) : /\ p = decode_frame(q).payload /\ p = SubSeq(q, off + 1, off + len)
                             /\ Len(p) = len /\ crc32c(p) = read_u32_le(q, off + len + 1)
  BY <1>2, <1>3, Window
<1>5. m >= off + len + 4 /\ n >= m /\ off \in Nat /\ off >= 16
  <2>1. m >= off + len + 4 BY <1>1, <1>2, <1>3, Window, Zenon
  <2> QED BY <1>1, <1>2, <2>1
<1>6. \A i \in 1 .. m : in[i] = q[i] BY <1>1
<1>7. SameLayout(in, q)
  <2>1. SameHeader(in, q) BY <1>5, <1>6 DEF SameHeader
  <2> QED BY <2>1, HeaderTwin, Zenon
<1>8. offset_of(in) = off /\ length_of(in) = len BY <1>2, <1>3, <1>7 DEF SameLayout
<1>9. p = SubSeq(in, off + 1, off + len)
  <2>1. PICK r : r = SubSeq(in, off + 1, off + len) OBVIOUS
  <2>2. r \in Seq(Byte) /\ Len(r) = len
    <3>1. Len(in) >= off + len BY <1>1, <1>5
    <3> QED BY <1>5, <2>1, <3>1, StretchLen, Zenon
  <2>3. ASSUME NEW i \in 1 .. len PROVE p[i] = r[i]
    <3>1. p[i] = q[off + i]
      <4>1. Len(q) >= off + len BY <1>1, <1>5
      <4>2. SubSeq(q, off + 1, off + len)[i] = q[off + i] BY <1>5, <4>1, StretchByte
      <4> QED BY <1>4, <4>2, Zenon
    <3>2. r[i] = in[off + i]
      <4>1. Len(in) >= off + len BY <1>1, <1>5
      <4>2. SubSeq(in, off + 1, off + len)[i] = in[off + i] BY <1>5, <4>1, StretchByte
      <4> QED BY <2>1, <4>2, Zenon
    <3>3. off + i \in 1 .. m BY <1>5
    <3> QED BY <1>6, <3>1, <3>2, <3>3, Zenon
  <2>4. p = r BY <1>4, <2>2, <2>3
  <2> QED BY <2>1, <2>4
<1>10. read_u32_le(in, off + len + 1) = read_u32_le(q, off + len + 1)
  <2>1. \A b \in 0 .. 31 : off + len + 1 + b \div 8 \in 1 .. m
    <3> TAKE b \in 0 .. 31
    <3>1. b \div 8 \in 0 .. 3 OBVIOUS
    <3> QED BY <1>5, <3>1
  <2>2. \A b \in 0 .. 31 : in[off + len + 1 + b \div 8] = q[off + len + 1 + b \div 8]
    BY <1>6, <2>1, Zenon
  <2> QED BY <2>2 DEF read_u32_le
<1>11. decodes(in)
  <2>1. encoded_size(len, carries_parity(read_base_header(in))) = off + len + 4
    BY <1>2, <1>8 DEF encoded_size, kBase, kParitySub, kCrcTrailer, offset_of
  <2>2. n >= kBase + kCrcTrailer /\ n >= off + len + 4 BY <1>5 DEF kBase, kCrcTrailer
  <2>3. number(read_base_header(in).payload_len) = len BY <1>8 DEF length_of
  <2> QED BY <1>1, <2>1, <2>2, <2>3, Zenon DEF decodes
<1>12. decode_frame(in).payload = p /\ decode_frame(in).crc = read_u32_le(in, off + len + 1)
  BY <1>8, <1>9, Zenon DEF decode_frame, offset_of, length_of
<1> QED BY <1>4, <1>10, <1>11, <1>12, Zenon DEF accepts_datagram

(* Zeros say that their payload is empty.                                  *)
LEMMA Zeros ==
  ASSUME NEW n \in Nat, NEW in \in Seq(Byte), in = [i \in 1 .. n |-> {}], accepts_datagram(in)
  PROVE  decode_frame(in).payload = <<>>
<1>1. Len(in) = n OBVIOUS
<1>2. n >= 20
  <2>1. PICK off \in {16, 18}, len \in Nat : n >= off + len + 4 BY <1>1, Window
  <2> QED BY <2>1
<1>3. read_base_header(in).payload_len = {}
  <2>1. \A b \in 0 .. 15 : b \div 8 \in {0, 1} OBVIOUS
  <2>2. in[15] = {} /\ in[16] = {} BY <1>2
  <2>3. \A b \in 0 .. 15 : in[15 + b \div 8] = {}
    <3> TAKE b \in 0 .. 15
    <3>1. 15 + b \div 8 = 15 \/ 15 + b \div 8 = 16 BY <2>1
    <3> QED BY <2>2, <3>1
  <2>4. read_u16_le(in, 15) = {} BY <2>3 DEF read_u16_le
  <2>5. read_base_header(in).payload_len = read_u16_le(in, 15) BY DEF read_base_header
  <2> QED BY <2>4, <2>5, Zenon
<1>4. length_of(in) = 0 BY <1>3, SmallBits, Zenon DEF length_of
<1>5. PICK p \in Seq(Byte) : p = decode_frame(in).payload /\ Len(p) = length_of(in) BY Window
<1>6. p = <<>> BY <1>4, <1>5, EmptySeq
<1> QED BY <1>5, <1>6

(* Whatever happened to a datagram under way.                              *)
LEMMA WhatArrives ==
  ASSUME NEW d, possible(d), accepts_datagram(arriving(d))
  PROVE  \/ decode_frame(arriving(d)).payload = <<>>
         \/ /\ d.change.how # "zeros"
            /\ \/ decode_frame(arriving(d)).payload = payload_of(d.frame)
               \/ nested(datagram(d.frame))
<1>1. PICK in \in Seq(Byte) : in = arriving(d) /\ accepts_datagram(in) BY ArrivingType
<1>2. CASE d.change.how = "zeros"
  <2>1. d.change.at \in Nat /\ in = [i \in 1 .. d.change.at |-> {}]
    BY <1>1, <1>2 DEF possible, arriving
  <2>2. decode_frame(in).payload = <<>> BY <1>1, <2>1, Zeros
  <2> QED BY <1>1, <2>2, Zenon
<1>3. CASE d.change.how # "zeros"
  <2>1. sendable(d.frame) BY <1>3 DEF possible
  <2>2. PICK s \in Seq(Byte) : s = datagram(d.frame) BY <2>1, DatagramType
  <2>3. accepts_datagram(s) /\ decode_frame(s).payload = payload_of(d.frame)
    BY <2>1, <2>2, Understood, Zenon
  <2>4. Len(s) = offset_of(s) + length_of(s) + 4
    <3>1. Len(datagram(d.frame)) = offset_of(datagram(d.frame)) + length_of(datagram(d.frame)) + 4
      BY <2>1, DatagramLength, Zenon
    <3> QED BY <2>2, <3>1, Zenon
  <2>5. IntactOrNested(in, s)
    <3>1. CASE d.change.how = "none"
      <4>1. in = s BY <1>1, <2>2, <3>1 DEF arriving
      <4> QED BY <4>1 DEF IntactOrNested
    <3>2. CASE d.change.how = "flip"
      <4>1. d.change.at \in Nat /\ d.change.bit \in 0 .. 7 BY <3>2 DEF possible
      <4>2. Flipped(in, s, d.change.at, d.change.bit)
        BY <1>1, <2>2, <3>2 DEF arriving, Flipped
      <4> QED BY <1>1, <2>3, <2>4, <4>1, <4>2, OneFlip
    <3>3. CASE d.change.how = "cut"
      <4>1. d.change.at \in 0 .. Len(s) BY <2>2, <3>3 DEF possible
      <4>2. in = SubSeq(s, 1, d.change.at) BY <1>1, <2>2, <3>3 DEF arriving
      <4>3. IntactOrNested(in, s) /\ d.change.at = Len(s)
        BY <1>1, <2>3, <2>4, <4>1, <4>2, OneCut
      <4> QED BY <4>3
    <3>4. CASE d.change.how = "longer"
      <4>1. in = Append(s, {}) BY <1>1, <2>2, <3>4 DEF arriving
      <4> QED BY <1>1, <2>3, <4>1, OneMore
    <3> QED BY <1>3, <3>1, <3>2, <3>3, <3>4 DEF possible
  <2> QED BY <1>1, <1>3, <2>2, <2>3, <2>5, Zenon DEF IntactOrNested
<1> QED BY <1>2, <1>3

(* What of it fits the buffer: accepted only if the whole would be, with   *)
(* the same payload.                                                       *)
LEMMA WhatFits ==
  ASSUME NEW d, possible(d)
  PROVE  LET whole == arriving(d)
             in == truncated(whole)
         IN /\ in \in Seq(Byte)
            /\ accepts_datagram(in) =>
                 /\ accepts_datagram(whole)
                 /\ decode_frame(in).payload = decode_frame(whole).payload
<1>1. PICK s \in Seq(Byte) : s = arriving(d) BY ArrivingType
<1>2. PICK q : q = truncated(s) OBVIOUS
<1>3. CASE Len(s) <= BufferSize
  <2>1. q = s BY <1>2, <1>3 DEF truncated
  <2> QED BY <1>1, <1>2, <2>1
<1>4. CASE ~(Len(s) <= BufferSize)
  <2>1. q = SubSeq(s, 1, BufferSize) BY <1>2, <1>4 DEF truncated
  <2>2. BufferSize \in 0 .. Len(s) /\ Len(s) >= BufferSize BY <1>4, BufferAssumption
  <2>3. q \in Seq(Byte) /\ Len(q) = BufferSize BY <2>1, <2>2, Parts
  <2>4. ASSUME NEW i \in 1 .. BufferSize PROVE s[i] = q[i]
    <3>1. 0 \in Nat /\ BufferSize \in Nat /\ Len(s) >= 0 + BufferSize BY <2>2, BufferAssumption
    <3>2. SubSeq(s, 0 + 1, 0 + BufferSize)[i] = s[0 + i] BY <3>1, StretchByte
    <3>3. 0 + 1 = 1 /\ 0 + BufferSize = BufferSize /\ 0 + i = i BY BufferAssumption
    <3> QED BY <2>1, <3>2, <3>3, Zenon
  <2>5. accepts_datagram(q) => accepts_datagram(s) /\ decode_frame(s).payload = decode_frame(q).payload
    BY <2>2, <2>3, <2>4, Extended
  <2> QED BY <1>1, <1>2, <2>3, <2>5
<1> QED BY <1>3, <1>4

-----------------------------------------------------------------------------
(* The files of both programs, read as tables.                             *)

(* The pieces of the files: those of main, and those of --dest, --listen.  *)
Alphabet ==
  {"schema_version", "run_uuid", "ts_ms", "app", "event", "ip", "port", "bytes", "1", "run_id", "ts",
   "sender", "receiver", "a", "b", "c", "d", ".", "start", "sent_data", "sent_parity", "send_error",
   "recv_error", "decode_error", "block_closed", "# summary", "ok", "error", Quote, ",", Newline}
  \cup UNION {Range(s.text) : s \in Scenarios}
Cells == Seq(Seq(Alphabet))
Events == {"start", "sent_data", "sent_parity", "send_error", "recv_error", "decode_error", "block_closed"}

(* What main writes: a header, a line for each row, footers.               *)
Lines == {fields(event, address) : event \in Events, address \in Seq(Alphabet)}
head == <<<<"schema_version">>, <<"run_uuid">>>> \o standard_header
line(f) == <<schema_version, id>> \o f
footer(e) == <<<<"# summary">>, schema_version, id, <<e>>>>

Table(rows, w, ends) ==
  /\ Len(rows) = 1 + Len(w) + Len(ends) /\ rows[1] = head
  /\ \A r \in 1 .. Len(w) : rows[1 + r] = line(w[r])
  /\ \A e \in 1 .. Len(ends) : rows[1 + Len(w) + e] = footer(ends[e])

(* The text b is read as the table of the rows w and the footers ends.     *)
Written(b, w, ends) ==
  b \in Seq(Alphabet) /\ \E rows \in Seq(Cells) : Leads(Alphabet, Reader, b, AtRow(rows)) /\ Table(rows, w, ends)

(* The pieces main gives to the writer.                                    *)
LEMMA MainsPieces ==
  /\ Punctuated(Alphabet)
  /\ <<"schema_version">> \in Seq(Alphabet) /\ <<"run_uuid">> \in Seq(Alphabet) /\ <<"ts_ms">> \in Seq(Alphabet)
  /\ <<"app">> \in Seq(Alphabet) /\ <<"event">> \in Seq(Alphabet) /\ <<"ip">> \in Seq(Alphabet)
  /\ <<"port">> \in Seq(Alphabet) /\ <<"bytes">> \in Seq(Alphabet) /\ <<"ts">> \in Seq(Alphabet)
  /\ <<"# summary">> \in Seq(Alphabet) /\ <<"1">> \in Seq(Alphabet) /\ <<"run_id">> \in Seq(Alphabet)
  /\ octets \in Seq(Alphabet)
  /\ \A e \in Events \cup {"ok", "error", "sender", "receiver"} : <<e>> \in Seq(Alphabet)
<1>1. \A p \in {"schema_version", "run_uuid", "ts_ms", "app", "event", "ip", "port", "bytes", "1", "run_id", "ts",
         "sender", "receiver", "a", "b", "c", "d", ".", "start", "sent_data", "sent_parity", "send_error",
         "recv_error", "decode_error", "block_closed", "# summary", "ok", "error", Quote, ",", Newline} : p \in Alphabet
  BY DEF Alphabet
<1>2. Punctuated(Alphabet) BY <1>1 DEF Punctuated
<1>3. ASSUME NEW P PROVE \A p \in P : <<p>> \in Seq(P) OBVIOUS
<1>4. ASSUME NEW P, NEW a \in P, NEW b \in P, NEW c \in P, NEW d \in P, NEW e \in P
      PROVE  <<a, e, b, e, c, e, d>> \in Seq(P)
  OBVIOUS
<1>5. octets \in Seq(Alphabet)
  <2>1. "a" \in Alphabet /\ "b" \in Alphabet /\ "c" \in Alphabet /\ "d" \in Alphabet /\ "." \in Alphabet BY <1>1
  <2> QED BY <2>1, <1>4 DEF octets
<1>6. \A e \in Events \cup {"ok", "error", "sender", "receiver"} : e \in Alphabet BY <1>1 DEF Events
<1>7. /\ "schema_version" \in Alphabet /\ "run_uuid" \in Alphabet /\ "ts_ms" \in Alphabet /\ "app" \in Alphabet
      /\ "event" \in Alphabet /\ "ip" \in Alphabet /\ "port" \in Alphabet /\ "bytes" \in Alphabet
      /\ "ts" \in Alphabet /\ "# summary" \in Alphabet /\ "1" \in Alphabet /\ "run_id" \in Alphabet
  BY <1>1
<1> QED BY <1>2, <1>3, <1>5, <1>6, <1>7

LEMMA TwoCells == ASSUME NEW S, NEW a \in S, NEW b \in S PROVE <<a, b>> \in Seq(S) /\ Len(<<a, b>>) = 2
OBVIOUS

LEMMA FourCells ==
  ASSUME NEW S, NEW a \in S, NEW b \in S, NEW c \in S, NEW d \in S
  PROVE  <<a, b, c, d>> \in Seq(S) /\ Len(<<a, b, c, d>>) = 4
OBVIOUS

LEMMA EightCells ==
  ASSUME NEW S, NEW a \in S, NEW b \in S, NEW c \in S, NEW d \in S, NEW e \in S, NEW f \in S, NEW g \in S, NEW h \in S
  PROVE  <<a, b, c, d, e, f, g, h>> \in Seq(S) /\ Len(<<a, b, c, d, e, f, g, h>>) = 8
OBVIOUS

LEMMA TwoAndEight ==
  ASSUME NEW S, NEW t \in Seq(S), Len(t) = 2, NEW s \in Seq(S), Len(s) = 8
  PROVE  /\ t \o s \in Seq(S) /\ Len(t \o s) = 10
         /\ (t \o s)[1] = t[1] /\ (t \o s)[2] = t[2] /\ \A i \in 1 .. 8 : (t \o s)[2 + i] = s[i]
<1>1. /\ t \o s \in Seq(S) /\ Len(t \o s) = 10
      /\ \A i \in 1 .. 10 : (t \o s)[i] = IF i <= 2 THEN t[i] ELSE s[i - 2]
  <2>1. /\ t \o s \in Seq(S) /\ Len(t \o s) = Len(t) + Len(s)
        /\ \A i \in 1 .. Len(t) + Len(s) : (t \o s)[i] = IF i <= Len(t) THEN t[i] ELSE s[i - Len(t)]
    BY ConcatProperties
  <2>2. PICK u : u = t \o s OBVIOUS
  <2>3. Len(t) + Len(s) = 10 OBVIOUS
  <2> QED BY <2>1, <2>2, <2>3
<1>2. PICK u : u = t \o s OBVIOUS
<1>3. \A i \in 1 .. 8 : 2 + i \in 1 .. 10 /\ ~(2 + i <= 2) /\ (2 + i) - 2 = i OBVIOUS
<1>4. \A i \in 1 .. 10 : u[i] = IF i <= 2 THEN t[i] ELSE s[i - 2] BY <1>1, <1>2
<1>5. u[1] = t[1] /\ u[2] = t[2] /\ \A i \in 1 .. 8 : u[2 + i] = s[i] BY <1>3, <1>4
<1> QED BY <1>1, <1>2, <1>5

(* The rows main gives to the writer.                                      *)
LEMMA MainsRows ==
  /\ head \in Cells /\ Len(head) = 10
  /\ opt.app \in {"sender", "receiver"} => \A f \in Lines : line(f) \in Cells /\ Len(line(f)) = 10 /\ Len(f) = 8
  /\ \A e \in {"ok", "error"} : footer(e) \in Cells /\ Len(footer(e)) = 4
<1>3. schema_version \in Seq(Alphabet) /\ id \in Seq(Alphabet) BY MainsPieces DEF schema_version, id
<1>4. head \in Cells /\ Len(head) = 10
  <2>1. standard_header \in Cells /\ Len(standard_header) = 8
    BY MainsPieces, EightCells, Zenon DEF standard_header, Cells
  <2>2. PICK t : t = <<<<"schema_version">>, <<"run_uuid">>>> /\ t \in Cells /\ Len(t) = 2
    BY MainsPieces, TwoCells, Zenon DEF Cells
  <2>3. t \o standard_header \in Cells /\ Len(t \o standard_header) = 10
    <3>1. PICK S, s : S = Seq(Alphabet) /\ s = standard_header OBVIOUS
    <3>2. t \in Seq(S) /\ s \in Seq(S) /\ Len(t) = 2 /\ Len(s) = 8 BY <2>1, <2>2, <3>1, Zenon DEF Cells
    <3>3. t \o s \in Seq(S) /\ Len(t \o s) = 10 BY <3>2, TwoAndEight
    <3> QED BY <3>1, <3>3, Zenon DEF Cells
  <2>4. head = t \o standard_header BY <2>2, Zenon DEF head
  <2> QED BY <2>3, <2>4, Zenon
<1>5. ASSUME opt.app \in {"sender", "receiver"}, NEW f \in Lines
      PROVE line(f) \in Cells /\ Len(line(f)) = 10 /\ Len(f) = 8
  <2>1. PICK event \in Events, address \in Seq(Alphabet) : f = fields(event, address) BY DEF Lines
  <2>2. <<opt.app>> \in Seq(Alphabet) /\ <<event>> \in Seq(Alphabet) BY <1>5, MainsPieces
  <2>3. f \in Cells /\ Len(f) = 8 BY MainsPieces, <1>3, <2>1, <2>2, EightCells, Zenon DEF fields, Cells
  <2>4. PICK t : t = <<schema_version, id>> /\ t \in Cells /\ Len(t) = 2 BY <1>3, TwoCells, Zenon DEF Cells
  <2>5. t \o f \in Cells /\ Len(t \o f) = 10
    <3>1. PICK S : S = Seq(Alphabet) OBVIOUS
    <3>2. t \in Seq(S) /\ f \in Seq(S) /\ Len(t) = 2 /\ Len(f) = 8 BY <2>3, <2>4, <3>1, Zenon DEF Cells
    <3>3. t \o f \in Seq(S) /\ Len(t \o f) = 10 BY <3>2, TwoAndEight
    <3> QED BY <3>1, <3>3, Zenon DEF Cells
  <2>6. line(f) = t \o f BY <2>4, Zenon DEF line
  <2> QED BY <2>3, <2>5, <2>6, Zenon
<1>6. ASSUME NEW e \in {"ok", "error"} PROVE footer(e) \in Cells /\ Len(footer(e)) = 4
  <2>1. <<e>> \in Seq(Alphabet) /\ <<"# summary">> \in Seq(Alphabet) BY MainsPieces
  <2> QED BY <1>3, <2>1, FourCells, Zenon DEF footer, Cells
<1> QED BY <1>4, <1>5, <1>6

(* A row that is appended is one more row to a reader.                     *)
LEMMA RowRead ==
  ASSUME NEW rows \in Seq(Cells), NEW columns \in Cells, Len(columns) # 0, NEW b \in Seq(Alphabet),
         Leads(Alphabet, Reader, b, AtRow(rows))
  PROVE  /\ b \o append_row_csv(columns) \in Seq(Alphabet)
         /\ Leads(Alphabet, Reader, b \o append_row_csv(columns), AtRow(Append(rows, columns)))
<1>1. columns # <<>>
  <2>1. Len(<<>>) = 0 OBVIOUS
  <2> QED BY <2>1, Zenon
<1>2. Punctuated(Alphabet) BY MainsPieces, Zenon
<1>3. rows \in Seq(Seq(Seq(Alphabet))) /\ columns \in Seq(Seq(Alphabet)) BY Zenon DEF Cells
<1>4. /\ append_row_csv(columns) \in Seq(Alphabet)
      /\ Leads(Alphabet, AtRow(rows), append_row_csv(columns), AtRow(Append(rows, columns)))
  BY <1>1, <1>2, <1>3, RowIsReadBack, Zenon
<1>5. \A P : \A s, u \in Seq(P) : s \o u \in Seq(P) OBVIOUS
<1>6. b \o append_row_csv(columns) \in Seq(Alphabet) BY <1>4, <1>5, Zenon
<1>7. Leads(Alphabet, Reader, b \o append_row_csv(columns), AtRow(Append(rows, columns)))
  BY <1>4, ReadOn, Zenon
<1> QED BY <1>6, <1>7, Zenon

(* The header, a row, a footer: each is one more row of the table.         *)
LEMMA HeaderWritten == Written(set_header(standard_header), <<>>, <<>>)
<1>1. set_header(standard_header) = append_row_csv(head) BY Zenon DEF set_header, head
<1>2. Reader = AtRow(<<>>) BY Zenon DEF Reader, AtRow, Within
<1>3. head \in Cells /\ Len(head) = 10 BY MainsRows, Zenon
<1>4. /\ append_row_csv(head) \in Seq(Alphabet)
      /\ Leads(Alphabet, AtRow(<<>>), append_row_csv(head), AtRow(Append(<<>>, head)))
  <2>1. head # <<>>
    <3>1. Len(<<>>) = 0 /\ 10 # 0 OBVIOUS
    <3> QED BY <1>3, <3>1, Zenon
  <2>2. <<>> \in Seq(Seq(Seq(Alphabet))) OBVIOUS
  <2>3. head \in Seq(Seq(Alphabet)) BY <1>3, Zenon DEF Cells
  <2> QED BY <2>1, <2>2, <2>3, MainsPieces, RowIsReadBack, Zenon
<1>5. PICK rows \in Seq(Cells) : rows = Append(<<>>, head) /\ Len(rows) = 1 /\ rows[1] = head
  <2>1. ASSUME NEW S, NEW s \in S PROVE Append(<<>>, s) \in Seq(S) /\ Len(Append(<<>>, s)) = 1 /\ Append(<<>>, s)[1] = s
    OBVIOUS
  <2>2. PICK S : S = Cells OBVIOUS
  <2>3. PICK s \in S : s = head BY <1>3, <2>2
  <2> QED BY <2>1, <2>2, <2>3
<1>6. Table(rows, <<>>, <<>>)
  <2>1. PICK e : e = <<>> /\ Len(e) = 0 OBVIOUS
  <2>2. Table(rows, e, e) BY <1>5, <2>1 DEF Table
  <2> QED BY <2>1, <2>2, Zenon
<1> QED BY <1>1, <1>2, <1>4, <1>5, <1>6, Zenon DEF Written

LEMMA RowWritten ==
  ASSUME opt.app \in {"sender", "receiver"}, NEW b, NEW w \in Seq(Lines), NEW f \in Lines, Written(b, w, <<>>)
  PROVE  Written(b \o add_row(id, f), Append(w, f), <<>>)
<1>1. PICK rows \in Seq(Cells) : Leads(Alphabet, Reader, b, AtRow(rows)) /\ Table(rows, w, <<>>)
  BY Zenon DEF Written
<1>2. b \in Seq(Alphabet) BY Zenon DEF Written
<1>3. PICK c \in Cells : c = line(f) /\ Len(c) = 10 BY MainsRows
<1>4. add_row(id, f) = append_row_csv(c) BY <1>3, Zenon DEF add_row, line
<1>5. /\ b \o append_row_csv(c) \in Seq(Alphabet)
      /\ Leads(Alphabet, Reader, b \o append_row_csv(c), AtRow(Append(rows, c)))
  <2>1. Len(c) # 0 BY <1>3
  <2> QED BY <1>1, <1>2, <2>1, RowRead, Zenon
<1>6. PICK n \in Nat : n = Len(w) OBVIOUS
<1>7. PICK e : e = <<>> /\ Len(e) = 0 OBVIOUS
<1>8. Len(rows) = 1 + n /\ rows[1] = head /\ \A r \in 1 .. n : rows[1 + r] = line(w[r])
  <2>1. Table(rows, w, e) BY <1>1, <1>7, Zenon
  <2> QED BY <1>6, <1>7, <2>1 DEF Table
<1>9. PICK more \in Seq(Cells) :
        /\ more = Append(rows, c) /\ Len(more) = 1 + n + 1
        /\ \A r \in 1 .. 1 + n : more[r] = rows[r]
        /\ more[1 + n + 1] = c
  <2>1. PICK k \in Nat : k = Len(rows) /\ k = 1 + n BY <1>8
  <2>2. PICK more \in Seq(Cells) :
          /\ more = Append(rows, c) /\ Len(more) = k + 1
          /\ \A r \in 1 .. k : more[r] = rows[r]
          /\ more[k + 1] = c
    <3>1. PICK more : more = Append(rows, c) OBVIOUS
    <3>2. /\ more \in Seq(Cells) /\ Len(more) = Len(rows) + 1
          /\ \A r \in 1 .. Len(rows) : more[r] = rows[r]
          /\ more[Len(rows) + 1] = c
      BY <3>1, AppendProperties
    <3> QED BY <2>1, <3>1, <3>2
  <2> QED BY <2>1, <2>2
<1>10. PICK grow \in Seq(Lines) :
        /\ grow = Append(w, f) /\ Len(grow) = n + 1
        /\ \A r \in 1 .. n : grow[r] = w[r]
        /\ grow[n + 1] = f
  BY <1>6, AppendProperties
<1>11. Table(more, grow, e)
  <2>1. Len(more) = 1 + Len(grow) + Len(e) BY <1>7, <1>9, <1>10
  <2>2. more[1] = head
    <3>1. 1 \in 1 .. 1 + n OBVIOUS
    <3> QED BY <1>8, <1>9, <3>1
  <2>3. ASSUME NEW r \in 1 .. Len(grow) PROVE more[1 + r] = line(grow[r])
    <3>1. CASE r \in 1 .. n
      <4>1. PICK k \in 1 .. 1 + n : k = 1 + r BY <3>1
      <4>2. more[k] = rows[k] /\ grow[r] = w[r] /\ rows[1 + r] = line(w[r]) BY <1>8, <1>9, <1>10, <3>1
      <4> QED BY <4>1, <4>2
    <3>2. CASE r = n + 1
      <4>1. 1 + r = 1 + n + 1 BY <3>2
      <4> QED BY <1>3, <1>9, <1>10, <3>2, <4>1
    <3>3. r \in 1 .. n \/ r = n + 1 BY <1>10
    <3> QED BY <3>1, <3>2, <3>3
  <2>4. ~\E k : k \in 1 .. Len(e) BY <1>7
  <2> QED BY <2>1, <2>2, <2>3, <2>4, Zenon DEF Table
<1> QED BY <1>4, <1>5, <1>7, <1>9, <1>10, <1>11, Zenon DEF Written

LEMMA FooterWritten ==
  ASSUME NEW b, NEW w \in Seq(Lines), NEW ends \in Seq({"ok", "error"}), NEW e \in {"ok", "error"},
         Written(b, w, ends)
  PROVE  Written(b \o finish_with_summary(id, <<e>>), w, Append(ends, e))
<1>1. PICK rows \in Seq(Cells) : Leads(Alphabet, Reader, b, AtRow(rows)) /\ Table(rows, w, ends)
  BY Zenon DEF Written
<1>2. b \in Seq(Alphabet) BY Zenon DEF Written
<1>3. PICK c \in Cells : c = footer(e) /\ Len(c) = 4 BY MainsRows
<1>4. finish_with_summary(id, <<e>>) = append_row_csv(c) BY <1>3, Zenon DEF finish_with_summary, footer
<1>5. /\ b \o append_row_csv(c) \in Seq(Alphabet)
      /\ Leads(Alphabet, Reader, b \o append_row_csv(c), AtRow(Append(rows, c)))
  <2>1. Len(c) # 0 BY <1>3
  <2> QED BY <1>1, <1>2, <2>1, RowRead, Zenon
<1>6. PICK n \in Nat, m \in Nat : n = Len(w) /\ m = Len(ends) OBVIOUS
<1>8. /\ Len(rows) = 1 + n + m /\ rows[1] = head /\ \A r \in 1 .. n : rows[1 + r] = line(w[r])
      /\ \A r \in 1 .. m : rows[1 + n + r] = footer(ends[r])
  BY <1>1, <1>6 DEF Table
<1>9. PICK more \in Seq(Cells) :
        /\ more = Append(rows, c) /\ Len(more) = 1 + n + m + 1
        /\ \A r \in 1 .. 1 + n + m : more[r] = rows[r]
        /\ more[1 + n + m + 1] = c
  <2>1. PICK k \in Nat : k = Len(rows) /\ k = 1 + n + m BY <1>8
  <2>2. PICK more \in Seq(Cells) :
          /\ more = Append(rows, c) /\ Len(more) = k + 1
          /\ \A r \in 1 .. k : more[r] = rows[r]
          /\ more[k + 1] = c
    <3>1. PICK more : more = Append(rows, c) OBVIOUS
    <3>2. /\ more \in Seq(Cells) /\ Len(more) = Len(rows) + 1
          /\ \A r \in 1 .. Len(rows) : more[r] = rows[r]
          /\ more[Len(rows) + 1] = c
      BY <3>1, AppendProperties
    <3> QED BY <2>1, <3>1, <3>2
  <2> QED BY <2>1, <2>2
<1>10. PICK grow \in Seq({"ok", "error"}) :
        /\ grow = Append(ends, e) /\ Len(grow) = m + 1
        /\ \A r \in 1 .. m : grow[r] = ends[r]
        /\ grow[m + 1] = e
  BY <1>6, AppendProperties
<1>11. Table(more, w, grow)
  <2>1. Len(more) = 1 + Len(w) + Len(grow) BY <1>6, <1>9, <1>10
  <2>2. more[1] = head
    <3>1. 1 \in 1 .. 1 + n + m OBVIOUS
    <3> QED BY <1>8, <1>9, <3>1
  <2>3. ASSUME NEW r \in 1 .. Len(w) PROVE more[1 + r] = line(w[r])
    <3>1. PICK k \in 1 .. 1 + n + m : k = 1 + r /\ r \in 1 .. n BY <1>6
    <3>2. more[k] = rows[k] BY <1>9
    <3> QED BY <1>8, <3>1, <3>2
  <2>4. ASSUME NEW r \in 1 .. Len(grow) PROVE more[1 + Len(w) + r] = footer(grow[r])
    <3>1. CASE r \in 1 .. m
      <4>1. PICK k \in 1 .. 1 + n + m : k = 1 + n + r /\ k = 1 + Len(w) + r BY <1>6, <3>1
      <4>2. more[k] = rows[k] /\ grow[r] = ends[r] /\ rows[1 + n + r] = footer(ends[r]) BY <1>8, <1>9, <1>10, <3>1
      <4> QED BY <4>1, <4>2
    <3>2. CASE r = m + 1
      <4>1. 1 + Len(w) + r = 1 + n + m + 1 BY <1>6, <3>2
      <4> QED BY <1>3, <1>9, <1>10, <3>2, <4>1
    <3>3. r \in 1 .. m \/ r = m + 1 BY <1>10
    <3> QED BY <3>1, <3>2, <3>3
  <2> QED BY <2>1, <2>2, <2>3, <2>4, Zenon DEF Table
<1> QED BY <1>4, <1>5, <1>9, <1>10, <1>11, Zenon DEF Written

(* Reading the file gives the table.                                       *)
LEMMA TableRead ==
  ASSUME NEW b, NEW w, NEW ends, Written(b, w, ends)
  PROVE  Table(read_rows(b), w, ends)
<1>1. PICK rows \in Seq(Cells) : Leads(Alphabet, Reader, b, AtRow(rows)) /\ Table(rows, w, ends)
  BY Zenon DEF Written
<1>2. b \in Seq(Alphabet) BY Zenon DEF Written
<1>3. read_rows(b) = AtRow(rows).rows BY <1>1, <1>2, RowsRead, Zenon
<1>4. AtRow(rows).rows = rows BY DEF AtRow, Within
<1> QED BY <1>1, <1>3, <1>4, Zenon

TwoThen(u, t, s) == u[1] = t[1] /\ u[2] = t[2] /\ \A i \in 1 .. 8 : u[2 + i] = s[i]

LEMMA TwoThenEight ==
  ASSUME NEW S, NEW t \in Seq(S), Len(t) = 2, NEW s \in Seq(S), Len(s) = 8
  PROVE  TwoThen(t \o s, t, s)
BY TwoAndEight DEF TwoThen

(* The cells of a row, with two in front of those main gave.               *)
LEMMA LineCells ==
  ASSUME opt.app \in {"sender", "receiver"}, NEW f \in Lines
  PROVE  /\ f[1] = schema_version /\ f[2] = id /\ f \in Cells /\ Len(f) = 8
         /\ line(f)[1] = schema_version /\ line(f)[2] = id
         /\ \A i \in 1 .. 8 : line(f)[2 + i] = f[i]
<1>1. PICK event \in Events, address \in Seq(Alphabet) : f = fields(event, address) BY DEF Lines
<1>2. f[1] = schema_version /\ f[2] = id BY <1>1 DEF fields
<1>3. PICK S, s : S = Seq(Alphabet) /\ s = f OBVIOUS
<1>4. s \in Seq(S) /\ Len(s) = 8
  <2>1. <<opt.app>> \in S /\ <<event>> \in S BY <1>3, MainsPieces
  <2>2. schema_version \in S /\ id \in S BY <1>3, MainsPieces DEF schema_version, id
  <2> QED BY MainsPieces, <1>1, <1>3, <2>1, <2>2, EightCells, Zenon DEF fields
<1>5. PICK t \in Seq(S) : t = <<schema_version, id>> /\ Len(t) = 2 /\ t[1] = schema_version /\ t[2] = id
  <2>1. schema_version \in S /\ id \in S BY <1>3, MainsPieces DEF schema_version, id
  <2>2. <<schema_version, id>> \in Seq(S) BY <2>1, TwoCells, Zenon
  <2> QED BY <2>2
<1>6. line(f) = t \o s BY <1>3, <1>5, Zenon DEF line
<1>7. PICK u : u = line(f) OBVIOUS
<1>8. u[1] = t[1] /\ u[2] = t[2] /\ \A i \in 1 .. 8 : u[2 + i] = s[i]
  <2>1. Len(t) = 2 /\ u = t \o s BY <1>5, <1>6, <1>7, Zenon
  <2>2. TwoThen(t \o s, t, s) BY <1>4, <2>1, TwoThenEight
  <2>3. TwoThen(u, t, s) BY <2>1, <2>2, Zenon
  <2> QED BY <2>3, Zenon DEF TwoThen
<1>9. f \in Cells /\ Len(f) = 8 BY <1>3, <1>4, Zenon DEF Cells
<1> QED BY <1>2, <1>3, <1>5, <1>7, <1>8, <1>9, Zenon

(* The rows of closed blocks.                                              *)
closings(w) == {r \in 1 .. Len(w) : w[r][5] = <<"block_closed">>}

LEMMA ClosingsFinite ==
  ASSUME NEW w \in Seq(Lines)
  PROVE  IsFiniteSet(closings(w)) /\ Cardinality(closings(w)) \in Nat
<1>1. Len(w) \in Int /\ 1 \in Int OBVIOUS
<1>2. IsFiniteSet(1 .. Len(w)) BY <1>1, FS_Interval
<1>3. closings(w) \in SUBSET (1 .. Len(w)) BY DEF closings
<1>4. IsFiniteSet(closings(w)) BY <1>2, <1>3, FS_Subset
<1> QED BY <1>4, FS_CardinalityType

LEMMA ClosingsGrow ==
  ASSUME NEW w \in Seq(Lines), NEW event \in Events, NEW address \in Seq(Alphabet)
  PROVE  Cardinality(closings(Append(w, fields(event, address))))
           = IF event = "block_closed" THEN Cardinality(closings(w)) + 1 ELSE Cardinality(closings(w))
<1>1. PICK f \in Lines : f = fields(event, address) BY DEF Lines
<1>2. f[5] = <<event>> BY <1>1 DEF fields
<1>3. f[5] = <<"block_closed">> <=> event = "block_closed"
  <2>1. \A x, y : <<x>> = <<y>> => x = y OBVIOUS
  <2> QED BY <1>2, <2>1, Zenon
<1>4. PICK n \in Nat : n = Len(w) OBVIOUS
<1>5. PICK g \in Seq(Lines) : /\ g = Append(w, f) /\ Len(g) = n + 1
                              /\ \A r \in 1 .. n : g[r] = w[r]
                              /\ g[n + 1] = f
  BY <1>4, AppendProperties
<1>6. \A r \in 1 .. n + 1 : r \in 1 .. n \/ r = n + 1 OBVIOUS
<1>7. \A r \in 1 .. n : r \in 1 .. n + 1 OBVIOUS
<1>8. n + 1 \in 1 .. n + 1 /\ n + 1 \notin 1 .. n OBVIOUS
<1>9. CASE event = "block_closed"
  <2>1. closings(g) = closings(w) \cup {n + 1}
    BY <1>3, <1>4, <1>5, <1>6, <1>7, <1>8, <1>9 DEF closings
  <2>2. n + 1 \notin closings(w) BY <1>4, <1>8 DEF closings
  <2>3. Cardinality(closings(g)) = Cardinality(closings(w)) + 1
    <3>1. PICK C : C = closings(w) OBVIOUS
    <3>2. IsFiniteSet(C) /\ n + 1 \notin C BY <2>2, <3>1, ClosingsFinite
    <3>3. Cardinality(C \cup {n + 1}) = Cardinality(C) + 1 BY <3>2, FS_AddElement
    <3> QED BY <2>1, <3>1, <3>3, Zenon
  <2> QED BY <1>1, <1>5, <1>9, <2>3, Zenon
<1>10. CASE event # "block_closed"
  <2>1. closings(g) = closings(w)
    BY <1>3, <1>4, <1>5, <1>6, <1>7, <1>8, <1>10 DEF closings
  <2> QED BY <1>1, <1>5, <1>10, <2>1, Zenon
<1> QED BY <1>9, <1>10

(* A reader of the file counts the same closed blocks.                     *)
LEMMA ClosingsRead ==
  ASSUME opt.app \in {"sender", "receiver"}, NEW rows, NEW w \in Seq(Lines), NEW ends, Len(ends) = 1,
         Table(rows, w, ends)
  PROVE  Cardinality({r \in 2 .. Len(rows) - 1 : rows[r][7] = <<"block_closed">>}) = Cardinality(closings(w))
<1>1. PICK n \in Nat : n = Len(w) OBVIOUS
<1>2. Len(rows) = n + 2 /\ \A r \in 1 .. n : rows[1 + r] = line(w[r])
  BY <1>1 DEF Table
<1> DEFINE C == closings(w)
           D == {r \in 2 .. Len(rows) - 1 : rows[r][7] = <<"block_closed">>}
           up == [r \in C |-> 1 + r]
<1>3. \A r \in 1 .. n : rows[1 + r][7] = w[r][5]
  <2>1. \A r \in 1 .. n : w[r] \in Lines BY <1>1
  <2>2. ASSUME NEW f \in Lines PROVE line(f)[7] = f[5]
    <3>1. 5 \in 1 .. 8 /\ 2 + 5 = 7 OBVIOUS
    <3> QED BY <3>1, LineCells
  <2> QED BY <1>2, <2>1, <2>2
<1>4. \A r \in 1 .. n : 1 + r \in 2 .. Len(rows) - 1 BY <1>2
<1>5. \A k \in 2 .. Len(rows) - 1 : k - 1 \in 1 .. n /\ 1 + (k - 1) = k BY <1>2
<1>6. \A r \in C : 1 + r \in D /\ r \in Nat BY <1>1, <1>3, <1>4 DEF closings
<1>7. \A k \in D : k - 1 \in C /\ 1 + (k - 1) = k BY <1>1, <1>3, <1>5 DEF closings
<1> HIDE DEF C, D
<1>8. up \in Injection(C, D)
  <2>1. up \in [C -> D] BY <1>6
  <2>2. \A r, q \in C : up[r] = up[q] => r = q BY <1>6
  <2> QED BY <2>1, <2>2 DEF Injection, IsInjective
<1>9. up \in Surjection(C, D)
  <2>1. up \in [C -> D] BY <1>6
  <2>2. \A k \in D : up[k - 1] = k BY <1>7
  <2> QED BY <1>7, <2>1, <2>2 DEF Surjection
<1>10. IsFiniteSet(C) BY ClosingsFinite DEF C
<1>11. Cardinality(D) = Cardinality(C)
  <2>1. ExistsBijection(C, D) BY <1>8, <1>9, Zenon DEF ExistsBijection, Bijection
  <2> QED BY <1>10, <2>1, FS_Bijection
<1> QED BY <1>11 DEF C, D

-----------------------------------------------------------------------------
(* The programs.                                                           *)
LEMMA Scenario ==
  ASSUME opt \in Scenarios
  PROVE  /\ opt.app \in {"sender", "receiver"} /\ opt.text \in Seq(Alphabet)
         /\ opt.text \in Seq(Range(opt.text))
         /\ opt.ttl \in Int /\ opt.fps \in Int /\ opt.count \in Int /\ opt.reorder \in Int
         /\ \A d \in opt.air : possible(d)
<1>1. opt.text \in Seq(Range(opt.text)) BY ScenariosAssumption
<1>2. Range(opt.text) \subseteq Alphabet BY Zenon DEF Alphabet
<1>3. opt.text \in Seq(Alphabet)
  <2>1. \A S, T : S \subseteq T => \A s \in Seq(S) : s \in Seq(T) OBVIOUS
  <2> QED BY <1>1, <1>2, <2>1
<1> QED BY <1>1, <1>3, ScenariosAssumption

-----------------------------------------------------------------------------
(* The program has accepted its command line.                              *)
Started ==
  /\ opt.ask = "run" /\ accepted /\ ep = parse_endpoint(opt.text)
  /\ cfg = IF is_sender THEN sender_config(ipv4_is_multicast(ep.addr)) ELSE receiver_config
  /\ run_id = uuid_v4(opt.seed)

(* It is about to read it, or has refused it.                              *)
NotStarted ==
  /\ ep = None /\ cfg = None /\ run_id = None /\ heard = None /\ wrote = <<>>
  /\ \/ pc = "args" /\ code = 0
     \/ pc = "exit" /\ opt.ask # "run" /\ code \in {0, 2}
     \/ pc = "exit" /\ opt.ask = "run" /\ ~accepted /\ code = 2

(* The footers of the file fit how far the program is and how it came      *)
(* there.                                                                  *)
Missing == Cardinality(closings(wrote)) < cfg.expect
Told(ends) ==
  \/ code \in {3, 4} /\ ends = <<"error">> /\ Len(wrote) = 1 /\ (~is_sender => Missing)
  \/ code = 0 /\ is_sender /\ ends \in {<<"ok">>, <<"error", "ok">>}
  \/ code = 0 /\ ~is_sender /\ ends = <<"ok">> /\ Cardinality(closings(wrote)) = cfg.expect
  \/ code = 0 /\ ~is_sender /\ ends = <<"error">> /\ Len(wrote) # 1 /\ Missing
Ended(ends) ==
  /\ pc \in {"socket", "loop", "turn", "again", "finish", "save", "exit", "abort"}
  /\ pc \in {"socket", "loop", "turn", "again"} =>
       ends = <<>> /\ code = 0 /\ Len(wrote) \in 1 .. MaxRows /\ (~is_sender => Missing)
  /\ pc = "socket" => Len(wrote) = 1
  /\ pc \in {"turn", "again"} => ~is_sender
  /\ pc = "finish" => ends = <<"error">> /\ code = 0 /\ is_sender /\ Len(wrote) \in 1 .. MaxRows + 1
  /\ pc \in {"save", "exit", "abort"} => Told(ends) /\ Len(wrote) \in 1 .. MaxRows + 1

RowsInv ==
  wrote \in Seq(Lines) /\ \E ends \in Seq({"ok", "error"}) : Written(buf, wrote, ends) /\ Ended(ends)

SocketInv ==
  pc \in {"loop", "turn", "again", "finish"} => sock = opened /\ DOMAIN opened = Range(calls)

HeardInv ==
  heard # None => \E d \in opt.air : heard = [sent |-> d, in |-> truncated(arriving(d))]

FileInv == file # None => Started /\ pc = "exit" /\ file = [name |-> run_id, text |-> buf]

PInv ==
  /\ opt \in Scenarios
  /\ NotStarted \/ (Started /\ RowsInv)
  /\ SocketInv /\ HeardInv /\ FileInv

LEMMA StartedStays == Started /\ UNCHANGED <<opt, ep, cfg, run_id>> => Started'
BY DEF Started, accepted, is_sender, sender_config, receiver_config

LEMMA OpenedStays == UNCHANGED <<opt, ep, cfg>> => opened' = opened /\ calls' = calls
BY DEF opened, calls, is_sender

LEMMA LinesStay == UNCHANGED opt => Lines' = Lines /\ (\A e, a : fields(e, a)' = fields(e, a)) /\ is_sender' = is_sender
BY DEF Lines, fields, is_sender

LEMMA RowLogged ==
  ASSUME opt \in Scenarios, wrote \in Seq(Lines), Written(buf, wrote, <<>>),
         NEW event \in Events, NEW address \in Seq(Alphabet)
  PROVE  LET f == fields(event, address)
             w == Append(wrote, f)
         IN /\ w \in Seq(Lines) /\ Len(w) = Len(wrote) + 1
            /\ Written(buf \o add_row(id, f), w, <<>>)
            /\ Cardinality(closings(w)) = IF event = "block_closed" THEN Cardinality(closings(wrote)) + 1
                                                                   ELSE Cardinality(closings(wrote))
<1>1. PICK f \in Lines : f = fields(event, address) BY DEF Lines
<1>2. Append(wrote, f) \in Seq(Lines) /\ Len(Append(wrote, f)) = Len(wrote) + 1 BY AppendProperties
<1>3. Written(buf \o add_row(id, f), Append(wrote, f), <<>>) BY Scenario, RowWritten
<1>4. Cardinality(closings(Append(wrote, fields(event, address))))
           = IF event = "block_closed" THEN Cardinality(closings(wrote)) + 1 ELSE Cardinality(closings(wrote))
  BY ClosingsGrow, Zenon
<1> QED BY <1>1, <1>2, <1>3, <1>4, Zenon

LEMMA ClosedBlocks ==
  ASSUME wrote \in Seq(Lines)
  PROVE  closed_blocks = Cardinality(closings(wrote)) /\ closed_blocks \in Nat
<1>1. DOMAIN wrote = 1 .. Len(wrote) OBVIOUS
<1> QED BY <1>1, ClosingsFinite, Zenon DEF closed_blocks, closings

LEMMA Footers ==
  /\ <<>> \in Seq({"ok", "error"}) /\ <<"ok">> \in Seq({"ok", "error"}) /\ <<"error">> \in Seq({"ok", "error"})
  /\ <<"error", "ok">> \in Seq({"ok", "error"})
  /\ Append(<<>>, "ok") = <<"ok">> /\ Append(<<>>, "error") = <<"error">> /\ Append(<<"error">>, "ok") = <<"error", "ok">>
<1>1. ASSUME NEW S, NEW a \in S, NEW b \in S
      PROVE  /\ <<>> \in Seq(S) /\ <<a>> \in Seq(S) /\ <<b>> \in Seq(S) /\ <<b, a>> \in Seq(S)
             /\ Append(<<>>, a) = <<a>> /\ Append(<<>>, b) = <<b>> /\ Append(<<b>>, a) = <<b, a>>
  <2>1. <<>> \in Seq(S) /\ <<a>> \in Seq(S) /\ <<b>> \in Seq(S) /\ <<b, a>> \in Seq(S) OBVIOUS
  <2>2. Append(<<>>, a) = <<a>> /\ Append(<<>>, b) = <<b>> OBVIOUS
  <2>3. Append(<<b>>, a) = <<b, a>>
    <3>1. PICK t \in Seq(S) : t = <<b>> /\ Len(t) = 1 /\ t[1] = b
      <4>1. Len(<<b>>) = 1 /\ <<b>>[1] = b OBVIOUS
      <4> QED BY <2>1, <4>1, Zenon
    <3>2. PICK u \in Seq(S) : u = Append(t, a) /\ Len(u) = 2 /\ u[1] = b /\ u[2] = a
      <4>1. PICK u : u = Append(t, a) OBVIOUS
      <4>2. /\ u \in Seq(S) /\ Len(u) = Len(t) + 1
            /\ \A i \in 1 .. Len(t) : u[i] = t[i]
            /\ u[Len(t) + 1] = a
        BY <4>1, AppendProperties
      <4>3. 1 \in 1 .. 1 /\ 1 + 1 = 2 OBVIOUS
      <4> QED BY <3>1, <4>1, <4>2, <4>3
    <3>3. PICK v \in Seq(S) : v = <<b, a>> /\ Len(v) = 2 /\ v[1] = b /\ v[2] = a
      <4>1. Len(<<b, a>>) = 2 /\ <<b, a>>[1] = b /\ <<b, a>>[2] = a OBVIOUS
      <4> QED BY <2>1, <4>1, Zenon
    <3>4. \A i \in 1 .. 2 : i = 1 \/ i = 2 OBVIOUS
    <3>5. u = v BY <3>2, <3>3, <3>4, SeqEqual
    <3> QED BY <3>1, <3>2, <3>3, <3>5, Zenon
  <2> QED BY <2>1, <2>2, <2>3
<1>2. "ok" \in {"ok", "error"} /\ "error" \in {"ok", "error"} OBVIOUS
<1> QED BY <1>1, <1>2, Zenon

LEMMA Initially == Init => PInv
<1> SUFFICES ASSUME Init PROVE PInv OBVIOUS
<1>1. opt \in Scenarios /\ file = None /\ heard = None /\ pc = "args" BY DEF Init
<1>2. NotStarted BY DEF Init, NotStarted
<1> QED BY <1>1, <1>2 DEF PInv, SocketInv, HeardInv, FileInv

LEMMA LeaveKeeps == PInv /\ Leave => PInv'
<1> SUFFICES ASSUME PInv, Leave PROVE PInv' OBVIOUS
<1>1. pc = "args" /\ pc' = "exit" /\ UNCHANGED <<opt, ep, cfg, run_id, sock, buf, wrote, file, heard>>
  BY DEF Leave
<1>2. NotStarted
  <2>1. ~RowsInv BY <1>1 DEF RowsInv, Ended
  <2> QED BY <2>1 DEF PInv
<1>3. NotStarted'
  <2>1. accepted' = accepted BY <1>1 DEF accepted, is_sender
  <2> QED BY <1>1, <1>2, <2>1 DEF Leave, NotStarted
<1>4. file' = None /\ heard' = None BY <1>1, <1>2 DEF PInv, NotStarted, FileInv
<1>5. opt' \in Scenarios BY <1>1 DEF PInv
<1> QED BY <1>1, <1>3, <1>4, <1>5 DEF PInv, SocketInv, HeardInv, FileInv

LEMMA BeginKeeps == PInv /\ Begin => PInv'
<1> SUFFICES ASSUME PInv, Begin PROVE PInv' OBVIOUS
<1>1. pc = "args" /\ pc' = "socket" /\ UNCHANGED <<opt, sock, file, code, heard>> BY DEF Begin
<1>2. NotStarted
  <2>1. ~RowsInv BY <1>1 DEF RowsInv, Ended
  <2> QED BY <2>1 DEF PInv
<1>3. opt' \in Scenarios /\ opt \in Scenarios BY <1>1 DEF PInv
<1>4. Started' BY <1>1 DEF Begin, Started, accepted, is_sender, sender_config, receiver_config
<1>5. file' = None /\ heard' = None /\ code' = 0 BY <1>1, <1>2 DEF PInv, NotStarted, FileInv
<1>6. RowsInv'
  <2>1. PICK f \in Lines : f = fields("start", octets)
    <3>1. "start" \in Events BY DEF Events
    <3>2. octets \in Seq(Alphabet) BY MainsPieces, Zenon
    <3>3. \A e \in Events, a \in Seq(Alphabet) : fields(e, a) \in Lines BY DEF Lines
    <3> QED BY <3>1, <3>2, <3>3, Zenon
  <2>2. <<>> \in Seq(Lines) /\ Len(<<>>) = 0 OBVIOUS
  <2>3. Written(set_header(standard_header), <<>>, <<>>) BY HeaderWritten
  <2>4. Written(set_header(standard_header) \o add_row(id, f), Append(<<>>, f), <<>>)
    BY <1>3, <2>2, <2>3, Scenario, RowWritten, Zenon
  <2>5. wrote' = Append(<<>>, f) /\ Append(<<>>, f) \in Seq(Lines) /\ Len(Append(<<>>, f)) = 1
    <3>1. wrote' = <<f>> BY <2>1 DEF Begin
    <3>2. Append(<<>>, f) = <<f>> OBVIOUS
    <3>3. <<f>> \in Seq(Lines) /\ Len(<<f>>) = 1 OBVIOUS
    <3> QED BY <3>1, <3>2, <3>3, Zenon
  <2>6. buf' = set_header(standard_header) \o add_row(id, f) BY <2>1 DEF Begin
  <2>7. Cardinality(closings(wrote')) = 0
    <3>1. closings(<<>>) = {} BY DEF closings
    <3>2. Cardinality(closings(<<>>)) = 0 BY <3>1, FS_EmptySet, Zenon
    <3>3. "start" \in Events /\ "start" # "block_closed" BY DEF Events
    <3>4. Cardinality(closings(Append(<<>>, fields("start", octets)))) = Cardinality(closings(<<>>))
      BY <2>2, <3>3, MainsPieces, ClosingsGrow, Zenon
    <3> QED BY <2>1, <2>5, <3>2, <3>4, Zenon
  <2>8. (~is_sender => Missing)'
    <3>1. ~is_sender' => cfg'.expect = at_least(opt'.count, 1, 1)
      BY <1>4 DEF Started, receiver_config
    <3>2. at_least(opt'.count, 1, 1) \in Nat \ {0} BY <1>1, <1>3, Scenario DEF at_least
    <3> QED BY <2>7, <3>1, <3>2 DEF Missing
  <2>9. 1 \in 1 .. MaxRows BY RowsAssumption
  <2>10. Ended(<<>>)' BY <1>1, <1>5, <2>5, <2>8, <2>9 DEF Ended
  <2>11. Written(buf', wrote', <<>>) BY <2>4, <2>5, <2>6, Zenon
  <2>12. wrote' \in Seq(Lines')
    <3>1. Lines' = Lines BY <1>1, LinesStay
    <3> QED BY <2>5, <3>1, Zenon
  <2> QED BY <2>10, <2>11, <2>12, Footers, Zenon DEF RowsInv
<1> QED BY <1>1, <1>3, <1>4, <1>5, <1>6 DEF PInv, SocketInv, HeardInv, FileInv

(* What the actions share: the scenario and what was made of it stay.      *)
LEMMA InProgress ==
  ASSUME PInv, pc \in {"socket", "loop", "turn", "again", "finish", "save"}
  PROVE  /\ opt \in Scenarios /\ Started /\ RowsInv /\ file = None
         /\ SocketInv /\ HeardInv
BY DEF PInv, NotStarted, FileInv

LEMMA Carried ==
  ASSUME opt \in Scenarios, Started, UNCHANGED <<opt, ep, cfg, run_id>>, RowsInv', SocketInv', HeardInv',
         file' = None
  PROVE  PInv'
<1>1. Started' BY StartedStays
<1> QED BY <1>1 DEF PInv, FileInv

LEMMA HeardStays == HeardInv /\ UNCHANGED <<opt, heard>> => HeardInv'
BY DEF HeardInv

LEMMA SocketStays ==
  ASSUME SocketInv, pc \in {"loop", "turn", "again", "finish"}, UNCHANGED <<opt, ep, cfg, sock>>
  PROVE  SocketInv'
BY OpenedStays DEF SocketInv

LEMMA OpenSocketKeeps == PInv /\ OpenSocket => PInv'
<1> SUFFICES ASSUME PInv, OpenSocket PROVE PInv' OBVIOUS
<1>1. pc = "socket" /\ pc' = "loop" /\ UNCHANGED <<opt, ep, cfg, run_id, buf, wrote, file, code, heard>>
  BY DEF OpenSocket
<1>2. opt \in Scenarios /\ Started /\ RowsInv /\ file = None /\ HeardInv BY <1>1, InProgress
<1>3. SocketInv'
  <2>1. sock' = opened /\ DOMAIN sock' = Range(calls) BY DEF OpenSocket
  <2>2. opened' = opened /\ calls' = calls BY <1>1, OpenedStays
  <2> QED BY <2>1, <2>2, Zenon DEF SocketInv
<1>4. RowsInv'
  <2>1. PICK ends \in Seq({"ok", "error"}) : Written(buf, wrote, ends) /\ Ended(ends) BY <1>2 DEF RowsInv
  <2>2. Ended(ends)' BY <1>1, <2>1 DEF Ended, Missing, is_sender
  <2>3. wrote' \in Seq(Lines')
    <3>1. Lines' = Lines /\ wrote' = wrote BY <1>1, LinesStay
    <3> QED BY <1>2, <3>1, Zenon DEF RowsInv
  <2>4. Written(buf', wrote', ends) BY <1>1, <2>1
  <2> QED BY <2>2, <2>3, <2>4, Zenon DEF RowsInv
<1>5. HeardInv' BY <1>1, <1>2, HeardStays
<1>6. file' = None BY <1>1, <1>2
<1> QED BY <1>1, <1>2, <1>3, <1>4, <1>5, <1>6, Carried

LEMMA SocketErrorKeeps == PInv /\ SocketError => PInv'
<1> SUFFICES ASSUME PInv, SocketError PROVE PInv' OBVIOUS
<1>1. pc = "socket" /\ pc' = "save" /\ UNCHANGED <<opt, ep, cfg, run_id, wrote, file, heard>>
  BY DEF SocketError
<1>2. opt \in Scenarios /\ Started /\ RowsInv /\ file = None /\ HeardInv BY <1>1, InProgress
<1>3. SocketInv' BY <1>1 DEF SocketInv
<1>4. RowsInv'
  <2>1. PICK ends \in Seq({"ok", "error"}) : Written(buf, wrote, ends) /\ Ended(ends) BY <1>2 DEF RowsInv
  <2>2. ends = <<>> /\ Len(wrote) = 1 /\ (~is_sender => Missing) BY <1>1, <2>1 DEF Ended
  <2>3. Written(buf \o finish_with_summary(id, <<"error">>), wrote, <<"error">>)
    <3>1. wrote \in Seq(Lines) BY <1>2 DEF RowsInv
    <3>2. "error" \in {"ok", "error"} OBVIOUS
    <3>3. Written(buf, wrote, <<>>) BY <2>1, <2>2
    <3> QED BY <3>1, <3>2, <3>3, FooterWritten, Footers, Zenon
  <2>4. Written(buf', wrote', <<"error">>)
    <3>1. buf' = buf \o finish_with_summary(id, <<"error">>) /\ wrote' = wrote BY DEF SocketError
    <3> QED BY <2>3, <3>1, Zenon
  <2>5. Told(<<"error">>)'
    <3>1. code' \in {3, 4} BY DEF SocketError
    <3>2. (~is_sender => Missing)' BY <1>1, <2>2 DEF is_sender, Missing
    <3>3. Len(wrote') = 1 BY <1>1, <2>2
    <3> QED BY <3>1, <3>2, <3>3 DEF Told
  <2>6. Ended(<<"error">>)'
    <3>1. Len(wrote') \in 1 .. MaxRows + 1 BY <1>1, <2>2, RowsAssumption
    <3> QED BY <1>1, <2>5, <3>1 DEF Ended
  <2>7. wrote' \in Seq(Lines')
    <3>1. Lines' = Lines /\ wrote' = wrote BY <1>1, LinesStay
    <3> QED BY <1>2, <3>1, Zenon DEF RowsInv
  <2> QED BY <2>4, <2>6, <2>7, Footers, Zenon DEF RowsInv
<1>5. HeardInv' BY <1>1, <1>2, HeardStays
<1>6. file' = None BY <1>1, <1>2
<1> QED BY <1>1, <1>2, <1>3, <1>4, <1>5, <1>6, Carried

(* A step of a loop that writes no row.                                    *)
LEMMA Silent ==
  ASSUME RowsInv, pc \in {"loop", "turn", "again"}, pc' \in {"loop", "turn", "again"}, ~is_sender,
         UNCHANGED <<opt, cfg, buf, wrote, code>>
  PROVE  RowsInv'
<1>1. PICK ends \in Seq({"ok", "error"}) : Written(buf, wrote, ends) /\ Ended(ends) BY DEF RowsInv
<1>2. Ended(ends)' BY <1>1 DEF Ended, Missing, is_sender
<1>3. wrote' \in Seq(Lines')
  <2>1. Lines' = Lines /\ wrote' = wrote BY LinesStay
  <2> QED BY <2>1, Zenon DEF RowsInv
<1>4. Written(buf', wrote', ends) BY <1>1
<1> QED BY <1>2, <1>3, <1>4, Zenon DEF RowsInv

(* A step of a loop that writes a row and goes on.                         *)
LEMMA Logged ==
  ASSUME opt \in Scenarios, RowsInv, pc \in {"loop", "turn", "again"}, pc' \in {"loop", "turn", "again"},
         pc' # "loop" => ~is_sender, Len(wrote) < MaxRows, UNCHANGED <<opt, cfg, code>>,
         NEW event \in Events, NEW address \in Seq(Alphabet),
         wrote' = Append(wrote, fields(event, address)),
         buf' = buf \o add_row(id, fields(event, address)),
         event = "block_closed" => Cardinality(closings(wrote)) + 1 < cfg.expect
  PROVE  RowsInv'
<1>1. PICK ends \in Seq({"ok", "error"}) : Written(buf, wrote, ends) /\ Ended(ends) BY DEF RowsInv
<1>2. ends = <<>> /\ code = 0 /\ Len(wrote) \in 1 .. MaxRows /\ (~is_sender => Missing)
  BY <1>1 DEF Ended
<1>3. wrote \in Seq(Lines) BY DEF RowsInv
<1>4. /\ wrote' \in Seq(Lines) /\ Len(wrote') = Len(wrote) + 1
      /\ Written(buf', wrote', <<>>)
      /\ Cardinality(closings(wrote')) = IF event = "block_closed" THEN Cardinality(closings(wrote)) + 1
                                                                  ELSE Cardinality(closings(wrote))
  <2>1. Written(buf, wrote, <<>>) BY <1>1, <1>2
  <2> QED BY <1>3, <2>1, RowLogged, Zenon
<1>5. Lines' = Lines /\ is_sender' = is_sender BY LinesStay
<1>6. (~is_sender => Missing)' BY <1>2, <1>4, <1>5 DEF Missing
<1>7. Len(wrote') \in 1 .. MaxRows BY <1>2, <1>4, RowsAssumption
<1>8. Ended(<<>>)' BY <1>2, <1>5, <1>6, <1>7 DEF Ended
<1>9. wrote' \in Seq(Lines') BY <1>4, <1>5, Zenon
<1> QED BY <1>4, <1>8, <1>9, Footers, Zenon DEF RowsInv

LEMMA SentKeeps == ASSUME NEW event \in {"sent_data", "sent_parity"}, PInv, Sent(event) PROVE PInv'
<1>1. pc = "loop" /\ pc' = pc /\ UNCHANGED <<opt, ep, cfg, run_id, sock, file, code, heard>> /\ Len(wrote) < MaxRows
  BY DEF Sent
<1>2. opt \in Scenarios /\ Started /\ RowsInv /\ file = None /\ SocketInv /\ HeardInv BY <1>1, InProgress
<1>3. /\ wrote' = Append(wrote, fields(event, opt.text))
      /\ buf' = buf \o add_row(id, fields(event, opt.text))
  BY DEF Sent, log_row
<1>4. event \in Events /\ event # "block_closed" BY DEF Events
<1>5. opt.text \in Seq(Alphabet) BY <1>2, Scenario
<1>6. RowsInv'
  <2>1. pc \in {"loop", "turn", "again"} /\ pc' \in {"loop", "turn", "again"} /\ pc' = "loop" BY <1>1
  <2>2. UNCHANGED <<opt, cfg, code>> BY <1>1
  <2> QED BY <1>1, <1>2, <1>3, <1>4, <1>5, <2>1, <2>2, Logged
<1>7. SocketInv' BY <1>1, <1>2, SocketStays
<1>8. HeardInv' BY <1>1, <1>2, HeardStays
<1>9. file' = None BY <1>1, <1>2
<1> QED BY <1>1, <1>2, <1>6, <1>7, <1>8, <1>9, Carried

LEMMA LoopErrorKeeps == PInv /\ LoopError => PInv'
<1> SUFFICES ASSUME PInv, LoopError PROVE PInv' OBVIOUS
<1> DEFINE event == IF is_sender THEN "send_error" ELSE "recv_error"
<1>1. pc = "loop" /\ pc' = (IF is_sender THEN "finish" ELSE "save")
      /\ UNCHANGED <<opt, ep, cfg, run_id, sock, file, code, heard>>
  BY DEF LoopError
<1>2. opt \in Scenarios /\ Started /\ RowsInv /\ file = None /\ SocketInv /\ HeardInv BY <1>1, InProgress
<1>3. PICK f : f = fields(event, opt.text) OBVIOUS
<1>4. wrote' = Append(wrote, f) /\ buf' = buf \o add_row(id, f) \o finish_with_summary(id, <<"error">>)
  BY <1>3 DEF LoopError
<1>5. event \in Events /\ event # "block_closed" BY DEF Events
<1>6. PICK ends \in Seq({"ok", "error"}) : Written(buf, wrote, ends) /\ Ended(ends) BY <1>2 DEF RowsInv
<1>7. ends = <<>> /\ code = 0 /\ Len(wrote) \in 1 .. MaxRows /\ (~is_sender => Missing)
  BY <1>1, <1>6 DEF Ended
<1>8. wrote \in Seq(Lines) BY <1>2 DEF RowsInv
<1> HIDE DEF event
<1>9. /\ wrote' \in Seq(Lines) /\ Len(wrote') = Len(wrote) + 1
      /\ Written(buf \o add_row(id, f), wrote', <<>>)
      /\ Cardinality(closings(wrote')) = Cardinality(closings(wrote))
  <2>1. Written(buf, wrote, <<>>) BY <1>6, <1>7
  <2>2. opt.text \in Seq(Alphabet) BY <1>2, Scenario
  <2> QED BY <1>2, <1>3, <1>4, <1>5, <1>8, <2>1, <2>2, RowLogged, Zenon
<1>10. Written(buf', wrote', <<"error">>)
  <2>1. "error" \in {"ok", "error"} OBVIOUS
  <2>2. wrote' \in Seq(Lines) BY <1>9
  <2> QED BY <1>4, <1>9, <2>1, FooterWritten, Footers, Zenon
<1>11. Lines' = Lines /\ is_sender' = is_sender BY <1>1, LinesStay
<1>12. (~is_sender => Missing)' BY <1>1, <1>7, <1>9, <1>11 DEF Missing
<1>13. Len(wrote') \in 1 .. MaxRows + 1 /\ Len(wrote') # 1 BY <1>7, <1>9, RowsAssumption
<1>14. Ended(<<"error">>)' BY <1>1, <1>7, <1>11, <1>12, <1>13 DEF Ended, Told
<1>15. RowsInv'
  <2>1. wrote' \in Seq(Lines') BY <1>9, <1>11, Zenon
  <2> QED BY <1>10, <1>14, <2>1, Footers, Zenon DEF RowsInv
<1>16. SocketInv'
  <2>1. CASE is_sender BY <1>1, <1>2, <2>1, SocketStays
  <2>2. CASE ~is_sender BY <1>1, <2>2 DEF SocketInv
  <2> QED BY <2>1, <2>2
<1>17. HeardInv' BY <1>1, <1>2, HeardStays
<1>18. file' = None BY <1>1, <1>2
<1> QED BY <1>1, <1>2, <1>15, <1>16, <1>17, <1>18, Carried

LEMMA FinishKeeps == PInv /\ Finish => PInv'
<1> SUFFICES ASSUME PInv, Finish PROVE PInv' OBVIOUS
<1>1. (pc = "finish" \/ (pc = "loop" /\ is_sender)) /\ pc' = "save"
      /\ UNCHANGED <<opt, ep, cfg, run_id, sock, wrote, file, code, heard>>
  BY DEF Finish
<1>2. opt \in Scenarios /\ Started /\ RowsInv /\ file = None /\ SocketInv /\ HeardInv BY <1>1, InProgress
<1>3. PICK ends \in Seq({"ok", "error"}) : Written(buf, wrote, ends) /\ Ended(ends) BY <1>2 DEF RowsInv
<1>4. ends \in {<<>>, <<"error">>} /\ code = 0 /\ is_sender /\ Len(wrote) \in 1 .. MaxRows + 1
  BY <1>1, <1>3, RowsAssumption DEF Ended
<1>5. PICK told \in {<<"ok">>, <<"error", "ok">>} : told = Append(ends, "ok") /\ told \in Seq({"ok", "error"})
  BY <1>4, Footers
<1>6. Written(buf', wrote', told)
  <2>1. wrote \in Seq(Lines) BY <1>2 DEF RowsInv
  <2>2. "ok" \in {"ok", "error"} OBVIOUS
  <2>3. Written(buf \o finish_with_summary(id, <<"ok">>), wrote, Append(ends, "ok"))
    BY <1>3, <2>1, <2>2, FooterWritten, Zenon
  <2>4. buf' = buf \o finish_with_summary(id, <<"ok">>) /\ wrote' = wrote BY <1>1 DEF Finish
  <2> QED BY <1>5, <2>3, <2>4, Zenon
<1>7. Lines' = Lines /\ is_sender' = is_sender BY <1>1, LinesStay
<1>8. Told(told)' BY <1>1, <1>4, <1>5, <1>7 DEF Told
<1>9. Ended(told)' BY <1>1, <1>4, <1>8 DEF Ended
<1>10. RowsInv'
  <2>1. wrote' \in Seq(Lines')
    <3>1. wrote' = wrote BY <1>1
    <3> QED BY <1>2, <1>7, <3>1, Zenon DEF RowsInv
  <2> QED BY <1>5, <1>6, <1>9, <2>1, Zenon DEF RowsInv
<1>11. SocketInv' BY <1>1 DEF SocketInv
<1>12. HeardInv' BY <1>1, <1>2, HeardStays
<1>13. file' = None BY <1>1, <1>2
<1> QED BY <1>1, <1>2, <1>10, <1>11, <1>12, <1>13, Carried

LEMMA RecvKeeps == ASSUME PInv, NEW d \in opt.air, Recv(d) PROVE PInv'
<1>1. /\ pc = "loop" /\ ~is_sender /\ pc' = "turn" /\ heard' = [sent |-> d, in |-> truncated(arriving(d))]
      /\ UNCHANGED <<opt, ep, cfg, run_id, sock, buf, wrote, file, code>>
  BY DEF Recv
<1>2. opt \in Scenarios /\ Started /\ RowsInv /\ file = None /\ SocketInv BY <1>1, InProgress
<1>3. RowsInv' BY <1>1, <1>2, Silent
<1>4. SocketInv' BY <1>1, <1>2, SocketStays
<1>5. HeardInv' BY <1>1 DEF HeardInv
<1>6. file' = None BY <1>1, <1>2
<1> QED BY <1>1, <1>2, <1>3, <1>4, <1>5, <1>6, Carried

LEMMA RecvRefusedKeeps == ASSUME PInv, NEW d \in opt.air, RecvRefused(d) PROVE PInv'
<1>1. /\ pc = "loop" /\ ~is_sender /\ pc' = "again" /\ heard' = [sent |-> d, in |-> truncated(arriving(d))]
      /\ Len(wrote) < MaxRows /\ UNCHANGED <<opt, ep, cfg, run_id, sock, file, code>>
  BY DEF RecvRefused
<1>2. opt \in Scenarios /\ Started /\ RowsInv /\ file = None /\ SocketInv BY <1>1, InProgress
<1>3. PICK event \in Events : event = "decode_error" /\ event # "block_closed" BY DEF Events
<1>4. /\ wrote' = Append(wrote, fields(event, opt.text))
      /\ buf' = buf \o add_row(id, fields(event, opt.text))
  BY <1>3 DEF RecvRefused, log_row
<1>5. opt.text \in Seq(Alphabet) BY <1>2, Scenario
<1>6. RowsInv'
  <2>1. pc \in {"loop", "turn", "again"} /\ pc' \in {"loop", "turn", "again"} BY <1>1
  <2>2. UNCHANGED <<opt, cfg, code>> BY <1>1
  <2> QED BY <1>1, <1>2, <1>3, <1>4, <1>5, <2>1, <2>2, Logged
<1>7. SocketInv' BY <1>1, <1>2, SocketStays
<1>8. HeardInv' BY <1>1 DEF HeardInv
<1>9. file' = None BY <1>1, <1>2
<1> QED BY <1>1, <1>2, <1>6, <1>7, <1>8, <1>9, Carried

LEMMA CloseKeeps == PInv /\ Close => PInv'
<1> SUFFICES ASSUME PInv, Close PROVE PInv' OBVIOUS
<1> DEFINE last == closed_blocks + 1 >= cfg.expect
<1>1. /\ pc = "turn" /\ Len(wrote) < MaxRows /\ pc' = (IF last THEN "save" ELSE "turn")
      /\ UNCHANGED <<opt, ep, cfg, run_id, sock, file, code, heard>>
  BY DEF Close
<1>2. opt \in Scenarios /\ Started /\ RowsInv /\ file = None /\ SocketInv /\ HeardInv BY <1>1, InProgress
<1>3a. PICK event \in Events : event = "block_closed" BY DEF Events
<1>3b. PICK f : f = fields(event, opt.text) OBVIOUS
<1>3. f = fields(event, opt.text) /\ event = "block_closed" BY <1>3a, <1>3b
<1>4. /\ wrote' = Append(wrote, f)
      /\ buf' = buf \o add_row(id, f) \o (IF last THEN finish_with_summary(id, <<"ok">>) ELSE <<>>)
  BY <1>3 DEF Close
<1>5. PICK ends \in Seq({"ok", "error"}) : Written(buf, wrote, ends) /\ Ended(ends) BY <1>2 DEF RowsInv
<1>6. ends = <<>> /\ code = 0 /\ Len(wrote) \in 1 .. MaxRows /\ ~is_sender /\ Missing
  BY <1>1, <1>5 DEF Ended
<1>7. wrote \in Seq(Lines) BY <1>2 DEF RowsInv
<1>8. /\ wrote' \in Seq(Lines) /\ Len(wrote') = Len(wrote) + 1
      /\ Written(buf \o add_row(id, f), wrote', <<>>)
      /\ Cardinality(closings(wrote')) = Cardinality(closings(wrote)) + 1
  <2>1. Written(buf, wrote, <<>>) BY <1>5, <1>6
  <2>2. opt.text \in Seq(Alphabet) BY <1>2, Scenario
  <2> QED BY <1>2, <1>3, <1>4, <1>7, <2>1, <2>2, RowLogged, Zenon
<1>9. Lines' = Lines /\ is_sender' = is_sender BY <1>1, LinesStay
<1>10. closed_blocks = Cardinality(closings(wrote)) /\ closed_blocks \in Nat BY <1>7, ClosedBlocks
<1>11. cfg.expect \in Int
  <2>1. cfg = receiver_config BY <1>2, <1>6 DEF Started
  <2> QED BY <1>2, <2>1, Scenario DEF receiver_config, at_least
<1>12. wrote' \in Seq(Lines') BY <1>8, <1>9, Zenon
<1>13. Len(wrote') \in 1 .. MaxRows BY <1>1, <1>6, <1>8, RowsAssumption
<1>14. RowsInv'
  <2>1. CASE last
    <3>1. Written(buf', wrote', <<"ok">>)
      <4>1. buf' = (buf \o add_row(id, f)) \o finish_with_summary(id, <<"ok">>) BY <1>4, <2>1, Zenon
      <4>2. "ok" \in {"ok", "error"} OBVIOUS
      <4> QED BY <1>8, <4>1, <4>2, FooterWritten, Footers, Zenon
    <3>2. Cardinality(closings(wrote')) = cfg'.expect BY <1>1, <1>6, <1>8, <1>10, <1>11, <2>1 DEF Missing
    <3>3. Told(<<"ok">>)' BY <1>1, <1>6, <1>9, <3>2 DEF Told
    <3>4. Ended(<<"ok">>)' BY <1>1, <1>13, <2>1, <3>3, RowsAssumption DEF Ended
    <3> QED BY <1>12, <3>1, <3>4, Footers, Zenon DEF RowsInv
  <2>2. CASE ~last
    <3>1. Written(buf', wrote', <<>>)
      <4>1. buf' = (buf \o add_row(id, f)) \o <<>> BY <1>4, <2>2, Zenon
      <4>2. buf \o add_row(id, f) \in Seq(Alphabet) BY <1>8, Zenon DEF Written
      <4>3. \A P : \A s \in Seq(P) : s \o <<>> = s OBVIOUS
      <4>4. buf' = buf \o add_row(id, f) BY <4>1, <4>2, <4>3, Zenon
      <4> QED BY <1>8, <4>4, Zenon
    <3>2. Missing' BY <1>1, <1>8, <1>10, <1>11, <2>2 DEF Missing
    <3>3. Ended(<<>>)' BY <1>1, <1>6, <1>9, <1>13, <2>2, <3>2 DEF Ended
    <3> QED BY <1>12, <3>1, <3>3, Footers, Zenon DEF RowsInv
  <2> QED BY <2>1, <2>2
<1>15. SocketInv'
  <2>1. CASE last BY <1>1, <2>1 DEF SocketInv
  <2>2. CASE ~last BY <1>1, <1>2, <2>2, SocketStays
  <2> QED BY <2>1, <2>2
<1>16. HeardInv' BY <1>1, <1>2, HeardStays
<1>17. file' = None BY <1>1, <1>2
<1> QED BY <1>1, <1>2, <1>14, <1>15, <1>16, <1>17, Carried

LEMMA TurnEndKeeps == PInv /\ TurnEnd => PInv'
<1> SUFFICES ASSUME PInv, TurnEnd PROVE PInv' OBVIOUS
<1>1. /\ pc \in {"turn", "again"} /\ pc' = "loop" /\ heard' = None
      /\ UNCHANGED <<opt, ep, cfg, run_id, sock, buf, wrote, file, code>>
  BY DEF TurnEnd
<1>2. opt \in Scenarios /\ Started /\ RowsInv /\ file = None /\ SocketInv BY <1>1, InProgress
<1>3. ~is_sender BY <1>1, <1>2 DEF RowsInv, Ended
<1>4. RowsInv' BY <1>1, <1>2, <1>3, Silent
<1>5. SocketInv' BY <1>1, <1>2, SocketStays
<1>6. HeardInv' BY <1>1 DEF HeardInv
<1>7. file' = None BY <1>1, <1>2
<1> QED BY <1>1, <1>2, <1>4, <1>5, <1>6, <1>7, Carried

LEMMA SaveKeeps == PInv /\ Save => PInv'
<1> SUFFICES ASSUME PInv, Save PROVE PInv' OBVIOUS
<1>1. /\ pc = "save" /\ UNCHANGED <<opt, ep, cfg, run_id, sock, buf, wrote, code, heard>>
      /\ \/ file' = [name |-> run_id, text |-> buf] /\ pc' = "exit"
         \/ file' = None /\ pc' \in {"exit", "abort"}
  BY DEF Save
<1>2. opt \in Scenarios /\ Started /\ RowsInv /\ file = None /\ HeardInv BY <1>1, InProgress
<1>3. Started' BY <1>1, <1>2, StartedStays
<1>4. RowsInv'
  <2>1. PICK ends \in Seq({"ok", "error"}) : Written(buf, wrote, ends) /\ Ended(ends) BY <1>2 DEF RowsInv
  <2>2. Told(ends)' BY <1>1, <2>1 DEF Ended, Told, Missing, is_sender
  <2>3. Len(wrote') \in 1 .. MaxRows + 1 BY <1>1, <2>1 DEF Ended
  <2>4. Ended(ends)' BY <1>1, <2>2, <2>3 DEF Ended
  <2>5. wrote' \in Seq(Lines')
    <3>1. Lines' = Lines /\ wrote' = wrote BY <1>1, LinesStay
    <3> QED BY <1>2, <3>1, Zenon DEF RowsInv
  <2>6. Written(buf', wrote', ends) BY <1>1, <2>1
  <2> QED BY <2>4, <2>5, <2>6, Zenon DEF RowsInv
<1>5. SocketInv' BY <1>1 DEF SocketInv
<1>6. HeardInv' BY <1>1, <1>2, HeardStays
<1>7. FileInv' BY <1>1, <1>3 DEF FileInv
<1>8. opt' \in Scenarios BY <1>1, <1>2
<1> QED BY <1>3, <1>4, <1>5, <1>6, <1>7, <1>8 DEF PInv

(* The command line, the buffer read as a table, the socket and the        *)
(* datagram of the turn stay in step through every action of main.         *)
THEOREM ProgramInvariance == Spec => []PInv
<1>1. Init => PInv BY Initially
<1>2. PInv /\ [Next]_vars => PInv'
  <2> SUFFICES ASSUME PInv, [Next]_vars PROVE PInv' OBVIOUS
  <2>1. CASE Leave BY <2>1, LeaveKeeps
  <2>2. CASE Begin BY <2>2, BeginKeeps
  <2>3. CASE OpenSocket BY <2>3, OpenSocketKeeps
  <2>4. CASE SocketError BY <2>4, SocketErrorKeeps
  <2>5. CASE SenderLoop BY <2>5, SentKeeps DEF SenderLoop
  <2>6. CASE ReceiverLoop BY <2>6, RecvKeeps, RecvRefusedKeeps, CloseKeeps, TurnEndKeeps DEF ReceiverLoop
  <2>7. CASE LoopError BY <2>7, LoopErrorKeeps
  <2>8. CASE Finish BY <2>8, FinishKeeps
  <2>9. CASE Save BY <2>9, SaveKeeps
  <2>10. CASE UNCHANGED vars
    <3>1. UNCHANGED <<opt, pc, ep, cfg, run_id, sock, buf, wrote, file, code, heard>> BY <2>10 DEF vars
    <3>2. Started' = Started BY <3>1 DEF Started, accepted, is_sender, sender_config, receiver_config
    <3>3. accepted' = accepted BY <3>1 DEF accepted, is_sender
    <3>4. NotStarted' = NotStarted BY <3>1, <3>3 DEF NotStarted
    <3>5. opened' = opened /\ calls' = calls BY <3>1, OpenedStays
    <3>6. SocketInv' = SocketInv BY <3>1, <3>5 DEF SocketInv
    <3>7. HeardInv' = HeardInv BY <3>1 DEF HeardInv
    <3>8. FileInv' = FileInv BY <3>1, <3>2 DEF FileInv
    <3>9. RowsInv => RowsInv'
      <4> SUFFICES ASSUME RowsInv PROVE RowsInv' OBVIOUS
      <4>1. PICK ends \in Seq({"ok", "error"}) : Written(buf, wrote, ends) /\ Ended(ends) BY DEF RowsInv
      <4>2. Ended(ends)' BY <3>1, <4>1 DEF Ended, Told, Missing, is_sender
      <4>3. wrote' \in Seq(Lines')
        <5>1. Lines' = Lines /\ wrote' = wrote BY <3>1, LinesStay
        <5> QED BY <5>1, Zenon DEF RowsInv
      <4>4. Written(buf', wrote', ends) BY <3>1, <4>1
      <4> QED BY <4>2, <4>3, <4>4, Zenon DEF RowsInv
    <3> QED BY <3>1, <3>2, <3>4, <3>6, <3>7, <3>8, <3>9 DEF PInv
  <2> QED BY <2>1, <2>2, <2>3, <2>4, <2>5, <2>6, <2>7, <2>8, <2>9, <2>10 DEF Next
<1> QED BY <1>1, <1>2, PTL DEF Spec

-----------------------------------------------------------------------------
LEMMA EndPointRead ==
  ASSUME opt \in Scenarios
  PROVE  LET t == without_tail(opt.text)
         IN /\ parses_endpoint(opt.text) <=> spells(t)
            /\ spells(t) => /\ parse_endpoint(opt.text) = spelled(t)
                            /\ spelled(t) \in [addr: [1 .. 4 -> 0 .. 255], port: 1 .. MaxPort]
            /\ spells(opt.text) => t = opt.text
<1>1. PICK s : s = opt.text OBVIOUS
<1>2. s \in Seq(Alphabet) BY <1>1, Scenario
<1>3. PICK t : t = without_tail(s) OBVIOUS
<1>4. /\ parses_endpoint(s) <=> spells(t)
      /\ spells(t) => parse_endpoint(s) = spelled(t)
      /\ spells(s) => t = s
  BY <1>2, <1>3, ParsesWhatIsSpelled
<1>5. ASSUME spells(t) PROVE spelled(t) \in [addr: [1 .. 4 -> 0 .. 255], port: 1 .. MaxPort]
  <2>1. PICK a, b, c, d \in 0 .. 255 : a = Numeral[t[1]] /\ b = Numeral[t[3]] /\ c = Numeral[t[5]] /\ d = Numeral[t[7]]
    <3>1. \A i \in {1, 3, 5, 7} : numeral(t[i], 0 .. 255) BY <1>5, Zenon DEF spells
    <3>2. \A i \in {1, 3, 5, 7} : Numeral[t[i]] \in 0 .. 255 BY <3>1, Zenon DEF numeral
    <3> QED BY <3>2
  <2>2. PICK p \in 1 .. MaxPort : p = Numeral[t[9]] BY <1>5, Zenon DEF spells, numeral
  <2>3. <<a, b, c, d>> \in [1 .. 4 -> 0 .. 255] OBVIOUS
  <2>4. spelled(t) = [addr |-> <<a, b, c, d>>, port |-> p] BY <2>1, <2>2, Zenon DEF spelled
  <2> HIDE DEF spelled
  <2>5. PICK q \in [1 .. 4 -> 0 .. 255] : q = <<a, b, c, d>> BY <2>3
  <2>6. spelled(t) = [addr |-> q, port |-> p] BY <2>4, <2>5, Zenon
  <2> QED BY <2>6
<1> QED BY <1>1, <1>3, <1>4, <1>5

(* What was accepted spells an end point, and that is the one in use.      *)
LEMMA EndPointKept ==
  ASSUME opt \in Scenarios, Started
  PROVE  /\ spells(without_tail(opt.text)) /\ ep = spelled(without_tail(opt.text))
         /\ ep \in [addr: [1 .. 4 -> 0 .. 255], port: 1 .. MaxPort] /\ ep # None
<1>1. parses_endpoint(opt.text) /\ ep = parse_endpoint(opt.text) BY DEF Started, accepted
<1>2. spells(without_tail(opt.text)) /\ ep = spelled(without_tail(opt.text))
  BY <1>1, EndPointRead
<1>3. ep \in [addr: [1 .. 4 -> 0 .. 255], port: 1 .. MaxPort] BY <1>2, EndPointRead
<1> QED BY <1>2, <1>3, NoneAssumption

LEMMA Typed == PInv => PTypeOK
<1> SUFFICES ASSUME PInv PROVE PTypeOK OBVIOUS
<1>1. opt \in Scenarios BY DEF PInv
<1>2. CASE NotStarted
  <2>1. Len(<<>>) = 0 /\ 0 \in 0 .. MaxRows + 1 BY RowsAssumption
  <2>2. Len(wrote) \in 0 .. MaxRows + 1 BY <1>2, <2>1, Zenon DEF NotStarted
  <2> QED BY <1>2, <2>2 DEF NotStarted, PTypeOK
<1>3. CASE Started /\ RowsInv
  <2>1. ep.addr \in [1 .. 4 -> 0 .. 255] /\ ep.port \in 1 .. MaxPort
    <3>1. ep \in [addr: [1 .. 4 -> 0 .. 255], port: 1 .. MaxPort] BY <1>1, <1>3, EndPointKept
    <3> QED BY <3>1
  <2>2. /\ run_id \in [0 .. 15 -> Byte]
        /\ run_id[6] \ (0 .. 3) = {6} /\ run_id[8] \cap {6, 7} = {7}
    BY <1>3, UuidIsVersion4, Zenon DEF Started
  <2>3. PICK ends \in Seq({"ok", "error"}) : Ended(ends) BY <1>3 DEF RowsInv
  <2>4. pc \in {"args", "socket", "loop", "turn", "again", "finish", "save", "exit", "abort"}
    BY <2>3 DEF Ended
  <2>5. code \in {0, 2, 3, 4} BY <2>3 DEF Ended, Told
  <2>6. Len(wrote) \in 1 .. MaxRows + 1 BY <2>3, RowsAssumption DEF Ended
  <2>7. Len(wrote) \in 0 .. MaxRows + 1 BY <2>6, RowsAssumption
  <2> QED BY <2>1, <2>2, <2>4, <2>5, <2>7 DEF PTypeOK
<1> QED BY <1>2, <1>3 DEF PInv

(* PTypeOK: the state is typed; in particular every address has four       *)
(* octets and a port in range, and every run id is a version 4 UUID.       *)
THEOREM ProgramTypeOK == Spec => []PTypeOK
BY ProgramInvariance, Typed, PTL

LEMMA AddressKept == PInv => AddressReadRight
<1> SUFFICES ASSUME PInv PROVE AddressReadRight OBVIOUS
<1>1. opt \in Scenarios BY DEF PInv
<1>2. ep # None => LET t == without_tail(opt.text) IN spells(t) /\ ep = spelled(t)
  BY <1>1, EndPointKept DEF PInv, NotStarted
<1>3. ASSUME pc = "exit", ep = None, opt.ask = "run", spells(opt.text)
      PROVE  \/ is_sender /\ ~(opt.N \in 1 .. 255 /\ opt.K \in 0 .. 4)
             \/ opt.mif = "" /\ spelled(opt.text).addr[1] \in 224 .. 239
  <2>1. ~accepted BY <1>1, <1>3, EndPointKept DEF PInv, NotStarted
  <2>2. parses_endpoint(opt.text) /\ parse_endpoint(opt.text) = spelled(opt.text)
    BY <1>1, <1>3, EndPointRead
  <2>3. spelled(opt.text).addr[1] \in 0 .. 255
    <3>1. PICK e \in [addr: [1 .. 4 -> 0 .. 255], port: 1 .. MaxPort] : e = spelled(opt.text)
      BY <1>1, <1>3, EndPointRead
    <3>2. 1 \in 1 .. 4 OBVIOUS
    <3> QED BY <3>1, <3>2
  <2>4. CASE is_sender /\ ~(opt.N \in 1 .. 255 /\ opt.K \in 0 .. 4) BY <2>4
  <2>5. CASE ipv4_is_multicast(spelled(opt.text).addr) /\ opt.mif = ""
    <3>1. PICK k \in 0 .. 255 : k = spelled(opt.text).addr[1] BY <2>3
    <3>2. k >= 224 /\ k <= 239 BY <2>5, <3>1, Zenon DEF ipv4_is_multicast
    <3>3. k \in 224 .. 239 BY <3>2
    <3> QED BY <2>5, <3>1, <3>3, Zenon
  <2> QED BY <2>1, <2>2, <2>4, <2>5 DEF accepted
<1> QED BY <1>2, <1>3 DEF AddressReadRight

(* AddressReadRight: parse_endpoint reads the end point that a text        *)
(* spells, or would spell without what follows a fourth dot; a text that   *)
(* spells one is refused only for N or K, or for a group without an        *)
(* interface.                                                              *)
THEOREM AddressIsReadRight == Spec => []AddressReadRight
BY ProgramInvariance, AddressKept, PTL

(* The datagram of the turn is one that may arrive.                        *)
LEMMA HeardThen ==
  ASSUME PInv, heard # None
  PROVE  heard.in = truncated(arriving(heard.sent)) /\ possible(heard.sent)
<1>1. PICK d \in opt.air : heard = [sent |-> d, in |-> truncated(arriving(d))]
  BY DEF PInv, HeardInv
<1>2. possible(d) BY Scenario DEF PInv
<1> QED BY <1>1, <1>2

LEMMA IntactKept == PInv => IntactIsUnderstood
<1> SUFFICES ASSUME PInv, heard # None, heard.sent.change.how = "none"
             PROVE  LET f == heard.sent.frame
                    IN /\ accepts_datagram(heard.in) <=> Len(datagram(f)) <= BufferSize
                       /\ accepts_datagram(heard.in) =>
                            decode_frame(heard.in) = contents(f) /\ received(heard.in, f.pay) = f
  BY DEF IntactIsUnderstood
<1>1. heard.in = truncated(arriving(heard.sent)) /\ possible(heard.sent) BY HeardThen
<1>2. PICK f : f = heard.sent.frame /\ sendable(f) BY <1>1 DEF possible
<1>3. PICK s \in Seq(Byte) : s = datagram(f) BY <1>2, DatagramType
<1>4. heard.in = truncated(s) BY <1>1, <1>2, <1>3 DEF arriving
<1>5. accepts_datagram(s) /\ decode_frame(s) = contents(f) /\ received(s, f.pay) = f
  BY <1>2, <1>3, Understood, Zenon
<1>6. Len(s) = offset_of(s) + length_of(s) + 4
  <2>1. Len(datagram(f)) = offset_of(datagram(f)) + length_of(datagram(f)) + 4
    BY <1>2, DatagramLength, Zenon
  <2> QED BY <1>3, <2>1, Zenon
<1>7. CASE Len(s) <= BufferSize
  <2>1. heard.in = s BY <1>4, <1>7 DEF truncated
  <2> QED BY <1>2, <1>3, <1>5, <1>7, <2>1, Zenon
<1>8. CASE ~(Len(s) <= BufferSize)
  <2>1. heard.in = SubSeq(s, 1, BufferSize) BY <1>4, <1>8 DEF truncated
  <2>2. BufferSize \in 0 .. Len(s) /\ BufferSize # Len(s) BY <1>8, BufferAssumption
  <2>3. PICK in \in Seq(Byte) : in = SubSeq(s, 1, BufferSize) BY <2>2, Parts
  <2>4. ~accepts_datagram(in)
    <3> SUFFICES ASSUME accepts_datagram(in) PROVE FALSE OBVIOUS
    <3>1. BufferSize = Len(s) BY <1>5, <1>6, <2>2, <2>3, OneCut
    <3> QED BY <2>2, <3>1
  <2> QED BY <1>2, <1>3, <1>8, <2>1, <2>3, <2>4, Zenon
<1> QED BY <1>7, <1>8

(* IntactIsUnderstood: whatever frame the sender made, a receiver whose    *)
(* buffer it fits reads from it, undamaged, every field, the payload and   *)
(* the checksum as they were written; one it does not fit is refused.      *)
THEOREM IntactIsAlwaysUnderstood == Spec => []IntactIsUnderstood
BY ProgramInvariance, IntactKept, PTL

LEMMA TrailerKept == PInv => TrailerIsRemainder
<1> SUFFICES ASSUME PInv, heard # None, accepts_datagram(heard.in)
             PROVE  decode_frame(heard.in).crc = crc_of(decode_frame(heard.in).payload)
  BY DEF TrailerIsRemainder
<1>1. heard.in \in Seq(Byte) BY HeardThen, WhatFits
<1> QED BY <1>1, Remainder

(* TrailerIsRemainder: the checksum of every datagram that is accepted,    *)
(* damaged ones included, is the CRC-32C of the payload taken from it.     *)
THEOREM TrailerIsAlwaysRemainder == Spec => []TrailerIsRemainder
BY ProgramInvariance, TrailerKept, PTL

(* A payload that was not sent lay complete, with its checksum, in the     *)
(* datagram that was sent.                                                 *)
ForeignIsNested ==
  heard # None /\ accepts_datagram(heard.in) =>
    LET payload == decode_frame(heard.in).payload
    IN \/ payload = <<>>
       \/ /\ heard.sent.change.how # "zeros"
          /\ payload = payload_of(heard.sent.frame) \/ nested(datagram(heard.sent.frame))

LEMMA ForeignKept == PInv => ForeignIsNested
<1> SUFFICES ASSUME PInv, heard # None, accepts_datagram(heard.in)
             PROVE  \/ decode_frame(heard.in).payload = <<>>
                    \/ /\ heard.sent.change.how # "zeros"
                       /\ \/ decode_frame(heard.in).payload = payload_of(heard.sent.frame)
                          \/ nested(datagram(heard.sent.frame))
  BY Zenon DEF ForeignIsNested
<1>1. heard.in = truncated(arriving(heard.sent)) /\ possible(heard.sent) BY HeardThen
<1>2. /\ accepts_datagram(arriving(heard.sent))
      /\ decode_frame(heard.in).payload = decode_frame(arriving(heard.sent)).payload
  BY <1>1, WhatFits, Zenon
<1> QED BY <1>1, <1>2, WhatArrives, Zenon

(* Whatever frame is sent, and whatever bit is flipped in it, header       *)
(* included, wherever it is cut or goes on: a receiver that accepts it     *)
(* takes no payload, or the one that was sent, or else one that lies       *)
(* before the end of the datagram with its own checksum behind it.         *)
THEOREM ForeignIsAlwaysNested == Spec => []ForeignIsNested
BY ProgramInvariance, ForeignKept, PTL

LEMMA NoForeignKept == ASSUME NothingNested PROVE PInv => NoForeignPayload
<1> SUFFICES ASSUME PInv, heard # None, accepts_datagram(heard.in)
             PROVE  \/ decode_frame(heard.in).payload = <<>>
                    \/ /\ heard.sent.change.how # "zeros"
                       /\ decode_frame(heard.in).payload = payload_of(heard.sent.frame)
  BY Zenon DEF NoForeignPayload
<1>1. ForeignIsNested BY ForeignKept
<1>2. PICK d \in opt.air : heard = [sent |-> d, in |-> truncated(arriving(d))]
  BY DEF PInv, HeardInv
<1>3. heard.sent = d BY <1>2
<1>4. ASSUME d.change.how # "zeros" PROVE ~nested(datagram(d.frame))
  <2>1. opt \in Scenarios BY DEF PInv
  <2>2. d.frame \in {e.frame : e \in {e \in opt.air : e.change.how # "zeros"}} BY <1>4
  <2> QED BY <2>1, <2>2, Zenon DEF NothingNested
<1> QED BY <1>1, <1>3, <1>4, Zenon DEF ForeignIsNested

(* NoForeignPayload, for every set of frames in which no payload holds     *)
(* another one with its checksum: an empty payload or the one sent.        *)
THEOREM NeverForeign == ASSUME NothingNested PROVE Spec => []NoForeignPayload
BY ProgramInvariance, NoForeignKept, PTL

-----------------------------------------------------------------------------
(* n pauses of the sender are no longer than the span the tracker          *)
(* computes: rounding down the pause loses at most what rounding up the    *)
(* span adds.                                                              *)
LEMMA SpanIsEnough ==
  ASSUME NEW n \in 1 .. 255, NEW fps \in 1 .. 1000
  PROVE  block_span_ms(n, fps) >= n * dt_ms(fps)
<1>1. PICK q \in Nat, r \in 0 .. fps - 1 : 1000 = fps * q + r /\ 1000 \div fps = q
  <2>1. 1000 \in Nat /\ fps \in Nat \ {0} OBVIOUS
  <2> QED BY <2>1, Divided
<1>2. q >= 1
  <2>1. fps * 0 = 0 OBVIOUS
  <2>2. CASE q = 0 BY <1>1, <2>1, <2>2
  <2> QED BY <2>2
<1>3. dt_ms(fps) = q BY <1>1, <1>2 DEF dt_ms
<1>4. PICK m \in Nat : m = 1000 * n + (fps - 1) OBVIOUS
<1>5. PICK z \in Nat, x \in 0 .. fps - 1 : m = fps * z + x /\ m \div fps = z
  <2>1. fps \in Nat \ {0} OBVIOUS
  <2> QED BY <1>4, <2>1, Divided
<1>6. block_span_ms(n, fps) = z BY <1>4, <1>5 DEF block_span_ms
<1>7. fps * (n * q) <= 1000 * n
  <2>1. PICK y \in Int : y = fps * q OBVIOUS
  <2>2. y <= 1000 BY <1>1, <2>1
  <2>3. n * y <= n * 1000 BY <2>2
  <2>4. fps * (n * q) = n * (fps * q) OBVIOUS
  <2>5. fps * (n * q) = n * y BY <2>1, <2>4, Zenon
  <2> QED BY <2>3, <2>5
<1>8. PICK w \in Nat : w = n * q OBVIOUS
<1>9. z >= w
  <2> SUFFICES ASSUME z + 1 <= w PROVE FALSE BY <1>5, <1>8
  <2>1. fps * (z + 1) <= fps * w OBVIOUS
  <2>2. fps * (z + 1) = fps * z + fps OBVIOUS
  <2>3. fps * w <= 1000 * n BY <1>7, <1>8, Zenon
  <2>4. PICK v, u \in Int : v = fps * z /\ u = fps * w OBVIOUS
  <2>5. v + fps <= u BY <2>1, <2>2, <2>4
  <2>6. u <= 1000 * n BY <2>3, <2>4, Zenon
  <2>7. m = v + x BY <1>5, <2>4, Zenon
  <2> QED BY <1>4, <1>5, <2>5, <2>6, <2>7
<1> QED BY <1>3, <1>6, <1>8, <1>9

LEMMA RateKept == PInv => TableGetsTheRate
<1> SUFFICES ASSUME PInv, cfg # None, ~is_sender
             PROVE  /\ opt.fps <= 1000 =>
                         \A n \in 1 .. 255 : block_span_ms(n, cfg.fps) >= n * dt_ms(at_least(opt.fps, 1, 30))
                    /\ cfg.reorder_ms >= 50 /\ cfg.expect >= 1
  BY DEF TableGetsTheRate
<1>1. cfg = receiver_config BY DEF PInv, NotStarted, Started
<1>2. opt.fps \in Int /\ opt.count \in Int /\ opt.reorder \in Int BY Scenario DEF PInv
<1>3. cfg.reorder_ms >= 50 /\ cfg.expect >= 1 BY <1>1, <1>2 DEF receiver_config, at_least
<1>4. ASSUME opt.fps <= 1000
      PROVE  \A n \in 1 .. 255 : block_span_ms(n, cfg.fps) >= n * dt_ms(at_least(opt.fps, 1, 30))
  <2>1. PICK fps \in 1 .. 1000 : fps = at_least(opt.fps, 1, 30) BY <1>2, <1>4 DEF at_least
  <2>2. cfg.fps = fps
    <3>1. power[16] \in Nat /\ power[16] > 1000 BY PowerValues
    <3>2. PICK P \in Nat : P = power[16] /\ P > 1000 BY <3>1
    <3>3. fps % P = fps BY <3>2
    <3>4. cfg.fps = at_least(opt.fps, 1, 30) % power[16] BY <1>1 DEF receiver_config
    <3> QED BY <2>1, <3>2, <3>3, <3>4, Zenon
  <2> QED BY <2>1, <2>2, SpanIsEnough, Zenon
<1> QED BY <1>3, <1>4

(* TableGetsTheRate: no sender with the same frame rate needs longer for   *)
(* its data frames than the receiver takes a block to span.                *)
THEOREM TableAlwaysGetsTheRate == Spec => []TableGetsTheRate
BY ProgramInvariance, RateKept, PTL

(* The two tests for a multicast address, of main and of the socket layer. *)
LEMMA MulticastAgrees ==
  ASSUME NEW e \in [addr: [1 .. 4 -> 0 .. 255], port: 1 .. MaxPort]
  PROVE  is_multicast(e.addr) <=> ipv4_is_multicast(e.addr)
<1>1. PICK a \in 0 .. 255 : a = e.addr[1] OBVIOUS
<1>2. a \div 16 = 14 <=> a >= 224 /\ a <= 239 BY <1>1
<1> QED BY <1>1, <1>2, Zenon DEF is_multicast, ipv4_is_multicast

LEMMA RangeOfJoined ==
  ASSUME NEW S, NEW s \in Seq(S), NEW t \in Seq(S)
  PROVE  s \o t \in Seq(S) /\ Range(s \o t) = Range(s) \cup Range(t)
<1>1. PICK n \in Nat, m \in Nat : n = Len(s) /\ m = Len(t) OBVIOUS
<1>2. PICK u \in Seq(S) : /\ u = s \o t /\ Len(u) = n + m
                         /\ \A i \in 1 .. n + m : u[i] = IF i <= n THEN s[i] ELSE t[i - n]
  <2>1. PICK u : u = s \o t OBVIOUS
  <2>2. /\ u \in Seq(S) /\ Len(u) = Len(s) + Len(t)
        /\ \A i \in 1 .. Len(s) + Len(t) : u[i] = IF i <= Len(s) THEN s[i] ELSE t[i - Len(s)]
    BY <2>1, ConcatProperties
  <2> QED BY <1>1, <2>1, <2>2
<1>3. DOMAIN s = 1 .. n /\ DOMAIN t = 1 .. m /\ DOMAIN u = 1 .. n + m BY <1>1, <1>2
<1>4. \A x : x \in Range(u) => x \in Range(s) \cup Range(t)
  <2> SUFFICES ASSUME NEW i \in 1 .. n + m PROVE u[i] \in Range(s) \cup Range(t) BY <1>3 DEF Range
  <2>1. CASE i <= n BY <1>2, <1>3, <2>1 DEF Range
  <2>2. CASE ~(i <= n)
    <3>1. i - n \in 1 .. m BY <2>2
    <3> QED BY <1>2, <1>3, <2>2, <3>1 DEF Range
  <2> QED BY <2>1, <2>2
<1>5. \A x \in Range(s) : x \in Range(u)
  <2> SUFFICES ASSUME NEW i \in 1 .. n PROVE s[i] \in Range(u) BY <1>3 DEF Range
  <2>1. i \in 1 .. n + m /\ i <= n OBVIOUS
  <2> QED BY <1>2, <1>3, <2>1 DEF Range
<1>6. \A x \in Range(t) : x \in Range(u)
  <2> SUFFICES ASSUME NEW i \in 1 .. m PROVE t[i] \in Range(u) BY <1>3 DEF Range
  <2>1. PICK k \in 1 .. n + m : k = n + i OBVIOUS
  <2>2. ~(k <= n) /\ k - n = i BY <2>1
  <2> QED BY <1>2, <1>3, <2>2 DEF Range
<1> QED BY <1>2, <1>4, <1>5, <1>6

LEMMA RangeOfOne == ASSUME NEW S, NEW a \in S PROVE <<a>> \in Seq(S) /\ Range(<<a>>) = {a}
BY DEF Range

LEMMA RangeOfFour ==
  ASSUME NEW S, NEW a \in S, NEW b \in S, NEW c \in S, NEW d \in S
  PROVE  /\ <<a>> \o (<<b>> \o <<c>> \o <<d>>) \in Seq(S)
         /\ Range(<<a>> \o (<<b>> \o <<c>> \o <<d>>)) = {a, b, c, d}
<1>1. PICK u, v, w, x \in Seq(S) :
        /\ u = <<a>> /\ v = <<b>> /\ w = <<c>> /\ x = <<d>>
        /\ Range(u) = {a} /\ Range(v) = {b} /\ Range(w) = {c} /\ Range(x) = {d}
  <2>1. /\ <<a>> \in Seq(S) /\ <<b>> \in Seq(S) /\ <<c>> \in Seq(S) /\ <<d>> \in Seq(S)
        /\ Range(<<a>>) = {a} /\ Range(<<b>>) = {b} /\ Range(<<c>>) = {c} /\ Range(<<d>>) = {d}
    BY RangeOfOne
  <2> QED BY <2>1, Zenon
<1>2. PICK s : s = v \o w OBVIOUS
<1>3. s \in Seq(S) /\ Range(s) = Range(v) \cup Range(w) BY <1>2, RangeOfJoined
<1>4. PICK t : t = s \o x OBVIOUS
<1>5. t \in Seq(S) /\ Range(t) = Range(s) \cup Range(x) BY <1>3, <1>4, RangeOfJoined
<1>6. PICK r : r = u \o t OBVIOUS
<1>7. r \in Seq(S) /\ Range(r) = Range(u) \cup Range(t) BY <1>5, <1>6, RangeOfJoined
<1>8. Range(r) = {a, b, c, d} BY <1>1, <1>3, <1>5, <1>7
<1>9. r = <<a>> \o (<<b>> \o <<c>> \o <<d>>) BY <1>1, <1>2, <1>4, <1>6, Zenon
<1> QED BY <1>7, <1>8, <1>9, Zenon

LEMMA RangeOfTuples ==
  ASSUME NEW S, NEW a \in S, NEW b \in S, NEW c \in S, NEW d \in S
  PROVE  /\ <<a>> \o <<>> \in Seq(S) /\ Range(<<a>> \o <<>>) = {a}
         /\ <<a, b, c>> \in Seq(S) /\ Range(<<a, b, c>>) = {a, b, c}
         /\ <<a, b, c, d>> \in Seq(S) /\ Range(<<a, b, c, d>>) = {a, b, c, d}
<1>1. <<a>> \o <<>> \in Seq(S) /\ Range(<<a>> \o <<>>) = {a}
  <2>1. PICK s \in Seq(S) : s = <<a>> /\ Range(s) = {a} BY RangeOfOne
  <2>2. s \o <<>> = s OBVIOUS
  <2> QED BY <2>1, <2>2, Zenon
<1>2. <<a, b, c>> \in Seq(S) /\ Range(<<a, b, c>>) = {a, b, c} BY DEF Range
<1>3. <<a, b, c, d>> \in Seq(S) /\ Range(<<a, b, c, d>>) = {a, b, c, d} BY DEF Range
<1> QED BY <1>1, <1>2, <1>3

(* A socket on which every call succeeded was refused none.                *)
LEMMA NoneRefused ==
  ASSUME NEW S, NEW cs \in Seq(S), NEW mif, NEW fails, made(cs, mif, fails) = Range(cs), NEW c \in Range(cs)
  PROVE  ~refused(c, mif, fails)
<1>1. PICK k \in DOMAIN cs : c = cs[k] /\ \A j \in 1 .. k : ~refused(cs[j], mif, fails)
  BY DEF made
<1>2. k \in 1 .. k BY <1>1
<1> QED BY <1>1, <1>2

Calls == {"open", "outbound_interface", "hops", "enable_loopback", "reuse_address", "bind", "join_group"}

LEMMA CallsKnown ==
  /\ <<"open">> \o (<<"outbound_interface">> \o <<"hops">> \o <<"enable_loopback">>) \in Seq(Calls)
  /\ Range(<<"open">> \o (<<"outbound_interface">> \o <<"hops">> \o <<"enable_loopback">>))
       = {"open", "outbound_interface", "hops", "enable_loopback"}
  /\ Range(<<"open">> \o <<>>) = {"open"}
  /\ <<"open", "reuse_address", "bind", "join_group">> \in Seq(Calls)
  /\ Range(<<"open", "reuse_address", "bind", "join_group">>) = {"open", "reuse_address", "bind", "join_group"}
  /\ Range(<<"open", "reuse_address", "bind">>) = {"open", "reuse_address", "bind"}
<1>1. PICK S : S = Calls OBVIOUS
<1>2. PICK a, b, c, d \in S : a = "open" /\ b = "outbound_interface" /\ c = "hops" /\ d = "enable_loopback"
  BY <1>1 DEF Calls
<1>3. PICK r, g, j \in S : r = "reuse_address" /\ g = "bind" /\ j = "join_group"
  BY <1>1 DEF Calls
<1>4. /\ <<a>> \o (<<b>> \o <<c>> \o <<d>>) \in Seq(S)
      /\ Range(<<a>> \o (<<b>> \o <<c>> \o <<d>>)) = {a, b, c, d}
  BY RangeOfFour
<1>5. /\ Range(<<a>> \o <<>>) = {a}
      /\ <<a, r, g, j>> \in Seq(S) /\ Range(<<a, r, g, j>>) = {a, r, g, j}
      /\ Range(<<a, r, g>>) = {a, r, g}
  BY RangeOfTuples
<1> QED BY <1>1, <1>2, <1>3, <1>4, <1>5, Zenon

LEMMA SocketKept == PInv => SocketIsReady
<1> SUFFICES ASSUME PInv, pc \in {"loop", "turn", "again", "finish"}
             PROVE  LET multicast == ipv4_is_multicast(ep.addr)
                    IN /\ multicast => opt.mif \in Interfaces
                       /\ is_sender =>
                            /\ DOMAIN sock = {"open"} \cup
                                 (IF multicast THEN {"outbound_interface", "hops", "enable_loopback"} ELSE {})
                            /\ sock.open = ep
                            /\ multicast =>
                                 /\ sock.outbound_interface = opt.mif
                                 /\ sock.hops \in 0 .. 255
                                 /\ \A n \in 0 .. 255 : /\ n > sock.hops => opt.ttl <= sock.hops
                                                       /\ n < sock.hops => opt.ttl >= sock.hops
                                 /\ sock.enable_loopback = (opt.loopback # 0)
                       /\ ~is_sender =>
                            /\ sock.bind.port = ep.port
                            /\ sock.bind.addr = IF multicast THEN <<0, 0, 0, 0>> ELSE ep.addr
                            /\ multicast = ("join_group" \in DOMAIN sock)
                            /\ multicast => sock.join_group = [group |-> ep.addr, interface |-> opt.mif]
  BY DEF SocketIsReady
<1>1. opt \in Scenarios /\ Started BY DEF PInv, NotStarted
<1>2. sock = opened /\ DOMAIN opened = Range(calls) BY DEF PInv, SocketInv
<1>3. ep \in [addr: [1 .. 4 -> 0 .. 255], port: 1 .. MaxPort] BY <1>1, EndPointKept
<1>4. is_multicast(ep.addr) <=> ipv4_is_multicast(ep.addr) BY <1>3, MulticastAgrees
<1>5. opt.ttl \in Int BY <1>1, Scenario
<1> DEFINE multicast == ipv4_is_multicast(ep.addr)
           cs == calls
<1>6. CASE is_sender
  <2>1. cfg = sender_config(multicast) BY <1>1, <1>6, Zenon DEF Started
  <2>2. /\ cfg.mttl = IF multicast THEN <<clamp_ttl(opt.ttl)>> ELSE <<>>
        /\ cfg.mloop = IF multicast THEN <<opt.loopback # 0>> ELSE <<>>
    BY <2>1 DEF sender_config
  <2>3. cs = configure_calls(ep, cfg.mttl, cfg.mloop) BY <1>6 DEF calls
  <2>4. opened = [c \in made(cs, opt.mif, opt.fails) |->
                   CASE c = "open" -> ep
                     [] c = "outbound_interface" -> opt.mif
                     [] c = "hops" -> clamp_ttl(cfg.mttl[1])
                     [] c = "enable_loopback" -> cfg.mloop[1]]
    BY <1>6, <2>3, Zenon DEF opened, open_and_configure
  <2>5. made(cs, opt.mif, opt.fails) = Range(cs) BY <1>2, <2>4
  <2> HIDE DEF cs, multicast
  <2>6. CASE multicast
    <3>1. cs = <<"open">> \o (<<"outbound_interface">> \o <<"hops">> \o <<"enable_loopback">>)
      <4>1. \A x : <<x>> # <<>> OBVIOUS
      <4>2. cfg.mttl # <<>> /\ cfg.mloop # <<>> BY <2>2, <2>6, <4>1, Zenon
      <4>3. is_multicast(ep.addr) BY <1>4, <2>6 DEF multicast
      <4> QED BY <2>3, <4>2, <4>3, Zenon DEF configure_calls
    <3>2. cs \in Seq(Calls) /\ Range(cs) = {"open", "outbound_interface", "hops", "enable_loopback"}
      BY <3>1, CallsKnown, Zenon
    <3>3. opt.mif \in Interfaces
      <4>1. "outbound_interface" \in Range(cs) BY <3>2
      <4>2. ~refused("outbound_interface", opt.mif, opt.fails) BY <2>5, <3>2, <4>1, NoneRefused
      <4> QED BY <4>2 DEF refused
    <3>4. sock = [c \in {"open", "outbound_interface", "hops", "enable_loopback"} |->
                   CASE c = "open" -> ep
                     [] c = "outbound_interface" -> opt.mif
                     [] c = "hops" -> clamp_ttl(cfg.mttl[1])
                     [] c = "enable_loopback" -> cfg.mloop[1]]
      BY <1>2, <2>4, <2>5, <3>2, Zenon
    <3>5. /\ DOMAIN sock = {"open", "outbound_interface", "hops", "enable_loopback"}
          /\ sock.open = ep /\ sock.outbound_interface = opt.mif /\ sock.hops = clamp_ttl(cfg.mttl[1])
          /\ sock.enable_loopback = cfg.mloop[1]
      BY <3>4
    <3>6. cfg.mttl[1] = clamp_ttl(opt.ttl) /\ cfg.mloop[1] = (opt.loopback # 0)
      <4>1. \A x : <<x>>[1] = x OBVIOUS
      <4>2. cfg.mttl = <<clamp_ttl(opt.ttl)>> /\ cfg.mloop = <<opt.loopback # 0>> BY <2>2, <2>6, Zenon
      <4> QED BY <4>1, <4>2
    <3>7. PICK hops : hops = sock.hops /\ hops = clamp_ttl(clamp_ttl(opt.ttl)) BY <3>5, <3>6, Zenon
    <3>8. /\ hops \in 0 .. 255
          /\ \A n \in 0 .. 255 : (n > hops => opt.ttl <= hops) /\ (n < hops => opt.ttl >= hops)
      <4>1. PICK ttl \in Int : ttl = opt.ttl BY <1>5
      <4>2. hops = clamp_ttl(clamp_ttl(ttl)) BY <3>7, <4>1, Zenon
      <4>3. PICK k \in 0 .. 255 : k = clamp_ttl(ttl) /\ (ttl \in 0 .. 255 => k = ttl) /\ (k > 0 => k <= ttl) /\ (k < 255 => k >= ttl)
        BY DEF clamp_ttl
      <4>4. hops = k BY <4>2, <4>3 DEF clamp_ttl
      <4> QED BY <4>1, <4>3, <4>4
    <3>9. sock.enable_loopback = (opt.loopback # 0) BY <3>5, <3>6, Zenon
    <3>10. DOMAIN sock = {"open"} \cup {"outbound_interface", "hops", "enable_loopback"} BY <3>5
    <3> QED BY <1>6, <2>6, <3>3, <3>5, <3>7, <3>8, <3>9, <3>10 DEF multicast
  <2>7. CASE ~multicast
    <3>1. cs = <<"open">> \o <<>>
      <4>1. ~is_multicast(ep.addr) BY <1>4, <2>7 DEF multicast
      <4> QED BY <2>3, <4>1, Zenon DEF configure_calls
    <3>2. Range(cs) = {"open"} BY <3>1, CallsKnown, Zenon
    <3>3. sock = [c \in {"open"} |->
                   CASE c = "open" -> ep
                     [] c = "outbound_interface" -> opt.mif
                     [] c = "hops" -> clamp_ttl(cfg.mttl[1])
                     [] c = "enable_loopback" -> cfg.mloop[1]]
      BY <1>2, <2>4, <2>5, <3>2, Zenon
    <3>4. DOMAIN sock = {"open"} /\ sock.open = ep BY <3>3
    <3> QED BY <1>6, <2>7, <3>4 DEF multicast
  <2> QED BY <2>6, <2>7
<1>7. CASE ~is_sender
  <2>3. cs = bind_calls(ep) BY <1>7 DEF calls
  <2>4. opened = [c \in made(cs, opt.mif, opt.fails) |->
                   CASE c = "open" -> TRUE
                     [] c = "reuse_address" -> TRUE
                     [] c = "bind" -> IF is_multicast(ep.addr) THEN [ep EXCEPT !.addr = AnyAddress] ELSE ep
                     [] c = "join_group" -> [group |-> ep.addr, interface |-> opt.mif]]
    BY <1>7, <2>3, Zenon DEF opened, open_and_bind
  <2>5. made(cs, opt.mif, opt.fails) = Range(cs) BY <1>2, <2>4
  <2> HIDE DEF cs, multicast
  <2>6. CASE multicast
    <3>1. cs = <<"open", "reuse_address", "bind", "join_group">> BY <1>4, <2>3, <2>6 DEF bind_calls, multicast
    <3>2. cs \in Seq(Calls) /\ Range(cs) = {"open", "reuse_address", "bind", "join_group"} BY <3>1, CallsKnown, Zenon
    <3>3. opt.mif \in Interfaces
      <4>1. "join_group" \in Range(cs) BY <3>2
      <4>2. ~refused("join_group", opt.mif, opt.fails) BY <2>5, <3>2, <4>1, NoneRefused
      <4> QED BY <4>2 DEF refused
    <3>4. sock = [c \in {"open", "reuse_address", "bind", "join_group"} |->
                   CASE c = "open" -> TRUE
                     [] c = "reuse_address" -> TRUE
                     [] c = "bind" -> IF is_multicast(ep.addr) THEN [ep EXCEPT !.addr = AnyAddress] ELSE ep
                     [] c = "join_group" -> [group |-> ep.addr, interface |-> opt.mif]]
      BY <1>2, <2>4, <2>5, <3>2, Zenon
    <3>5. is_multicast(ep.addr) BY <1>4, <2>6 DEF multicast
    <3>6. /\ "join_group" \in DOMAIN sock
          /\ sock.bind = [ep EXCEPT !.addr = AnyAddress]
          /\ sock.join_group = [group |-> ep.addr, interface |-> opt.mif]
      BY <3>4, <3>5
    <3>7. sock.bind.port = ep.port /\ sock.bind.addr = <<0, 0, 0, 0>> BY <1>3, <3>6 DEF AnyAddress
    <3> QED BY <1>7, <2>6, <3>3, <3>6, <3>7 DEF multicast
  <2>7. CASE ~multicast
    <3>1. cs = <<"open", "reuse_address", "bind">> BY <1>4, <2>3, <2>7 DEF bind_calls, multicast
    <3>2. Range(cs) = {"open", "reuse_address", "bind"} BY <3>1, CallsKnown, Zenon
    <3>4. sock = [c \in {"open", "reuse_address", "bind"} |->
                   CASE c = "open" -> TRUE
                     [] c = "reuse_address" -> TRUE
                     [] c = "bind" -> IF is_multicast(ep.addr) THEN [ep EXCEPT !.addr = AnyAddress] ELSE ep
                     [] c = "join_group" -> [group |-> ep.addr, interface |-> opt.mif]]
      BY <1>2, <2>4, <2>5, <3>2, Zenon
    <3>5. ~is_multicast(ep.addr) BY <1>4, <2>7 DEF multicast
    <3>6. "join_group" \notin DOMAIN sock /\ sock.bind = ep BY <3>4, <3>5
    <3>7. multicast \in BOOLEAN BY DEF multicast, ipv4_is_multicast
    <3>8. multicast = ("join_group" \in DOMAIN sock) BY <2>7, <3>6, <3>7
    <3> QED BY <1>7, <2>7, <3>6, <3>8 DEF multicast
  <2> QED BY <2>6, <2>7
<1> QED BY <1>6, <1>7

(* SocketIsReady: a loop runs only over a socket on which every call       *)
(* succeeded that the address needs, with the arguments the user gave.     *)
THEOREM SocketIsAlwaysReady == Spec => []SocketIsReady
BY ProgramInvariance, SocketKept, PTL

-----------------------------------------------------------------------------
(* The file as a reader finds it.                                          *)
LEMMA FileRead ==
  ASSUME PInv, file # None
  PROVE  /\ opt \in Scenarios /\ Started /\ pc = "exit" /\ wrote \in Seq(Lines)
         /\ \E ends \in Seq({"ok", "error"}) : Table(read_rows(file.text), wrote, ends) /\ Told(ends)
<1>1. Started /\ pc = "exit" /\ file = [name |-> run_id, text |-> buf] /\ opt \in Scenarios BY DEF PInv, FileInv
<1>2. RowsInv
  <2>1. ~NotStarted
    <3>1. ep # None BY <1>1, EndPointKept
    <3> QED BY <3>1 DEF NotStarted
  <2> QED BY <2>1 DEF PInv
<1>3. PICK ends \in Seq({"ok", "error"}) : Written(buf, wrote, ends) /\ Ended(ends) BY <1>2 DEF RowsInv
<1>4. Told(ends) BY <1>1, <1>3 DEF Ended
<1>5. Table(read_rows(buf), wrote, ends) BY <1>3, TableRead
<1>6. file.text = buf BY <1>1
<1> QED BY <1>1, <1>2, <1>4, <1>5, <1>6, Zenon DEF RowsInv

LEMMA FooterCells ==
  ASSUME NEW e PROVE footer(e)[1] = <<"# summary">> /\ footer(e)[4] = <<e>>
BY DEF footer

LEMMA FileKept == PInv => FileTellsTheExit
<1> SUFFICES ASSUME PInv PROVE FileTellsTheExit OBVIOUS
<1>1. ASSUME code = 2 PROVE file = None
  <2> SUFFICES ASSUME file # None PROVE FALSE OBVIOUS
  <2> QED BY <1>1, FileRead DEF Told
<1>2. ASSUME file # None
      PROVE  LET rows == read_rows(file.text)
                 foot == rows[Len(rows)]
                 closed == {r \in 2 .. Len(rows) - 1 : rows[r][7] = <<"block_closed">>}
             IN /\ foot[1] = <<"# summary">> /\ foot[4] \in {<<"ok">>, <<"error">>}
                /\ code # 0 <=> foot[4] = <<"error">> /\ Len(rows) = 3
                /\ ~is_sender => (foot[4] = <<"ok">> <=> Cardinality(closed) = cfg.expect)
  <2>1. opt \in Scenarios /\ Started /\ wrote \in Seq(Lines) BY <1>2, FileRead
  <2>2. PICK ends \in Seq({"ok", "error"}) : Table(read_rows(file.text), wrote, ends) /\ Told(ends)
    BY <1>2, FileRead
  <2>3. PICK rows : rows = read_rows(file.text) OBVIOUS
  <2>4. PICK n \in Nat : n = Len(wrote) BY <2>1
  <2>5. PICK m \in {1, 2}, e \in {"ok", "error"} :
          /\ m = Len(ends) /\ e = ends[m]
          /\ (code \in {3, 4} <=> e = "error" /\ n + m = 2)
          /\ code \notin {3, 4} => code = 0
    <3>1. CASE ends \in {<<"ok">>, <<"error">>} /\ (ends = <<"ok">> => code = 0)
                /\ (ends = <<"error">> => (code \in {3, 4} /\ n = 1) \/ (code = 0 /\ n # 1))
      <4>1. Len(ends) = 1 /\ ends[1] \in {"ok", "error"} BY <3>1
      <4>2. \A x, y : <<x>> = <<y>> <=> x = y OBVIOUS
      <4>3. ends = <<ends[1]>> BY <3>1
      <4>4. ends[1] = "ok" => ends = <<"ok">> BY <4>3
      <4>5. ends[1] = "error" => ends = <<"error">> BY <4>3
      <4>6. n + 1 = 2 <=> n = 1 OBVIOUS
      <4>7. 1 \in {1, 2} OBVIOUS
      <4>8. code \in {3, 4} <=> ends[1] = "error" /\ n + 1 = 2 BY <3>1, <4>1, <4>4, <4>5, <4>6
      <4>9. code \notin {3, 4} => code = 0 BY <3>1
      <4> QED BY <4>1, <4>7, <4>8, <4>9
    <3>2. CASE ends = <<"error", "ok">> /\ code = 0
      <4>1. Len(ends) = 2 /\ ends[2] = "ok" BY <3>2
      <4> QED BY <3>2, <4>1
    <3>3. <<"ok">> # <<"error">>
      OBVIOUS
    <3> QED BY <2>2, <2>4, <3>1, <3>2, <3>3 DEF Told
  <2>6. Len(rows) = 1 + n + m /\ rows[1 + n + m] = footer(e)
    <3>1. Table(rows, wrote, ends) BY <2>2, <2>3
    <3>2. m \in 1 .. Len(ends) BY <2>5
    <3> QED BY <2>4, <2>5, <3>1, <3>2 DEF Table
  <2>7. PICK f : f = rows[Len(rows)] /\ f[1] = <<"# summary">> /\ f[4] = <<e>>
    <3>1. rows[Len(rows)] = footer(e) BY <2>6
    <3> QED BY <3>1, FooterCells
  <2>8. f[4] \in {<<"ok">>, <<"error">>} BY <2>5, <2>7
  <2>9. f[4] = <<"error">> <=> e = "error"
    <3>1. \A x, y : <<x>> = <<y>> <=> x = y OBVIOUS
    <3> QED BY <2>7, <3>1, Zenon
  <2>10. f[4] = <<"ok">> <=> e = "ok"
    <3>1. \A x, y : <<x>> = <<y>> <=> x = y OBVIOUS
    <3> QED BY <2>7, <3>1, Zenon
  <2>11. code # 0 <=> f[4] = <<"error">> /\ Len(rows) = 3
    <3>1. Len(rows) = 3 <=> n + m = 2 BY <2>6
    <3>2. code # 0 <=> code \in {3, 4} BY <2>5
    <3> QED BY <2>5, <2>9, <3>1, <3>2
  <2>12. ASSUME ~is_sender
         PROVE f[4] = <<"ok">> <=>
                 Cardinality({r \in 2 .. Len(rows) - 1 : rows[r][7] = <<"block_closed">>}) = cfg.expect
    <3>1. Cardinality(closings(wrote)) \in Nat BY <2>1, ClosingsFinite
    <3>2. cfg.expect \in Int
      <4>1. cfg = receiver_config BY <2>1, <2>12 DEF Started
      <4> QED BY <2>1, <4>1, Scenario DEF receiver_config, at_least
    <3>3. /\ Len(ends) = 1
          /\ \/ ends = <<"ok">> /\ Cardinality(closings(wrote)) = cfg.expect
             \/ ends = <<"error">> /\ Missing
      BY <2>2, <2>12 DEF Told
    <3>4. Cardinality({r \in 2 .. Len(rows) - 1 : rows[r][7] = <<"block_closed">>}) = Cardinality(closings(wrote))
      <4>1. opt.app \in {"sender", "receiver"} /\ Table(rows, wrote, ends) BY <2>1, <2>2, <2>3, Scenario
      <4> QED BY <2>1, <3>3, <4>1, ClosingsRead
    <3>5. m = 1 BY <2>5, <3>3
    <3>6. CASE ends = <<"ok">> /\ Cardinality(closings(wrote)) = cfg.expect
      <4>1. e = "ok" BY <2>5, <3>5, <3>6
      <4> QED BY <2>10, <3>4, <3>6, <4>1
    <3>7. CASE ends = <<"error">> /\ Missing
      <4>1. e # "ok" BY <2>5, <3>5, <3>7
      <4>2. Cardinality(closings(wrote)) # cfg.expect BY <3>1, <3>2, <3>7 DEF Missing
      <4> QED BY <2>10, <3>4, <4>1, <4>2
    <3> QED BY <3>3, <3>6, <3>7
  <2> QED BY <2>3, <2>7, <2>8, <2>11, <2>12, Zenon
<1> QED BY <1>1, <1>2 DEF FileTellsTheExit

(* FileTellsTheExit: the file, as a reader finds it, ends in a footer that *)
(* agrees with the exit code and with the rows before it.                  *)
THEOREM FileAlwaysTellsTheExit == Spec => []FileTellsTheExit
BY ProgramInvariance, FileKept, PTL

LEMMA FirstTwo ==
  ASSUME NEW S, NEW t \in Seq(S), Len(t) >= 2
  PROVE  SubSeq(t, 1, 2) = <<t[1], t[2]>>
<1>1. \A i \in 1 .. 2 : t[i] \in S BY ElementOfSeq
<1>2. /\ SubSeq(t, 1, 2) \in Seq(S) /\ Len(SubSeq(t, 1, 2)) = 2
      /\ \A i \in 1 .. 2 - 1 + 1 : SubSeq(t, 1, 2)[i] = t[1 + i - 1]
  BY <1>1, SubSeqProperties
<1>3. 2 - 1 + 1 = 2 /\ 1 + 1 - 1 = 1 /\ 1 + 2 - 1 = 2 /\ 1 \in 1 .. 2 /\ 2 \in 1 .. 2 OBVIOUS
<1>4. PICK u \in Seq(S) : u = SubSeq(t, 1, 2) /\ Len(u) = 2 /\ u[1] = t[1] /\ u[2] = t[2]
  BY <1>2, <1>3, Zenon
<1>5. PICK v \in Seq(S) : v = <<t[1], t[2]>> /\ Len(v) = 2 /\ v[1] = t[1] /\ v[2] = t[2]
  <2>1. PICK a \in S, b \in S : a = t[1] /\ b = t[2] BY <1>1, <1>3, Zenon
  <2>2. <<a, b>> \in Seq(S) /\ Len(<<a, b>>) = 2 /\ <<a, b>>[1] = a /\ <<a, b>>[2] = b OBVIOUS
  <2> QED BY <2>1, <2>2, Zenon
<1>6. \A i \in 1 .. 2 : i = 1 \/ i = 2 OBVIOUS
<1>7. u = v BY <1>4, <1>5, <1>6, SeqEqual
<1> QED BY <1>4, <1>5, <1>7, Zenon

LEMMA ColumnsKept == PInv => ColumnsLineUp
<1> SUFFICES ASSUME PInv, file # None
             PROVE  LET rows == read_rows(file.text)
                    IN /\ rows[1] = prefix_twice(standard_header)
                       /\ \A r \in DOMAIN wrote : rows[1 + r] = prefix_twice(wrote[r])
                       /\ \A r \in 2 + Len(wrote) .. Len(rows) :
                            \E text \in {"ok", "error"} :
                              rows[r] = <<<<"# summary">>, schema_version, id, <<text>>>>
  BY DEF ColumnsLineUp
<1>1. opt \in Scenarios /\ wrote \in Seq(Lines) BY FileRead
<1>2. PICK ends \in Seq({"ok", "error"}) : Table(read_rows(file.text), wrote, ends) BY FileRead
<1>3. PICK rows : rows = read_rows(file.text) OBVIOUS
<1>4. /\ rows[1] = head /\ \A r \in 1 .. Len(wrote) : rows[1 + r] = line(wrote[r])
      /\ Len(rows) = 1 + Len(wrote) + Len(ends)
      /\ \A e \in 1 .. Len(ends) : rows[1 + Len(wrote) + e] = footer(ends[e])
  <2>1. Table(rows, wrote, ends) BY <1>2, <1>3
  <2> QED BY <2>1 DEF Table
<1>5. head = prefix_twice(standard_header)
  <2>1. PICK S, s : S = Seq(Alphabet) /\ s = standard_header OBVIOUS
  <2>2. s \in Seq(S) /\ Len(s) = 8
    BY <2>1, MainsPieces, EightCells, Zenon DEF standard_header
  <2>3. SubSeq(s, 1, 2) = <<s[1], s[2]>> BY <2>2, FirstTwo
  <2>4. s[1] = <<"schema_version">> /\ s[2] = <<"run_uuid">> BY <2>1 DEF standard_header
  <2> QED BY <2>1, <2>3, <2>4, Zenon DEF head, prefix_twice
<1>6. ASSUME NEW r \in DOMAIN wrote PROVE rows[1 + r] = prefix_twice(wrote[r])
  <2>1. PICK f \in Lines : f = wrote[r] BY <1>1
  <2>2. r \in 1 .. Len(wrote) BY <1>1
  <2>3. rows[1 + r] = line(f) BY <1>4, <2>1, <2>2, Zenon
  <2>4. opt.app \in {"sender", "receiver"} BY <1>1, Scenario
  <2>5. f[1] = schema_version /\ f[2] = id /\ f \in Cells /\ Len(f) = 8 BY <2>4, LineCells
  <2>6. PICK S : S = Seq(Alphabet) OBVIOUS
  <2>7. f \in Seq(S) /\ Len(f) >= 2 BY <2>5, <2>6 DEF Cells
  <2>8. SubSeq(f, 1, 2) = <<f[1], f[2]>> BY <2>7, FirstTwo
  <2> QED BY <2>1, <2>3, <2>5, <2>8, Zenon DEF line, prefix_twice
<1>7. ASSUME NEW r \in 2 + Len(wrote) .. Len(rows)
      PROVE  \E text \in {"ok", "error"} :
               rows[r] = <<<<"# summary">>, schema_version, id, <<text>>>>
  <2>1. PICK n, m \in Nat : n = Len(wrote) /\ m = Len(ends) BY <1>1, <1>2
  <2>2. PICK e \in 1 .. m : r = 1 + n + e
    <3>1. r \in 2 + n .. 1 + n + m BY <1>4, <2>1
    <3>2. r - n - 1 \in 1 .. m /\ r = 1 + n + (r - n - 1) BY <3>1
    <3> QED BY <3>2
  <2>3. rows[r] = footer(ends[e]) BY <1>4, <2>1, <2>2, Zenon
  <2>4. ends[e] \in {"ok", "error"} BY <1>2, <2>1, ElementOfSeq
  <2> QED BY <2>3, <2>4, Zenon DEF footer
<1> QED BY <1>3, <1>4, <1>5, <1>6, <1>7, Zenon

(* ColumnsLineUp: a reader gets back the header, every row under it cell   *)
(* by cell with the first two twice, and the footers, whatever the text of *)
(* the address.                                                            *)
THEOREM ColumnsAlwaysLineUp == Spec => []ColumnsLineUp
BY ProgramInvariance, ColumnsKept, PTL
=============================================================================
