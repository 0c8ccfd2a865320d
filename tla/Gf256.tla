-------------------------------- MODULE Gf256 --------------------------------
(***************************************************************************)
(* The field of 256 elements as gf256.cpp and gf256_decode.cpp build it    *)
(* (each has its own copy of the tables).  A byte is the set of its 1 bits *)
(* and addition, exclusive or, is symmetric difference.                    *)
(***************************************************************************)
EXTENDS Integers, FiniteSets, TLC

Bit == 0 .. 7
Byte == SUBSET Bit

gf_add(x, y) == (x \ y) \cup (y \ x)

(* A function that TLC works out once.                                     *)
table(f) == f @@ <<>>

(* The exclusive or of f[k] over k \in S.                                  *)
xor_sum(S, f) == {n \in Bit : Cardinality({k \in S : n \in f[k]}) % 2 = 1}

kPoly == {0, 2, 3, 4, 8}   \* 0x11D

times_alpha ==
  [y \in Byte |-> LET z == {k + 1 : k \in y} IN IF 8 \in z THEN gf_add(z, kPoly) ELSE z]

(* y times alpha^n, for n up to 16; and every sixteenth power of alpha.    *)
passes[y \in Byte, n \in 0 .. 16] == IF n = 0 THEN y ELSE times_alpha[passes[y, n - 1]]
milestones[q \in 0 .. 15] == IF q = 0 THEN {0} ELSE passes[milestones[q - 1], 16]
power(e) == passes[milestones[e \div 16], e % 16]

(* The table is continued so that two logarithms can be added unreduced.   *)
exp == table([e \in 0 .. 511 |-> power(e % 255)])

log == table([y \in Byte \ {{}} |-> CHOOSE e \in 0 .. 254 : exp[e] = y])

gf_mul(x, y) == IF x = {} \/ y = {} THEN {} ELSE exp[log[x] + log[y]]

gf_inv(x) == exp[255 - log[x]]

gf_pow_alpha(e) == exp[e % 255]

(* What the tables above come to.  This assumes nothing of a parameter:    *)
(* every fact is closed, and TLC evaluates it for all 256 bytes.           *)
ASSUME FieldTables ==
  /\ exp \in [0 .. 511 -> Byte \ {{}}] /\ log \in [Byte \ {{}} -> 0 .. 254]
  /\ exp[0] = {0}
  /\ \A y \in Byte \ {{}} : exp[log[y]] = y
  /\ \A e \in 0 .. 511 : log[exp[e]] = e % 255
  /\ \A x, y \in Byte : \A n \in Bit \ y :
       gf_mul(x, y \cup {n}) = gf_add(gf_mul(x, y), gf_mul(x, {n}))

(* Among the first 21 powers no three add up to zero.                      *)
ASSUME NoThreeAddUp ==
  \A d, e, f \in 0 .. 20 : gf_add(gf_add(exp[d], exp[e]), exp[f]) # {}
=============================================================================
