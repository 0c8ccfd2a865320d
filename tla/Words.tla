------------------------------- MODULE Words -------------------------------
(***************************************************************************)
(* Unsigned integers as the sets of their 1 bits: what the code does with  *)
(* ^, << and >> on uint32_t, and how endian.h cuts them into bytes.        *)
(***************************************************************************)
EXTENDS Integers, FiniteSets

Byte == SUBSET (0 .. 7)
Word16 == SUBSET (0 .. 15)
Word32 == SUBSET (0 .. 31)

xor(x, y) == (x \ y) \cup (y \ x)
shl(x, n) == {b \in 0 .. 31 : b - n \in x}
shr(x, n) == {b \in 0 .. 31 : b + n \in x}

(* The byte at offset k of a little-endian word.                           *)
byte_of(x, k) == {b \in 0 .. 7 : b + 8 * k \in x}

(* The little-endian words that begin with s[o].                           *)
read_u16_le(s, o) == {b \in 0 .. 15 : b % 8 \in s[o + b \div 8]}
read_u32_le(s, o) == {b \in 0 .. 31 : b % 8 \in s[o + b \div 8]}

power[b \in 0 .. 30] == IF b = 0 THEN 1 ELSE 2 * power[b - 1]   \* 2 ^ b

bits(n) == {b \in 0 .. 30 : (n \div power[b]) % 2 = 1}

(* The value of the low 31 bits, in a form that needs no recursion.        *)
number(x) ==
  LET value[n \in 0 .. 31] ==
        IF n = 0 THEN 0 ELSE value[n - 1] + (IF n - 1 \in x THEN power[n - 1] ELSE 0)
  IN value[31]
=============================================================================
