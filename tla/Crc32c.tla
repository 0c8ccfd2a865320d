------------------------------- MODULE Crc32c -------------------------------
(***************************************************************************)
(* The table-driven checksum of crc32c.cpp, and what it should be: the     *)
(* remainder of a division of polynomials over GF(2).                      *)
(***************************************************************************)
EXTENDS Words, Sequences

kPoly == {3, 4, 5, 6, 8, 9, 11, 12, 13, 17, 18, 20, 21, 22, 23, 25, 31}  \* 0x82F63B78

(* One bit of the register is shifted out.                                 *)
shifted(c) == IF 0 \in c THEN xor(shr(c, 1), kPoly) ELSE shr(c, 1)

table == [i \in Byte |-> LET c[k \in 0 .. 8] == IF k = 0 THEN i ELSE shifted(c[k - 1]) IN c[8]]

crc32c_update(state, data) ==
  LET crc[n \in 0 .. Len(data)] ==
        IF n = 0 THEN state
        ELSE LET c == crc[n - 1] IN xor(table[byte_of(xor(c, data[n]), 0)], shr(c, 8))
  IN crc[Len(data)]

(* The bits are inverted in the end.                                       *)
crc32c_finish(state) == (0 .. 31) \ state

(* Bug: the last byte is left out.                                         *)
crc32c_short(data) ==
  crc32c_finish(crc32c_update(0 .. 31, IF data = <<>> THEN data ELSE SubSeq(data, 1, Len(data) - 1)))

crc32c(data) == crc32c_finish(crc32c_update(0 .. 31, data))

-----------------------------------------------------------------------------
(* The bits of data in the order they are sent, as a polynomial: the set   *)
(* of the exponents of x, the first bit with the highest; the first 32     *)
(* coefficients are inverted.                                              *)
message(data) ==
  LET bit(e) == 8 * Len(data) - 1 - e
      sent == {e \in 0 .. 8 * Len(data) - 1 : bit(e) % 8 \in data[1 + bit(e) \div 8]}
  IN xor({e + 32 : e \in sent}, 8 * Len(data) .. 8 * Len(data) + 31)

(* x^32 + ... + 1, kPoly read backwards.                                   *)
generator == {32} \cup {31 - b : b \in kPoly}

remainder(p, degree) ==
  LET rest[d \in 32 .. degree + 1] ==
        IF d > degree THEN p
        ELSE LET r == rest[d + 1]
             IN IF d \in r THEN xor(r, {e + d - 32 : e \in generator}) ELSE r
  IN rest[32]

(* CRC-32C: the remainder, inverted, lowest exponent last.                 *)
crc_of(data) ==
  (0 .. 31) \ {31 - e : e \in remainder(message(data), 8 * Len(data) + 31)}
=============================================================================
