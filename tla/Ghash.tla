------------------------------- MODULE Ghash --------------------------------
(***************************************************************************)
(* aes/ghash.c: multiplication in GF(2^128) with tables of the multiples   *)
(* of the hash key. An element is the set of its exponents: exponent e is  *)
(* bit 127-e of the 128-bit number zh:zl, and bit 7-(e%8) of byte e/8.     *)
(***************************************************************************)
EXTENDS Bytes

Poly == {0, 1, 2, 7}                         \* x^128, which is 0xe1 << 120

Element(b) == {e \in 0..127 : (7 - (e % 8)) \in b[e \div 8]}
Buf(z)     == [j \in 0..(BlockLen - 1) |-> {q \in Bits : (8 * j + 7 - q) \in z}]

\* One and four bits to the right.
ShiftRight(z, n) == {e + n : e \in {f \in z : f + n < 128}}
TimesX(z)   == ShiftRight(z, 1) (+) (IF 127 \in z THEN Poly ELSE {})

\* ghash_init. The tables HH and HL are indexed by four bits, 8 standing for 1.
ghash_init(h) ==
  LET z0 == Element(h)
      z1 == TimesX(z0)  z2 == TimesX(z1)  z3 == TimesX(z2)
      v  == [q \in 0..3 |-> CASE q = 3 -> z0 [] q = 2 -> z1 [] q = 1 -> z2 [] q = 0 -> z3]
  IN  [n \in 0..15 |-> XorAll({q \in 0..3 : q \in NumByte(n)}, v)]

last4 == <<\h0000, \h1c20, \h3840, \h2460, \h7080, \h6ca0, \h48c0, \h54e0,
           \he100, \hfd20, \hd940, \hc560, \h9180, \h8da0, \ha9c0, \hb5e0>>

\* zh ^= last4[rem] << 48: bit q of the entry is bit 112 + q of zh:zl.
Last4 == [n \in 0..15 |-> {e \in 0..15 : (last4[n + 1] \div 2^(15 - e)) % 2 = 1}]

Rem(z) == Bit(127, z) + 2 * Bit(126, z) + 4 * Bit(125, z) + 8 * Bit(124, z)

Shift4(z) == ShiftRight(z, 4) (+) Last4[Rem(z)]

\* Slip: the nibbles of a byte are taken in the other order.
NibbleHighFirst(x, n) == LET v == Value(x[15 - (n \div 2)])
                         IN  IF n % 2 = 0 THEN v \div 16 ELSE v % 16

\* The four bits the n-th step of gcm_mult takes: lo and hi of byte 15, then
\* of byte 14, and so on.
Nibble(x, n) == LET v == Value(x[15 - (n \div 2)])
                IN  IF n % 2 = 0 THEN v % 16 ELSE v \div 16

gcm_mult(table, x) ==
  LET Z[n \in 0..31] ==
        IF n = 0 THEN table[Nibble(x, 0)]
                 ELSE Once(Z[n - 1], LAMBDA z : Shift4(z) (+) table[Nibble(x, n)])
  IN  Buf(Z[31])

ghash_process_block(table, hash, block) ==
  Once(XorBlock(hash, block), LAMBDA x : gcm_mult(table, x))

(***************************************************************************)
(* What both modes with this hash put into it: the blocks of associated    *)
(* data, those of the message or ciphertext, and a block of the lengths.   *)
(***************************************************************************)
\* Block b of n bytes of data, with zeros behind them.
ZeroPadded(data, n, b) ==
  [j \in 0..(BlockLen - 1) |->
     IF b * BlockLen + j < n THEN data[b * BlockLen + j] ELSE Zero]

HashInput(ad, adlen, data, len, lengths, b) ==
  LET A == BlocksOf(adlen)
      D == BlocksOf(len)
  IN  CASE b < A              -> ZeroPadded(ad, adlen, b)
        [] b \in A..(A+D-1)   -> ZeroPadded(data, len, b - A)
        [] b = A + D          -> lengths
=============================================================================
