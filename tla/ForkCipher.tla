----------------------------- MODULE ForkCipher -----------------------------
(***************************************************************************)
(* A small fork cipher for model checking, in place of forkskinny: each    *)
(* output is a Feistel network over the S-box of AES. Salts are the bytes  *)
(* that tweak and output add to those of a half, in each of four rounds.   *)
(* There is one for the tweaks of Jolteon and one for those of Espeon.     *)
(***************************************************************************)
EXTENDS Aes

\* The round function, of a half of eight bytes.
Round(salt, half) ==
  [q \in 0..7 |->
     SubByte(half[q] (+) (SubByte(half[(q + 1) % 8] (+) salt[q])
                     (+)  SubByte(half[(q + 3) % 8])))]

\* One round takes the second half into the first and swaps them.
Forth(salt, x) ==
  LET f == Round(salt, [q \in 0..7 |-> x[q + 8]])
  IN  [q \in 0..15 |-> IF q < 8 THEN x[q + 8] ELSE x[q - 8] (+) f[q - 8]]
Back(salt, x) ==
  LET f == Round(salt, [q \in 0..7 |-> x[q]])
  IN  [q \in 0..15 |-> IF q < 8 THEN x[q + 8] (+) f[q] ELSE x[q - 8]]

Forth4(s, x) ==
  Full(Forth(s[3], Full(Forth(s[2], Full(Forth(s[1], Full(Forth(s[0], x))))))))
Back4(s, x) ==
  Full(Back(s[0], Full(Back(s[1], Full(Back(s[2], Full(Back(s[3], x))))))))

\* Of Jolteon a tweak is the nonce and a word.
JolteonSalts(tweak, leg) ==
  [r \in 0..3 |-> [q \in 0..7 |->
     LET v == leg + 5 * r + 11 * q + 3 * tweak.w + (IF tweak.msg THEN 128 ELSE 0)
     IN  tweak.npub[q] (+) (tweak.npub[q + 6] (+) NumByte(v % 256))]]

\* Of Espeon it is bytes: four of a wide tweak or two of a narrow one.
Folded(tweak) == [l \in 0..7 |-> XorAll({n \in DOMAIN tweak : n % 8 = l}, tweak)]
EspeonSalts(tweak, leg) ==
  LET f == Full(Folded(tweak))
  IN  [r \in 0..3 |-> [q \in 0..7 |-> NumByte((leg + 5 * r + 11 * q) % 256) (+) f[(q + r) % 8]]]

\* A tweak of Jolteon has three fields.
OfJolteon(tweak) == Cardinality(DOMAIN tweak) = 3
Salts(tweak, leg) ==
  IF OfJolteon(tweak) THEN JolteonSalts(tweak, leg) ELSE EspeonSalts(tweak, leg)

\* n bytes that look like none of the others.
Text(n, seed) == [q \in 0..(n-1) |-> NumByte((seed + 37 * q + 11 * q * q) % 256)]
=============================================================================
