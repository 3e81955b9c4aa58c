------------------------------ MODULE MpcModes ------------------------------
(***************************************************************************)
(* The decryptions of MPC/code: aes_gcm.py, aes_gcm_siv.py, aes_pobc64.py  *)
(* and aes_pobc_siv.py. Every one of them returns the verdict of tag_check *)
(* and the message. E stands for the cipher of aes_gf_long.py between      *)
(* bytes; inside that module a byte is embedded in the field.              *)
(***************************************************************************)
EXTENDS Blocks, MpcAes

\* tag_check compares the eight lowest bits of every cell.
tag_check(public, secret) ==
  IF \A j \in 0..15 : public[j] \cap Bits = secret[j] \cap Bits THEN 1 ELSE 0

\* A number as the bytes of a big- or little-endian word of n bytes.
BE(v, n) == [j \in 0..(n-1) |-> IF n - 1 - j > 3 THEN Zero ELSE NumByte((v \div 256^(n-1-j)) % 256)]
LE(v, n) == [j \in 0..(n-1) |-> IF j > 3 THEN Zero ELSE NumByte((v \div 256^j) % 256)]

\* data from position k on, to a whole block, with zeros behind it.
BlockOf(data, len, k) ==
  [j \in 0..(BlockLen - 1) |-> IF k + j < len THEN data[k + j] ELSE Zero]

\* b behind a.
Behind(a, la, b) == Put(a, la, b)

(***************************************************************************)
(* GHASH in the field of the computation                                   *)
(***************************************************************************)
into_gf2_128(block) == UNION {{8 * j + 7 - q : q \in block[j]} : j \in 0..(BlockLen - 1)}
from_gf2_128(x)     == [j \in 0..(BlockLen - 1) |-> {q \in Bits : 8 * j + 7 - q \in x}]

\* Slip: complete blocks only.
ghashComplete(data, len, lengths, key) ==
  LET h == into_gf2_128(key)
      X(b) == into_gf2_128(IF b < len \div BlockLen THEN BlockOf(data, len, b * BlockLen)
                                                    ELSE lengths)
      T[b \in 0..((len \div BlockLen) + 1)] ==
        IF b = 0 THEN {} ELSE Once(T[b - 1], LAMBDA t : Mul(t (+) X(b - 1), h))
  IN  from_gf2_128(T[(len \div BlockLen) + 1])

\* The hash of len bytes of data and of a block of lengths, as bytes.
ghash(data, len, lengths, key) ==
  LET h == into_gf2_128(key)
      X(b) == into_gf2_128(IF b < BlocksOf(len) THEN BlockOf(data, len, b * BlockLen)
                                               ELSE lengths)
      T[b \in 0..(BlocksOf(len) + 1)] ==
        IF b = 0 THEN {} ELSE Once(T[b - 1], LAMBDA t : Mul(t (+) X(b - 1), h))
  IN  from_gf2_128(T[BlocksOf(len) + 1])

\* Counter mode, blocks being the counter blocks.
aes_ctr_dec(k, blocks, c, len) ==
  LET mask == [b \in 0..(BlocksOf(len) - 1) |-> E(k, blocks[b])]
  IN  [j \in 0..(len - 1) |-> c[j] (+) mask[j \div BlockLen][j % BlockLen]]

(***************************************************************************)
(* aes_gcm_128_decrypt                                                     *)
(***************************************************************************)
\* The first counter as aes_ctr_dec reads it: byte n counts 2^(3-n).
ParsedCounter(b) == Value(Sum(0..3, [n \in 0..3 |-> {q + 3 - n : q \in b[n]}]))

aes_gcm_128_decrypt(k, nonce, c, len, tag) ==
  LET ctr == ParsedCounter(BE(2, 4))
      At(v) == Behind(nonce, NonceLen, BE(v, 4))
      blocks == [b \in 0..(BlocksOf(len) - 1) |-> At((ctr + b) % WordSize)]
      s == ghash(c, len, Behind(BE(0, 8), 8, BE(8 * len, 8)), E(k, Zeros(BlockLen)))
  IN  [check |-> tag_check(tag, XorBlock(s, E(k, At(1)))),
       m     |-> aes_ctr_dec(k, blocks, c, len)]

(***************************************************************************)
(* aes_gcm_siv_128_decrypt                                                 *)
(***************************************************************************)
\* Half a key: the first eight bytes of the cipher of a number and the nonce.
Half(k, nonce, v) == Slice(E(k, Behind(LE(v, 4), 4, nonce)), 0, 8)
derive_keys(k, nonce) ==
  [auth |-> Behind(Half(k, nonce, 0), 8, Half(k, nonce, 1)),
   enc  |-> Schedule(Behind(Half(k, nonce, 2), 8, Half(k, nonce, 3)))]

\* The tag with its top bit set; its first four bytes count.
IncLEBy(tag, n) ==
  LET At[b \in 0..n] ==
        IF b = 0 THEN Slice(tag, 0, 4)
        ELSE Once(At[b - 1], LAMBDA word :
               [j \in 0..3 |-> IF \A l \in 0..(j-1) : word[l] = Ones
                               THEN IncByte(word[j]) ELSE word[j]])
  IN  Put([tag EXCEPT ![15] = @ \cup {7}], 0, At[n])

aes_gcm_siv_128_decrypt(k, nonce, c, len, tag) ==
  LET blocks == [b \in 0..(BlocksOf(len) - 1) |-> IncLEBy(tag, b)]
  IN  Once(derive_keys(k, nonce), LAMBDA keys :
        Once(aes_ctr_dec(keys.enc, blocks, c, len), LAMBDA m :
          LET s == ghash(m, len, Behind(LE(0, 8), 8, LE(8 * len, 8)), keys.auth)
              t == [j \in 0..15 |-> CASE j < NonceLen     -> s[j] (+) nonce[j]
                                      [] j \in NonceLen..14 -> s[j]
                                      [] j = 15           -> s[j] \ {7}]
          IN  [check |-> tag_check(tag, E(keys.enc, t)), m |-> m]))

(***************************************************************************)
(* aes_pobc64_128_decrypt and aes_pobc_siv_128_decrypt                     *)
(***************************************************************************)
\* What embedding reads of a cell: its eight lowest bits.
Low(block) == [j \in DOMAIN block |-> block[j] \cap Bits]

\* aes_encrypt_block: the output is left embedded.
aes_encrypt_block(k, block) ==
  Once(E(k, Low(block)), LAMBDA o : [j \in 0..15 |-> ApplyEmbedding(o[j])])

\* The counters of the tag's blocks begin with 2^31, the message's do not.
TagWord(n) == Put(BE(n, 4), 0, [j \in {0} |-> {7}])

\* The blocks of the tag: a counter and twelve bytes of data, padded with 0x80.
TagBlocks(len) == (len \div 12) + 1
TagBlockOf(data, len, b) ==
  Behind(TagWord(b), 4, [j \in 0..11 |-> CASE 12 * b + j < len -> data[12 * b + j]
                                           [] 12 * b + j = len -> Pad
                                           [] 12 * b + j > len -> Zero])

\* The sum of the outputs for the tag's blocks.
TagSum(k, data, len) ==
  LET out == [b \in 0..(TagBlocks(len) - 1) |-> aes_encrypt_block(k, TagBlockOf(data, len, b))]
  IN  [j \in 0..15 |-> Sum(DOMAIN out, [b \in DOMAIN out |-> out[b][j]])]

\* The message, blocks being the counter blocks.
Unmasked(k, blocks, c, len) ==
  LET mask == [b \in 0..(BlocksOf(len) - 1) |-> aes_encrypt_block(k, blocks[b])]
  IN  [j \in 0..(len - 1) |-> c[j] (+) mask[j \div BlockLen][j % BlockLen]]

aes_pobc64_128_decrypt(k, nonce, c, len, tag) ==
  LET blocks == [b \in 0..(BlocksOf(len) - 1) |-> Behind(BE(b + 1, 4), 4, nonce)]
      own == XorBlock(aes_encrypt_block(k, Behind(BE(0, 4), 4, nonce)), TagSum(k, c, len))
  IN  [check |-> tag_check(own, tag), m |-> Unmasked(k, blocks, c, len)]

\* The nonce of the call is the first twelve bytes of the IV.
aes_pobc_siv_128_decrypt(k, nonce, c, len, tag) ==
  LET blocks == [b \in 0..(BlocksOf(len) - 1) |-> Behind(nonce, NonceLen, BE(b, 4))]
  IN  Once(Unmasked(k, blocks, c, len), LAMBDA m :
        LET t == TagSum(k, m, len)
        IN  [check |-> tag_check(tag, E(k, Low([t EXCEPT ![15] = @ \cap 2..7]))), m |-> m])

(***************************************************************************)
(* The message of dec_pmac_aes128 of aes_modes.py, whose caller embeds the *)
(* key. Its tag is not here: pmac gives the cipher cells it has not        *)
(* embedded.                                                               *)
(***************************************************************************)
dec_pmac_message(k, nonce, c, len) ==
  LET ctr == ParsedCounter(BE(1, 4))
      blocks == [b \in 0..(BlocksOf(len) - 1) |->
                   Behind(nonce, NonceLen, BE((ctr + b) % WordSize, 4))]
  IN  aes_ctr_dec(k, blocks, c, len)

(***************************************************************************)
(* The helper double of pmac in aes_modes.py: b + b is zero in the field,  *)
(* so a byte keeps only the carry of the byte behind it.                   *)
(***************************************************************************)
double(block) ==
  LET carry(j) == IF 7 \in block[j] THEN {0} ELSE {}
  IN  [j \in 0..15 |-> IF j < 15 THEN carry(j + 1)
                                 ELSE IF carry(0) = {} THEN {} ELSE {0, 1, 2, 7}]
=============================================================================
