------------------------------- MODULE MpcAes -------------------------------
(***************************************************************************)
(* MPC/code/aes_gf_long.py: AES-128 on bytes embedded in the field GF(2^128)*)
(* of the multi-party computation. A field element is the set of the       *)
(* exponents of its polynomial, so a byte not embedded is an element too,  *)
(* and addition is symmetric difference.                                   *)
(***************************************************************************)
EXTENDS Bytes

(***************************************************************************)
(* cgf2n and sgf2n of MP-SPDZ, which is not part of the repository         *)
(***************************************************************************)
Degree == 128

\* The product of two polynomials, and x^128 = x^7 + x^2 + x + 1.
Product(a, b) == {e \in 0..(2 * Degree - 2) : Cardinality({k \in a : e - k \in b}) % 2 = 1}
Reduce(a) ==
  LET high(n) == {e - Degree + n : e \in {d \in a : d >= Degree}}
  IN  {e \in a : e < Degree} (+) ((high(0) (+) high(1)) (+) (high(2) (+) high(7)))

Mul(a, b) ==
  Once(a, LAMBDA x : Once(b, LAMBDA z :
    Once(Product(x, z), LAMBDA d : Once(Reduce(d), Reduce))))

\* The sum of f[s] for all s in S.
Sum(S, f) == XorAll(S, f)

(***************************************************************************)
(* The embedding                                                           *)
(***************************************************************************)
\* The constants of the tables, as 16-bit words from the highest on.
Constants == <<
  <<\h0000, \h0000, \h0000, \h0000, \h0000, \h0000, \h0000, \h0001>>,
  <<\h0dcb, \h3646, \h40a2, \h22fe, \h6b83, \h3048, \h3c2e, \h9849>>,
  <<\h3d5b, \hd35c, \h9464, \h6a24, \h7573, \hda4a, \h5f77, \h10ed>>,
  <<\h6d58, \hc4e1, \h81f9, \h199f, \h41a1, \h2db1, \hf974, \hf3ac>>,
  <<\ha72e, \hc177, \h64d7, \hced5, \h5e2f, \h716f, \h4ede, \h412f>>,
  <<\h4d52, \h354a, \h3a3d, \h8c86, \h5cb1, \h0fba, \hbcf0, \h0118>>,
  <<\h553e, \h92e8, \hbc0a, \he9a7, \h95ed, \h1f57, \hf363, \h2d4d>>,
  <<\h9325, \h2331, \hbf04, \h2b11, \h5126, \h25b1, \hf09f, \ha87e>>,
  <<\hc7bd, \h33d0, \ha58c, \hf5b4, \h740d, \h6c96, \h8b84, \h2acb>>,
  <<\h486f, \hb01f, \h93aa, \h169a, \hfd8e, \he716, \he990, \hcf14>>,
  <<\hbee4, \he4dc, \h4462, \h9cf6, \h27b5, \h37f2, \h8935, \hc282>>,
  <<\h053d, \h8555, \ha997, \h9a1c, \ha13f, \he8ac, \h5560, \hce0d>>,
  <<\h5498, \h10e1, \h1a88, \hdea5, \h252b, \h4927, \h7b1b, \h82b4>>,
  <<\hafd8, \h7264, \h8de2, \h7637, \h9493, \ha98b, \h2790, \h176a>>,
  <<\h049b, \h075c, \h0f15, \had1e, \h11f9, \hbedc, \hdd18, \h61f4>>,
  <<\h7492, \he14a, \ha14c, \h4bbc, \h383b, \h6b2c, \h3e9f, \h7001>>,
  <<\h4cf4, \hb743, \h9cbf, \hbb84, \hec77, \h59ca, \h3488, \haee1>>,
  <<\hd681, \ha568, \h6c0c, \h1f75, \hc72b, \hf2ef, \h2521, \hff22>>,
  <<\hfb40, \h6285, \h976a, \ha892, \hb1b8, \he0ac, \h5c8b, \h95df>>,
  <<\h340b, \he246, \hdbd3, \he5c4, \h0f09, \h54de, \hbe41, \he950>>,
  <<\hb612, \h57cf, \had57, \h2414, \hed09, \hef16, \he07b, \h94c6>>,
  <<\h35ad, \h604f, \h7d51, \hd2c6, \hbfcf, \h02ae, \h3639, \h46a8>>,
  <<\h0950, \h311a, \h4fb7, \h8fe0, \h7a7a, \h8e94, \he136, \hf9bc>>,
  <<\hf72d, \hd6ca, \h714a, \hbd6e, \h6afd, \h8694, \he8dd, \ha26f>>,
  <<\he611, \h4072, \hb8ca, \h57af, \hd9db, \h18ed, \h4678, \h7787>>>>

Field == [k \in 1..25 |-> {e \in 0..(Degree - 1) :
            (Constants[k][8 - (e \div 16)] \div 2^(e % 16)) % 2 = 1}]

\* forward_embedding_matrix by columns: what bit j of a byte becomes.
Column == LET k == <<1, 2, 3, 4, 5, 6, 7, 8>> IN [j \in Bits |-> Field[k[j + 1]]]

\* _embedded_powers by rows.
embedded_powers ==
  LET k == <<<<1, 3, 5, 7, 9, 10, 11, 13>>,
              <<1, 5, 9, 11, 14, 15, 16, 19>>,
              <<1, 9, 14, 16, 21, 23, 25, 6>>,
              <<1, 14, 21, 25, 12, 20, 24, 10>>,
              <<1, 21, 12, 24, 17, 8, 22, 15>>,
              <<1, 12, 17, 22, 2, 13, 18, 23>>,
              <<1, 17, 2, 18, 3, 19, 4, 20>>>>
  IN  [r \in 0..6 |-> [j \in Bits |-> Field[k[r + 1][j + 1]]]]

\* ApplyEmbedding, of a byte or of anything that has the bits of one.
ApplyEmbedding(b) == Sum(b \cap Bits, Column)

\* PreprocInverseEmbedding, the byte whose embedding a is. The bits read off
\* are those at the positions 0, 1, 3, 4, 7, 9, 10 and 13.
InverseEmbedding(a) ==
  LET in(n) == IF <<0, 1, 3, 4, 7, 9, 10, 13>>[n + 1] \in a THEN {0} ELSE {}
      o3 == in(5)
      o6 == in(6)
      o2 == in(4) (+) o3
      o7 == in(7) (+) (o3 (+) o6)
      o4 == in(1) (+) o7
      o5 == in(3) (+) o7
      o1 == in(2) (+) (o2 (+) (o3 (+) (o4 (+) (o5 (+) (o6 (+) o7)))))
      o0 == in(0) (+) (o1 (+) (o2 (+) (o4 (+) o6)))
      out == <<o0, o1, o2, o3, o4, o5, o6, o7>>
  IN  {q \in Bits : 0 \in out[q + 1]}

(***************************************************************************)
(* The S-box                                                               *)
(***************************************************************************)
\* a^(2^n) from the bits of the byte whose embedding a is.
fancy_squaring(byte, n) == Sum(byte, embedded_powers[n - 1])

\* The product of the seven squarings of what embeds to a: a^254.
PowerOf(byte) ==
  Once([n \in 1..7 |-> fancy_squaring(byte, n)], LAMBDA sq :
    Mul(Mul(Mul(sq[1], sq[2]), Mul(sq[3], sq[4])), Mul(Mul(sq[5], sq[6]), sq[7])))
inverseMod(a) == Once(InverseEmbedding(a), PowerOf)

\* forward_matrix by rows, and forward_add.
forward_matrix == [n \in Bits |-> <<{0, 4, 5, 6, 7}, {0, 1, 5, 6, 7}, {0, 1, 2, 6, 7},
  {0, 1, 2, 3, 7}, {0, 1, 2, 3, 4}, {1, 2, 3, 4, 5}, {2, 3, 4, 5, 6}, {3, 4, 5, 6, 7}>>[n + 1]]
forward_add == {0, 1, 5, 6}

\* The powers of the embedding of 2.
K01 == LET K[n \in Bits] == IF n = 0 THEN {0} ELSE Mul(K[n - 1], ApplyEmbedding({1}))
       IN  [n \in Bits |-> K[n]]

\* Slip: the constant is added before the linear transform.
transformedEarly(byte) ==
  {n \in Bits : Cardinality(forward_matrix[n] \cap (byte (+) forward_add)) % 2 = 1}

\* The bits of the inverse, through the linear transform and the constant.
transformed(byte) ==
  {n \in Bits : Cardinality(forward_matrix[n] \cap byte) % 2 = 1} (+) forward_add

forward_bit_sbox(a) ==
  Once(transformed(Once(inverseMod(a), InverseEmbedding)), LAMBDA bits :
    Sum(Bits, [n \in Bits |-> Mul(ApplyEmbedding(IF n \in bits THEN {0} ELSE {}), K01[n])]))

\* matrix_inv by rows.
matrix_inv == [n \in Bits |-> <<{2, 5, 7}, {0, 3, 6}, {1, 4, 7}, {0, 2, 5},
                                {1, 3, 6}, {2, 4, 7}, {0, 3, 5}, {1, 4, 6}>>[n + 1]]

\* Slip: the constant is taken out after the linear transform.
untransformedLate(byte) ==
  {n \in Bits : Cardinality(matrix_inv[n] \cap byte) % 2 = 1} (+) forward_add

untransformed(byte) ==
  {n \in Bits : Cardinality(matrix_inv[n] \cap (byte (+) forward_add)) % 2 = 1}

backward_bit_sbox(a) == Once(untransformed(InverseEmbedding(a)), PowerOf)

(***************************************************************************)
(* Key schedule and rounds                                                 *)
(***************************************************************************)
rcon == <<{0}, {1}, {2}, {3}, {4}, {5}, {6}, {7}, {0, 1, 3, 4}, {1, 2, 4, 5}>>

\* Round key n of expandAESKey from the one before, word by word: the first
\* takes in the last word of the key before, rotated and substituted.
NextRoundKey(key, n) ==
  Once([j \in 0..3 |-> forward_bit_sbox(key[12 + ((j + 1) % 4)])
                         (+) (IF j = 0 THEN ApplyEmbedding(rcon[n]) ELSE {})], LAMBDA sub :
    LET R[q \in 0..15] == key[q] (+) (IF q < 4 THEN sub[q] ELSE R[q - 4])
    IN  [q \in 0..15 |-> R[q]])

addRoundKey(state, key) == [q \in 0..15 |-> state[q] (+) key[q]]
subBytes(state)  == [q \in DOMAIN state |-> forward_bit_sbox(state[q])]

invSubBytes(state) == [q \in DOMAIN state |-> backward_bit_sbox(state[q])]

invShiftRows(state) == [q \in 0..15 |-> state[(q + 12 * (q % 4)) % 16]]

\* Row q % 4 is rotated by q % 4 columns.
shiftRows(state) == [q \in 0..15 |-> state[(q + 4 * (q % 4)) % 16]]

mixColumns(state) ==
  LET at(q, n) == 4 * (q \div 4) + ((q + n) % 4)      \* n rows further down
  IN  Once([q \in 0..15 |-> Mul(ApplyEmbedding({1}), state[q])], LAMBDA doubles :
        [q \in 0..15 |-> doubles[q] (+) ((state[at(q, 1)] (+) doubles[at(q, 1)])
                                     (+) (state[at(q, 2)] (+) state[at(q, 3)]))])

aesRound(state, key) ==
  Once(Once(Once(subBytes(state), shiftRows), mixColumns), LAMBDA mixed :
    addRoundKey(mixed, key))

InvMixColKv == <<ApplyEmbedding({1, 2, 3}), ApplyEmbedding({0, 1, 3}),
                 ApplyEmbedding({0, 2, 3}), ApplyEmbedding({0, 3})>>

invMixColumns(state) ==
  [q \in 0..15 |->
     Once([n \in 0..3 |-> Mul(InvMixColKv[n + 1], state[4 * (q \div 4) + ((q + n) % 4)])],
          LAMBDA terms : Sum(0..3, terms))]

invAesRound(state, key) ==
  Once(Once(Once(addRoundKey(state, key), invMixColumns), invShiftRows), invSubBytes)
=============================================================================
