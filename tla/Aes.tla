-------------------------------- MODULE Aes ---------------------------------
(***************************************************************************)
(* AES-128 as mbedtls/library/aes.c computes it: tables generated from the *)
(* powers of 3 in the field of the bytes, the key schedule, and rounds of  *)
(* one table look-up per byte. Tables are indexed by the value of a byte.  *)
(***************************************************************************)
EXTENDS Bytes

XTIME(b) == {bit + 1 : bit \in b \ {7}} (+) (IF 7 \in b THEN {0, 1, 3, 4} ELSE Zero)

RotateLeft(b) == {(bit + 1) % 8 : bit \in b}

\* The powers of 3 and their logarithms, all of them values of bytes. The
\* logarithm of 1 is written twice, and keeps the second.
Times3 == [v \in 0..255 |-> Value(NumByte(v) (+) XTIME(NumByte(v)))]
pow ==
  LET P[e \in 0..255] == IF e = 0 THEN 1 ELSE Times3[P[e - 1]]
  IN  [e \in 0..255 |-> P[e]]
log == [v \in 1..255 |-> CHOOSE e \in 1..255 : pow[e] = v]

FSb ==
  LET Affine(x0) == LET x1 == RotateLeft(x0)  x2 == RotateLeft(x1)
                        x3 == RotateLeft(x2)  x4 == RotateLeft(x3)
                    IN  x0 (+) (x1 (+) (x2 (+) (x3 (+) (x4 (+) {0, 1, 5, 6}))))
  IN  [v \in 0..255 |-> Affine(IF v = 0 THEN Zero ELSE NumByte(pow[255 - log[v]]))]

\* FT0: the four bytes that one byte contributes to its column.
FT == [v \in 0..255 |->
         LET x == FSb[v]
             z == XTIME(x)
         IN  [j \in 0..3 |-> CASE j = 0 -> z [] j \in {1, 2} -> x [] j = 3 -> z (+) x]]

RCON[e \in 0..9] == IF e = 0 THEN One ELSE XTIME(RCON[e - 1])

SubByte(b) == FSb[Value(b)]

\* The round keys: byte j of word c is the sum of byte j of the words up to c
\* of the key before, and of a byte of its last word through the S-box.
NextKey(key, n) ==
  [q \in 0..15 |->
     LET j == q % 4
     IN  SubByte(key[12 + ((j + 1) % 4)])
           (+) ((IF j = 0 THEN RCON[n] ELSE Zero)
           (+)  XorAll(0..(q \div 4), [word \in 0..(q \div 4) |-> key[4 * word + j]]))]

mbedtls_aes_setkey_enc(key) ==
  LET RK[n \in 0..10] ==
        IF n = 0 THEN key ELSE Once(RK[n - 1], LAMBDA k : NextKey(k, n - 1))
  IN  [n \in 0..10 |-> RK[n]]

\* Where the look-up for row r of byte q's column takes its byte.
From(q, r) == (4 * ((q \div 4) + r) + r) % 16

\* One round, T being the look-ups of the 16 bytes.
Columns(T, key) ==
  [q \in 0..15 |->
     LET j == q % 4
     IN  key[q] (+) ((T[From(q, 0)][j] (+) T[From(q, 1)][(j + 3) % 4])
                (+)  (T[From(q, 2)][(j + 2) % 4] (+) T[From(q, 3)][(j + 1) % 4]))]

AES_FROUND(key, z) ==
  Once([q \in 0..15 |-> FT[Value(z[q])]], LAMBDA T : Columns(T, key))

\* The block after the first n rounds, and after all ten.
AfterRounds(rk, input, n) ==
  LET X[r \in 0..9] ==
        IF r = 0 THEN XorBlock(input, rk[0])
                 ELSE Once(X[r - 1], LAMBDA x : AES_FROUND(rk[r], x))
  IN  X[n]

mbedtls_aes_crypt_ecb(rk, input) ==
  Once(AfterRounds(rk, input, 9),
       LAMBDA z : [q \in 0..15 |-> rk[10][q] (+) SubByte(z[From(q, q % 4)])])
=============================================================================
