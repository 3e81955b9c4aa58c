------------------------------- MODULE MCModes ------------------------------
(***************************************************************************)
(* The modes of the device for model checking, with AES-128 as the block   *)
(* cipher and a small fork cipher. Among the calls are those that vectors/ *)
(* has recorded.                                                           *)
(***************************************************************************)
EXTENDS Modes, ForkCipher, MpcModes, TLC

(***************************************************************************)
(* Constants                                                               *)
(***************************************************************************)
\* A sequence of 16-bit words as bytes.
Hex(words) == [j \in 0..(2 * Len(words) - 1) |->
                 LET v == words[(j \div 2) + 1] IN NumByte(IF j % 2 = 0 THEN v \div 256 ELSE v % 256)]

\* The stream of pseudorandom bytes the first vector of every file is cut from:
\* the message, the key, the nonce.
Pseudorandom == Hex(<<\h67c6, \h6973, \h51ff, \h4aec, \h29cd, \hbaab, \hf2fb, \he346, \h7cc2, \h54f8,
  \h1be8, \he78d, \h765a, \h2e63, \h339f, \hc99a, \h6632, \h0db7, \h3158, \ha35a, \h255d, \h0517,
  \h58e9, \h5ed4, \habb2, \hcdc6, \h9bb4, \h5411, \h0e82, \h7441>>)

ModesE(k, b)     == mbedtls_aes_crypt_ecb(k, b)
ModesSchedule(k) == mbedtls_aes_setkey_enc(k)

ModesLeft(tweak, x)  == Forth4(Salts(tweak, 17), x)
ModesRight(tweak, x) == Forth4(Salts(tweak, 90), x)
ModesUndo(tweak, x)  == Back4(Salts(tweak, 17), x)

Call(mode, k, npub, ad, m) ==
  [mode |-> mode, k |-> k, npub |-> npub, ad |-> ad, adlen |-> Cardinality(DOMAIN ad),
   m |-> m, mlen |-> Cardinality(DOMAIN m), stray |-> Text(BlockLen, 201),
   out |-> none]

\* The first ciphertext and tag of the file of a mode for messages of n bytes.
Pair(cwords, twords) == [c |-> Hex(cwords), tag |-> Hex(twords)]
FirstOf(mode, n) ==
  CASE mode = "pobc" /\ n = 8 ->
         Pair(<<\haad3, \hb6a2, \h37ab, \h0c6b>>,
              <<\hef48, \hd2fe, \h45ca, \h8290, \hf00b, \h0f4c, \h5762, \h46a4>>)
    [] mode = "pobc" /\ n = 32 ->
         Pair(<<\hfb95, \h1217, \habe2, \h1c3d, \h21c3, \h98da, \ha29c, \hcec4, \hf872,
                \ha263, \h21e7, \hdce7, \h534b, \hc948, \h00d7, \h4254>>,
              <<\hbe2c, \hc899, \hacea, \h48ff, \h044a, \hfa9d, \hb68f, \hc2ad>>)
    [] mode = "gcm" /\ n = 8 ->
         Pair(<<\hc5d5, \hdb51, \hf7bd, \h98ea>>,
              <<\h76c1, \hc112, \h3b39, \h7df8, \hd3fb, \h61b7, \hae37, \hca1a>>)
    [] mode = "gcm" /\ n = 32 ->
         Pair(<<\h5405, \h65a0, \h9c18, \ha528, \h22ab, \h6867, \h8b5a, \hc552, \he0c2,
                \hc2b1, \hb86a, \hbde8, \ha516, \h4771, \h4dff, \h351a>>,
              <<\h4593, \h3d0d, \hfab0, \h554a, \h91f4, \h8d72, \ha5d9, \h2631>>)
    [] mode = "gcm_siv" /\ n = 8 ->
         Pair(<<\he175, \he5c3, \hb538, \h3700>>,
              <<\h2ec0, \hcbf9, \hf5ad, \h5ca0, \he719, \ha936, \h1e8b, \h0a57>>)
    [] mode = "gcm_siv" /\ n = 32 ->
         Pair(<<\h1ea6, \h61b1, \h55ef, \h0abd, \h5395, \hcf14, \hf6b6, \h3236, \h8213,
                \h1233, \h8dc0, \ha532, \h697d, \h5820, \h4ac4, \h794d>>,
              <<\h028f, \h27b4, \hbeb9, \h5957, \hc536, \hf760, \h81b1, \h9d9e>>)
    [] mode = "pmac" /\ n = 32 ->
         Pair(<<\hfb95, \h1217, \habe2, \h1c3d, \h21c3, \h98da, \ha29c, \hcec4, \h4f01,
                \h582b, \hd60f, \h0849, \h7d3c, \hfcaf, \h4a3e, \hef8e>>,
              <<\h9c9a, \hcc88, \hf579, \hd290, \h97f8, \hbdb2, \hdb73, \h5e61>>)
    [] mode = "pobc_siv" /\ n = 8 ->
         Pair(<<\haad3, \hb6a2, \h37ab, \h0c6b>>,
              <<\h411d, \hd207, \h936c, \h87ab, \h290c, \ha608, \hb3b3, \h6577>>)
    [] mode = "pobc_siv" /\ n = 16 ->
         Pair(<<\he89e, \h4bef, \h75f7, \hd58a, \he6cd, \h2bb3, \hb773, \h150d>>,
              <<\h8dd5, \h5da0, \h2c14, \hc81e, \hfd35, \h4d2c, \hb82c, \hffc5>>)

Recorded(mode, n) ==
  [Call(mode, Slice(Pseudorandom, n, 16), Slice(Pseudorandom, n + 16, 12), Zeros(0), Slice(Pseudorandom, 0, n))
     EXCEPT !.out = FirstOf(mode, n)]

Nonce == Text(NonceLen, 9)
Made(mode, npub, adlen, mlen) == Call(mode, Text(16, 5), npub, Text(adlen, 3), Text(mlen, 77))

ModesJobs ==
       {Made("pobc", n, a, l) : n \in {Nonce, Zeros(NonceLen)}, a \in {0, 1, 17}, l \in {0, 1, 16, 17, 33}}
  \cup {Made("pobc", Nonce, 17, 512), Made("pobc", Zeros(NonceLen), 0, 1024)}
  \cup {Made("pobc_siv", Nonce, a, l) : a \in {0, 16, 17}, l \in {0, 1, 16, 33}}
  \cup {Made(m, Nonce, 0, l) : m \in {"pmac", "htmac"}, l \in {0, 1, 15, 16, 17, 32, 48}}
  \cup {Made("gcm", Nonce, a, l) : a \in {0, 17}, l \in {0, 1, 16, 31, 32, 33, 64, 80}}
  \cup {Made("gcm_siv", Nonce, a, l) : a \in {0, 17}, l \in {0, 1, 16, 33}}
  \cup {Recorded(m, n) : m \in {"pobc", "gcm", "gcm_siv"}, n \in {8, 32}}
  \cup {Recorded("pmac", 32)}

\* Of the fork cipher's modes around a block and two; of Jolteon up to the
\* lengths at which the counters of associated data (49) and of a message (96)
\* wrap, and a call is refused (97).
MCJolteonCounterSize == 6
ForkCall(adlen, mlen) == Call("jolteon", none, Text(14, 9), Text(adlen, 3), Text(mlen, 77))
MCJolteonCalls ==
       {ForkCall(a, l) : a \in {0, 16, 17}, l \in {0, 1, 16, 33}}
  \cup {ForkCall(0, l) : l \in {95, 96, 97}} \cup {ForkCall(a, 0) : a \in {48, 49, 97}}

\* Of Espeon in both instances, with associated data
\* that has the counter 12 before an incomplete block (145) and not (129), is as
\* long as the counter allows (160), and too long (209).
MCEspeonCounterSize == 13
WideCall(instance, adlen, mlen) ==
  [instance |-> instance] @@
    Call("espeon", none, Text(IF instance = 384 THEN 16 ELSE 13, 9), Text(adlen, 3), Text(mlen, 77))
MCEspeonCalls ==
       {WideCall(s, a, l) : s \in {384, 256}, a \in {0, 16, 17}, l \in {0, 1, 16, 33}}
  \cup {WideCall(384, 0, 48), WideCall(384, 129, 1), WideCall(384, 209, 1),
        WideCall(256, 145, 1), WideCall(256, 160, 0)}

\* The calls of the runs that find a difference.
NoCalls == {}
SivJobs == {Recorded("pobc_siv", n) : n \in {8, 16}}
PmacJobs == {Made("pmac", Nonce, 0, l) : l \in {16, 48}}
MpcJobs == {Made(m, Nonce, 0, l) : m \in {"pobc", "pobc_siv"}, l \in {1, 16, 33}}

ModesWordSize == 2^24 + 97 + 64

(***************************************************************************)
(* Properties of the modes with AES-128                                    *)
(***************************************************************************)
\* The device computes the ciphertext and the tag that vectors/ holds, in the
\* file of the mode and of the length, for its first key, nonce and message.
MatchesRecorded ==
  job.out # none /\ pc \in {"done", "transit"} =>
    c = job.out.c /\ (IF Siv THEN iv ELSE tag) = job.out.tag

\* The decryption of the computation accepts what the device has encrypted
\* without associated data, and gives its message back: counters, padding and
\* the field of the hash are written twice, in C and in Python. Of PMAC this is
\* the message only.
MpcDecrypts ==
  pc = "done" /\ job.adlen = 0 =>
    /\ job.mode = "gcm" =>
         aes_gcm_128_decrypt(job.k, job.npub, c, job.mlen, tag) = [check |-> 1, m |-> job.m]
    /\ job.mode = "gcm_siv" =>
         aes_gcm_siv_128_decrypt(job.k, job.npub, c, job.mlen, tag) = [check |-> 1, m |-> job.m]
    /\ job.mode = "pmac" /\ job.mlen % BlockLen = 0 =>
         dec_pmac_message(job.k, job.npub, Slice(c, 0, job.mlen), job.mlen) = job.m

\* The helper double of pmac in aes_modes.py is, as its comment says, the
\* multiplication by x in GF(2^128) that the device's masks double with.
DoubleIsByX == job.mode = "pmac" /\ mask # Zeros(0) => double(mask) = gf128_double(mask)

\* MpcDecrypts, of the two modes that are this repository's own.
MpcDecryptsPobc ==
  pc = "done" /\ job.adlen = 0 =>
    /\ Pobc =>
         aes_pobc64_128_decrypt(job.k, job.npub, c, job.mlen, tag) = [check |-> 1, m |-> job.m]
    /\ Siv /\ recv = SivSent =>
         aes_pobc_siv_128_decrypt(job.k, Slice(iv, 0, NonceLen), c, job.mlen, iv)
           = [check |-> 1, m |-> job.m]
=============================================================================
