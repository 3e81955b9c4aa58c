------------------------------ MODULE PobcSiv -------------------------------
(***************************************************************************)
(* aes_pobc_siv_encrypt and aes_pobc_siv_decrypt of                        *)
(* IoT-benchmark/aes-pobc/aes_pobc_siv.c, one after the other: what is     *)
(* decrypted is what was encrypted, or something else. A MAC over          *)
(* associated data and message is the initial counter of counter mode.     *)
(***************************************************************************)
EXTENDS Device, Blocks

sivVars == <<job, pc, i, nc, c, iv, recv, p, ret>>

(***************************************************************************)
(* pobc_mac                                                                *)
(***************************************************************************)
\* Block b of n bytes of data: the byte 0x80 follows the data, then zeros.
PaddedBlock(data, n, b) ==
  LET at(j) == b * BlockLen + j
  IN  [j \in 0..(BlockLen - 1) |-> CASE at(j) < n -> data[at(j)]
                                     [] at(j) = n -> Pad
                                     [] at(j) > n -> Zero]

NonceStart == [j \in 0..(BlockLen - 1) |-> IF j = 0 THEN One ELSE Zero]

\* One block goes in: added to the nonce, which is then asked for and counted
\* on from; what it took in stays in it.
AbsorbBlock(k, s, block) ==
  Once(XorBlock(s.nonce, block),
       LAMBDA x : [nonce |-> gcm_incr(x), y |-> XorBlock(s.y, E(k, x))])

\* The accumulator after all blocks of n bytes of data, from start.
Absorb(k, data, n, start) ==
  LET S[b \in 0..((n \div BlockLen) + 1)] ==
        IF b = 0 THEN [nonce |-> NonceStart, y |-> start]
        ELSE Once(S[b - 1], LAMBDA s : AbsorbBlock(k, s, PaddedBlock(data, n, b - 1)))
  IN  S[(n \div BlockLen) + 1].y

\* Slip: the associated data is left out.
pobc_macNoAd(k, ad, adlen, m, mlen) ==
  E(k, [Absorb(k, m, mlen, Zeros(BlockLen)) EXCEPT ![0] = Zero])

pobc_mac(k, ad, adlen, m, mlen) ==
  LET sum == Absorb(k, m, mlen, Absorb(k, ad, adlen, Zeros(BlockLen)))
  IN  E(k, [sum EXCEPT ![0] = Zero])

(***************************************************************************)
(* aes_pobc_siv_encrypt                                                    *)
(***************************************************************************)
SivInit ==
  /\ job \in CallsOf({"pobc_siv"})
  /\ pc = "mac" /\ i = 0
  /\ nc = Zeros(0) /\ c = Zeros(0) /\ iv = Zeros(0)
  /\ recv = Zeros(0) /\ p = Zeros(0) /\ ret = "none"

Mac ==
  /\ pc = "mac" /\ pc' = "encrypt"
  /\ iv' = pobc_mac(job.k, job.ad, job.adlen, job.m, job.mlen)
  /\ nc' = iv'
  /\ UNCHANGED <<job, i, c, recv, p, ret>>

\* The next chunk of counter mode, of the bytes of from.
Crypted(to, from) ==
  Put(to, i, XorBlock(Slice(from, i, Chunk), E(job.k, nc)))

EncryptChunk ==
  /\ pc = "encrypt" /\ i < job.mlen
  /\ c' = Crypted(c, job.m)
  /\ nc' = gcm_incr(nc)
  /\ i' = i + Chunk
  /\ UNCHANGED <<job, pc, iv, recv, p, ret>>

EndEncrypt ==
  /\ pc = "encrypt" /\ i = job.mlen
  /\ pc' = "transit"
  /\ UNCHANGED <<job, i, nc, c, iv, recv, p, ret>>

(***************************************************************************)
(* Between the calls: the arguments of the decryption                      *)
(***************************************************************************)
SivSent == [c |-> c, iv |-> iv, ad |-> job.ad]

\* One bit of one byte of one argument may have changed.
Changed ==      {[SivSent EXCEPT !.c  = Flip(@, j)] : j \in DOMAIN c}
           \cup {[SivSent EXCEPT !.iv = Flip(@, j)] : j \in DOMAIN iv}
           \cup {[SivSent EXCEPT !.ad = Flip(@, j)] : j \in DOMAIN job.ad}

\* The decryption is called with a context of its own.
SivTransit ==
  /\ pc = "transit" /\ pc' = "decrypt"
  /\ recv' \in {SivSent} \cup Changed
  /\ nc' = recv'.iv
  /\ i' = 0
  /\ UNCHANGED <<job, c, iv, p, ret>>

\* Slip: the counter is not advanced.
DecryptChunkSame ==
  /\ pc = "decrypt" /\ i < job.mlen
  /\ p' = Crypted(p, recv.c)
  /\ i' = i + Chunk
  /\ UNCHANGED <<job, pc, nc, c, iv, recv, ret>>

(***************************************************************************)
(* aes_pobc_siv_decrypt                                                    *)
(***************************************************************************)
DecryptChunk ==
  /\ pc = "decrypt" /\ i < job.mlen
  /\ p' = Crypted(p, recv.c)
  /\ nc' = gcm_incr(nc)
  /\ i' = i + Chunk
  /\ UNCHANGED <<job, pc, c, iv, recv, ret>>

\* Slip: the message is wiped block by block, complete blocks only.
VerifyWipesBlocks ==
  /\ pc = "decrypt" /\ i = job.mlen
  /\ pc' = "done"
  /\ IF pobc_mac(job.k, recv.ad, job.adlen, p, job.mlen) = recv.iv
     THEN ret' = "ok"  /\ UNCHANGED p
     ELSE ret' = "bad" /\ p' = Put(p, 0, Zeros(job.mlen - (job.mlen % BlockLen)))
  /\ UNCHANGED <<job, i, nc, c, iv, recv>>

\* The MAC of what has been decrypted; a message that fails is wiped.
Verify ==
  /\ pc = "decrypt" /\ i = job.mlen
  /\ pc' = "done"
  /\ IF pobc_mac(job.k, recv.ad, job.adlen, p, job.mlen) = recv.iv
     THEN ret' = "ok"  /\ UNCHANGED p
     ELSE ret' = "bad" /\ p' = Zeros(job.mlen)
  /\ UNCHANGED <<job, i, nc, c, iv, recv>>

SivNext ==
  \/ Mac \/ EncryptChunk \/ EndEncrypt \/ SivTransit
  \/ DecryptChunk \/ Verify

SivSpec == SivInit /\ [][SivNext]_sivVars

(***************************************************************************)
(* Properties                                                              *)
(***************************************************************************)
\* Stages, indices, and how much of the buffers has been written.
SivTypeOK ==
  /\ job.mode = "pobc_siv"
  /\ pc \in {"mac", "encrypt", "transit", "decrypt", "done"}
  /\ i \in 0..job.mlen
  /\ ret \in {"none", "ok", "bad"}
  /\ DOMAIN c = 0..((CASE pc = "mac" -> 0 [] pc = "encrypt" -> i [] OTHER -> job.mlen) - 1)
  /\ DOMAIN p = 0..((CASE pc = "decrypt" -> i [] pc = "done" -> job.mlen [] OTHER -> 0) - 1)

\* Decryption of what encryption returned succeeds and gives the message back,
\* at every length of message and associated data.
SivRoundTrip == pc = "done" /\ recv = SivSent => ret = "ok" /\ p = job.m

\* A decryption that returns an error leaves nothing of the message behind, in
\* no byte of the buffer it had already written before it knew.
SivCleanRejection == pc = "done" /\ ret # "ok" => p = Zeros(job.mlen)

\* One changed bit, in any byte of the ciphertext, the IV or the associated
\* data, is noticed: the MAC covers every byte of what it is called with.
SivNoticesChange == pc = "done" /\ recv # SivSent => ret = "bad"
=============================================================================
