------------------------------- MODULE CtrMac -------------------------------
(***************************************************************************)
(* IoT-benchmark/aes-modes/aes_modes.c: AES-CTR with PMAC and with HTMAC,  *)
(* encryption and then decryption of what arrives. The four functions      *)
(* enc_* and dec_* are the same steps: aes_ctr_dec, then a tag over the    *)
(* blocks of the ciphertext, then, when decrypting, the comparison.        *)
(***************************************************************************)
EXTENDS Device, Blocks, Sequences

macVars == <<job, pc, side, i, word, mask, acc, c, tag, recv, p, ret>>

MacInit ==
  /\ job \in CallsOf({"pmac", "htmac"})
  /\ pc = "ctr" /\ side = "enc" /\ i = 0 /\ word = 1
  /\ mask = Zeros(0) /\ acc = Zeros(0)
  /\ c = Zeros(0) /\ tag = Zeros(0)
  /\ recv = [c |-> job.m, tag |-> Zeros(BlockLen), npub |-> job.npub]
  /\ p = Zeros(0) /\ ret = "none"

(***************************************************************************)
(* aes_ctr_dec: the counter block is the nonce and a big-endian word that  *)
(* begins with one. recv.c is what it is applied to: when encrypting, the  *)
(* message.                                                                *)
(***************************************************************************)
CtrBlocks == BlocksOf(job.mlen)

CtrOut(to) ==
  LET n == Min2(job.mlen - i * BlockLen, BlockLen)
  IN  Put(to, i * BlockLen,
          XorBlock(Slice(recv.c, i * BlockLen, n), E(job.k, RawBE(Counter(recv.npub, word)))))

CtrBlock ==
  /\ pc = "ctr" /\ i < CtrBlocks
  /\ IF side = "enc" THEN c' = CtrOut(c) /\ UNCHANGED p
                     ELSE p' = CtrOut(p) /\ UNCHANGED c
  /\ word' = (word + 1) % WordSize
  /\ i' = i + 1
  /\ UNCHANGED <<job, pc, side, mask, acc, tag, recv, ret>>

\* The ciphertext the tag is made of.
Cipher == IF side = "enc" THEN c ELSE recv.c

\* How many of its blocks: enc_pmac_aes128 rounds up, the others down.
MacBlocks == IF job.mode = "pmac" /\ side = "enc" THEN CtrBlocks ELSE job.mlen \div BlockLen

\* Block b as the code reads it, past the buffer's end too.
MacBlockAt(data, b) ==
  [j \in 0..(BlockLen - 1) |->
     IF b * BlockLen + j < job.mlen THEN data[b * BlockLen + j] ELSE job.stray[j]]

EndCtr ==
  /\ pc = "ctr" /\ i = CtrBlocks
  /\ pc' = IF job.mode = "pmac" THEN "pmac" ELSE "digest"
  /\ i' = 0
  /\ IF job.mode = "pmac"
     THEN mask' = E(job.k, Zeros(BlockLen)) /\ acc' = Zeros(BlockLen)
     ELSE UNCHANGED <<mask, acc>>
  /\ UNCHANGED <<job, side, word, c, tag, recv, p, ret>>

(***************************************************************************)
(* pmac                                                                    *)
(***************************************************************************)
\* Multiplication by x: one bit to the left over all bytes, and what falls
\* out comes back as 0x87.
gf128_double(b) ==
  [j \in 0..(BlockLen - 1) |->
     LET carry == IF j = BlockLen - 1 THEN Zero ELSE IF 7 \in b[j + 1] THEN One ELSE Zero
     IN  ({q + 1 : q \in b[j] \ {7}} \cup carry)
           (+) (IF j = BlockLen - 1 /\ 7 \in b[0] THEN {7, 2, 1, 0} ELSE Zero)]

\* Every block but the last is masked with the current mask, which then doubles.
PmacBlock ==
  /\ pc = "pmac" /\ i + 1 < MacBlocks
  /\ acc' = XorBlock(acc, E(job.k, XorBlock(MacBlockAt(Cipher, i), mask)))
  /\ mask' = gf128_double(mask)
  /\ i' = i + 1
  /\ UNCHANGED <<job, pc, side, word, c, tag, recv, p, ret>>

\* The last block is masked with the doubled mask.
PmacLast ==
  /\ pc = "pmac" /\ i + 1 = MacBlocks
  /\ acc' = XorBlock(acc, E(job.k, XorBlock(MacBlockAt(Cipher, i), gf128_double(mask))))
  /\ i' = i + 1
  /\ UNCHANGED <<job, pc, side, word, mask, c, tag, recv, p, ret>>

(***************************************************************************)
(* digest: the nonce's and the blocks' two 64-bit words are added up       *)
(***************************************************************************)
digest(npub, data, blocks) ==
  LET Column(j) ==               \* the sum of the bytes at position j
        LET S[b \in 0..blocks] == IF b = 0 THEN (IF j < NonceLen THEN Value(npub[j]) ELSE 0)
                                  ELSE S[b - 1] + Value(MacBlockAt(data, b - 1)[j])
        IN  S[blocks]
      Sum[j \in 0..(BlockLen - 1)] ==    \* with the carry from the byte below
        Column(j) + IF j % 8 = 0 THEN 0 ELSE Sum[j - 1] \div 256
  IN  [j \in 0..(BlockLen - 1) |-> NumByte(Sum[j] % 256)]

(***************************************************************************)
(* The tag, and what is done with it                                       *)
(***************************************************************************)
MacInput == IF pc = "pmac" THEN acc ELSE digest(recv.npub, Cipher, MacBlocks)
Computed == E(job.k, MacInput)

\* What is sent, and what may arrive instead.
MacSent == [c |-> c, tag |-> tag, npub |-> job.npub]

FinishEnc ==
  /\ side = "enc" /\ pc \in {"pmac", "digest"}
  /\ pc = "pmac" => i = MacBlocks
  /\ tag' = Computed
  /\ pc' = "transit"
  /\ UNCHANGED <<job, side, i, word, mask, acc, c, recv, p, ret>>

MacTransit ==
  /\ pc = "transit" /\ pc' = "ctr" /\ side' = "dec"
  /\ recv' \in      {MacSent}
               \cup {[MacSent EXCEPT !.c    = Flip(@, j)] : j \in DOMAIN c}
               \cup {[MacSent EXCEPT !.tag  = Flip(@, j)] : j \in DOMAIN tag}
  /\ i' = 0 /\ word' = 1
  /\ UNCHANGED <<job, mask, acc, c, tag, p, ret>>

FinishDec ==
  /\ side = "dec" /\ pc \in {"pmac", "digest"}
  /\ pc = "pmac" => i = MacBlocks
  /\ ret' = IF Computed = recv.tag THEN "ok" ELSE "bad"
  /\ pc' = "done"
  /\ UNCHANGED <<job, side, i, word, mask, acc, c, tag, recv, p>>

MacNext ==
  \/ CtrBlock \/ EndCtr \/ PmacBlock \/ PmacLast
  \/ FinishEnc \/ MacTransit \/ FinishDec

MacSpec == MacInit /\ [][MacNext]_macVars

(***************************************************************************)
(* Properties                                                              *)
(***************************************************************************)
\* Stages, indices, and how much of the buffers has been written.
MacTypeOK ==
  /\ job.mode \in {"pmac", "htmac"}
  /\ pc \in {"ctr", "pmac", "digest", "transit", "done"}
  /\ side \in {"enc", "dec"}
  /\ i \in 0..CtrBlocks
  /\ word \in 0..(WordSize - 1)
  /\ ret \in {"none", "ok", "bad"}
  /\ DOMAIN c = 0..((IF side = "enc" /\ pc = "ctr" THEN Min2(i * BlockLen, job.mlen)
                                                  ELSE job.mlen) - 1)
  /\ DOMAIN p = 0..((CASE side = "enc" -> 0
                       [] side = "dec" /\ pc = "ctr" -> Min2(i * BlockLen, job.mlen)
                       [] OTHER -> job.mlen) - 1)

\* The lengths for which encryption and decryption authenticate the same blocks.
SameBlocks == job.mode = "pmac" => job.mlen % BlockLen = 0

\* Decryption gives the message back at every length, and accepts the tag
\* whenever both sides count the same blocks.
MacRoundTrip ==
  pc = "done" /\ recv = MacSent => p = job.m /\ (SameBlocks => ret = "ok")

\* One changed bit of the tag or of a complete block of ciphertext is noticed.
MacNoticesChange ==
  pc = "done" /\ SameBlocks /\ ret = "ok" =>
    /\ recv.tag = tag
    /\ \A j \in DOMAIN c : j \div BlockLen < job.mlen \div BlockLen => recv.c[j] = c[j]
=============================================================================
