------------------------------- MODULE GcmSiv -------------------------------
(***************************************************************************)
(* aes_gcm_siv_128_encrypt of IoT-benchmark/aes/aes_gcm_siv.c, built with  *)
(* USE_GHASH_POLY: keys derived from the nonce, a hash of associated data  *)
(* and message that becomes the tag, and counter mode from that tag.       *)
(***************************************************************************)
EXTENDS Device, Blocks, Ghash

gcmSivVars == <<job, pc, i, keys, y, counter, c, tag>>

\* The block of key derivation: a number in the first word, then the nonce.
DeriveBlock(v) ==
  [j \in 0..(BlockLen - 1) |-> CASE j = 0 -> NumByte(v)
                                 [] j \in 1..3 -> Zero
                                 [] j > 3 -> job.npub[j - 4]]

\* Two halves of 8 bytes, from the outputs for v and v + 1.
Derived(v) ==
  [j \in 0..(BlockLen - 1) |->
     IF j < 8 THEN E(job.k, DeriveBlock(v))[j] ELSE E(job.k, DeriveBlock(v + 1))[j - 8]]

\* Both lengths in bits, as little-endian words (below 2^31 here).
LE64(v, j) == IF j > 3 THEN Zero ELSE NumByte((v \div 256^j) % 256)
LengthsLE ==
  [j \in 0..(BlockLen - 1) |-> IF j < 8 THEN LE64(8 * job.adlen, j)
                                        ELSE LE64(8 * job.mlen, j - 8)]

GcmSivInit ==
  /\ job \in CallsOf({"gcm_siv"})
  /\ pc = "derive" /\ i = 0
  /\ keys = [auth |-> Zero, enc |-> Zero]
  /\ y = Zeros(BlockLen)
  /\ counter = Zeros(0) /\ c = Zeros(0) /\ tag = Zeros(0)

DeriveKeys ==
  /\ pc = "derive" /\ pc' = "hash"
  /\ keys' = [auth |-> ghash_init(Derived(0)), enc |-> Schedule(Derived(2))]
  /\ UNCHANGED <<job, i, y, counter, c, tag>>

GcmSivHashBlock ==
  /\ pc = "hash" /\ i <= BlocksOf(job.adlen) + BlocksOf(job.mlen)
  /\ y' = ghash_process_block(keys.auth, y,
            HashInput(job.ad, job.adlen, job.m, job.mlen, LengthsLE, i))
  /\ i' = i + 1
  /\ UNCHANGED <<job, pc, keys, counter, c, tag>>

\* The hash with the nonce added and the top bit cleared.
TagInput ==
  [j \in 0..(BlockLen - 1) |->
     CASE j < NonceLen -> y[j] (+) job.npub[j]
       [] j \in NonceLen..(BlockLen - 2) -> y[j]
       [] j = BlockLen - 1 -> y[j] \ {7}]

\* The tag with the top bit set is the first counter.
GcmSivTag ==
  /\ pc = "hash" /\ i > BlocksOf(job.adlen) + BlocksOf(job.mlen)
  /\ pc' = "stream" /\ i' = 0
  /\ tag' = E(keys.enc, TagInput)
  /\ counter' = [tag' EXCEPT ![BlockLen - 1] = @ \cup {7}]
  /\ UNCHANGED <<job, keys, y, c>>

\* ++ of the little-endian word in bytes 0 to 3.
IncLE(b) == [j \in DOMAIN b |->
               IF j < 4 /\ \A l \in 0..(j-1) : b[l] = Ones THEN IncByte(b[j]) ELSE b[j]]

GcmSivStream ==
  /\ pc = "stream" /\ i < job.mlen
  /\ c' = Put(c, i, XorBlock(Slice(job.m, i, Chunk), E(keys.enc, counter)))
  /\ counter' = IF Chunk = BlockLen THEN IncLE(counter) ELSE counter
  /\ i' = i + Chunk
  /\ UNCHANGED <<job, pc, keys, y, tag>>

GcmSivReturn ==
  /\ pc = "stream" /\ i = job.mlen
  /\ pc' = "done"
  /\ UNCHANGED <<job, i, keys, y, counter, c, tag>>

GcmSivNext == DeriveKeys \/ GcmSivHashBlock \/ GcmSivTag \/ GcmSivStream \/ GcmSivReturn

GcmSivSpec == GcmSivInit /\ [][GcmSivNext]_gcmSivVars

\* Stages, and how much of the buffers has been written.
GcmSivTypeOK ==
  /\ job.mode = "gcm_siv"
  /\ pc \in {"derive", "hash", "stream", "done"}
  /\ i \in Nat
  /\ DOMAIN c = 0..((IF pc \in {"derive", "hash"} THEN 0 ELSE i) - 1)
  /\ DOMAIN tag = IF pc \in {"derive", "hash"} THEN {} ELSE 0..(BlockLen - 1)
=============================================================================
