-------------------------------- MODULE Gcm ---------------------------------
(***************************************************************************)
(* aes_gcm_128_encrypt of IoT-benchmark/aes/aes_gcm.c: counter mode, two   *)
(* blocks at a time, and the GHASH of associated data, ciphertext and      *)
(* their lengths.                                                          *)
(***************************************************************************)
EXTENDS Device, Blocks, Ghash, Sequences

gcmVars == <<job, pc, i, keys, cnt0, cnt1, y, c, tag, asked>>

AskBE(b) == E(job.k, RawBE(b))

\* gcm_incr of a counter block.
Incr(b) == Counter(b.n, (b.w + 1) % WordSize)

\* Both lengths in bits, as big-endian words (below 2^31 here).
BE64(v, j) == IF j < 4 THEN Zero ELSE NumByte((v \div 256^(7 - j)) % 256)
LengthsBE ==
  [j \in 0..(BlockLen - 1) |-> IF j < 8 THEN BE64(8 * job.adlen, j)
                                        ELSE BE64(8 * job.mlen, j - 8)]

GcmInit ==
  /\ job \in CallsOf({"gcm"})
  /\ pc = "keys" /\ i = 0
  /\ keys = [hash |-> Zero, mask |-> Zeros(0)]
  /\ cnt0 = Counter(job.npub, 1) /\ cnt1 = Counter(job.npub, 1)
  /\ y = Zeros(BlockLen)
  /\ c = Zeros(0) /\ tag = Zeros(0)
  /\ asked = << >>

Keys ==
  /\ pc = "keys" /\ pc' = "pairs"
  /\ keys' = [hash |-> ghash_init(AskBE(Counter(Zeros(NonceLen), 0))), mask |-> AskBE(cnt0)]
  /\ asked' = <<Counter(Zeros(NonceLen), 0), cnt0>>
  /\ cnt0' = Incr(cnt0) /\ cnt1' = Incr(Incr(cnt0))
  /\ UNCHANGED <<job, i, y, c, tag>>

\* The next n bytes of the ciphertext, n at most 32.
StreamedPair(n) ==
  LET out0 == AskBE(cnt0)
      out1 == AskBE(cnt1)
      Out(j) == IF j < BlockLen THEN out0[j] ELSE out1[j - BlockLen]
  IN  Put(c, i * 2 * BlockLen, [j \in 0..(n-1) |-> job.m[i * 2 * BlockLen + j] (+) Out(j)])

Pairs == (job.mlen \div BlockLen) \div 2

\* Slip: each counter is incremented once.
TwoBlocksOnce ==
  /\ pc = "pairs" /\ i < Pairs
  /\ c' = StreamedPair(2 * BlockLen)
  /\ asked' = asked \o <<cnt0, cnt1>>
  /\ cnt0' = Incr(cnt0) /\ cnt1' = Incr(cnt1)
  /\ i' = i + 1
  /\ UNCHANGED <<job, pc, keys, y, tag>>

TwoBlocks ==
  /\ pc = "pairs" /\ i < Pairs
  /\ c' = StreamedPair(2 * BlockLen)
  /\ asked' = asked \o <<cnt0, cnt1>>
  /\ cnt0' = Incr(Incr(cnt0)) /\ cnt1' = Incr(Incr(cnt1))
  /\ i' = i + 1
  /\ UNCHANGED <<job, pc, keys, y, tag>>

\* Slip: what is left is streamed in complete blocks only.
RestBlocks ==
  /\ pc = "pairs" /\ i = Pairs
  /\ c' = StreamedPair(BlockLen * ((job.mlen \div BlockLen) % 2))
  /\ asked' = asked \o <<cnt0, cnt1>>
  /\ pc' = "hash" /\ i' = 0
  /\ UNCHANGED <<job, keys, cnt0, cnt1, y, tag>>

\* At most 31 bytes are left.
Rest ==
  /\ pc = "pairs" /\ i = Pairs
  /\ c' = StreamedPair(job.mlen - Pairs * 2 * BlockLen)
  /\ asked' = asked \o <<cnt0, cnt1>>
  /\ pc' = "hash" /\ i' = 0
  /\ UNCHANGED <<job, keys, cnt0, cnt1, y, tag>>

GcmHashBlock ==
  /\ pc = "hash" /\ i <= BlocksOf(job.adlen) + BlocksOf(job.mlen)
  /\ y' = ghash_process_block(keys.hash, y,
            HashInput(job.ad, job.adlen, c, job.mlen, LengthsBE, i))
  /\ i' = i + 1
  /\ UNCHANGED <<job, pc, keys, cnt0, cnt1, c, tag, asked>>

GcmTag ==
  /\ pc = "hash" /\ i > BlocksOf(job.adlen) + BlocksOf(job.mlen)
  /\ pc' = "done"
  /\ tag' = XorBlock(y, keys.mask)
  /\ UNCHANGED <<job, i, keys, cnt0, cnt1, y, c, asked>>

GcmNext == Keys \/ TwoBlocks \/ Rest \/ GcmHashBlock \/ GcmTag

GcmSpec == GcmInit /\ [][GcmNext]_gcmVars

(***************************************************************************)
(* Properties                                                              *)
(***************************************************************************)
\* Stages, counters, and how much of the buffers has been written.
GcmTypeOK ==
  /\ job.mode = "gcm"
  /\ pc \in {"keys", "pairs", "hash", "done"}
  /\ i \in Nat
  /\ cnt0.w \in 0..(WordSize - 1) /\ cnt1.w \in 0..(WordSize - 1)
  /\ DOMAIN c = 0..((CASE pc = "keys" -> 0
                       [] pc = "pairs" -> i * 2 * BlockLen
                       [] pc \in {"hash", "done"} -> job.mlen) - 1)
  /\ DOMAIN tag = IF pc = "done" THEN 0..(BlockLen - 1) ELSE {}

\* No counter of the call overflows.
GcmFits == job.mlen \div BlockLen + 6 <= WordSize

\* Counter mode: block number b of the message is masked with E of the nonce
\* and b + 2.
GcmCtrOf(m) ==
  [j \in DOMAIN m |->
     m[j] (+) AskBE(Counter(job.npub, 2 + (j \div BlockLen)))[j % BlockLen]]

\* Two blocks at a time with two counters is counter mode, whatever is left
\* after the last pair: nothing, part of a block, a block, or more than one.
GcmPairsAreCounterMode == pc \in {"hash", "done"} /\ GcmFits => c = GcmCtrOf(job.m)

\* The cipher is never asked twice for the same block in one call, neither for
\* the zero block that makes the hash key nor for the one that masks the tag.
GcmDistinctInputs ==
  GcmFits => \A a, b \in 1..Len(asked) : a # b => asked[a] # asked[b]
=============================================================================
