-------------------------------- MODULE Pobc --------------------------------
(***************************************************************************)
(* aes_pobc_encrypt of IoT-benchmark/aes-pobc/aes_pobc.c: counter mode,    *)
(* and a tag that is the sum of a mask and, for every block of associated  *)
(* data and of ciphertext, of a cipher output and that block. One action   *)
(* is one iteration of a loop, or the statements between two loops.        *)
(***************************************************************************)
EXTENDS Device, Blocks, Sequences

pobcVars == <<job, pc, i, nc, c, tag, asked>>

\* The values of the counter word. nonce_incr counts with the little-endian
\* word of bytes 12 to 15; byte 15 is set to one, byte 12 to a prefix.
StreamBase == 2^24
AdBase     == StreamBase + 96       \* 0x60
CBase      == StreamBase + 64       \* 0x40

nonce_incr(b) ==
  IF b.w + 1 < WordSize THEN Counter(b.n, b.w + 1)
                        ELSE Counter(IncBE(b.n, 0, NonceLen - 1), 0)

AskLE(b)  == E(job.k, RawLE(b))
Asking(b) == asked' = Append(asked, b)

PobcInit ==
  /\ job \in CallsOf({"pobc"})
  /\ pc = "mask" /\ i = 0
  /\ nc = Counter(job.npub, 0)
  /\ c = Zeros(0) /\ tag = Zeros(0)
  /\ asked = << >>

\* The nonce block with counter 0 masks the tag.
Mask ==
  /\ pc = "mask" /\ pc' = "stream"
  /\ tag' = AskLE(nc) /\ Asking(nc)
  /\ nc' = Counter(nc.n, StreamBase)
  /\ UNCHANGED <<job, i, c>>

\* The next n bytes of the ciphertext.
Streamed(n) == Put(c, i, XorBlock(Slice(job.m, i, n), AskLE(nc)))

FullBlock ==
  /\ pc = "stream" /\ i + BlockLen <= job.mlen
  /\ c' = Streamed(BlockLen) /\ Asking(nc)
  /\ nc' = nonce_incr(nc)
  /\ i' = i + BlockLen
  /\ UNCHANGED <<job, pc, tag>>

\* Slip: a partial block is streamed with the block counter of the block before.
PartialBlockStale ==
  /\ pc = "stream" /\ i < job.mlen /\ i + BlockLen > job.mlen
  /\ LET old == IF i = 0 THEN nc ELSE Counter(nc.n, nc.w - 1)
     IN  /\ c' = Put(c, i, XorBlock(Slice(job.m, i, job.mlen - i), AskLE(old)))
         /\ Asking(old)
  /\ i' = job.mlen
  /\ UNCHANGED <<job, pc, nc, tag>>

PartialBlock ==
  /\ pc = "stream" /\ i < job.mlen /\ i + BlockLen > job.mlen
  /\ c' = Streamed(job.mlen - i) /\ Asking(nc)
  /\ i' = job.mlen
  /\ UNCHANGED <<job, pc, nc, tag>>

\* process_blocks begins on a block that holds a prefix and no nonce.
Process(stage, base) ==
  /\ pc' = stage /\ i' = 0
  /\ nc' = Counter(Zeros(NonceLen), base)

EndStream ==
  /\ pc = "stream" /\ i = job.mlen
  /\ Process("ad", AdBase)
  /\ UNCHANGED <<job, c, tag, asked>>

\* Slip: the bytes of the cipher output beyond a partial block are added too.
TagBlockWhole(stage, data, len) ==
  LET limit == Min2(len - i * BlockLen, BlockLen)
  IN  /\ pc = stage /\ i < BlocksOf(len)
      /\ tag' = [j \in DOMAIN tag |->
                   tag[j] (+) (AskLE(nc)[j] (+)
                     (IF j < limit THEN data[i * BlockLen + j] ELSE Zero))]
      /\ Asking(nc)
      /\ nc' = nonce_incr(nc)
      /\ i' = i + 1
      /\ UNCHANGED <<job, pc, c>>

\* One block of data goes into the tag, a partial one only as far as it goes.
TagBlock(stage, data, len) ==
  LET limit == Min2(len - i * BlockLen, BlockLen)
  IN  /\ pc = stage /\ i < BlocksOf(len)
      /\ tag' = [j \in DOMAIN tag |->
                   IF j < limit THEN tag[j] (+) (AskLE(nc)[j] (+) data[i * BlockLen + j])
                                ELSE tag[j]]
      /\ Asking(nc)
      /\ nc' = nonce_incr(nc)
      /\ i' = i + 1
      /\ UNCHANGED <<job, pc, c>>

EndAd ==
  /\ pc = "ad" /\ i = BlocksOf(job.adlen)
  /\ Process("tag", CBase)
  /\ UNCHANGED <<job, c, tag, asked>>

PobcReturn ==
  /\ pc = "tag" /\ i = BlocksOf(job.mlen)
  /\ pc' = "done"
  /\ UNCHANGED <<job, i, nc, c, tag, asked>>

PobcNext ==
  \/ Mask \/ FullBlock \/ PartialBlock \/ EndStream
  \/ TagBlock("ad", job.ad, job.adlen) \/ EndAd
  \/ TagBlock("tag", c, job.mlen) \/ PobcReturn

PobcSpec == PobcInit /\ [][PobcNext]_pobcVars

(***************************************************************************)
(* Properties                                                              *)
(***************************************************************************)
\* Stages, indices, and how much of the buffers has been written.
PobcTypeOK ==
  /\ job.mode = "pobc"
  /\ pc \in {"mask", "stream", "ad", "tag", "done"}
  /\ i \in Nat
  /\ nc.w \in 0..(WordSize - 1)
  /\ DOMAIN c = 0..((IF pc \in {"mask", "stream"} THEN i ELSE job.mlen) - 1)
  /\ DOMAIN tag = IF pc = "mask" THEN {} ELSE 0..(BlockLen - 1)

\* No counter word of the call overflows (at most 2^32 - 2^24 - 96 blocks).
PobcFits ==
  /\ StreamBase + BlocksOf(job.mlen) <= WordSize
  /\ CBase + BlocksOf(job.mlen) <= WordSize
  /\ AdBase + BlocksOf(job.adlen) <= WordSize

StreamBlocks == [k \in 0..(BlocksOf(job.mlen) - 1) |-> AskLE(Counter(job.npub, StreamBase + k))]
PobcCtrOf(m) ==
  Once(StreamBlocks, LAMBDA s : [j \in DOMAIN m |-> m[j] (+) s[j \div BlockLen][j % BlockLen]])

\* The terms of the tag: the mask, and for every block of data the sum of the
\* bytes that there are and the cipher's.
Terms == {<<"mask", 0>>} \cup {<<"ad", k>> : k \in 0..(BlocksOf(job.adlen) - 1)}
                         \cup {<<"tag", k>> : k \in 0..(BlocksOf(job.mlen) - 1)}

DataTerm(data, len, base, k) ==
  Once(AskLE(Counter(Zeros(NonceLen), base + k)), LAMBDA b :
    [j \in 0..(BlockLen - 1) |-> IF k * BlockLen + j < len THEN b[j] (+) data[k * BlockLen + j]
                                 ELSE Zero])

Term(s) == CASE s[1] = "mask" -> AskLE(Counter(job.npub, 0))
             [] s[1] = "ad"   -> DataTerm(job.ad, job.adlen, AdBase, s[2])
             [] s[1] = "tag"  -> DataTerm(c, job.mlen, CBase, s[2])

\* What aes_pobc_encrypt returns, whatever the lengths of its arguments: the
\* ciphertext is the counter mode of the message, and the tag is the sum of
\* its terms, in which every byte of associated data and ciphertext is once.
PobcEncryptsAsSpecified ==
  pc = "done" /\ PobcFits =>
    /\ c = PobcCtrOf(job.m)
    /\ tag = Once([s \in Terms |-> Term(s)], LAMBDA t :
               [j \in 0..(BlockLen - 1) |-> XorAll(Terms, [s \in Terms |-> t[s][j]])])

\* The lengths up to which the three ranges of counters keep apart: the one of
\* the ciphertext begins 0x20 below that of the associated data, and both lie
\* among those of the stream when the nonce is zero.
KeepApart ==
  /\ PobcFits
  /\ job.adlen > 0 => BlocksOf(job.mlen) <= AdBase - CBase
  /\ job.npub = Zeros(NonceLen) => BlocksOf(job.mlen) <= CBase - StreamBase

\* Up to those lengths one call never asks the cipher twice for the same block:
\* mask, stream and tag outputs are all different ones.
PobcDistinctInputs ==
  KeepApart => \A a, b \in 1..Len(asked) : a # b => asked[a] # asked[b]
=============================================================================
