------------------------------- MODULE Blocks -------------------------------
(***************************************************************************)
(* Counter blocks of the block cipher modes. The block cipher itself is a  *)
(* parameter.                                                              *)
(***************************************************************************)
EXTENDS Bytes

CONSTANTS
  E(_, _),    \* the block cipher: the key schedule, the block
  Schedule(_),\* the key schedule of a key
  WordSize,   \* how many values a 32-bit counter has
  Jobs        \* the calls that are made: records of a mode, its arguments, key k

ASSUME WordAssumption == WordSize \in Nat /\ WordSize > 2^24 + 96
ASSUME JobsAssumption ==
  \A job \in Jobs :
    /\ {"mode", "k", "npub", "ad", "adlen", "m", "mlen"} \subseteq DOMAIN job
    /\ job.k \in Block
    /\ job.mlen \in Nat /\ job.adlen \in Nat
    /\ job.m \in Buffer(job.mlen) /\ job.ad \in Buffer(job.adlen)
    /\ job.npub \in Buffer(NonceLen)

\* The calls of the modes, every one of which begins with the key's schedule.
CallsOf(modes) == {[job EXCEPT !.k = Schedule(@)] : job \in {j \in Jobs : j.mode \in modes}}

\* A counter block whose last word the code counts with: n is the nonce, w
\* the word's value.
Counter(n, w) == [n |-> n, w |-> w]

\* The block in memory, the word being little or big endian.
WithWord(n, w, Place(_)) ==
  [j \in 0..(BlockLen-1) |->
     IF j < NonceLen THEN n[j] ELSE NumByte((w \div 256^Place(j)) % 256)]
RawLE(b) == LET Place(j) == j - NonceLen      IN WithWord(b.n, b.w, Place)
RawBE(b) == LET Place(j) == BlockLen - 1 - j  IN WithWord(b.n, b.w, Place)

\* ++ of the last word of a block, byte by byte from the end.
gcm_incr(y) == IncBE(y, NonceLen, BlockLen - 1)
=============================================================================
