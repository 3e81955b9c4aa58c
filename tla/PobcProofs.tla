----------------------------- MODULE PobcProofs -----------------------------
(***************************************************************************)
(* AES-POBC and AES-POBC-SIV over any block cipher. Up to the lengths at   *)
(* which the ranges of its counters meet, AES-POBC enciphers no block      *)
(* twice in a call. Of AES-POBC-SIV decryption inverts encryption at every *)
(* length, and what is rejected is wiped.                                  *)
(***************************************************************************)
EXTENDS Pobc, PobcSiv, BlocksProofs

(***************************************************************************)
(* The counter blocks that the stages ask for: the mask and the first n of *)
(* the stream, the first n for associated data, the first n for the tag.   *)
(***************************************************************************)
Streams(npub, n) == {Counter(npub, 0)} \cup {Counter(npub, StreamBase + b) : b \in 0..(n-1)}
Ads(n)           == {Counter(Zeros(NonceLen), AdBase + b) : b \in 0..(n-1)}
Tags(n)          == {Counter(Zeros(NonceLen), CBase + b) : b \in 0..(n-1)}

Counters(npub) == [n : {npub, Zeros(NonceLen)}, w : Nat]

\* Where a loop is, what its counter block is if it goes on, and what has been
\* asked for until then.
Masking == pc = "mask" => i = 0 /\ asked = << >> /\ nc = Counter(job.npub, 0)

Streaming == pc = "stream" =>
  /\ i \in 0..job.mlen
  /\ i % 16 = 0 \/ i = job.mlen
  /\ i < job.mlen => nc = Counter(job.npub, StreamBase + BlocksOf(i))
  /\ AllOf(asked, Streams(job.npub, BlocksOf(i)))

AddingAd == pc = "ad" =>
  /\ i \in 0..BlocksOf(job.adlen)
  /\ i < BlocksOf(job.adlen) => nc = Counter(Zeros(NonceLen), AdBase + i)
  /\ AllOf(asked, Streams(job.npub, BlocksOf(job.mlen)) \cup Ads(i))

AddingTag == pc = "tag" =>
  /\ i \in 0..BlocksOf(job.mlen)
  /\ i < BlocksOf(job.mlen) => nc = Counter(Zeros(NonceLen), CBase + i)
  /\ AllOf(asked, Streams(job.npub, BlocksOf(job.mlen)) \cup Ads(BlocksOf(job.adlen))
                    \cup Tags(i))

CounterInv ==
  /\ asked \in Seq(Counters(job.npub)) /\ Distinct(asked)
  /\ Masking /\ Streaming /\ AddingAd /\ AddingTag

PobcInv ==
  /\ job \in CallsOf({"pobc"})
  /\ pc \in {"mask", "stream", "ad", "tag", "done"}
  /\ KeepApart => CounterInv

(***************************************************************************)
(* Counters                                                                *)
(***************************************************************************)
\* The bases of the three ranges.
LEMMA BaseFacts ==
  /\ StreamBase \in Nat /\ StreamBase > 0
  /\ CBase = StreamBase + 64 /\ AdBase = StreamBase + 96
  /\ WordSize \in Nat
<1>1. 2^24 \in Nat /\ 2^24 > 0
  BY SMT
<1> QED BY <1>1, WordAssumption DEF StreamBase, CBase, AdBase

LEMMA LengthFacts ==
  ASSUME job \in CallsOf({"pobc"})
  PROVE  /\ job.mlen \in Nat /\ BlocksOf(job.mlen) \in Nat
         /\ job.adlen \in Nat /\ BlocksOf(job.adlen) \in Nat
         /\ job.adlen = 0 => BlocksOf(job.adlen) = 0
BY CallFacts, BlocksOfFacts

\* A counter that does not overflow.
LEMMA IncrFacts ==
  ASSUME NEW n, NEW w \in Nat, w + 1 < WordSize
  PROVE  nonce_incr(Counter(n, w)) = Counter(n, w + 1)
BY DEF nonce_incr, Counter

\* The next block of the stream is new.
LEMMA StreamFresh ==
  ASSUME NEW npub, NEW n \in Nat, NEW x, x = Counter(npub, StreamBase + n)
  PROVE  /\ x \in Counters(npub) /\ x \notin Streams(npub, n)
         /\ x \in Streams(npub, n + 1) /\ Streams(npub, n) \subseteq Streams(npub, n + 1)
<1>1. x \in Counters(npub)
  BY BaseFacts DEF Counters, Counter
<1>2. x # Counter(npub, 0) /\ \A b \in 0..(n-1) : x # Counter(npub, StreamBase + b)
  BY CounterTells, BaseFacts
<1>3. n \in 0..(n + 1 - 1) /\ 0..(n-1) \subseteq 0..(n + 1 - 1)
  OBVIOUS
<1> QED BY <1>1, <1>2, <1>3 DEF Streams

\* So is the next one for associated data: those of the stream have another
\* nonce or have not come so far.
LEMMA AdFresh ==
  ASSUME KeepApart, job \in CallsOf({"pobc"}), NEW n \in Nat, n < BlocksOf(job.adlen),
         NEW x, x = Counter(Zeros(NonceLen), AdBase + n)
  PROVE  /\ x \in Counters(job.npub)
         /\ x \notin Streams(job.npub, BlocksOf(job.mlen)) /\ x \notin Ads(n)
         /\ x \in Ads(n + 1) /\ Ads(n) \subseteq Ads(n + 1)
<1>1. x \in Counters(job.npub)
  BY BaseFacts DEF Counters, Counter
<1>2. x # Counter(job.npub, 0)
  BY CounterTells, BaseFacts
<1>3. ASSUME NEW b \in 0..(BlocksOf(job.mlen) - 1), x = Counter(job.npub, StreamBase + b)
      PROVE  FALSE
  <2>1. job.npub = Zeros(NonceLen) /\ AdBase + n = StreamBase + b
    BY <1>3, CounterTells
  <2>2. BlocksOf(job.mlen) <= 64 /\ BlocksOf(job.mlen) \in Nat
    BY <2>1, BaseFacts, LengthFacts DEF KeepApart
  <2> QED BY <2>1, <2>2, BaseFacts
<1>4. \A b \in 0..(n-1) : x # Counter(Zeros(NonceLen), AdBase + b)
  BY CounterTells, BaseFacts
<1>5. n \in 0..(n + 1 - 1) /\ 0..(n-1) \subseteq 0..(n + 1 - 1)
  OBVIOUS
<1> QED BY <1>1, <1>2, <1>3, <1>4, <1>5 DEF Streams, Ads

\* And the next one for the tag: it is below those for associated data.
LEMMA TagFresh ==
  ASSUME KeepApart, job \in CallsOf({"pobc"}), NEW n \in Nat, n < BlocksOf(job.mlen),
         NEW x, x = Counter(Zeros(NonceLen), CBase + n)
  PROVE  /\ x \in Counters(job.npub)
         /\ x \notin Streams(job.npub, BlocksOf(job.mlen))
         /\ x \notin Ads(BlocksOf(job.adlen)) /\ x \notin Tags(n)
         /\ x \in Tags(n + 1) /\ Tags(n) \subseteq Tags(n + 1)
<1>1. x \in Counters(job.npub)
  BY BaseFacts DEF Counters, Counter
<1>2. x # Counter(job.npub, 0)
  BY CounterTells, BaseFacts
<1>3. ASSUME NEW b \in 0..(BlocksOf(job.mlen) - 1), x = Counter(job.npub, StreamBase + b)
      PROVE  FALSE
  <2>1. job.npub = Zeros(NonceLen) /\ CBase + n = StreamBase + b
    BY <1>3, CounterTells
  <2>2. BlocksOf(job.mlen) <= 64 /\ BlocksOf(job.mlen) \in Nat
    BY <2>1, BaseFacts, LengthFacts DEF KeepApart
  <2> QED BY <2>1, <2>2, BaseFacts
<1>4. ASSUME NEW b \in 0..(BlocksOf(job.adlen) - 1), x = Counter(Zeros(NonceLen), AdBase + b)
      PROVE  FALSE
  <2>1. CBase + n = AdBase + b
    BY <1>4, CounterTells
  <2>2. job.adlen > 0 /\ BlocksOf(job.adlen) \in Nat /\ BlocksOf(job.mlen) \in Nat
    BY LengthFacts
  <2>3. BlocksOf(job.mlen) <= 32
    BY <2>2, BaseFacts DEF KeepApart
  <2> QED BY <2>1, <2>2, <2>3, BaseFacts
<1>5. \A b \in 0..(n-1) : x # Counter(Zeros(NonceLen), CBase + b)
  BY CounterTells, BaseFacts
<1>6. n \in 0..(n + 1 - 1) /\ 0..(n-1) \subseteq 0..(n + 1 - 1)
  OBVIOUS
<1> QED BY <1>1, <1>2, <1>3, <1>4, <1>5, <1>6 DEF Streams, Ads, Tags

(***************************************************************************)
(* The steps                                                               *)
(***************************************************************************)
LEMMA InitPobcInv == PobcInit => PobcInv
<1> SUFFICES ASSUME PobcInit PROVE PobcInv
  OBVIOUS
<1>1. /\ job \in CallsOf({"pobc"}) /\ pc = "mask" /\ i = 0 /\ asked = << >>
      /\ nc = Counter(job.npub, 0)
  BY DEF PobcInit
<1>2. asked \in Seq(Counters(job.npub)) /\ Distinct(asked)
  BY <1>1 DEF Distinct
<1> QED BY <1>1, <1>2 DEF PobcInv, CounterInv, Masking, Streaming, AddingAd, AddingTag

\* What every step leaves to show.
LEMMA PobcStepFacts ==
  ASSUME PobcInv, job' = job, pc' \in {"mask", "stream", "ad", "tag", "done"},
         KeepApart /\ CounterInv => CounterInv'
  PROVE  PobcInv'
<1>1. KeepApart' <=> KeepApart
  BY DEF KeepApart, PobcFits
<1> QED BY <1>1 DEF PobcInv

LEMMA MaskStep == PobcInv /\ Mask => PobcInv'
<1> SUFFICES ASSUME PobcInv, Mask PROVE PobcInv'
  OBVIOUS
<1>1. /\ pc = "mask" /\ pc' = "stream" /\ job' = job /\ i' = i /\ asked' = Append(asked, nc)
      /\ nc' = Counter(nc.n, StreamBase)
  BY DEF Mask, Asking
<1>2. ASSUME KeepApart, CounterInv PROVE CounterInv'
  <2>1. /\ i = 0 /\ asked = << >> /\ nc = Counter(job.npub, 0)
        /\ asked \in Seq(Counters(job.npub)) /\ Distinct(asked)
    BY <1>1, <1>2 DEF CounterInv, Masking
  <2>2. nc \in Counters(job.npub) /\ nc \in Streams(job.npub, BlocksOf(i))
    BY <2>1 DEF Counters, Counter, Streams
  <2>3. PICK S : AllOf(asked, S) /\ nc \notin S /\ S \subseteq Streams(job.npub, BlocksOf(i))
    <3>1. AllOf(asked, {}) /\ nc \notin {} /\ {} \subseteq Streams(job.npub, BlocksOf(i))
      BY <2>1 DEF AllOf
    <3> QED BY <3>1
  <2>4. AskedMore(asked', asked, Counters(job.npub), Streams(job.npub, BlocksOf(i)))
    BY ONLY <1>1, <2>1, <2>2, <2>3, Another
  <2>5. nc' = Counter(job.npub, StreamBase + BlocksOf(i))
    BY <1>1, <2>1, BlocksOfFacts, BaseFacts DEF Counter
  <2>6. i \in 0..job.mlen /\ i % 16 = 0
    BY <2>1, LengthFacts DEF PobcInv
  <2> QED BY <1>1, <2>4, <2>5, <2>6
          DEF AskedMore, CounterInv, Masking, Streaming, AddingAd, AddingTag
<1> QED BY <1>1, <1>2, PobcStepFacts

\* Both steps of the stream.
LEMMA StreamStep ==
  ASSUME PobcInv, KeepApart, CounterInv, pc = "stream", pc' = pc, job' = job, asked' = Append(asked, nc),
         i < job.mlen, i' = i + Min2(job.mlen - i, 16),
         i' < job.mlen => nc' = nonce_incr(nc)
  PROVE  CounterInv'
<1>1. /\ i \in 0..job.mlen /\ i % 16 = 0 /\ job.mlen \in Nat
      /\ nc = Counter(job.npub, StreamBase + BlocksOf(i))
      /\ AllOf(asked, Streams(job.npub, BlocksOf(i)))
      /\ asked \in Seq(Counters(job.npub)) /\ Distinct(asked)
  BY LengthFacts DEF PobcInv, CounterInv, Streaming
<1>2. /\ BlocksOf(i) \in Nat /\ BlocksOf(i') = BlocksOf(i) + 1
      /\ i' \in 0..job.mlen /\ (i' % 16 = 0 \/ i' = job.mlen)
  <2>1. InOneBlock(job.mlen, i, i')
    BY <1>1, ChunkFacts
  <2> QED BY <2>1 DEF InOneBlock
<1>3. AskedMore(asked', asked, Counters(job.npub), Streams(job.npub, BlocksOf(i)+1))
  <2>1. /\ nc \in Counters(job.npub) /\ nc \notin Streams(job.npub, BlocksOf(i))
        /\ nc \in Streams(job.npub, BlocksOf(i) + 1)
        /\ Streams(job.npub, BlocksOf(i)) \subseteq Streams(job.npub, BlocksOf(i) + 1)
    BY <1>1, <1>2, StreamFresh
  <2> QED BY ONLY <1>1, <2>1, Another, asked' = Append(asked, nc)
<1>4. ASSUME i' < job.mlen
      PROVE  nc' = Counter(job.npub, StreamBase + BlocksOf(i'))
  <2>1. BlocksOf(i') < BlocksOf(job.mlen)
    <3>1. i' \in 0..job.mlen /\ i' % 16 = 0
      BY <1>2, <1>4
    <3> QED BY <3>1, <1>1, <1>4, BlocksOfLess
  <2>2. StreamBase + BlocksOf(job.mlen) <= WordSize
    BY DEF KeepApart, PobcFits
  <2>3. StreamBase + BlocksOf(i) + 1 < WordSize
    BY <2>1, <2>2, <1>2, BaseFacts, LengthFacts DEF PobcInv
  <2>4. nonce_incr(nc) = Counter(job.npub, StreamBase + BlocksOf(i) + 1)
    BY <2>3, <1>1, <1>2, BaseFacts, IncrFacts
  <2>5. StreamBase + BlocksOf(i) + 1 = StreamBase + BlocksOf(i')
    BY <1>2, BaseFacts
  <2> QED BY <2>4, <2>5, <1>4
<1> QED BY <1>2, <1>3, <1>4 DEF AskedMore, CounterInv, Masking, Streaming, AddingAd, AddingTag

LEMMA FullBlockStep == PobcInv /\ FullBlock => PobcInv'
<1> SUFFICES ASSUME PobcInv, FullBlock PROVE PobcInv'
  OBVIOUS
<1>1. /\ pc = "stream" /\ pc' = pc /\ job' = job /\ asked' = Append(asked, nc)
      /\ i + 16 <= job.mlen /\ i' = i + 16 /\ nc' = nonce_incr(nc)
  BY DEF FullBlock, Asking, BlockLen
<1>2. ASSUME KeepApart, CounterInv PROVE CounterInv'
  <2>1. i \in 0..job.mlen /\ job.mlen \in Nat
    BY <1>1, <1>2, LengthFacts DEF PobcInv, CounterInv, Streaming
  <2>2. i < job.mlen /\ i' = i + Min2(job.mlen - i, 16)
    BY <1>1, <2>1 DEF Min2
  <2> QED BY <1>1, <1>2, <2>2, StreamStep
<1> QED BY <1>1, <1>2, PobcStepFacts DEF PobcInv

LEMMA PartialBlockStep == PobcInv /\ PartialBlock => PobcInv'
<1> SUFFICES ASSUME PobcInv, PartialBlock PROVE PobcInv'
  OBVIOUS
<1>1. /\ pc = "stream" /\ pc' = pc /\ job' = job /\ asked' = Append(asked, nc)
      /\ i < job.mlen /\ i + 16 > job.mlen /\ i' = job.mlen
  BY DEF PartialBlock, Asking, BlockLen
<1>2. ASSUME KeepApart, CounterInv PROVE CounterInv'
  <2>1. i \in 0..job.mlen /\ job.mlen \in Nat
    BY <1>1, <1>2, LengthFacts DEF PobcInv, CounterInv, Streaming
  <2>2. i' = i + Min2(job.mlen - i, 16) /\ ~(i' < job.mlen)
    BY <1>1, <2>1 DEF Min2
  <2> QED BY <1>1, <1>2, <2>2, StreamStep
<1> QED BY <1>1, <1>2, PobcStepFacts DEF PobcInv

LEMMA EndStreamStep == PobcInv /\ EndStream => PobcInv'
<1> SUFFICES ASSUME PobcInv, EndStream PROVE PobcInv'
  OBVIOUS
<1>1. /\ pc = "stream" /\ i = job.mlen /\ pc' = "ad" /\ job' = job /\ asked' = asked
      /\ i' = 0 /\ nc' = Counter(Zeros(NonceLen), AdBase)
  BY DEF EndStream, Process
<1>2. ASSUME KeepApart, CounterInv PROVE CounterInv'
  <2>1. AllOf(asked, Streams(job.npub, BlocksOf(job.mlen)) \cup Ads(0))
    BY <1>1, <1>2 DEF CounterInv, Streaming, AllOf
  <2>2. nc' = Counter(Zeros(NonceLen), AdBase + i') /\ i' \in 0..BlocksOf(job.adlen)
    BY <1>1, BaseFacts, LengthFacts DEF PobcInv
  <2> QED BY <1>1, <1>2, <2>1, <2>2 DEF CounterInv, Masking, Streaming, AddingAd, AddingTag
<1> QED BY <1>1, <1>2, PobcStepFacts

LEMMA AdStep == PobcInv /\ TagBlock("ad", job.ad, job.adlen) => PobcInv'
<1> SUFFICES ASSUME PobcInv, TagBlock("ad", job.ad, job.adlen) PROVE PobcInv'
  OBVIOUS
<1>1. /\ pc = "ad" /\ pc' = pc /\ job' = job /\ asked' = Append(asked, nc)
      /\ i < BlocksOf(job.adlen) /\ i' = i + 1 /\ nc' = nonce_incr(nc)
  BY DEF TagBlock, Asking
<1>2. ASSUME KeepApart, CounterInv PROVE CounterInv'
  <2>1. /\ i \in Nat /\ BlocksOf(job.adlen) \in Nat
        /\ nc = Counter(Zeros(NonceLen), AdBase + i)
        /\ AllOf(asked, Streams(job.npub, BlocksOf(job.mlen)) \cup Ads(i))
        /\ asked \in Seq(Counters(job.npub)) /\ Distinct(asked)
    BY <1>1, <1>2, LengthFacts DEF PobcInv, CounterInv, AddingAd
  <2>2. AskedMore(asked', asked, Counters(job.npub),
                Streams(job.npub, BlocksOf(job.mlen)) \cup Ads(i + 1))
    <3>1. /\ nc \in Counters(job.npub)
          /\ nc \notin Streams(job.npub, BlocksOf(job.mlen)) /\ nc \notin Ads(i)
          /\ nc \in Ads(i + 1) /\ Ads(i) \subseteq Ads(i + 1)
      BY <1>1, <1>2, <2>1, AdFresh DEF PobcInv
    <3> DEFINE S == Streams(job.npub, BlocksOf(job.mlen)) \cup Ads(i)
               T == Streams(job.npub, BlocksOf(job.mlen)) \cup Ads(i + 1)
    <3>2. AllOf(asked, S) /\ nc \notin S /\ S \subseteq T /\ nc \in T
      BY <2>1, <3>1
    <3> HIDE DEF S, T
    <3>3. AskedMore(asked', asked, Counters(job.npub), T)
      BY ONLY <1>1, <2>1, <3>1, <3>2, Another
    <3> QED BY <3>3 DEF T
  <2>3. ASSUME i' < BlocksOf(job.adlen)
        PROVE  nc' = Counter(Zeros(NonceLen), AdBase + i')
    <3>1. AdBase + BlocksOf(job.adlen) <= WordSize
      BY <1>2 DEF KeepApart, PobcFits
    <3>2. AdBase + i \in Nat /\ (AdBase + i) + 1 < WordSize
      BY <3>1, <2>1, <2>3, <1>1, BaseFacts
    <3>3. nonce_incr(nc) = Counter(Zeros(NonceLen), (AdBase + i) + 1)
      BY <3>2, <2>1, IncrFacts
    <3>4. (AdBase + i) + 1 = AdBase + i'
      BY <1>1, <2>1, BaseFacts
    <3> QED BY <1>1, <3>3, <3>4
  <2>4. i' \in 0..BlocksOf(job.adlen)
    BY <1>1, <2>1
  <2> QED BY <1>1, <2>2, <2>3, <2>4
          DEF AskedMore, CounterInv, Masking, Streaming, AddingAd, AddingTag
<1> QED BY <1>1, <1>2, PobcStepFacts DEF PobcInv

LEMMA EndAdStep == PobcInv /\ EndAd => PobcInv'
<1> SUFFICES ASSUME PobcInv, EndAd PROVE PobcInv'
  OBVIOUS
<1>1. /\ pc = "ad" /\ i = BlocksOf(job.adlen) /\ pc' = "tag" /\ job' = job /\ asked' = asked
      /\ i' = 0 /\ nc' = Counter(Zeros(NonceLen), CBase)
  BY DEF EndAd, Process
<1>2. ASSUME KeepApart, CounterInv PROVE CounterInv'
  <2>1. AllOf(asked, Streams(job.npub, BlocksOf(job.mlen)) \cup Ads(BlocksOf(job.adlen))
                       \cup Tags(0))
    BY <1>1, <1>2 DEF CounterInv, AddingAd, AllOf
  <2>2. nc' = Counter(Zeros(NonceLen), CBase + i') /\ i' \in 0..BlocksOf(job.mlen)
    BY <1>1, BaseFacts, LengthFacts DEF PobcInv
  <2> QED BY <1>1, <1>2, <2>1, <2>2 DEF CounterInv, Masking, Streaming, AddingAd, AddingTag
<1> QED BY <1>1, <1>2, PobcStepFacts

LEMMA TagStep == PobcInv /\ TagBlock("tag", c, job.mlen) => PobcInv'
<1> SUFFICES ASSUME PobcInv, TagBlock("tag", c, job.mlen) PROVE PobcInv'
  OBVIOUS
<1>1. /\ pc = "tag" /\ pc' = pc /\ job' = job /\ asked' = Append(asked, nc)
      /\ i < BlocksOf(job.mlen) /\ i' = i + 1 /\ nc' = nonce_incr(nc)
  BY DEF TagBlock, Asking
<1> DEFINE S(n) == Streams(job.npub, BlocksOf(job.mlen)) \cup Ads(BlocksOf(job.adlen))
                     \cup Tags(n)
<1>2. ASSUME KeepApart, CounterInv PROVE CounterInv'
  <2>1. /\ i \in Nat /\ BlocksOf(job.mlen) \in Nat
        /\ nc = Counter(Zeros(NonceLen), CBase + i)
        /\ AllOf(asked, S(i))
        /\ asked \in Seq(Counters(job.npub)) /\ Distinct(asked)
    BY <1>1, <1>2, LengthFacts DEF PobcInv, CounterInv, AddingTag
  <2>2. AskedMore(asked', asked, Counters(job.npub), S(i + 1))
    <3>1. /\ nc \in Counters(job.npub)
          /\ nc \notin Streams(job.npub, BlocksOf(job.mlen))
          /\ nc \notin Ads(BlocksOf(job.adlen)) /\ nc \notin Tags(i)
          /\ nc \in Tags(i + 1) /\ Tags(i) \subseteq Tags(i + 1)
      BY <1>1, <1>2, <2>1, TagFresh DEF PobcInv
    <3>2. AllOf(asked, S(i)) /\ nc \notin S(i) /\ S(i) \subseteq S(i + 1) /\ nc \in S(i + 1)
      BY <2>1, <3>1
    <3> HIDE DEF S
    <3> QED BY ONLY <1>1, <2>1, <3>1, <3>2, Another
  <2>3. ASSUME i' < BlocksOf(job.mlen)
        PROVE  nc' = Counter(Zeros(NonceLen), CBase + i')
    <3>1. CBase + BlocksOf(job.mlen) <= WordSize
      BY <1>2 DEF KeepApart, PobcFits
    <3>2. CBase + i \in Nat /\ (CBase + i) + 1 < WordSize
      BY <3>1, <2>1, <2>3, <1>1, BaseFacts
    <3>3. nonce_incr(nc) = Counter(Zeros(NonceLen), (CBase + i) + 1)
      BY <3>2, <2>1, IncrFacts
    <3>4. (CBase + i) + 1 = CBase + i'
      BY <1>1, <2>1, BaseFacts
    <3> QED BY <1>1, <3>3, <3>4
  <2>4. i' \in 0..BlocksOf(job.mlen)
    BY <1>1, <2>1
  <2> QED BY <1>1, <2>2, <2>3, <2>4
          DEF AskedMore, CounterInv, Masking, Streaming, AddingAd, AddingTag
<1> QED BY <1>1, <1>2, PobcStepFacts DEF PobcInv

LEMMA ReturnStep == PobcInv /\ PobcReturn => PobcInv'
<1> SUFFICES ASSUME PobcInv, PobcReturn PROVE PobcInv'
  OBVIOUS
<1>1. pc' = "done" /\ job' = job /\ asked' = asked
  BY DEF PobcReturn
<1>2. CounterInv => CounterInv'
  BY <1>1 DEF CounterInv, Masking, Streaming, AddingAd, AddingTag
<1> QED BY <1>1, <1>2, PobcStepFacts

LEMMA NextPobcInv == PobcInv /\ [PobcNext]_pobcVars => PobcInv'
<1> SUFFICES ASSUME PobcInv, [PobcNext]_pobcVars PROVE PobcInv'
  OBVIOUS
<1>1. CASE PobcNext
  BY <1>1, MaskStep, FullBlockStep, PartialBlockStep, EndStreamStep, AdStep, EndAdStep,
     TagStep, ReturnStep DEF PobcNext
<1>2. CASE UNCHANGED pobcVars
  BY <1>2, PobcStepFacts
     DEF pobcVars, PobcInv, CounterInv, Masking, Streaming, AddingAd, AddingTag
<1> QED BY <1>1, <1>2

LEMMA PobcInvGives == PobcInv => PobcDistinctInputs
BY DEF PobcInv, CounterInv, Distinct, PobcDistinctInputs

\* aes_pobc_encrypt never has the same counter block enciphered twice, as long
\* as a message with associated data has at most 32 blocks, and one with a nonce
\* of zeros at most 64: whatever the cipher, and for all calls.
THEOREM PobcInputsAreDistinct == PobcSpec => []PobcDistinctInputs
BY InitPobcInv, NextPobcInv, PobcInvGives, PTL DEF PobcSpec

(***************************************************************************)
(* What AES-POBC returns. Its terms by the call and the ciphertext out.    *)
(***************************************************************************)
StreamByte(call, j) == E(call.k, RawLE(Counter(call.npub, StreamBase + (j \div 16))))[j % 16]
MaskOf(call)        == E(call.k, RawLE(Counter(call.npub, 0)))

DataTermOf(k, data, len, base, b) ==
  [j \in 0..15 |-> IF b * 16 + j < len
                   THEN E(k, RawLE(Counter(Zeros(NonceLen), base + b)))[j] (+) data[b * 16 + j]
                   ELSE Zero]

TermOf(call, out, s) ==
  IF s[1] = "mask" THEN MaskOf(call)
  ELSE IF s[1] = "ad" THEN DataTermOf(call.k, call.ad, call.adlen, AdBase, s[2])
  ELSE DataTermOf(call.k, out, call.mlen, CBase, s[2])

SumOf(call, out, D) == [j \in 0..15 |-> XorAll(D, [s \in D |-> TermOf(call, out, s)[j]])]

MaskTerms   == {<<"mask", 0>>}
AdTerms(n)  == {<<"ad", k>> : k \in 0..(n-1)}
TagTerms(n) == {<<"tag", k>> : k \in 0..(n-1)}

\* The tag is the sum of the terms in D.
Summed(D) == IsFiniteSet(D) /\ tag = SumOf(job, c, D)

\* Where the loops are, and what has been written until then.
PobcPlaces ==
  /\ pc = "mask"   => i = 0 /\ nc = Counter(job.npub, 0)
  /\ pc = "stream" => i \in 0..job.mlen /\ (i % 16 = 0 \/ i = job.mlen)
  /\ pc = "ad"     => i \in 0..BlocksOf(job.adlen)
  /\ pc = "tag"    => i \in 0..BlocksOf(job.mlen)

PobcRuns ==
  /\ \A j \in DOMAIN c : c[j] = job.m[j] (+) StreamByte(job, j)
  /\ pc = "stream" => /\ i < job.mlen => nc = Counter(job.npub, StreamBase + BlocksOf(i))
                      /\ tag = MaskOf(job)
  /\ pc = "ad"     => /\ i < BlocksOf(job.adlen) => nc = Counter(Zeros(NonceLen), AdBase + i)
                      /\ Summed(MaskTerms \cup AdTerms(i))
  /\ pc = "tag"    => /\ i < BlocksOf(job.mlen) => nc = Counter(Zeros(NonceLen), CBase + i)
                      /\ Summed(MaskTerms \cup AdTerms(BlocksOf(job.adlen)) \cup TagTerms(i))
  /\ pc = "done"   => Summed(Terms)

PobcRunInv ==
  /\ job \in CallsOf({"pobc"}) /\ PobcTypeOK /\ PobcPlaces
  /\ c = [j \in DOMAIN c |-> c[j]]
  /\ PobcFits => PobcRuns

LEMMA MaskIsBlock ==
  ASSUME BlockCipher, job \in CallsOf({"pobc"})
  PROVE  MaskOf(job) \in Block
<1>1. PICK key \in Block : job.k = Schedule(key)
  BY CallFacts
<1>2. RawLE(Counter(job.npub, 0)) \in Block
  BY CallFacts, RawLEIsBlock
<1> QED BY <1>1, <1>2 DEF BlockCipher, MaskOf

\* The counters of the loops are words.
LEMMA WordFacts ==
  /\ StreamBase \in 0..(WordSize - 1) /\ AdBase \in 0..(WordSize - 1) /\ CBase \in 0..(WordSize - 1)
  /\ \A b : b.w \in 0..(WordSize - 1) => nonce_incr(b).w \in 0..(WordSize - 1)
  /\ \A n, w : Counter(n, w).w = w
<1>1. /\ 2^24 \in Nat /\ WordSize \in Nat /\ WordSize > 2^24 + 96
  BY WordAssumption, SMT
<1>2. \A n, w : Counter(n, w).w = w
  BY DEF Counter
<1> QED BY <1>1, <1>2 DEF StreamBase, AdBase, CBase, nonce_incr

\* One term more: the tag without it, added to it.
LEMMA SumMore ==
  ASSUME NEW call, NEW out, NEW D, IsFiniteSet(D), NEW x, x \notin D,
         NEW t, t = [j \in 0..15 |-> SumOf(call, out, D)[j] (+) TermOf(call, out, x)[j]]
  PROVE  IsFiniteSet(D \cup {x}) /\ t = SumOf(call, out, D \cup {x})
<1>1. IsFiniteSet(D \cup {x})
  BY FS_AddElement
<1>2. ASSUME NEW j \in 0..15
      PROVE  SumOf(call, out, D)[j] (+) TermOf(call, out, x)[j] = SumOf(call, out, D \cup {x})[j]
  <2> DEFINE f == [s \in D |-> TermOf(call, out, s)[j]]
             g == [s \in D \cup {x} |-> TermOf(call, out, s)[j]]
  <2>1. (\A s \in D : g[s] = f[s]) /\ g[x] = TermOf(call, out, x)[j]
    OBVIOUS
  <2>2. SumOf(call, out, D)[j] = XorAll(D, f) /\ SumOf(call, out, D \cup {x})[j] = XorAll(D \cup {x}, g)
    BY DEF SumOf
  <2> HIDE DEF f, g
  <2>3. XorAll(D \cup {x}, g) = XorAll(D, f) (+) g[x]
    BY <2>1, XorAllMore
  <2> QED BY <2>1, <2>2, <2>3
<1>3. SumOf(call, out, D \cup {x}) = [j \in 0..15 |-> SumOf(call, out, D \cup {x})[j]]
  BY DEF SumOf
<1> QED BY <1>1, <1>2, <1>3

LEMMA SumOfMask ==
  ASSUME NEW call, NEW out, MaskOf(call) \in Block
  PROVE  IsFiniteSet(MaskTerms) /\ SumOf(call, out, MaskTerms) = MaskOf(call)
<1>1. MaskOf(call) = [j \in 0..15 |-> MaskOf(call)[j]]
  BY DEF Block, Buffer, BlockLen
<1>2. TermOf(call, out, <<"mask", 0>>) = MaskOf(call)
  BY DEF TermOf
<1>3. ASSUME NEW j \in 0..15
      PROVE  XorAll(MaskTerms, [s \in MaskTerms |-> TermOf(call, out, s)[j]]) = MaskOf(call)[j]
  <2> DEFINE f == [s \in MaskTerms |-> TermOf(call, out, s)[j]]
  <2>1. f[<<"mask", 0>>] = MaskOf(call)[j]
    BY <1>2 DEF MaskTerms
  <2> HIDE DEF f
  <2>2. XorAll(MaskTerms, f) = MaskOf(call)[j]
    BY <2>1, XorAllOne DEF MaskTerms
  <2> QED BY <2>2 DEF f
<1>4. IsFiniteSet(MaskTerms)
  BY FS_Singleton DEF MaskTerms
<1> QED BY <1>1, <1>3, <1>4 DEF SumOf

\* The last bytes of a term that is no block are zero, and are not added.
LEMMA TagBlockAdds ==
  ASSUME NEW k, NEW data, NEW len \in Nat, NEW base, NEW b \in Nat, NEW t,
         NEW limit, limit = Min2(len - b * 16, 16),
         NEW n, n = Counter(Zeros(NonceLen), base + b)
  PROVE  \A j \in 0..15 :
           (IF j < limit THEN t[j] (+) (E(k, RawLE(n))[j] (+) data[b * 16 + j]) ELSE t[j])
             = t[j] (+) DataTermOf(k, data, len, base, b)[j]
<1>1. ASSUME NEW j \in 0..15 PROVE j < limit <=> b * 16 + j < len
  <2>1. PICK e \in Nat : e = b * 16
    OBVIOUS
  <2> QED BY <2>1 DEF Min2
<1>2. \A a : a (+) Zero = a
  BY DEF (+), Zero
<1>3. ASSUME NEW j \in 0..15
      PROVE  (IF j < limit THEN t[j] (+) (E(k, RawLE(n))[j] (+) data[b * 16 + j]) ELSE t[j])
               = t[j] (+) DataTermOf(k, data, len, base, b)[j]
  <2>1. DataTermOf(k, data, len, base, b)[j] =
          IF b * 16 + j < len THEN E(k, RawLE(n))[j] (+) data[b * 16 + j] ELSE Zero
    BY DEF DataTermOf
  <2> QED BY <2>1, <1>1, <1>2
<1> QED BY <1>3

LEMMA InitPobcRunInv == PobcInit => PobcRunInv
<1> SUFFICES ASSUME PobcInit PROVE PobcRunInv
  OBVIOUS
<1>1. /\ job \in CallsOf({"pobc"}) /\ job.mode = "pobc" /\ pc = "mask" /\ i = 0
      /\ nc = Counter(job.npub, 0) /\ c = Zeros(0) /\ tag = Zeros(0)
  BY CallFacts DEF PobcInit
<1>2. /\ DOMAIN c = 0..(0-1) /\ c = [j \in DOMAIN c |-> c[j]] /\ (\A j \in DOMAIN c : FALSE)
      /\ DOMAIN tag = {}
  BY <1>1 DEF Zeros
<1>3. nc.w \in 0..(WordSize - 1)
  BY <1>1, WordFacts, BaseFacts
<1> QED BY <1>1, <1>2, <1>3 DEF PobcRunInv, PobcTypeOK, PobcPlaces, PobcRuns

LEMMA MaskRun == BlockCipher /\ PobcRunInv /\ Mask => PobcRunInv'
<1> SUFFICES ASSUME BlockCipher, PobcRunInv, Mask PROVE PobcRunInv'
  OBVIOUS
<1>1. /\ pc = "mask" /\ pc' = "stream" /\ job' = job /\ i' = i /\ c' = c
      /\ tag' = E(job.k, RawLE(nc)) /\ nc' = Counter(nc.n, StreamBase)
      /\ job \in CallsOf({"pobc"}) /\ i = 0 /\ nc = Counter(job.npub, 0)
  BY DEF Mask, PobcRunInv, PobcPlaces, AskLE
<1>2. tag' = MaskOf(job) /\ DOMAIN tag' = 0..15
  BY <1>1, MaskIsBlock DEF MaskOf, Block, Buffer, BlockLen
<1>3. nc' = Counter(job.npub, StreamBase + BlocksOf(0)) /\ nc'.w = StreamBase
  BY <1>1, BlocksOfFacts, BaseFacts DEF Counter
<1>4. job.mlen \in Nat /\ PobcFits' = PobcFits
  BY <1>1, LengthFacts DEF PobcFits
<1>5. PobcTypeOK' /\ PobcPlaces'
  BY <1>1, <1>2, <1>3, <1>4, WordFacts DEF PobcRunInv, PobcTypeOK, PobcPlaces, BlockLen
<1>6. PobcFits => PobcRuns'
  BY <1>1, <1>2, <1>3 DEF PobcRunInv, PobcRuns
<1> QED BY <1>1, <1>4, <1>5, <1>6 DEF PobcRunInv

\* Both steps of the stream.
LEMMA StreamRun ==
  ASSUME PobcRunInv, pc = "stream", pc' = pc, job' = job, tag' = tag, i < job.mlen,
         NEW n \in Nat, n = Min2(job.mlen - i, 16), i' = i + n, c' = Streamed(n),
         nc' = nonce_incr(nc) \/ (nc' = nc /\ i' = job.mlen)
  PROVE  PobcRunInv'
<1>1. /\ job \in CallsOf({"pobc"}) /\ job.mlen \in Nat /\ BlocksOf(job.mlen) \in Nat
      /\ i \in 0..job.mlen /\ i % 16 = 0 /\ DOMAIN c = 0..(i - 1)
      /\ nc.w \in 0..(WordSize - 1) /\ PobcFits' = PobcFits
  BY LengthFacts DEF PobcRunInv, PobcTypeOK, PobcPlaces, PobcFits
<1>2. PICK m : m = i' /\ m = i + n
  OBVIOUS
<1>3. InOneBlock(job.mlen, i, m)
  BY <1>1, <1>2, ChunkFacts
<1> DEFINE d == XorBlock(Slice(job.m, i, n), AskLE(nc))
<1>4. DOMAIN d = 0..(n-1) /\ \A l \in 0..(n-1) : d[l] = job.m[i + l] (+) AskLE(nc)[l]
  BY DEF XorBlock, Slice
<1>5. c' = Put(c, i, d)
  BY DEF Streamed
<1> HIDE DEF d
<1>6. Appended(c', c, i, d, m)
  <2>1. i \in Nat
    BY <1>1
  <2> QED BY ONLY <2>1, <1>1, <1>2, <1>4, <1>5, n \in Nat, PutAtEnd
<1>7. /\ DOMAIN c' = 0..(m - 1) /\ c' = [j \in DOMAIN c' |-> c'[j]]
      /\ \A j \in 0..(i-1) : c'[j] = c[j]
      /\ \A j \in i..(m-1) : c'[j] = d[j - i]
  BY <1>6 DEF Appended
<1>8. i' \in 0..job.mlen /\ (i' % 16 = 0 \/ i' = job.mlen)
  BY <1>2, <1>3 DEF InOneBlock
<1>9. nc'.w \in 0..(WordSize - 1)
  BY <1>1, WordFacts
<1>10. PobcTypeOK' /\ PobcPlaces'
  BY <1>1, <1>2, <1>7, <1>8, <1>9 DEF PobcRunInv, PobcTypeOK, PobcPlaces
<1>11. ASSUME PobcFits PROVE PobcRuns'
  <2>1. nc = Counter(job.npub, StreamBase + BlocksOf(i)) /\ tag = MaskOf(job)
    BY <1>11 DEF PobcRunInv, PobcRuns
  <2>2. ASSUME NEW j \in 0..(m-1) PROVE c'[j] = job.m[j] (+) StreamByte(job, j)
    <3>1. CASE j < i
      <4>1. j \in 0..(i-1) /\ j \in DOMAIN c
        BY <3>1, <1>1, <1>2
      <4> QED BY <4>1, <1>7, <1>11 DEF PobcRunInv, PobcRuns
    <3>2. CASE ~(j < i)
      <4>1. j \in i..(m-1) /\ j - i \in 0..(n-1) /\ i + (j - i) = j
        BY <3>2, <1>1, <1>2
      <4>2. j \div 16 = BlocksOf(i) /\ j % 16 = j - i
        BY <4>1, <1>3 DEF InOneBlock
      <4>3. c'[j] = job.m[j] (+) AskLE(nc)[j - i]
        BY <4>1, <1>4, <1>7
      <4> QED BY <4>2, <4>3, <2>1 DEF StreamByte, AskLE
    <3> QED BY <3>1, <3>2
  <2>3. ASSUME i' < job.mlen PROVE nc' = Counter(job.npub, StreamBase + BlocksOf(i'))
    <3>1. BlocksOf(i') < BlocksOf(job.mlen)
      <4>1. i' \in 0..job.mlen /\ i' % 16 = 0
        BY <1>8, <2>3
      <4> QED BY <4>1, <1>1, <2>3, BlocksOfLess
    <3>2. BlocksOf(i') = BlocksOf(i) + 1 /\ BlocksOf(i) \in Nat
      BY <1>2, <1>3 DEF InOneBlock
    <3>3. StreamBase + BlocksOf(job.mlen) <= WordSize
      BY <1>11 DEF PobcFits
    <3>4. StreamBase + BlocksOf(i) + 1 < WordSize
      BY <3>1, <3>2, <3>3, <1>1, BaseFacts
    <3>5. nonce_incr(nc) = Counter(job.npub, StreamBase + BlocksOf(i) + 1)
      BY <3>2, <3>4, <2>1, BaseFacts, IncrFacts
    <3>6. StreamBase + BlocksOf(i) + 1 = StreamBase + BlocksOf(i')
      BY <3>2, BaseFacts
    <3>7. nc' = nonce_incr(nc)
      BY <1>1, <2>3
    <3> QED BY <3>5, <3>6, <3>7
  <2> QED BY <1>2, <1>7, <2>1, <2>2, <2>3 DEF PobcRuns
<1> QED BY <1>1, <1>7, <1>10, <1>11 DEF PobcRunInv

LEMMA FullBlockRun == PobcRunInv /\ FullBlock => PobcRunInv'
<1> SUFFICES ASSUME PobcRunInv, FullBlock PROVE PobcRunInv'
  OBVIOUS
<1>1. /\ pc = "stream" /\ pc' = pc /\ job' = job /\ tag' = tag
      /\ i + 16 <= job.mlen /\ i' = i + 16 /\ nc' = nonce_incr(nc) /\ c' = Streamed(16)
  BY DEF FullBlock, BlockLen
<1>2. i \in 0..job.mlen /\ job.mlen \in Nat
  BY <1>1, LengthFacts DEF PobcRunInv, PobcPlaces
<1>3. PICK n \in Nat : n = 16
  OBVIOUS
<1>4. n = Min2(job.mlen - i, 16) /\ i < job.mlen /\ i' = i + n
  BY <1>1, <1>2, <1>3 DEF Min2
<1>5. /\ pc = "stream" /\ pc' = pc /\ job' = job /\ tag' = tag
      /\ nc' = nonce_incr(nc) /\ c' = Streamed(n)
  BY <1>1, <1>3
<1>6. nc' = nonce_incr(nc) \/ (nc' = nc /\ i' = job.mlen)
  BY <1>5
<1> QED BY ONLY PobcRunInv, n \in Nat, <1>4, <1>5, <1>6, StreamRun, Zenon

LEMMA PartialBlockRun == PobcRunInv /\ PartialBlock => PobcRunInv'
<1> SUFFICES ASSUME PobcRunInv, PartialBlock PROVE PobcRunInv'
  OBVIOUS
<1>1. /\ pc = "stream" /\ pc' = pc /\ job' = job /\ tag' = tag /\ nc' = nc
      /\ i < job.mlen /\ i + 16 > job.mlen /\ i' = job.mlen /\ c' = Streamed(job.mlen - i)
  BY DEF PartialBlock, BlockLen
<1>2. i \in 0..job.mlen /\ job.mlen \in Nat
  BY <1>1, LengthFacts DEF PobcRunInv, PobcPlaces
<1>3. PICK n \in Nat : n = job.mlen - i /\ n = Min2(job.mlen - i, 16) /\ i' = i + n
  BY <1>1, <1>2 DEF Min2
<1>4. c' = Streamed(n)
  BY <1>1, <1>3
<1> QED BY <1>1, <1>3, <1>4, StreamRun

LEMMA EndStreamRun == BlockCipher /\ PobcRunInv /\ EndStream => PobcRunInv'
<1> SUFFICES ASSUME BlockCipher, PobcRunInv, EndStream PROVE PobcRunInv'
  OBVIOUS
<1>1. /\ pc = "stream" /\ pc' = "ad" /\ job' = job /\ tag' = tag /\ c' = c
      /\ i = job.mlen /\ i' = 0 /\ nc' = Counter(Zeros(NonceLen), AdBase)
      /\ job \in CallsOf({"pobc"}) /\ PobcFits' = PobcFits
  BY DEF EndStream, Process, PobcRunInv, PobcFits
<1>2. BlocksOf(job.adlen) \in Nat /\ AdBase + 0 = AdBase
  BY <1>1, LengthFacts, BaseFacts
<1>3. nc'.w \in 0..(WordSize - 1)
  BY <1>1, WordFacts
<1>4. PobcTypeOK' /\ PobcPlaces'
  BY <1>1, <1>2, <1>3 DEF PobcRunInv, PobcTypeOK, PobcPlaces
<1>5. ASSUME PobcFits PROVE PobcRuns'
  <2>1. MaskTerms \cup AdTerms(0) = MaskTerms
    BY DEF AdTerms
  <2>2. tag = MaskOf(job)
    BY <1>1, <1>5 DEF PobcRunInv, PobcRuns
  <2>3. IsFiniteSet(MaskTerms) /\ tag = SumOf(job, c, MaskTerms)
    BY <1>1, <2>2, MaskIsBlock, SumOfMask
  <2> QED BY <1>1, <1>2, <1>5, <2>1, <2>3 DEF PobcRunInv, PobcRuns, Summed
<1> QED BY <1>1, <1>4, <1>5 DEF PobcRunInv

\* A step of process_blocks adds a term.
LEMMA TagBlockRun ==
  ASSUME NEW stage, NEW data, NEW len \in Nat, NEW base, TagBlock(stage, data, len), i \in Nat,
         DOMAIN tag = 0..15, nc = Counter(Zeros(NonceLen), base + i),
         NEW D, Summed(D), NEW x, x \notin D,
         TermOf(job, c, x) = DataTermOf(job.k, data, len, base, i)
  PROVE  IsFiniteSet(D \cup {x}) /\ tag' = SumOf(job, c, D \cup {x})
<1>1. PICK limit : limit = Min2(len - i * 16, 16)
  OBVIOUS
<1>2. tag' = [j \in DOMAIN tag |-> IF j < limit THEN tag[j] (+) (E(job.k, RawLE(nc))[j] (+) data[i * 16 + j])
                                               ELSE tag[j]]
  BY <1>1 DEF TagBlock, AskLE, BlockLen
<1>3. tag' = [j \in 0..15 |-> tag[j] (+) TermOf(job, c, x)[j]]
  <2>1. \A j \in 0..15 :
          (IF j < limit THEN tag[j] (+) (E(job.k, RawLE(nc))[j] (+) data[i * 16 + j]) ELSE tag[j])
            = tag[j] (+) DataTermOf(job.k, data, len, base, i)[j]
    BY ONLY <1>1, len \in Nat, i \in Nat, nc = Counter(Zeros(NonceLen), base + i), TagBlockAdds
  <2>2. TermOf(job, c, x) = DataTermOf(job.k, data, len, base, i) /\ DOMAIN tag = 0..15
    OBVIOUS
  <2> QED BY <1>2, <2>1, <2>2
<1>4. PICK t : t = tag'
  OBVIOUS
<1>5. t = [j \in 0..15 |-> SumOf(job, c, D)[j] (+) TermOf(job, c, x)[j]]
  BY <1>3, <1>4 DEF Summed
<1> QED BY <1>4, <1>5, SumMore DEF Summed

LEMMA AdRun == PobcRunInv /\ TagBlock("ad", job.ad, job.adlen) => PobcRunInv'
<1> SUFFICES ASSUME PobcRunInv, TagBlock("ad", job.ad, job.adlen) PROVE PobcRunInv'
  OBVIOUS
<1>1. /\ pc = "ad" /\ pc' = pc /\ job' = job /\ c' = c /\ i < BlocksOf(job.adlen) /\ i' = i + 1
      /\ nc' = nonce_incr(nc) /\ DOMAIN tag' = DOMAIN tag
      /\ job \in CallsOf({"pobc"}) /\ PobcFits' = PobcFits
  BY DEF TagBlock, PobcRunInv, PobcFits
<1>2. /\ job.adlen \in Nat /\ BlocksOf(job.adlen) \in Nat /\ i \in Nat /\ i' \in 0..BlocksOf(job.adlen)
      /\ DOMAIN tag = 0..15
  BY <1>1, LengthFacts DEF PobcRunInv, PobcTypeOK, BlockLen
<1>3. nc'.w \in 0..(WordSize - 1)
  BY <1>1, WordFacts DEF PobcRunInv, PobcTypeOK
<1>4. PobcTypeOK' /\ PobcPlaces'
  BY <1>1, <1>2, <1>3 DEF PobcRunInv, PobcTypeOK, PobcPlaces
<1>5. ASSUME PobcFits PROVE PobcRuns'
  <2> DEFINE D == MaskTerms \cup AdTerms(i)
             x == <<"ad", i>>
  <2>1. nc = Counter(Zeros(NonceLen), AdBase + i) /\ Summed(D)
    BY <1>1, <1>5 DEF PobcRunInv, PobcRuns
  <2>2. x \notin D
    BY <1>2 DEF MaskTerms, AdTerms
  <2>3. TermOf(job, c, x) = DataTermOf(job.k, job.ad, job.adlen, AdBase, i)
    BY DEF TermOf
  <2>4. MaskTerms \cup AdTerms(i + 1) = D \cup {x}
    <3>1. 0..((i + 1) - 1) = (0..(i-1)) \cup {i}
      BY <1>2
    <3> QED BY <3>1 DEF AdTerms
  <2> HIDE DEF D, x
  <2>5. IsFiniteSet(D \cup {x}) /\ tag' = SumOf(job, c, D \cup {x})
    BY <1>2, <2>1, <2>2, <2>3, TagBlockRun
  <2>6. ASSUME i' < BlocksOf(job.adlen) PROVE nc' = Counter(Zeros(NonceLen), AdBase + i')
    <3>1. AdBase + i + 1 < WordSize /\ AdBase + i \in Nat /\ AdBase + i + 1 = AdBase + i'
      BY <1>1, <1>2, <1>5, <2>6, BaseFacts DEF PobcFits
    <3> QED BY <3>1, <1>1, <2>1, IncrFacts
  <2> QED BY <1>1, <1>5, <2>4, <2>5, <2>6 DEF PobcRunInv, PobcRuns, Summed
<1> QED BY <1>1, <1>4, <1>5 DEF PobcRunInv

LEMMA EndAdRun == PobcRunInv /\ EndAd => PobcRunInv'
<1> SUFFICES ASSUME PobcRunInv, EndAd PROVE PobcRunInv'
  OBVIOUS
<1>1. /\ pc = "ad" /\ pc' = "tag" /\ job' = job /\ tag' = tag /\ c' = c
      /\ i = BlocksOf(job.adlen) /\ i' = 0 /\ nc' = Counter(Zeros(NonceLen), CBase)
      /\ job \in CallsOf({"pobc"}) /\ PobcFits' = PobcFits
  BY DEF EndAd, Process, PobcRunInv, PobcFits
<1>2. BlocksOf(job.mlen) \in Nat /\ CBase + 0 = CBase
  BY <1>1, LengthFacts, BaseFacts
<1>3. nc'.w \in 0..(WordSize - 1)
  BY <1>1, WordFacts
<1>4. PobcTypeOK' /\ PobcPlaces'
  BY <1>1, <1>2, <1>3 DEF PobcRunInv, PobcTypeOK, PobcPlaces
<1>5. ASSUME PobcFits PROVE PobcRuns'
  <2>1. MaskTerms \cup AdTerms(i) \cup TagTerms(0) = MaskTerms \cup AdTerms(i)
    BY DEF TagTerms
  <2> QED BY <1>1, <1>2, <1>5, <2>1 DEF PobcRunInv, PobcRuns, Summed
<1> QED BY <1>1, <1>4, <1>5 DEF PobcRunInv

LEMMA TagRun == PobcRunInv /\ TagBlock("tag", c, job.mlen) => PobcRunInv'
<1> SUFFICES ASSUME PobcRunInv, TagBlock("tag", c, job.mlen) PROVE PobcRunInv'
  OBVIOUS
<1>1. /\ pc = "tag" /\ pc' = pc /\ job' = job /\ c' = c /\ i < BlocksOf(job.mlen) /\ i' = i + 1
      /\ nc' = nonce_incr(nc) /\ DOMAIN tag' = DOMAIN tag
      /\ job \in CallsOf({"pobc"}) /\ PobcFits' = PobcFits
  BY DEF TagBlock, PobcRunInv, PobcFits
<1>2. /\ job.mlen \in Nat /\ BlocksOf(job.mlen) \in Nat /\ i \in Nat /\ i' \in 0..BlocksOf(job.mlen)
      /\ DOMAIN tag = 0..15
  BY <1>1, LengthFacts DEF PobcRunInv, PobcTypeOK, BlockLen
<1>3. nc'.w \in 0..(WordSize - 1)
  BY <1>1, WordFacts DEF PobcRunInv, PobcTypeOK
<1>4. PobcTypeOK' /\ PobcPlaces'
  BY <1>1, <1>2, <1>3 DEF PobcRunInv, PobcTypeOK, PobcPlaces
<1>5. ASSUME PobcFits PROVE PobcRuns'
  <2> DEFINE D == MaskTerms \cup AdTerms(BlocksOf(job.adlen)) \cup TagTerms(i)
             x == <<"tag", i>>
  <2>1. nc = Counter(Zeros(NonceLen), CBase + i) /\ Summed(D)
    BY <1>1, <1>5 DEF PobcRunInv, PobcRuns
  <2>2. x \notin D
    BY <1>2 DEF MaskTerms, AdTerms, TagTerms
  <2>3. TermOf(job, c, x) = DataTermOf(job.k, c, job.mlen, CBase, i)
    BY DEF TermOf
  <2>4. MaskTerms \cup AdTerms(BlocksOf(job.adlen)) \cup TagTerms(i + 1) = D \cup {x}
    <3>1. 0..((i + 1) - 1) = (0..(i-1)) \cup {i}
      BY <1>2
    <3> QED BY <3>1 DEF TagTerms
  <2> HIDE DEF D, x
  <2>5. IsFiniteSet(D \cup {x}) /\ tag' = SumOf(job, c, D \cup {x})
    BY <1>2, <2>1, <2>2, <2>3, TagBlockRun
  <2>6. ASSUME i' < BlocksOf(job.mlen) PROVE nc' = Counter(Zeros(NonceLen), CBase + i')
    <3>1. CBase + i + 1 < WordSize /\ CBase + i \in Nat /\ CBase + i + 1 = CBase + i'
      BY <1>1, <1>2, <1>5, <2>6, BaseFacts DEF PobcFits
    <3> QED BY <3>1, <1>1, <2>1, IncrFacts
  <2> QED BY <1>1, <1>5, <2>4, <2>5, <2>6 DEF PobcRunInv, PobcRuns, Summed
<1> QED BY <1>1, <1>4, <1>5 DEF PobcRunInv

LEMMA ReturnRun == PobcRunInv /\ PobcReturn => PobcRunInv'
<1> SUFFICES ASSUME PobcRunInv, PobcReturn PROVE PobcRunInv'
  OBVIOUS
<1>1. /\ pc = "tag" /\ pc' = "done" /\ job' = job /\ tag' = tag /\ c' = c /\ i' = i /\ nc' = nc
      /\ i = BlocksOf(job.mlen) /\ job \in CallsOf({"pobc"}) /\ PobcFits' = PobcFits
      /\ Terms' = Terms
  BY DEF PobcReturn, PobcRunInv, PobcFits, Terms
<1>2. MaskTerms \cup AdTerms(BlocksOf(job.adlen)) \cup TagTerms(i) = Terms
  BY <1>1 DEF Terms, MaskTerms, AdTerms, TagTerms
<1>3. PobcTypeOK' /\ PobcPlaces'
  BY <1>1 DEF PobcRunInv, PobcTypeOK, PobcPlaces
<1>4. PobcFits => PobcRuns'
  BY <1>1, <1>2 DEF PobcRunInv, PobcRuns, Summed
<1> QED BY <1>1, <1>3, <1>4 DEF PobcRunInv

LEMMA NextPobcRunInv == BlockCipher /\ PobcRunInv /\ [PobcNext]_pobcVars => PobcRunInv'
<1>1. PobcRunInv /\ UNCHANGED pobcVars => PobcRunInv'
  BY DEF pobcVars, PobcRunInv, PobcTypeOK, PobcPlaces, PobcFits, PobcRuns, Summed, Terms
<1> QED BY <1>1, MaskRun, FullBlockRun, PartialBlockRun, EndStreamRun, AdRun, EndAdRun,
       TagRun, ReturnRun DEF PobcNext

\* The terms of the specification are those of the invariant.
LEMMA TermFacts == \A s \in Terms : Term(s) = TermOf(job, c, s)
<1>1. ASSUME NEW data, NEW len, NEW base, NEW b
      PROVE  DataTerm(data, len, base, b) = DataTermOf(job.k, data, len, base, b)
  BY DEF DataTerm, DataTermOf, Once, AskLE, BlockLen
<1>2. Term(<<"mask", 0>>) = TermOf(job, c, <<"mask", 0>>)
  BY DEF Term, TermOf, MaskOf, AskLE
<1>3. ASSUME NEW k PROVE Term(<<"ad", k>>) = TermOf(job, c, <<"ad", k>>)
  BY <1>1 DEF Term, TermOf
<1>4. ASSUME NEW k PROVE Term(<<"tag", k>>) = TermOf(job, c, <<"tag", k>>)
  BY <1>1 DEF Term, TermOf
<1> QED BY <1>2, <1>3, <1>4 DEF Terms

LEMMA PobcRunInvGives == PobcRunInv => PobcTypeOK /\ PobcEncryptsAsSpecified
<1> SUFFICES ASSUME PobcRunInv, pc = "done", PobcFits
             PROVE  PobcEncryptsAsSpecified
  BY DEF PobcRunInv, PobcEncryptsAsSpecified
<1>1. c = PobcCtrOf(job.m)
  <2>1. job.m \in [0..(job.mlen - 1) -> Byte] /\ job.mlen \in Nat
    BY CallFacts DEF PobcRunInv, Buffer
  <2>2. /\ DOMAIN c = 0..(job.mlen - 1) /\ c = [j \in DOMAIN c |-> c[j]]
        /\ \A j \in DOMAIN c : c[j] = job.m[j] (+) StreamByte(job, j)
    BY DEF PobcRunInv, PobcTypeOK, PobcRuns
  <2>3. PobcCtrOf(job.m) = [j \in DOMAIN job.m |-> job.m[j] (+) StreamBlocks[j \div BlockLen][j % BlockLen]]
    BY DEF PobcCtrOf, Once
  <2>4. ASSUME NEW j \in 0..(job.mlen - 1)
        PROVE  StreamBlocks[j \div BlockLen][j % BlockLen] = StreamByte(job, j)
    <3>1. j \div 16 \in 0..(BlocksOf(job.mlen) - 1)
      BY <2>1 DEF BlocksOf, BlockLen
    <3> QED BY <3>1 DEF StreamBlocks, StreamByte, AskLE, BlockLen
  <2> QED BY <2>1, <2>2, <2>3, <2>4
<1>2. tag = Once([s \in Terms |-> Term(s)], LAMBDA t :
               [j \in 0..(BlockLen - 1) |-> XorAll(Terms, [s \in Terms |-> t[s][j]])])
  <2> DEFINE t == [s \in Terms |-> Term(s)]
  <2>1. t = [s \in Terms |-> TermOf(job, c, s)]
    BY TermFacts
  <2> HIDE DEF t
  <2>2. tag = SumOf(job, c, Terms)
    BY DEF PobcRunInv, PobcRuns, Summed
  <2>3. Once(t, LAMBDA u : [j \in 0..(BlockLen - 1) |-> XorAll(Terms, [s \in Terms |-> u[s][j]])])
          = [j \in 0..(BlockLen - 1) |-> XorAll(Terms, [s \in Terms |-> t[s][j]])]
    BY DEF Once
  <2>4. ASSUME NEW j \in 0..15
        PROVE  XorAll(Terms, [s \in Terms |-> t[s][j]]) = tag[j]
    <3>1. [s \in Terms |-> t[s][j]] = [s \in Terms |-> TermOf(job, c, s)[j]]
      BY <2>1
    <3>2. tag[j] = XorAll(Terms, [s \in Terms |-> TermOf(job, c, s)[j]])
      BY <2>2 DEF SumOf
    <3> QED BY <3>1, <3>2
  <2>5. tag = [j \in 0..(BlockLen - 1) |-> XorAll(Terms, [s \in Terms |-> t[s][j]])]
    <3>1. tag = [j \in 0..15 |-> tag[j]]
      BY <2>2 DEF SumOf
    <3> QED BY <2>4, <3>1 DEF BlockLen
  <2> QED BY <2>3, <2>5 DEF t
<1> QED BY <1>1, <1>2 DEF PobcEncryptsAsSpecified

\* With a block cipher, aes_pobc_encrypt writes what it may, stage by stage.
THEOREM PobcTypeCorrect ==
  ASSUME BlockCipher
  PROVE  PobcSpec => []PobcTypeOK
<1>1. PobcRunInv /\ [PobcNext]_pobcVars => PobcRunInv'
  BY NextPobcRunInv
<1> QED BY <1>1, InitPobcRunInv, PobcRunInvGives, PTL DEF PobcSpec

\* What aes_pobc_encrypt returns is the counter mode of the message, and the sum
\* of the mask, of every block of associated data and of every block of
\* ciphertext, each with its cipher output.
THEOREM PobcIsAsSpecified ==
  ASSUME BlockCipher
  PROVE  PobcSpec => []PobcEncryptsAsSpecified
<1>1. PobcRunInv /\ [PobcNext]_pobcVars => PobcRunInv'
  BY NextPobcRunInv
<1> QED BY <1>1, InitPobcRunInv, PobcRunInvGives, PTL DEF PobcSpec

(***************************************************************************)
(* AES-POBC-SIV                                                            *)
(***************************************************************************)
(***************************************************************************)
(* Both sides count on from the IV. N is the sequence of counter blocks:   *)
(* what encryption has counted through, and decryption counts through.     *)
(***************************************************************************)
SivCounts(N, n)   == N[0] = iv /\ \A b \in 0..(n-1) : N[b+1] = gcm_incr(N[b])
SivKeyByte(N, j)  == E(job.k, N[j \div 16])[j % 16]
SivEnciphered(N, n) == \A j \in 0..(n-1) : c[j] = job.m[j] (+) SivKeyByte(N, j)

Encrypting == pc = "encrypt" =>
  \E N : SivCounts(N, BlocksOf(i)) /\ nc = N[BlocksOf(i)] /\ SivEnciphered(N, i)
SivEncrypted == pc = "transit" =>
  \E N : SivCounts(N, BlocksOf(job.mlen)) /\ SivEnciphered(N, job.mlen)
Decrypting == pc = "decrypt" /\ recv = SivSent =>
  /\ \E N : /\ SivCounts(N, BlocksOf(job.mlen)) /\ SivEnciphered(N, job.mlen)
            /\ nc = N[BlocksOf(i)]
  /\ \A j \in 0..(i-1) : p[j] = job.m[j]

\* The loops are at the beginning of a block, or at the end.
SivAtBlock == i % 16 = 0 \/ i = job.mlen
IvIsMac == pc # "mac" => iv = pobc_mac(job.k, job.ad, job.adlen, job.m, job.mlen)
SivCall    == job \in CallsOf({"pobc_siv"})
SivStarts  == pc = "mac" => i = 0 /\ ret = "none"
SivBuffers == c = [j \in DOMAIN c |-> c[j]] /\ p = [j \in DOMAIN p |-> p[j]]

SivInv ==
  /\ SivTypeOK /\ SivCall /\ SivStarts /\ SivAtBlock /\ SivBuffers /\ IvIsMac
  /\ Encrypting /\ SivEncrypted /\ Decrypting
  /\ SivRoundTrip /\ SivCleanRejection

LEMMA InitSivInv == SivInit => SivInv
<1> SUFFICES ASSUME SivInit PROVE SivInv
  OBVIOUS
<1>1. SivCall /\ job.mode = "pobc_siv" /\ job.mlen \in Nat
  BY CallFacts DEF SivInit, SivCall
<1>2. i = 0 /\ pc = "mac" /\ ret = "none" /\ c = Zeros(0) /\ p = Zeros(0)
  BY DEF SivInit
<1>3. DOMAIN c = 0..(0-1) /\ DOMAIN p = 0..(0-1) /\ SivBuffers
  BY <1>2 DEF Zeros, SivBuffers
<1>4. SivTypeOK
  BY <1>1, <1>2, <1>3 DEF SivTypeOK
<1> QED
  BY <1>1, <1>2, <1>3, <1>4
     DEF SivInv, SivStarts, SivAtBlock, IvIsMac, Encrypting, SivEncrypted, Decrypting, SivRoundTrip, SivCleanRejection

LEMMA SivMacStep == SivInv /\ Mac => SivInv'
<1> SUFFICES ASSUME SivInv, Mac PROVE SivInv'
  OBVIOUS
<1>1. /\ pc = "mac" /\ pc' = "encrypt" /\ iv' = pobc_mac(job.k, job.ad, job.adlen, job.m, job.mlen)
      /\ nc' = iv' /\ i = 0 /\ job' = job /\ i' = i /\ c' = c /\ recv' = recv /\ p' = p /\ ret' = ret
  BY DEF Mac, SivInv, SivStarts
<1>2. SivTypeOK'
  <2>1. DOMAIN c = 0..(0-1) /\ DOMAIN p = 0..(0-1)
    BY <1>1 DEF SivInv, SivTypeOK
  <2> QED BY <1>1, <2>1 DEF SivInv, SivTypeOK
<1>3. Encrypting'
  <2>1. PICK N : N = [b \in Nat |-> nc']
    OBVIOUS
  <2>2. i' = 0 /\ BlocksOf(i') = 0
    BY <1>1 DEF BlocksOf, BlockLen
  <2>3. SivCounts(N, BlocksOf(i))' /\ SivEnciphered(N, i)'
    BY <1>1, <2>1, <2>2 DEF SivCounts, SivEnciphered
  <2>4. nc' = N[BlocksOf(i')]
    BY <2>1, <2>2
  <2> QED BY <2>3, <2>4 DEF Encrypting
<1> QED
  BY <1>1, <1>2, <1>3
     DEF SivInv, SivCall, SivStarts, SivAtBlock, IvIsMac, SivBuffers, SivEncrypted, Decrypting, SivRoundTrip, SivCleanRejection

\* A loop over chunks, both sides': the buffer to grows by the next chunk of
\* from under the counter block now reached, to the buffer out of k bytes.
Grown(to, from, out, k) ==
  /\ k \in 0..job.mlen
  /\ k % 16 = 0 \/ k = job.mlen
  /\ BlocksOf(i) \in Nat /\ BlocksOf(k) = BlocksOf(i) + 1
  /\ DOMAIN out = 0..(k - 1)
  /\ out = [j \in DOMAIN out |-> out[j]]
  /\ \A j \in 0..(i - 1) : out[j] = to[j] /\ j \div 16 \in Nat /\ j \div 16 < BlocksOf(i)
  /\ \A j \in i..(k - 1) : /\ j \div 16 = BlocksOf(i)
                           /\ out[j] = from[j] (+) E(job.k, nc)[j % 16]

LEMMA CryptedFacts ==
  ASSUME NEW to, NEW from, SivInv, i < job.mlen, DOMAIN to = 0..(i - 1)
  PROVE  Grown(to, from, Crypted(to, from), i + Chunk)
<1> DEFINE n == Chunk
           k == i + n
           d == XorBlock(Slice(from, i, n), E(job.k, nc))
           out == Crypted(to, from)
<1>1. job.mlen \in Nat /\ i \in 0..job.mlen /\ i % 16 = 0 /\ i \in Nat
  BY CallFacts DEF SivInv, SivCall, SivAtBlock, SivTypeOK
<1>2. n = Min2(job.mlen - i, 16)
  BY DEF Chunk, BlockLen
<1>3. DOMAIN d = 0..(n - 1) /\ \A l \in 0..(n - 1) : d[l] = from[i + l] (+) E(job.k, nc)[l]
  BY DEF XorBlock, Slice
<1>4. out = Put(to, i, d)
  BY DEF Crypted
<1>5. i + Chunk = k /\ k = i + n
  OBVIOUS
<1> HIDE DEF n, k, d, out
<1>6. /\ k \in 0..job.mlen /\ k > i
      /\ k % 16 = 0 \/ k = job.mlen
      /\ BlocksOf(i) \in Nat /\ BlocksOf(k) = BlocksOf(i) + 1
      /\ \A j \in i..(k - 1) : j \div 16 = BlocksOf(i) /\ j % 16 = j - i
      /\ \A j \in 0..(i - 1) : j \div 16 < BlocksOf(i) /\ j \div 16 \in Nat
  <2>1. InOneBlock(job.mlen, i, k)
    BY <1>1, <1>2, <1>5, ChunkFacts
  <2> QED BY <2>1 DEF InOneBlock
<1>7. /\ DOMAIN out = 0..(k - 1)
      /\ out = [j \in DOMAIN out |-> out[j]]
      /\ \A j \in 0..(i - 1) : out[j] = to[j]
      /\ \A j \in i..(k - 1) : out[j] = d[j - i]
  <2>0. n \in Nat
    BY ONLY <1>1, <1>2 DEF Min2
  <2>1. i \in Nat /\ n \in Nat /\ DOMAIN to = 0..(i - 1) /\ DOMAIN d = 0..(n - 1) /\ k = i + n
    <3>1. DOMAIN to = 0..(i - 1)
      OBVIOUS
    <3> QED BY ONLY <1>1, <1>3, <1>5, <2>0, <3>1
  <2>2. Appended(out, to, i, d, k)
    BY ONLY <2>1, <1>4, PutAtEnd
  <2> QED BY ONLY <2>2 DEF Appended
<1>8. ASSUME NEW j \in i..(k - 1)
      PROVE  out[j] = from[j] (+) E(job.k, nc)[j % 16]
  <2>1. n \in Nat
    BY <1>1, <1>2 DEF Min2
  <2>2. j - i \in 0..(n - 1) /\ i + (j - i) = j /\ j % 16 = j - i
    BY <1>1, <1>5, <1>6, <2>1
  <2>3. d[j - i] = from[i + (j - i)] (+) E(job.k, nc)[j - i]
    BY <2>2, <1>3
  <2> QED BY <2>2, <2>3, <1>7
<1>9. \A j \in 0..(i - 1) : out[j] = to[j] /\ j \div 16 \in Nat /\ j \div 16 < BlocksOf(i)
  BY <1>6, <1>7
<1>10. \A j \in i..(k - 1) : /\ j \div 16 = BlocksOf(i)
                             /\ out[j] = from[j] (+) E(job.k, nc)[j % 16]
  BY <1>6, <1>8
<1>11. Grown(to, from, out, k)
  BY ONLY <1>6, <1>7, <1>9, <1>10, Zenon DEF Grown
<1> QED BY <1>5, <1>11 DEF out

LEMMA EncryptChunkStep == SivInv /\ EncryptChunk => SivInv'
<1> SUFFICES ASSUME SivInv, EncryptChunk PROVE SivInv'
  OBVIOUS
<1> DEFINE B == BlocksOf(i)
<1>1. /\ pc = "encrypt" /\ i < job.mlen /\ c' = Crypted(c, job.m)
      /\ nc' = gcm_incr(nc) /\ i' = i + Chunk
      /\ job' = job /\ pc' = pc /\ iv' = iv /\ recv' = recv /\ p' = p /\ ret' = ret
  BY DEF EncryptChunk
<1>2. DOMAIN c = 0..(i - 1) /\ DOMAIN p = 0..(0-1) /\ job.mlen \in Nat /\ i \in 0..job.mlen
  BY <1>1, CallFacts DEF SivInv, SivTypeOK, SivCall
<1>9. Grown(c, job.m, c', i')
  BY <1>1, <1>2, CryptedFacts
<1>3. /\ i' \in 0..job.mlen
      /\ i' % 16 = 0 \/ i' = job.mlen
      /\ B \in Nat /\ BlocksOf(i') = B + 1
      /\ DOMAIN c' = 0..(i' - 1) /\ c' = [j \in DOMAIN c' |-> c'[j]]
      /\ \A j \in 0..(i - 1) : c'[j] = c[j] /\ j \div 16 \in Nat /\ j \div 16 < B
      /\ \A j \in i..(i' - 1) : j \div 16 = B /\ c'[j] = job.m[j] (+) E(job.k, nc)[j % 16]
  BY <1>9 DEF Grown
<1>4. SivTypeOK'
  BY <1>1, <1>2, <1>3 DEF SivInv, SivTypeOK
<1>5. Encrypting'
  <2>1. PICK N : SivCounts(N, B) /\ nc = N[B] /\ SivEnciphered(N, i)
    BY <1>1 DEF SivInv, Encrypting
  <2>9. PICK L : L = [b \in Nat |-> IF b <= B THEN N[b] ELSE nc']
    OBVIOUS
  <2>2. /\ \A b \in 0..B : L[b] = N[b]
        /\ L[B + 1] = gcm_incr(N[B])
    BY <1>1, <1>3, <2>1, <2>9
  <2>3. L[0] = iv /\ \A b \in 0..B : L[b+1] = gcm_incr(L[b])
    <3>1. L[0] = iv
      BY <2>1, <2>2, <1>3 DEF SivCounts
    <3>2. ASSUME NEW b \in 0..B PROVE L[b+1] = gcm_incr(L[b])
      <4>1. CASE b = B
        BY <4>1, <2>2, <1>3
      <4>2. CASE b # B
        <5>1. b \in 0..(B-1) /\ b + 1 \in 0..B
          BY <4>2, <1>3
        <5> QED BY <5>1, <2>1, <2>2 DEF SivCounts
      <4> QED BY <4>1, <4>2
    <3> QED BY <3>1, <3>2
  <2>4. SivCounts(L, BlocksOf(i))'
    BY <2>3, <1>1, <1>3 DEF SivCounts
  <2>5. ASSUME NEW j \in 0..(i' - 1) PROVE c'[j] = job.m[j] (+) E(job.k, L[j \div 16])[j % 16]
    <3>1. CASE j < i
      <4>1. j \in 0..(i - 1)
        BY <3>1, <1>2
      <4>2. c[j] = job.m[j] (+) E(job.k, N[j \div 16])[j % 16] /\ c'[j] = c[j] /\ j \div 16 \in 0..B
        BY <4>1, <1>3, <2>1 DEF SivEnciphered, SivKeyByte
      <4> QED BY <4>2, <2>2
    <3>2. CASE ~(j < i)
      <4>1. j \in i..(i' - 1)
        BY <3>2, <1>2, <1>3
      <4>2. L[j \div 16] = nc
        BY <4>1, <1>3, <2>1, <2>2
      <4> QED BY <4>1, <4>2, <1>3
    <3> QED BY <3>1, <3>2
  <2>6. SivEnciphered(L, i)'
    BY <2>5, <1>1 DEF SivEnciphered, SivKeyByte
  <2>7. nc' = L[B + 1]
    BY <1>1, <1>3, <2>1, <2>2
  <2> QED BY <2>4, <2>6, <2>7, <1>3 DEF Encrypting
<1> QED
  BY <1>1, <1>3, <1>4, <1>5
     DEF SivInv, SivCall, SivStarts, SivAtBlock, IvIsMac, SivBuffers, SivEncrypted, Decrypting, SivRoundTrip, SivCleanRejection

LEMMA EndEncryptStep == SivInv /\ EndEncrypt => SivInv'
<1> SUFFICES ASSUME SivInv, EndEncrypt PROVE SivInv'
  OBVIOUS
<1>1. /\ pc = "encrypt" /\ i = job.mlen /\ pc' = "transit"
      /\ job' = job /\ i' = i /\ nc' = nc /\ c' = c /\ iv' = iv /\ recv' = recv /\ p' = p /\ ret' = ret
  BY DEF EndEncrypt
<1>2. SivTypeOK'
  BY <1>1 DEF SivInv, SivTypeOK
<1>3. SivEncrypted'
  BY <1>1 DEF SivInv, Encrypting, SivEncrypted, SivCounts, SivEnciphered, SivKeyByte
<1> QED
  BY <1>1, <1>2, <1>3
     DEF SivInv, SivCall, SivStarts, SivAtBlock, IvIsMac, SivBuffers, Encrypting, Decrypting, SivRoundTrip, SivCleanRejection

LEMMA TransitStep == SivInv /\ SivTransit => SivInv'
<1> SUFFICES ASSUME SivInv, SivTransit PROVE SivInv'
  OBVIOUS
<1>1. /\ pc = "transit" /\ pc' = "decrypt" /\ nc' = recv'.iv /\ i' = 0
      /\ job' = job /\ c' = c /\ iv' = iv /\ p' = p /\ ret' = ret
  BY DEF SivTransit
<1>2. job.mlen \in Nat
  BY CallFacts DEF SivInv, SivCall
<1>3. SivTypeOK'
  BY <1>1, <1>2 DEF SivInv, SivTypeOK
<1>4. SivAtBlock'
  BY <1>1 DEF SivAtBlock
<1>5. Decrypting'
  <2> SUFFICES ASSUME recv' = SivSent' PROVE Decrypting'
    BY DEF Decrypting
  <2>1. nc' = iv
    BY <1>1 DEF SivSent
  <2>2. PICK N : SivCounts(N, BlocksOf(job.mlen)) /\ SivEnciphered(N, job.mlen)
    BY <1>1 DEF SivInv, SivEncrypted
  <2>3. BlocksOf(i') = 0
    BY <1>1 DEF BlocksOf, BlockLen
  <2>4. nc' = N[BlocksOf(i')]
    BY <2>1, <2>2, <2>3 DEF SivCounts
  <2>5. (SivCounts(N, BlocksOf(job.mlen)) /\ SivEnciphered(N, job.mlen))'
    BY <1>1, <2>2 DEF SivCounts, SivEnciphered, SivKeyByte
  <2>6. \A j \in 0..(i' - 1) : p'[j] = job'.m[j]
    BY <1>1
  <2> QED BY <2>4, <2>5, <2>6 DEF Decrypting
<1> QED
  BY <1>1, <1>3, <1>4, <1>5
     DEF SivInv, SivCall, SivStarts, IvIsMac, SivBuffers, Encrypting, SivEncrypted, SivRoundTrip, SivCleanRejection

LEMMA DecryptChunkStep == SivInv /\ DecryptChunk => SivInv'
<1> SUFFICES ASSUME SivInv, DecryptChunk PROVE SivInv'
  OBVIOUS
<1> DEFINE B == BlocksOf(i)
<1>1. /\ pc = "decrypt" /\ i < job.mlen /\ p' = Crypted(p, recv.c)
      /\ nc' = gcm_incr(nc) /\ i' = i + Chunk
      /\ job' = job /\ pc' = pc /\ c' = c /\ iv' = iv /\ recv' = recv /\ ret' = ret
  BY DEF DecryptChunk
<1>2. DOMAIN p = 0..(i - 1) /\ job.mlen \in Nat /\ i \in 0..job.mlen
  BY <1>1, CallFacts DEF SivInv, SivTypeOK, SivCall
<1>9. Grown(p, recv.c, p', i')
  BY <1>1, <1>2, CryptedFacts
<1>3. /\ i' \in 0..job.mlen
      /\ i' % 16 = 0 \/ i' = job.mlen
      /\ B \in Nat /\ BlocksOf(i') = B + 1
      /\ DOMAIN p' = 0..(i' - 1) /\ p' = [j \in DOMAIN p' |-> p'[j]]
      /\ \A j \in 0..(i - 1) : p'[j] = p[j]
      /\ \A j \in i..(i' - 1) : j \div 16 = B /\ p'[j] = recv.c[j] (+) E(job.k, nc)[j % 16]
  BY <1>9 DEF Grown
<1>4. SivTypeOK'
  BY <1>1, <1>2, <1>3 DEF SivInv, SivTypeOK
<1>5. Decrypting'
  <2> SUFFICES ASSUME recv' = SivSent' PROVE Decrypting'
    BY DEF Decrypting
  <2>1. recv = SivSent /\ recv.c = c
    BY <1>1 DEF SivSent
  <2>2. PICK N : /\ SivCounts(N, BlocksOf(job.mlen)) /\ SivEnciphered(N, job.mlen)
                 /\ nc = N[B]
    BY <1>1, <2>1 DEF SivInv, Decrypting
  <2>3. \A j \in 0..(i-1) : p[j] = job.m[j]
    BY <1>1, <2>1 DEF SivInv, Decrypting
  <2>4. B \in 0..(BlocksOf(job.mlen) - 1)
    <3>1. \A n, k \in Nat : k < n /\ k % 16 = 0 => (k + 16 - 1) \div 16 < (n + 16 - 1) \div 16
      OBVIOUS
    <3>2. i % 16 = 0 /\ i \in Nat /\ i < job.mlen
      BY <1>1, <1>2 DEF SivInv, SivAtBlock
    <3>3. B < BlocksOf(job.mlen) /\ BlocksOf(job.mlen) \in Int
      BY <3>1, <3>2, <1>2 DEF BlocksOf, BlockLen
    <3> QED BY <3>3, <1>3
  <2>5. nc' = N[B + 1]
    BY <2>2, <2>4, <1>1 DEF SivCounts
  <2>6. ASSUME NEW j \in 0..(i' - 1) PROVE p'[j] = job.m[j]
    <3>1. CASE j < i
      <4>1. j \in 0..(i - 1)
        BY <3>1, <1>2
      <4> QED BY <4>1, <1>3, <2>3
    <3>2. CASE ~(j < i)
      <4>1. j \in i..(i' - 1) /\ j \in 0..(job.mlen - 1)
        BY <3>2, <1>2, <1>3
      <4>2. c[j] = job.m[j] (+) E(job.k, nc)[j % 16]
        BY <4>1, <1>3, <2>2 DEF SivEnciphered, SivKeyByte
      <4>3. p'[j] = (job.m[j] (+) E(job.k, nc)[j % 16]) (+) E(job.k, nc)[j % 16]
        BY <4>1, <4>2, <1>3, <2>1
      <4> QED BY <4>3, XorTwice
    <3> QED BY <3>1, <3>2
  <2>7. (SivCounts(N, BlocksOf(job.mlen)) /\ SivEnciphered(N, job.mlen))'
    BY <1>1, <2>2 DEF SivCounts, SivEnciphered, SivKeyByte
  <2> QED BY <2>5, <2>6, <2>7, <1>1, <1>3 DEF Decrypting
<1> QED
  BY <1>1, <1>3, <1>4, <1>5
     DEF SivInv, SivCall, SivStarts, SivAtBlock, IvIsMac, SivBuffers, Encrypting, SivEncrypted, SivRoundTrip, SivCleanRejection

LEMMA VerifyStep == SivInv /\ Verify => SivInv'
<1> SUFFICES ASSUME SivInv, Verify PROVE SivInv'
  OBVIOUS
<1> DEFINE mac == pobc_mac(job.k, recv.ad, job.adlen, p, job.mlen)
<1>1. /\ pc = "decrypt" /\ i = job.mlen /\ pc' = "done"
      /\ job' = job /\ i' = i /\ nc' = nc /\ c' = c /\ iv' = iv /\ recv' = recv
  BY DEF Verify
<1>2. mac = recv.iv => ret' = "ok" /\ p' = p
  BY DEF Verify
<1>3. mac # recv.iv => ret' = "bad" /\ p' = Zeros(job.mlen)
  BY DEF Verify
<1> HIDE DEF mac
<1>4. job.mlen \in Nat /\ job.m \in Buffer(job.mlen)
  BY CallFacts DEF SivInv, SivCall
<1>5. DOMAIN p = 0..(job.mlen - 1) /\ p = [j \in DOMAIN p |-> p[j]]
  BY <1>1 DEF SivInv, SivTypeOK, SivBuffers
<1>6. DOMAIN p' = 0..(job.mlen - 1) /\ p' = [j \in DOMAIN p' |-> p'[j]]
      /\ ret' \in {"ok", "bad"}
  BY <1>2, <1>3, <1>5 DEF Zeros
<1>7. SivTypeOK'
  BY <1>1, <1>6 DEF SivInv, SivTypeOK
<1>8. SivCleanRejection'
  BY <1>1, <1>2, <1>3 DEF SivCleanRejection
<1>9. SivRoundTrip'
  <2> SUFFICES ASSUME recv' = SivSent' PROVE ret' = "ok" /\ p' = job.m
    BY <1>1 DEF SivRoundTrip
  <2>1. recv = SivSent
    BY <1>1 DEF SivSent
  <2>2. recv.ad = job.ad /\ recv.iv = iv
    BY <2>1 DEF SivSent
  <2>3. \A j \in 0..(job.mlen - 1) : p[j] = job.m[j]
    BY <1>1, <2>1 DEF SivInv, Decrypting
  <2>4. p = job.m
    BY <2>3, <1>4, <1>5 DEF Buffer
  <2>5. mac = recv.iv
    BY <2>2, <2>4, <1>1 DEF mac, SivInv, IvIsMac
  <2> QED BY <1>2, <2>4, <2>5
<1> QED
  BY <1>1, <1>6, <1>7, <1>8, <1>9
     DEF SivInv, SivCall, SivStarts, SivAtBlock, IvIsMac, SivBuffers, Encrypting, SivEncrypted, Decrypting

LEMMA NextSivInv == SivInv /\ [SivNext]_sivVars => SivInv'
<1> SUFFICES ASSUME SivInv, [SivNext]_sivVars PROVE SivInv'
  OBVIOUS
<1>1. CASE SivNext
  BY <1>1, SivMacStep, EncryptChunkStep, EndEncryptStep, TransitStep, DecryptChunkStep, VerifyStep
     DEF SivNext
<1>2. CASE UNCHANGED sivVars
  <2>1. job' = job /\ pc' = pc /\ i' = i /\ nc' = nc /\ c' = c /\ iv' = iv /\ recv' = recv
        /\ p' = p /\ ret' = ret
    BY <1>2 DEF sivVars
  <2> QED
    BY <2>1 DEF SivInv, SivTypeOK, SivCall, SivStarts, SivAtBlock, IvIsMac, SivBuffers, Encrypting, SivEncrypted,
                Decrypting, SivRoundTrip, SivCleanRejection, SivSent, SivCounts, SivEnciphered, SivKeyByte
<1> QED BY <1>1, <1>2

\* Stages, indices and the extent of the buffers, for any cipher and any calls.
THEOREM PobcSivTypeCorrect == SivSpec => []SivTypeOK
<1>1. SivInv => SivTypeOK
  BY DEF SivInv
<1> QED BY InitSivInv, NextSivInv, <1>1, PTL DEF SivSpec

\* aes_pobc_siv_decrypt accepts what aes_pobc_siv_encrypt returned and gives the
\* message back: at every length, and whatever the cipher.
THEOREM PobcSivInverts == SivSpec => []SivRoundTrip
<1>1. SivInv => SivRoundTrip
  BY DEF SivInv
<1> QED BY InitSivInv, NextSivInv, <1>1, PTL DEF SivSpec

\* aes_pobc_siv_decrypt leaves zeros in the message's buffer when it fails.
THEOREM PobcSivWipes == SivSpec => []SivCleanRejection
<1>1. SivInv => SivCleanRejection
  BY DEF SivInv
<1> QED BY InitSivInv, NextSivInv, <1>1, PTL DEF SivSpec
=============================================================================
