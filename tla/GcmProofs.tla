------------------------------ MODULE GcmProofs ------------------------------
(***************************************************************************)
(* The modes of aes/ and aes-modes/ over any block cipher. AES-GCM with    *)
(* its two counters is counter mode, and enciphers no block twice in a     *)
(* call. In the second half: the hash of ghash.c is multiplication in      *)
(* GF(2^128), and the programs of MPC/code decrypt what the modes encrypt. *)
(***************************************************************************)
EXTENDS Gcm, GcmSiv, CtrMac, MpcModes, BlocksProofs, SequenceTheorems,
        WellFoundedInduction

(***************************************************************************)
(* AES-GCM                                                                 *)
(***************************************************************************)
\* The n-th block that the cipher is asked for: the one that makes the hash
\* key, and then the nonce with the words 1, 2, 3, and so on.
GcmAsked(n) == IF n = 1 THEN Counter(Zeros(NonceLen), 0) ELSE Counter(job.npub, n - 1)

GcmAskedFirst(n) ==
  /\ asked \in Seq({Counter(Zeros(NonceLen), 0)} \cup [n : {job.npub}, w : Nat])
  /\ Len(asked) = n
  /\ \A k \in 1..n : asked[k] = GcmAsked(k)

\* The first n bytes of the ciphertext are those of counter mode.
GcmCiphered(n) ==
  \A j \in 0..(n-1) :
    c[j] = job.m[j] (+) AskBE(Counter(job.npub, 2 + (j \div 16)))[j % 16]

\* Where the loop over pairs of blocks is.
GcmPairing ==
  /\ pc = "keys" => i = 0 /\ cnt0 = Counter(job.npub, 1) /\ asked = << >>
  /\ pc = "pairs" => /\ cnt0 = Counter(job.npub, 2 + 2 * i)
                     /\ cnt1 = Counter(job.npub, 3 + 2 * i)
                     /\ GcmAskedFirst(2 + 2 * i) /\ GcmCiphered(i * 32)
  /\ pc \in {"hash", "done"} => GcmAskedFirst(4 + 2 * Pairs) /\ GcmCiphered(job.mlen)

GcmInv ==
  /\ GcmTypeOK
  /\ job \in CallsOf({"gcm"})
  /\ pc \in {"keys", "pairs"} => i \in 0..Pairs
  /\ pc = "keys" => i = 0
  /\ DOMAIN y = 0..15
  /\ c = [j \in DOMAIN c |-> c[j]]
  /\ GcmFits => GcmPairing

LEMMA PairsFacts ==
  ASSUME job \in CallsOf({"gcm"})
  PROVE  /\ job.mlen \in Nat /\ Pairs \in Nat /\ job.m \in Buffer(job.mlen)
         /\ Pairs * 32 <= job.mlen /\ job.mlen - Pairs * 32 \in 0..31
         /\ GcmFits => 5 + 2 * Pairs < WordSize
<1>1. job.mlen \in Nat /\ job.m \in Buffer(job.mlen)
  BY CallFacts
<1>2. PICK n \in Nat, h \in Nat : n = job.mlen \div 16 /\ h = n \div 2 /\ Pairs = h
  BY <1>1 DEF Pairs, BlockLen
<1>3. 16 * n <= job.mlen /\ job.mlen < 16 * n + 16
  BY <1>1, <1>2
<1>4. 2 * h <= n /\ n < 2 * h + 2
  BY <1>2
<1>5. GcmFits => n + 6 <= WordSize
  BY <1>2 DEF GcmFits, BlockLen
<1>6. WordSize \in Nat
  BY WordAssumption
<1> HIDE DEF Pairs
<1> QED BY <1>1, <1>2, <1>3, <1>4, <1>5, <1>6

\* A counter that does not overflow.
LEMMA GcmIncrFacts ==
  ASSUME NEW n, NEW w \in Nat, NEW v, v = w + 1, v < WordSize
  PROVE  Incr(Counter(n, w)) = Counter(n, v)
<1>1. (w + 1) % WordSize = v
  BY WordAssumption
<1> QED BY <1>1 DEF Incr, Counter

\* One that may.
LEMMA GcmWordFacts ==
  ASSUME NEW b, b.w \in 0..(WordSize - 1)
  PROVE  Incr(b).w \in 0..(WordSize - 1)
<1>1. PICK w \in Nat : w = b.w
  BY WordAssumption
<1>2. WordSize \in Nat /\ WordSize > 0
  BY WordAssumption
<1>3. (w + 1) % WordSize \in 0..(WordSize - 1)
  BY <1>2
<1> QED BY <1>1, <1>3 DEF Incr, Counter

LEMMA InitGcmInv == GcmInit => GcmInv
<1> SUFFICES ASSUME GcmInit PROVE GcmInv
  OBVIOUS
<1>1. /\ job \in CallsOf({"gcm"}) /\ job.mode = "gcm" /\ pc = "keys" /\ i = 0
      /\ cnt0 = Counter(job.npub, 1) /\ cnt1 = Counter(job.npub, 1)
      /\ c = Zeros(0) /\ tag = Zeros(0) /\ asked = << >> /\ y = Zeros(16)
  BY CallFacts DEF GcmInit, BlockLen
<1>2. DOMAIN c = 0..(0 - 1) /\ DOMAIN tag = {} /\ c = [j \in DOMAIN c |-> c[j]]
      /\ DOMAIN y = 0..15
  BY <1>1 DEF Zeros
<1>3. cnt0.w \in 0..(WordSize - 1) /\ cnt1.w \in 0..(WordSize - 1)
  BY <1>1, WordAssumption DEF Counter
<1>4. GcmTypeOK
  BY <1>1, <1>2, <1>3 DEF GcmTypeOK
<1>5. i \in 0..Pairs
  BY <1>1, PairsFacts
<1> QED BY <1>1, <1>2, <1>4, <1>5 DEF GcmInv, GcmPairing

LEMMA KeysStep == GcmInv /\ Keys => GcmInv'
<1> SUFFICES ASSUME GcmInv, Keys PROVE GcmInv'
  OBVIOUS
<1>1. /\ pc = "keys" /\ pc' = "pairs" /\ job' = job /\ i' = i /\ i = 0 /\ y' = y /\ c' = c /\ tag' = tag
      /\ asked' = <<Counter(Zeros(NonceLen), 0), cnt0>>
      /\ cnt0' = Incr(cnt0) /\ cnt1' = Incr(Incr(cnt0))
      /\ job \in CallsOf({"gcm"})
  BY DEF Keys, GcmInv
<1>2. GcmTypeOK'
  <2>1. cnt0'.w \in 0..(WordSize - 1) /\ cnt1'.w \in 0..(WordSize - 1)
    BY <1>1, GcmWordFacts DEF GcmInv, GcmTypeOK
  <2>2. DOMAIN c = 0..(0 - 1) /\ DOMAIN tag = {}
    BY <1>1 DEF GcmInv, GcmTypeOK
  <2>3. i * 2 * BlockLen = 0
    BY <1>1 DEF BlockLen
  <2> QED BY <1>1, <2>1, <2>2, <2>3 DEF GcmInv, GcmTypeOK
<1>3. GcmFits' => GcmPairing'
  <2> SUFFICES ASSUME GcmFits PROVE GcmPairing'
    BY <1>1 DEF GcmFits
  <2>1. cnt0 = Counter(job.npub, 1)
    BY <1>1 DEF GcmInv, GcmPairing
  <2>2. 5 < WordSize /\ WordSize \in Nat
    BY <1>1, PairsFacts, WordAssumption
  <2>3. cnt0' = Counter(job.npub, 2) /\ cnt1' = Counter(job.npub, 3)
    <3>1. Incr(Counter(job.npub, 1)) = Counter(job.npub, 2)
      BY <2>2, GcmIncrFacts
    <3>2. Incr(Counter(job.npub, 2)) = Counter(job.npub, 3)
      BY <2>2, GcmIncrFacts
    <3> QED BY <1>1, <2>1, <3>1, <3>2
  <2>4. GcmAskedFirst(2)'
    <3>1. /\ Len(asked') = 2 /\ asked'[1] = Counter(Zeros(NonceLen), 0)
          /\ asked'[2] = Counter(job.npub, 1)
      BY <1>1, <2>1
    <3>2. asked' \in Seq({Counter(Zeros(NonceLen), 0)} \cup [n : {job.npub}, w : Nat])
      <4>1. Counter(job.npub, 1) \in [n : {job.npub}, w : Nat]
        BY DEF Counter
      <4> QED BY <1>1, <2>1, <4>1
    <3>3. \A k \in 1..2 : k = 1 \/ k = 2
      OBVIOUS
    <3> QED BY <1>1, <3>1, <3>2, <3>3 DEF GcmAskedFirst, GcmAsked
  <2>5. GcmCiphered(0)'
    BY DEF GcmCiphered
  <2> QED BY <1>1, <2>3, <2>4, <2>5 DEF GcmPairing
<1> QED BY <1>1, <1>2, <1>3 DEF GcmInv, Pairs

\* What the next n bytes of the ciphertext are.
LEMMA StreamedPairFacts ==
  ASSUME GcmInv, pc = "pairs", NEW n \in 0..32, NEW k, k = i * 32
  PROVE  /\ DOMAIN StreamedPair(n) = 0..(k + n - 1)
         /\ StreamedPair(n) = [j \in DOMAIN StreamedPair(n) |-> StreamedPair(n)[j]]
         /\ \A j \in 0..(k - 1) : StreamedPair(n)[j] = c[j]
         /\ \A l \in 0..(n-1) :
              StreamedPair(n)[k + l] =
                job.m[k + l] (+) (IF l < 16 THEN AskBE(cnt0)[l] ELSE AskBE(cnt1)[l - 16])
<1> DEFINE d == [l \in 0..(n-1) |-> job.m[k + l] (+)
                   (IF l < 16 THEN AskBE(cnt0)[l] ELSE AskBE(cnt1)[l - 16])]
           out == StreamedPair(n)
<1>1. i \in Nat /\ DOMAIN c = 0..(i * 2 * 16 - 1)
  BY DEF GcmInv, GcmTypeOK, BlockLen
<1>2. k \in Nat /\ k = i * 2 * 16
  BY <1>1
<1>3. out = Put(c, k, d)
  BY <1>2 DEF StreamedPair, BlockLen
<1>4. DOMAIN d = 0..(n-1) /\ \A l \in 0..(n-1) : d[l] = job.m[k + l] (+)
                   (IF l < 16 THEN AskBE(cnt0)[l] ELSE AskBE(cnt1)[l - 16])
  OBVIOUS
<1> HIDE DEF d, out
<1>5. n \in Nat /\ DOMAIN c = 0..(k-1)
  BY <1>1, <1>2
<1>6. PICK m : m = k + n
  OBVIOUS
<1>7. Appended(out, c, k, d, m)
  BY ONLY <1>2, <1>3, <1>4, <1>5, <1>6, PutAtEnd
<1>8. ASSUME NEW l \in 0..(n-1) PROVE out[k + l] = d[l]
  <2>1. k + l \in k..(m - 1) /\ (k + l) - k = l
    BY <1>5, <1>6
  <2> QED BY <1>7, <2>1 DEF Appended
<1>9. /\ DOMAIN out = 0..(m - 1) /\ out = [j \in DOMAIN out |-> out[j]]
      /\ \A j \in 0..(k-1) : out[j] = c[j]
  BY <1>7 DEF Appended
<1>10. DOMAIN out = 0..(k + n - 1)
  BY ONLY <1>2, <1>5, <1>6, <1>9
<1>11. \A l \in 0..(n-1) : out[k + l] = job.m[k + l] (+)
                   (IF l < 16 THEN AskBE(cnt0)[l] ELSE AskBE(cnt1)[l - 16])
  BY <1>4, <1>8
<1> QED BY <1>9, <1>10, <1>11 DEF out

\* They are counter mode's, if the counters are where they should be.
LEMMA StreamedPairCiphers ==
  ASSUME GcmInv, pc = "pairs", GcmPairing, NEW n \in 0..32, c' = StreamedPair(n), job' = job,
         NEW e, e = i * 32 + n
  PROVE  GcmCiphered(e)'
<1>1. i \in Nat
  BY DEF GcmInv, GcmTypeOK
<1>2. PICK k \in Nat : k = i * 32
  BY <1>1
<1>3. /\ \A j \in 0..(k - 1) : c'[j] = c[j]
      /\ \A l \in 0..(n-1) :
              c'[k + l] = job.m[k + l] (+) (IF l < 16 THEN AskBE(cnt0)[l] ELSE AskBE(cnt1)[l - 16])
  BY ZenonT(40), <1>2, StreamedPairFacts
<1>4. cnt0 = Counter(job.npub, 2 + 2 * i) /\ cnt1 = Counter(job.npub, 3 + 2 * i)
      /\ \A j \in 0..(k-1) :
           c[j] = job.m[j] (+) AskBE(Counter(job.npub, 2 + (j \div 16)))[j % 16]
  BY <1>2 DEF GcmPairing, GcmCiphered
<1>5. ASSUME NEW j \in 0..(k + n - 1)
      PROVE  c'[j] = job.m[j] (+) AskBE(Counter(job.npub, 2 + (j \div 16)))[j % 16]
  <2>1. CASE j < k
    BY <2>1, <1>3, <1>4
  <2>2. CASE ~(j < k)
    <3>1. PICK l \in 0..(n-1) : j = k + l
      <4>1. j - k \in 0..(n-1) /\ j = k + (j - k)
        BY <2>2
      <4> QED BY <4>1
    <3>2. c'[j] = job.m[j] (+) (IF l < 16 THEN AskBE(cnt0)[l] ELSE AskBE(cnt1)[l - 16])
      BY <3>1, <1>3
    <3>3. CASE l < 16
      <4>1. j \div 16 = 2 * i /\ j % 16 = l
        BY <3>1, <3>3, <1>1, <1>2
      <4> QED BY <3>2, <3>3, <4>1, <1>4
    <3>4. CASE ~(l < 16)
      <4>1. j \div 16 = 2 * i + 1 /\ j % 16 = l - 16
        BY <3>1, <3>4, <1>1, <1>2
      <4>2. 2 + (2 * i + 1) = 3 + 2 * i
        BY <1>1
      <4> QED BY <3>2, <3>4, <4>1, <4>2, <1>4
    <3> QED BY <3>3, <3>4
  <2> QED BY <2>1, <2>2
<1>6. e = k + n
  BY <1>2
<1> QED BY <1>5, <1>6 DEF GcmCiphered, AskBE

\* A sequence with two more elements.
LEMMA TwoMore ==
  ASSUME NEW S, NEW n \in Nat, NEW s \in Seq(S), Len(s) = n, NEW u \in S, NEW v \in S
  PROVE  /\ s \o <<u, v>> \in Seq(S) /\ Len(s \o <<u, v>>) = n + 2
         /\ \A k \in 1..n : (s \o <<u, v>>)[k] = s[k]
         /\ (s \o <<u, v>>)[n + 1] = u /\ (s \o <<u, v>>)[n + 2] = v
<1>1. <<u, v>> \in Seq(S) /\ Len(<<u, v>>) = 2 /\ <<u, v>>[1] = u /\ <<u, v>>[2] = v
  OBVIOUS
<1>2. s \o <<u, v>> \in Seq(S) /\ Len(s \o <<u, v>>) = n + 2
  BY <1>1, ConcatProperties
<1>3. \A k \in 1..(n + 2) :
        (s \o <<u, v>>)[k] = IF k <= n THEN s[k] ELSE <<u, v>>[k - n]
  BY <1>1, ConcatProperties
<1>4. \A k \in 1..n : k \in 1..(n + 2) /\ k <= n
  OBVIOUS
<1>5. /\ n + 1 \in 1..(n + 2) /\ ~(n + 1 <= n) /\ (n + 1) - n = 1
      /\ n + 2 \in 1..(n + 2) /\ ~(n + 2 <= n) /\ (n + 2) - n = 2
  OBVIOUS
<1> QED BY ONLY <1>1, <1>2, <1>3, <1>4, <1>5

\* Two blocks more are asked for.
LEMMA AskedPair ==
  ASSUME GcmInv, pc = "pairs", GcmPairing, asked' = asked \o <<cnt0, cnt1>>, job' = job,
         NEW e, e = 4 + 2 * i
  PROVE  GcmAskedFirst(e)'
<1> DEFINE S == {Counter(Zeros(NonceLen), 0)} \cup [n : {job.npub}, w : Nat]
<1>1. i \in Nat
  BY DEF GcmInv, GcmTypeOK
<1>2. PICK n \in Nat : n = 2 + 2 * i
  BY <1>1
<1>3. /\ cnt0 = Counter(job.npub, n) /\ cnt1 = Counter(job.npub, n + 1)
      /\ asked \in Seq(S) /\ Len(asked) = n /\ \A k \in 1..n : asked[k] = GcmAsked(k)
  <2>1. n + 1 = 3 + 2 * i
    BY <1>1, <1>2
  <2> QED BY <1>2, <2>1 DEF GcmPairing, GcmAskedFirst
<1>4. cnt0 \in S /\ cnt1 \in S
  BY <1>3 DEF Counter
<1> HIDE DEF S
<1>5. /\ asked' \in Seq(S) /\ Len(asked') = n + 2
      /\ \A k \in 1..n : asked'[k] = asked[k]
      /\ asked'[n + 1] = cnt0 /\ asked'[n + 2] = cnt1
  <2> QED BY ONLY <1>3, <1>4, TwoMore, n \in Nat, asked' = asked \o <<cnt0, cnt1>>
<1>6. ASSUME NEW k \in 1..(n + 2) PROVE asked'[k] = GcmAsked(k)
  <2>1. CASE k \in 1..n
    BY <2>1, <1>3, <1>5
  <2>2. CASE k = n + 1
    BY <2>2, <1>2, <1>3, <1>5, <1>1 DEF GcmAsked
  <2>3. CASE k = n + 2
    <3>1. k - 1 = n + 1 /\ k # 1
      BY <2>3, <1>2, <1>1
    <3> QED BY <2>3, <3>1, <1>3, <1>5 DEF GcmAsked
  <2>4. k \in 1..n \/ k = n + 1 \/ k = n + 2
    OBVIOUS
  <2> QED BY <2>1, <2>2, <2>3, <2>4
<1>7. n + 2 = e
  BY <1>1, <1>2
<1> QED BY <1>5, <1>6, <1>7 DEF GcmAskedFirst, GcmAsked, S

LEMMA TwoBlocksStep == GcmInv /\ TwoBlocks => GcmInv'
<1> SUFFICES ASSUME GcmInv, TwoBlocks PROVE GcmInv'
  OBVIOUS
<1>1. /\ pc = "pairs" /\ pc' = pc /\ i < Pairs /\ i' = i + 1 /\ job' = job /\ y' = y /\ tag' = tag
      /\ c' = StreamedPair(32) /\ asked' = asked \o <<cnt0, cnt1>>
      /\ cnt0' = Incr(Incr(cnt0)) /\ cnt1' = Incr(Incr(cnt1))
      /\ job \in CallsOf({"gcm"})
  BY DEF TwoBlocks, GcmInv, BlockLen
<1>2. i \in 0..Pairs /\ Pairs \in Nat /\ i' \in 0..Pairs
  BY <1>1, PairsFacts DEF GcmInv
<1>3. i * 32 + 32 = i' * 32 /\ i * 32 + 32 = i' * 2 * 16
  BY <1>1, <1>2
<1>4. DOMAIN c' = 0..(i' * 2 * 16 - 1) /\ c' = [j \in DOMAIN c' |-> c'[j]]
  <2>1. PICK k : k = i * 32
    OBVIOUS
  <2>2. DOMAIN c' = 0..(k + 32 - 1) /\ c' = [j \in DOMAIN c' |-> c'[j]]
    <3>1. 32 \in 0..32
      OBVIOUS
    <3>2. /\ DOMAIN StreamedPair(32) = 0..(k + 32 - 1)
          /\ StreamedPair(32) = [j \in DOMAIN StreamedPair(32) |-> StreamedPair(32)[j]]
      BY ONLY GcmInv, <1>1, <2>1, <3>1, StreamedPairFacts
    <3> QED BY ONLY <1>1, <3>2
  <2>3. k + 32 - 1 = i' * 2 * 16 - 1
    <3>1. i \in Nat /\ i' = i + 1
      BY <1>1, <1>2
    <3> QED BY ONLY <2>1, <3>1
  <2> QED BY <2>2, <2>3
<1>5. GcmTypeOK'
  <2>1. cnt0'.w \in 0..(WordSize - 1) /\ cnt1'.w \in 0..(WordSize - 1)
    BY <1>1, GcmWordFacts DEF GcmInv, GcmTypeOK
  <2> QED BY <1>1, <1>2, <1>4, <2>1 DEF GcmInv, GcmTypeOK, BlockLen
<1>6. GcmFits' => GcmPairing'
  <2> SUFFICES ASSUME GcmFits PROVE GcmPairing'
    BY <1>1 DEF GcmFits
  <2>0. GcmPairing
    BY DEF GcmInv
  <2>1. GcmCiphered(i * 32)'
    <3>1. PICK e : e = i * 32 + 32 /\ e = i' * 32
      BY <1>3
    <3>2. GcmCiphered(e)'
      BY <1>1, <2>0, <3>1, StreamedPairCiphers
    <3> QED BY <3>1, <3>2 DEF GcmCiphered
  <2>2. GcmAskedFirst(2 + 2 * i)'
    <3>1. PICK e : e = 4 + 2 * i /\ e = 2 + 2 * i'
      BY <1>1, <1>2
    <3>2. GcmAskedFirst(e)'
      BY <1>1, <2>0, <3>1, AskedPair
    <3> QED BY <3>1, <3>2
  <2>3. cnt0' = Counter(job.npub, 2 + 2 * i') /\ cnt1' = Counter(job.npub, 3 + 2 * i')
    <3>1. PICK n \in Nat : n = 2 + 2 * i /\ n + 2 = 2 + 2 * i' /\ n + 1 = 3 + 2 * i /\ n + 3 = 3 + 2 * i'
      BY <1>1, <1>2
    <3>2. n + 3 < WordSize /\ WordSize \in Nat
      BY <1>1, <1>2, <3>1, PairsFacts, WordAssumption
    <3>3. cnt0 = Counter(job.npub, n) /\ cnt1 = Counter(job.npub, n + 1)
      BY <1>1, <2>0, <3>1 DEF GcmPairing
    <3>4. /\ Incr(Counter(job.npub, n)) = Counter(job.npub, n + 1)
          /\ Incr(Counter(job.npub, n + 1)) = Counter(job.npub, (n + 1) + 1)
          /\ Incr(Counter(job.npub, n + 2)) = Counter(job.npub, (n + 2) + 1)
      BY <3>2, GcmIncrFacts
    <3>5. (n + 1) + 1 = n + 2 /\ (n + 2) + 1 = n + 3
      OBVIOUS
    <3> QED BY <1>1, <3>1, <3>3, <3>4, <3>5
  <2> QED BY <1>1, <2>1, <2>2, <2>3 DEF GcmPairing
<1> QED BY <1>1, <1>2, <1>4, <1>5, <1>6 DEF GcmInv, Pairs

LEMMA RestStep == GcmInv /\ Rest => GcmInv'
<1> SUFFICES ASSUME GcmInv, Rest PROVE GcmInv'
  OBVIOUS
<1> DEFINE n == job.mlen - Pairs * 32
<1>1. /\ pc = "pairs" /\ pc' = "hash" /\ i = Pairs /\ i' = 0 /\ job' = job /\ y' = y /\ tag' = tag
      /\ asked' = asked \o <<cnt0, cnt1>> /\ cnt0' = cnt0 /\ cnt1' = cnt1
      /\ job \in CallsOf({"gcm"})
  BY DEF Rest, GcmInv
<1>2. n \in 0..31 /\ Pairs \in Nat /\ job.mlen \in Nat /\ Pairs * 32 + n = job.mlen
  BY <1>1, PairsFacts
<1>3. c' = StreamedPair(n)
  <2>1. Pairs * 2 * 16 = Pairs * 32
    BY <1>2
  <2> QED BY <2>1 DEF Rest, BlockLen
<1> HIDE DEF n
<1>4. DOMAIN c' = 0..(job.mlen - 1) /\ c' = [j \in DOMAIN c' |-> c'[j]]
  <2>1. PICK k : k = i * 32
    OBVIOUS
  <2>2. DOMAIN c' = 0..(k + n - 1) /\ c' = [j \in DOMAIN c' |-> c'[j]]
    <3>1. n \in 0..32
      BY <1>2
    <3> QED BY <1>1, <1>3, <2>1, <3>1, StreamedPairFacts
  <2>3. k + n - 1 = job.mlen - 1
    BY <1>1, <1>2, <2>1
  <2> QED BY <2>2, <2>3
<1>5. GcmTypeOK'
  BY <1>1, <1>4 DEF GcmInv, GcmTypeOK
<1>6. GcmFits' => GcmPairing'
  <2> SUFFICES ASSUME GcmFits PROVE GcmPairing'
    BY <1>1 DEF GcmFits
  <2>0. GcmPairing
    BY DEF GcmInv
  <2>1. GcmCiphered(job.mlen)'
    <3>1. n \in 0..32
      BY <1>2
    <3>2. PICK e : e = i * 32 + n /\ e = job.mlen
      BY <1>1, <1>2
    <3>3. GcmCiphered(e)'
      BY <1>1, <1>3, <2>0, <3>1, <3>2, StreamedPairCiphers
    <3> QED BY <1>1, <3>2, <3>3
  <2>2. GcmAskedFirst(4 + 2 * Pairs)'
    <3>1. PICK e : e = 4 + 2 * i
      OBVIOUS
    <3>2. GcmAskedFirst(e)'
      BY <1>1, <2>0, <3>1, AskedPair
    <3>3. (4 + 2 * Pairs)' = e
      BY <1>1, <3>1 DEF Pairs
    <3> QED BY <3>2, <3>3
  <2> QED BY <1>1, <2>1, <2>2 DEF GcmPairing
<1> QED BY <1>1, <1>4, <1>5, <1>6 DEF GcmInv, Pairs

\* The result of the hash is a block.
LEMMA HashIsBlock ==
  ASSUME NEW table, NEW hash, NEW block
  PROVE  DOMAIN ghash_process_block(table, hash, block) = 0..15
<1>1. \A x : DOMAIN gcm_mult(table, x) = 0..15
  BY DEF gcm_mult, Buf, BlockLen
<1>2. \E x : ghash_process_block(table, hash, block) = gcm_mult(table, x)
  BY DEF ghash_process_block, Once
<1> QED BY <1>1, <1>2

LEMMA GcmHashStep == GcmInv /\ (GcmHashBlock \/ GcmTag) => GcmInv'
<1> SUFFICES ASSUME GcmInv, GcmHashBlock \/ GcmTag PROVE GcmInv'
  OBVIOUS
<1>1. /\ pc = "hash" /\ pc' \in {"hash", "done"} /\ job' = job /\ c' = c /\ asked' = asked
      /\ cnt0' = cnt0 /\ cnt1' = cnt1
  BY DEF GcmHashBlock, GcmTag
<1>2. DOMAIN y' = 0..15 /\ i' \in Nat /\ DOMAIN tag' = IF pc' = "done" THEN 0..15 ELSE {}
  <2>1. CASE GcmHashBlock
    BY <2>1, HashIsBlock DEF GcmHashBlock, GcmInv, GcmTypeOK
  <2>2. CASE GcmTag
    BY <2>2 DEF GcmTag, GcmInv, GcmTypeOK, XorBlock
  <2> QED BY <2>1, <2>2
<1>3. GcmTypeOK'
  BY <1>1, <1>2 DEF GcmInv, GcmTypeOK, BlockLen
<1>4. GcmFits' => GcmPairing'
  BY <1>1 DEF GcmInv, GcmFits, GcmPairing, GcmAskedFirst, GcmAsked, GcmCiphered, AskBE, Pairs
<1> QED BY <1>1, <1>2, <1>3, <1>4 DEF GcmInv

LEMMA NextGcmInv == GcmInv /\ [GcmNext]_gcmVars => GcmInv'
<1> SUFFICES ASSUME GcmInv, [GcmNext]_gcmVars PROVE GcmInv'
  OBVIOUS
<1>1. CASE GcmNext
  BY <1>1, KeysStep, TwoBlocksStep, RestStep, GcmHashStep DEF GcmNext
<1>2. CASE UNCHANGED gcmVars
  BY <1>2 DEF gcmVars, GcmInv, GcmTypeOK, GcmFits, GcmPairing, GcmAskedFirst, GcmAsked,
              GcmCiphered, AskBE, Pairs
<1> QED BY <1>1, <1>2

\* What the invariant says of the properties.
LEMMA GcmInvGives == GcmInv => GcmTypeOK /\ GcmPairsAreCounterMode /\ GcmDistinctInputs
<1> SUFFICES ASSUME GcmInv PROVE GcmPairsAreCounterMode /\ GcmDistinctInputs
  BY DEF GcmInv
<1>1. job \in CallsOf({"gcm"}) /\ Pairs \in Nat /\ job.m \in Buffer(job.mlen)
  BY PairsFacts DEF GcmInv
<1>2. GcmPairsAreCounterMode
  <2> SUFFICES ASSUME pc \in {"hash", "done"}, GcmFits PROVE c = GcmCtrOf(job.m)
    BY DEF GcmPairsAreCounterMode
  <2>1. DOMAIN c = 0..(job.mlen - 1) /\ c = [j \in DOMAIN c |-> c[j]]
    BY DEF GcmInv, GcmTypeOK
  <2>2. DOMAIN job.m = 0..(job.mlen - 1)
    BY <1>1 DEF Buffer
  <2>3. GcmCiphered(job.mlen)
    BY DEF GcmInv, GcmPairing
  <2> QED BY <2>1, <2>2, <2>3 DEF GcmCtrOf, GcmCiphered, BlockLen
<1>3. GcmDistinctInputs
  <2> SUFFICES ASSUME GcmFits, NEW a \in 1..Len(asked), NEW b \in 1..Len(asked), a # b
               PROVE  asked[a] # asked[b]
    BY DEF GcmDistinctInputs
  <2>1. asked # << >> => \E n \in Nat : GcmAskedFirst(n)
    <3>1. pc = "keys" => asked = << >>
      BY DEF GcmInv, GcmPairing
    <3>2. pc = "pairs" => GcmAskedFirst(2 + 2 * i) /\ i \in Nat /\ 2 + 2 * i \in Nat
      BY DEF GcmInv, GcmPairing, GcmTypeOK
    <3>3. pc \in {"hash", "done"} => GcmAskedFirst(4 + 2 * Pairs) /\ 4 + 2 * Pairs \in Nat
      BY <1>1 DEF GcmInv, GcmPairing
    <3> QED BY <3>1, <3>2, <3>3 DEF GcmInv, GcmTypeOK
  <2>2. asked[a] = GcmAsked(a) /\ asked[b] = GcmAsked(b)
    BY <2>1 DEF GcmAskedFirst
  <2>3. a \in Nat /\ b \in Nat /\ a >= 1 /\ b >= 1
    BY <2>1 DEF GcmAskedFirst
  <2> QED BY <2>2, <2>3, CounterTells DEF GcmAsked
<1> QED BY <1>2, <1>3

\* Stages, counters and the extent of the buffers, for any cipher and any calls.
THEOREM GcmTypeCorrect == GcmSpec => []GcmTypeOK
BY InitGcmInv, NextGcmInv, GcmInvGives, PTL DEF GcmSpec

\* Whatever is left after the last pair of blocks, what aes_gcm_128_encrypt
\* returns is the counter mode of the message.
THEOREM GcmIsCounterMode == GcmSpec => []GcmPairsAreCounterMode
BY InitGcmInv, NextGcmInv, GcmInvGives, PTL DEF GcmSpec

\* aes_gcm_128_encrypt never has a block enciphered twice.
THEOREM GcmInputsAreDistinct == GcmSpec => []GcmDistinctInputs
BY InitGcmInv, NextGcmInv, GcmInvGives, PTL DEF GcmSpec

(***************************************************************************)
(* AES-CTR with PMAC and with HTMAC                                        *)
(***************************************************************************)
\* The counter word of block b, and the cipher's byte that a byte of the
\* message is added to: on both sides the same.
MacWord(b)    == (b + 1) % WordSize
MacKeyByte(j) == E(job.k, RawBE(Counter(job.npub, MacWord(j \div 16))))[j % 16]

\* The masks M and the sums A of n steps of pmac over the ciphertext.
PmacRun(M, A, n) ==
  /\ M[0] = E(job.k, Zeros(BlockLen)) /\ A[0] = Zeros(BlockLen)
  /\ \A b \in 0..(n-1) :
       IF b + 1 < CtrBlocks
       THEN /\ A[b+1] = XorBlock(A[b], E(job.k, XorBlock(MacBlockAt(c, b), M[b])))
            /\ M[b+1] = gf128_double(M[b])
       ELSE /\ A[b+1] = XorBlock(A[b], E(job.k, XorBlock(MacBlockAt(c, b), gf128_double(M[b]))))
            /\ M[b+1] = M[b]

\* The tag of what has been encrypted.
Tagged(M, A) ==
  /\ job.mode = "pmac" => PmacRun(M, A, CtrBlocks) /\ tag = E(job.k, A[CtrBlocks])
  /\ job.mode = "htmac" => tag = E(job.k, digest(job.npub, c, job.mlen \div 16))

MacSides ==
  /\ recv.npub = job.npub
  /\ side = "enc" => recv.c = job.m /\ pc # "done"
  /\ side = "dec" => pc # "transit"
  /\ pc = "ctr" => word = MacWord(i)
  /\ pc = "pmac" => job.mode = "pmac" /\ i <= MacBlocks
  /\ pc = "digest" => job.mode = "htmac"

MacEncrypts ==
  /\ \A j \in DOMAIN c : c[j] = job.m[j] (+) MacKeyByte(j)
  /\ side = "enc" /\ pc = "pmac" => \E M, A : PmacRun(M, A, i) /\ mask = M[i] /\ acc = A[i]
  /\ side = "dec" \/ pc = "transit" => \E M, A : Tagged(M, A)

MacDecrypts == side = "dec" /\ recv = MacSent =>
  /\ \A j \in DOMAIN p : p[j] = job.m[j]
  /\ pc = "pmac" /\ SameBlocks => \E M, A : Tagged(M, A) /\ mask = M[i] /\ acc = A[i]
  /\ pc = "done" /\ SameBlocks => ret = "ok"

MacInv ==
  /\ MacTypeOK /\ job \in CallsOf({"pmac", "htmac"})
  /\ c = [j \in DOMAIN c |-> c[j]] /\ p = [j \in DOMAIN p |-> p[j]]
  /\ MacSides /\ MacEncrypts /\ MacDecrypts

LEMMA MacLengths ==
  ASSUME job \in CallsOf({"pmac", "htmac"})
  PROVE  /\ job.mlen \in Nat /\ job.m \in Buffer(job.mlen) /\ CtrBlocks \in Nat
         /\ CtrBlocks * 16 >= job.mlen /\ CtrBlocks * 16 < job.mlen + 16
         /\ job.mlen \div 16 \in 0..CtrBlocks
         /\ job.mlen % 16 = 0 => job.mlen \div 16 = CtrBlocks
         /\ WordSize \in Nat /\ WordSize > 1 /\ MacWord(0) = 1
<1>1. job.mlen \in Nat /\ job.m \in Buffer(job.mlen)
  BY CallFacts
<1>2. CtrBlocks = (job.mlen + 16 - 1) \div 16
  BY DEF CtrBlocks, BlocksOf, BlockLen
<1>3. WordSize \in Nat /\ WordSize > 1
  BY WordAssumption
<1>4. MacWord(0) = 1
  BY <1>3 DEF MacWord
<1> QED BY <1>1, <1>2, <1>3, <1>4

\* The next block of either buffer.
LEMMA CtrOutFacts ==
  ASSUME MacInv, pc = "ctr", i < CtrBlocks, NEW to, DOMAIN to = 0..(Min2(i * 16, job.mlen) - 1),
         recv.npub = job.npub
  PROVE  /\ DOMAIN CtrOut(to) = 0..(Min2((i + 1) * 16, job.mlen) - 1)
         /\ CtrOut(to) = [j \in DOMAIN CtrOut(to) |-> CtrOut(to)[j]]
         /\ \A j \in DOMAIN CtrOut(to) : /\ j \in 0..(job.mlen - 1)
                                         /\ \/ j \in DOMAIN to /\ CtrOut(to)[j] = to[j]
                                            \/ CtrOut(to)[j] = recv.c[j] (+) MacKeyByte(j)
<1> DEFINE out == CtrOut(to)
<1>1. /\ job.mlen \in Nat /\ i \in Nat /\ word = MacWord(i)
      /\ CtrBlocks \in Nat /\ CtrBlocks * 16 < job.mlen + 16
  BY MacLengths DEF MacInv, MacTypeOK, MacSides
<1>2. PICK k \in Nat, n \in Nat :
        /\ k = i * 16 /\ n = Min2(job.mlen - k, 16) /\ k < job.mlen
        /\ Min2(k, job.mlen) = k /\ Min2((i + 1) * 16, job.mlen) = k + n
        /\ n <= 16 /\ k + n <= job.mlen
  BY <1>1 DEF Min2
<1> DEFINE d == XorBlock(Slice(recv.c, k, n), E(job.k, RawBE(Counter(recv.npub, word))))
<1>3. out = Put(to, k, d)
  BY <1>2 DEF CtrOut, BlockLen
<1>4. DOMAIN d = 0..(n-1) /\ \A l \in 0..(n-1) :
        d[l] = recv.c[k + l] (+) E(job.k, RawBE(Counter(job.npub, MacWord(i))))[l]
  BY <1>1 DEF XorBlock, Slice
<1> HIDE DEF d, out
<1>5. PICK m : m = k + n
  OBVIOUS
<1>6. Appended(out, to, k, d, m)
  BY ONLY DOMAIN to = 0..(Min2(i * 16, job.mlen) - 1), <1>2, <1>3, <1>4, <1>5, PutAtEnd
<1>7. /\ DOMAIN out = 0..(m - 1) /\ out = [j \in DOMAIN out |-> out[j]]
      /\ \A j \in 0..(k-1) : out[j] = to[j]
      /\ \A j \in k..(m-1) : out[j] = d[j - k]
  BY <1>6 DEF Appended
<1>8. ASSUME NEW j \in 0..(m - 1)
      PROVE  /\ j \in 0..(job.mlen - 1)
             /\ \/ j \in DOMAIN to /\ out[j] = to[j]
                \/ out[j] = recv.c[j] (+) MacKeyByte(j)
  <2>1. j \in 0..(job.mlen - 1)
    BY ONLY <1>1, <1>2, <1>5, k \in Nat, n \in Nat, j \in 0..(m - 1)
  <2>2. CASE j < k
    BY <2>1, <2>2, <1>2, <1>7
  <2>3. CASE ~(j < k)
    <3>1. PICK l \in 0..(n-1) : j = k + l /\ l = j - k
      <4>1. j - k \in 0..(n-1) /\ j = k + (j - k)
        BY SMTT(30), <2>3, <1>2, <1>5
      <4> QED BY <4>1
    <3>2. j \div 16 = i /\ j % 16 = l
      <4>1. l \in 0..15 /\ j = i * 16 + l /\ i \in Nat
        BY <3>1, <1>1, <1>2
      <4> QED BY ONLY <4>1
    <3>3. out[j] = d[l]
      BY <2>3, <3>1, <1>5, <1>7
    <3> QED BY <2>1, <3>1, <3>2, <3>3, <1>4 DEF MacKeyByte
  <2> QED BY <2>2, <2>3
<1>9. DOMAIN out = 0..(Min2((i + 1) * 16, job.mlen) - 1)
  BY <1>2, <1>5, <1>7
<1> QED BY <1>7, <1>8, <1>9 DEF out

LEMMA InitMacInv == MacInit => MacInv
<1> SUFFICES ASSUME MacInit PROVE MacInv
  OBVIOUS
<1>1. /\ job \in CallsOf({"pmac", "htmac"}) /\ job.mode \in {"pmac", "htmac"}
      /\ pc = "ctr" /\ side = "enc" /\ i = 0 /\ word = 1
      /\ c = Zeros(0) /\ p = Zeros(0) /\ ret = "none"
      /\ recv.c = job.m /\ recv.npub = job.npub
  BY CallFacts DEF MacInit
<1>2. /\ DOMAIN c = 0..(0-1) /\ c = [j \in DOMAIN c |-> c[j]]
      /\ DOMAIN p = 0..(0-1) /\ p = [j \in DOMAIN p |-> p[j]]
  BY <1>1 DEF Zeros
<1>3. job.mlen \in Nat /\ CtrBlocks \in Nat /\ WordSize \in Nat /\ WordSize > 1 /\ MacWord(0) = 1
  BY <1>1, MacLengths
<1>4. Min2(i * BlockLen, job.mlen) = 0
  BY <1>1, <1>3 DEF Min2, BlockLen
<1>5. MacTypeOK
  BY <1>1, <1>2, <1>3, <1>4 DEF MacTypeOK
<1>6. MacSides /\ MacEncrypts /\ MacDecrypts
  BY <1>1, <1>2, <1>3 DEF MacSides, MacEncrypts, MacDecrypts
<1> QED BY <1>1, <1>2, <1>5, <1>6 DEF MacInv

\* The sum of the blocks and the tag say nothing of what else changes.
LEMMA DigestFrame ==
  ASSUME job' = job, NEW n, NEW d, NEW b
  PROVE  digest(n, d, b)' = digest(n, d, b)
BY DEF digest, MacBlockAt

LEMMA PmacRunFrame ==
  ASSUME job' = job, c' = c, NEW M, NEW A, NEW n, PmacRun(M, A, n)
  PROVE  PmacRun(M, A, n)'
BY DEF PmacRun, MacBlockAt, CtrBlocks

LEMMA TaggedFrame ==
  ASSUME job' = job, c' = c, tag' = tag, NEW M, NEW A, Tagged(M, A)
  PROVE  Tagged(M, A)'
<1>1. CtrBlocks' = CtrBlocks
  BY DEF CtrBlocks
<1>2. PICK n : n = CtrBlocks
  OBVIOUS
<1>3. ASSUME job.mode = "pmac" PROVE PmacRun(M, A, n)'
  BY <1>2, <1>3, PmacRunFrame DEF Tagged
<1>4. ASSUME job.mode = "pmac" PROVE PmacRun(M, A, CtrBlocks)'
  <2>1. n = CtrBlocks'
    BY <1>1, <1>2
  <2> QED BY <1>3, <1>4, <2>1
<1>5. PICK d : d = digest(job.npub, c, job.mlen \div 16)
  OBVIOUS
<1> QED BY <1>1, <1>4, DigestFrame DEF Tagged

LEMMA CtrBlockStep == MacInv /\ CtrBlock => MacInv'
<1> SUFFICES ASSUME MacInv, CtrBlock PROVE MacInv'
  OBVIOUS
<1>1. /\ pc = "ctr" /\ pc' = pc /\ i < CtrBlocks /\ i' = i + 1 /\ word' = (word + 1) % WordSize
      /\ job' = job /\ side' = side /\ mask' = mask /\ acc' = acc /\ tag' = tag
      /\ recv' = recv /\ ret' = ret
      /\ job \in CallsOf({"pmac", "htmac"})
  BY DEF CtrBlock, MacInv
<1>2. /\ job.mlen \in Nat /\ job.m \in Buffer(job.mlen) /\ CtrBlocks \in Nat
      /\ WordSize \in Nat /\ WordSize > 1 /\ i \in Nat /\ i' \in 0..CtrBlocks /\ CtrBlocks' = CtrBlocks
  BY SMTT(30), <1>1, MacLengths DEF MacInv, MacTypeOK, CtrBlocks
<1>3. word' = MacWord(i') /\ word' \in 0..(WordSize - 1)
  <2>1. word = (i + 1) % WordSize
    BY <1>1 DEF MacInv, MacSides, MacWord
  <2>2. word' = ((i + 1) + 1) % WordSize
    BY <1>1, <1>2, <2>1, ModSucc
  <2>3. ((i + 1) + 1) % WordSize \in 0..(WordSize - 1)
    BY <1>2
  <2> QED BY <1>1, <2>2, <2>3 DEF MacWord
<1>4. CASE side = "enc"
  <2>1. c' = CtrOut(c) /\ p' = p
    BY <1>4 DEF CtrBlock
  <2>2. recv.c = job.m /\ recv.npub = job.npub /\ DOMAIN c = 0..(Min2(i * 16, job.mlen) - 1)
    BY <1>1, <1>4 DEF MacInv, MacSides, MacTypeOK, BlockLen
  <2>3. /\ DOMAIN c' = 0..(Min2(i' * 16, job.mlen) - 1) /\ c' = [j \in DOMAIN c' |-> c'[j]]
        /\ \A j \in DOMAIN c' : \/ j \in DOMAIN c /\ c'[j] = c[j]
                                \/ c'[j] = job.m[j] (+) MacKeyByte(j)
    BY <1>1, <2>1, <2>2, CtrOutFacts
  <2>4. MacTypeOK'
    BY <1>1, <1>2, <1>3, <1>4, <2>1, <2>3 DEF MacInv, MacTypeOK, BlockLen
  <2>5. MacEncrypts'
    BY <1>1, <1>4, <2>3 DEF MacInv, MacEncrypts, MacKeyByte
  <2> QED BY <1>1, <1>3, <1>4, <2>1, <2>3, <2>4, <2>5 DEF MacInv, MacSides, MacDecrypts
<1>5. CASE side # "enc"
  <2>1. p' = CtrOut(p) /\ c' = c /\ side = "dec"
    BY <1>5 DEF CtrBlock, MacInv, MacTypeOK
  <2>2. DOMAIN p = 0..(Min2(i * 16, job.mlen) - 1)
    BY <1>1, <2>1 DEF MacInv, MacTypeOK, BlockLen
  <2>3. DOMAIN p' = 0..(Min2(i' * 16, job.mlen) - 1) /\ p' = [j \in DOMAIN p' |-> p'[j]]
    <3>1. recv.npub = job.npub
      BY DEF MacInv, MacSides
    <3> QED BY <1>1, <2>1, <2>2, <3>1, CtrOutFacts
  <2>4. MacTypeOK'
    BY <1>1, <1>2, <1>3, <2>1, <2>3 DEF MacInv, MacTypeOK, BlockLen
  <2>5. MacDecrypts'
    <3> SUFFICES ASSUME recv = MacSent PROVE \A j \in DOMAIN p' : p'[j] = job.m[j]
      BY <1>1, <2>1 DEF MacDecrypts, MacSent
    <3> SUFFICES ASSUME NEW j \in DOMAIN p' PROVE p'[j] = job.m[j]
      OBVIOUS
    <3>1. recv.c = c /\ recv.npub = job.npub
      BY DEF MacSent
    <3>2. \A l \in DOMAIN CtrOut(p) : /\ l \in 0..(job.mlen - 1)
                                       /\ \/ l \in DOMAIN p /\ CtrOut(p)[l] = p[l]
                                          \/ CtrOut(p)[l] = recv.c[l] (+) MacKeyByte(l)
      BY ONLY MacInv, <1>1, <2>2, <3>1, CtrOutFacts
    <3>3. c[j] = job.m[j] (+) MacKeyByte(j)
      <4>1. j \in DOMAIN c
        BY <1>1, <2>1, <3>2 DEF MacInv, MacTypeOK
      <4> QED BY <4>1 DEF MacInv, MacEncrypts
    <3>4. j \in DOMAIN p => p[j] = job.m[j]
      BY <2>1 DEF MacInv, MacDecrypts
    <3> QED BY <2>1, <3>1, <3>2, <3>3, <3>4, XorTwice
  <2>6. MacEncrypts'
    <3>1. PICK M, A : Tagged(M, A)
      BY <2>1 DEF MacInv, MacEncrypts
    <3>2. Tagged(M, A)'
      BY <1>1, <2>1, <3>1, TaggedFrame
    <3> QED BY <1>1, <2>1, <3>2 DEF MacInv, MacEncrypts, MacKeyByte
  <2> QED BY <1>1, <1>3, <2>1, <2>3, <2>4, <2>5, <2>6 DEF MacInv, MacSides
<1> QED BY <1>4, <1>5

LEMMA EndCtrStep == MacInv /\ EndCtr => MacInv'
<1> SUFFICES ASSUME MacInv, EndCtr PROVE MacInv'
  OBVIOUS
<1>1. /\ pc = "ctr" /\ pc' = (IF job.mode = "pmac" THEN "pmac" ELSE "digest")
      /\ i = CtrBlocks /\ i' = 0 /\ word' = word
      /\ job.mode = "pmac" => mask' = E(job.k, Zeros(BlockLen)) /\ acc' = Zeros(BlockLen)
      /\ job' = job /\ side' = side /\ tag' = tag
      /\ recv' = recv /\ ret' = ret /\ c' = c /\ p' = p
      /\ job \in CallsOf({"pmac", "htmac"})
  BY DEF EndCtr, MacInv
<1>2. /\ job.mlen \in Nat /\ CtrBlocks \in Nat /\ CtrBlocks' = CtrBlocks
      /\ Min2(i * BlockLen, job.mlen) = job.mlen /\ 0 <= MacBlocks
  BY <1>1, MacLengths DEF CtrBlocks, Min2, BlockLen, MacBlocks
<1>3. MacTypeOK'
  BY <1>1, <1>2 DEF MacInv, MacTypeOK
<1>4. MacSides'
  BY <1>1, <1>2 DEF MacInv, MacTypeOK, MacSides, MacBlocks, CtrBlocks
<1>5. MacEncrypts'
  <2>1. ASSUME job.mode = "pmac" PROVE \E M, A : PmacRun(M, A, 0) /\ mask' = M[0] /\ acc' = A[0]
    <3> DEFINE M == [b \in {0} |-> E(job.k, Zeros(BlockLen))]
               A == [b \in {0} |-> Zeros(BlockLen)]
    <3>1. M[0] = E(job.k, Zeros(BlockLen)) /\ A[0] = Zeros(BlockLen)
      OBVIOUS
    <3> HIDE DEF M, A
    <3>2. PmacRun(M, A, 0)
      BY <3>1 DEF PmacRun
    <3> QED BY <1>1, <2>1, <3>1, <3>2
  <2>2. ASSUME side = "dec" PROVE \E M, A : Tagged(M, A)'
    BY <1>1, <2>2, TaggedFrame DEF MacInv, MacEncrypts
  <2>3. \A j \in DOMAIN c' : c'[j] = job'.m[j] (+) MacKeyByte(j)'
    BY <1>1 DEF MacInv, MacEncrypts, MacKeyByte
  <2>4. side = "enc" /\ pc' = "pmac" => \E M, A : PmacRun(M, A, 0)' /\ mask' = M[0] /\ acc' = A[0]
    BY <1>1, <2>1, PmacRunFrame
  <2>5. side \in {"enc", "dec"} /\ pc' # "transit"
    BY <1>1 DEF MacInv, MacTypeOK
  <2> QED BY <1>1, <2>2, <2>3, <2>4, <2>5 DEF MacEncrypts
<1>6. MacDecrypts'
  <2>0. MacSent' = MacSent
    BY <1>1 DEF MacSent
  <2> SUFFICES ASSUME side = "dec", recv = MacSent PROVE MacDecrypts'
    BY <1>1, <2>0 DEF MacDecrypts
  <2>1. PICK M, A : Tagged(M, A)
    BY DEF MacInv, MacEncrypts
  <2>2. job.mode = "pmac" => M[0] = mask' /\ A[0] = acc'
    BY <1>1, <2>1 DEF Tagged, PmacRun
  <2>3. Tagged(M, A)'
    BY <1>1, <2>1, TaggedFrame
  <2>4. pc' = "pmac" => job.mode = "pmac"
    BY <1>1
  <2>5. \A j \in DOMAIN p : p[j] = job.m[j]
    BY DEF MacInv, MacDecrypts
  <2> QED BY <1>1, <2>2, <2>3, <2>4, <2>5 DEF MacDecrypts
<1> QED BY <1>1, <1>3, <1>4, <1>5, <1>6 DEF MacInv

\* How many blocks the tag of a side is made of.
LEMMA MacBlocksFacts ==
  ASSUME MacInv
  PROVE  /\ MacBlocks \in 0..CtrBlocks
         /\ side = "enc" /\ job.mode = "pmac" => MacBlocks = CtrBlocks
         /\ SameBlocks /\ job.mode = "pmac" => MacBlocks = CtrBlocks
         /\ job.mode = "htmac" => MacBlocks = job.mlen \div 16
BY MacLengths DEF MacInv, MacBlocks, SameBlocks, BlockLen

\* One more block in the sum.
LEMMA PmacRunNext ==
  ASSUME job' = job, c' = c, NEW M, NEW A, PmacRun(M, A, i), i \in Nat, i' = i + 1,
         i + 1 < CtrBlocks =>
           /\ acc' = XorBlock(A[i], E(job.k, XorBlock(MacBlockAt(c, i), M[i])))
           /\ mask' = gf128_double(M[i]),
         ~(i + 1 < CtrBlocks) =>
           /\ acc' = XorBlock(A[i], E(job.k, XorBlock(MacBlockAt(c, i), gf128_double(M[i]))))
           /\ mask' = M[i]
  PROVE  \E M2, A2 : (PmacRun(M2, A2, i) /\ mask = M2[i] /\ acc = A2[i])'
<1>0. PICK u, v : u = mask' /\ v = acc'
  OBVIOUS
<1>1. PICK n \in Nat : n = i /\ n + 1 = i'
  OBVIOUS
<1> DEFINE M2 == [b \in 0..(n+1) |-> IF b = n + 1 THEN u ELSE M[b]]
           A2 == [b \in 0..(n+1) |-> IF b = n + 1 THEN v ELSE A[b]]
<1>2. /\ M2[n + 1] = u /\ A2[n + 1] = v
      /\ \A b \in 0..n : M2[b] = M[b] /\ A2[b] = A[b]
      /\ M2[0] = M[0] /\ A2[0] = A[0]
  OBVIOUS
<1> HIDE DEF M2, A2
<1>3. PmacRun(M2, A2, n + 1)
  <2>1. M2[0] = E(job.k, Zeros(BlockLen)) /\ A2[0] = Zeros(BlockLen)
    BY <1>2 DEF PmacRun
  <2>2. ASSUME NEW b \in 0..n
        PROVE  IF b + 1 < CtrBlocks
               THEN /\ A2[b+1] = XorBlock(A2[b], E(job.k, XorBlock(MacBlockAt(c, b), M2[b])))
                    /\ M2[b+1] = gf128_double(M2[b])
               ELSE /\ A2[b+1] = XorBlock(A2[b], E(job.k, XorBlock(MacBlockAt(c, b), gf128_double(M2[b]))))
                    /\ M2[b+1] = M2[b]
    <3>1. CASE b = n
      BY <1>0, <1>1, <1>2, <3>1
    <3>2. CASE b # n
      <4>1. PICK e : e = b + 1
        OBVIOUS
      <4>2. b \in 0..(i - 1) /\ b \in 0..n /\ e \in 0..n
        BY <1>1, <3>2, <4>1
      <4>3. M2[b] = M[b] /\ A2[b] = A[b] /\ M2[e] = M[e] /\ A2[e] = A[e]
        BY <1>2, <4>2
      <4> QED BY <4>1, <4>2, <4>3 DEF PmacRun
    <3> QED BY <3>1, <3>2
  <2>3. (n + 1) - 1 = n
    OBVIOUS
  <2> QED BY <2>1, <2>2, <2>3 DEF PmacRun
<1>4. PICK m : m = n + 1
  OBVIOUS
<1>5. PmacRun(M2, A2, m)
  BY <1>3, <1>4
<1>6. PmacRun(M2, A2, m)'
  BY <1>5, PmacRunFrame
<1>7. m = i' /\ M2[m] = mask' /\ A2[m] = acc'
  BY <1>0, <1>1, <1>2, <1>4
<1> QED BY <1>6, <1>7

\* A block of pmac: the index moves on to i + 1, and both sides do the same.
LEMMA PmacStep ==
  ASSUME MacInv, PmacBlock \/ PmacLast
  PROVE  MacInv'
<1>1. /\ pc = "pmac" /\ pc' = pc /\ i + 1 <= MacBlocks /\ i' = i + 1
      /\ job' = job /\ side' = side /\ tag' = tag /\ word' = word
      /\ recv' = recv /\ ret' = ret /\ c' = c /\ p' = p
      /\ job \in CallsOf({"pmac", "htmac"}) /\ job.mode = "pmac"
      /\ i \in Nat /\ MacBlocks \in Nat /\ side \in {"enc", "dec"}
  BY SMTT(30), MacBlocksFacts, MacLengths DEF PmacBlock, PmacLast, MacInv, MacSides, MacTypeOK
<1>2. /\ i' \in 0..CtrBlocks /\ i' <= MacBlocks /\ MacBlocks' = MacBlocks /\ CtrBlocks' = CtrBlocks
  BY <1>1, MacBlocksFacts, MacLengths DEF MacBlocks, CtrBlocks
<1>3. ASSUME NEW M, NEW A, PmacRun(M, A, i), mask = M[i], acc = A[i],
             Cipher = c, MacBlocks = CtrBlocks
      PROVE  /\ i + 1 < CtrBlocks =>
                  /\ acc' = XorBlock(A[i], E(job.k, XorBlock(MacBlockAt(c, i), M[i])))
                  /\ mask' = gf128_double(M[i])
             /\ ~(i + 1 < CtrBlocks) =>
                  /\ acc' = XorBlock(A[i], E(job.k, XorBlock(MacBlockAt(c, i), gf128_double(M[i]))))
                  /\ mask' = M[i]
  <2>1. CASE i + 1 < CtrBlocks
    <3>1. PmacBlock
      BY <1>1, <1>3, <2>1 DEF PmacLast
    <3> QED BY <1>3, <2>1, <3>1 DEF PmacBlock
  <2>2. CASE ~(i + 1 < CtrBlocks)
    <3>1. PmacLast
      BY <1>1, <1>3, <2>2 DEF PmacBlock
    <3> QED BY <1>3, <2>2, <3>1 DEF PmacLast
  <2> QED BY <2>1, <2>2
<1>4. MacTypeOK'
  BY <1>1, <1>2 DEF MacInv, MacTypeOK
<1>5. MacSides'
  BY <1>1, <1>2 DEF MacInv, MacSides
<1>6. \A j \in DOMAIN c' : c'[j] = job'.m[j] (+) MacKeyByte(j)'
  BY <1>1 DEF MacInv, MacEncrypts, MacKeyByte
<1>7. CASE side = "enc"
  <2>1. Cipher = c /\ MacBlocks = CtrBlocks
    BY <1>1, <1>7, MacBlocksFacts DEF Cipher
  <2>2. PICK M, A : PmacRun(M, A, i) /\ mask = M[i] /\ acc = A[i]
    BY <1>1, <1>7 DEF MacInv, MacEncrypts
  <2>3. \E M2, A2 : (PmacRun(M2, A2, i) /\ mask = M2[i] /\ acc = A2[i])'
    BY <1>1, <1>3, <2>1, <2>2, PmacRunNext
  <2>4. MacEncrypts'
    BY <1>1, <1>6, <1>7, <2>3 DEF MacEncrypts
  <2> QED BY <1>1, <1>4, <1>5, <1>7, <2>4 DEF MacInv, MacDecrypts
<1>8. CASE side = "dec"
  <2>1. \E M, A : Tagged(M, A)'
    BY <1>1, <1>8, TaggedFrame DEF MacInv, MacEncrypts
  <2>2. MacEncrypts'
    BY <1>1, <1>6, <1>8, <2>1 DEF MacEncrypts
  <2>3. MacDecrypts'
    <3>0. MacSent' = MacSent
      BY <1>1 DEF MacSent
    <3> SUFFICES ASSUME recv = MacSent PROVE MacDecrypts'
      BY <1>1, <3>0 DEF MacDecrypts
    <3>1. \A j \in DOMAIN p : p[j] = job.m[j]
      BY <1>8 DEF MacInv, MacDecrypts
    <3>2. ASSUME SameBlocks
          PROVE  \E M, A : Tagged(M, A)' /\ mask' = M[i'] /\ acc' = A[i']
      <4>1. PICK M, A : Tagged(M, A) /\ mask = M[i] /\ acc = A[i]
        BY <1>1, <1>8, <3>2 DEF MacInv, MacDecrypts
      <4>2. Cipher = c /\ MacBlocks = CtrBlocks /\ PmacRun(M, A, CtrBlocks) /\ CtrBlocks \in Nat
        BY <1>1, <1>8, <3>2, <4>1, MacBlocksFacts, MacLengths DEF Cipher, MacSent, Tagged
      <4>3. PmacRun(M, A, i)
        BY <1>1, <4>2 DEF PmacRun
      <4>4. PICK n \in 0..(CtrBlocks - 1) : n = i /\ n + 1 = i'
        BY <1>1, <4>2
      <4>5. IF n + 1 < CtrBlocks
            THEN /\ A[n+1] = XorBlock(A[n], E(job.k, XorBlock(MacBlockAt(c, n), M[n])))
                 /\ M[n+1] = gf128_double(M[n])
            ELSE /\ A[n+1] = XorBlock(A[n], E(job.k, XorBlock(MacBlockAt(c, n), gf128_double(M[n]))))
                 /\ M[n+1] = M[n]
        BY <4>2, <4>4 DEF PmacRun
      <4>6. acc' = A[n + 1] /\ mask' = M[n + 1]
        BY <1>3, <4>1, <4>2, <4>3, <4>4, <4>5
      <4>7. Tagged(M, A)'
        BY <1>1, <4>1, TaggedFrame
      <4> QED BY <4>4, <4>6, <4>7
    <3> QED BY <1>1, <3>1, <3>2 DEF MacDecrypts, SameBlocks
  <2> QED BY <1>1, <1>4, <1>5, <2>2, <2>3 DEF MacInv
<1> QED BY <1>1, <1>7, <1>8

LEMMA FinishEncStep == MacInv /\ FinishEnc => MacInv'
<1> SUFFICES ASSUME MacInv, FinishEnc PROVE MacInv'
  OBVIOUS
<1>1. /\ side = "enc" /\ pc \in {"pmac", "digest"} /\ (pc = "pmac" => i = MacBlocks)
      /\ tag' = Computed /\ pc' = "transit"
      /\ job' = job /\ side' = side /\ i' = i /\ word' = word /\ mask' = mask /\ acc' = acc
      /\ recv' = recv /\ ret' = ret /\ c' = c /\ p' = p
      /\ job \in CallsOf({"pmac", "htmac"}) /\ job.mode \in {"pmac", "htmac"}
      /\ CtrBlocks' = CtrBlocks
  BY DEF FinishEnc, MacInv, MacTypeOK, CtrBlocks
<1>2. MacTypeOK'
  BY <1>1 DEF MacInv, MacTypeOK
<1>3. MacSides'
  BY <1>1 DEF MacInv, MacSides
<1>4. \E M, A : Tagged(M, A)'
  <2>1. CASE pc = "pmac"
    <3>1. job.mode = "pmac" /\ i = CtrBlocks
      BY <1>1, <2>1, MacBlocksFacts DEF MacInv, MacSides
    <3>2. PICK M, A : PmacRun(M, A, i) /\ acc = A[i]
      BY <1>1, <2>1 DEF MacInv, MacEncrypts
    <3>3. PmacRun(M, A, i)'
      BY <1>1, <3>2, PmacRunFrame
    <3>4. i' = CtrBlocks'
      BY <1>1, <3>1
    <3>5. PmacRun(M, A, CtrBlocks)'
      BY <3>3, <3>4
    <3>6. tag' = E(job.k, A[CtrBlocks])
      BY <1>1, <2>1, <3>1, <3>2 DEF Computed, MacInput
    <3> QED BY <1>1, <3>1, <3>5, <3>6 DEF Tagged
  <2>2. CASE pc = "digest"
    <3>1. job.mode = "htmac" /\ MacBlocks = job.mlen \div 16 /\ recv.npub = job.npub /\ Cipher = c
      BY <1>1, <2>2, MacBlocksFacts DEF MacInv, MacSides, Cipher
    <3>2. tag' = E(job.k, digest(job.npub, c, job.mlen \div 16))
      BY <1>1, <2>2, <3>1 DEF Computed, MacInput
    <3>3. PICK d : d = digest(job.npub, c, job.mlen \div 16)
      OBVIOUS
    <3>4. digest(job.npub, c, job.mlen \div 16)' = d
      <4>1. PICK a, b, n : a = job.npub /\ b = c /\ n = job.mlen \div 16
        OBVIOUS
      <4>2. digest(a, b, n)' = d
        BY <1>1, <3>3, <4>1, DigestFrame
      <4> QED BY <1>1, <4>1, <4>2
    <3> QED BY <1>1, <3>1, <3>2, <3>3, <3>4 DEF Tagged
  <2> QED BY <1>1, <2>1, <2>2
<1>5. \A j \in DOMAIN c' : c'[j] = job'.m[j] (+) MacKeyByte(j)'
  BY <1>1 DEF MacInv, MacEncrypts, MacKeyByte
<1>6. MacEncrypts'
  BY <1>1, <1>4, <1>5 DEF MacEncrypts
<1> QED BY <1>1, <1>2, <1>3, <1>6 DEF MacInv, MacDecrypts

LEMMA MacTransitStep == MacInv /\ MacTransit => MacInv'
<1> SUFFICES ASSUME MacInv, MacTransit PROVE MacInv'
  OBVIOUS
<1>1. /\ pc = "transit" /\ pc' = "ctr" /\ side = "enc" /\ side' = "dec"
      /\ i' = 0 /\ word' = 1
      /\ job' = job /\ mask' = mask /\ acc' = acc /\ tag' = tag
      /\ ret' = ret /\ c' = c /\ p' = p
      /\ job \in CallsOf({"pmac", "htmac"}) /\ job.mode \in {"pmac", "htmac"}
      /\ CtrBlocks' = CtrBlocks
  BY DEF MacTransit, MacInv, MacTypeOK, MacSides, CtrBlocks
<1>2. recv'.npub = job.npub
  BY <1>1 DEF MacTransit, MacSent
<1>3. /\ job.mlen \in Nat /\ CtrBlocks \in Nat /\ WordSize \in Nat /\ WordSize > 1
      /\ MacWord(0) = 1
  BY <1>1, MacLengths
<1>4. DOMAIN p = 0..(0 - 1) /\ p = [j \in DOMAIN p |-> p[j]] /\ Min2(i' * BlockLen, job.mlen) = 0
  BY <1>1, <1>3 DEF MacInv, MacTypeOK, Min2, BlockLen
<1>5. MacTypeOK'
  BY <1>1, <1>3, <1>4 DEF MacInv, MacTypeOK
<1>6. MacSides'
  BY <1>1, <1>2, <1>3 DEF MacSides, MacWord
<1>7. MacEncrypts'
  <2>1. \E M, A : Tagged(M, A)'
    BY <1>1, TaggedFrame DEF MacInv, MacEncrypts
  <2>2. \A j \in DOMAIN c' : c'[j] = job'.m[j] (+) MacKeyByte(j)'
    BY <1>1 DEF MacInv, MacEncrypts, MacKeyByte
  <2> QED BY <1>1, <2>1, <2>2 DEF MacEncrypts
<1>8. \A j \in DOMAIN p' : FALSE
  BY <1>1, <1>4
<1> QED BY <1>1, <1>4, <1>5, <1>6, <1>7, <1>8 DEF MacInv, MacDecrypts

LEMMA FinishDecStep == MacInv /\ FinishDec => MacInv'
<1> SUFFICES ASSUME MacInv, FinishDec PROVE MacInv'
  OBVIOUS
<1>1. /\ side = "dec" /\ pc \in {"pmac", "digest"} /\ (pc = "pmac" => i = MacBlocks)
      /\ ret' = (IF Computed = recv.tag THEN "ok" ELSE "bad") /\ pc' = "done"
      /\ job' = job /\ side' = side /\ i' = i /\ word' = word /\ mask' = mask /\ acc' = acc
      /\ recv' = recv /\ tag' = tag /\ c' = c /\ p' = p
      /\ job \in CallsOf({"pmac", "htmac"}) /\ job.mode \in {"pmac", "htmac"}
      /\ CtrBlocks' = CtrBlocks /\ MacSent' = MacSent
  BY DEF FinishDec, MacInv, MacTypeOK, CtrBlocks, MacSent
<1>2. MacTypeOK'
  BY <1>1 DEF MacInv, MacTypeOK
<1>3. MacSides'
  BY <1>1 DEF MacInv, MacSides
<1>4. MacEncrypts'
  <2>1. \E M, A : Tagged(M, A)'
    BY <1>1, TaggedFrame DEF MacInv, MacEncrypts
  <2>2. \A j \in DOMAIN c' : c'[j] = job'.m[j] (+) MacKeyByte(j)'
    BY <1>1 DEF MacInv, MacEncrypts, MacKeyByte
  <2> QED BY <1>1, <2>1, <2>2 DEF MacEncrypts
<1>5. MacDecrypts'
  <2> SUFFICES ASSUME recv = MacSent PROVE MacDecrypts'
    BY <1>1 DEF MacDecrypts
  <2>1. \A j \in DOMAIN p : p[j] = job.m[j]
    BY <1>1 DEF MacInv, MacDecrypts
  <2>2. recv.c = c /\ recv.tag = tag /\ recv.npub = job.npub /\ Cipher = c
    BY <1>1 DEF MacSent, Cipher
  <2>3. ASSUME SameBlocks PROVE Computed = tag
    <3>1. CASE pc = "pmac"
      <4>1. job.mode = "pmac" /\ i = CtrBlocks
        BY <1>1, <2>3, <3>1, MacBlocksFacts DEF MacInv, MacSides
      <4>2. PICK M, A : Tagged(M, A) /\ acc = A[i]
        BY <1>1, <2>3, <3>1 DEF MacInv, MacDecrypts
      <4> QED BY <3>1, <4>1, <4>2 DEF Tagged, Computed, MacInput
    <3>2. CASE pc = "digest"
      <4>1. job.mode = "htmac" /\ MacBlocks = job.mlen \div 16
        BY <1>1, <3>2, MacBlocksFacts DEF MacInv, MacSides
      <4>2. PICK M, A : Tagged(M, A)
        BY <1>1 DEF MacInv, MacEncrypts
      <4> QED BY <2>2, <3>2, <4>1, <4>2 DEF Tagged, Computed, MacInput
    <3> QED BY <1>1, <3>1, <3>2
  <2>4. SameBlocks => ret' = "ok"
    BY <1>1, <2>2, <2>3
  <2> QED BY <1>1, <2>1, <2>4 DEF MacDecrypts, SameBlocks
<1> QED BY <1>1, <1>2, <1>3, <1>4, <1>5 DEF MacInv

LEMMA NextMacInv == MacInv /\ [MacNext]_macVars => MacInv'
<1>1. ASSUME MacInv, UNCHANGED macVars PROVE MacInv'
  <2>1. /\ job' = job /\ pc' = pc /\ side' = side /\ i' = i /\ word' = word /\ mask' = mask
        /\ acc' = acc /\ c' = c /\ tag' = tag /\ recv' = recv /\ p' = p /\ ret' = ret
        /\ MacSent' = MacSent /\ CtrBlocks' = CtrBlocks /\ MacBlocks' = MacBlocks
    BY <1>1 DEF macVars, MacSent, CtrBlocks, MacBlocks
  <2>2. MacTypeOK' /\ MacSides'
    BY <1>1, <2>1 DEF MacInv, MacTypeOK, MacSides
  <2>3. MacEncrypts'
    <3>1. (\E M, A : Tagged(M, A)) => (\E M, A : Tagged(M, A)')
      BY <2>1, TaggedFrame
    <3>2. \A j \in DOMAIN c' : c'[j] = job'.m[j] (+) MacKeyByte(j)'
      BY <1>1, <2>1 DEF MacInv, MacEncrypts, MacKeyByte
    <3>3. (\E M, A : PmacRun(M, A, i) /\ mask = M[i] /\ acc = A[i])
            => \E M, A : (PmacRun(M, A, i) /\ mask = M[i] /\ acc = A[i])'
      <4> SUFFICES ASSUME NEW M, NEW A, PmacRun(M, A, i), mask = M[i], acc = A[i]
                   PROVE  (PmacRun(M, A, i) /\ mask = M[i] /\ acc = A[i])'
        OBVIOUS
      <4>1. PICK n : n = i
        OBVIOUS
      <4>2. PmacRun(M, A, n)'
        BY <2>1, <4>1, PmacRunFrame
      <4> QED BY <2>1, <4>1, <4>2
    <3> QED BY <1>1, <2>1, <3>1, <3>2, <3>3 DEF MacInv, MacEncrypts
  <2>4. MacDecrypts'
    <3>1. (\E M, A : Tagged(M, A) /\ mask = M[i] /\ acc = A[i])
            => \E M, A : (Tagged(M, A) /\ mask = M[i] /\ acc = A[i])'
      BY <2>1, TaggedFrame
    <3> QED BY <1>1, <2>1, <3>1 DEF MacInv, MacDecrypts, SameBlocks
  <2> QED BY <1>1, <2>1, <2>2, <2>3, <2>4 DEF MacInv
<1> QED BY <1>1, CtrBlockStep, EndCtrStep, PmacStep, FinishEncStep, MacTransitStep, FinishDecStep
       DEF MacNext

\* The two modes stay within their buffers, stages and indices (aes_ctr_dec,
\* enc_pmac_aes128 and the functions like it).
THEOREM MacTypeCorrect == MacSpec => []MacTypeOK
<1>1. MacInv => MacTypeOK
  BY DEF MacInv
<1> QED BY <1>1, InitMacInv, NextMacInv, PTL DEF MacSpec

LEMMA MacInvGives == MacInv => MacRoundTrip
<1> SUFFICES ASSUME MacInv, pc = "done", recv = MacSent
             PROVE  p = job.m /\ (SameBlocks => ret = "ok")
  BY DEF MacRoundTrip
<1>1. side = "dec" /\ DOMAIN p = 0..(job.mlen - 1) /\ p = [j \in DOMAIN p |-> p[j]]
  BY DEF MacInv, MacSides, MacTypeOK
<1>2. /\ \A j \in DOMAIN p : p[j] = job.m[j]
      /\ SameBlocks => ret = "ok"
  BY <1>1 DEF MacInv, MacDecrypts
<1>3. job.m \in [0..(job.mlen - 1) -> Byte]
  BY MacLengths DEF MacInv, Buffer
<1>4. p = job.m
  BY <1>1, <1>2, <1>3
<1> QED BY <1>2, <1>4

\* What dec_pmac_aes128 and dec_htmac_aes128 give back of what was sent is the
\* message, at every length; the tag is accepted where both sides count the
\* same blocks.
THEOREM MacInverts == MacSpec => []MacRoundTrip
BY InitMacInv, NextMacInv, MacInvGives, PTL DEF MacSpec

(***************************************************************************)
(* AES-GCM-SIV. Its cipher works with a key that the cipher has made, so   *)
(* it has to be one of blocks.                                             *)
(***************************************************************************)
GcmSivInv ==
  /\ GcmSivTypeOK
  /\ job \in CallsOf({"gcm_siv"})
  /\ y \in Block
  /\ pc \in {"hash", "stream", "done"} => \E key \in Block : keys.enc = Schedule(key)
  /\ pc \in {"stream", "done"} => i \in 0..job.mlen

LEMMA InitGcmSivInv == GcmSivInit => GcmSivInv
<1> SUFFICES ASSUME GcmSivInit PROVE GcmSivInv
  OBVIOUS
<1>1. /\ job \in CallsOf({"gcm_siv"}) /\ job.mode = "gcm_siv"
      /\ pc = "derive" /\ i = 0 /\ y = Zeros(16) /\ c = Zeros(0) /\ tag = Zeros(0)
  BY CallFacts DEF GcmSivInit, BlockLen
<1>2. y \in Block /\ DOMAIN c = 0..(0-1) /\ DOMAIN tag = {}
  BY <1>1 DEF Zeros, Block, Buffer, BlockLen, Byte, Zero
<1> QED BY <1>1, <1>2 DEF GcmSivInv, GcmSivTypeOK

LEMMA DerivedFacts ==
  ASSUME BlockCipher, job \in CallsOf({"gcm_siv"}), NEW v
  PROVE  Derived(v) \in Block
<1>1. PICK key \in Block : job.k = Schedule(key)
  BY CallFacts
<1>2. job.npub \in [0..11 -> Byte]
  BY CallFacts DEF Buffer, NonceLen
<1>3. ASSUME NEW w PROVE DeriveBlock(w) \in Block
  <2>1. ASSUME NEW j \in 0..15
        PROVE  (CASE j = 0 -> NumByte(w)
                  [] j \in 1..3 -> Zero
                  [] j > 3 -> job.npub[j - 4]) \in Byte
    <3>1. NumByte(w) \in Byte /\ Zero \in Byte
      BY DEF NumByte, Zero, Byte
    <3>2. j > 3 => job.npub[j - 4] \in Byte
      <4>1. j > 3 => j - 4 \in 0..11
        OBVIOUS
      <4> QED BY <4>1, <1>2
    <3>3. (j = 0 \/ j \in 1..3 \/ j > 3) /\ ~(j = 0 /\ j \in 1..3) /\ ~(j = 0 /\ j > 3)
          /\ ~(j \in 1..3 /\ j > 3)
      OBVIOUS
    <3> QED BY <3>1, <3>2, <3>3, Zenon
  <2> QED BY <2>1 DEF DeriveBlock, Block, Buffer, BlockLen
<1>4. E(job.k, DeriveBlock(v)) \in [0..15 -> Byte] /\ E(job.k, DeriveBlock(v + 1)) \in [0..15 -> Byte]
  BY <1>1, <1>3 DEF BlockCipher, Block, Buffer, BlockLen
<1>5. \A j \in 0..15 : (j < 8 => j \in 0..15) /\ (~(j < 8) => j - 8 \in 0..15)
  OBVIOUS
<1> QED BY <1>4, <1>5 DEF Derived, Block, Buffer, BlockLen

\* The hash is a block, whatever goes into it.
LEMMA HashInBlock ==
  ASSUME NEW table, NEW hash, NEW block
  PROVE  ghash_process_block(table, hash, block) \in Block
<1>1. \A z : Buf(z) \in Block
  BY DEF Buf, Block, Buffer, BlockLen, Byte
<1>2. \A x : gcm_mult(table, x) \in Block
  BY <1>1 DEF gcm_mult
<1>3. \E x : ghash_process_block(table, hash, block) = gcm_mult(table, x)
  BY DEF ghash_process_block, Once
<1> QED BY <1>2, <1>3

LEMMA GcmSivTagStep == BlockCipher /\ GcmSivInv /\ GcmSivTag => GcmSivInv'
<1> SUFFICES ASSUME BlockCipher, GcmSivInv, GcmSivTag PROVE GcmSivInv'
  OBVIOUS
<1>1. /\ pc = "hash" /\ pc' = "stream" /\ i' = 0 /\ tag' = E(keys.enc, TagInput)
      /\ job' = job /\ keys' = keys /\ y' = y /\ c' = c
      /\ job \in CallsOf({"gcm_siv"}) /\ job.mode = "gcm_siv" /\ y \in Block
      /\ job.mlen \in Nat /\ DOMAIN c = 0..(0-1)
  BY CallFacts DEF GcmSivTag, GcmSivInv, GcmSivTypeOK
<1>2. job.npub \in [0..11 -> Byte] /\ y \in [0..15 -> Byte]
  BY <1>1, CallFacts DEF Buffer, NonceLen, Block, BlockLen
<1>3. TagInput \in Block
  <2>1. ASSUME NEW j \in 0..(BlockLen - 1)
        PROVE  (CASE j < NonceLen -> y[j] (+) job.npub[j]
                  [] j \in NonceLen..(BlockLen - 2) -> y[j]
                  [] j = BlockLen - 1 -> y[j] \ {7}) \in Byte
    <3>0. j \in 0..15
      BY DEF BlockLen
    <3>1. y[j] \in Byte /\ y[j] \ {7} \in Byte
      BY <1>2, <3>0 DEF Byte
    <3>2. j < NonceLen => y[j] (+) job.npub[j] \in Byte
      <4>1. j < 12 => job.npub[j] \in Byte
        <5>1. j < 12 => j \in 0..11
          BY <3>0
        <5> QED BY <5>1, <1>2
      <4> QED BY <3>1, <4>1 DEF Byte, (+), NonceLen
    <3>3. /\ j < NonceLen \/ j \in NonceLen..(BlockLen - 2) \/ j = BlockLen - 1
          /\ ~(j < NonceLen /\ j \in NonceLen..(BlockLen - 2)) /\ ~(j < NonceLen /\ j = BlockLen - 1)
          /\ ~(j \in NonceLen..(BlockLen - 2) /\ j = BlockLen - 1)
      BY <3>0 DEF NonceLen, BlockLen
    <3> QED BY <3>1, <3>2, <3>3, Zenon
  <2> QED BY <2>1, Zenon DEF TagInput, Block, Buffer
<1>4. PICK key \in Block : keys.enc = Schedule(key)
  BY <1>1 DEF GcmSivInv
<1>5. DOMAIN tag' = 0..15
  BY <1>1, <1>3, <1>4 DEF BlockCipher, Block, Buffer, BlockLen
<1> QED BY <1>1, <1>4, <1>5 DEF GcmSivInv, GcmSivTypeOK, BlockLen

LEMMA GcmSivStreamStep == GcmSivInv /\ GcmSivStream => GcmSivInv'
<1> SUFFICES ASSUME GcmSivInv, GcmSivStream PROVE GcmSivInv'
  OBVIOUS
<1>1. /\ pc = "stream" /\ pc' = "stream" /\ i < job.mlen /\ i' = i + Chunk
      /\ c' = Put(c, i, XorBlock(Slice(job.m, i, Chunk), E(keys.enc, counter)))
      /\ job' = job /\ keys' = keys /\ y' = y /\ tag' = tag
      /\ job \in CallsOf({"gcm_siv"}) /\ job.mlen \in Nat
      /\ i \in 0..job.mlen /\ DOMAIN c = 0..(i-1)
  BY CallFacts DEF GcmSivStream, GcmSivInv, GcmSivTypeOK
<1>2. PICK n \in Nat : n = Chunk /\ n <= job.mlen - i
  BY <1>1 DEF Chunk, Min2, BlockLen
<1> DEFINE d == XorBlock(Slice(job.m, i, n), E(keys.enc, counter))
<1>3. DOMAIN d = 0..(n-1)
  BY DEF XorBlock, Slice
<1> HIDE DEF d
<1>4. PICK m : m = i + n
  OBVIOUS
<1>5. Appended(Put(c, i, d), c, i, d, m)
  <2>1. i \in Nat /\ DOMAIN c = 0..(i-1)
    BY <1>1
  <2> QED BY ONLY <2>1, n \in Nat, <1>3, <1>4, PutAtEnd
<1>6. c' = Put(c, i, d)
  BY <1>1, <1>2 DEF d
<1>7. DOMAIN c' = 0..(i' - 1) /\ i' \in 0..job.mlen
  BY <1>1, <1>2, <1>4, <1>5, <1>6 DEF Appended
<1> QED BY <1>1, <1>7 DEF GcmSivInv, GcmSivTypeOK

LEMMA NextGcmSivInv == BlockCipher /\ GcmSivInv /\ [GcmSivNext]_gcmSivVars => GcmSivInv'
<1> SUFFICES ASSUME BlockCipher, GcmSivInv, [GcmSivNext]_gcmSivVars PROVE GcmSivInv'
  OBVIOUS
<1>1. CASE DeriveKeys
  <2>1. job \in CallsOf({"gcm_siv"}) /\ job' = job /\ keys'.enc = Schedule(Derived(2))
    BY <1>1 DEF DeriveKeys, GcmSivInv
  <2> QED BY <1>1, <2>1, DerivedFacts DEF DeriveKeys, GcmSivInv, GcmSivTypeOK
<1>2. CASE GcmSivHashBlock
  BY <1>2, HashInBlock DEF GcmSivHashBlock, GcmSivInv, GcmSivTypeOK
<1>3. CASE GcmSivReturn
  BY <1>3 DEF GcmSivReturn, GcmSivInv, GcmSivTypeOK
<1>4. CASE UNCHANGED gcmSivVars
  BY <1>4 DEF gcmSivVars, GcmSivInv, GcmSivTypeOK
<1> QED BY <1>1, <1>2, <1>3, <1>4, GcmSivTagStep, GcmSivStreamStep DEF GcmSivNext

\* With a block cipher, aes_gcm_siv_128_encrypt writes what it may, stage by
\* stage.
THEOREM GcmSivTypeCorrect ==
  ASSUME BlockCipher
  PROVE  GcmSivSpec => []GcmSivTypeOK
<1>1. GcmSivInv => GcmSivTypeOK
  BY DEF GcmSivInv
<1>2. GcmSivInv /\ [GcmSivNext]_gcmSivVars => GcmSivInv'
  BY NextGcmSivInv
<1> QED BY <1>1, <1>2, InitGcmSivInv, PTL DEF GcmSivSpec

(***************************************************************************)
(* What the device encrypts, MPC/code decrypts                             *)
(***************************************************************************)
\* A set with 0, and with every number up to n also the next one, has all up to n.
LEMMA UpTo ==
  ASSUME NEW N \in Nat, NEW S, 0 \in S, \A n \in 0..(N - 1) : n \in S => n + 1 \in S
  PROVE  \A n \in 0..N : n \in S
<1> SUFFICES ASSUME NEW m \in 0..N, m \notin S PROVE FALSE
  OBVIOUS
<1> DEFINE T == {n \in 0..N : n \notin S}
           R == OpToRel(<, Nat)
<1>1. IsWellFoundedOn(R, Nat)
  BY NatLessThanWellFounded
<1>2. \A n, k \in Nat : n < k => <<n, k>> \in R
  BY DEF OpToRel
<1> HIDE DEF R
<1>3. T \subseteq Nat /\ T # {}
  OBVIOUS
<1> HIDE DEF T
<1>4. PICK n \in T : \A k \in T : ~(<<k, n>> \in R)
  BY <1>1, <1>3, WFMin
<1>5. n \in 0..N /\ n \notin S
  BY <1>4 DEF T
<1>6. n # 0 /\ n - 1 \in 0..(N - 1) /\ n - 1 \in Nat /\ n \in Nat /\ n - 1 < n /\ (n - 1) + 1 = n
  BY <1>5
<1>7. n - 1 \notin S
  BY <1>5, <1>6
<1>8. n - 1 \in T
  BY <1>6, <1>7 DEF T
<1> QED BY <1>2, <1>4, <1>6, <1>8

\* A function whose values are each computed of the one before.
Chain(f, N, z, step) ==
  f = [b \in 0..N |-> IF b = 0 THEN z ELSE step[b][f[b - 1]]]

LEMMA ChainIs ==
  ASSUME NEW N \in Nat, NEW X, NEW z \in X, NEW step \in [0..N -> [X -> X]]
  PROVE  \E f \in [0..N -> X] : Chain(f, N, z, step)
<1> DEFINE Good(f, n) == /\ f \in [0..n -> X]
                         /\ \A b \in 0..n : f[b] = IF b = 0 THEN z ELSE step[b][f[b - 1]]
           S == {n \in 0..N : \E f : Good(f, n)}
<1>1. 0 \in S
  <2>1. Good([b \in 0..0 |-> z], 0)
    OBVIOUS
  <2>2. 0 \in 0..N
    OBVIOUS
  <2>3. \E f : Good(f, 0)
    BY <2>1
  <2> HIDE DEF Good
  <2> QED BY <2>2, <2>3
<1>2. ASSUME NEW n \in 0..(N - 1), n \in S PROVE n + 1 \in S
  <2>1. PICK f : Good(f, n)
    BY <1>2
  <2> DEFINE g == [b \in 0..(n + 1) |-> IF b = n + 1 THEN step[n + 1][f[n]] ELSE f[b]]
  <2>2. n \in 0..n /\ n + 1 \in 0..N /\ f[n] \in X /\ step[n + 1][f[n]] \in X
    BY <2>1
  <2>3. g \in [0..(n + 1) -> X]
    BY <2>1, <2>2
  <2>4. ASSUME NEW b \in 0..(n + 1) PROVE g[b] = IF b = 0 THEN z ELSE step[b][g[b - 1]]
    <3>1. CASE b = n + 1
      <4>1. b # 0 /\ b - 1 = n /\ n # n + 1 /\ n \in 0..(n + 1)
        BY <3>1
      <4>2. g[n] = f[n]
        BY <4>1
      <4>3. g[b] = step[n + 1][f[n]]
        BY <3>1
      <4> HIDE DEF g
      <4> QED BY <3>1, <4>1, <4>2, <4>3
    <3>2. CASE b # n + 1
      <4>1. b \in 0..n /\ (b # 0 => b - 1 \in 0..(n + 1) /\ b - 1 # n + 1)
        BY <3>2
      <4>2. g[b] = f[b] /\ (b # 0 => g[b - 1] = f[b - 1])
        BY <3>2, <4>1
      <4> HIDE DEF g
      <4> QED BY <2>1, <4>1, <4>2
    <3> QED BY <3>1, <3>2
  <2> HIDE DEF g
  <2>5. Good(g, n + 1)
    BY <2>3, <2>4
  <2> QED BY <2>2, <2>5
<1>3. N \in S
  <2> HIDE DEF S
  <2>1. \A n \in 0..N : n \in S
    BY <1>1, <1>2, UpTo
  <2> QED BY <2>1
<1>4. PICK f : Good(f, N)
  BY <1>3
<1>5. f = [b \in 0..N |-> IF b = 0 THEN z ELSE step[b][f[b - 1]]]
  BY <1>4
<1> QED BY <1>4, <1>5 DEF Chain

\* A sum's elements are in one of its terms.
LEMMA InXor == \A a, b, e : e \in a (+) b <=> ~(e \in a <=> e \in b)
BY DEF (+)

LEMMA XorInAnyOrder == \A a, b, d : (a (+) b) (+) d = a (+) (b (+) d)
BY DEF (+)

\* The four places to which x^128 = x^7 + x^2 + x + 1 takes what is high.
Low128(a)    == {e \in a : e < 128}
High(a, n)   == {e - 128 + n : e \in {d \in a : d >= 128}}
Wrapped(a)    == (High(a, 0) (+) High(a, 1)) (+) (High(a, 2) (+) High(a, 7))
Up(a)        == {e + 1 : e \in a}

LEMMA ReduceIs == \A a : Reduce(a) = Low128(a) (+) Wrapped(a)
BY DEF Reduce, Low128, Wrapped, High, Degree

LEMMA InHigh ==
  ASSUME NEW a \in SUBSET Nat, NEW n \in Nat, NEW e
  PROVE  e \in High(a, n) <=> e \in Nat /\ e - n >= 0 /\ e - n + 128 \in a
<1>1. ASSUME e \in High(a, n) PROVE e \in Nat /\ e - n >= 0 /\ e - n + 128 \in a
  <2>1. PICK d \in a : d >= 128 /\ e = d - 128 + n
    BY <1>1 DEF High
  <2>2. d \in Nat /\ e - n + 128 = d
    BY <2>1
  <2> QED BY <2>1, <2>2
<1>2. ASSUME e \in Nat, e - n >= 0, e - n + 128 \in a PROVE e \in High(a, n)
  <2>1. e - n + 128 >= 128 /\ (e - n + 128) - 128 + n = e
    BY <1>2
  <2> QED BY <1>2, <2>1 DEF High
<1> QED BY <1>1, <1>2

LEMMA InUp ==
  ASSUME NEW a \in SUBSET Nat, NEW e
  PROVE  e \in Up(a) <=> e \in Nat /\ e >= 1 /\ e - 1 \in a
<1>1. ASSUME e \in Up(a) PROVE e \in Nat /\ e >= 1 /\ e - 1 \in a
  <2>1. PICK d \in a : e = d + 1
    BY <1>1 DEF Up
  <2> QED BY <2>1
<1>2. ASSUME e \in Nat, e >= 1, e - 1 \in a PROVE e \in Up(a)
  <2>1. (e - 1) + 1 = e
    BY <1>2
  <2> QED BY <1>2, <2>1 DEF Up
<1> QED BY <1>1, <1>2

LEMMA XorOfNat == \A a, b \in SUBSET Nat : a (+) b \in SUBSET Nat
BY DEF (+)

LEMMA HighIsNat == \A a \in SUBSET Nat : \A n \in Nat : High(a, n) \in SUBSET Nat
BY InHigh

LEMMA UpIsNat == \A a \in SUBSET Nat : Up(a) \in SUBSET Nat
BY DEF Up

LEMMA HighAdds ==
  ASSUME NEW a \in SUBSET Nat, NEW b \in SUBSET Nat, NEW n \in Nat
  PROVE  High(a (+) b, n) = High(a, n) (+) High(b, n)
<1> SUFFICES ASSUME NEW e PROVE e \in High(a (+) b, n) <=> e \in High(a, n) (+) High(b, n)
  OBVIOUS
<1>1. a (+) b \in SUBSET Nat
  BY XorOfNat
<1>2. /\ e \in High(a, n) <=> e \in Nat /\ e - n >= 0 /\ e - n + 128 \in a
      /\ e \in High(b, n) <=> e \in Nat /\ e - n >= 0 /\ e - n + 128 \in b
      /\ e \in High(a (+) b, n) <=> e \in Nat /\ e - n >= 0 /\ e - n + 128 \in a (+) b
  BY <1>1, InHigh
<1> QED BY <1>2, InXor

LEMMA UpAdds ==
  ASSUME NEW a \in SUBSET Nat, NEW b \in SUBSET Nat
  PROVE  Up(a (+) b) = Up(a) (+) Up(b)
<1> SUFFICES ASSUME NEW e PROVE e \in Up(a (+) b) <=> e \in Up(a) (+) Up(b)
  OBVIOUS
<1>1. a (+) b \in SUBSET Nat
  BY XorOfNat
<1> QED BY <1>1, InUp, InXor

\* Four pairs are added as four and four.
LEMMA XorPairs ==
  \A a1, a2, a3, a4, b1, b2, b3, b4 :
    ((a1 (+) b1) (+) (a2 (+) b2)) (+) ((a3 (+) b3) (+) (a4 (+) b4))
      = ((a1 (+) a2) (+) (a3 (+) a4)) (+) ((b1 (+) b2) (+) (b3 (+) b4))
BY DEF (+)

LEMMA FoldedAdds ==
  ASSUME NEW a \in SUBSET Nat, NEW b \in SUBSET Nat
  PROVE  Wrapped(a (+) b) = Wrapped(a) (+) Wrapped(b)
<1>1. /\ High(a (+) b, 0) = High(a, 0) (+) High(b, 0) /\ High(a (+) b, 1) = High(a, 1) (+) High(b, 1)
      /\ High(a (+) b, 2) = High(a, 2) (+) High(b, 2) /\ High(a (+) b, 7) = High(a, 7) (+) High(b, 7)
  BY HighAdds
<1> QED BY ONLY <1>1, XorPairs DEF Wrapped

LEMMA ReduceAdds ==
  ASSUME NEW a \in SUBSET Nat, NEW b \in SUBSET Nat
  PROVE  Reduce(a (+) b) = Reduce(a) (+) Reduce(b)
<1>1. Low128(a (+) b) = Low128(a) (+) Low128(b)
  BY DEF Low128, (+)
<1>2. \A o, q, r, s : (o (+) q) (+) (r (+) s) = (o (+) r) (+) (q (+) s)
  BY DEF (+)
<1>3. Wrapped(a (+) b) = Wrapped(a) (+) Wrapped(b)
  BY FoldedAdds
<1> QED BY ONLY <1>1, <1>2, <1>3, ReduceIs

LEMMA ReduceSmall == ASSUME NEW w \in SUBSET (0..127) PROVE Reduce(w) = w /\ Wrapped(w) = {}
<1>1. \A n : High(w, n) = {}
  BY DEF High
<1>2. Low128(w) = w
  <2>1. \A e \in w : e < 128
    OBVIOUS
  <2> QED BY <2>1 DEF Low128
<1> QED BY <1>1, <1>2, ReduceIs DEF Wrapped, (+)

LEMMA ReduceIsNat == ASSUME NEW a \in SUBSET Nat PROVE Reduce(a) \in SUBSET Nat /\ Wrapped(a) \in SUBSET Nat
<1>1. High(a, 0) \in SUBSET Nat /\ High(a, 1) \in SUBSET Nat /\ High(a, 2) \in SUBSET Nat /\ High(a, 7) \in SUBSET Nat
  BY HighIsNat
<1>2. Low128(a) \in SUBSET Nat
  BY DEF Low128
<1> QED BY <1>1, <1>2, XorOfNat, ReduceIs DEF Wrapped

LEMMA ReduceBounds ==
  ASSUME NEW b \in SUBSET Nat, NEW m \in Nat, m >= 128, \A e \in b : e <= m,
         NEW k \in Nat, k >= 127, k >= m - 121
  PROVE  Reduce(b) \in SUBSET (0..k)
<1>1. \A n \in {0, 1, 2, 7} : \A e \in High(b, n) : e <= k
  BY InHigh
<1>2. \A e \in Low128(b) : e <= k
  BY DEF Low128
<1>3. \A e \in Reduce(b) : e <= k
  BY <1>1, <1>2, ReduceIs DEF Wrapped, (+)
<1> QED BY <1>3, ReduceIsNat

\* A product is an element after it has been reduced twice.
LEMMA ReducedTwice ==
  ASSUME NEW a \in SUBSET (0..254)
  PROVE  Reduce(a) \in SUBSET (0..133) /\ Reduce(Reduce(a)) \in SUBSET (0..127)
<1>1. a \in SUBSET Nat /\ \A e \in a : e <= 254
  OBVIOUS
<1>2. \A m, k \in Nat : m >= 128 /\ k >= 127 /\ k >= m - 121 =>
        \A b \in SUBSET Nat : (\A e \in b : e <= m) => Reduce(b) \in SUBSET (0..k)
  BY ReduceBounds
<1>3. Reduce(a) \in SUBSET (0..133)
  <2>1. PICK m \in Nat : m = 254
    OBVIOUS
  <2>2. PICK k \in Nat : k = 133
    OBVIOUS
  <2>3. m >= 128 /\ k >= 127 /\ k >= m - 121 /\ \A e \in a : e <= m
    BY <1>1, <2>1, <2>2
  <2>4. Reduce(a) \in SUBSET (0..k)
    BY ONLY <1>1, <1>2, <2>3, m \in Nat, k \in Nat
  <2> QED BY ONLY <2>2, <2>4
<1>4. Reduce(a) \in SUBSET Nat /\ \A e \in Reduce(a) : e <= 133
  BY <1>3
<1>5. Reduce(Reduce(a)) \in SUBSET (0..127)
  <2>1. PICK m \in Nat : m = 133
    OBVIOUS
  <2>2. PICK k \in Nat : k = 127
    OBVIOUS
  <2>3. m >= 128 /\ k >= 127 /\ k >= m - 121 /\ \A e \in Reduce(a) : e <= m
    BY <1>4, <2>1, <2>2
  <2>4. Reduce(Reduce(a)) \in SUBSET (0..k)
    BY ONLY <1>2, <1>4, <2>3, m \in Nat, k \in Nat
  <2> QED BY ONLY <2>2, <2>4
<1> QED BY <1>3, <1>5

\* What falls out at the top when a is shifted comes back as Poly.
Carry(a) == IF 127 \in a THEN Poly ELSE {}

LEMMA HighOfUp ==
  ASSUME NEW a \in SUBSET Nat, NEW n \in Nat
  PROVE  High(Up(a), n) = Up(High(a, n)) (+) (IF 127 \in a THEN {n} ELSE {})
<1> SUFFICES ASSUME NEW e
             PROVE  e \in High(Up(a), n) <=> e \in Up(High(a, n)) (+) (IF 127 \in a THEN {n} ELSE {})
  OBVIOUS
<1>1. Up(a) \in SUBSET Nat /\ High(a, n) \in SUBSET Nat
  BY UpIsNat, HighIsNat
<1>2. e \in High(Up(a), n) <=> e \in Nat /\ e - n >= 0 /\ e - n + 127 \in a
  <2>1. e \in High(Up(a), n) <=> e \in Nat /\ e - n >= 0 /\ e - n + 128 \in Up(a)
    BY <1>1, InHigh
  <2>2. ASSUME e \in Nat, e - n >= 0 PROVE e - n + 128 \in Up(a) <=> e - n + 127 \in a
    <3>1. e - n + 128 \in Nat /\ e - n + 128 >= 1 /\ (e - n + 128) - 1 = e - n + 127
      BY <2>2
    <3> QED BY <3>1, InUp
  <2> QED BY <2>1, <2>2
<1>3. e \in Up(High(a, n)) <=> e \in Nat /\ e - n >= 1 /\ e - n + 127 \in a
  <2>1. e \in Up(High(a, n)) <=> e \in Nat /\ e >= 1 /\ e - 1 \in High(a, n)
    BY <1>1, InUp
  <2>2. ASSUME e \in Nat, e >= 1
        PROVE  e - 1 \in High(a, n) <=> e - n >= 1 /\ e - n + 127 \in a
    <3>1. e - 1 \in High(a, n) <=> e - 1 \in Nat /\ (e - 1) - n >= 0 /\ (e - 1) - n + 128 \in a
      BY InHigh
    <3>2. e - 1 \in Nat /\ (e - 1) - n + 128 = e - n + 127 /\ ((e - 1) - n >= 0 <=> e - n >= 1)
      BY <2>2
    <3> QED BY <3>1, <3>2
  <2>3. e \in Nat /\ e - n >= 1 => e >= 1
    OBVIOUS
  <2> QED BY <2>1, <2>2, <2>3
<1>4. CASE e = n
  <2>1. e \in Nat /\ e - n = 0 /\ e - n + 127 = 127
    BY <1>4
  <2> QED BY <1>2, <1>3, <1>4, <2>1, InXor
<1>5. CASE e # n
  <2>1. e \in Nat => (e - n >= 0 <=> e - n >= 1)
    BY <1>5
  <2>2. ~(e \in (IF 127 \in a THEN {n} ELSE {}))
    BY <1>5
  <2> QED BY <1>2, <1>3, <2>1, <2>2, InXor
<1> QED BY <1>4, <1>5

LEMMA FoldedUp ==
  ASSUME NEW a \in SUBSET Nat
  PROVE  Wrapped(Up(a)) = Up(Wrapped(a)) (+) Carry(a)
<1> DEFINE one(n) == IF 127 \in a THEN {n} ELSE {}
<1>1. /\ High(Up(a), 0) = Up(High(a, 0)) (+) one(0) /\ High(Up(a), 1) = Up(High(a, 1)) (+) one(1)
      /\ High(Up(a), 2) = Up(High(a, 2)) (+) one(2) /\ High(Up(a), 7) = Up(High(a, 7)) (+) one(7)
  BY HighOfUp
<1>2. (one(0) (+) one(1)) (+) (one(2) (+) one(7)) = Carry(a)
  BY DEF Carry, Poly, (+)
<1>3. /\ High(a, 0) \in SUBSET Nat /\ High(a, 1) \in SUBSET Nat /\ High(a, 2) \in SUBSET Nat
      /\ High(a, 7) \in SUBSET Nat
  BY HighIsNat
<1>4. Up(Wrapped(a)) = (Up(High(a, 0)) (+) Up(High(a, 1))) (+) (Up(High(a, 2)) (+) Up(High(a, 7)))
  BY <1>3, XorOfNat, UpAdds DEF Wrapped
<1> HIDE DEF one
<1> QED BY ONLY <1>1, <1>2, <1>4, XorPairs DEF Wrapped

\* To shift and reduce what has been reduced once, or to reduce it all twice.
LEMMA ReduceUp ==
  ASSUME NEW a \in SUBSET Nat
  PROVE  Reduce(Reduce(Up(a))) = Reduce(Up(Reduce(a)))
<1> DEFINE l == Low128(a)
           s == Wrapped(a)
           w == Low128(Up(l)) (+) Carry(a)
<1>1. l \in SUBSET (0..127) /\ l \in SUBSET Nat /\ s \in SUBSET Nat /\ Up(l) \in SUBSET Nat
      /\ Up(s) \in SUBSET Nat
  <2>1. l \in SUBSET (0..127) /\ l \in SUBSET Nat
    <3>1. \A e \in Nat : e < 128 => e \in 0..127
      OBVIOUS
    <3> QED BY <3>1 DEF Low128
  <2>2. s \in SUBSET Nat
    BY ReduceIsNat
  <2> QED BY <2>1, <2>2, UpIsNat
<1>2. Low128(Up(a)) = Low128(Up(l))
  <2>1. \A e : e \in Low128(Up(a)) <=> e < 128 /\ e \in Nat /\ e >= 1 /\ e - 1 \in a
    BY InUp DEF Low128
  <2>2. \A e : e \in Low128(Up(l)) <=> e < 128 /\ e \in Nat /\ e >= 1 /\ e - 1 \in a
    BY <1>1, InUp DEF Low128
  <2> QED BY <2>1, <2>2
<1>3. Carry(l) = Carry(a) /\ Carry(a) \in SUBSET (0..127)
  BY DEF Carry, Low128, Poly
<1>4. w \in SUBSET (0..127)
  BY <1>1, <1>3, UpIsNat DEF (+), Low128
<1>5. \A o, q, r : o (+) (q (+) r) = (o (+) r) (+) q
  BY DEF (+)
<1>6. Reduce(Up(a)) = w (+) Up(s)
  BY <1>2, <1>5, FoldedUp, ReduceIs
<1>7. Reduce(Up(l)) = w
  <2>1. Wrapped(l) = {} /\ Up({}) = {}
    BY <1>1, ReduceSmall DEF Up
  <2>2. Wrapped(Up(l)) = {} (+) Carry(l)
    BY <1>1, <2>1, FoldedUp
  <2>3. {} (+) Carry(l) = Carry(l)
    BY DEF (+)
  <2> QED BY <1>3, <2>2, <2>3, ReduceIs
<1>8. Up(Reduce(a)) = Up(l) (+) Up(s)
  BY <1>1, ReduceIs, UpAdds
<1>9. Reduce(Up(Reduce(a))) = w (+) Reduce(Up(s))
  BY <1>1, <1>7, <1>8, ReduceAdds
<1>10. Reduce(w (+) Up(s)) = Reduce(w) (+) Reduce(Up(s)) /\ Reduce(w) = w
  <2>1. w \in SUBSET Nat
    BY <1>4
  <2> HIDE DEF w, s
  <2> QED BY <1>1, <1>4, <2>1, ReduceAdds, ReduceSmall
<1> HIDE DEF w, s
<1> QED BY <1>6, <1>9, <1>10

\* TimesX shifts and reduces.
LEMMA TimesXIs == ASSUME NEW z \in SUBSET (0..127) PROVE TimesX(z) = Reduce(Up(z))
<1>1. z \in SUBSET Nat /\ Up(z) \in SUBSET Nat
  BY UpIsNat
<1>2. Wrapped(Up(z)) = Carry(z)
  <2>1. Wrapped(z) = {} /\ Up({}) = {} /\ {} (+) Carry(z) = Carry(z)
    BY ReduceSmall DEF Up, (+)
  <2> QED BY <1>1, <2>1, FoldedUp
<1>3. Low128(Up(z)) = ShiftRight(z, 1)
  BY DEF Low128, Up, ShiftRight
<1> QED BY <1>2, <1>3, ReduceIs DEF TimesX, Carry

Elements == SUBSET (0..127)

\* The terms of exponent e.
TermsOf(a, b, e) == {k \in a : e - k \in b}
OddMany(s) == Cardinality(s) % 2 = 1

LEMMA InProduct == \A a, b, e : e \in Product(a, b) <=> e \in 0..254 /\ OddMany(TermsOf(a, b, e))
BY DEF Product, TermsOf, OddMany, Degree

LEMMA ElementsFinite == IsFiniteSet(0..127) /\ \A a \in Elements : IsFiniteSet(a)
<1>1. \A k, n \in Int : IsFiniteSet(k..n)
  BY FS_Interval
<1>2. 0 \in Int /\ 127 \in Int
  OBVIOUS
<1>3. IsFiniteSet(0..127)
  BY <1>1, <1>2, Zenon
<1> QED BY <1>3, FS_Subset DEF Elements

LEMMA OddMore ==
  ASSUME NEW s, IsFiniteSet(s), NEW x, x \notin s
  PROVE  OddMany(s \cup {x}) <=> ~OddMany(s)
<1>1. Cardinality(s) \in Nat /\ Cardinality(s \cup {x}) = Cardinality(s) + 1
  BY FS_AddElement, FS_CardinalityType
<1>2. PICK n \in Nat : n = Cardinality(s)
  BY <1>1
<1>3. (n + 1) % 2 = 1 <=> ~(n % 2 = 1)
  BY <1>2
<1> QED BY <1>1, <1>2, <1>3 DEF OddMany

LEMMA OddFew == ~OddMany({}) /\ \A x : OddMany({x})
<1>1. Cardinality({}) = 0 /\ \A x : Cardinality({x}) = 1
  BY FS_EmptySet, FS_Singleton
<1> QED BY <1>1 DEF OddMany

\* One exponent more in the first factor.
LEMMA ProductMore ==
  ASSUME NEW a \in Elements, NEW b, NEW r, r \notin a
  PROVE  Product(a \cup {r}, b) = Product(a, b) (+) Product({r}, b)
<1> SUFFICES ASSUME NEW e \in 0..254
             PROVE  OddMany(TermsOf(a \cup {r}, b, e)) <=> ~(OddMany(TermsOf(a, b, e)) <=> OddMany(TermsOf({r}, b, e)))
  <2>1. \A e : e \in Product(a \cup {r}, b) <=> e \in Product(a, b) (+) Product({r}, b)
    BY InProduct, InXor
  <2> QED BY <2>1
<1>1. IsFiniteSet(TermsOf(a, b, e)) /\ r \notin TermsOf(a, b, e)
  BY ElementsFinite, FS_Subset DEF TermsOf
<1>2. CASE e - r \in b
  <2>1. TermsOf(a \cup {r}, b, e) = TermsOf(a, b, e) \cup {r} /\ TermsOf({r}, b, e) = {r}
    BY <1>2 DEF TermsOf
  <2>2. OddMany(TermsOf(a, b, e) \cup {r}) <=> ~OddMany(TermsOf(a, b, e))
    BY <1>1, OddMore
  <2> QED BY <2>1, <2>2, OddFew
<1>3. CASE e - r \notin b
  <2>1. TermsOf(a \cup {r}, b, e) = TermsOf(a, b, e) /\ TermsOf({r}, b, e) = {}
    BY <1>3 DEF TermsOf
  <2> QED BY <2>1, OddFew
<1> QED BY <1>2, <1>3

LEMMA ProductOne ==
  ASSUME NEW b \in Elements
  PROVE  Product({0}, b) = b
<1> SUFFICES ASSUME NEW e PROVE e \in Product({0}, b) <=> e \in b
  OBVIOUS
<1>1. ASSUME e \in 0..254 PROVE OddMany(TermsOf({0}, b, e)) <=> e \in b
  <2>1. e - 0 = e
    BY <1>1
  <2>2. TermsOf({0}, b, e) = IF e \in b THEN {0} ELSE {}
    BY <2>1 DEF TermsOf
  <2> QED BY <2>2, OddFew
<1>2. e \in b => e \in 0..254
  BY DEF Elements
<1> QED BY <1>1, <1>2, InProduct

LEMMA ProductUp ==
  ASSUME NEW a \in SUBSET (0..126), NEW b \in Elements
  PROVE  Product(Up(a), b) = Up(Product(a, b))
<1> SUFFICES ASSUME NEW e PROVE e \in Product(Up(a), b) <=> e \in Up(Product(a, b))
  OBVIOUS
<1>0. Product(a, b) \in SUBSET Nat /\ a \in SUBSET Nat
  BY InProduct
<1>1. ASSUME e \in 0..254 PROVE Cardinality(TermsOf(Up(a), b, e)) = Cardinality(TermsOf(a, b, e - 1))
  <2> DEFINE S == TermsOf(a, b, e - 1)
             T == TermsOf(Up(a), b, e)
             f == [k \in S |-> k + 1]
  <2>1. \A k \in S : k \in Nat /\ k + 1 \in T
    <3> TAKE k \in S
    <3>1. k \in a /\ k \in Nat /\ (e - 1) - k \in b /\ e - (k + 1) = (e - 1) - k
      BY <1>1 DEF TermsOf
    <3> QED BY <3>1 DEF TermsOf, Up
  <2>2. \A m \in T : m \in Nat /\ m - 1 \in S /\ m = (m - 1) + 1
    <3> TAKE m \in T
    <3>1. PICK k \in a : m = k + 1
      BY DEF TermsOf, Up
    <3>2. k \in Nat /\ m - 1 = k /\ (e - 1) - k = e - m
      BY <1>1, <3>1
    <3> QED BY <3>1, <3>2 DEF TermsOf
  <2>3. f \in [S -> T] /\ \A k, m \in S : f[k] = f[m] => k = m
    BY <2>1
  <2>4. \A m \in T : \E k \in S : f[k] = m
    BY <2>2
  <2>5. ExistsBijection(S, T)
    BY <2>3, <2>4 DEF ExistsBijection, Bijection, Injection, Surjection, IsInjective
  <2>6. IsFiniteSet(S)
    <3>1. a \in Elements
      BY DEF Elements
    <3>2. S \subseteq a
      BY DEF TermsOf
    <3> QED BY <3>1, <3>2, ElementsFinite, FS_Subset
  <2> QED BY <2>5, <2>6, FS_Bijection
<1>2. e \in Up(Product(a, b)) <=> e \in Nat /\ e >= 1 /\ e - 1 \in 0..254 /\ OddMany(TermsOf(a, b, e - 1))
  BY SMTT(30), <1>0, InUp, InProduct
<1>3. e \in Product(Up(a), b) <=> e \in 0..254 /\ OddMany(TermsOf(a, b, e - 1))
  BY <1>1, InProduct DEF OddMany
<1>4. ASSUME e = 0 PROVE ~OddMany(TermsOf(a, b, e - 1))
  <2>1. TermsOf(a, b, e - 1) = {}
    <3>1. \A k \in a : (e - 1) - k \notin 0..127
      BY <1>4
    <3> QED BY ZenonT(40), <3>1 DEF TermsOf, Elements
  <2> QED BY <2>1, OddFew
<1>5. ASSUME e = 255 PROVE ~OddMany(TermsOf(a, b, e - 1))
  <2>1. TermsOf(a, b, e - 1) = {}
    <3>1. \A k \in a : (e - 1) - k \notin 0..127
      BY <1>5
    <3> QED BY ZenonT(40), <3>1 DEF TermsOf, Elements
  <2> QED BY <2>1, OddFew
<1>6. e \in Nat /\ e >= 1 /\ e - 1 \in 0..254 <=> e \in 1..255
  OBVIOUS
<1>7. e \in 0..254 <=> e = 0 \/ (e \in 1..255 /\ e # 255)
  OBVIOUS
<1> HIDE DEF OddMany
<1> QED BY <1>2, <1>3, <1>4, <1>5, <1>6, <1>7

(***************************************************************************)
(* Multiplication                                                          *)
(***************************************************************************)
LEMMA MulIs == \A a, b : Mul(a, b) = Reduce(Reduce(Product(a, b)))
BY DEF Mul, Once

LEMMA MulIsElement == ASSUME NEW a, NEW b PROVE Mul(a, b) \in Elements
<1>1. Product(a, b) \in SUBSET (0..254)
  BY InProduct
<1> QED BY <1>1, ReducedTwice, MulIs DEF Elements

LEMMA MulMore ==
  ASSUME NEW a \in Elements, NEW b, NEW r, r \notin a
  PROVE  Mul(a \cup {r}, b) = Mul(a, b) (+) Mul({r}, b)
<1>1. Product(a, b) \in SUBSET Nat /\ Product({r}, b) \in SUBSET Nat
  BY InProduct
<1>2. Reduce(Product(a, b)) \in SUBSET Nat /\ Reduce(Product({r}, b)) \in SUBSET Nat
  BY <1>1, ReduceIsNat
<1>3. Product(a \cup {r}, b) = Product(a, b) (+) Product({r}, b)
  BY ProductMore
<1>4. Reduce(Product(a, b) (+) Product({r}, b)) = Reduce(Product(a, b)) (+) Reduce(Product({r}, b))
  BY <1>1, ReduceAdds
<1>5. Reduce(Reduce(Product(a, b)) (+) Reduce(Product({r}, b)))
        = Reduce(Reduce(Product(a, b))) (+) Reduce(Reduce(Product({r}, b)))
  BY <1>2, ReduceAdds
<1> QED BY <1>3, <1>4, <1>5, MulIs

LEMMA MulOne == ASSUME NEW b \in Elements PROVE Mul({0}, b) = b
BY ProductOne, ReduceSmall, MulIs DEF Elements

LEMMA MulNone == ASSUME NEW b PROVE Mul({}, b) = {}
<1>1. Product({}, b) = {}
  <2>1. \A e : TermsOf({}, b, e) = {}
    BY DEF TermsOf
  <2> QED BY <2>1, InProduct, OddFew
<1>2. {} \in SUBSET (0..127)
  OBVIOUS
<1> QED BY <1>1, <1>2, ReduceSmall, MulIs

\* A factor x.
LEMMA MulUp ==
  ASSUME NEW a \in SUBSET (0..126), NEW b \in Elements
  PROVE  Mul(Up(a), b) = TimesX(Mul(a, b))
<1>1. PICK d \in SUBSET (0..254) : d = Product(a, b)
  BY InProduct
<1>2. PICK r \in SUBSET Nat : r = Reduce(d) /\ Reduce(r) \in SUBSET (0..127)
  BY <1>1, ReducedTwice, ReduceIsNat
<1>3. Reduce(Reduce(Up(d))) = Reduce(Up(r))
  BY SMTT(30), <1>1, <1>2, ReduceUp
<1>4. Reduce(Reduce(Up(r))) = Reduce(Up(Reduce(r)))
  BY <1>2, ReduceUp
<1>5. Reduce(Up(r)) \in SUBSET (0..127)
  <2>1. Mul(Up(a), b) = Reduce(Up(r))
    BY <1>1, <1>3, ProductUp, MulIs
  <2> QED BY <2>1, MulIsElement DEF Elements
<1>6. Reduce(Reduce(Up(r))) = Reduce(Up(r))
  BY <1>5, ReduceSmall
<1>7. TimesX(Reduce(r)) = Reduce(Up(Reduce(r)))
  BY <1>2, TimesXIs
<1> QED BY <1>1, <1>2, <1>3, <1>4, <1>6, <1>7, ProductUp, MulIs

(***************************************************************************)
(* The table last4: what four bits carry that fall out at the end.         *)
(***************************************************************************)
\* The bits of a word of 16 bits, the highest first.
On(v) == {e \in 0..15 : (v \div 2^(15 - e)) % 2 = 1}

LEMMA OnIs ==
  ASSUME NEW v \in Nat
  PROVE  /\ \A e \in On(v) : e \in {0, 1, 2, 3, 4, 5, 6, 7, 8, 9, 10, 11, 12, 13, 14, 15}
         /\ (0 \in On(v) <=> (v \div 32768) % 2 = 1) /\ (1 \in On(v) <=> (v \div 16384) % 2 = 1)
         /\ (2 \in On(v) <=> (v \div 8192) % 2 = 1) /\ (3 \in On(v) <=> (v \div 4096) % 2 = 1)
         /\ (4 \in On(v) <=> (v \div 2048) % 2 = 1) /\ (5 \in On(v) <=> (v \div 1024) % 2 = 1)
         /\ (6 \in On(v) <=> (v \div 512) % 2 = 1) /\ (7 \in On(v) <=> (v \div 256) % 2 = 1)
         /\ (8 \in On(v) <=> (v \div 128) % 2 = 1) /\ (9 \in On(v) <=> (v \div 64) % 2 = 1)
         /\ (10 \in On(v) <=> (v \div 32) % 2 = 1) /\ (11 \in On(v) <=> (v \div 16) % 2 = 1)
         /\ (12 \in On(v) <=> (v \div 8) % 2 = 1) /\ (13 \in On(v) <=> (v \div 4) % 2 = 1)
         /\ (14 \in On(v) <=> (v \div 2) % 2 = 1) /\ (15 \in On(v) <=> (v \div 1) % 2 = 1)
<1>1. /\ 2^0 = 1 /\ 2^1 = 2 /\ 2^2 = 4 /\ 2^3 = 8 /\ 2^4 = 16 /\ 2^5 = 32 /\ 2^6 = 64
      /\ 2^7 = 128 /\ 2^8 = 256 /\ 2^9 = 512 /\ 2^10 = 1024 /\ 2^11 = 2048
      /\ 2^12 = 4096 /\ 2^13 = 8192 /\ 2^14 = 16384 /\ 2^15 = 32768
  OBVIOUS
<1>2. \A e \in 0..15 : e \in On(v) <=> (v \div 2^(15 - e)) % 2 = 1
  BY DEF On
<1>3. /\ 0 \in On(v) <=> (v \div 32768) % 2 = 1
      /\ 1 \in On(v) <=> (v \div 16384) % 2 = 1
      /\ 2 \in On(v) <=> (v \div 8192) % 2 = 1
      /\ 3 \in On(v) <=> (v \div 4096) % 2 = 1
  <2>1. 15 - 0 = 15 /\ 15 - 1 = 14 /\ 15 - 2 = 13 /\ 15 - 3 = 12
    OBVIOUS
  <2> QED BY <1>1, <1>2, <2>1
<1>4. /\ 4 \in On(v) <=> (v \div 2048) % 2 = 1
      /\ 5 \in On(v) <=> (v \div 1024) % 2 = 1
      /\ 6 \in On(v) <=> (v \div 512) % 2 = 1
      /\ 7 \in On(v) <=> (v \div 256) % 2 = 1
  <2>1. 15 - 4 = 11 /\ 15 - 5 = 10 /\ 15 - 6 = 9 /\ 15 - 7 = 8
    OBVIOUS
  <2> QED BY <1>1, <1>2, <2>1
<1>5. /\ 8 \in On(v) <=> (v \div 128) % 2 = 1
      /\ 9 \in On(v) <=> (v \div 64) % 2 = 1
      /\ 10 \in On(v) <=> (v \div 32) % 2 = 1
      /\ 11 \in On(v) <=> (v \div 16) % 2 = 1
  <2>1. 15 - 8 = 7 /\ 15 - 9 = 6 /\ 15 - 10 = 5 /\ 15 - 11 = 4
    OBVIOUS
  <2> QED BY <1>1, <1>2, <2>1
<1>6. /\ 12 \in On(v) <=> (v \div 8) % 2 = 1
      /\ 13 \in On(v) <=> (v \div 4) % 2 = 1
      /\ 14 \in On(v) <=> (v \div 2) % 2 = 1
      /\ 15 \in On(v) <=> (v \div 1) % 2 = 1
  <2>1. 15 - 12 = 3 /\ 15 - 13 = 2 /\ 15 - 14 = 1 /\ 15 - 15 = 0
    OBVIOUS
  <2> QED BY <1>1, <1>2, <2>1
<1>7. \A e \in 0..15 : e \in {0, 1, 2, 3, 4, 5, 6, 7, 8, 9, 10, 11, 12, 13, 14, 15}
  OBVIOUS
<1>8. \A e \in On(v) : e \in 0..15
  BY DEF On
<1> QED BY <1>3, <1>4, <1>5, <1>6, <1>7, <1>8

LEMMA Last4Bits ==
  /\ On(0) = {}
  /\ On(7200) = {3, 4, 5, 10}
  /\ On(14400) = {2, 3, 4, 9}
  /\ On(9312) = {2, 5, 9, 10}
  /\ On(28800) = {1, 2, 3, 8}
  /\ On(27808) = {1, 2, 4, 5, 8, 10}
  /\ On(18624) = {1, 4, 8, 9}
  /\ On(21728) = {1, 3, 5, 8, 9, 10}
  /\ On(57600) = {0, 1, 2, 7}
  /\ On(64800) = {0, 1, 2, 3, 4, 5, 7, 10}
  /\ On(55616) = {0, 1, 3, 4, 7, 9}
  /\ On(50528) = {0, 1, 5, 7, 9, 10}
  /\ On(37248) = {0, 3, 7, 8}
  /\ On(36256) = {0, 4, 5, 7, 8, 10}
  /\ On(43456) = {0, 2, 4, 7, 8, 9}
  /\ On(46560) = {0, 2, 3, 5, 7, 8, 9, 10}
<1>0. \A v \in Nat : \A e \in On(v) : e \in {0, 1, 2, 3, 4, 5, 6, 7, 8, 9, 10, 11, 12, 13, 14, 15}
  BY OnIs
<1>1. On(0) = {}
  <2>1. /\ 0 \notin On(0) /\ 1 \notin On(0) /\ 2 \notin On(0) /\ 3 \notin On(0)
        /\ 4 \notin On(0) /\ 5 \notin On(0) /\ 6 \notin On(0) /\ 7 \notin On(0)
        /\ 8 \notin On(0) /\ 9 \notin On(0) /\ 10 \notin On(0) /\ 11 \notin On(0)
        /\ 12 \notin On(0) /\ 13 \notin On(0) /\ 14 \notin On(0) /\ 15 \notin On(0)
    BY OnIs
  <2>2. \A e \in On(0) : e \in {0, 1, 2, 3, 4, 5, 6, 7, 8, 9, 10, 11, 12, 13, 14, 15}
    BY <1>0
  <2> QED BY ONLY <2>1, <2>2
<1>2. On(7200) = {3, 4, 5, 10}
  <2>1. /\ 0 \notin On(7200) /\ 1 \notin On(7200) /\ 2 \notin On(7200) /\ 3 \in On(7200)
        /\ 4 \in On(7200) /\ 5 \in On(7200) /\ 6 \notin On(7200) /\ 7 \notin On(7200)
        /\ 8 \notin On(7200) /\ 9 \notin On(7200) /\ 10 \in On(7200) /\ 11 \notin On(7200)
        /\ 12 \notin On(7200) /\ 13 \notin On(7200) /\ 14 \notin On(7200) /\ 15 \notin On(7200)
    BY OnIs
  <2>2. \A e \in On(7200) : e \in {0, 1, 2, 3, 4, 5, 6, 7, 8, 9, 10, 11, 12, 13, 14, 15}
    BY <1>0
  <2> QED BY ONLY <2>1, <2>2
<1>3. On(14400) = {2, 3, 4, 9}
  <2>1. /\ 0 \notin On(14400) /\ 1 \notin On(14400) /\ 2 \in On(14400) /\ 3 \in On(14400)
        /\ 4 \in On(14400) /\ 5 \notin On(14400) /\ 6 \notin On(14400) /\ 7 \notin On(14400)
        /\ 8 \notin On(14400) /\ 9 \in On(14400) /\ 10 \notin On(14400) /\ 11 \notin On(14400)
        /\ 12 \notin On(14400) /\ 13 \notin On(14400) /\ 14 \notin On(14400) /\ 15 \notin On(14400)
    BY OnIs
  <2>2. \A e \in On(14400) : e \in {0, 1, 2, 3, 4, 5, 6, 7, 8, 9, 10, 11, 12, 13, 14, 15}
    BY <1>0
  <2> QED BY ONLY <2>1, <2>2
<1>4. On(9312) = {2, 5, 9, 10}
  <2>1. /\ 0 \notin On(9312) /\ 1 \notin On(9312) /\ 2 \in On(9312) /\ 3 \notin On(9312)
        /\ 4 \notin On(9312) /\ 5 \in On(9312) /\ 6 \notin On(9312) /\ 7 \notin On(9312)
        /\ 8 \notin On(9312) /\ 9 \in On(9312) /\ 10 \in On(9312) /\ 11 \notin On(9312)
        /\ 12 \notin On(9312) /\ 13 \notin On(9312) /\ 14 \notin On(9312) /\ 15 \notin On(9312)
    BY OnIs
  <2>2. \A e \in On(9312) : e \in {0, 1, 2, 3, 4, 5, 6, 7, 8, 9, 10, 11, 12, 13, 14, 15}
    BY <1>0
  <2> QED BY ONLY <2>1, <2>2
<1>5. On(28800) = {1, 2, 3, 8}
  <2>1. /\ 0 \notin On(28800) /\ 1 \in On(28800) /\ 2 \in On(28800) /\ 3 \in On(28800)
        /\ 4 \notin On(28800) /\ 5 \notin On(28800) /\ 6 \notin On(28800) /\ 7 \notin On(28800)
        /\ 8 \in On(28800) /\ 9 \notin On(28800) /\ 10 \notin On(28800) /\ 11 \notin On(28800)
        /\ 12 \notin On(28800) /\ 13 \notin On(28800) /\ 14 \notin On(28800) /\ 15 \notin On(28800)
    BY OnIs
  <2>2. \A e \in On(28800) : e \in {0, 1, 2, 3, 4, 5, 6, 7, 8, 9, 10, 11, 12, 13, 14, 15}
    BY <1>0
  <2> QED BY ONLY <2>1, <2>2
<1>6. On(27808) = {1, 2, 4, 5, 8, 10}
  <2>1. /\ 0 \notin On(27808) /\ 1 \in On(27808) /\ 2 \in On(27808) /\ 3 \notin On(27808)
        /\ 4 \in On(27808) /\ 5 \in On(27808) /\ 6 \notin On(27808) /\ 7 \notin On(27808)
        /\ 8 \in On(27808) /\ 9 \notin On(27808) /\ 10 \in On(27808) /\ 11 \notin On(27808)
        /\ 12 \notin On(27808) /\ 13 \notin On(27808) /\ 14 \notin On(27808) /\ 15 \notin On(27808)
    BY OnIs
  <2>2. \A e \in On(27808) : e \in {0, 1, 2, 3, 4, 5, 6, 7, 8, 9, 10, 11, 12, 13, 14, 15}
    BY <1>0
  <2> QED BY ONLY <2>1, <2>2
<1>7. On(18624) = {1, 4, 8, 9}
  <2>1. /\ 0 \notin On(18624) /\ 1 \in On(18624) /\ 2 \notin On(18624) /\ 3 \notin On(18624)
        /\ 4 \in On(18624) /\ 5 \notin On(18624) /\ 6 \notin On(18624) /\ 7 \notin On(18624)
        /\ 8 \in On(18624) /\ 9 \in On(18624) /\ 10 \notin On(18624) /\ 11 \notin On(18624)
        /\ 12 \notin On(18624) /\ 13 \notin On(18624) /\ 14 \notin On(18624) /\ 15 \notin On(18624)
    BY OnIs
  <2>2. \A e \in On(18624) : e \in {0, 1, 2, 3, 4, 5, 6, 7, 8, 9, 10, 11, 12, 13, 14, 15}
    BY <1>0
  <2> QED BY ONLY <2>1, <2>2
<1>8. On(21728) = {1, 3, 5, 8, 9, 10}
  <2>1. /\ 0 \notin On(21728) /\ 1 \in On(21728) /\ 2 \notin On(21728) /\ 3 \in On(21728)
        /\ 4 \notin On(21728) /\ 5 \in On(21728) /\ 6 \notin On(21728) /\ 7 \notin On(21728)
        /\ 8 \in On(21728) /\ 9 \in On(21728) /\ 10 \in On(21728) /\ 11 \notin On(21728)
        /\ 12 \notin On(21728) /\ 13 \notin On(21728) /\ 14 \notin On(21728) /\ 15 \notin On(21728)
    BY OnIs
  <2>2. \A e \in On(21728) : e \in {0, 1, 2, 3, 4, 5, 6, 7, 8, 9, 10, 11, 12, 13, 14, 15}
    BY <1>0
  <2> QED BY ONLY <2>1, <2>2
<1>9. On(57600) = {0, 1, 2, 7}
  <2>1. /\ 0 \in On(57600) /\ 1 \in On(57600) /\ 2 \in On(57600) /\ 3 \notin On(57600)
        /\ 4 \notin On(57600) /\ 5 \notin On(57600) /\ 6 \notin On(57600) /\ 7 \in On(57600)
        /\ 8 \notin On(57600) /\ 9 \notin On(57600) /\ 10 \notin On(57600) /\ 11 \notin On(57600)
        /\ 12 \notin On(57600) /\ 13 \notin On(57600) /\ 14 \notin On(57600) /\ 15 \notin On(57600)
    BY OnIs
  <2>2. \A e \in On(57600) : e \in {0, 1, 2, 3, 4, 5, 6, 7, 8, 9, 10, 11, 12, 13, 14, 15}
    BY <1>0
  <2> QED BY ONLY <2>1, <2>2
<1>10. On(64800) = {0, 1, 2, 3, 4, 5, 7, 10}
  <2>1. /\ 0 \in On(64800) /\ 1 \in On(64800) /\ 2 \in On(64800) /\ 3 \in On(64800)
        /\ 4 \in On(64800) /\ 5 \in On(64800) /\ 6 \notin On(64800) /\ 7 \in On(64800)
        /\ 8 \notin On(64800) /\ 9 \notin On(64800) /\ 10 \in On(64800) /\ 11 \notin On(64800)
        /\ 12 \notin On(64800) /\ 13 \notin On(64800) /\ 14 \notin On(64800) /\ 15 \notin On(64800)
    BY OnIs
  <2>2. \A e \in On(64800) : e \in {0, 1, 2, 3, 4, 5, 6, 7, 8, 9, 10, 11, 12, 13, 14, 15}
    BY <1>0
  <2> QED BY ONLY <2>1, <2>2
<1>11. On(55616) = {0, 1, 3, 4, 7, 9}
  <2>1. /\ 0 \in On(55616) /\ 1 \in On(55616) /\ 2 \notin On(55616) /\ 3 \in On(55616)
        /\ 4 \in On(55616) /\ 5 \notin On(55616) /\ 6 \notin On(55616) /\ 7 \in On(55616)
        /\ 8 \notin On(55616) /\ 9 \in On(55616) /\ 10 \notin On(55616) /\ 11 \notin On(55616)
        /\ 12 \notin On(55616) /\ 13 \notin On(55616) /\ 14 \notin On(55616) /\ 15 \notin On(55616)
    BY OnIs
  <2>2. \A e \in On(55616) : e \in {0, 1, 2, 3, 4, 5, 6, 7, 8, 9, 10, 11, 12, 13, 14, 15}
    BY <1>0
  <2> QED BY ONLY <2>1, <2>2
<1>12. On(50528) = {0, 1, 5, 7, 9, 10}
  <2>1. /\ 0 \in On(50528) /\ 1 \in On(50528) /\ 2 \notin On(50528) /\ 3 \notin On(50528)
        /\ 4 \notin On(50528) /\ 5 \in On(50528) /\ 6 \notin On(50528) /\ 7 \in On(50528)
        /\ 8 \notin On(50528) /\ 9 \in On(50528) /\ 10 \in On(50528) /\ 11 \notin On(50528)
        /\ 12 \notin On(50528) /\ 13 \notin On(50528) /\ 14 \notin On(50528) /\ 15 \notin On(50528)
    BY OnIs
  <2>2. \A e \in On(50528) : e \in {0, 1, 2, 3, 4, 5, 6, 7, 8, 9, 10, 11, 12, 13, 14, 15}
    BY <1>0
  <2> QED BY ONLY <2>1, <2>2
<1>13. On(37248) = {0, 3, 7, 8}
  <2>1. /\ 0 \in On(37248) /\ 1 \notin On(37248) /\ 2 \notin On(37248) /\ 3 \in On(37248)
        /\ 4 \notin On(37248) /\ 5 \notin On(37248) /\ 6 \notin On(37248) /\ 7 \in On(37248)
        /\ 8 \in On(37248) /\ 9 \notin On(37248) /\ 10 \notin On(37248) /\ 11 \notin On(37248)
        /\ 12 \notin On(37248) /\ 13 \notin On(37248) /\ 14 \notin On(37248) /\ 15 \notin On(37248)
    BY OnIs
  <2>2. \A e \in On(37248) : e \in {0, 1, 2, 3, 4, 5, 6, 7, 8, 9, 10, 11, 12, 13, 14, 15}
    BY <1>0
  <2> QED BY ONLY <2>1, <2>2
<1>14. On(36256) = {0, 4, 5, 7, 8, 10}
  <2>1. /\ 0 \in On(36256) /\ 1 \notin On(36256) /\ 2 \notin On(36256) /\ 3 \notin On(36256)
        /\ 4 \in On(36256) /\ 5 \in On(36256) /\ 6 \notin On(36256) /\ 7 \in On(36256)
        /\ 8 \in On(36256) /\ 9 \notin On(36256) /\ 10 \in On(36256) /\ 11 \notin On(36256)
        /\ 12 \notin On(36256) /\ 13 \notin On(36256) /\ 14 \notin On(36256) /\ 15 \notin On(36256)
    BY OnIs
  <2>2. \A e \in On(36256) : e \in {0, 1, 2, 3, 4, 5, 6, 7, 8, 9, 10, 11, 12, 13, 14, 15}
    BY <1>0
  <2> QED BY ONLY <2>1, <2>2
<1>15. On(43456) = {0, 2, 4, 7, 8, 9}
  <2>1. /\ 0 \in On(43456) /\ 1 \notin On(43456) /\ 2 \in On(43456) /\ 3 \notin On(43456)
        /\ 4 \in On(43456) /\ 5 \notin On(43456) /\ 6 \notin On(43456) /\ 7 \in On(43456)
        /\ 8 \in On(43456) /\ 9 \in On(43456) /\ 10 \notin On(43456) /\ 11 \notin On(43456)
        /\ 12 \notin On(43456) /\ 13 \notin On(43456) /\ 14 \notin On(43456) /\ 15 \notin On(43456)
    BY OnIs
  <2>2. \A e \in On(43456) : e \in {0, 1, 2, 3, 4, 5, 6, 7, 8, 9, 10, 11, 12, 13, 14, 15}
    BY <1>0
  <2> QED BY ONLY <2>1, <2>2
<1>16. On(46560) = {0, 2, 3, 5, 7, 8, 9, 10}
  <2>1. /\ 0 \in On(46560) /\ 1 \notin On(46560) /\ 2 \in On(46560) /\ 3 \in On(46560)
        /\ 4 \notin On(46560) /\ 5 \in On(46560) /\ 6 \notin On(46560) /\ 7 \in On(46560)
        /\ 8 \in On(46560) /\ 9 \in On(46560) /\ 10 \in On(46560) /\ 11 \notin On(46560)
        /\ 12 \notin On(46560) /\ 13 \notin On(46560) /\ 14 \notin On(46560) /\ 15 \notin On(46560)
    BY OnIs
  <2>2. \A e \in On(46560) : e \in {0, 1, 2, 3, 4, 5, 6, 7, 8, 9, 10, 11, 12, 13, 14, 15}
    BY <1>0
  <2> QED BY ONLY <2>1, <2>2
<1> QED BY <1>1, <1>2, <1>3, <1>4, <1>5, <1>6, <1>7, <1>8, <1>9, <1>10, <1>11, <1>12, <1>13, <1>14, <1>15, <1>16

LEMMA Last4Is ==
  /\ Last4[0] = {}                        /\ Last4[1] = {3, 4, 5, 10}
  /\ Last4[2] = {2, 3, 4, 9}              /\ Last4[3] = {2, 5, 9, 10}
  /\ Last4[4] = {1, 2, 3, 8}              /\ Last4[5] = {1, 2, 4, 5, 8, 10}
  /\ Last4[6] = {1, 4, 8, 9}              /\ Last4[7] = {1, 3, 5, 8, 9, 10}
  /\ Last4[8] = {0, 1, 2, 7}              /\ Last4[9] = {0, 1, 2, 3, 4, 5, 7, 10}
  /\ Last4[10] = {0, 1, 3, 4, 7, 9}       /\ Last4[11] = {0, 1, 5, 7, 9, 10}
  /\ Last4[12] = {0, 3, 7, 8}             /\ Last4[13] = {0, 4, 5, 7, 8, 10}
  /\ Last4[14] = {0, 2, 4, 7, 8, 9}       /\ Last4[15] = {0, 2, 3, 5, 7, 8, 9, 10}
<1>1. \A n \in 0..15 : Last4[n] = On(last4[n + 1])
  BY DEF Last4, On
<1>2. /\ last4[1] = 0 /\ last4[2] = 7200 /\ last4[3] = 14400 /\ last4[4] = 9312
      /\ last4[5] = 28800 /\ last4[6] = 27808 /\ last4[7] = 18624 /\ last4[8] = 21728
      /\ last4[9] = 57600 /\ last4[10] = 64800 /\ last4[11] = 55616 /\ last4[12] = 50528
      /\ last4[13] = 37248 /\ last4[14] = 36256 /\ last4[15] = 43456 /\ last4[16] = 46560
  BY DEF last4
<1>3. /\ Last4[0] = On(last4[1]) /\ Last4[1] = On(last4[2]) /\ Last4[2] = On(last4[3])
      /\ Last4[3] = On(last4[4]) /\ Last4[4] = On(last4[5]) /\ Last4[5] = On(last4[6])
      /\ Last4[6] = On(last4[7]) /\ Last4[7] = On(last4[8]) /\ Last4[8] = On(last4[9])
      /\ Last4[9] = On(last4[10]) /\ Last4[10] = On(last4[11]) /\ Last4[11] = On(last4[12])
      /\ Last4[12] = On(last4[13]) /\ Last4[13] = On(last4[14]) /\ Last4[14] = On(last4[15])
      /\ Last4[15] = On(last4[16])
  BY <1>1
<1> QED BY ONLY <1>2, <1>3, Last4Bits

LEMMA InTimesX ==
  ASSUME NEW z \in Elements, NEW e
  PROVE  e \in TimesX(z) <=> /\ e \in 0..127
                             /\ ~((e - 1 \in z) <=> (127 \in z /\ e \in Poly))
<1>1. \A f \in z : f \in 0..127
  BY DEF Elements
<1>2. e \in ShiftRight(z, 1) <=> e \in 0..127 /\ e - 1 \in z
  <2>1. ASSUME e \in ShiftRight(z, 1) PROVE e \in 0..127 /\ e - 1 \in z
    <3>1. PICK f \in z : f + 1 < 128 /\ e = f + 1
      BY <2>1 DEF ShiftRight
    <3>2. e - 1 = f /\ e \in 0..127
      BY <1>1, <3>1
    <3> QED BY <3>2
  <2>2. ASSUME e \in 0..127, e - 1 \in z PROVE e \in ShiftRight(z, 1)
    <3>1. (e - 1) + 1 < 128 /\ e = (e - 1) + 1
      BY <2>2
    <3> QED BY <2>2, <3>1 DEF ShiftRight
  <2> QED BY <2>1, <2>2
<1>3. \A f \in Poly : f \in 0..127
  BY DEF Poly
<1> QED BY <1>2, <1>3, InXor DEF TimesX

LEMMA TimesXIsElement == ASSUME NEW z \in Elements PROVE TimesX(z) \in Elements
BY InTimesX DEF Elements

\* Four times x: what is shifted, and what comes back of four exponents.
Refilled(z, e) ==
  ~((124 \in z /\ e \in {0, 1, 2, 7}) <=> ~((125 \in z /\ e \in {1, 2, 3, 8}) <=>
     ~((126 \in z /\ e \in {2, 3, 4, 9}) <=> (127 \in z /\ e \in {3, 4, 5, 10}))))

LEMMA FourTimesX ==
  ASSUME NEW z \in Elements, NEW e
  PROVE  e \in TimesX(TimesX(TimesX(TimesX(z)))) <=>
           e \in 0..127 /\ ~((e - 4 \in z) <=> Refilled(z, e))
<1> DEFINE z1 == TimesX(z)  z2 == TimesX(z1)  z3 == TimesX(z2)  z4 == TimesX(z3)
<1>1. z1 \in Elements /\ z2 \in Elements /\ z3 \in Elements
  BY TimesXIsElement
<1>2. /\ \A f : f \in z1 <=> f \in 0..127 /\ ~((f - 1 \in z)  <=> (127 \in z  /\ f \in Poly))
      /\ \A f : f \in z2 <=> f \in 0..127 /\ ~((f - 1 \in z1) <=> (127 \in z1 /\ f \in Poly))
      /\ \A f : f \in z3 <=> f \in 0..127 /\ ~((f - 1 \in z2) <=> (127 \in z2 /\ f \in Poly))
      /\ \A f : f \in z4 <=> f \in 0..127 /\ ~((f - 1 \in z3) <=> (127 \in z3 /\ f \in Poly))
  BY <1>1, InTimesX
<1> HIDE DEF z1, z2, z3, z4
<1>3. \A f : f \in Poly <=> f \in {0, 1, 2, 7}
  BY DEF Poly
<1>4. (127 \in z1 <=> 126 \in z) /\ (126 \in z1 <=> 125 \in z) /\ (125 \in z1 <=> 124 \in z)
  <2>1. 127 - 1 = 126 /\ 126 - 1 = 125 /\ 125 - 1 = 124
    OBVIOUS
  <2> QED BY <1>2, <1>3, <2>1
<1>5. (127 \in z2 <=> 126 \in z1) /\ (126 \in z2 <=> 125 \in z1)
  <2>1. 127 - 1 = 126 /\ 126 - 1 = 125
    OBVIOUS
  <2> QED BY <1>2, <1>3, <2>1
<1>6. 127 \in z3 <=> 126 \in z2
  <2>1. 127 - 1 = 126
    OBVIOUS
  <2> QED BY <1>2, <1>3, <2>1
<1>8. \A f \in z : f \in 0..127
  BY DEF Elements
<1>9. ASSUME e \in 0..127
      PROVE  e \in z4 <=> ~((e - 4 \in z) <=> Refilled(z, e))
  <2>1. /\ e \in z4 <=> ~((e - 1 \in z3) <=> (124 \in z /\ e \in {0, 1, 2, 7}))
        /\ e - 1 \in z3 <=> e - 1 >= 0 /\ ~((e - 2 \in z2) <=> (125 \in z /\ e - 1 \in {0, 1, 2, 7}))
        /\ e - 2 \in z2 <=> e - 2 >= 0 /\ ~((e - 3 \in z1) <=> (126 \in z /\ e - 2 \in {0, 1, 2, 7}))
        /\ e - 3 \in z1 <=> e - 3 >= 0 /\ ~((e - 4 \in z) <=> (127 \in z /\ e - 3 \in {0, 1, 2, 7}))
    <3>1. (e - 1) - 1 = e - 2 /\ (e - 2) - 1 = e - 3 /\ (e - 3) - 1 = e - 4
      BY <1>9
    <3>2. /\ e - 1 \in 0..127 <=> e - 1 >= 0
          /\ e - 2 \in 0..127 <=> e - 2 >= 0
          /\ e - 3 \in 0..127 <=> e - 3 >= 0
      BY <1>9
    <3> QED BY <1>2, <1>3, <1>4, <1>5, <1>6, <1>9, <3>1, <3>2
  <2>2. /\ e - 1 \in {0, 1, 2, 7} <=> e \in {1, 2, 3, 8}
        /\ e - 2 \in {0, 1, 2, 7} <=> e \in {2, 3, 4, 9}
        /\ e - 3 \in {0, 1, 2, 7} <=> e \in {3, 4, 5, 10}
    BY <1>9
  <2>3. /\ ~(e - 3 >= 0) => e - 4 \notin z /\ e \notin {3, 4, 5, 10}
        /\ ~(e - 2 >= 0) => e - 4 \notin z /\ e \notin {2, 3, 4, 9} /\ e \notin {3, 4, 5, 10}
        /\ ~(e - 1 >= 0) => e - 4 \notin z /\ e \notin {1, 2, 3, 8} /\ e \notin {2, 3, 4, 9}
                            /\ e \notin {3, 4, 5, 10}
    BY <1>8, <1>9
  <2> QED BY ONLY <2>1, <2>2, <2>3 DEF Refilled
<1>10. e \in z4 => e \in 0..127
  BY <1>2
<1> QED BY <1>9, <1>10 DEF z4, z3, z2, z1

\* Shift4, with its table, is four times x.
LEMMA Shift4Is ==
  ASSUME NEW z \in Elements
  PROVE  Shift4(z) = TimesX(TimesX(TimesX(TimesX(z))))
<1> SUFFICES ASSUME NEW e PROVE e \in Shift4(z) <=> e \in 0..127 /\ ~((e - 4 \in z) <=> Refilled(z, e))
  BY FourTimesX
<1>1. \A f \in z : f \in 0..127
  BY DEF Elements
<1>2. e \in ShiftRight(z, 4) <=> e \in 0..127 /\ e - 4 \in z
  <2>1. ASSUME e \in ShiftRight(z, 4) PROVE e \in 0..127 /\ e - 4 \in z
    <3>1. PICK f \in z : f + 4 < 128 /\ e = f + 4
      BY <2>1 DEF ShiftRight
    <3>2. e - 4 = f /\ e \in 0..127
      BY <1>1, <3>1
    <3> QED BY <3>2
  <2>2. ASSUME e \in 0..127, e - 4 \in z PROVE e \in ShiftRight(z, 4)
    <3>1. (e - 4) + 4 < 128 /\ e = (e - 4) + 4
      BY <2>2
    <3> QED BY <2>2, <3>1 DEF ShiftRight
  <2> QED BY <2>1, <2>2
<1>3. PICK n \in 0..15 : /\ n = Rem(z)
                         /\ n = (IF 127 \in z THEN 1 ELSE 0) + (IF 126 \in z THEN 2 ELSE 0)
                                + (IF 125 \in z THEN 4 ELSE 0) + (IF 124 \in z THEN 8 ELSE 0)
  BY DEF Rem, Bit
<1>4. e \in Last4[n] <=> Refilled(z, e)
  BY <1>3, Last4Is DEF Refilled
<1>5. Refilled(z, e) => e \in 0..127
  BY DEF Refilled
<1> QED BY <1>2, <1>3, <1>4, <1>5, InXor DEF Shift4

(***************************************************************************)
(* Horner's rule: the hash four bits at a time                             *)
(***************************************************************************)
\* The product of two disjoint sums of powers.
LEMMA MulAdds ==
  ASSUME NEW a \in Elements, NEW d \in Elements, a \cap d = {}, NEW b
  PROVE  Mul(a \cup d, b) = Mul(a, b) (+) Mul(d, b)
<1> DEFINE F(n) == {e \in d : e < n}
           S == {n \in 0..128 : Mul(a \cup F(n), b) = Mul(a, b) (+) Mul(F(n), b)}
<1>0. \A e \in d : e \in 0..127 /\ ~(e < 0) /\ e < 128 /\ \A n \in 0..127 : e < n + 1 <=> e < n \/ e = n
  <2>1. \A e \in d : e \in 0..127
    BY DEF Elements
  <2> HIDE DEF F, S
  <2> QED BY <2>1
<1>1. 0 \in S
  <2>1. F(0) = {}
    BY <1>0
  <2>2. Mul({}, b) = {}
    BY MulNone
  <2>3. Mul(a, b) (+) {} = Mul(a, b) /\ a \cup {} = a
    BY DEF (+)
  <2>4. 0 \in 0..128
    OBVIOUS
  <2>5. Mul(a \cup F(0), b) = Mul(a, b) (+) Mul(F(0), b)
    <3> HIDE DEF F
    <3> QED BY ONLY <2>1, <2>2, <2>3
  <2> HIDE DEF F
  <2> QED BY <2>4, <2>5
<1>2. ASSUME NEW n \in 0..(128 - 1), n \in S PROVE n + 1 \in S
  <2>0. n + 1 \in 0..128 /\ n \in 0..127 /\ F(n) \in Elements /\ a \cup F(n) \in Elements
    <3>1. F(n) \subseteq d
      OBVIOUS
    <3>2. n + 1 \in 0..128 /\ n \in 0..127
      OBVIOUS
    <3> HIDE DEF F, S
    <3> QED BY ONLY <3>1, <3>2, a \in Elements, d \in Elements DEF Elements
  <2>1. CASE n \in d
    <3>1. F(n + 1) = F(n) \cup {n} /\ n \notin F(n) /\ n \notin a \cup F(n)
      <4>1. \A e \in d : e < n + 1 <=> e < n \/ e = n
        BY <1>0, <2>0
      <4>2. ~(n < n) /\ n < n + 1
        BY <2>0
      <4> HIDE DEF S
      <4> QED BY ONLY <2>1, <4>1, <4>2, a \cap d = {}
    <3>2. Mul(F(n) \cup {n}, b) = Mul(F(n), b) (+) Mul({n}, b)
      BY <2>0, <3>1, MulMore
    <3>3. Mul((a \cup F(n)) \cup {n}, b) = Mul(a \cup F(n), b) (+) Mul({n}, b)
      BY <2>0, <3>1, MulMore
    <3>4. (a \cup F(n)) \cup {n} = a \cup (F(n) \cup {n})
      OBVIOUS
    <3>5. Mul(a \cup F(n), b) = Mul(a, b) (+) Mul(F(n), b)
      BY <1>2
    <3>6. Mul(a \cup F(n + 1), b) = Mul(a, b) (+) Mul(F(n + 1), b)
      <4> HIDE DEF F
      <4> QED BY ONLY <3>1, <3>2, <3>3, <3>4, <3>5, XorInAnyOrder
    <3> QED BY <2>0, <3>6
  <2>2. CASE n \notin d
    <3>1. F(n + 1) = F(n)
      <4>1. \A e \in d : e < n + 1 <=> e < n \/ e = n
        BY <1>0, <2>0
      <4> HIDE DEF S
      <4> QED BY ONLY <2>2, <4>1
    <3> QED BY <1>2, <2>0, <3>1
  <2> QED BY <2>1, <2>2
<1>3. 128 \in S
  <2> HIDE DEF S
  <2>1. \A n \in 0..128 : n \in S
    BY <1>1, <1>2, UpTo
  <2> QED BY <2>1
<1>4. F(128) = d
  BY <1>0
<1> QED BY <1>3, <1>4

\* A nibble's bits are four of the byte's.
LEMMA NibbleBits ==
  ASSUME NEW x \in Block, NEW n \in 0..31
  PROVE  /\ Nibble(x, n) \in 0..15
         /\ \A q \in 0..3 : q \in NumByte(Nibble(x, n)) <=> q + 4 * (n % 2) \in x[15 - (n \div 2)]
<1> DEFINE s == x[15 - (n \div 2)]
           l == Bit(0, s) + 2 * Bit(1, s) + 4 * Bit(2, s) + 8 * Bit(3, s)
           u == Bit(4, s) + 2 * Bit(5, s) + 4 * Bit(6, s) + 8 * Bit(7, s)
<1>1. \A q : Bit(q, s) \in {0, 1} /\ (q \in s <=> Bit(q, s) = 1)
  BY DEF Bit
<1>2. PICK b0, b1, b2, b3, b4, b5, b6, b7 \in {0, 1} :
        /\ b0 = Bit(0, s) /\ b1 = Bit(1, s) /\ b2 = Bit(2, s) /\ b3 = Bit(3, s)
        /\ b4 = Bit(4, s) /\ b5 = Bit(5, s) /\ b6 = Bit(6, s) /\ b7 = Bit(7, s)
  BY <1>1
<1>3. Value(s) = l + 16 * u /\ l \in 0..15 /\ u \in 0..15
  <2> HIDE DEF s
  <2>1. l = b0 + 2 * b1 + 4 * b2 + 8 * b3 /\ u = b4 + 2 * b5 + 4 * b6 + 8 * b7
    BY <1>2
  <2>2. Value(s) = b0 + 2 * b1 + 4 * b2 + 8 * b3 + 16 * b4 + 32 * b5 + 64 * b6 + 128 * b7
    BY <1>2 DEF Value
  <2> HIDE DEF l, u
  <2> QED BY <2>1, <2>2
<1>4. Value(s) % 16 = l /\ Value(s) \div 16 = u
  <2> HIDE DEF l, u
  <2> QED BY <1>3
<1>5. ASSUME NEW a \in {0, 1}, NEW b \in {0, 1}, NEW c1 \in {0, 1}, NEW d \in {0, 1},
             NEW v, v = a + 2 * b + 4 * c1 + 8 * d
      PROVE  \A q \in 0..3 : q \in NumByte(v) <=> (CASE q = 0 -> a [] q = 1 -> b [] q = 2 -> c1 [] q = 3 -> d) = 1
  <2>1. /\ v \div 1 % 2 = a /\ v \div 2 % 2 = b /\ v \div 4 % 2 = c1 /\ v \div 8 % 2 = d
    BY <1>5
  <2>2. 2^0 = 1 /\ 2^1 = 2 /\ 2^2 = 4 /\ 2^3 = 8
    OBVIOUS
  <2>3. \A q \in 0..3 : q \in Bits
    BY DEF Bits
  <2>4. \A q \in 0..3 : q \in NumByte(v) <=> (v \div 2^q) % 2 = 1
    BY <2>3 DEF NumByte
  <2>5. \A q \in 0..3 : q = 0 \/ q = 1 \/ q = 2 \/ q = 3
    OBVIOUS
  <2> QED BY <2>1, <2>2, <2>4, <2>5
<1>6. CASE n % 2 = 0
  <2>1. Nibble(x, n) = l
    BY <1>4, <1>6 DEF Nibble
  <2>2. l = b0 + 2 * b1 + 4 * b2 + 8 * b3
    BY <1>2
  <2>3. \A q \in 0..3 : q \in NumByte(l) <=> (CASE q = 0 -> b0 [] q = 1 -> b1 [] q = 2 -> b2 [] q = 3 -> b3) = 1
    <3> HIDE DEF l
    <3> QED BY <1>5, <2>2
  <2>4. \A q \in 0..3 : (CASE q = 0 -> b0 [] q = 1 -> b1 [] q = 2 -> b2 [] q = 3 -> b3) = 1 <=> q + 4 * 0 \in s
    <3>1. \A q \in 0..3 : q = 0 \/ q = 1 \/ q = 2 \/ q = 3
      OBVIOUS
    <3>2. 0 + 4 * 0 = 0 /\ 1 + 4 * 0 = 1 /\ 2 + 4 * 0 = 2 /\ 3 + 4 * 0 = 3
      OBVIOUS
    <3> HIDE DEF s
    <3> QED BY <1>1, <1>2, <3>1, <3>2
  <2> HIDE DEF l, s
  <2>5. \A q \in 0..3 : q \in NumByte(Nibble(x, n)) <=> q + 4 * 0 \in s
    BY <2>1, <2>3, <2>4
  <2> QED BY <1>3, <1>6, <2>1, <2>5 DEF s
<1>7. CASE n % 2 # 0
  <2>0. n % 2 = 1
    BY <1>7
  <2>1. Nibble(x, n) = u
    BY <1>4, <1>7 DEF Nibble
  <2>2. u = b4 + 2 * b5 + 4 * b6 + 8 * b7
    BY <1>2
  <2>3. \A q \in 0..3 : q \in NumByte(u) <=> (CASE q = 0 -> b4 [] q = 1 -> b5 [] q = 2 -> b6 [] q = 3 -> b7) = 1
    <3> HIDE DEF u
    <3> QED BY <1>5, <2>2
  <2>4. \A q \in 0..3 : (CASE q = 0 -> b4 [] q = 1 -> b5 [] q = 2 -> b6 [] q = 3 -> b7) = 1 <=> q + 4 * 1 \in s
    <3>1. \A q \in 0..3 : q = 0 \/ q = 1 \/ q = 2 \/ q = 3
      OBVIOUS
    <3>2. 0 + 4 * 1 = 4 /\ 1 + 4 * 1 = 5 /\ 2 + 4 * 1 = 6 /\ 3 + 4 * 1 = 7
      OBVIOUS
    <3> HIDE DEF s
    <3> QED BY <1>1, <1>2, <3>1, <3>2
  <2> HIDE DEF u, s
  <2>5. \A q \in 0..3 : q \in NumByte(Nibble(x, n)) <=> q + 4 * 1 \in s
    BY <2>1, <2>3, <2>4
  <2> QED BY <1>3, <2>0, <2>1, <2>5 DEF s
<1> QED BY <1>6, <1>7

\* The terms of x that the first n + 1 steps have taken, and those of the n-th.
TakenIn(x, n) == {f \in 0..127 : f + 124 - 4 * n \in Element(x)}
New4(x, n)  == {r \in 0..3 : 124 - 4 * n + r \in Element(x)}

LEMMA NewBits ==
  ASSUME NEW x \in Block, NEW n \in 0..31
  PROVE  {3 - q : q \in {d \in 0..3 : d \in NumByte(Nibble(x, n))}} = New4(x, n)
<1>1. \A q \in 0..3 : q \in NumByte(Nibble(x, n)) <=> 127 - 4 * n - q \in Element(x)
  <2> TAKE q \in 0..3
  <2> DEFINE e == 127 - 4 * n - q
  <2>1. e \in 0..127
    OBVIOUS
  <2>2. e \div 8 = 15 - (n \div 2) /\ 7 - (e % 8) = q + 4 * (n % 2)
    <3>1. PICK k \in 0..15, t \in {0, 1} : n = 2 * k + t /\ k = n \div 2 /\ t = n % 2
      OBVIOUS
    <3>2. e = 8 * (15 - k) + (7 - 4 * t - q) /\ 7 - 4 * t - q \in 0..7
      BY <3>1
    <3>3. e \div 8 = 15 - k /\ e % 8 = 7 - 4 * t - q
      <4> DEFINE g == 15 - k
                 r == 7 - 4 * t - q
      <4>1. g \in Nat /\ r \in 0..7 /\ e = 8 * g + r
        BY <3>1, <3>2
      <4> HIDE DEF e, g, r
      <4>2. e \div 8 = g /\ e % 8 = r
        BY <4>1
      <4> QED BY <4>2 DEF g, r
    <3> HIDE DEF e
    <3> QED BY <3>1, <3>3
  <2>3. e \in Element(x) <=> q + 4 * (n % 2) \in x[15 - (n \div 2)]
    <3> HIDE DEF e
    <3> QED BY <2>1, <2>2 DEF Element
  <2> QED BY <2>3, NibbleBits
<1>2. \A q \in 0..3 : 3 - q \in 0..3 /\ 3 - (3 - q) = q /\ 124 - 4 * n + (3 - q) = 127 - 4 * n - q
  OBVIOUS
<1> QED BY <1>1, <1>2 DEF New4

\* A step's bits come behind those before, which go up by four.
LEMMA TakenMore ==
  ASSUME NEW x, NEW n \in 1..31
  PROVE  /\ TakenIn(x, n) = Up(Up(Up(Up(TakenIn(x, n - 1))))) \cup New4(x, n)
         /\ Up(Up(Up(Up(TakenIn(x, n - 1))))) \cap New4(x, n) = {}
<1> DEFINE a == TakenIn(x, n - 1)
<1>1. \A e \in Element(x) : e \in 0..127
  BY DEF Element
<1>2. a \in SUBSET Nat /\ Up(a) \in SUBSET Nat /\ Up(Up(a)) \in SUBSET Nat /\ Up(Up(Up(a))) \in SUBSET Nat
  <2>1. a \in SUBSET Nat
    BY DEF TakenIn
  <2> HIDE DEF a
  <2> QED BY <2>1, UpIsNat
<1>3. \A f : f \in Up(Up(Up(Up(a)))) <=> f \in Nat /\ f >= 4 /\ f - 4 \in a
  <2>1. \A f : /\ f \in Up(Up(Up(Up(a)))) <=> f \in Nat /\ f >= 1 /\ f - 1 \in Up(Up(Up(a)))
               /\ f \in Up(Up(Up(a))) <=> f \in Nat /\ f >= 1 /\ f - 1 \in Up(Up(a))
               /\ f \in Up(Up(a)) <=> f \in Nat /\ f >= 1 /\ f - 1 \in Up(a)
               /\ f \in Up(a) <=> f \in Nat /\ f >= 1 /\ f - 1 \in a
    <3> HIDE DEF a
    <3> QED BY <1>2, InUp
  <2>2. \A f \in Nat : (f - 1) - 1 = f - 2 /\ (f - 2) - 1 = f - 3 /\ (f - 3) - 1 = f - 4
    OBVIOUS
  <2> HIDE DEF a
  <2>3. \A f \in Nat : f >= 4 => f - 1 \in Nat /\ f - 2 \in Nat /\ f - 3 \in Nat /\ f - 1 >= 1 /\ f - 2 >= 1 /\ f - 3 >= 1
    OBVIOUS
  <2> TAKE f
  <2>4. ASSUME f \in Nat, f >= 4 PROVE f \in Up(Up(Up(Up(a)))) <=> f - 4 \in a
    <3>1. /\ f >= 1 /\ f - 1 \in Nat /\ f - 1 >= 1 /\ f - 2 \in Nat /\ f - 2 >= 1 /\ f - 3 \in Nat /\ f - 3 >= 1
      BY <2>4
    <3>2. (f - 1) - 1 = f - 2 /\ (f - 2) - 1 = f - 3 /\ (f - 3) - 1 = f - 4
      BY <2>2, <2>4
    <3>3. f \in Up(Up(Up(Up(a)))) <=> f - 1 \in Up(Up(Up(a)))
      BY <2>1, <2>4, <3>1
    <3>4. f - 1 \in Up(Up(Up(a))) <=> f - 2 \in Up(Up(a))
      BY <2>1, <3>1, <3>2
    <3>5. f - 2 \in Up(Up(a)) <=> f - 3 \in Up(a)
      BY <2>1, <3>1, <3>2
    <3>6. f - 3 \in Up(a) <=> f - 4 \in a
      BY <2>1, <3>1, <3>2
    <3> QED BY <3>3, <3>4, <3>5, <3>6
  <2>5. ASSUME f \in Up(Up(Up(Up(a)))) PROVE f \in Nat /\ f >= 4
    <3>1. f \in Nat /\ f >= 1 /\ f - 1 >= 1 /\ f - 1 \in Up(Up(Up(a)))
      BY <2>1, <2>5
    <3>2. f - 2 \in Up(Up(a)) /\ f - 2 >= 1
      BY <2>1, <2>2, <3>1
    <3>3. f - 3 \in Up(a) /\ f - 3 >= 1
      BY <2>1, <2>2, <3>1, <3>2
    <3> QED BY <3>1, <3>3
  <2> QED BY <2>4, <2>5
<1>4. \A f \in Nat : f >= 4 => (f - 4 \in a <=> f - 4 \in 0..127 /\ f + 124 - 4 * n \in Element(x))
  <2>1. \A f \in Nat : (f - 4) + 124 - 4 * (n - 1) = f + 124 - 4 * n
    OBVIOUS
  <2> QED BY <2>1 DEF TakenIn
<1>5. \A f \in Nat : f + 124 - 4 * n \in 0..127 => f \in 0..127
  OBVIOUS
<1>6. \A r : r \in New4(x, n) <=> r \in 0..3 /\ r + 124 - 4 * n \in Element(x)
  <2>1. \A r \in 0..3 : 124 - 4 * n + r = r + 124 - 4 * n
    OBVIOUS
  <2> QED BY <2>1 DEF New4
<1>7. \A f : f \in TakenIn(x, n) <=> f \in 0..127 /\ f + 124 - 4 * n \in Element(x)
  BY DEF TakenIn
<1>8. \A f : f \in Up(Up(Up(Up(a)))) <=> f \in Nat /\ f >= 4 /\ f - 4 \in 0..127 /\ f + 124 - 4 * n \in Element(x)
  <2> HIDE DEF a
  <2> QED BY <1>3, <1>4
<1>9. \A f : f \in Up(Up(Up(Up(a)))) <=> f \in Nat /\ f >= 4 /\ f \in 0..127 /\ f + 124 - 4 * n \in Element(x)
  <2>1. \A f \in Nat : f >= 4 => (f \in 0..127 => f - 4 \in 0..127)
    OBVIOUS
  <2> HIDE DEF a
  <2> QED BY <1>1, <1>5, <1>8, <2>1
<1>10. \A f : f \in 0..127 <=> (f \in Nat /\ f >= 4 /\ f \in 0..127) \/ f \in 0..3
  OBVIOUS
<1>11. \A f \in 0..3 : ~(f >= 4)
  OBVIOUS
<1> HIDE DEF a
<1>12. /\ TakenIn(x, n) = Up(Up(Up(Up(a)))) \cup New4(x, n)
       /\ Up(Up(Up(Up(a)))) \cap New4(x, n) = {}
  BY ONLY <1>6, <1>7, <1>9, <1>10, <1>11
<1> QED BY <1>12 DEF a

\* The table of ghash_init holds the products of the hash key.
LEMMA TableIs ==
  ASSUME NEW h, NEW n \in 0..15
  PROVE  ghash_init(h)[n] = Mul({3 - q : q \in {d \in 0..3 : d \in NumByte(n)}}, Element(h))
<1> DEFINE z0 == Element(h)
           z1 == TimesX(z0)
           z2 == TimesX(z1)
           z3 == TimesX(z2)
           v  == [q \in 0..3 |-> CASE q = 3 -> z0 [] q = 2 -> z1 [] q = 1 -> z2 [] q = 0 -> z3]
           D  == {d \in 0..3 : d \in NumByte(n)}
           F(k) == {d \in D : d < k}
           R(k) == {3 - d : d \in F(k)}
           S  == {k \in 0..4 : XorAll(F(k), v) = Mul(R(k), z0)}
<1>1. z0 \in Elements
  BY DEF Element, Elements
<1>2. /\ Mul({0}, z0) = z0 /\ Mul({1}, z0) = z1 /\ Mul({2}, z0) = z2 /\ Mul({3}, z0) = z3
  <2>1. Up({0}) = {1} /\ Up({1}) = {2} /\ Up({2}) = {3}
    BY DEF Up
  <2>2. {0} \in SUBSET (0..126) /\ {1} \in SUBSET (0..126) /\ {2} \in SUBSET (0..126)
    OBVIOUS
  <2>3. Mul({0}, z0) = z0
    BY <1>1, MulOne
  <2>4. \A a \in SUBSET (0..126) : Mul(Up(a), z0) = TimesX(Mul(a, z0))
    BY <1>1, MulUp
  <2>5. Mul({1}, z0) = TimesX(Mul({0}, z0)) /\ Mul({2}, z0) = TimesX(Mul({1}, z0)) /\ Mul({3}, z0) = TimesX(Mul({2}, z0))
    <3> HIDE DEF z0
    <3> QED BY ONLY <2>1, <2>2, <2>4
  <2> QED BY <2>3, <2>5
<1>3. \A k \in 0..3 : v[k] = Mul({3 - k}, z0)
  <2>1. v[0] = z3 /\ v[1] = z2 /\ v[2] = z1 /\ v[3] = z0
    OBVIOUS
  <2>2. 3 - 0 = 3 /\ 3 - 1 = 2 /\ 3 - 2 = 1 /\ 3 - 3 = 0
    OBVIOUS
  <2>3. \A k \in 0..3 : k = 0 \/ k = 1 \/ k = 2 \/ k = 3
    OBVIOUS
  <2> HIDE DEF v, z0, z1, z2, z3
  <2> QED BY <1>2, <2>1, <2>2, <2>3
<1>4. ghash_init(h)[n] = XorAll(D, v)
  BY DEF ghash_init
<1>5. \A d \in D : d \in 0..3
  OBVIOUS
<1> HIDE DEF v, D, z0, z1, z2, z3
<1>6. 0 \in S
  <2>1. F(0) = {} /\ R(0) = {}
    BY <1>5
  <2>2. XorAll({}, v) = {}
    BY DEF XorAll
  <2>3. Mul({}, z0) = {}
    BY MulNone
  <2>4. XorAll(F(0), v) = Mul(R(0), z0)
    <3> HIDE DEF F, R
    <3> QED BY <2>1, <2>2, <2>3
  <2> HIDE DEF F, R
  <2> QED BY <2>4
<1>7. ASSUME NEW k \in 0..(4 - 1), k \in S PROVE k + 1 \in S
  <2>0. k \in 0..3 /\ k + 1 \in 0..4
    OBVIOUS
  <2>1. \A d \in D : d < k + 1 <=> d < k \/ d = k
    BY <1>5, <2>0
  <2>2. XorAll(F(k), v) = Mul(R(k), z0)
    BY <1>7
  <2>3. IsFiniteSet(F(k)) /\ k \notin F(k)
    <3>1. F(k) \in Elements
      BY <1>5 DEF Elements
    <3>2. ~(k < k)
      BY <2>0
    <3> HIDE DEF S
    <3> QED BY <3>1, <3>2, ElementsFinite
  <2>4. R(k) \in Elements /\ 3 - k \notin R(k)
    <3>1. \A d \in F(k) : d \in 0..3 /\ 3 - d \in 0..127 /\ 3 - d # 3 - k
      BY <1>5, <2>0
    <3> HIDE DEF F
    <3> QED BY ONLY <3>1 DEF Elements
  <2>5. CASE k \in D
    <3>1. F(k + 1) = F(k) \cup {k} /\ R(k + 1) = R(k) \cup {3 - k}
      <4>1. F(k + 1) = F(k) \cup {k}
        BY ONLY <2>1, <2>5
      <4> HIDE DEF F
      <4> QED BY ONLY <4>1
    <3> HIDE DEF F, R, S
    <3>2. XorAll(F(k) \cup {k}, v) = XorAll(F(k), v) (+) v[k]
      BY <2>3, XorAllMore
    <3>3. Mul(R(k) \cup {3 - k}, z0) = Mul(R(k), z0) (+) Mul({3 - k}, z0)
      BY <2>4, MulMore
    <3>4. XorAll(F(k + 1), v) = Mul(R(k + 1), z0)
      BY <1>3, <2>0, <2>2, <3>1, <3>2, <3>3
    <3> QED BY <2>0, <3>4 DEF S
  <2>6. CASE k \notin D
    <3>1. F(k + 1) = F(k)
      BY ONLY <2>1, <2>6
    <3>2. R(k + 1) = R(k)
      <4> HIDE DEF F
      <4> QED BY ONLY <3>1
    <3>3. XorAll(F(k + 1), v) = Mul(R(k + 1), z0)
      <4> HIDE DEF F, R
      <4> QED BY ONLY <2>2, <3>1, <3>2
    <3> HIDE DEF F, R
    <3> QED BY <2>0, <3>3
  <2> QED BY <2>5, <2>6
<1>8. 4 \in S
  <2> HIDE DEF S
  <2>1. \A k \in 0..4 : k \in S
    BY <1>6, <1>7, UpTo
  <2> QED BY <2>1
<1>9. F(4) = D
  BY <1>5
<1>10. R(4) = {3 - q : q \in D}
  <2> HIDE DEF F
  <2> QED BY ONLY <1>9
<1> QED BY <1>4, <1>8, <1>9, <1>10 DEF D, z0

LEMMA TakenBounds ==
  ASSUME NEW x, NEW n \in 0..31
  PROVE  TakenIn(x, n) \in SUBSET (0..(4 * n + 3)) /\ TakenIn(x, n) \in Elements /\ New4(x, n) \in Elements
<1>1. \A e \in Element(x) : e \in 0..127
  BY DEF Element
<1>2. \A f \in 0..127 : f + 124 - 4 * n \in 0..127 => f \in 0..(4 * n + 3)
  OBVIOUS
<1>3. \A r \in 0..3 : r \in 0..127
  OBVIOUS
<1>4. TakenIn(x, n) \in SUBSET (0..(4 * n + 3))
  BY <1>1, <1>2 DEF TakenIn
<1> QED BY <1>3, <1>4 DEF Elements, TakenIn, New4

\* Four times up.
LEMMA MulUp4 ==
  ASSUME NEW a \in SUBSET (0..123), NEW b \in Elements
  PROVE  /\ Mul(Up(Up(Up(Up(a)))), b) = Shift4(Mul(a, b))
         /\ Up(Up(Up(Up(a)))) \in Elements
<1>2. Up(a) \in SUBSET (0..124)
  <2>1. \A e \in 0..123 : e + 1 \in 0..124
    OBVIOUS
  <2> DEFINE d == a
  <2>2. d \in SUBSET (0..123)
    OBVIOUS
  <2> HIDE DEF d
  <2>3. Up(d) \in SUBSET (0..124)
    BY ONLY <2>1, <2>2 DEF Up
  <2> QED BY <2>3 DEF d
<1>3. Up(Up(a)) \in SUBSET (0..125)
  <2>1. \A e \in 0..124 : e + 1 \in 0..125
    OBVIOUS
  <2> DEFINE d == Up(a)
  <2>2. d \in SUBSET (0..124)
    BY <1>2
  <2> HIDE DEF d
  <2>3. Up(d) \in SUBSET (0..125)
    BY ONLY <2>1, <2>2 DEF Up
  <2> QED BY <2>3 DEF d
<1>4. Up(Up(Up(a))) \in SUBSET (0..126)
  <2>1. \A e \in 0..125 : e + 1 \in 0..126
    OBVIOUS
  <2> DEFINE d == Up(Up(a))
  <2>2. d \in SUBSET (0..125)
    BY <1>3
  <2> HIDE DEF d
  <2>3. Up(d) \in SUBSET (0..126)
    BY ONLY <2>1, <2>2 DEF Up
  <2> QED BY <2>3 DEF d
<1>5. Up(Up(Up(Up(a)))) \in SUBSET (0..127)
  <2>1. \A e \in 0..126 : e + 1 \in 0..127
    OBVIOUS
  <2> DEFINE d == Up(Up(Up(a)))
  <2>2. d \in SUBSET (0..126)
    BY <1>4
  <2> HIDE DEF d
  <2>3. Up(d) \in SUBSET (0..127)
    BY ONLY <2>1, <2>2 DEF Up
  <2> QED BY <2>3 DEF d
<1>6. \A e : e \in 0..123 \/ e \in 0..124 \/ e \in 0..125 => e \in 0..126
  OBVIOUS
<1>7. \A d \in SUBSET (0..126) : Mul(Up(d), b) = TimesX(Mul(d, b))
  BY MulUp
<1>8. a \in SUBSET (0..126) /\ Up(a) \in SUBSET (0..126) /\ Up(Up(a)) \in SUBSET (0..126)
  BY <1>2, <1>3, <1>6
<1>9. /\ Mul(Up(a), b) = TimesX(Mul(a, b))
      /\ Mul(Up(Up(a)), b) = TimesX(Mul(Up(a), b))
      /\ Mul(Up(Up(Up(a))), b) = TimesX(Mul(Up(Up(a)), b))
      /\ Mul(Up(Up(Up(Up(a)))), b) = TimesX(Mul(Up(Up(Up(a))), b))
  BY <1>4, <1>7, <1>8
<1>10. Shift4(Mul(a, b)) = TimesX(TimesX(TimesX(TimesX(Mul(a, b)))))
  BY MulIsElement, Shift4Is
<1> QED BY <1>5, <1>9, <1>10 DEF Elements

\* gcm_mult of ghash.c, which shifts its sum by four bits, adds a row of the
\* table and corrects with last4, is the multiplication in GF(2^128) of MPC/code,
\* for every hash key and block.
THEOREM GcmMultIsProduct ==
  ASSUME NEW h, NEW x \in Block
  PROVE  gcm_mult(ghash_init(h), x) = Buf(Mul(Element(x), Element(h)))
<1> DEFINE k == Element(h)
           table == ghash_init(h)
           step == [n \in 0..31 |-> [z \in Elements |-> Shift4(z) (+) table[Nibble(x, n)]]]
           Z[n \in 0..31] ==
             IF n = 0 THEN table[Nibble(x, 0)]
                      ELSE Once(Z[n - 1], LAMBDA z : Shift4(z) (+) table[Nibble(x, n)])
<1>0. k \in Elements
  BY DEF Element, Elements
<1>1. \A n \in 0..31 : table[Nibble(x, n)] = Mul(New4(x, n), k) /\ table[Nibble(x, n)] \in Elements
  <2> TAKE n \in 0..31
  <2>1. Nibble(x, n) \in 0..15
    BY NibbleBits
  <2>2. table[Nibble(x, n)] = Mul(New4(x, n), k)
    BY <2>1, TableIs, NewBits
  <2> QED BY <2>2, MulIsElement
<1>2. \A z \in Elements : Shift4(z) \in Elements
  BY Shift4Is, TimesXIsElement
<1>3. step \in [0..31 -> [Elements -> Elements]]
  <2>1. \A a, b \in Elements : a (+) b \in Elements
    BY DEF (+), Elements
  <2>2. \A n \in 0..31 : \A z \in Elements : Shift4(z) (+) table[Nibble(x, n)] \in Elements
    <3> HIDE DEF table, k
    <3> QED BY <1>1, <1>2, <2>1
  <2> HIDE DEF table, k
  <2> QED BY <2>2
<1>4. table[Nibble(x, 0)] \in Elements
  BY <1>1
<1> HIDE DEF table, k
<1>5. PICK f \in [0..31 -> Elements] : Chain(f, 31, table[Nibble(x, 0)], step)
  <2>1. 31 \in Nat
    OBVIOUS
  <2> HIDE DEF step
  <2> QED BY <1>3, <1>4, <2>1, ChainIs
<1>6. f = [n \in 0..31 |-> IF n = 0 THEN table[Nibble(x, 0)]
                                    ELSE Once(f[n - 1], LAMBDA z : Shift4(z) (+) table[Nibble(x, n)])]
  <2>1. \A n \in 0..31 : n # 0 => step[n][f[n - 1]] = Shift4(f[n - 1]) (+) table[Nibble(x, n)]
    <3>1. \A n \in 0..31 : n # 0 => f[n - 1] \in Elements
      <4>1. \A n \in 0..31 : n # 0 => n - 1 \in 0..31
        OBVIOUS
      <4> HIDE DEF step
      <4> QED BY <4>1
    <3> QED BY <3>1
  <2> HIDE DEF step
  <2>2. f = [n \in 0..31 |-> IF n = 0 THEN table[Nibble(x, 0)] ELSE step[n][f[n - 1]]]
    BY <1>5 DEF Chain
  <2>3. \A n \in 0..31 : (IF n = 0 THEN table[Nibble(x, 0)] ELSE step[n][f[n - 1]])
           = (IF n = 0 THEN table[Nibble(x, 0)] ELSE Shift4(f[n - 1]) (+) table[Nibble(x, n)])
    BY <2>1
  <2>4. f = [n \in 0..31 |-> IF n = 0 THEN table[Nibble(x, 0)] ELSE Shift4(f[n - 1]) (+) table[Nibble(x, n)]]
    BY <2>2, <2>3
  <2> QED BY <2>4 DEF Once
<1>7. Z = [n \in 0..31 |-> IF n = 0 THEN table[Nibble(x, 0)]
                                    ELSE Once(Z[n - 1], LAMBDA z : Shift4(z) (+) table[Nibble(x, n)])]
  BY <1>6 DEF Once
<1>8. Z[0] = table[Nibble(x, 0)] /\ \A n \in 1..31 : Z[n] = Shift4(Z[n - 1]) (+) table[Nibble(x, n)]
  <2> HIDE DEF Z
  <2>1. \A n \in 1..31 : n \in 0..31 /\ n # 0
    OBVIOUS
  <2> QED BY <1>7, <2>1 DEF Once
<1>9. gcm_mult(table, x) = Buf(Z[31])
  BY DEF gcm_mult
<1> HIDE DEF Z
<1> DEFINE S == {n \in 0..31 : Z[n] = Mul(TakenIn(x, n), k)}
<1>10. 0 \in S
  <2>1. TakenIn(x, 0) = New4(x, 0)
    <3>1. \A f1 \in 0..127 : f1 + 124 - 4 * 0 \in 0..127 <=> f1 \in 0..3
      OBVIOUS
    <3>2. \A f1 \in 0..3 : f1 \in 0..127 /\ 124 - 4 * 0 + f1 = f1 + 124 - 4 * 0
      OBVIOUS
    <3>3. \A e \in Element(x) : e \in 0..127
      BY DEF Element
    <3> QED BY <3>1, <3>2, <3>3 DEF TakenIn, New4
  <2> QED BY <1>1, <1>8, <2>1
<1>11. ASSUME NEW n \in 0..(31 - 1), n \in S PROVE n + 1 \in S
  <2>1. n + 1 \in 1..31 /\ n + 1 \in 0..31 /\ (n + 1) - 1 = n /\ n \in 0..31
    OBVIOUS
  <2>2. TakenIn(x, n) \in SUBSET (0..123)
    <3>1. \A e : e \in 0..(4 * n + 3) => e \in 0..123
      OBVIOUS
    <3> QED BY <2>1, <3>1, TakenBounds
  <2> DEFINE U == Up(Up(Up(Up(TakenIn(x, n)))))
             V == New4(x, n + 1)
  <2>3. TakenIn(x, n + 1) = U \cup V /\ U \cap V = {}
    BY <2>1, TakenMore
  <2>4. Mul(U, k) = Shift4(Mul(TakenIn(x, n), k)) /\ U \in Elements
    BY <1>0, <2>2, MulUp4
  <2>5. V \in Elements
    BY <2>1, TakenBounds
  <2> HIDE DEF U, V
  <2>6. Mul(U \cup V, k) = Mul(U, k) (+) Mul(V, k)
    BY <2>3, <2>4, <2>5, MulAdds
  <2>7. Z[n + 1] = Shift4(Z[n]) (+) Mul(V, k)
    BY <1>1, <1>8, <2>1 DEF V
  <2>8. Z[n] = Mul(TakenIn(x, n), k)
    BY <1>11
  <2>9. Z[n + 1] = Mul(TakenIn(x, n + 1), k)
    BY ONLY <2>3, <2>4, <2>6, <2>7, <2>8
  <2> QED BY <2>1, <2>9
<1>12. 31 \in S
  <2> HIDE DEF S
  <2>1. \A n \in 0..31 : n \in S
    BY <1>10, <1>11, UpTo
  <2> QED BY <2>1
<1>13. TakenIn(x, 31) = Element(x)
  <2>1. \A e \in 0..127 : e + 124 - 4 * 31 = e
    OBVIOUS
  <2> QED BY <2>1 DEF TakenIn, Element
<1> QED BY <1>9, <1>12, <1>13 DEF table, k

(***************************************************************************)
(* Blocks and elements                                                     *)
(***************************************************************************)
LEMMA BlockIs == \A b : b \in Block <=> b \in [0..15 -> SUBSET (0..7)]
BY DEF Block, Buffer, BlockLen, Byte, Bits

\* A bit of a block is an exponent, and back.
LEMMA PlaceOfBit ==
  ASSUME NEW j \in 0..15, NEW q \in 0..7
  PROVE  8 * j + 7 - q \in 0..127 /\ (8 * j + 7 - q) \div 8 = j /\ 7 - ((8 * j + 7 - q) % 8) = q
<1>1. PICK r \in 0..7 : r = 7 - q
  OBVIOUS
<1>2. 8 * j + 7 - q = 8 * j + r /\ (8 * j + r) \div 8 = j /\ (8 * j + r) % 8 = r /\ 8 * j + r \in 0..127
  BY <1>1
<1> QED BY <1>1, <1>2

LEMMA BitOfPlace ==
  ASSUME NEW e \in 0..127
  PROVE  e \div 8 \in 0..15 /\ 7 - (e % 8) \in 0..7 /\ 8 * (e \div 8) + 7 - (7 - (e % 8)) = e
<1>1. PICK j \in 0..15, r \in 0..7 : e = 8 * j + r /\ e \div 8 = j /\ e % 8 = r
  OBVIOUS
<1> QED BY <1>1

LEMMA InBuf == ASSUME NEW z PROVE \A j \in 0..15 : \A q : q \in Buf(z)[j] <=> q \in 0..7 /\ 8 * j + 7 - q \in z
BY DEF Buf, BlockLen, Bits

LEMMA BufIsBlock == ASSUME NEW z PROVE Buf(z) \in Block /\ Buf(z) = from_gf2_128(z)
BY BlockIs DEF Buf, from_gf2_128, BlockLen, Bits

\* An element is told by its bytes, and a block by its element.
LEMMA ElementOfBuf == ASSUME NEW z \in Elements PROVE Element(Buf(z)) = z
<1>1. \A e \in 0..127 : 7 - (e % 8) \in Buf(z)[e \div 8] <=> e \in z
  <2> TAKE e \in 0..127
  <2>1. e \div 8 \in 0..15 /\ 7 - (e % 8) \in 0..7 /\ 8 * (e \div 8) + 7 - (7 - (e % 8)) = e
    BY BitOfPlace
  <2> QED BY <2>1, InBuf
<1> QED BY <1>1 DEF Element, Elements

LEMMA IntoIsElement == ASSUME NEW b \in Block PROVE into_gf2_128(b) = Element(b)
<1>0. b \in [0..15 -> SUBSET (0..7)]
  BY BlockIs
<1>1. ASSUME NEW e \in into_gf2_128(b) PROVE e \in Element(b)
  <2>1. PICK j \in 0..15 : e \in {8 * j + 7 - q : q \in b[j]}
    BY DEF into_gf2_128, BlockLen
  <2>2. PICK q \in b[j] : e = 8 * j + 7 - q
    BY <2>1
  <2>3. q \in 0..7
    BY <1>0
  <2> QED BY <2>2, <2>3, PlaceOfBit DEF Element
<1>2. ASSUME NEW e \in Element(b) PROVE e \in into_gf2_128(b)
  <2>1. e \in 0..127 /\ 7 - (e % 8) \in b[e \div 8]
    BY DEF Element
  <2>2. e \div 8 \in 0..15 /\ 8 * (e \div 8) + 7 - (7 - (e % 8)) = e
    BY <2>1, BitOfPlace
  <2> QED BY <2>1, <2>2 DEF into_gf2_128, BlockLen
<1> QED BY <1>1, <1>2

LEMMA XorIsBlock == ASSUME NEW a \in Block, NEW b \in Block PROVE XorBlock(a, b) \in Block
<1>1. a \in [0..15 -> SUBSET (0..7)] /\ b \in [0..15 -> SUBSET (0..7)]
  BY BlockIs
<1>2. \A s, t \in SUBSET (0..7) : s (+) t \in SUBSET (0..7)
  BY DEF (+)
<1>3. XorBlock(a, b) \in [0..15 -> SUBSET (0..7)]
  BY <1>1, <1>2 DEF XorBlock
<1> QED BY <1>3, BlockIs

LEMMA ElementOfXor ==
  ASSUME NEW a \in Block, NEW b \in Block
  PROVE  Element(XorBlock(a, b)) = Element(a) (+) Element(b)
<1>1. DOMAIN a = 0..15
  BY BlockIs
<1>2. \A e \in 0..127 : XorBlock(a, b)[e \div 8] = a[e \div 8] (+) b[e \div 8]
  BY <1>1, BitOfPlace DEF XorBlock
<1>3. \A e : e \in Element(XorBlock(a, b)) <=> e \in Element(a) (+) Element(b)
  BY <1>2, InXor DEF Element
<1> QED BY <1>3

\* A step of the device's hash.
LEMMA HashStep ==
  ASSUME NEW t \in Elements, NEW h \in Block, NEW b \in Block
  PROVE  ghash_process_block(ghash_init(h), Buf(t), b)
           = Buf(Mul(t (+) into_gf2_128(b), into_gf2_128(h)))
<1>1. Buf(t) \in Block /\ XorBlock(Buf(t), b) \in Block
  BY BufIsBlock, XorIsBlock
<1>2. ghash_process_block(ghash_init(h), Buf(t), b) = gcm_mult(ghash_init(h), XorBlock(Buf(t), b))
  BY DEF ghash_process_block, Once
<1>3. gcm_mult(ghash_init(h), XorBlock(Buf(t), b)) = Buf(Mul(Element(XorBlock(Buf(t), b)), Element(h)))
  BY <1>1, GcmMultIsProduct
<1>4. Element(XorBlock(Buf(t), b)) = t (+) Element(b)
  BY <1>1, ElementOfXor, ElementOfBuf
<1> QED BY <1>2, <1>3, <1>4, IntoIsElement

(***************************************************************************)
(* The hash of a message without associated data                           *)
(***************************************************************************)
\* What the hash takes in as its b-th block.
HashedBlock(data, len, lengths, b) ==
  IF b < BlocksOf(len) THEN BlockOf(data, len, b * BlockLen) ELSE lengths

\* T is what the hash of the computation has after each block.
GhashRun(T, data, len, lengths, key) ==
  /\ T \in [0..(BlocksOf(len) + 1) -> Elements]
  /\ T[0] = {}
  /\ \A b \in 0..BlocksOf(len) :
       T[b + 1] = Mul(T[b] (+) into_gf2_128(HashedBlock(data, len, lengths, b)), into_gf2_128(key))

LEMMA GhashIs ==
  ASSUME NEW data, NEW len \in Nat, NEW lengths, NEW key
  PROVE  \E T : /\ GhashRun(T, data, len, lengths, key)
                /\ ghash(data, len, lengths, key) = Buf(T[BlocksOf(len) + 1])
<1> DEFINE h == into_gf2_128(key)
           N == BlocksOf(len) + 1
           X(b) == into_gf2_128(IF b < BlocksOf(len) THEN BlockOf(data, len, b * BlockLen)
                                                     ELSE lengths)
           step == [b \in 0..N |-> [t \in Elements |-> Mul(t (+) X(b - 1), h)]]
           T[b \in 0..N] == IF b = 0 THEN {} ELSE Once(T[b - 1], LAMBDA t : Mul(t (+) X(b - 1), h))
<1>1. BlocksOf(len) \in Nat /\ N \in Nat
  BY BlocksOfFacts
<1>2. {} \in Elements
  BY DEF Elements
<1> HIDE DEF h, X
<1>3. step \in [0..N -> [Elements -> Elements]]
  BY MulIsElement
<1>4. ghash(data, len, lengths, key) = from_gf2_128(T[N])
  BY DEF ghash, h, X
<1> HIDE DEF N
<1>5. PICK f \in [0..N -> Elements] : Chain(f, N, {}, step)
  <2> HIDE DEF step
  <2> QED BY <1>1, <1>2, <1>3, ChainIs
<1>6. f = [b \in 0..N |-> IF b = 0 THEN {} ELSE Once(f[b - 1], LAMBDA t : Mul(t (+) X(b - 1), h))]
  <2>1. \A b \in 0..N : b # 0 => step[b][f[b - 1]] = Mul(f[b - 1] (+) X(b - 1), h)
    <3>1. \A b \in 0..N : b # 0 => f[b - 1] \in Elements
      <4>1. \A b \in 0..N : b # 0 => b - 1 \in 0..N
        BY <1>1
      <4> HIDE DEF step
      <4> QED BY <4>1
    <3> QED BY <3>1
  <2> HIDE DEF step
  <2>2. f = [b \in 0..N |-> IF b = 0 THEN {} ELSE step[b][f[b - 1]]]
    BY <1>5 DEF Chain
  <2>3. \A b \in 0..N : (IF b = 0 THEN {} ELSE step[b][f[b - 1]])
           = (IF b = 0 THEN {} ELSE Mul(f[b - 1] (+) X(b - 1), h))
    BY <2>1
  <2>4. f = [b \in 0..N |-> IF b = 0 THEN {} ELSE Mul(f[b - 1] (+) X(b - 1), h)]
    BY <2>2, <2>3
  <2> QED BY <2>4 DEF Once
<1>7. T = [b \in 0..N |-> IF b = 0 THEN {} ELSE Once(T[b - 1], LAMBDA t : Mul(t (+) X(b - 1), h))]
  BY <1>6 DEF Once
<1> HIDE DEF T
<1>8. T[0] = {} /\ \A b \in 1..N : T[b] = Mul(T[b - 1] (+) X(b - 1), h)
  <2>1. \A b \in 1..N : b \in 0..N /\ b # 0
    BY <1>1
  <2>2. 0 \in 0..N
    BY <1>1
  <2>3. \A b \in 0..N : T[b] = IF b = 0 THEN {} ELSE Mul(T[b - 1] (+) X(b - 1), h)
    BY ONLY <1>7 DEF Once
  <2> QED BY ONLY <2>1, <2>2, <2>3
<1>9. T \in [0..N -> Elements]
  <2>1. \A b \in 0..N : b = 0 \/ b \in 1..N
    BY <1>1
  <2>2. \A b \in 0..N : T[b] \in Elements
    <3> TAKE b \in 0..N
    <3>1. CASE b = 0
      BY <1>2, <1>8, <3>1
    <3>2. CASE b \in 1..N
      BY <1>8, <3>2, MulIsElement
    <3> QED BY <2>1, <3>1, <3>2
  <2>3. T = [b \in 0..N |-> T[b]]
    BY <1>7
  <2> QED BY <2>2, <2>3
<1>10. \A b \in 0..BlocksOf(len) : T[b + 1] = Mul(T[b] (+) into_gf2_128(HashedBlock(data, len, lengths, b)), into_gf2_128(key))
  <2> TAKE b \in 0..BlocksOf(len)
  <2>1. b + 1 \in 1..N /\ (b + 1) - 1 = b
    BY <1>1 DEF N
  <2>2. X(b) = into_gf2_128(HashedBlock(data, len, lengths, b))
    BY DEF X, HashedBlock
  <2> QED BY <1>8, <2>1, <2>2 DEF h
<1>11. GhashRun(T, data, len, lengths, key)
  BY <1>8, <1>9, <1>10 DEF GhashRun, N
<1>12. ghash(data, len, lengths, key) = Buf(T[N])
  BY <1>4, BufIsBlock
<1> QED BY <1>11, <1>12 DEF N

\* The device takes in the same blocks.
LEMMA HashInputIs ==
  ASSUME NEW ad, NEW data, NEW len \in Nat, NEW lengths, NEW b \in 0..BlocksOf(len)
  PROVE  HashInput(ad, 0, data, len, lengths, b) = HashedBlock(data, len, lengths, b)
<1>1. BlocksOf(0) = 0 /\ BlocksOf(len) \in Nat
  BY BlocksOfFacts
<1>2. ZeroPadded(data, len, b) = BlockOf(data, len, b * BlockLen)
  BY DEF ZeroPadded, BlockOf
<1> DEFINE D == BlocksOf(len)
<1>3. ~(b < 0) /\ (b \in 0..(0 + D - 1) <=> b < D) /\ (b = 0 + D <=> ~(b < D)) /\ b - 0 = b
  BY <1>1
<1>4. HashInput(ad, 0, data, len, lengths, b)
        = CASE b < 0 -> ZeroPadded(ad, 0, b)
            [] b \in 0..(0 + D - 1) -> ZeroPadded(data, len, b - 0)
            [] b = 0 + D -> lengths
  BY <1>1 DEF HashInput
<1> HIDE DEF D
<1>5. CASE b < D
  <2>1. HashInput(ad, 0, data, len, lengths, b) = ZeroPadded(data, len, b)
    BY <1>3, <1>4, <1>5
  <2> QED BY <1>2, <1>5, <2>1 DEF HashedBlock, D
<1>6. CASE ~(b < D)
  <2>1. HashInput(ad, 0, data, len, lengths, b) = lengths
    BY <1>3, <1>4, <1>6
  <2> QED BY <1>6, <2>1 DEF HashedBlock, D
<1> QED BY <1>5, <1>6

LEMMA HashedIsBlock ==
  ASSUME NEW len \in Nat, NEW data \in Buffer(len), NEW lengths \in Block, NEW b \in Nat
  PROVE  HashedBlock(data, len, lengths, b) \in Block
<1>1. \A j \in 0..15 : b * 16 + j < len => b * 16 + j \in 0..(len - 1)
  OBVIOUS
<1>2. data \in [0..(len - 1) -> SUBSET (0..7)]
  BY DEF Buffer, Byte, Bits
<1>3. BlockOf(data, len, b * 16) = [j \in 0..15 |-> IF b * 16 + j < len THEN data[b * 16 + j] ELSE {}]
  BY DEF BlockOf, BlockLen, Zero
<1>4. BlockOf(data, len, b * 16) \in Block
  BY <1>1, <1>2, <1>3, BlockIs
<1> QED BY <1>4 DEF HashedBlock, BlockLen

\* Where the device's hash is after n blocks.
HashesTo(hash, n, data, len, lengths, key) ==
  \A T : GhashRun(T, data, len, lengths, key) => hash = Buf(T[n])

LEMMA HashBegins ==
  ASSUME NEW data, NEW len \in Nat, NEW lengths, NEW key
  PROVE  HashesTo(Zeros(16), 0, data, len, lengths, key)
<1>1. Buf({}) = Zeros(16)
  BY DEF Buf, Zeros, Zero, BlockLen
<1> QED BY <1>1 DEF HashesTo, GhashRun

LEMMA HashGoesOn ==
  ASSUME NEW len \in Nat, NEW data \in Buffer(len), NEW lengths \in Block, NEW key \in Block, NEW ad,
         NEW n \in 0..BlocksOf(len), NEW hash, HashesTo(hash, n, data, len, lengths, key)
  PROVE  HashesTo(ghash_process_block(ghash_init(key), hash, HashInput(ad, 0, data, len, lengths, n)),
                  n + 1, data, len, lengths, key)
<1> SUFFICES ASSUME NEW T, GhashRun(T, data, len, lengths, key)
             PROVE  ghash_process_block(ghash_init(key), hash, HashInput(ad, 0, data, len, lengths, n)) = Buf(T[n + 1])
  BY DEF HashesTo
<1>1. hash = Buf(T[n])
  BY DEF HashesTo
<1>2. n \in Nat /\ n \in 0..(BlocksOf(len) + 1) /\ T[n] \in Elements
  <2>1. n \in Nat /\ n \in 0..(BlocksOf(len) + 1)
    BY BlocksOfFacts
  <2> QED BY <2>1 DEF GhashRun
<1>3. HashedBlock(data, len, lengths, n) \in Block
  BY <1>2, HashedIsBlock
<1>4. HashInput(ad, 0, data, len, lengths, n) = HashedBlock(data, len, lengths, n)
  BY HashInputIs
<1>5. T[n + 1] = Mul(T[n] (+) into_gf2_128(HashedBlock(data, len, lengths, n)), into_gf2_128(key))
  BY DEF GhashRun
<1> QED BY <1>1, <1>2, <1>3, <1>4, <1>5, HashStep

LEMMA HashEnds ==
  ASSUME NEW data, NEW len \in Nat, NEW lengths, NEW key, NEW hash,
         HashesTo(hash, BlocksOf(len) + 1, data, len, lengths, key)
  PROVE  hash = ghash(data, len, lengths, key)
BY GhashIs DEF HashesTo

(***************************************************************************)
(* Counter mode and words as the computation has them                      *)
(***************************************************************************)
LEMMA BytesOfZero == NumByte(0) = {} /\ \A k \in 0..3 : (0 \div 256^k) % 256 = 0
<1>1. 256^0 = 1 /\ 256^1 = 256 /\ 256^2 = 65536 /\ 256^3 = 16777216
  OBVIOUS
<1>2. (0 \div 1) % 256 = 0 /\ (0 \div 256) % 256 = 0 /\ (0 \div 65536) % 256 = 0 /\ (0 \div 16777216) % 256 = 0
  OBVIOUS
<1>3. ASSUME NEW k \in 0..3 PROVE (0 \div 256^k) % 256 = 0
  <2>1. CASE k = 0
    BY ONLY <1>1, <1>2, <2>1
  <2>2. CASE k = 1
    BY ONLY <1>1, <1>2, <2>2
  <2>3. CASE k = 2
    BY ONLY <1>1, <1>2, <2>3
  <2>4. CASE k = 3
    BY ONLY <1>1, <1>2, <2>4
  <2> QED BY ONLY <2>1, <2>2, <2>3, <2>4, k \in 0..3
<1>4. 2^0 = 1 /\ 2^1 = 2 /\ 2^2 = 4 /\ 2^3 = 8 /\ 2^4 = 16 /\ 2^5 = 32 /\ 2^6 = 64 /\ 2^7 = 128
  OBVIOUS
<1>5. /\ (0 \div 1) % 2 = 0 /\ (0 \div 2) % 2 = 0 /\ (0 \div 4) % 2 = 0 /\ (0 \div 8) % 2 = 0
      /\ (0 \div 16) % 2 = 0 /\ (0 \div 32) % 2 = 0 /\ (0 \div 64) % 2 = 0 /\ (0 \div 128) % 2 = 0
  OBVIOUS
<1>6. ASSUME NEW q \in 0..7 PROVE (0 \div 2^q) % 2 # 1
  <2>1. CASE q = 0
    BY ONLY <1>4, <1>5, <2>1
  <2>2. CASE q = 1
    BY ONLY <1>4, <1>5, <2>2
  <2>3. CASE q = 2
    BY ONLY <1>4, <1>5, <2>3
  <2>4. CASE q = 3
    BY ONLY <1>4, <1>5, <2>4
  <2>5. CASE q = 4
    BY ONLY <1>4, <1>5, <2>5
  <2>6. CASE q = 5
    BY ONLY <1>4, <1>5, <2>6
  <2>7. CASE q = 6
    BY ONLY <1>4, <1>5, <2>7
  <2>8. CASE q = 7
    BY ONLY <1>4, <1>5, <2>8
  <2> QED BY ONLY <2>1, <2>2, <2>3, <2>4, <2>5, <2>6, <2>7, <2>8, q \in 0..7
<1>7. NumByte(0) = {}
  BY ONLY <1>6 DEF NumByte, Bits
<1> QED BY <1>3, <1>7

\* b behind a, where both make a block.
LEMMA BehindIs ==
  ASSUME NEW n \in 0..16, NEW a, DOMAIN a = 0..(n - 1), NEW b, DOMAIN b = 0..(15 - n)
  PROVE  Behind(a, n, b) = [j \in 0..15 |-> IF j < n THEN a[j] ELSE b[j - n]]
<1>1. {n + l : l \in 0..(15 - n)} = n..15
  <2>1. \A l \in 0..(15 - n) : n + l \in n..15
    OBVIOUS
  <2>2. \A j \in n..15 : j - n \in 0..(15 - n) /\ j = n + (j - n)
    OBVIOUS
  <2> QED BY <2>1, <2>2
<1>2. (0..(n - 1)) \cup (n..15) = 0..15
  <2>1. \A j \in 0..15 : j \in 0..(n - 1) \/ j \in n..15
    BY ONLY n \in 0..16
  <2>2. \A j \in 0..(n - 1) : j \in 0..15
    BY ONLY n \in 0..16
  <2>3. \A j \in n..15 : j \in 0..15
    BY ONLY n \in 0..16
  <2> QED BY ONLY <2>1, <2>2, <2>3
<1>3. \A j \in 0..15 : j - n \in 0..(15 - n) <=> ~(j < n)
  OBVIOUS
<1>4. Behind(a, n, b) = [j \in 0..15 |-> IF j - n \in 0..(15 - n) THEN b[j - n] ELSE a[j]]
  BY <1>1, <1>2 DEF Behind, Put
<1> QED BY <1>3, <1>4

\* The block with a counter in its last word.
LEMMA RawBEIs ==
  ASSUME NEW n, DOMAIN n = 0..11, NEW w
  PROVE  RawBE(Counter(n, w)) = Behind(n, NonceLen, BE(w, 4))
<1>1. DOMAIN BE(w, 4) = 0..3
  BY DEF BE
<1>2. Behind(n, 12, BE(w, 4)) = [j \in 0..15 |-> IF j < 12 THEN n[j] ELSE BE(w, 4)[j - 12]]
  <2>1. 0..3 = 0..(15 - 12) /\ 0..11 = 0..(12 - 1)
    OBVIOUS
  <2> QED BY <1>1, <2>1, BehindIs
<1>3. \A j \in 0..15 : j < 12 \/ BE(w, 4)[j - 12] = NumByte((w \div 256^(15 - j)) % 256)
  <2> TAKE j \in 0..15
  <2>1. CASE j < 12
    BY <2>1
  <2>2. CASE ~(j < 12)
    <3>1. j - 12 \in 0..3 /\ 4 - 1 - (j - 12) = 15 - j /\ ~(4 - 1 - (j - 12) > 3)
      BY <2>2
    <3> QED BY <3>1 DEF BE
  <2> QED BY <2>1, <2>2
<1>4. Counter(n, w).n = n /\ Counter(n, w).w = w
  BY DEF Counter
<1>5. RawBE(Counter(n, w)) = [j \in 0..15 |-> IF j < 12 THEN n[j] ELSE NumByte((w \div 256^(15 - j)) % 256)]
  BY <1>4 DEF RawBE, WithWord, BlockLen, NonceLen
<1> QED BY <1>2, <1>3, <1>5 DEF NonceLen

LEMMA RawBEIsBlock ==
  ASSUME NEW n \in Buffer(NonceLen), NEW w
  PROVE  RawBE(Counter(n, w)) \in Block
<1>1. n \in [0..11 -> Byte]
  BY DEF Buffer, NonceLen
<1>2. \A v : NumByte(v) \in Byte
  BY DEF NumByte, Byte
<1>3. Counter(n, w).n = n
  BY DEF Counter
<1>4. \A j \in 0..15 : j < 12 => j \in 0..11
  OBVIOUS
<1> QED BY <1>1, <1>2, <1>3, <1>4 DEF RawBE, WithWord, Block, Buffer, BlockLen, NonceLen

\* The block that makes the hash key is zero.
LEMMA RawZero == RawBE(Counter(Zeros(NonceLen), 0)) = Zeros(BlockLen)
<1>1. Counter(Zeros(12), 0).n = Zeros(12) /\ Counter(Zeros(12), 0).w = 0
  BY DEF Counter
<1>2. RawBE(Counter(Zeros(12), 0))
        = [j \in 0..15 |-> IF j < 12 THEN Zeros(12)[j] ELSE NumByte((0 \div 256^(15 - j)) % 256)]
  BY <1>1 DEF RawBE, WithWord, BlockLen, NonceLen
<1>3. \A j \in 0..15 : (IF j < 12 THEN Zeros(12)[j] ELSE NumByte((0 \div 256^(15 - j)) % 256)) = {}
  <2> TAKE j \in 0..15
  <2>1. CASE j < 12
    <3>1. j \in 0..(12 - 1)
      BY <2>1
    <3> QED BY <2>1, <3>1 DEF Zeros, Zero
  <2>2. CASE ~(j < 12)
    <3>1. 15 - j \in 0..3
      BY <2>2
    <3> QED BY <2>2, <3>1, BytesOfZero
  <2> QED BY <2>1, <2>2
<1>4. Zeros(16) = [j \in 0..15 |-> {}]
  BY DEF Zeros, Zero
<1>5. RawBE(Counter(Zeros(12), 0)) = [j \in 0..15 |-> {}]
  BY ONLY <1>2, <1>3
<1> QED BY <1>4, <1>5 DEF NonceLen, BlockLen

\* The counters that aes_ctr_dec begins with.
LEMMA CountersAre == ParsedCounter(BE(1, 4)) = 1 /\ ParsedCounter(BE(2, 4)) = 2
<1>1. 256^0 = 1 /\ 256^1 = 256 /\ 256^2 = 65536 /\ 256^3 = 16777216
  OBVIOUS
<1>2. 2^0 = 1 /\ 2^1 = 2 /\ 2^2 = 4 /\ 2^3 = 8 /\ 2^4 = 16 /\ 2^5 = 32 /\ 2^6 = 64 /\ 2^7 = 128
  OBVIOUS
<1>3. ASSUME NEW v \in {1, 2} PROVE ParsedCounter(BE(v, 4)) = v
  <2>1. (v \div 1) % 256 = v /\ (v \div 256) % 256 = 0 /\ (v \div 65536) % 256 = 0 /\ (v \div 16777216) % 256 = 0
    BY <1>3
  <2>2. BE(v, 4) = [j \in 0..3 |-> NumByte((v \div 256^(3 - j)) % 256)]
    <3>1. \A j \in 0..3 : 4 - 1 - j = 3 - j /\ ~(3 - j > 3)
      OBVIOUS
    <3> QED BY <3>1 DEF BE
  <2>3. BE(v, 4)[0] = {} /\ BE(v, 4)[1] = {} /\ BE(v, 4)[2] = {} /\ BE(v, 4)[3] = NumByte(v)
    <3>1. 3 - 0 = 3 /\ 3 - 1 = 2 /\ 3 - 2 = 1 /\ 3 - 3 = 0
      OBVIOUS
    <3>2. BE(v, 4)[0] = NumByte((v \div 256^(3 - 0)) % 256) /\ BE(v, 4)[1] = NumByte((v \div 256^(3 - 1)) % 256)
          /\ BE(v, 4)[2] = NumByte((v \div 256^(3 - 2)) % 256) /\ BE(v, 4)[3] = NumByte((v \div 256^(3 - 3)) % 256)
      BY ONLY <2>2
    <3> QED BY ONLY <1>1, <2>1, <3>1, <3>2, BytesOfZero
  <2>4. NumByte(v) = IF v = 1 THEN {0} ELSE {1}
    <3>1. /\ (v \div 1) % 2 = (IF v = 1 THEN 1 ELSE 0) /\ (v \div 2) % 2 = (IF v = 1 THEN 0 ELSE 1)
          /\ (v \div 4) % 2 = 0 /\ (v \div 8) % 2 = 0
          /\ (v \div 16) % 2 = 0 /\ (v \div 32) % 2 = 0 /\ (v \div 64) % 2 = 0 /\ (v \div 128) % 2 = 0
      BY <1>3
    <3>2. /\ (0 \in NumByte(v) <=> v = 1) /\ (1 \in NumByte(v) <=> v # 1)
          /\ 2 \notin NumByte(v) /\ 3 \notin NumByte(v) /\ 4 \notin NumByte(v)
          /\ 5 \notin NumByte(v) /\ 6 \notin NumByte(v) /\ 7 \notin NumByte(v)
      <4>1. \A q \in 0..7 : q \in NumByte(v) <=> (v \div 2^q) % 2 = 1
        BY DEF NumByte, Bits
      <4>2. /\ 0 \in 0..7 /\ 1 \in 0..7 /\ 2 \in 0..7 /\ 3 \in 0..7
            /\ 4 \in 0..7 /\ 5 \in 0..7 /\ 6 \in 0..7 /\ 7 \in 0..7
        OBVIOUS
      <4>3. /\ (0 \in NumByte(v) <=> (v \div 2^0) % 2 = 1) /\ (1 \in NumByte(v) <=> (v \div 2^1) % 2 = 1)
            /\ (2 \in NumByte(v) <=> (v \div 2^2) % 2 = 1) /\ (3 \in NumByte(v) <=> (v \div 2^3) % 2 = 1)
            /\ (4 \in NumByte(v) <=> (v \div 2^4) % 2 = 1) /\ (5 \in NumByte(v) <=> (v \div 2^5) % 2 = 1)
            /\ (6 \in NumByte(v) <=> (v \div 2^6) % 2 = 1) /\ (7 \in NumByte(v) <=> (v \div 2^7) % 2 = 1)
        BY ONLY <4>1, <4>2
      <4> QED BY ONLY <1>2, <3>1, <4>3
    <3>3. \A q \in NumByte(v) : q \in {0, 1, 2, 3, 4, 5, 6, 7}
      BY DEF NumByte, Bits
    <3> QED BY ONLY <3>2, <3>3, v \in {1, 2}
  <2> DEFINE f == [n \in 0..3 |-> {q + 3 - n : q \in BE(v, 4)[n]}]
  <2>5. f[0] = {} /\ f[1] = {} /\ f[2] = {} /\ f[3] = IF v = 1 THEN {0} ELSE {1}
    <3>1. f[0] = {} /\ f[1] = {} /\ f[2] = {}
      BY <2>3
    <3>2. f[3] = {q + 3 - 3 : q \in NumByte(v)}
      BY <2>3
    <3>3. 0 + 3 - 3 = 0 /\ 1 + 3 - 3 = 1
      OBVIOUS
    <3>4. f[3] = IF v = 1 THEN {0} ELSE {1}
      <4> HIDE DEF f
      <4>1. CASE v = 1
        BY <2>4, <3>2, <3>3, <4>1
      <4>2. CASE v # 1
        BY <2>4, <3>2, <3>3, <4>2
      <4> QED BY <4>1, <4>2
    <3> QED BY <3>1, <3>4
  <2> HIDE DEF f
  <2>6. XorAll(0..3, f) = f[3]
    <3>1. \A s \in 0..3 : s = 0 \/ s = 1 \/ s = 2 \/ s = 3
      OBVIOUS
    <3>2. \A q : {s \in 0..3 : q \in f[s]} = IF q \in f[3] THEN {3} ELSE {}
      BY <2>5, <3>1
    <3>3. Cardinality({3}) = 1 /\ Cardinality({}) = 0
      BY FS_Singleton, FS_EmptySet
    <3>4. \A q : Cardinality({s \in 0..3 : q \in f[s]}) % 2 = 1 <=> q \in f[3]
      BY <3>2, <3>3
    <3>5. \A q \in f[3] : q \in UNION {f[s] : s \in 0..3}
      OBVIOUS
    <3> QED BY <3>4, <3>5 DEF XorAll
  <2>7. ParsedCounter(BE(v, 4)) = Value(f[3])
    BY <2>6 DEF ParsedCounter, Sum, f
  <2>8. Value({0}) = 1 /\ Value({1}) = 2
    <3>1. /\ Bit(0, {0}) = 1 /\ Bit(1, {0}) = 0 /\ Bit(2, {0}) = 0 /\ Bit(3, {0}) = 0
          /\ Bit(4, {0}) = 0 /\ Bit(5, {0}) = 0 /\ Bit(6, {0}) = 0 /\ Bit(7, {0}) = 0
      BY DEF Bit
    <3>2. /\ Bit(0, {1}) = 0 /\ Bit(1, {1}) = 1 /\ Bit(2, {1}) = 0 /\ Bit(3, {1}) = 0
          /\ Bit(4, {1}) = 0 /\ Bit(5, {1}) = 0 /\ Bit(6, {1}) = 0 /\ Bit(7, {1}) = 0
      BY DEF Bit
    <3> QED BY <3>1, <3>2 DEF Value
  <2> QED BY <2>5, <2>7, <2>8
<1> QED BY <1>3

(***************************************************************************)
(* AES-GCM as the computation undoes it                                    *)
(***************************************************************************)
\* The hash key, and what masks the tag.
GcmHashKey == AskBE(Counter(Zeros(NonceLen), 0))
GcmTagMask == AskBE(Counter(job.npub, 1))

\* The first n bytes of the ciphertext, with counters that may overflow.
GcmStreamed(n) ==
  \A j \in 0..(n-1) :
    c[j] = job.m[j] (+) AskBE(Counter(job.npub, (2 + (j \div 16)) % WordSize))[j % 16]

GcmRunInv ==
  /\ GcmInv
  /\ pc = "keys" => cnt0 = Counter(job.npub, 1)
  /\ pc = "pairs" => /\ cnt0 = Counter(job.npub, (2 + 2 * i) % WordSize)
                     /\ cnt1 = Counter(job.npub, (3 + 2 * i) % WordSize)
                     /\ GcmStreamed(i * 32)
  /\ pc \in {"hash", "done"} => GcmStreamed(job.mlen)
  /\ pc # "keys" => keys = [hash |-> ghash_init(GcmHashKey), mask |-> GcmTagMask]
  /\ pc \in {"keys", "pairs"} => y = Zeros(BlockLen)
  /\ pc = "hash" /\ job.adlen = 0 =>
       /\ i \in 0..(BlocksOf(job.mlen) + 1)
       /\ HashesTo(y, i, c, job.mlen, LengthsBE, GcmHashKey)
  /\ pc = "done" /\ job.adlen = 0 =>
       tag = XorBlock(ghash(c, job.mlen, LengthsBE, GcmHashKey), GcmTagMask)

\* A counter goes on.
LEMMA IncrMod ==
  ASSUME NEW n, NEW w \in Nat
  PROVE  Incr(Counter(n, w % WordSize)) = Counter(n, (w + 1) % WordSize)
<1>1. WordSize \in Nat /\ WordSize > 0
  BY WordAssumption
<1>2. ((w % WordSize) + 1) % WordSize = (w + 1) % WordSize
  BY <1>1, ModSucc
<1> QED BY <1>2 DEF Incr, Counter

LEMMA StreamedGoesOn ==
  ASSUME GcmRunInv, pc = "pairs", NEW n \in 0..32, c' = StreamedPair(n), job' = job,
         NEW e, e = i * 32 + n
  PROVE  GcmStreamed(e)'
<1>0. GcmInv
  BY DEF GcmRunInv
<1>1. i \in Nat
  BY <1>0 DEF GcmInv, GcmTypeOK
<1>2. PICK k \in Nat : k = i * 32
  BY <1>1
<1>3. /\ \A j \in 0..(k - 1) : c'[j] = c[j]
      /\ \A l \in 0..(n-1) :
              c'[k + l] = job.m[k + l] (+) (IF l < 16 THEN AskBE(cnt0)[l] ELSE AskBE(cnt1)[l - 16])
  BY ZenonT(40), <1>0, <1>2, StreamedPairFacts
<1>4. cnt0 = Counter(job.npub, (2 + 2 * i) % WordSize) /\ cnt1 = Counter(job.npub, (3 + 2 * i) % WordSize)
      /\ \A j \in 0..(k-1) :
           c[j] = job.m[j] (+) AskBE(Counter(job.npub, (2 + (j \div 16)) % WordSize))[j % 16]
  BY <1>2 DEF GcmRunInv, GcmStreamed
<1>5. ASSUME NEW j \in 0..(k + n - 1)
      PROVE  c'[j] = job.m[j] (+) AskBE(Counter(job.npub, (2 + (j \div 16)) % WordSize))[j % 16]
  <2>1. CASE j < k
    BY <2>1, <1>3, <1>4
  <2>2. CASE ~(j < k)
    <3>1. PICK l \in 0..(n-1) : j = k + l
      <4>1. j - k \in 0..(n-1) /\ j = k + (j - k)
        BY <2>2
      <4> QED BY <4>1
    <3>2. c'[j] = job.m[j] (+) (IF l < 16 THEN AskBE(cnt0)[l] ELSE AskBE(cnt1)[l - 16])
      BY <3>1, <1>3
    <3>3. CASE l < 16
      <4>1. j \div 16 = 2 * i /\ j % 16 = l
        BY <3>1, <3>3, <1>1, <1>2
      <4> QED BY <3>2, <3>3, <4>1, <1>4
    <3>4. CASE ~(l < 16)
      <4>1. j \div 16 = 2 * i + 1 /\ j % 16 = l - 16
        BY <3>1, <3>4, <1>1, <1>2
      <4>2. 2 + (2 * i + 1) = 3 + 2 * i
        BY <1>1
      <4> QED BY <3>2, <3>4, <4>1, <4>2, <1>4
    <3> QED BY <3>3, <3>4
  <2> QED BY <2>1, <2>2
<1>6. e = k + n
  BY <1>2
<1> QED BY <1>5, <1>6 DEF GcmStreamed, AskBE

LEMMA InitGcmRunInv == GcmInit => GcmRunInv
BY InitGcmInv DEF GcmInit, GcmRunInv

LEMMA KeysRuns == GcmRunInv /\ Keys => GcmRunInv'
<1> SUFFICES ASSUME GcmRunInv, Keys PROVE GcmRunInv'
  OBVIOUS
<1>1. /\ pc = "keys" /\ pc' = "pairs" /\ job' = job /\ i' = i /\ i = 0 /\ y' = y /\ c' = c
      /\ keys' = [hash |-> ghash_init(AskBE(Counter(Zeros(NonceLen), 0))), mask |-> AskBE(cnt0)]
      /\ cnt0' = Incr(cnt0) /\ cnt1' = Incr(Incr(cnt0)) /\ cnt0 = Counter(job.npub, 1)
      /\ y = Zeros(BlockLen)
  BY DEF Keys, GcmRunInv, GcmInv
<1>2. GcmInv'
  BY KeysStep DEF GcmRunInv
<1>3. cnt0' = Counter(job.npub, 2 % WordSize) /\ cnt1' = Counter(job.npub, 3 % WordSize)
  <2>1. 1 % WordSize = 1
    BY WordAssumption
  <2>2. Incr(Counter(job.npub, 1 % WordSize)) = Counter(job.npub, (1 + 1) % WordSize)
        /\ Incr(Counter(job.npub, 2 % WordSize)) = Counter(job.npub, (2 + 1) % WordSize)
    BY IncrMod
  <2>3. 1 + 1 = 2 /\ 2 + 1 = 3
    OBVIOUS
  <2> QED BY ONLY <1>1, <2>1, <2>2, <2>3
<1>4. 2 + 2 * i' = 2 /\ 3 + 2 * i' = 3 /\ i' * 32 = 0
  BY <1>1
<1>5. GcmStreamed(0)'
  BY DEF GcmStreamed
<1>6. keys' = [hash |-> ghash_init(GcmHashKey), mask |-> GcmTagMask]' /\ y' = Zeros(BlockLen)
  BY <1>1 DEF GcmHashKey, GcmTagMask, AskBE
<1> QED BY <1>1, <1>2, <1>3, <1>4, <1>5, <1>6 DEF GcmRunInv

LEMMA TwoBlocksRuns == GcmRunInv /\ TwoBlocks => GcmRunInv'
<1> SUFFICES ASSUME GcmRunInv, TwoBlocks PROVE GcmRunInv'
  OBVIOUS
<1>1. /\ pc = "pairs" /\ pc' = pc /\ i' = i + 1 /\ job' = job /\ y' = y /\ keys' = keys
      /\ c' = StreamedPair(32)
      /\ cnt0' = Incr(Incr(cnt0)) /\ cnt1' = Incr(Incr(cnt1))
      /\ cnt0 = Counter(job.npub, (2 + 2 * i) % WordSize)
      /\ cnt1 = Counter(job.npub, (3 + 2 * i) % WordSize)
  BY DEF TwoBlocks, GcmRunInv, BlockLen
<1>2. GcmInv'
  BY TwoBlocksStep DEF GcmRunInv
<1>3. i \in Nat
  BY DEF GcmRunInv, GcmInv, GcmTypeOK
<1>4. cnt0' = Counter(job.npub, (2 + 2 * i') % WordSize) /\ cnt1' = Counter(job.npub, (3 + 2 * i') % WordSize)
  <2>1. PICK n \in Nat : n = 2 + 2 * i /\ n + 2 = 2 + 2 * i' /\ n + 1 = 3 + 2 * i /\ n + 3 = 3 + 2 * i'
    BY <1>1, <1>3
  <2>2. /\ Incr(Counter(job.npub, n % WordSize)) = Counter(job.npub, (n + 1) % WordSize)
        /\ Incr(Counter(job.npub, (n + 1) % WordSize)) = Counter(job.npub, ((n + 1) + 1) % WordSize)
        /\ Incr(Counter(job.npub, (n + 2) % WordSize)) = Counter(job.npub, ((n + 2) + 1) % WordSize)
    BY IncrMod
  <2>3. (n + 1) + 1 = n + 2 /\ (n + 2) + 1 = n + 3
    OBVIOUS
  <2> QED BY ONLY <1>1, <2>1, <2>2, <2>3
<1>5. GcmStreamed(i * 32)'
  <2>1. PICK e : e = i * 32 + 32 /\ e = i' * 32
    BY <1>1, <1>3
  <2>2. GcmStreamed(e)'
    BY <1>1, <2>1, StreamedGoesOn
  <2> QED BY <2>1, <2>2 DEF GcmStreamed
<1>6. keys' = [hash |-> ghash_init(GcmHashKey), mask |-> GcmTagMask]' /\ y' = Zeros(BlockLen)
  BY <1>1 DEF GcmRunInv, GcmHashKey, GcmTagMask, AskBE
<1> QED BY <1>1, <1>2, <1>4, <1>5, <1>6 DEF GcmRunInv

LEMMA RestRuns == GcmRunInv /\ Rest => GcmRunInv'
<1> SUFFICES ASSUME GcmRunInv, Rest PROVE GcmRunInv'
  OBVIOUS
<1> DEFINE n == job.mlen - Pairs * 32
<1>1. /\ pc = "pairs" /\ pc' = "hash" /\ i = Pairs /\ i' = 0 /\ job' = job /\ y' = y /\ keys' = keys
      /\ job \in CallsOf({"gcm"}) /\ y = Zeros(16)
  BY DEF Rest, GcmRunInv, GcmInv, BlockLen
<1>2. n \in 0..32 /\ Pairs \in Nat /\ job.mlen \in Nat /\ Pairs * 32 + n = job.mlen
  BY <1>1, PairsFacts
<1>3. c' = StreamedPair(n)
  <2>1. Pairs * 2 * 16 = Pairs * 32
    BY <1>2
  <2> QED BY <2>1 DEF Rest, BlockLen
<1> HIDE DEF n
<1>4. GcmInv'
  BY RestStep DEF GcmRunInv
<1>5. GcmStreamed(job.mlen)'
  <2>1. PICK e : e = i * 32 + n /\ e = job.mlen
    BY <1>1, <1>2
  <2>2. GcmStreamed(e)'
    BY <1>1, <1>2, <1>3, <2>1, StreamedGoesOn
  <2> QED BY <1>1, <2>1, <2>2
<1>6. keys' = [hash |-> ghash_init(GcmHashKey), mask |-> GcmTagMask]'
  BY <1>1 DEF GcmRunInv, GcmHashKey, GcmTagMask, AskBE
<1>7. HashesTo(y', i', c', job'.mlen, LengthsBE', GcmHashKey')
  BY <1>1, <1>2, HashBegins
<1>8. i' \in 0..(BlocksOf(job.mlen) + 1)
  BY <1>1, <1>2, BlocksOfFacts
<1> QED BY <1>1, <1>4, <1>5, <1>6, <1>7, <1>8 DEF GcmRunInv

\* The cipher's blocks, of the calls' keys.
LEMMA GcmAsksBlocks ==
  ASSUME BlockCipher, job \in CallsOf({"gcm"})
  PROVE  /\ \A w : AskBE(Counter(job.npub, w)) \in Block
         /\ GcmHashKey \in Block
         /\ GcmHashKey = E(job.k, Zeros(BlockLen))
<1>1. /\ \E key \in Block : job.k = Schedule(key)
      /\ job.npub \in Buffer(NonceLen)
  BY CallFacts
<1>2. \A x \in Block : E(job.k, x) \in Block
  BY <1>1 DEF BlockCipher
<1>3. \A w : RawBE(Counter(job.npub, w)) \in Block
  BY <1>1, RawBEIsBlock
<1>4. Zeros(BlockLen) \in Block
  BY DEF Zeros, Zero, Block, Buffer, Byte
<1>5. GcmHashKey = E(job.k, Zeros(BlockLen))
  BY RawZero DEF GcmHashKey, AskBE
<1> QED BY <1>2, <1>3, <1>4, <1>5 DEF AskBE

LEMMA NumByteBits == \A v : NumByte(v) \in SUBSET (0..7)
BY DEF NumByte, Bits

LEMMA GcmCiphertext ==
  ASSUME BlockCipher, GcmRunInv, pc \in {"hash", "done"}
  PROVE  /\ c \in Buffer(job.mlen) /\ job.mlen \in Nat
         /\ LengthsBE \in Block
<1>1. job \in CallsOf({"gcm"}) /\ GcmStreamed(job.mlen) /\ DOMAIN c = 0..(job.mlen - 1)
      /\ c = [j \in DOMAIN c |-> c[j]]
  BY DEF GcmRunInv, GcmInv, GcmTypeOK
<1>2. job.mlen \in Nat /\ job.m \in [0..(job.mlen - 1) -> SUBSET (0..7)]
  BY <1>1, CallFacts DEF Buffer, Byte, Bits
<1>3. \A w : AskBE(Counter(job.npub, w)) \in [0..15 -> SUBSET (0..7)]
  BY <1>1, GcmAsksBlocks, BlockIs
<1>4. \A s, t \in SUBSET (0..7) : s (+) t \in SUBSET (0..7)
  BY DEF (+)
<1>5. \A j \in 0..(job.mlen - 1) : j % 16 \in 0..15
  BY <1>2
<1>6. \A j \in 0..(job.mlen - 1) : c[j] \in SUBSET (0..7)
  <2> TAKE j \in 0..(job.mlen - 1)
  <2> DEFINE k == AskBE(Counter(job.npub, (2 + (j \div 16)) % WordSize))[j % 16]
  <2>1. c[j] = job.m[j] (+) k
    BY <1>1 DEF GcmStreamed
  <2>2. k \in SUBSET (0..7)
    BY <1>3, <1>5
  <2>3. job.m[j] \in SUBSET (0..7)
    BY <1>2
  <2> HIDE DEF k
  <2> QED BY <1>4, <2>1, <2>2, <2>3
<1>7. c \in [0..(job.mlen - 1) -> SUBSET (0..7)]
  BY ONLY <1>1, <1>6
<1>8. LengthsBE \in [0..15 -> SUBSET (0..7)]
  BY NumByteBits DEF LengthsBE, BE64, Zero, BlockLen
<1> QED BY <1>2, <1>7, <1>8, BlockIs DEF Buffer, Byte, Bits

LEMMA HashRuns == ASSUME BlockCipher PROVE GcmRunInv /\ GcmHashBlock => GcmRunInv'
<1> SUFFICES ASSUME GcmRunInv, GcmHashBlock PROVE GcmRunInv'
  OBVIOUS
<1>1. /\ pc = "hash" /\ pc' = pc /\ i' = i + 1 /\ job' = job /\ c' = c /\ keys' = keys
      /\ i <= BlocksOf(job.adlen) + BlocksOf(job.mlen)
      /\ y' = ghash_process_block(keys.hash, y, HashInput(job.ad, job.adlen, c, job.mlen, LengthsBE, i))
  BY DEF GcmHashBlock
<1>2. GcmInv'
  BY GcmHashStep DEF GcmRunInv
<1>3. GcmStreamed(job.mlen)' /\ (keys = [hash |-> ghash_init(GcmHashKey), mask |-> GcmTagMask])'
  BY <1>1 DEF GcmRunInv, GcmStreamed, GcmHashKey, GcmTagMask, AskBE
<1>4. ASSUME job.adlen = 0
      PROVE  i' \in 0..(BlocksOf(job.mlen) + 1) /\ HashesTo(y, i, c, job.mlen, LengthsBE, GcmHashKey)'
  <2>1. job \in CallsOf({"gcm"}) /\ i \in 0..(BlocksOf(job.mlen) + 1)
        /\ HashesTo(y, i, c, job.mlen, LengthsBE, GcmHashKey)
    BY <1>1, <1>4 DEF GcmRunInv, GcmInv
  <2>2. BlocksOf(job.adlen) = 0 /\ BlocksOf(job.mlen) \in Nat /\ job.mlen \in Nat
        /\ c \in Buffer(job.mlen) /\ LengthsBE \in Block /\ GcmHashKey \in Block
    BY <1>1, <1>4, <2>1, BlocksOfFacts, GcmCiphertext, GcmAsksBlocks
  <2>3. i \in 0..BlocksOf(job.mlen)
    BY <1>1, <2>1, <2>2
  <2>4. y' = ghash_process_block(ghash_init(GcmHashKey), y, HashInput(job.ad, 0, c, job.mlen, LengthsBE, i))
    BY <1>1, <1>4 DEF GcmRunInv
  <2>5. HashesTo(y', i + 1, c, job.mlen, LengthsBE, GcmHashKey)
    BY <2>1, <2>2, <2>3, <2>4, HashGoesOn
  <2>6. LengthsBE' = LengthsBE /\ GcmHashKey' = GcmHashKey
    BY <1>1 DEF LengthsBE, GcmHashKey, AskBE
  <2>7. i' \in 0..(BlocksOf(job.mlen) + 1)
    BY <1>1, <2>2, <2>3
  <2> QED BY <1>1, <2>5, <2>6, <2>7
<1> QED BY <1>1, <1>2, <1>3, <1>4 DEF GcmRunInv

LEMMA TagRuns == GcmRunInv /\ GcmTag => GcmRunInv'
<1> SUFFICES ASSUME GcmRunInv, GcmTag PROVE GcmRunInv'
  OBVIOUS
<1>1. /\ pc = "hash" /\ pc' = "done" /\ i' = i /\ job' = job /\ c' = c /\ keys' = keys /\ y' = y
      /\ i > BlocksOf(job.adlen) + BlocksOf(job.mlen)
      /\ tag' = XorBlock(y, keys.mask)
  BY DEF GcmTag
<1>2. GcmInv'
  BY GcmHashStep DEF GcmRunInv
<1>3. GcmStreamed(job.mlen)' /\ (keys = [hash |-> ghash_init(GcmHashKey), mask |-> GcmTagMask])'
  BY <1>1 DEF GcmRunInv, GcmStreamed, GcmHashKey, GcmTagMask, AskBE
<1>4. ASSUME job.adlen = 0
      PROVE  tag' = XorBlock(ghash(c, job.mlen, LengthsBE, GcmHashKey), GcmTagMask)
  <2>1. job \in CallsOf({"gcm"}) /\ i \in 0..(BlocksOf(job.mlen) + 1)
        /\ HashesTo(y, i, c, job.mlen, LengthsBE, GcmHashKey)
    BY <1>1, <1>4 DEF GcmRunInv, GcmInv
  <2>2. BlocksOf(job.adlen) = 0 /\ BlocksOf(job.mlen) \in Nat /\ job.mlen \in Nat
    BY <1>4, <2>1, BlocksOfFacts, CallFacts
  <2>3. i = BlocksOf(job.mlen) + 1
    BY <1>1, <2>1, <2>2
  <2>4. y = ghash(c, job.mlen, LengthsBE, GcmHashKey)
    BY <2>1, <2>2, <2>3, HashEnds
  <2> QED BY <1>1, <2>4 DEF GcmRunInv
<1>5. LengthsBE' = LengthsBE /\ GcmHashKey' = GcmHashKey /\ GcmTagMask' = GcmTagMask
  BY <1>1 DEF LengthsBE, GcmHashKey, GcmTagMask, AskBE
<1> QED BY <1>1, <1>2, <1>3, <1>4, <1>5 DEF GcmRunInv

LEMMA NextGcmRunInv == ASSUME BlockCipher PROVE GcmRunInv /\ [GcmNext]_gcmVars => GcmRunInv'
<1> SUFFICES ASSUME GcmRunInv, [GcmNext]_gcmVars PROVE GcmRunInv'
  OBVIOUS
<1>1. CASE GcmNext
  BY <1>1, KeysRuns, TwoBlocksRuns, RestRuns, HashRuns, TagRuns DEF GcmNext
<1>2. CASE UNCHANGED gcmVars
  <2>1. GcmInv'
    BY NextGcmInv DEF GcmRunInv
  <2>2. /\ LengthsBE' = LengthsBE /\ GcmHashKey' = GcmHashKey /\ GcmTagMask' = GcmTagMask
        /\ \A n : GcmStreamed(n)' <=> GcmStreamed(n)
    BY <1>2 DEF gcmVars, LengthsBE, GcmHashKey, GcmTagMask, AskBE, GcmStreamed
  <2> QED BY <1>2, <2>1, <2>2 DEF gcmVars, GcmRunInv, GcmStreamed, AskBE
<1> QED BY <1>1, <1>2

LEMMA InBlocks ==
  ASSUME NEW len \in Nat, NEW j \in 0..(len - 1)
  PROVE  j \div 16 \in 0..(BlocksOf(len) - 1) /\ j % 16 \in 0..15
<1>1. PICK q \in Nat, r \in 0..15 : j = 16 * q + r /\ j \div 16 = q /\ j % 16 = r
  OBVIOUS
<1>2. BlocksOf(len) = (len + 15) \div 16
  BY DEF BlocksOf, BlockLen
<1>3. PICK d \in Nat, t \in 0..15 : len + 15 = 16 * d + t /\ (len + 15) \div 16 = d
  OBVIOUS
<1>4. q <= d - 1
  BY <1>1, <1>3
<1> QED BY <1>1, <1>2, <1>3, <1>4

\* Counter mode a second time gives the message.
LEMMA CtrDecrypts ==
  ASSUME NEW len \in Nat, NEW m \in Buffer(len), NEW k, NEW blocks, NEW cipher,
         \A j \in 0..(len - 1) : cipher[j] = m[j] (+) E(k, blocks[j \div 16])[j % 16]
  PROVE  aes_ctr_dec(k, blocks, cipher, len) = m
<1>1. m \in [0..(len - 1) -> Byte]
  BY DEF Buffer
<1> DEFINE M == [b \in 0..(BlocksOf(len) - 1) |-> E(k, blocks[b])]
<1>2. aes_ctr_dec(k, blocks, cipher, len) = [j \in 0..(len - 1) |-> cipher[j] (+) M[j \div 16][j % 16]]
  BY DEF aes_ctr_dec, BlockLen
<1>3. \A j \in 0..(len - 1) : M[j \div 16] = E(k, blocks[j \div 16])
  BY InBlocks
<1> HIDE DEF M
<1>4. \A j \in 0..(len - 1) : cipher[j] (+) M[j \div 16][j % 16] = m[j]
  BY <1>3, XorTwice
<1> QED BY <1>1, <1>2, <1>4

LEMMA SameTag == \A t : tag_check(t, t) = 1
BY DEF tag_check

\* The block of lengths.
LEMMA LengthsBEIs ==
  ASSUME job.adlen = 0
  PROVE  LengthsBE = Behind(BE(0, 8), 8, BE(8 * job.mlen, 8))
<1>1. DOMAIN BE(0, 8) = 0..7 /\ DOMAIN BE(8 * job.mlen, 8) = 0..7
  BY DEF BE
<1>2. Behind(BE(0, 8), 8, BE(8 * job.mlen, 8))
        = [j \in 0..15 |-> IF j < 8 THEN BE(0, 8)[j] ELSE BE(8 * job.mlen, 8)[j - 8]]
  <2> DEFINE a == BE(0, 8)
             b == BE(8 * job.mlen, 8)
  <2>1. DOMAIN a = 0..(8 - 1) /\ DOMAIN b = 0..(15 - 8) /\ 8 \in 0..16
    BY <1>1
  <2> HIDE DEF a, b
  <2>2. Behind(a, 8, b) = [j \in 0..15 |-> IF j < 8 THEN a[j] ELSE b[j - 8]]
    BY <2>1, BehindIs
  <2> QED BY <2>2 DEF a, b
<1>3. \A v : \A j \in 0..7 : BE(v, 8)[j] = BE64(v, j)
  <2>1. \A j \in 0..7 : 8 - 1 - j = 7 - j /\ (7 - j > 3 <=> j < 4)
    OBVIOUS
  <2> QED BY <2>1 DEF BE, BE64
<1>4. 8 * job.adlen = 0
  OBVIOUS
<1>5. \A j \in 0..15 : (j < 8 => j \in 0..7) /\ (~(j < 8) => j - 8 \in 0..7)
  OBVIOUS
<1>6. LengthsBE = [j \in 0..15 |-> IF j < 8 THEN BE64(0, j) ELSE BE64(8 * job.mlen, j - 8)]
  BY <1>4 DEF LengthsBE, BlockLen
<1> QED BY ONLY <1>2, <1>3, <1>5, <1>6

LEMMA GcmDecrypts ==
  ASSUME BlockCipher, GcmRunInv, pc = "done", job.adlen = 0
  PROVE  aes_gcm_128_decrypt(job.k, job.npub, c, job.mlen, tag) = [check |-> 1, m |-> job.m]
<1>1. /\ job \in CallsOf({"gcm"}) /\ GcmStreamed(job.mlen)
      /\ tag = XorBlock(ghash(c, job.mlen, LengthsBE, GcmHashKey), GcmTagMask)
  BY DEF GcmRunInv, GcmInv
<1>2. job.mlen \in Nat /\ job.m \in Buffer(job.mlen) /\ DOMAIN job.npub = 0..11
  <2>1. job.mlen \in Nat /\ job.m \in Buffer(job.mlen) /\ job.npub \in Buffer(NonceLen)
    BY <1>1, CallFacts
  <2>2. job.npub \in [0..11 -> Byte]
    BY <2>1 DEF Buffer, NonceLen
  <2> QED BY <2>1, <2>2
<1> DEFINE At(v) == Behind(job.npub, NonceLen, BE(v, 4))
           blocks == [b \in 0..(BlocksOf(job.mlen) - 1) |-> At((2 + b) % WordSize)]
<1>3. \A v : At(v) = RawBE(Counter(job.npub, v))
  BY <1>2, RawBEIs
<1>4. GcmTagMask = E(job.k, At(1))
  BY <1>3 DEF GcmTagMask, AskBE
<1>5. GcmHashKey = E(job.k, Zeros(BlockLen)) /\ LengthsBE = Behind(BE(0, 8), 8, BE(8 * job.mlen, 8))
  BY <1>1, GcmAsksBlocks, LengthsBEIs
<1>6. aes_ctr_dec(job.k, blocks, c, job.mlen) = job.m
  <2>1. \A j \in 0..(job.mlen - 1) : blocks[j \div 16] = RawBE(Counter(job.npub, (2 + (j \div 16)) % WordSize))
    BY <1>2, <1>3, InBlocks
  <2> HIDE DEF blocks
  <2>2. \A j \in 0..(job.mlen - 1) : c[j] = job.m[j] (+) E(job.k, blocks[j \div 16])[j % 16]
    BY <1>1, <2>1 DEF GcmStreamed, AskBE
  <2> QED BY <1>2, <2>2, CtrDecrypts
<1>7. aes_gcm_128_decrypt(job.k, job.npub, c, job.mlen, tag)
        = [check |-> tag_check(tag, XorBlock(ghash(c, job.mlen, Behind(BE(0, 8), 8, BE(8 * job.mlen, 8)),
                                                  E(job.k, Zeros(BlockLen))), E(job.k, At(1)))),
           m |-> aes_ctr_dec(job.k, blocks, c, job.mlen)]
  BY CountersAre DEF aes_gcm_128_decrypt
<1> HIDE DEF At, blocks
<1>8. tag = XorBlock(ghash(c, job.mlen, Behind(BE(0, 8), 8, BE(8 * job.mlen, 8)),
                           E(job.k, Zeros(BlockLen))), E(job.k, At(1)))
  BY ONLY <1>1, <1>4, <1>5
<1> QED BY ONLY <1>6, <1>7, <1>8, SameTag

(***************************************************************************)
(* CTR-PMAC                                                                *)
(***************************************************************************)
LEMMA MacMessageDecrypts ==
  ASSUME MacInv, pc = "done"
  PROVE  dec_pmac_message(job.k, job.npub, Slice(c, 0, job.mlen), job.mlen) = job.m
<1>1. job \in CallsOf({"pmac", "htmac"}) /\ DOMAIN c = 0..(job.mlen - 1)
      /\ \A j \in DOMAIN c : c[j] = job.m[j] (+) MacKeyByte(j)
  BY DEF MacInv, MacTypeOK, MacSides, MacEncrypts
<1>2. job.mlen \in Nat /\ job.m \in Buffer(job.mlen) /\ DOMAIN job.npub = 0..11
  <2>1. job.mlen \in Nat /\ job.m \in Buffer(job.mlen) /\ job.npub \in Buffer(NonceLen)
    BY <1>1, CallFacts
  <2>2. job.npub \in [0..11 -> Byte]
    BY <2>1 DEF Buffer, NonceLen
  <2> QED BY <2>1, <2>2
<1> DEFINE blocks == [b \in 0..(BlocksOf(job.mlen) - 1) |->
                        Behind(job.npub, NonceLen, BE((1 + b) % WordSize, 4))]
           cipher == Slice(c, 0, job.mlen)
<1>3. \A j \in 0..(job.mlen - 1) : blocks[j \div 16] = RawBE(Counter(job.npub, MacWord(j \div 16)))
  <2> TAKE j \in 0..(job.mlen - 1)
  <2>1. j \div 16 \in 0..(BlocksOf(job.mlen) - 1) /\ 1 + (j \div 16) = (j \div 16) + 1
    BY <1>2, InBlocks
  <2>2. blocks[j \div 16] = Behind(job.npub, NonceLen, BE((1 + (j \div 16)) % WordSize, 4))
    BY <2>1
  <2> HIDE DEF blocks
  <2> QED BY <1>2, <2>1, <2>2, RawBEIs DEF MacWord
<1>4. \A j \in 0..(job.mlen - 1) : cipher[j] = c[j]
  BY DEF Slice
<1>5. dec_pmac_message(job.k, job.npub, cipher, job.mlen) = aes_ctr_dec(job.k, blocks, cipher, job.mlen)
  BY CountersAre DEF dec_pmac_message
<1> HIDE DEF blocks, cipher
<1>6. \A j \in 0..(job.mlen - 1) : cipher[j] = job.m[j] (+) E(job.k, blocks[j \div 16])[j % 16]
  BY <1>1, <1>3, <1>4 DEF MacKeyByte
<1>7. aes_ctr_dec(job.k, blocks, cipher, job.mlen) = job.m
  BY <1>2, <1>6, CtrDecrypts
<1> QED BY <1>5, <1>7 DEF cipher

(***************************************************************************)
(* The counter of AES-GCM-SIV                                              *)
(***************************************************************************)
LEMMA IncByteIsByte == ASSUME NEW x \in Byte PROVE IncByte(x) \in Byte
<1>1. CASE x = Ones
  BY <1>1 DEF IncByte, Byte, Zero
<1>2. CASE x # Ones
  <2>1. \E q \in Bits \ x : 0..(q - 1) \subseteq x
    <3> SUFFICES ASSUME \A q \in Bits \ x : ~(0..(q - 1) \subseteq x) PROVE FALSE
      OBVIOUS
    <3> DEFINE S == {n \in 0..8 : 0..(n - 1) \subseteq x}
    <3>1. 0 \in S
      OBVIOUS
    <3>2. ASSUME NEW n \in 0..(8 - 1), n \in S PROVE n + 1 \in S
      <4>1. n \in Bits /\ 0..(n - 1) \subseteq x /\ n + 1 \in 0..8
        BY <3>2 DEF Bits
      <4>2. n \in x
        BY <4>1
      <4>3. \A j \in 0..((n + 1) - 1) : j \in 0..(n - 1) \/ j = n
        BY <3>2
      <4> QED BY <4>1, <4>2, <4>3
    <3>3. 8 \in S
      <4> HIDE DEF S
      <4>1. \A n \in 0..8 : n \in S
        BY <3>1, <3>2, UpTo
      <4> QED BY <4>1
    <3>4. x = Bits
      <4>1. 0..7 \subseteq x
        BY <3>3
      <4> QED BY <4>1 DEF Byte, Bits
    <3> QED BY <1>2, <3>4 DEF Ones
  <2> DEFINE z == CHOOSE q \in Bits \ x : 0..(q - 1) \subseteq x
  <2>2. z \in Bits
    BY <2>1
  <2>3. IncByte(x) = {z} \cup {q \in x : q > z}
    BY <1>2 DEF IncByte
  <2> HIDE DEF z
  <2> QED BY <2>2, <2>3 DEF Byte
<1> QED BY <1>1, <1>2

Word4 == [0..3 -> Byte]
IncWord(w) == [j \in 0..3 |-> IF \A l \in 0..(j-1) : w[l] = Ones THEN IncByte(w[j]) ELSE w[j]]
FirstBlock(t) == [t EXCEPT ![15] = @ \cup {7}]

LEMMA IncWordIsWord == \A w \in Word4 : IncWord(w) \in Word4
BY IncByteIsByte DEF Word4, IncWord

\* The words that the computation counts with.
WordRun(W, t, n) ==
  /\ W \in [0..n -> Word4]
  /\ W[0] = Slice(t, 0, 4)
  /\ \A b \in 1..n : W[b] = IncWord(W[b - 1])

LEMMA OnceWord ==
  \A w0 : Once(w0, LAMBDA w :
              [j \in 0..3 |-> IF \A l \in 0..(j-1) : w[l] = Ones THEN IncByte(w[j]) ELSE w[j]]) = IncWord(w0)
BY DEF Once, IncWord

LEMMA CountsOn ==
  ASSUME NEW t \in Block, NEW n \in Nat
  PROVE  \E W : WordRun(W, t, n) /\ IncLEBy(t, n) = Put(FirstBlock(t), 0, W[n])
<1> DEFINE z == Slice(t, 0, 4)
           step == [b \in 0..n |-> [w \in Word4 |-> IncWord(w)]]
           At[b \in 0..n] ==
             IF b = 0 THEN Slice(t, 0, 4)
             ELSE Once(At[b - 1], LAMBDA w :
                    [j \in 0..3 |-> IF \A l \in 0..(j-1) : w[l] = Ones THEN IncByte(w[j]) ELSE w[j]])
<1>1. z \in Word4
  <2>1. t \in [0..15 -> Byte] /\ \A j \in 0..3 : 0 + j \in 0..15
    BY DEF Block, Buffer, BlockLen
  <2> QED BY <2>1 DEF Word4, Slice
<1>2. step \in [0..n -> [Word4 -> Word4]]
  BY IncWordIsWord
<1>3. IncLEBy(t, n) = Put(FirstBlock(t), 0, At[n])
  BY DEF IncLEBy, FirstBlock
<1>4. PICK f \in [0..n -> Word4] : Chain(f, n, z, step)
  <2> HIDE DEF step, z
  <2> QED BY <1>1, <1>2, ChainIs
<1>5. f = [b \in 0..n |-> IF b = 0 THEN z ELSE IncWord(f[b - 1])]
  <2>1. \A b \in 0..n : b # 0 => step[b][f[b - 1]] = IncWord(f[b - 1])
    <3>1. \A b \in 0..n : b # 0 => f[b - 1] \in Word4
      <4>1. \A b \in 0..n : b # 0 => b - 1 \in 0..n
        OBVIOUS
      <4> HIDE DEF step
      <4> QED BY <4>1
    <3> QED BY <3>1
  <2> HIDE DEF step, z
  <2>2. f = [b \in 0..n |-> IF b = 0 THEN z ELSE step[b][f[b - 1]]]
    BY <1>4 DEF Chain
  <2> QED BY ONLY <2>1, <2>2
<1>6. f = [b \in 0..n |-> IF b = 0 THEN Slice(t, 0, 4) ELSE Once(f[b - 1], LAMBDA w :
                    [j \in 0..3 |-> IF \A l \in 0..(j-1) : w[l] = Ones THEN IncByte(w[j]) ELSE w[j]])]
  <2>1. \A b \in 0..n : (IF b = 0 THEN z ELSE IncWord(f[b - 1]))
          = (IF b = 0 THEN Slice(t, 0, 4) ELSE Once(f[b - 1], LAMBDA w :
                    [j \in 0..3 |-> IF \A l \in 0..(j-1) : w[l] = Ones THEN IncByte(w[j]) ELSE w[j]]))
    BY ONLY OnceWord DEF z, Once
  <2> QED BY ONLY <1>5, <2>1 DEF Once
<1>7. At = [b \in 0..n |-> IF b = 0 THEN Slice(t, 0, 4) ELSE Once(At[b - 1], LAMBDA w :
                    [j \in 0..3 |-> IF \A l \in 0..(j-1) : w[l] = Ones THEN IncByte(w[j]) ELSE w[j]])]
  BY ONLY <1>6 DEF Once
<1> HIDE DEF At
<1>8. At = [b \in 0..n |-> IF b = 0 THEN z ELSE IncWord(At[b - 1])]
  <2>1. \A b \in 0..n : (IF b = 0 THEN z ELSE IncWord(At[b - 1]))
          = (IF b = 0 THEN Slice(t, 0, 4) ELSE Once(At[b - 1], LAMBDA w :
                    [j \in 0..3 |-> IF \A l \in 0..(j-1) : w[l] = Ones THEN IncByte(w[j]) ELSE w[j]]))
    BY ONLY OnceWord DEF z, Once
  <2> QED BY ONLY <1>7, <2>1 DEF Once
<1> HIDE DEF z
<1>9. At[0] = z /\ \A b \in 1..n : At[b] = IncWord(At[b - 1])
  <2>1. 0 \in 0..n /\ \A b \in 1..n : b \in 0..n /\ b # 0
    OBVIOUS
  <2> QED BY ONLY <1>8, <2>1
<1>10. At \in [0..n -> Word4]
  <2> DEFINE S == {b \in 0..n : At[b] \in Word4}
  <2>1. 0 \in S
    BY <1>1, <1>9
  <2>2. ASSUME NEW b \in 0..(n - 1), b \in S PROVE b + 1 \in S
    <3>1. b + 1 \in 1..n /\ (b + 1) - 1 = b /\ b + 1 \in 0..n
      OBVIOUS
    <3> QED BY <1>9, <2>2, <3>1, IncWordIsWord
  <2>3. \A b \in 0..n : b \in S
    <3> HIDE DEF S
    <3> QED BY <2>1, <2>2, UpTo
  <2> QED BY <1>8, <2>3
<1>11. WordRun(At, t, n)
  BY <1>9, <1>10 DEF WordRun, z
<1> QED BY <1>3, <1>11

\* Its blocks: the word, and twelve bytes that stay.
LEMMA PutWord ==
  ASSUME NEW b, DOMAIN b = 0..15, NEW w \in Word4
  PROVE  Put(b, 0, w) = [j \in 0..15 |-> IF j < 4 THEN w[j] ELSE b[j]]
<1>1. DOMAIN w = 0..3
  BY DEF Word4
<1>2. {0 + l : l \in 0..3} \subseteq 0..15
  OBVIOUS
<1>3. (0..15) \cup {0 + l : l \in 0..3} = 0..15
  BY <1>2
<1>4. \A j \in 0..15 : j - 0 = j /\ (j \in 0..3 <=> j < 4)
  OBVIOUS
<1> QED BY <1>1, <1>3, <1>4 DEF Put

LEMMA FirstIsBlock == ASSUME NEW t \in Block PROVE DOMAIN FirstBlock(t) = 0..15
BY DEF FirstBlock, Block, Buffer, BlockLen

LEMMA CountsFrom == ASSUME NEW t \in Block PROVE IncLEBy(t, 0) = FirstBlock(t)
<1>1. PICK W : WordRun(W, t, 0) /\ IncLEBy(t, 0) = Put(FirstBlock(t), 0, W[0])
  BY CountsOn
<1>2. W[0] = Slice(t, 0, 4) /\ W[0] \in Word4
  BY <1>1 DEF WordRun
<1>3. \A j \in 0..15 : j < 4 => W[0][j] = FirstBlock(t)[j]
  <2>1. t \in [0..15 -> Byte]
    BY DEF Block, Buffer, BlockLen
  <2>2. \A j \in 0..15 : j < 4 => FirstBlock(t)[j] = t[j]
    BY <2>1 DEF FirstBlock
  <2>3. \A j \in 0..3 : Slice(t, 0, 4)[j] = t[j]
    <3>1. \A j \in 0..3 : 0 + j = j
      OBVIOUS
    <3> QED BY <3>1 DEF Slice
  <2>4. \A j \in 0..15 : j < 4 => j \in 0..3
    OBVIOUS
  <2> QED BY <1>2, <2>2, <2>3, <2>4
<1>4. FirstBlock(t) = [j \in 0..15 |-> FirstBlock(t)[j]]
  <2>1. t \in [0..15 -> Byte]
    BY DEF Block, Buffer, BlockLen
  <2> QED BY <2>1 DEF FirstBlock
<1>5. Put(FirstBlock(t), 0, W[0]) = [j \in 0..15 |-> IF j < 4 THEN W[0][j] ELSE FirstBlock(t)[j]]
  BY <1>2, FirstIsBlock, PutWord
<1> QED BY ONLY <1>1, <1>3, <1>4, <1>5

LEMMA CountsMore ==
  ASSUME NEW t \in Block, NEW n \in Nat
  PROVE  IncLEBy(t, n + 1) = IncLE(IncLEBy(t, n))
<1>1. PICK V : WordRun(V, t, n) /\ IncLEBy(t, n) = Put(FirstBlock(t), 0, V[n])
  BY CountsOn
<1>2. PICK W : WordRun(W, t, n + 1) /\ IncLEBy(t, n + 1) = Put(FirstBlock(t), 0, W[n + 1])
  BY CountsOn
<1>3. V[0] = Slice(t, 0, 4) /\ W[0] = Slice(t, 0, 4)
  BY <1>1, <1>2 DEF WordRun
<1>4. \A b \in 1..n : V[b] = IncWord(V[b - 1]) /\ W[b] = IncWord(W[b - 1])
  <2> TAKE b \in 1..n
  <2>1. b \in 1..(n + 1)
    OBVIOUS
  <2> QED BY <1>1, <1>2, <2>1 DEF WordRun
<1>5. \A b \in 0..n : V[b] = W[b]
  <2> DEFINE S == {b \in 0..n : V[b] = W[b]}
  <2>1. 0 \in S
    BY <1>3
  <2>2. ASSUME NEW b \in 0..(n - 1), b \in S PROVE b + 1 \in S
    <3>1. b + 1 \in 1..n /\ b + 1 \in 0..n /\ (b + 1) - 1 = b /\ V[b] = W[b]
      BY <2>2
    <3>2. V[b + 1] = IncWord(V[b]) /\ W[b + 1] = IncWord(W[b])
      BY <1>4, <3>1
    <3> QED BY <3>1, <3>2
  <2>3. \A b \in 0..n : b \in S
    <3> HIDE DEF S
    <3> QED BY <2>1, <2>2, UpTo
  <2> QED BY <2>3
<1>6. n \in 0..n /\ n + 1 \in 1..(n + 1) /\ (n + 1) - 1 = n
  OBVIOUS
<1>7. V[n] \in Word4 /\ W[n + 1] = IncWord(V[n])
  BY <1>1, <1>2, <1>5, <1>6 DEF WordRun
<1> DEFINE v == V[n]
           b0 == FirstBlock(t)
           q == [j \in 0..15 |-> IF j < 4 THEN v[j] ELSE b0[j]]
<1>8. IncLEBy(t, n) = q
  BY <1>1, <1>7, FirstIsBlock, PutWord
<1>9. IncLEBy(t, n + 1) = [j \in 0..15 |-> IF j < 4 THEN IncWord(v)[j] ELSE b0[j]]
  <2>1. IncWord(v) \in Word4
    BY <1>7, IncWordIsWord
  <2> DEFINE w == IncWord(v)
  <2>2. w \in Word4 /\ DOMAIN b0 = 0..15 /\ W[n + 1] = w
    BY <1>7, <2>1, FirstIsBlock
  <2> HIDE DEF w, b0, v
  <2>3. Put(b0, 0, w) = [j \in 0..15 |-> IF j < 4 THEN w[j] ELSE b0[j]]
    BY <2>2, PutWord
  <2>4. IncLEBy(t, n + 1) = Put(b0, 0, w)
    BY <1>2, <2>2 DEF b0
  <2> QED BY <2>3, <2>4 DEF w
<1> HIDE DEF v, b0
<1>10. IncLE(q) = [j \in 0..15 |-> IF j < 4 /\ \A l \in 0..(j-1) : q[l] = Ones THEN IncByte(q[j]) ELSE q[j]]
  BY DEF IncLE
<1>11. ASSUME NEW j \in 0..15
       PROVE  (IF j < 4 /\ \A l \in 0..(j-1) : q[l] = Ones THEN IncByte(q[j]) ELSE q[j])
                = (IF j < 4 THEN IncWord(v)[j] ELSE b0[j])
  <2>1. CASE j < 4
    <3>1. j \in 0..3 /\ \A l \in 0..(j-1) : l \in 0..15 /\ l < 4
      BY <2>1
    <3>2. q[j] = v[j] /\ \A l \in 0..(j-1) : q[l] = v[l]
      BY <2>1, <3>1
    <3> HIDE DEF q
    <3> QED BY <2>1, <3>1, <3>2 DEF IncWord
  <2>2. CASE ~(j < 4)
    BY <2>2
  <2> QED BY <2>1, <2>2
<1> HIDE DEF q
<1>12. IncLE(q) = [j \in 0..15 |-> IF j < 4 THEN IncWord(v)[j] ELSE b0[j]]
  BY ONLY <1>10, <1>11
<1> QED BY ONLY <1>8, <1>9, <1>12

(***************************************************************************)
(* AES-GCM-SIV as the computation undoes it                                *)
(***************************************************************************)
\* The first n bytes of the ciphertext, the tag counting.
SivStreamed(n) ==
  \A j \in 0..(n - 1) :
    c[j] = job.m[j] (+) E(keys.enc, IncLEBy(tag, j \div 16))[j % 16]

GcmSivRunInv ==
  /\ GcmSivInv
  /\ pc = "derive" => i = 0 /\ y = Zeros(BlockLen)
  /\ pc # "derive" => keys = [auth |-> ghash_init(Derived(0)), enc |-> Schedule(Derived(2))]
  /\ pc = "hash" /\ job.adlen = 0 =>
       /\ i \in 0..(BlocksOf(job.mlen) + 1)
       /\ HashesTo(y, i, job.m, job.mlen, LengthsLE, Derived(0))
  /\ pc \in {"stream", "done"} =>
       /\ job.adlen = 0 => y = ghash(job.m, job.mlen, LengthsLE, Derived(0))
       /\ tag \in Block /\ tag = E(keys.enc, TagInput)
       /\ SivStreamed(i)
  /\ pc = "stream" => /\ i % 16 = 0 \/ i = job.mlen
                      /\ i % 16 = 0 => counter = IncLEBy(tag, i \div 16)
  /\ pc = "done" => i = job.mlen

LEMMA InitGcmSivRunInv == GcmSivInit => GcmSivRunInv
BY InitGcmSivInv DEF GcmSivInit, GcmSivRunInv

LEMMA DeriveRuns == GcmSivRunInv /\ DeriveKeys /\ GcmSivInv' => GcmSivRunInv'
<1> SUFFICES ASSUME GcmSivRunInv, DeriveKeys, GcmSivInv' PROVE GcmSivRunInv'
  OBVIOUS
<1>1. /\ pc = "derive" /\ pc' = "hash" /\ job' = job /\ i' = i /\ i = 0 /\ y' = y /\ y = Zeros(16)
      /\ keys' = [auth |-> ghash_init(Derived(0)), enc |-> Schedule(Derived(2))]
      /\ job \in CallsOf({"gcm_siv"})
  BY DEF DeriveKeys, GcmSivRunInv, GcmSivInv, BlockLen
<1>2. job.mlen \in Nat /\ BlocksOf(job.mlen) \in Nat
  BY <1>1, CallFacts, BlocksOfFacts
<1>3. Derived(0)' = Derived(0) /\ Derived(2)' = Derived(2) /\ LengthsLE' = LengthsLE
  BY <1>1 DEF Derived, DeriveBlock, LengthsLE
<1>4. HashesTo(y', i', job'.m, job'.mlen, LengthsLE', Derived(0)')
  BY <1>1, <1>2, HashBegins
<1>5. i' \in 0..(BlocksOf(job.mlen) + 1)
  BY <1>1, <1>2
<1> QED BY <1>1, <1>3, <1>4, <1>5 DEF GcmSivRunInv

\* What does not change while the hash and the stream run.
LEMMA SivStays ==
  ASSUME job' = job
  PROVE  /\ Derived(0)' = Derived(0) /\ Derived(2)' = Derived(2) /\ LengthsLE' = LengthsLE
         /\ y' = y => TagInput' = TagInput
<1>1. Derived(0)' = Derived(0) /\ Derived(2)' = Derived(2)
  BY DEF Derived, DeriveBlock
<1>2. LengthsLE' = LengthsLE
  BY DEF LengthsLE
<1>3. y' = y => TagInput' = TagInput
  BY DEF TagInput
<1> QED BY <1>1, <1>2, <1>3

LEMMA LengthsLEIsBlock == LengthsLE \in Block
<1>1. LengthsLE \in [0..15 -> SUBSET (0..7)]
  BY NumByteBits DEF LengthsLE, LE64, Zero, BlockLen
<1> QED BY <1>1, BlockIs

LEMMA SivHashRuns ==
  ASSUME BlockCipher
  PROVE  GcmSivRunInv /\ GcmSivHashBlock /\ GcmSivInv' => GcmSivRunInv'
<1> SUFFICES ASSUME GcmSivRunInv, GcmSivHashBlock, GcmSivInv' PROVE GcmSivRunInv'
  OBVIOUS
<1>1. /\ pc = "hash" /\ pc' = pc /\ i' = i + 1 /\ job' = job /\ keys' = keys
      /\ i <= BlocksOf(job.adlen) + BlocksOf(job.mlen)
      /\ y' = ghash_process_block(keys.auth, y, HashInput(job.ad, job.adlen, job.m, job.mlen, LengthsLE, i))
  BY DEF GcmSivHashBlock
<1>2. keys' = [auth |-> ghash_init(Derived(0)), enc |-> Schedule(Derived(2))]'
  BY <1>1, SivStays DEF GcmSivRunInv
<1>3. ASSUME job.adlen = 0
      PROVE  i' \in 0..(BlocksOf(job.mlen) + 1) /\ HashesTo(y, i, job.m, job.mlen, LengthsLE, Derived(0))'
  <2>1. job \in CallsOf({"gcm_siv"}) /\ i \in 0..(BlocksOf(job.mlen) + 1)
        /\ HashesTo(y, i, job.m, job.mlen, LengthsLE, Derived(0))
    BY <1>1, <1>3 DEF GcmSivRunInv, GcmSivInv
  <2>2. BlocksOf(job.adlen) = 0 /\ BlocksOf(job.mlen) \in Nat /\ job.mlen \in Nat
        /\ job.m \in Buffer(job.mlen) /\ LengthsLE \in Block /\ Derived(0) \in Block
    BY <1>3, <2>1, BlocksOfFacts, CallFacts, LengthsLEIsBlock, DerivedFacts
  <2>3. i \in 0..BlocksOf(job.mlen)
    BY <1>1, <2>1, <2>2
  <2>4. y' = ghash_process_block(ghash_init(Derived(0)), y, HashInput(job.ad, 0, job.m, job.mlen, LengthsLE, i))
    BY <1>1, <1>3 DEF GcmSivRunInv
  <2>5. HashesTo(y', i + 1, job.m, job.mlen, LengthsLE, Derived(0))
    BY <2>1, <2>2, <2>3, <2>4, HashGoesOn
  <2>6. i' \in 0..(BlocksOf(job.mlen) + 1)
    BY <1>1, <2>2, <2>3
  <2> QED BY <1>1, <2>5, <2>6, SivStays
<1> QED BY <1>1, <1>2, <1>3 DEF GcmSivRunInv

\* The tag is a block.
LEMMA SivTagIsBlock ==
  ASSUME BlockCipher, GcmSivInv, pc = "hash"
  PROVE  E(keys.enc, TagInput) \in Block
<1>1. job.npub \in [0..11 -> SUBSET (0..7)] /\ y \in [0..15 -> SUBSET (0..7)]
  BY CallFacts, BlockIs DEF GcmSivInv, Buffer, NonceLen, Byte, Bits
<1>2. PICK key \in Block : keys.enc = Schedule(key)
  BY DEF GcmSivInv
<1>3. ASSUME NEW j \in 0..15
      PROVE  (CASE j < 12 -> y[j] (+) job.npub[j]
                [] j \in 12..14 -> y[j]
                [] j = 15 -> y[j] \ {7}) \in SUBSET (0..7)
  <2>1. y[j] \in SUBSET (0..7)
    BY <1>1
  <2>2. CASE j < 12
    <3>1. j \in 0..11 /\ ~(j \in 12..14) /\ j # 15
      BY <2>2
    <3>2. job.npub[j] \in SUBSET (0..7)
      BY <1>1, <3>1
    <3>3. y[j] (+) job.npub[j] \in SUBSET (0..7)
      BY <2>1, <3>2 DEF (+)
    <3> QED BY <2>2, <3>1, <3>3
  <2>3. CASE j \in 12..14
    <3>1. ~(j < 12) /\ j # 15
      BY <2>3
    <3> QED BY <2>1, <2>3, <3>1
  <2>4. CASE j = 15
    <3>1. ~(j < 12) /\ ~(j \in 12..14)
      BY <2>4
    <3> QED BY <2>1, <2>4, <3>1
  <2>5. j < 12 \/ j \in 12..14 \/ j = 15
    OBVIOUS
  <2> QED BY <2>2, <2>3, <2>4, <2>5
<1>4. TagInput = [j \in 0..15 |-> CASE j < 12 -> y[j] (+) job.npub[j]
                                    [] j \in 12..14 -> y[j]
                                    [] j = 15 -> y[j] \ {7}]
  BY DEF TagInput, BlockLen, NonceLen
<1>5. TagInput \in Block
  BY <1>3, <1>4, BlockIs
<1> QED BY <1>2, <1>5 DEF BlockCipher

LEMMA SivTagRuns ==
  ASSUME BlockCipher
  PROVE  GcmSivRunInv /\ GcmSivTag /\ GcmSivInv' => GcmSivRunInv'
<1> SUFFICES ASSUME GcmSivRunInv, GcmSivTag, GcmSivInv' PROVE GcmSivRunInv'
  OBVIOUS
<1>1. /\ pc = "hash" /\ pc' = "stream" /\ i' = 0 /\ job' = job /\ keys' = keys /\ y' = y
      /\ i > BlocksOf(job.adlen) + BlocksOf(job.mlen)
      /\ tag' = E(keys.enc, TagInput) /\ counter' = FirstBlock(tag')
      /\ GcmSivInv
  BY DEF GcmSivTag, FirstBlock, BlockLen, GcmSivRunInv
<1>2. keys' = [auth |-> ghash_init(Derived(0)), enc |-> Schedule(Derived(2))]'
  BY <1>1, SivStays DEF GcmSivRunInv
<1>3. ASSUME job.adlen = 0
      PROVE  y = ghash(job.m, job.mlen, LengthsLE, Derived(0))
  <2>1. job \in CallsOf({"gcm_siv"}) /\ i \in 0..(BlocksOf(job.mlen) + 1)
        /\ HashesTo(y, i, job.m, job.mlen, LengthsLE, Derived(0))
    BY <1>1, <1>3 DEF GcmSivRunInv, GcmSivInv
  <2>2. BlocksOf(job.adlen) = 0 /\ BlocksOf(job.mlen) \in Nat /\ job.mlen \in Nat
    BY <1>3, <2>1, BlocksOfFacts, CallFacts
  <2>3. i = BlocksOf(job.mlen) + 1
    BY <1>1, <2>1, <2>2
  <2> QED BY <2>1, <2>2, <2>3, HashEnds
<1>4. tag' \in Block /\ tag' = E(keys'.enc, TagInput')
  BY <1>1, SivTagIsBlock, SivStays
<1>5. counter' = IncLEBy(tag', 0)
  BY <1>1, <1>4, CountsFrom
<1>6. SivStreamed(0)'
  BY DEF SivStreamed
<1>7. i' % 16 = 0 /\ i' \div 16 = 0
  BY <1>1
<1> QED BY <1>1, <1>2, <1>3, <1>4, <1>5, <1>6, <1>7, SivStays DEF GcmSivRunInv

LEMMA SivStreamRuns ==
  GcmSivRunInv /\ GcmSivStream /\ GcmSivInv' => GcmSivRunInv'
<1> SUFFICES ASSUME GcmSivRunInv, GcmSivStream, GcmSivInv' PROVE GcmSivRunInv'
  OBVIOUS
<1>1. /\ pc = "stream" /\ pc' = pc /\ i < job.mlen /\ i' = i + Chunk
      /\ c' = Put(c, i, XorBlock(Slice(job.m, i, Chunk), E(keys.enc, counter)))
      /\ counter' = IF Chunk = 16 THEN IncLE(counter) ELSE counter
      /\ job' = job /\ keys' = keys /\ y' = y /\ tag' = tag
      /\ job \in CallsOf({"gcm_siv"}) /\ job.mlen \in Nat
      /\ i \in 0..job.mlen /\ DOMAIN c = 0..(i-1)
  BY CallFacts DEF GcmSivStream, GcmSivRunInv, GcmSivInv, GcmSivTypeOK, BlockLen
<1>2. i % 16 = 0 /\ counter = IncLEBy(tag, i \div 16) /\ tag \in Block /\ SivStreamed(i)
  BY <1>1 DEF GcmSivRunInv
<1>3. PICK n \in Nat : n = Chunk /\ n <= job.mlen - i /\ n <= 16 /\ (n = 16 \/ i + n = job.mlen) /\ n > 0
  BY <1>1 DEF Chunk, Min2, BlockLen
<1>4. PICK b \in Nat : b = i \div 16 /\ i = 16 * b
  BY <1>1, <1>2
<1> DEFINE d == XorBlock(Slice(job.m, i, n), E(keys.enc, counter))
<1>5. DOMAIN d = 0..(n-1) /\ \A l \in 0..(n-1) : d[l] = job.m[i + l] (+) E(keys.enc, IncLEBy(tag, b))[l]
  BY <1>2, <1>4 DEF XorBlock, Slice
<1>6. c' = Put(c, i, d)
  BY <1>1, <1>3
<1> HIDE DEF d
<1>7. PICK m : m = i + n
  OBVIOUS
<1>8. Appended(c', c, i, d, m)
  <2>1. i \in Nat /\ DOMAIN c = 0..(i-1)
    BY <1>1
  <2> QED BY ONLY <2>1, n \in Nat, <1>5, <1>6, <1>7, PutAtEnd
<1>9. ASSUME NEW j \in 0..(m - 1)
      PROVE  c'[j] = job.m[j] (+) E(keys.enc, IncLEBy(tag, j \div 16))[j % 16]
  <2>1. CASE j < i
    <3>1. j \in 0..(i - 1)
      BY <1>1, <2>1
    <3> QED BY <1>2, <1>8, <3>1 DEF Appended, SivStreamed
  <2>2. CASE ~(j < i)
    <3>1. j \in i..(m - 1) /\ j - i \in 0..(n - 1) /\ i + (j - i) = j
      BY <1>1, <1>7, <2>2
    <3>2. j \div 16 = b /\ j % 16 = j - i
      BY <1>1, <1>3, <1>4, <1>7, <3>1
    <3>3. c'[j] = d[j - i]
      BY <1>8, <3>1 DEF Appended
    <3> QED BY <1>5, <3>1, <3>2, <3>3
  <2> QED BY <2>1, <2>2
<1>10. i' = m
  BY <1>1, <1>3, <1>7
<1>11. SivStreamed(i)'
  BY <1>1, <1>9, <1>10 DEF SivStreamed
<1>12. i' % 16 = 0 \/ i' = job.mlen
  BY <1>1, <1>2, <1>3, <1>7, <1>10
<1>13. ASSUME i' % 16 = 0 PROVE counter' = IncLEBy(tag, i' \div 16)
  <2>1. n = 16
    BY <1>1, <1>3, <1>4, <1>7, <1>10, <1>13
  <2>2. i' \div 16 = b + 1
    BY <1>4, <1>7, <1>10, <2>1
  <2>3. counter' = IncLE(IncLEBy(tag, b))
    BY <1>1, <1>2, <1>3, <1>4, <2>1
  <2> QED BY <1>2, <2>2, <2>3, CountsMore
<1>14. keys' = [auth |-> ghash_init(Derived(0)), enc |-> Schedule(Derived(2))]'
  BY <1>1, SivStays DEF GcmSivRunInv
<1>15. /\ (job.adlen = 0 => y = ghash(job.m, job.mlen, LengthsLE, Derived(0)))'
       /\ (tag \in Block /\ tag = E(keys.enc, TagInput))'
  BY <1>1, SivStays DEF GcmSivRunInv
<1> QED BY <1>1, <1>11, <1>12, <1>13, <1>14, <1>15 DEF GcmSivRunInv

LEMMA SivReturnRuns == GcmSivRunInv /\ GcmSivReturn /\ GcmSivInv' => GcmSivRunInv'
<1> SUFFICES ASSUME GcmSivRunInv, GcmSivReturn, GcmSivInv' PROVE GcmSivRunInv'
  OBVIOUS
<1>1. /\ pc = "stream" /\ i = job.mlen /\ pc' = "done" /\ i' = i /\ job' = job /\ keys' = keys
      /\ y' = y /\ tag' = tag /\ c' = c
  BY DEF GcmSivReturn
<1>2. keys' = [auth |-> ghash_init(Derived(0)), enc |-> Schedule(Derived(2))]'
  BY <1>1, SivStays DEF GcmSivRunInv
<1>3. /\ (job.adlen = 0 => y = ghash(job.m, job.mlen, LengthsLE, Derived(0)))'
      /\ (tag \in Block /\ tag = E(keys.enc, TagInput))'
  BY <1>1, SivStays DEF GcmSivRunInv
<1>4. SivStreamed(i)'
  BY <1>1 DEF GcmSivRunInv, SivStreamed
<1> QED BY <1>1, <1>2, <1>3, <1>4 DEF GcmSivRunInv

LEMMA NextGcmSivRunInv ==
  ASSUME BlockCipher
  PROVE  GcmSivRunInv /\ [GcmSivNext]_gcmSivVars => GcmSivRunInv'
<1> SUFFICES ASSUME GcmSivRunInv, [GcmSivNext]_gcmSivVars PROVE GcmSivRunInv'
  OBVIOUS
<1>1. GcmSivInv'
  BY NextGcmSivInv DEF GcmSivRunInv
<1>2. CASE GcmSivNext
  BY <1>1, <1>2, DeriveRuns, SivHashRuns, SivTagRuns, SivStreamRuns, SivReturnRuns DEF GcmSivNext
<1>3. CASE UNCHANGED gcmSivVars
  <2>1. /\ job' = job /\ pc' = pc /\ i' = i /\ keys' = keys /\ y' = y /\ tag' = tag /\ c' = c
        /\ counter' = counter
    BY <1>3 DEF gcmSivVars
  <2>3. SivStreamed(i)' <=> SivStreamed(i)
    BY <2>1 DEF SivStreamed
  <2> QED BY <1>1, <2>1, <2>3, SivStays DEF GcmSivRunInv
<1> QED BY <1>2, <1>3

(***************************************************************************)
(* Its keys, as the computation derives them                               *)
(***************************************************************************)
LEMMA NumberBytes ==
  /\ 256^0 = 1 /\ 256^1 = 256 /\ 256^2 = 65536 /\ 256^3 = 16777216
  /\ \A v \in 0..3 : /\ (v \div 256^0) % 256 = v
                     /\ \A j \in 1..3 : (v \div 256^j) % 256 = 0
<1>1. 256^0 = 1 /\ 256^1 = 256 /\ 256^2 = 65536 /\ 256^3 = 16777216
  OBVIOUS
<1>2. ASSUME NEW v \in 0..3
      PROVE  (v \div 256^0) % 256 = v /\ \A j \in 1..3 : (v \div 256^j) % 256 = 0
  <2>1. (v \div 1) % 256 = v /\ (v \div 256) % 256 = 0 /\ (v \div 65536) % 256 = 0
        /\ (v \div 16777216) % 256 = 0
    OBVIOUS
  <2>2. \A j \in 1..3 : j = 1 \/ j = 2 \/ j = 3
    OBVIOUS
  <2> QED BY ONLY <1>1, <2>1, <2>2
<1> QED BY ONLY <1>1, <1>2

LEMMA DeriveBlockIs ==
  ASSUME job.npub \in Buffer(NonceLen), NEW v \in 0..3
  PROVE  Behind(LE(v, 4), 4, job.npub) = DeriveBlock(v)
<1>1. DOMAIN LE(v, 4) = 0..(4 - 1) /\ DOMAIN job.npub = 0..(15 - 4) /\ 4 \in 0..16
  BY DEF LE, Buffer, NonceLen
<1>2. Behind(LE(v, 4), 4, job.npub)
        = [j \in 0..15 |-> IF j < 4 THEN LE(v, 4)[j] ELSE job.npub[j - 4]]
  <2> DEFINE a == LE(v, 4)
             b == job.npub
  <2>1. DOMAIN a = 0..(4 - 1) /\ DOMAIN b = 0..(15 - 4) /\ 4 \in 0..16
    BY <1>1
  <2> HIDE DEF a, b
  <2>2. Behind(a, 4, b) = [j \in 0..15 |-> IF j < 4 THEN a[j] ELSE b[j - 4]]
    BY <2>1, BehindIs
  <2> QED BY <2>2 DEF a, b
<1>3. \A j \in 0..3 : LE(v, 4)[j] = NumByte((v \div 256^j) % 256)
  <2>1. \A j \in 0..3 : ~(j > 3) /\ j \in 0..(4 - 1)
    OBVIOUS
  <2> QED BY <2>1 DEF LE
<1>4. LE(v, 4)[0] = NumByte(v) /\ \A j \in 1..3 : LE(v, 4)[j] = Zero
  <2>1. \A j \in 1..3 : j \in 0..3
    OBVIOUS
  <2> QED BY <1>3, <2>1, NumberBytes, BytesOfZero DEF Zero
<1>5. DeriveBlock(v) = [j \in 0..15 |-> CASE j = 0 -> NumByte(v)
                                           [] j \in 1..3 -> Zero
                                           [] j > 3 -> job.npub[j - 4]]
  BY DEF DeriveBlock, BlockLen
<1>6. ASSUME NEW j \in 0..15
      PROVE  (IF j < 4 THEN LE(v, 4)[j] ELSE job.npub[j - 4])
               = (CASE j = 0 -> NumByte(v) [] j \in 1..3 -> Zero [] j > 3 -> job.npub[j - 4])
  <2>1. CASE j = 0
    <3>1. j < 4 /\ ~(j \in 1..3) /\ ~(j > 3)
      BY <2>1
    <3> QED BY ONLY <2>1, <3>1, <1>4
  <2>2. CASE j \in 1..3
    <3>1. j < 4 /\ j # 0 /\ ~(j > 3)
      BY <2>2
    <3> QED BY ONLY <2>2, <3>1, <1>4
  <2>3. CASE j > 3
    <3>1. ~(j < 4) /\ j # 0 /\ ~(j \in 1..3)
      BY <2>3
    <3> QED BY ONLY <2>3, <3>1
  <2>4. j = 0 \/ j \in 1..3 \/ j > 3
    OBVIOUS
  <2> QED BY <2>1, <2>2, <2>3, <2>4
<1> QED BY ONLY <1>2, <1>5, <1>6

LEMMA HalvesAre ==
  ASSUME job.npub \in Buffer(NonceLen), NEW v \in {0, 2}
  PROVE  Behind(Half(job.k, job.npub, v), 8, Half(job.k, job.npub, v + 1)) = Derived(v)
<1> DEFINE a == Half(job.k, job.npub, v)
           b == Half(job.k, job.npub, v + 1)
<1>1. v \in 0..3 /\ v + 1 \in 0..3
  OBVIOUS
<1>2. a = Slice(E(job.k, DeriveBlock(v)), 0, 8) /\ b = Slice(E(job.k, DeriveBlock(v + 1)), 0, 8)
  BY <1>1, DeriveBlockIs DEF Half
<1> HIDE DEF a, b
<1>3. /\ DOMAIN a = 0..(8 - 1) /\ DOMAIN b = 0..(15 - 8) /\ 8 \in 0..16
      /\ \A j \in 0..7 : a[j] = E(job.k, DeriveBlock(v))[j] /\ b[j] = E(job.k, DeriveBlock(v + 1))[j]
  BY <1>2 DEF Slice
<1>4. Behind(a, 8, b) = [j \in 0..15 |-> IF j < 8 THEN a[j] ELSE b[j - 8]]
  BY <1>3, BehindIs
<1>5. Derived(v) = [j \in 0..15 |-> IF j < 8 THEN E(job.k, DeriveBlock(v))[j]
                                             ELSE E(job.k, DeriveBlock(v + 1))[j - 8]]
  BY DEF Derived, BlockLen
<1>6. \A j \in 0..15 : (j < 8 => j \in 0..7) /\ (~(j < 8) => j - 8 \in 0..7)
  OBVIOUS
<1>7. Behind(a, 8, b) = Derived(v)
  BY ONLY <1>3, <1>4, <1>5, <1>6
<1> QED BY <1>7 DEF a, b

LEMMA LengthsLEIs ==
  ASSUME job.adlen = 0
  PROVE  LengthsLE = Behind(LE(0, 8), 8, LE(8 * job.mlen, 8))
<1>1. DOMAIN LE(0, 8) = 0..7 /\ DOMAIN LE(8 * job.mlen, 8) = 0..7
  BY DEF LE
<1>2. Behind(LE(0, 8), 8, LE(8 * job.mlen, 8))
        = [j \in 0..15 |-> IF j < 8 THEN LE(0, 8)[j] ELSE LE(8 * job.mlen, 8)[j - 8]]
  <2> DEFINE a == LE(0, 8)
             b == LE(8 * job.mlen, 8)
  <2>1. DOMAIN a = 0..(8 - 1) /\ DOMAIN b = 0..(15 - 8) /\ 8 \in 0..16
    BY <1>1
  <2> HIDE DEF a, b
  <2>2. Behind(a, 8, b) = [j \in 0..15 |-> IF j < 8 THEN a[j] ELSE b[j - 8]]
    BY <2>1, BehindIs
  <2> QED BY <2>2 DEF a, b
<1>3. \A v : \A j \in 0..7 : LE(v, 8)[j] = LE64(v, j)
  BY DEF LE, LE64
<1>4. 8 * job.adlen = 0
  OBVIOUS
<1>5. \A j \in 0..15 : (j < 8 => j \in 0..7) /\ (~(j < 8) => j - 8 \in 0..7)
  OBVIOUS
<1>6. LengthsLE = [j \in 0..15 |-> IF j < 8 THEN LE64(0, j) ELSE LE64(8 * job.mlen, j - 8)]
  BY <1>4 DEF LengthsLE, BlockLen
<1> QED BY ONLY <1>2, <1>3, <1>5, <1>6

\* What the computation returns, its keys, message and hash given names.
SivReturns(ks, nonce, len, t, m, s) ==
  [check |-> tag_check(t, E(ks.enc, [j \in 0..15 |-> CASE j < NonceLen     -> s[j] (+) nonce[j]
                                                       [] j \in NonceLen..14 -> s[j]
                                                       [] j = 15           -> s[j] \ {7}])),
   m |-> m]
SivWith(ks, nonce, len, t, m) ==
  SivReturns(ks, nonce, len, t, m, ghash(m, len, Behind(LE(0, 8), 8, LE(8 * len, 8)), ks.auth))
SivUnder(ks, nonce, cipher, len, t) ==
  Once(aes_ctr_dec(ks.enc, [b \in 0..(BlocksOf(len) - 1) |-> IncLEBy(t, b)], cipher, len),
       LAMBDA m : SivWith(ks, nonce, len, t, m))

LEMMA SivUnderIs ==
  ASSUME NEW ks, NEW nonce, NEW cipher, NEW len, NEW t
  PROVE  SivUnder(ks, nonce, cipher, len, t)
           = SivWith(ks, nonce, len, t,
               aes_ctr_dec(ks.enc, [b \in 0..(BlocksOf(len) - 1) |-> IncLEBy(t, b)], cipher, len))
BY DEF SivUnder, Once

LEMMA SivDecryptIs ==
  ASSUME NEW k, NEW nonce, NEW cipher, NEW len, NEW t
  PROVE  aes_gcm_siv_128_decrypt(k, nonce, cipher, len, t)
           = SivUnder(derive_keys(k, nonce), nonce, cipher, len, t)
<1>1. aes_gcm_siv_128_decrypt(k, nonce, cipher, len, t)
        = CHOOSE r \in {SivUnder(q, nonce, cipher, len, t) : q \in {e \in {derive_keys(k, nonce)} : e = e}} : TRUE
  BY DEF aes_gcm_siv_128_decrypt, Once, SivUnder, SivWith, SivReturns
<1> DEFINE ks == derive_keys(k, nonce)
<1>2. {SivUnder(q, nonce, cipher, len, t) : q \in {e \in {ks} : e = e}} = {SivUnder(ks, nonce, cipher, len, t)}
  <2> HIDE DEF ks
  <2> QED OBVIOUS
<1> QED BY <1>1, <1>2

LEMMA SivDecrypts ==
  ASSUME BlockCipher, GcmSivRunInv, pc = "done", job.adlen = 0
  PROVE  aes_gcm_siv_128_decrypt(job.k, job.npub, c, job.mlen, tag) = [check |-> 1, m |-> job.m]
<1>1. /\ job \in CallsOf({"gcm_siv"}) /\ SivStreamed(job.mlen)
      /\ keys = [auth |-> ghash_init(Derived(0)), enc |-> Schedule(Derived(2))]
      /\ y = ghash(job.m, job.mlen, LengthsLE, Derived(0))
      /\ tag = E(keys.enc, TagInput)
  BY DEF GcmSivRunInv, GcmSivInv
<1>2. job.mlen \in Nat /\ job.m \in Buffer(job.mlen) /\ job.npub \in Buffer(NonceLen)
  BY <1>1, CallFacts
<1> DEFINE ks == derive_keys(job.k, job.npub)
           blocks == [b \in 0..(BlocksOf(job.mlen) - 1) |-> IncLEBy(tag, b)]
<1>3. ks.auth = Derived(0) /\ ks.enc = keys.enc
  <2>1. /\ Behind(Half(job.k, job.npub, 0), 8, Half(job.k, job.npub, 1)) = Derived(0)
        /\ Behind(Half(job.k, job.npub, 2), 8, Half(job.k, job.npub, 3)) = Derived(2)
    <3>1. 0 + 1 = 1 /\ 2 + 1 = 3
      OBVIOUS
    <3>2. /\ Behind(Half(job.k, job.npub, 0), 8, Half(job.k, job.npub, 0 + 1)) = Derived(0)
          /\ Behind(Half(job.k, job.npub, 2), 8, Half(job.k, job.npub, 2 + 1)) = Derived(2)
      BY <1>2, HalvesAre
    <3> QED BY ONLY <3>1, <3>2
  <2> QED BY <1>1, <2>1 DEF derive_keys
<1>4. aes_ctr_dec(ks.enc, blocks, c, job.mlen) = job.m
  <2>1. \A j \in 0..(job.mlen - 1) : blocks[j \div 16] = IncLEBy(tag, j \div 16)
    BY <1>2, InBlocks
  <2> HIDE DEF blocks, ks
  <2>2. \A j \in 0..(job.mlen - 1) : c[j] = job.m[j] (+) E(ks.enc, blocks[j \div 16])[j % 16]
    BY <1>1, <1>3, <2>1 DEF SivStreamed
  <2> QED BY <1>2, <2>2, CtrDecrypts
<1>5. y = ghash(job.m, job.mlen, Behind(LE(0, 8), 8, LE(8 * job.mlen, 8)), ks.auth)
  <2> HIDE DEF ks
  <2> QED BY <1>1, <1>3, LengthsLEIs
<1>6. TagInput = [j \in 0..15 |-> CASE j < NonceLen     -> y[j] (+) job.npub[j]
                                     [] j \in NonceLen..14 -> y[j]
                                     [] j = 15           -> y[j] \ {7}]
  BY DEF TagInput, BlockLen
<1> HIDE DEF ks
<1>7. aes_gcm_siv_128_decrypt(job.k, job.npub, c, job.mlen, tag)
        = [check |-> tag_check(tag, E(ks.enc, TagInput)), m |-> job.m]
  <2>1. ks = derive_keys(job.k, job.npub)
    BY DEF ks
  <2>2. aes_gcm_siv_128_decrypt(job.k, job.npub, c, job.mlen, tag) = SivUnder(ks, job.npub, c, job.mlen, tag)
    BY <2>1, SivDecryptIs
  <2>3. SivUnder(ks, job.npub, c, job.mlen, tag) = SivWith(ks, job.npub, job.mlen, tag, job.m)
    BY <1>4, SivUnderIs
  <2>4. SivWith(ks, job.npub, job.mlen, tag, job.m) = SivReturns(ks, job.npub, job.mlen, tag, job.m, y)
    BY <1>5 DEF SivWith
  <2> QED BY <1>6, <2>2, <2>3, <2>4 DEF SivReturns
<1> HIDE DEF blocks
<1> QED BY ONLY <1>1, <1>3, <1>7, SameTag
=============================================================================
