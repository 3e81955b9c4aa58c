---------------------------- MODULE BlocksProofs ----------------------------
(***************************************************************************)
(* What the operators on bytes, buffers and blocks return.                 *)
(***************************************************************************)
EXTENDS Blocks, Sequences, FiniteSetTheorems, TLAPS

\* What a block cipher with keys of one block gives; theorems suppose it.
BlockCipher == \A k, x \in Block : E(Schedule(k), x) \in Block

\* Adding the same byte twice changes nothing.
LEMMA XorTwice == \A a, b : (a (+) b) (+) b = a
BY DEF (+)

LEMMA XorCommutes == \A a, b : a (+) b = b (+) a
BY DEF (+)

\* out is the k elements of b, and behind them those of d, m in all.
Appended(out, b, k, d, m) ==
  /\ DOMAIN out = 0..(m - 1)
  /\ out = [j \in DOMAIN out |-> out[j]]
  /\ \A j \in 0..(k-1) : out[j] = b[j]
  /\ \A j \in k..(m - 1) : out[j] = d[j - k]

\* A buffer that is written to at its end.
LEMMA PutAtEnd ==
  ASSUME NEW k \in Nat, NEW n \in Nat, NEW b, NEW d,
         DOMAIN b = 0..(k-1), DOMAIN d = 0..(n-1), NEW m, m = k + n
  PROVE  Appended(Put(b, k, d), b, k, d, m)
<1> DEFINE out == Put(b, k, d)
<1>1. {k + l : l \in DOMAIN d} = k..(k + n - 1)
  <2>1. \A l \in 0..(n-1) : k + l \in k..(k + n - 1)
    OBVIOUS
  <2>2. \A j \in k..(k + n - 1) : j - k \in 0..(n-1) /\ j = k + (j - k)
    OBVIOUS
  <2> QED BY <2>1, <2>2
<1>2. (DOMAIN b) \cup {k + l : l \in DOMAIN d} = 0..(k + n - 1)
  <2>1. (0..(k-1)) \cup (k..(k + n - 1)) = 0..(k + n - 1)
    OBVIOUS
  <2> QED BY <1>1, <2>1
<1>3. out = [j \in 0..(k + n - 1) |-> IF (j - k) \in 0..(n-1) THEN d[j - k] ELSE b[j]]
  BY <1>2 DEF Put
<1>4. \A j \in 0..(k-1) : j \in 0..(k + n - 1) /\ (j - k) \notin 0..(n-1)
  OBVIOUS
<1>5. \A j \in k..(k + n - 1) : j \in 0..(k + n - 1) /\ (j - k) \in 0..(n-1)
  OBVIOUS
<1>6. /\ DOMAIN out = 0..(k + n - 1)
      /\ out = [j \in DOMAIN out |-> out[j]]
      /\ \A j \in 0..(k-1) : out[j] = b[j]
      /\ \A j \in k..(k + n - 1) : out[j] = d[j - k]
  BY <1>3, <1>4, <1>5
<1> QED BY <1>6 DEF Appended

\* Of n bytes those from i up to m are in one block, and the next one is in the
\* next block.
InOneBlock(n, i, m) ==
  /\ m \in 0..n /\ m > i
  /\ m % 16 = 0 \/ m = n
  /\ BlocksOf(i) = i \div 16 /\ BlocksOf(m) = BlocksOf(i) + 1
  /\ BlocksOf(i) \in Nat
  /\ \A j \in i..(m - 1) : j \div 16 = BlocksOf(i) /\ j % 16 = j - i
  /\ \A j \in 0..(i - 1) : j \div 16 < BlocksOf(i) /\ j \div 16 \in Nat

\* The next chunk of n bytes, of which at most a block is taken at a time.
LEMMA ChunkFacts ==
  ASSUME NEW n \in Nat, NEW i \in 0..n, i < n, i % 16 = 0,
         NEW m, m = i + Min2(n - i, 16)
  PROVE  InOneBlock(n, i, m)
<1> DEFINE q == i \div 16
<1>1. q \in Nat /\ i = 16 * q
  OBVIOUS
<1>2. BlocksOf(i) = q
  BY <1>1 DEF BlocksOf, BlockLen
<1>3. \A j \in 0..(i - 1) : j \div 16 < q /\ j \div 16 \in Nat
  BY <1>1
<1>4. CASE n - i <= 16
  <2>1. m = n
    BY <1>4 DEF Min2
  <2>2. (n + 16 - 1) \div 16 = q + 1
    BY <1>1, <1>4
  <2>3. \A j \in i..(n - 1) : j \div 16 = q /\ j % 16 = j - i
    BY <1>1, <1>4
  <2>4. i + (n - i) = n
    OBVIOUS
  <2> QED BY <1>2, <1>3, <2>1, <2>2, <2>3, <2>4 DEF InOneBlock, BlocksOf, BlockLen
<1>5. CASE ~(n - i <= 16)
  <2>1. m = i + 16
    BY <1>5 DEF Min2
  <2>2. (i + 16 + 16 - 1) \div 16 = q + 1 /\ (i + 16) % 16 = 0
    BY <1>1
  <2>3. \A j \in i..(i + 16 - 1) : j \div 16 = q /\ j % 16 = j - i
    BY <1>1
  <2> QED BY <1>2, <1>3, <1>5, <2>1, <2>2, <2>3 DEF InOneBlock, BlocksOf, BlockLen
<1> QED BY <1>4, <1>5

\* A sequence of which no two elements are the same.
Distinct(s) == \A a, b \in 1..Len(s) : a # b => s[a] # s[b]

\* It goes on with an element that is not among them.
LEMMA AppendDistinct ==
  ASSUME NEW T, NEW s \in Seq(T), NEW x \in T, Distinct(s),
         \A k \in 1..Len(s) : s[k] # x
  PROVE  Distinct(Append(s, x))
<1>1. Len(Append(s, x)) = Len(s) + 1 /\ Len(s) \in Nat
  OBVIOUS
<1>2. \A k \in 1..Len(s) : Append(s, x)[k] = s[k]
  OBVIOUS
<1>3. Append(s, x)[Len(s) + 1] = x
  OBVIOUS
<1> SUFFICES ASSUME NEW a \in 1..(Len(s) + 1), NEW b \in 1..(Len(s) + 1), a # b
             PROVE  Append(s, x)[a] # Append(s, x)[b]
  BY <1>1 DEF Distinct
<1>4. CASE a = Len(s) + 1
  <2>1. b \in 1..Len(s)
    BY <1>1, <1>4
  <2> QED BY <1>2, <1>3, <1>4, <2>1
<1>5. CASE b = Len(s) + 1
  <2>1. a \in 1..Len(s)
    BY <1>1, <1>5
  <2> QED BY <1>2, <1>3, <1>5, <2>1
<1>6. CASE a # Len(s) + 1 /\ b # Len(s) + 1
  <2>1. a \in 1..Len(s) /\ b \in 1..Len(s)
    BY <1>1, <1>6
  <2> QED BY <1>2, <2>1 DEF Distinct
<1> QED BY <1>4, <1>5, <1>6

\* All elements of a sequence are in S.
AllOf(s, S) == \A k \in 1..Len(s) : s[k] \in S

\* s is t with one element of C more, the elements being distinct and in T.
AskedMore(t, s, C, T) == t \in Seq(C) /\ Distinct(t) /\ AllOf(t, T)

LEMMA Another ==
  ASSUME NEW C, NEW s \in Seq(C), Distinct(s), NEW x \in C,
         NEW S, AllOf(s, S), x \notin S, NEW T, S \subseteq T, x \in T,
         NEW t, t = Append(s, x)
  PROVE  AskedMore(t, s, C, T)
<1>1. \A k \in 1..Len(s) : s[k] # x
  BY DEF AllOf
<1>2. t \in Seq(C) /\ Distinct(t)
  BY <1>1, AppendDistinct
<1>3. Len(t) = Len(s) + 1 /\ Len(s) \in Nat
  OBVIOUS
<1>4. \A k \in 1..Len(s) : t[k] = s[k]
  OBVIOUS
<1>5. t[Len(s) + 1] = x
  OBVIOUS
<1>6. ASSUME NEW k \in 1..Len(t) PROVE t[k] \in T
  <2>1. CASE k = Len(s) + 1
    BY <2>1, <1>5
  <2>2. CASE k # Len(s) + 1
    <3>1. k \in 1..Len(s)
      BY <2>2, <1>3
    <3> QED BY <3>1, <1>4 DEF AllOf
  <2> QED BY <2>1, <2>2
<1> QED BY <1>2, <1>6 DEF AskedMore, AllOf

(***************************************************************************)
(* Lengths and counters                                                    *)
(***************************************************************************)
LEMMA BlocksOfFacts ==
  /\ BlocksOf(0) = 0
  /\ \A n \in Nat : BlocksOf(n) \in Nat /\ (n > 0 => BlocksOf(n) > 0)
BY DEF BlocksOf, BlockLen

LEMMA BlocksOfLess ==
  ASSUME NEW n \in Nat, NEW k \in 0..n, k % 16 = 0, k < n
  PROVE  BlocksOf(k) < BlocksOf(n)
<1>1. k = 16 * (k \div 16) /\ k \div 16 \in Nat
  OBVIOUS
<1>2. (k + 16 - 1) \div 16 = k \div 16
  BY <1>1
<1>3. (n + 16 - 1) \div 16 >= (k \div 16) + 1
  BY <1>1
<1> QED BY <1>2, <1>3 DEF BlocksOf, BlockLen

\* The arguments of a call of one of the modes.
LEMMA CallFacts ==
  ASSUME NEW modes, NEW args \in CallsOf(modes)
  PROVE  /\ args.mode \in modes
         /\ \E key \in Block : args.k = Schedule(key)
         /\ args.mlen \in Nat /\ args.m \in Buffer(args.mlen)
         /\ args.adlen \in Nat /\ args.ad \in Buffer(args.adlen)
         /\ args.npub \in Buffer(NonceLen)
<1>1. PICK call \in Jobs : call.mode \in modes /\ args = [call EXCEPT !.k = Schedule(@)]
  BY DEF CallsOf
<1>2. /\ {"mode", "k", "npub", "ad", "adlen", "m", "mlen"} \subseteq DOMAIN call
      /\ call.mlen \in Nat /\ call.adlen \in Nat
      /\ call.m \in Buffer(call.mlen) /\ call.ad \in Buffer(call.adlen)
      /\ call.npub \in Buffer(NonceLen)
  BY <1>1, JobsAssumption
<1>3. \A x \in {"mode", "npub", "ad", "adlen", "m", "mlen"} : args[x] = call[x]
  BY <1>1, <1>2
<1>4. /\ args.mode = call.mode /\ args.npub = call.npub
      /\ args.ad = call.ad /\ args.adlen = call.adlen
      /\ args.m = call.m /\ args.mlen = call.mlen
  BY <1>3
<1>5. call.k \in Block /\ args.k = Schedule(call.k)
  BY <1>1, JobsAssumption
<1> QED BY <1>1, <1>2, <1>4, <1>5

\* A counter block is told by its nonce and its word.
LEMMA CounterTells ==
  \A n1, w1, n2, w2 : Counter(n1, w1) = Counter(n2, w2) <=> n1 = n2 /\ w1 = w2
BY DEF Counter

(***************************************************************************)
(* Counting modulo a constant                                              *)
(***************************************************************************)
LEMMA DivUnique ==
  ASSUME NEW W \in Nat, W > 0, NEW x \in Nat, NEW q \in Nat, NEW r \in 0..(W-1),
         x = q * W + r
  PROVE  x % W = r
<1>1. PICK s \in Int, t \in 0..(W-1) : s = x \div W /\ t = x % W /\ x = W * s + t
  OBVIOUS
<1>2. q * W - s * W = t - r
  BY <1>1
<1>3. (q - s) * W = t - r
  BY <1>1, <1>2
<1>4. q - s < 1
  <2> SUFFICES ASSUME q - s >= 1 PROVE FALSE
    BY <1>1
  <2>1. (q - s) * W >= W
    BY <1>1
  <2> QED BY <2>1, <1>1, <1>3
<1>5. q - s > -1
  <2> SUFFICES ASSUME q - s <= -1 PROVE FALSE
    BY <1>1
  <2>1. (q - s) * W <= -W
    BY <1>1
  <2> QED BY <2>1, <1>1, <1>3
<1>6. q = s
  BY <1>1, <1>4, <1>5
<1> QED BY <1>1, <1>6, <1>2

\* Counting on from what has been reduced is counting on.
LEMMA ModSucc ==
  ASSUME NEW W \in Nat, W > 0, NEW x \in Nat
  PROVE  ((x % W) + 1) % W = (x + 1) % W
<1>1. PICK s \in Nat, t \in 0..(W-1) : s = x \div W /\ t = x % W /\ x = W * s + t
  OBVIOUS
<1>2. CASE t + 1 < W
  <2>1. (x+1) % W = t + 1
    <3>1. t + 1 \in 0..(W-1) /\ x + 1 = s * W + (t + 1) /\ x + 1 \in Nat
      BY <1>1, <1>2
    <3> QED BY <3>1, DivUnique
  <2>2. (t + 1) % W = t + 1
    BY <1>1, <1>2
  <2> QED BY <1>1, <2>1, <2>2
<1>3. CASE t + 1 = W
  <2>1. (x+1) % W = 0
    <3>1. 0 \in 0..(W-1) /\ s + 1 \in Nat /\ x + 1 = (s + 1) * W + 0 /\ x + 1 \in Nat
      BY <1>1, <1>3
    <3> QED BY <3>1, DivUnique
  <2>2. (t + 1) % W = 0
    BY <1>1, <1>3
  <2> QED BY <1>1, <2>1, <2>2
<1> QED BY <1>1, <1>2, <1>3

(***************************************************************************)
(* Sums of many                                                            *)
(***************************************************************************)
LEMMA XorAllOne == ASSUME NEW x, NEW f PROVE XorAll({x}, f) = f[x]
<1>1. ASSUME NEW q, q \in f[x] PROVE {s \in {x} : q \in f[s]} = {x}
  BY <1>1
<1>2. Cardinality({x}) % 2 = 1
  BY FS_Singleton
<1> QED BY <1>1, <1>2 DEF XorAll

\* One more goes into a sum.
LEMMA XorAllMore ==
  ASSUME NEW S, IsFiniteSet(S), NEW x, x \notin S, NEW f, NEW g, \A s \in S : g[s] = f[s]
  PROVE  XorAll(S \cup {x}, g) = XorAll(S, f) (+) g[x]
<1> SUFFICES ASSUME NEW q
             PROVE  q \in XorAll(S \cup {x}, g) <=> q \in XorAll(S, f) (+) g[x]
  OBVIOUS
<1> DEFINE A == {s \in S : q \in f[s]}
           B == {s \in S \cup {x} : q \in g[s]}
<1>1. IsFiniteSet(A) /\ Cardinality(A) \in Nat
  BY FS_Subset, FS_CardinalityType
<1>2. q \in XorAll(S, f) <=> Cardinality(A) % 2 = 1
  <2>1. Cardinality(A) % 2 = 1 => \E s \in S : q \in f[s]
    BY FS_EmptySet, <1>1
  <2> QED BY <2>1 DEF XorAll
<1>3. q \in XorAll(S \cup {x}, g) <=> Cardinality(B) % 2 = 1
  <2>0. IsFiniteSet(S \cup {x})
    BY FS_AddElement
  <2>1. IsFiniteSet(B)
    BY <2>0, FS_Subset
  <2>2. Cardinality(B) % 2 = 1 => \E s \in S \cup {x} : q \in g[s]
    BY FS_EmptySet, <2>1
  <2> QED BY <2>2 DEF XorAll
<1>4. CASE q \in g[x]
  <2>1. B = A \cup {x} /\ x \notin A
    BY <1>4
  <2>2. Cardinality(B) = Cardinality(A) + 1
    BY <2>1, <1>1, FS_AddElement
  <2>3. (Cardinality(A) + 1) % 2 = 1 <=> ~(Cardinality(A) % 2 = 1)
    BY <1>1
  <2> QED BY <1>2, <1>3, <1>4, <2>2, <2>3 DEF (+)
<1>5. CASE q \notin g[x]
  <2>1. B = A
    BY <1>5
  <2> QED BY <1>2, <1>3, <1>5, <2>1 DEF (+)
<1> QED BY <1>4, <1>5

(***************************************************************************)
(* The counter block in memory                                             *)
(***************************************************************************)
LEMMA RawLEIsBlock ==
  ASSUME NEW n \in Buffer(NonceLen), NEW w
  PROVE  RawLE(Counter(n, w)) \in Block
<1>1. n \in [0..11 -> Byte]
  BY DEF Buffer, NonceLen
<1>2. \A v : NumByte(v) \in Byte
  BY DEF NumByte, Byte
<1>3. Counter(n, w).n = n
  BY DEF Counter
<1>4. \A j \in 0..15 : j < 12 => j \in 0..11
  OBVIOUS
<1> QED BY <1>1, <1>2, <1>3, <1>4 DEF RawLE, WithWord, Block, Buffer, BlockLen, NonceLen
=============================================================================
