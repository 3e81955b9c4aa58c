---------------------------- MODULE GeneratorProofs ----------------------------
(***************************************************************************)
(* Proofs about Generator for all command lines: its loops keep their      *)
(* bounds, a vector is determined by its place in the stream of rand(),    *)
(* no two vectors of one message length share bytes of that stream, and    *)
(* the script, whenever it reads the output, gets what was generated.      *)
(*                                                                         *)
(* The inductive invariant InPlace says where in the stream the generator  *)
(* is: at a multiple of the number of bytes that one vector takes.  OutOK  *)
(* says what stands on stdout: ten strings and delimiters for each vector  *)
(* made, and half a line or an error message after them.  Counted says     *)
(* which of the vectors asked for have been made.                          *)
(***************************************************************************)
EXTENDS Generator, FiniteSetTheorems, SequenceTheorems, TLAPS

(* Random bytes that one vector takes.                                     *)
Size(p, mlen) == mlen + p.keylen + p.noncelen

(* The vectors that may be made of the k-th piece of the stream.           *)
VectorAt(p, mlen, k) ==
  Encrypted(p, Random(k * Size(p, mlen), mlen),
               Random(k * Size(p, mlen) + mlen, p.keylen),
               Random(k * Size(p, mlen) + mlen + p.keylen, p.noncelen))

InLoop == pc \in {"sample", "check", "cipher"}

InPlace ==
  LET p == Mode(args.primitive)
      m == MLen(args, pair)
  IN  /\ pc = "generate" \/ InLoop => Supported(args.primitive)
      /\ InLoop => pair <= Pairs(args)
      /\ pc = "sample" => pos = sample * Size(p, m)
      /\ pc \in {"check", "cipher"} =>
           cur \in VectorAt(p, m, sample) /\ pos = (sample + 1) * Size(p, m)
      /\ \A i \in DOMAIN made :
           /\ Supported(args.primitive) /\ made[i].index \in Nat
           /\ \E n \in Nat : made[i].vec \in VectorAt(p, n, made[i].index)
-----------------------------------------------------------------------------
(* A supported name takes the first branch that it fits.                   *)
LEMMA BranchLemma ==
  ASSUME NEW name, Supported(name)
  PROVE  Branch(name) \in DOMAIN Primitives /\ Names(Primitives[Branch(name)], name)
<1>. DEFINE q(i) == Names(Primitives[i], name)
            First(i) == q(i) /\ \A j \in 1 .. i - 1 : ~q(j)
<1>1. DOMAIN Primitives = 1 .. 8
  BY DEF Primitives
<1>2. \E i \in 1 .. 8 : q(i)
  BY <1>1 DEF Supported
<1>. HIDE DEF q
<1>3. \E i \in 1 .. 8 : First(i)
  BY <1>2
<1>4. Branch(name) = CHOOSE i \in 1 .. 8 : First(i)
  BY <1>1 DEF Branch, q
<1>. HIDE DEF First
<1>5. Branch(name) \in 1 .. 8 /\ First(Branch(name))
  BY <1>3, <1>4
<1>. QED  BY <1>1, <1>5 DEF First, q

LEMMA ModeLemma ==
  ASSUME NEW name, Supported(name)
  PROVE  /\ Mode(name) \in Range(Primitives)
         /\ Mode(name).keylen \in Nat \ {0} /\ Mode(name).noncelen \in Nat \ {0}
<1>1. Branch(name) \in DOMAIN Primitives
  BY BranchLemma
<1>2. Mode(name) \in Range(Primitives)
  BY <1>1 DEF Mode, Range
<1>3. DOMAIN Primitives = 1 .. 8
  BY DEF Primitives
<1>4. \A i \in 1 .. 8 : /\ Primitives[i].keylen \in Nat \ {0}
                        /\ Primitives[i].noncelen \in Nat \ {0}
  BY DEF Primitives, Primitive, GCM_SIV, GCM, POBC, POBC_SIV, HTMAC, PMAC,
         JOLTEON, ESPEON
<1>. QED  BY <1>1, <1>2, <1>3, <1>4 DEF Mode

(* The numbers of a command line.                                          *)
LEMMA ArgsLemma ==
  ASSUME args \in ArgLists
  PROVE  /\ Pairs(args) \in Nat /\ args.nums \in Seq(Int)
         /\ \A i \in 1 .. Pairs(args) : MLen(args, i) \in Nat /\ Samples(args, i) \in Int
<1>1. args.nums \in Seq(Int) /\ Len(args.nums) \in Nat
  BY ArgsAssumption DEF ArgList
<1>2. Pairs(args) \in Nat /\ 2 * Pairs(args) <= Len(args.nums)
  <2>1. ASSUME NEW n \in Nat PROVE n \div 2 \in Nat /\ 2 * (n \div 2) <= n
    OBVIOUS
  <2>. QED  BY <1>1, <2>1 DEF Pairs
<1>3. ASSUME NEW i \in 1 .. Pairs(args)
      PROVE  MLen(args, i) \in Nat /\ Samples(args, i) \in Int
  <2>1. 2 * i - 1 \in 1 .. Len(args.nums) /\ 2 * i \in 1 .. Len(args.nums)
    BY <1>1, <1>2
  <2>4. (2 * i - 1) % 2 = 1
    BY <1>2
  <2>2. args.nums[2 * i - 1] \in Int /\ args.nums[2 * i] \in Int
    BY <1>1, <2>1
  <2>3. args.nums[2 * i - 1] >= 0
    BY <1>1, <2>1, <2>4, ArgsAssumption
  <2>. QED  BY <2>2, <2>3 DEF MLen, Samples
<1>. QED  BY <1>1, <1>2, <1>3

(* What the modes make of random bytes.                                    *)
LEMMA EncryptedLemma ==
  ASSUME NEW p \in Range(Primitives), NEW message \in RandomBytes,
         NEW key \in RandomBytes, NEW nonce \in RandomBytes,
         NEW v \in Encrypted(p, message, key, nonce)
  PROVE  v \in MadeVector
<1>1. p.taglen \in Nat
  <2>1. DOMAIN Primitives = 1 .. 8
    BY DEF Primitives
  <2>2. \A i \in 1 .. 8 : Primitives[i].taglen \in Nat
    BY DEF Primitives, Primitive, GCM_SIV, GCM, POBC, POBC_SIV, HTMAC, PMAC,
           JOLTEON, ESPEON
  <2>. QED  BY <2>1, <2>2 DEF Range
<1>2. message.len \in Nat
  BY DEF RandomBytes
<1>3. EncBlocks(p, message.len) \in Nat
  <2>1. ASSUME NEW n \in Nat PROVE n \div 16 \in Nat /\ (n + 15) \div 16 \in Nat
    OBVIOUS
  <2>. QED  BY <1>2, <2>1 DEF EncBlocks
<1>4. PICK stray \in SUBSET Stray :
        v = [mode |-> p, message |-> message, key |-> key, nonce |-> nonce,
             ct |-> Cipher(p, key, nonce, message),
             tag |-> Tag(p, key, nonce, message, EncBlocks(p, message.len), stray)]
  BY DEF Encrypted
<1>. QED  BY <1>1, <1>2, <1>3, <1>4 DEF MadeVector, Cipher, Tag

LEMMA InitTypeOK == Init => TypeOK
<1>. SUFFICES ASSUME Init PROVE TypeOK
  OBVIOUS
<1>1. Pairs(args) \in Nat
  BY ArgsLemma DEF Init
<1>. QED  BY <1>1 DEF Init, TypeOK

LEMMA StepTypeOK == TypeOK /\ InPlace /\ [Next]_vars => TypeOK'
<1>. SUFFICES ASSUME TypeOK, InPlace, [Next]_vars PROVE TypeOK'
  OBVIOUS
<1>. USE DEF TypeOK
<1>1. Pairs(args) \in Nat
  BY ArgsLemma
<1>2. CASE Usage \/ Unsupported \/ CannotParse \/ CannotCheck \/ CheckFails
  BY <1>2 DEF Usage, Unsupported, CannotParse, CannotCheck, CheckFails, Fail
<1>3. CASE ParseArgs
  BY <1>3 DEF ParseArgs
<1>4. CASE Generate
  BY <1>4 DEF Generate
<1>5. CASE PrintPlain
  <2>1. pair \in 1 .. Pairs(args) /\ Supported(args.primitive)
    BY <1>1, <1>5 DEF PrintPlain, InPlace, InLoop
  <2>2. MLen(args, pair) \in Nat
    BY <2>1, ArgsLemma
  <2>3. Mode(args.primitive).keylen \in Nat /\ Mode(args.primitive).noncelen \in Nat
    BY <2>1, ModeLemma
  <2>4. pos' \in Nat
    <3>. DEFINE p == Mode(args.primitive)
                m == MLen(args, pair)
    <3>1. pos' = pos + m + p.keylen + p.noncelen
      BY <1>5 DEF PrintPlain
    <3>2. m \in Nat /\ p.keylen \in Nat /\ p.noncelen \in Nat /\ pos \in Nat
      BY <2>2, <2>3
    <3>. HIDE DEF p, m
    <3>. QED  BY ONLY <3>1, <3>2
  <2>5. cur' \in MadeVector
    <3>. DEFINE p == Mode(args.primitive)
                m == MLen(args, pair)
    <3>1. cur' \in Encrypted(p, Random(pos, m), Random(pos + m, p.keylen),
                             Random(pos + m + p.keylen, p.noncelen))
      BY <1>5 DEF PrintPlain
    <3>2. p \in Range(Primitives)
      BY <2>1, ModeLemma
    <3>. HIDE DEF p, m
    <3>3. m \in Nat /\ p.keylen \in Nat /\ p.noncelen \in Nat
      BY <2>2, <2>3 DEF p, m
    <3>4. /\ Random(pos, m) \in RandomBytes /\ Random(pos + m, p.keylen) \in RandomBytes
          /\ Random(pos + m + p.keylen, p.noncelen) \in RandomBytes
      BY <3>3 DEF Random, RandomBytes
    <3>. QED  BY <3>1, <3>2, <3>4, EncryptedLemma
  <2>6. pc' \in {"check", "cipher"}
    BY <1>5 DEF PrintPlain, AfterPlain
  <2>7. sample < Samples(args, pair) /\ UNCHANGED <<args, pair, sample, status, made, loaded>>
        /\ pc = "sample"
    BY <1>5 DEF PrintPlain, More
  <2>. QED  BY <2>4, <2>5, <2>6, <2>7
<1>6. CASE CheckPasses
  BY <1>6 DEF CheckPasses
<1>7. CASE PrintCipher
  <2>1. [vec |-> cur, index |-> sample] \in [vec : MadeVector, index : Nat]
    BY <1>7 DEF PrintCipher
  <2>2. made' \in Seq([vec : MadeVector, index : Nat])
    BY <1>7, <2>1 DEF PrintCipher
  <2>. QED  BY <1>7, <2>2 DEF PrintCipher
<1>8. CASE NextPair
  <2>1. pair \in 1 .. Pairs(args)
    BY <1>1, <1>8 DEF NextPair, InPlace, InLoop
  <2>. QED  BY <1>1, <1>8, <2>1 DEF NextPair
<1>9. CASE Done
  BY <1>9 DEF Done
<1>10. CASE Kill
  BY <1>10 DEF Kill
<1>11. CASE Load
  BY <1>11 DEF Load
<1>12. CASE UNCHANGED vars
  BY <1>12 DEF vars
<1>. QED  BY <1>2, <1>3, <1>4, <1>5, <1>6, <1>7, <1>8, <1>9, <1>10, <1>11, <1>12 DEF Next

LEMMA InitInPlace == Init => InPlace
BY DEF Init, InPlace, InLoop

(* Steps that leave the vector buffers and the history alone.              *)
LEMMA KeepsPlace ==
  ASSUME InPlace, UNCHANGED <<args, pair, sample, pos, cur, made>>,
         \/ pc' = pc
         \/ pc' \in {"exit", "killed"}
         \/ pc = "check" /\ pc' = "cipher"
         \/ pc = "main" /\ pc' = "generate" /\ Supported(args.primitive)
  PROVE  InPlace'
BY DEF InPlace, InLoop

LEMMA StepInPlace == TypeOK /\ InPlace /\ [Next]_vars => InPlace'
<1>. SUFFICES ASSUME TypeOK, InPlace, [Next]_vars PROVE InPlace'
  OBVIOUS
<1>1. CASE Usage \/ Unsupported \/ CannotParse \/ CannotCheck \/ CheckFails
  <2>1. pc' = "exit" /\ UNCHANGED <<args, pair, sample, pos, cur, made>>
    BY <1>1 DEF Usage, Unsupported, CannotParse, CannotCheck, CheckFails, Fail
  <2>. QED  BY <2>1, KeepsPlace
<1>2. CASE ParseArgs
  BY <1>2, KeepsPlace DEF ParseArgs
<1>3. CASE Generate
  <2>1. /\ pc = "generate" /\ pc' = "sample" /\ pair <= Pairs(args)
        /\ sample' = 0 /\ pos' = 0 /\ UNCHANGED <<args, pair, made>>
    BY <1>3 DEF Generate
  <2>2. Supported(args.primitive)
    BY <2>1 DEF InPlace
  <2>3. pos' = sample' * Size(Mode(args.primitive), MLen(args, pair))
    <3>1. Size(Mode(args.primitive), MLen(args, pair)) \in Int
      <4>1. MLen(args, pair) \in Nat
        BY <2>1, ArgsLemma DEF TypeOK
      <4>. QED  BY <4>1, <2>2, ModeLemma DEF Size
    <3>. HIDE DEF Size
    <3>. QED  BY <2>1, <3>1
  <2>. QED  BY <2>1, <2>2, <2>3 DEF InPlace, InLoop
<1>4. CASE PrintPlain
  <2>. DEFINE p == Mode(args.primitive)
              m == MLen(args, pair)
              z == Size(p, m)
  <2>1. /\ pc = "sample" /\ pc' \in {"check", "cipher"}
        /\ UNCHANGED <<args, pair, sample, made>>
        /\ cur' \in Encrypted(p, Random(pos, m), Random(pos + m, p.keylen),
                              Random(pos + m + p.keylen, p.noncelen))
        /\ pos' = pos + m + p.keylen + p.noncelen
    BY <1>4 DEF PrintPlain, AfterPlain
  <2>2. Supported(args.primitive) /\ pair <= Pairs(args) /\ pos = sample * z
    BY <2>1 DEF InPlace, InLoop
  <2>3. m \in Nat /\ p.keylen \in Nat /\ p.noncelen \in Nat /\ sample \in Nat
    <3>1. m \in Nat
      BY <2>2, ArgsLemma DEF TypeOK
    <3>. QED  BY <3>1, <2>2, ModeLemma DEF TypeOK
  <2>4. cur' \in VectorAt(p, m, sample)
    BY <2>1, <2>2 DEF VectorAt
  <2>5. pos' = (sample + 1) * z
    <3>1. z = m + p.keylen + p.noncelen /\ pos' = pos + m + p.keylen + p.noncelen
      BY <2>1 DEF Size
    <3>. HIDE DEF p, m, z
    <3>. QED  BY <3>1, <2>2, <2>3
  <2>. HIDE DEF z
  <2>6. p' = p /\ m' = m /\ z' = z
    BY <2>1 DEF z
  <2>. QED  BY <2>1, <2>2, <2>4, <2>5, <2>6 DEF InPlace, InLoop, z
<1>5. CASE CheckPasses
  BY <1>5, KeepsPlace DEF CheckPasses
<1>6. CASE PrintCipher
  <2>. DEFINE p == Mode(args.primitive)
              m == MLen(args, pair)
              e == [vec |-> cur, index |-> sample]
  <2>1. /\ pc = "cipher" /\ pc' = "sample" /\ sample' = sample + 1
        /\ made' = Append(made, e) /\ UNCHANGED <<args, pair, pos, cur>>
    BY <1>6 DEF PrintCipher
  <2>2. /\ Supported(args.primitive) /\ pair <= Pairs(args)
        /\ cur \in VectorAt(p, m, sample) /\ pos = (sample + 1) * Size(p, m)
    BY <2>1 DEF InPlace, InLoop
  <2>3. m \in Nat /\ sample \in Nat
    BY <2>2, ArgsLemma DEF TypeOK
  <2>4. ASSUME NEW i \in DOMAIN made'
        PROVE  /\ made'[i].index \in Nat
               /\ \E n \in Nat : made'[i].vec \in VectorAt(p, n, made'[i].index)
    <3>1. made'[i] = e \/ (i \in DOMAIN made /\ made'[i] = made[i])
      <4>1. made \in Seq([vec : MadeVector, index : Nat])
        BY DEF TypeOK
      <4>. HIDE DEF e
      <4>2. DOMAIN made' = 1 .. Len(made) + 1 /\ Len(made) \in Nat
        BY <2>1, <4>1
      <4>3. CASE i \in 1 .. Len(made)
        BY <2>1, <4>1, <4>3
      <4>4. CASE i = Len(made) + 1
        BY <2>1, <4>1, <4>4
      <4>. QED  BY <4>2, <4>3, <4>4
    <3>2. CASE made'[i] = e
      BY <3>2, <2>2, <2>3
    <3>3. CASE i \in DOMAIN made /\ made'[i] = made[i]
      BY <3>3 DEF InPlace
    <3>. QED  BY <3>1, <3>2, <3>3
  <2>. QED  BY <2>1, <2>2, <2>4 DEF InPlace, InLoop
<1>7. CASE NextPair
  <2>1. /\ pc = "sample" /\ pc' = "generate" /\ UNCHANGED <<args, made>>
    BY <1>7 DEF NextPair
  <2>. QED  BY <2>1 DEF InPlace, InLoop
<1>8. CASE Done \/ Kill
  <2>1. pc' \in {"exit", "killed"} /\ UNCHANGED <<args, pair, sample, pos, cur, made>>
    BY <1>8 DEF Done, Kill
  <2>. QED  BY <2>1, KeepsPlace
<1>9. CASE Load
  BY <1>9, KeepsPlace DEF Load
<1>10. CASE UNCHANGED vars
  BY <1>10, KeepsPlace DEF vars
<1>. QED  BY <1>1, <1>2, <1>3, <1>4, <1>5, <1>6, <1>7, <1>8, <1>9, <1>10 DEF Next

(* The inductive invariant of the generator holds always.                  *)
THEOREM Placed == Spec => [](TypeOK /\ InPlace)
<1>1. Init => TypeOK /\ InPlace
  BY InitTypeOK, InitInPlace
<1>2. TypeOK /\ InPlace /\ [Next]_vars => (TypeOK /\ InPlace)'
  BY StepTypeOK, StepInPlace
<1>. QED  BY <1>1, <1>2, PTL DEF Spec

(* The loops of the generator keep their bounds: generate.c 175-221 and    *)
(* 343-400.                                                                *)
THEOREM GeneratorTypeCorrect == Spec => []TypeOK
BY Placed, PTL
-----------------------------------------------------------------------------
(* The parts of a vector from its place in the stream.                     *)
Start(p, n, k) == k * Size(p, n)

LEMMA PartsLemma ==
  ASSUME NEW p, NEW n, NEW k, NEW v, v \in VectorAt(p, n, k)
  PROVE  /\ v.mode = p
         /\ v.message = Random(Start(p, n, k), n) /\ v.message.len = n
         /\ v.key = Random(Start(p, n, k) + n, p.keylen)
         /\ v.nonce = Random(Start(p, n, k) + n + p.keylen, p.noncelen)
         /\ v.ct = Cipher(p, v.key, v.nonce, v.message)
         /\ ~ReadsPast(p, n) =>
               v.tag = Tag(p, v.key, v.nonce, v.message, EncBlocks(p, n), {})
BY DEF VectorAt, Encrypted, Random, Start

(* A vector is determined by the primitive, the message length and its     *)
(* place among the vectors of that length: the srand(1) of generate.c 184. *)
LEMMA PlacedReproducible == InPlace => Reproducible
<1>. SUFFICES ASSUME InPlace, NEW i \in DOMAIN made, NEW j \in DOMAIN made,
                     made[i].index = made[j].index,
                     made[i].vec.message.len = made[j].vec.message.len
              PROVE  LET v == made[i].vec
                         w == made[j].vec
                     IN  /\ v.message = w.message /\ v.key = w.key /\ v.nonce = w.nonce
                         /\ v.ct = w.ct
                         /\ ReadsPast(v.mode, v.message.len) \/ v.tag = w.tag
  BY DEF Reproducible
<1>. DEFINE p == Mode(args.primitive)
            k == made[i].index
            v == made[i].vec
            w == made[j].vec
<1>1. PICK n \in Nat : v \in VectorAt(p, n, k)
  BY DEF InPlace
<1>2. PICK n2 \in Nat : w \in VectorAt(p, n2, k)
  BY DEF InPlace
<1>3. v.message.len = w.message.len
  OBVIOUS
<1>. HIDE DEF p, k, v, w
<1>4. v.message.len = n /\ w.message.len = n2
  BY <1>1, <1>2, PartsLemma
<1>5. w \in VectorAt(p, n, k)
  BY <1>2, <1>3, <1>4
<1>6. /\ v.message = w.message /\ v.key = w.key /\ v.nonce = w.nonce
      /\ v.mode = p
  BY <1>1, <1>5, PartsLemma
<1>7. v.ct = w.ct
  BY <1>1, <1>5, <1>6, PartsLemma
<1>8. ~ReadsPast(p, n) => v.tag = w.tag
  BY <1>1, <1>5, <1>6, PartsLemma
<1>. QED  BY <1>4, <1>6, <1>7, <1>8 DEF v, w

(* Asking for the same vectors again gives the same vectors.               *)
THEOREM ReproducibleHolds == Spec => []Reproducible
BY Placed, PlacedReproducible, PTL

(* Two pieces of the stream that are not the same do not overlap.          *)
LEMMA PiecesLemma ==
  ASSUME NEW z \in Nat, NEW k \in Nat, NEW l \in Nat, k < l
  PROVE  k * z + z <= l * z
<1>1. PICK d \in Nat : l = k + 1 + d
  <2>1. l - (k + 1) \in Nat /\ l = k + 1 + (l - (k + 1))
    OBVIOUS
  <2>. QED  BY <2>1
<1>2. d * z \in Nat /\ k * z \in Nat
  OBVIOUS
<1>3. l * z = k * z + z + d * z
  BY <1>1
<1>. QED  BY <1>2, <1>3

(* The three parts of a vector lie in its piece of the stream.             *)
LEMMA PartsInPiece ==
  ASSUME NEW p, p.keylen \in Nat, p.noncelen \in Nat, NEW n \in Nat, NEW k \in Nat,
         NEW v, v \in VectorAt(p, n, k), NEW a \in {v.message, v.key, v.nonce}
  PROVE  /\ a.rand \in Nat /\ a.len \in Nat
         /\ Start(p, n, k) <= a.rand /\ a.rand + a.len <= Start(p, n, k) + Size(p, n)
<1>. DEFINE s == Start(p, n, k)
<1>1. s \in Nat /\ Size(p, n) = n + p.keylen + p.noncelen
  <2>1. Size(p, n) \in Nat
    BY DEF Size
  <2>2. \A x, y \in Nat : x * y \in Nat
    OBVIOUS
  <2>. QED  BY <2>1, <2>2 DEF Size, Start
<1>2. \/ a = Random(s, n)
      \/ a = Random(s + n, p.keylen)
      \/ a = Random(s + n + p.keylen, p.noncelen)
  BY PartsLemma
<1>. HIDE DEF s
<1>3. CASE a = Random(s, n)
  BY <1>1, <1>3 DEF Random, s
<1>4. CASE a = Random(s + n, p.keylen)
  BY <1>1, <1>4 DEF Random, s
<1>5. CASE a = Random(s + n + p.keylen, p.noncelen)
  BY <1>1, <1>5 DEF Random, s
<1>. QED  BY <1>2, <1>3, <1>4, <1>5

(* Vectors at different places of one length share no random bytes:        *)
(* fill_rand, generate.c 187-189.                                          *)
LEMMA PlacedFresh == InPlace => FreshBytes
<1>. SUFFICES ASSUME InPlace, NEW i \in DOMAIN made, NEW j \in DOMAIN made,
                     made[i].index # made[j].index,
                     made[i].vec.message.len = made[j].vec.message.len,
                     NEW a \in {made[i].vec.message, made[i].vec.key, made[i].vec.nonce},
                     NEW b \in {made[j].vec.message, made[j].vec.key, made[j].vec.nonce}
              PROVE  Disjoint(a, b)
  BY DEF FreshBytes
<1>. DEFINE p == Mode(args.primitive)
            k == made[i].index
            l == made[j].index
            v == made[i].vec
            w == made[j].vec
<1>1. PICK n \in Nat : v \in VectorAt(p, n, k)
  BY DEF InPlace
<1>2. PICK n2 \in Nat : w \in VectorAt(p, n2, l)
  BY DEF InPlace
<1>3. /\ p.keylen \in Nat /\ p.noncelen \in Nat /\ k \in Nat /\ l \in Nat
  BY ModeLemma DEF InPlace
<1>4. /\ v.message.len = w.message.len /\ k # l
      /\ a \in {v.message, v.key, v.nonce} /\ b \in {w.message, w.key, w.nonce}
  OBVIOUS
<1>. HIDE DEF p, k, l, v, w
<1>5. n2 = n
  <2>1. v.message.len = n /\ w.message.len = n2
    BY <1>1, <1>2, PartsLemma
  <2>. QED  BY <2>1, <1>4
<1>6. w \in VectorAt(p, n, l)
  BY <1>2, <1>5
<1>. DEFINE z == Size(p, n)
            s == Start(p, n, k)
            t == Start(p, n, l)
<1>7. /\ a.rand \in Nat /\ a.len \in Nat /\ s <= a.rand /\ a.rand + a.len <= s + z
      /\ b.rand \in Nat /\ b.len \in Nat /\ t <= b.rand /\ b.rand + b.len <= t + z
  <2>1. a.rand \in Nat /\ a.len \in Nat /\ s <= a.rand /\ a.rand + a.len <= s + z
    BY ONLY <1>1, <1>3, <1>4, PartsInPiece
  <2>2. b.rand \in Nat /\ b.len \in Nat /\ t <= b.rand /\ b.rand + b.len <= t + z
    BY ONLY <1>1, <1>3, <1>4, <1>6, PartsInPiece
  <2>. QED  BY <2>1, <2>2
<1>8. z \in Nat /\ s = k * z /\ t = l * z
  BY <1>3 DEF Size, Start
<1>. HIDE DEF z, s, t
<1>9. s \in Nat /\ t \in Nat
  <2>1. \A x, y \in Nat : x * y \in Nat
    OBVIOUS
  <2>. QED  BY <2>1, <1>3, <1>8
<1>10. s + z <= t \/ t + z <= s
  <2>1. CASE k < l
    BY <2>1, <1>3, <1>8, PiecesLemma
  <2>2. CASE l < k
    BY <2>2, <1>3, <1>8, PiecesLemma
  <2>. QED  BY <2>1, <2>2, <1>3, <1>4
<1>. QED  BY <1>7, <1>8, <1>9, <1>10 DEF Disjoint

(* No key, nonce or message of a file reuses random bytes of another       *)
(* vector of its length.                                                   *)
THEOREM FreshBytesHolds == Spec => []FreshBytes
BY Placed, PlacedFresh, PTL
-----------------------------------------------------------------------------
(* A text between delimiters.  What split returns, given the places e[1],  *)
(* ..., e[n] at which its pieces end.                                      *)
EndsAt(text, kind, n, e) ==
  /\ e \in [0 .. n -> Nat] /\ e[0] = 0 /\ e[n] = Len(text) + 1
  /\ \A i, j \in 0 .. n : i < j => e[i] < e[j]
  /\ \A x \in 1 .. Len(text) : text[x].kind = kind <=> \E k \in 1 .. n - 1 : x = e[k]

LEMMA SplitLemma ==
  ASSUME NEW T, NEW text \in Seq(T), NEW kind, NEW n \in Nat \ {0}, NEW e,
         EndsAt(text, kind, n, e)
  PROVE  Split(text, kind) = [k \in 1 .. n |-> SubSeq(text, e[k - 1] + 1, e[k] - 1)]
<1>. DEFINE ends == PieceEnds(text, kind)
            first(k) == {d \in ends : d <= e[k]}
            Nth(k) == CHOOSE d \in ends : Cardinality({x \in ends : x <= d}) = k
<1>1. /\ e \in [0 .. n -> Nat] /\ e[0] = 0 /\ e[n] = Len(text) + 1 /\ Len(text) \in Nat
      /\ \A i, j \in 0 .. n : i < j => e[i] < e[j]
  BY DEF EndsAt
<1>2. \A i, j \in 0 .. n : e[i] <= e[j] => i <= j
  BY <1>1
<1>3. ends = {e[k] : k \in 1 .. n}
  <2>1. ASSUME NEW x \in ends PROVE x \in {e[k] : k \in 1 .. n}
    <3>1. CASE x = Len(text) + 1
      BY <3>1, <1>1
    <3>2. CASE x \in DOMAIN text /\ text[x].kind = kind
      <4>1. x \in 1 .. Len(text) /\ text[x].kind = kind
        BY <3>2
      <4>2. PICK k \in 1 .. n - 1 : x = e[k]
        BY <4>1 DEF EndsAt
      <4>. QED  BY <4>2
    <3>. QED  BY <2>1, <3>1, <3>2 DEF PieceEnds
  <2>2. ASSUME NEW k \in 1 .. n PROVE e[k] \in ends
    <3>1. CASE k = n
      BY <3>1, <1>1 DEF PieceEnds
    <3>2. CASE k < n
      <4>1. e[k] \in 1 .. Len(text) /\ k \in 1 .. n - 1
        <5>1. e[0] < e[k] /\ e[k] < e[n] /\ e[k] \in Nat
          BY <3>2, <1>1
        <5>. QED  BY <5>1, <3>2, <1>1
      <4>. QED  BY <4>1 DEF EndsAt, PieceEnds
    <3>. QED  BY <3>1, <3>2
  <2>. HIDE DEF ends
  <2>. QED  BY <2>1, <2>2
<1>. HIDE DEF ends
<1>4. ASSUME NEW k \in 1 .. n
      PROVE  /\ first(k) = {e[i] : i \in 1 .. k}
             /\ IsFiniteSet(first(k)) /\ Cardinality(first(k)) = k
  <2>1. first(k) = {e[i] : i \in 1 .. k}
    BY <1>1, <1>2, <1>3
  <2>. DEFINE f == [i \in 1 .. k |-> e[i]]
  <2>2. f \in Bijection(1 .. k, first(k))
    <3>1. \A i, j \in 1 .. k : i # j => e[i] # e[j]
      <4>. SUFFICES ASSUME NEW i \in 1 .. k, NEW j \in 1 .. k, i # j, e[i] = e[j] PROVE FALSE
        OBVIOUS
      <4>1. i <= j /\ j <= i
        BY <1>1, <1>2
      <4>. QED  BY <4>1
    <3>2. f \in [1 .. k -> first(k)] /\ \A d \in first(k) : \E i \in 1 .. k : f[i] = d
      BY <2>1
    <3>. HIDE DEF first
    <3>3. f \in Injection(1 .. k, first(k))
      BY <3>1, <3>2 DEF Injection, IsInjective
    <3>. QED  BY <3>2, <3>3 DEF Bijection, Surjection
  <2>. HIDE DEF first, f
  <2>3. IsFiniteSet(1 .. k) /\ Cardinality(1 .. k) = k
    BY FS_Interval
  <2>4. ExistsBijection(1 .. k, first(k))
    BY <2>2 DEF ExistsBijection
  <2>5. IsFiniteSet(first(k)) /\ Cardinality(first(k)) = k
    BY <2>3, <2>4, FS_Bijection
  <2>. QED  BY <2>1, <2>5
<1>5. Cardinality(ends) = n
  <2>0. n \in 1 .. n
    OBVIOUS
  <2>1. first(n) = ends
    <3>1. first(n) = {e[i] : i \in 1 .. n}
      BY <1>4, <2>0
    <3>. QED  BY <1>3, <3>1
  <2>2. Cardinality(first(n)) = n
    BY <1>4, <2>0
  <2>. HIDE DEF first
  <2>. QED  BY <2>1, <2>2
<1>6. ASSUME NEW k \in 1 .. n PROVE Nth(k) = e[k]
  <2>1. e[k] \in ends /\ Cardinality({x \in ends : x <= e[k]}) = k
    BY <1>3, <1>4
  <2>2. ASSUME NEW d \in ends, Cardinality({x \in ends : x <= d}) = k PROVE d = e[k]
    <3>1. PICK i \in 1 .. n : d = e[i]
      BY <1>3
    <3>2. Cardinality(first(i)) = i
      BY <1>4
    <3>. QED  BY <2>2, <3>1, <3>2
  <2>. QED  BY <2>1, <2>2
<1>. DEFINE End(k) == IF k = 0 THEN 0 ELSE Nth(k)
<1>7. \A k \in 0 .. n : End(k) = e[k]
  BY <1>1, <1>6
<1>8. Split(text, kind) = [k \in 1 .. Cardinality(ends) |-> SubSeq(text, End(k - 1) + 1, End(k) - 1)]
  BY DEF Split, ends
<1>. HIDE DEF End
<1>9. \A k \in 1 .. n : k - 1 \in 0 .. n /\ k \in 0 .. n
  OBVIOUS
<1>. QED  BY <1>5, <1>7, <1>8, <1>9

(* readlines: the text after the last end of line is a line unless it is   *)
(* empty.                                                                  *)
LEMMA LinesLemma ==
  ASSUME NEW T, NEW text \in Seq(T), NEW n \in Nat \ {0}, NEW e,
         EndsAt(text, "eol", n, e)
  PROVE  LET m == IF e[n - 1] = Len(text) THEN n - 1 ELSE n
         IN  Lines(text) = [k \in 1 .. m |-> SubSeq(text, e[k - 1] + 1, e[k] - 1)]
<1>. DEFINE piece(k) == SubSeq(text, e[k - 1] + 1, e[k] - 1)
            pieces == [k \in 1 .. n |-> piece(k)]
<1>1. Split(text, "eol") = pieces
  BY SplitLemma
<1>2. /\ e \in [0 .. n -> Nat] /\ e[n] = Len(text) + 1 /\ Len(text) \in Nat
      /\ e[n - 1] \in Nat /\ e[n - 1] <= Len(text)
  <2>1. /\ e \in [0 .. n -> Nat] /\ e[n] = Len(text) + 1 /\ Len(text) \in Nat
        /\ \A i, j \in 0 .. n : i < j => e[i] < e[j]
    BY DEF EndsAt
  <2>2. n - 1 \in 0 .. n /\ n \in 0 .. n /\ n - 1 < n
    OBVIOUS
  <2>3. e[n - 1] < e[n] /\ e[n - 1] \in Nat
    BY <2>1, <2>2
  <2>. QED  BY <2>1, <2>3
<1>3. \A k \in 1 .. n : piece(k) \in Seq(T)
  <2>1. ASSUME NEW k \in 1 .. n PROVE piece(k) \in Seq(T)
    <3>1. k - 1 \in 0 .. n /\ k \in 0 .. n
      OBVIOUS
    <3>2. e[k - 1] \in Nat /\ e[k] \in Nat /\ e[k - 1] + 1 \in 1 .. Len(text) + 1 /\ e[k] - 1 \in 0 .. Len(text)
      <4>1. e[k - 1] \in Nat /\ e[k] \in Nat /\ e[k - 1] < e[k] /\ e[k] <= e[n]
        <5>1. \A i, j \in 0 .. n : i < j => e[i] < e[j]
          BY DEF EndsAt
        <5>2. e[k - 1] < e[k]
          BY <3>1, <5>1
        <5>3. k = n \/ e[k] < e[n]
          BY <3>1, <5>1
        <5>. QED  BY <1>2, <3>1, <5>2, <5>3
      <4>. QED  BY <4>1, <1>2
    <3>. QED  BY <3>2
  <2>. QED  BY <2>1
<1>4. pieces \in Seq(Seq(T)) /\ Len(pieces) = n
  <2>. HIDE DEF piece
  <2>. QED  BY <1>3
<1>5. Last(pieces) = piece(n)
  <2>. HIDE DEF piece
  <2>1. n \in 1 .. n
    OBVIOUS
  <2>. QED  BY <1>4, <2>1 DEF Last
<1>6. piece(n) = << >> <=> e[n - 1] = Len(text)
  <2>. DEFINE a == e[n - 1]
  <2>1. piece(n) = SubSeq(text, a + 1, Len(text)) /\ a \in Nat /\ a <= Len(text)
    BY <1>2
  <2>. HIDE DEF a, piece
  <2>2. Len(SubSeq(text, a + 1, Len(text))) = Len(text) - a
    BY <2>1
  <2>3. SubSeq(text, a + 1, Len(text)) \in Seq(T)
    BY <2>1
  <2>4. piece(n) = << >> <=> a = Len(text)
    <3>1. CASE a = Len(text)
      <4>1. Len(text) + 1 \in Int /\ Len(text) \in Int /\ Len(text) < Len(text) + 1
        BY <1>2
      <4>2. SubSeq(text, Len(text) + 1, Len(text)) = << >>
        BY ONLY <4>1, SubSeqEmpty
      <4>. QED  BY <3>1, <2>1, <4>2
    <3>2. CASE a # Len(text)
      <4>1. Len(piece(n)) # 0
        BY <1>2, <2>1, <2>2, <3>2
      <4>. QED  BY <4>1, <3>2, EmptySeq
    <3>. QED  BY <3>1, <3>2
  <2>. QED  BY <2>4 DEF a
<1>. HIDE DEF piece
<1>7. Front(pieces) = [k \in 1 .. n - 1 |-> piece(k)]
  <2>1. Front(pieces) = SubSeq(pieces, 1, n - 1)
    BY <1>4 DEF Front
  <2>. DEFINE f == SubSeq(pieces, 1, n - 1)
  <2>2. f \in Seq(Seq(T)) /\ Len(f) = n - 1 /\ \A k \in 1 .. n - 1 : f[k] = piece(k)
    <3>1. \A k \in 1 .. n - 1 : pieces[k] = piece(k) /\ pieces[k] \in Seq(T)
      BY <1>3
    <3>. HIDE DEF pieces
    <3>2. f \in Seq(Seq(T)) /\ Len(f) = n - 1
      <4>1. 1 \in Int /\ n - 1 \in Int /\ \A k \in 1 .. n - 1 : pieces[k] \in Seq(T)
        BY <3>1
      <4>2. f \in Seq(Seq(T)) /\ Len(f) = IF 1 <= n - 1 THEN n - 1 - 1 + 1 ELSE 0
        BY ONLY <4>1, SubSeqProperties
      <4>. QED  BY <4>2
    <3>3. \A k \in 1 .. n - 1 : f[k] = pieces[k]
      BY <1>4
    <3>. QED  BY <3>1, <3>2, <3>3
  <2>. HIDE DEF f, pieces
  <2>3. f = [k \in 1 .. n - 1 |-> f[k]]
    BY <2>2
  <2>. QED  BY <2>1, <2>2, <2>3 DEF f
<1>8. Lines(text) = IF e[n - 1] = Len(text) THEN Front(pieces) ELSE pieces
  BY <1>1, <1>5, <1>6 DEF Lines
<1>. QED  BY <1>7, <1>8 DEF piece

(* split of a line that alternates with single spaces.                     *)
LEMMA PartsOfLine ==
  ASSUME NEW T, NEW line \in Seq(T), NEW h \in Nat, Len(line) \in {2 * h, 2 * h + 1},
         \A x \in 1 .. Len(line) : line[x].kind = "space" <=> \E k \in 1 .. h : x = 2 * k
  PROVE  Split(line, "space") =
           [k \in 1 .. h + 1 |-> IF 2 * k - 1 <= Len(line) THEN <<line[2 * k - 1]>> ELSE << >>]
<1>. DEFINE n == h + 1
            e == [k \in 0 .. n |-> IF k < n THEN 2 * k ELSE Len(line) + 1]
<1>1. e \in [0 .. n -> Nat] /\ e[0] = 0 /\ e[n] = Len(line) + 1
  OBVIOUS
<1>2. ASSUME NEW i \in 0 .. n, NEW j \in 0 .. n, i < j PROVE e[i] < e[j]
  <2>1. e[i] = 2 * i
    BY <1>2
  <2>2. CASE j = n
    BY <1>2, <2>1, <2>2
  <2>3. CASE j < n
    BY <1>2, <2>1, <2>3
  <2>. QED  BY <2>2, <2>3
<1>3. ASSUME NEW x \in 1 .. Len(line)
      PROVE  line[x].kind = "space" <=> \E k \in 1 .. n - 1 : x = e[k]
  <2>1. \A k \in 1 .. h : e[k] = 2 * k
    OBVIOUS
  <2>2. n - 1 = h
    OBVIOUS
  <2>. HIDE DEF e, n
  <2>. QED  BY <2>1, <2>2
<1>4. EndsAt(line, "space", n, e)
  <2>. HIDE DEF e, n
  <2>. QED  BY <1>1, <1>2, <1>3 DEF EndsAt
<1>5. Split(line, "space") = [k \in 1 .. n |-> SubSeq(line, e[k - 1] + 1, e[k] - 1)]
  <2>1. n \in Nat \ {0}
    OBVIOUS
  <2>. HIDE DEF e, n
  <2>. QED  BY <1>4, <2>1, SplitLemma
<1>6. ASSUME NEW k \in 1 .. n
      PROVE  SubSeq(line, e[k - 1] + 1, e[k] - 1) =
               IF 2 * k - 1 <= Len(line) THEN <<line[2 * k - 1]>> ELSE << >>
  <2>1. e[k - 1] + 1 = 2 * k - 1
    OBVIOUS
  <2>2. CASE 2 * k - 1 <= Len(line)
    <3>1. e[k] - 1 = 2 * k - 1
      <4>1. CASE k = n
        <5>1. Len(line) = 2 * k - 1
          BY <2>2, <4>1
        <5>. QED  BY <4>1, <5>1
      <4>2. CASE k < n
        BY <4>2
      <4>. QED  BY <4>1, <4>2
    <3>2. \A a \in 1 .. Len(line) : SubSeq(line, a, a) = <<line[a]>>
      <4>1. ASSUME NEW a \in 1 .. Len(line) PROVE SubSeq(line, a, a) = <<line[a]>>
        <5>1. /\ SubSeq(line, a, a) \in Seq(T) /\ Len(SubSeq(line, a, a)) = 1
              /\ SubSeq(line, a, a)[1] = line[a]
          OBVIOUS
        <5>2. ASSUME NEW s \in Seq(T), Len(s) = 1 PROVE s = <<s[1]>>
          BY <5>2
        <5>. QED  BY <5>1, <5>2
      <4>. QED  BY <4>1
    <3>3. 2 * k - 1 \in 1 .. Len(line)
      BY <2>2
    <3>. HIDE DEF e
    <3>. QED  BY <2>1, <2>2, <3>1, <3>2, <3>3
  <2>3. CASE ~(2 * k - 1 <= Len(line))
    <3>1. e[k] - 1 = Len(line) /\ 2 * k - 1 = Len(line) + 1
      BY <2>3
    <3>2. \A a \in Nat : SubSeq(line, a + 1, a) = << >>
      BY SubSeqEmpty
    <3>. HIDE DEF e
    <3>. QED  BY <2>1, <2>3, <3>1, <3>2
  <2>. QED  BY <2>2, <2>3
<1>. QED  BY <1>5, <1>6

-----------------------------------------------------------------------------
(* What the generator prints: strings of Values, words and delimiters.     *)
Values == RandomBytes \cup {v.ct : v \in MadeVector} \cup {v.tag : v \in MadeVector}
Tokens == [kind : {"hex"}, of : Values, digits : Nat] \cup {Word, Space, EndOfLine}

(* The line of a vector, and its part before the check.                    *)
Line(v) == <<Hex(v.key), Space, Hex(v.nonce), Space, Hex(v.message), Space,
             Hex(v.ct), Space, Hex(v.tag), EndOfLine>>
FirstHalf(v) == <<Hex(v.key), Space, Hex(v.nonce), Space, Hex(v.message), Space>>

LEMMA VectorLemma ==
  ASSUME NEW v \in MadeVector
  PROVE  /\ v.key \in Values /\ v.nonce \in Values /\ v.message \in Values
         /\ v.ct \in Values /\ v.tag \in Values
         /\ v.key.len \in Nat /\ v.nonce.len \in Nat /\ v.message.len \in Nat
         /\ v.ct.len \in Nat /\ v.tag.len \in Nat
<1>1. v.key \in RandomBytes /\ v.nonce \in RandomBytes /\ v.message \in RandomBytes
  BY DEF MadeVector
<1>2. v.ct.len \in Nat /\ v.tag.len \in Nat
  BY DEF MadeVector
<1>3. v.ct \in {w.ct : w \in MadeVector} /\ v.tag \in {w.tag : w \in MadeVector}
  OBVIOUS
<1>. QED  BY <1>1, <1>2, <1>3 DEF Values, RandomBytes

LEMMA LineLemma ==
  ASSUME NEW v \in MadeVector
  PROVE  /\ \A j \in {1, 3, 5, 7, 9} :
              /\ Line(v)[j] \in [kind : {"hex"}, of : Values, digits : Nat]
              /\ Line(v)[j].digits % 2 = 0
         /\ \A j \in {2, 4, 6, 8} : Line(v)[j] = Space
         /\ Line(v)[10] = EndOfLine
         /\ \A j \in 1 .. 10 : Line(v)[j] \in Tokens
         /\ \A j \in 1 .. 6 : FirstHalf(v)[j] = Line(v)[j]
<1>1. ASSUME NEW b \in Values, b.len \in Nat
      PROVE  /\ Hex(b) \in [kind : {"hex"}, of : Values, digits : Nat]
             /\ Hex(b).digits % 2 = 0
  <2>1. 2 * b.len \in Nat /\ (2 * b.len) % 2 = 0
    BY <1>1
  <2>. QED  BY <2>1 DEF Hex
<1>2. \A b \in {v.key, v.nonce, v.message, v.ct, v.tag} :
        /\ Hex(b) \in [kind : {"hex"}, of : Values, digits : Nat]
        /\ Hex(b).digits % 2 = 0
  BY <1>1, VectorLemma
<1>3. /\ Line(v)[1] = Hex(v.key) /\ Line(v)[3] = Hex(v.nonce) /\ Line(v)[5] = Hex(v.message)
      /\ Line(v)[7] = Hex(v.ct) /\ Line(v)[9] = Hex(v.tag)
      /\ \A j \in {2, 4, 6, 8} : Line(v)[j] = Space
      /\ Line(v)[10] = EndOfLine
  BY DEF Line
<1>4. \A j \in 1 .. 6 : FirstHalf(v)[j] = Line(v)[j]
  BY DEF Line, FirstHalf
<1>5. \A j \in 1 .. 10 : j \in {1, 3, 5, 7, 9} \/ j \in {2, 4, 6, 8} \/ j = 10
  OBVIOUS
<1>. QED  BY <1>2, <1>3, <1>4, <1>5 DEF Tokens

(* The kinds of what is printed.                                           *)
LEMMA KindsLemma ==
  /\ Word.kind = "word" /\ Space.kind = "space" /\ EndOfLine.kind = "eol"
  /\ \A t \in Tokens : \/ t.kind = "hex" /\ t \in [kind : {"hex"}, of : Values, digits : Nat]
                       \/ t = Word \/ t = Space \/ t = EndOfLine
  /\ \A b : Hex(b).kind = "hex"
BY DEF Tokens, Word, Space, EndOfLine, Hex

LEMMA HexLemma ==
  ASSUME NEW t
  PROVE  /\ IsHex(<<t>>) <=> t.kind = "hex" /\ t.digits % 2 = 0
         /\ FromHex(<<t>>) = [of |-> t.of, len |-> t.digits \div 2]
         /\ IsHex(<< >>) /\ FromHex(<< >>) = [of |-> << >>, len |-> 0]
BY DEF IsHex, FromHex

(* A line of the file that alternates strings and spaces is a vector if it *)
(* has five strings, the last one possibly empty.                          *)
LEMMA ParsesLemma ==
  ASSUME NEW line \in Seq(Tokens), NEW h \in Nat, Len(line) \in {2 * h, 2 * h + 1},
         \A x \in 1 .. Len(line) : line[x].kind = "space" <=> \E k \in 1 .. h : x = 2 * k
  PROVE  /\ Parses(line) => /\ h = 4
                            /\ \A j \in {1, 3, 5, 7, 9} : j <= Len(line) =>
                                 line[j].kind = "hex" /\ line[j].digits % 2 = 0
         /\ (h = 4 /\ \A j \in {1, 3, 5, 7, 9} : j <= Len(line) =>
                        line[j].kind = "hex" /\ line[j].digits % 2 = 0) => Parses(line)
         /\ h = 4 => LET x == Parsed(line)
                     IN  /\ x.key = FromHex(<<line[1]>>) /\ x.nonce = FromHex(<<line[3]>>)
                         /\ x.message = FromHex(<<line[5]>>) /\ x.ct = FromHex(<<line[7]>>)
                         /\ x.tag = IF Len(line) = 9 THEN FromHex(<<line[9]>>) ELSE FromHex(<< >>)
<1>. DEFINE parts == Split(line, "space")
            part(k) == IF 2 * k - 1 <= Len(line) THEN <<line[2 * k - 1]>> ELSE << >>
<1>1. parts = [k \in 1 .. h + 1 |-> part(k)]
  BY PartsOfLine
<1>. HIDE DEF part
<1>2. Len(parts) = h + 1
  BY <1>1
<1>3. Parses(line) <=> Len(parts) = 5 /\ \A k \in 1 .. 5 : IsHex(parts[k])
  BY DEF Parses
<1>. HIDE DEF parts
<1>4. ASSUME h = 4
      PROVE  /\ parts[1] = <<line[1]>> /\ parts[2] = <<line[3]>> /\ parts[3] = <<line[5]>>
             /\ parts[4] = <<line[7]>>
             /\ parts[5] = IF Len(line) = 9 THEN <<line[9]>> ELSE << >>
             /\ Len(line) \in {8, 9}
  <2>1. \A k \in 1 .. 5 : parts[k] = part(k)
    BY <1>1, <1>4
  <2>2. Len(line) \in {8, 9}
    BY <1>4
  <2>3. part(1) = <<line[1]>> /\ part(2) = <<line[3]>>
    BY <2>2 DEF part
  <2>4. part(3) = <<line[5]>> /\ part(4) = <<line[7]>>
    BY <2>2 DEF part
  <2>5. part(5) = IF Len(line) = 9 THEN <<line[9]>> ELSE << >>
    BY <2>2 DEF part
  <2>6. 1 \in 1 .. 5 /\ 2 \in 1 .. 5 /\ 3 \in 1 .. 5 /\ 4 \in 1 .. 5 /\ 5 \in 1 .. 5
    OBVIOUS
  <2>. QED  BY ONLY <2>1, <2>2, <2>3, <2>4, <2>5, <2>6
<1>5. ASSUME h = 4
      PROVE  (\A k \in 1 .. 5 : IsHex(parts[k]))
               <=> \A j \in {1, 3, 5, 7, 9} : j <= Len(line) =>
                     line[j].kind = "hex" /\ line[j].digits % 2 = 0
  <2>1. \A k \in 1 .. 5 : k = 1 \/ k = 2 \/ k = 3 \/ k = 4 \/ k = 5
    OBVIOUS
  <2>2. IsHex(<< >>) /\ \A t : IsHex(<<t>>) <=> t.kind = "hex" /\ t.digits % 2 = 0
    BY HexLemma
  <2>3. (\A k \in 1 .. 5 : IsHex(parts[k])) <=>
          IsHex(parts[1]) /\ IsHex(parts[2]) /\ IsHex(parts[3]) /\ IsHex(parts[4]) /\ IsHex(parts[5])
    BY <2>1
  <2>. DEFINE G(t) == t.kind = "hex" /\ t.digits % 2 = 0
  <2>4. \A t : IsHex(<<t>>) <=> G(t)
    BY HexLemma
  <2>5. 1 <= Len(line) /\ 3 <= Len(line) /\ 5 <= Len(line) /\ 7 <= Len(line)
        /\ (9 <= Len(line) <=> Len(line) = 9)
    BY <1>4, <1>5
  <2>. HIDE DEF G
  <2>6. (\A j \in {1, 3, 5, 7, 9} : j <= Len(line) => G(line[j])) <=>
          G(line[1]) /\ G(line[3]) /\ G(line[5]) /\ G(line[7]) /\ (Len(line) = 9 => G(line[9]))
    BY ONLY <2>5
  <2>7. IsHex(parts[5]) <=> (Len(line) = 9 => G(line[9]))
    BY <1>4, <1>5, <2>2, <2>4
  <2>8. /\ IsHex(parts[1]) <=> G(line[1])
        /\ IsHex(parts[2]) <=> G(line[3])
        /\ IsHex(parts[3]) <=> G(line[5])
        /\ IsHex(parts[4]) <=> G(line[7])
    BY <1>4, <1>5, <2>4
  <2>9. (\A k \in 1 .. 5 : IsHex(parts[k])) <=>
          \A j \in {1, 3, 5, 7, 9} : j <= Len(line) => G(line[j])
    BY <2>3, <2>6, <2>7, <2>8
  <2>. QED  BY <2>9 DEF G
<1>6. h = 4 => LET x == Parsed(line)
               IN  /\ x.key = FromHex(parts[1]) /\ x.nonce = FromHex(parts[2])
                   /\ x.message = FromHex(parts[3]) /\ x.ct = FromHex(parts[4])
                   /\ x.tag = FromHex(parts[5])
  BY DEF Parsed, parts
<1>7. h + 1 = 5 <=> h = 4
  OBVIOUS
<1>8. Parses(line) <=> h = 4 /\ \A j \in {1, 3, 5, 7, 9} : j <= Len(line) =>
                     line[j].kind = "hex" /\ line[j].digits % 2 = 0
  BY <1>2, <1>3, <1>5, <1>7
<1>9. h = 4 => LET x == Parsed(line)
               IN  /\ x.key = FromHex(<<line[1]>>) /\ x.nonce = FromHex(<<line[3]>>)
                   /\ x.message = FromHex(<<line[5]>>) /\ x.ct = FromHex(<<line[7]>>)
                   /\ x.tag = IF Len(line) = 9 THEN FromHex(<<line[9]>>) ELSE FromHex(<< >>)
  BY <1>4, <1>6
<1>. QED  BY <1>8, <1>9

(* A parsed vector against the vector that was printed.                    *)
Read(x, v, whole) ==
  /\ Whole(x.key, v.key) /\ Whole(x.nonce, v.nonce)
  /\ Whole(x.message, v.message) /\ Whole(x.ct, v.ct)
  /\ whole => Whole(x.tag, v.tag)
  /\ x.tag.len <= v.tag.len
  /\ x.tag.len > 0 => x.tag.of = v.tag

LEMMA ReadLine ==
  ASSUME NEW v \in MadeVector, NEW line \in Seq(Tokens), Len(line) \in {8, 9},
         \A j \in 1 .. 8 : line[j] = Line(v)[j],
         Len(line) = 9 => /\ line[9].kind = "hex" /\ line[9].of = v.tag
                          /\ line[9].digits \in 0 .. 2 * v.tag.len
  PROVE  /\ Parses(line) => Read(Parsed(line), v, FALSE)
         /\ Len(line) = 9 /\ line[9] = Hex(v.tag) =>
              Parses(line) /\ Read(Parsed(line), v, TRUE)
<1>. DEFINE x == Parsed(line)
            G(t) == t.kind = "hex" /\ t.digits % 2 = 0
<1>0. /\ Len(line) <= 9 /\ Len(line) \in Int
      /\ \A y : y \in 1 .. Len(line) => (y = 9 => Len(line) = 9)
  <2>1. \A n \in {8, 9} : /\ n <= 9 /\ n \in Int
                         /\ \A y : y \in 1 .. n => (y = 9 => n = 9)
    OBVIOUS
  <2>. QED  BY ONLY <2>1, Len(line) \in {8, 9}
<1>1. /\ \A j \in {2, 4, 6, 8} : line[j].kind = "space"
      /\ \A j \in {1, 3, 5, 7} : line[j].kind = "hex" /\ line[j].digits % 2 = 0
      /\ Len(line) = 9 => line[9].kind = "hex"
  <2>1. /\ \A j \in {2, 4, 6, 8} : line[j] = Line(v)[j]
        /\ \A j \in {1, 3, 5, 7} : line[j] = Line(v)[j]
    OBVIOUS
  <2>2. \A j \in {2, 4, 6, 8} : Line(v)[j].kind = "space"
    BY LineLemma, KindsLemma
  <2>3. \A j \in {1, 3, 5, 7} : Line(v)[j].kind = "hex" /\ Line(v)[j].digits % 2 = 0
    <3>1. \A j \in {1, 3, 5, 7} : j \in {1, 3, 5, 7, 9}
      OBVIOUS
    <3>. QED  BY <3>1, LineLemma
  <2>. QED  BY <2>1, <2>2, <2>3
<1>2. \A y \in 1 .. Len(line) : line[y].kind = "space" <=> \E k \in 1 .. 4 : y = 2 * k
  <2>1. ASSUME NEW y \in 1 .. Len(line)
        PROVE  line[y].kind = "space" <=> \E k \in 1 .. 4 : y = 2 * k
    <3>1. CASE y \in {2, 4, 6, 8}
      <4>1. line[y].kind = "space"
        BY <1>1, <3>1
      <4>2. \E k \in 1 .. 4 : y = 2 * k
        BY <3>1
      <4>. QED  BY <4>1, <4>2
    <3>2. CASE y \in {1, 3, 5, 7, 9}
      <4>1. line[y].kind = "hex"
        <5>1. y = 9 => Len(line) = 9
          BY <1>0
        <5>2. y = 9 \/ y \in {1, 3, 5, 7}
          BY <3>2
        <5>. QED  BY <1>1, <5>1, <5>2
      <4>2. ~ \E k \in 1 .. 4 : y = 2 * k
        BY <3>2
      <4>. QED  BY <4>1, <4>2
    <3>3. y \in {1, 3, 5, 7, 9} \/ y \in {2, 4, 6, 8}
      <4>1. y \in 1 .. 9
        <5>1. y \in Int /\ 1 <= y /\ y <= Len(line)
          OBVIOUS
        <5>2. Len(line) <= 9 /\ Len(line) \in Int
          BY <1>0
        <5>. QED  BY ONLY <5>1, <5>2
      <4>. QED  BY ONLY <4>1
    <3>. QED  BY <3>1, <3>2, <3>3
  <2>. QED  BY <2>1
<1>3. /\ Len(line) = 9 /\ G(line[9]) => Parses(line)
      /\ x.key = FromHex(<<line[1]>>) /\ x.nonce = FromHex(<<line[3]>>)
      /\ x.message = FromHex(<<line[5]>>) /\ x.ct = FromHex(<<line[7]>>)
      /\ x.tag = IF Len(line) = 9 THEN FromHex(<<line[9]>>) ELSE FromHex(<< >>)
  <2>1. Len(line) \in {2 * 4, 2 * 4 + 1}
    OBVIOUS
  <2>2. (\A j \in {1, 3, 5, 7, 9} : j <= Len(line) =>
           line[j].kind = "hex" /\ line[j].digits % 2 = 0) => Parses(line)
    BY <1>2, <2>1, ParsesLemma
  <2>3. /\ x.key = FromHex(<<line[1]>>) /\ x.nonce = FromHex(<<line[3]>>)
        /\ x.message = FromHex(<<line[5]>>) /\ x.ct = FromHex(<<line[7]>>)
        /\ x.tag = IF Len(line) = 9 THEN FromHex(<<line[9]>>) ELSE FromHex(<< >>)
    BY <1>2, <2>1, ParsesLemma
  <2>4. \A j \in {1, 3, 5, 7, 9} : j \in {1, 3, 5, 7} \/ j = 9
    OBVIOUS
  <2>5. Len(line) = 9 /\ G(line[9]) => Parses(line)
    BY <1>1, <2>2, <2>4
  <2>. QED  BY <2>3, <2>5
<1>4. ASSUME NEW b, b.len \in Nat
      PROVE  Whole(FromHex(<<Hex(b)>>), b)
  <2>1. (2 * b.len) \div 2 = b.len
    BY <1>4
  <2>. QED  BY <2>1, HexLemma DEF Hex, Whole
<1>5. Whole(x.key, v.key) /\ Whole(x.nonce, v.nonce) /\ Whole(x.message, v.message) /\ Whole(x.ct, v.ct)
  <2>1. /\ line[1] = Hex(v.key) /\ line[3] = Hex(v.nonce)
        /\ line[5] = Hex(v.message) /\ line[7] = Hex(v.ct)
    <3>1. line[1] = Line(v)[1] /\ line[3] = Line(v)[3] /\ line[5] = Line(v)[5] /\ line[7] = Line(v)[7]
      OBVIOUS
    <3>. QED  BY <3>1 DEF Line
  <2>. QED  BY <1>3, <1>4, <2>1, VectorLemma
<1>6. x.tag.len <= v.tag.len /\ (x.tag.len > 0 => x.tag.of = v.tag)
  <2>1. v.tag.len \in Nat
    BY VectorLemma
  <2>2. CASE Len(line) = 9
    <3>1. x.tag = [of |-> line[9].of, len |-> line[9].digits \div 2]
      BY <1>3, <2>2, HexLemma
    <3>2. ASSUME NEW d \in 0 .. 2 * v.tag.len PROVE d \div 2 <= v.tag.len
      BY <2>1
    <3>. QED  BY <2>2, <3>1, <3>2
  <2>3. CASE Len(line) = 8
    <3>1. x.tag = [of |-> << >>, len |-> 0]
      <4>1. Len(line) # 9
        BY <2>3
      <4>2. x.tag = FromHex(<< >>)
        BY <1>3, <4>1
      <4>. QED  BY <4>2, HexLemma
    <3>. QED  BY <2>1, <3>1
  <2>. QED  BY <2>2, <2>3
<1>7. Len(line) = 9 /\ line[9] = Hex(v.tag) => Parses(line) /\ Whole(x.tag, v.tag)
  <2>1. SUFFICES ASSUME Len(line) = 9, line[9] = Hex(v.tag) PROVE Parses(line) /\ Whole(x.tag, v.tag)
    OBVIOUS
  <2>2. v.tag.len \in Nat
    BY VectorLemma
  <2>3. (2 * v.tag.len) % 2 = 0
    BY <2>2
  <2>4. G(line[9])
    BY <2>1, <2>3 DEF Hex
  <2>. QED  BY <1>3, <1>4, <2>1, <2>2, <2>4
<1>. QED  BY <1>5, <1>6, <1>7 DEF Read

(* The first q lines of a text are those of the first q vectors.           *)
HasLines(text, vs, q) ==
  \A i \in 1 .. q : \A j \in 1 .. 10 : text[10 * (i - 1) + j] = Line(vs[i])[j]

(* The file holds the lines of the first q vectors and r strings of the    *)
(* next line, the last of which may miss digits.                           *)
Shows(text, vs, q, r) ==
  /\ text \in Seq(Tokens) /\ q \in 0 .. Len(vs) /\ r \in 0 .. 9 /\ Len(text) = 10 * q + r
  /\ HasLines(text, vs, q)
  /\ \A j \in 1 .. r : /\ j \in {2, 4, 6, 8} => text[10 * q + j] = Space
                       /\ j \in {1, 3, 5, 7, 9} => text[10 * q + j].kind = "hex"
  /\ r >= 8 => /\ q < Len(vs)
               /\ \A j \in 1 .. 8 : text[10 * q + j] = Line(vs[q + 1])[j]
  /\ r = 9 => /\ text[10 * q + 9].of = vs[q + 1].tag
              /\ text[10 * q + 9].digits \in 0 .. 2 * vs[q + 1].tag.len

(* In the lines of vectors the ends of lines are at multiples of ten.      *)
EndsAtTens(text, q) ==
  \A x \in 1 .. 10 * q : text[x].kind = "eol" <=> \E k \in 1 .. q : x = 10 * k

LEMMA VectorEnds ==
  ASSUME NEW vs \in Seq(MadeVector), NEW text, NEW q \in 0 .. Len(vs),
         HasLines(text, vs, q)
  PROVE  EndsAtTens(text, q)
<1>. SUFFICES ASSUME NEW x \in 1 .. 10 * q
              PROVE  text[x].kind = "eol" <=> \E k \in 1 .. q : x = 10 * k
  BY DEF EndsAtTens
<1>0. q \in Nat /\ q <= Len(vs)
  OBVIOUS
<1>1. PICK i \in 1 .. q, j \in 1 .. 10 : x = 10 * (i - 1) + j
  <2>1. x - 1 \in Nat /\ x <= 10 * q /\ x \in Int
    BY <1>0
  <2>2. PICK d \in Nat, m \in 0 .. 9 : x - 1 = 10 * d + m
    <3>1. \A y \in Nat : y \div 10 \in Nat /\ y % 10 \in 0 .. 9 /\ y = 10 * (y \div 10) + (y % 10)
      OBVIOUS
    <3>. QED  BY <2>1, <3>1
  <2>3. d + 1 \in 1 .. q /\ m + 1 \in 1 .. 10 /\ x = 10 * (d + 1 - 1) + (m + 1)
    BY ONLY <1>0, <2>1, <2>2
  <2>. WITNESS d + 1 \in 1 .. q, m + 1 \in 1 .. 10
  <2>. QED  BY <2>3
<1>2. vs[i] \in MadeVector
  BY <1>0
<1>3. text[x] = Line(vs[i])[j]
  BY <1>1 DEF HasLines
<1>4. text[x].kind = "eol" <=> j = 10
  <2>1. CASE j = 10
    BY <1>2, <1>3, <2>1, LineLemma, KindsLemma
  <2>2. CASE j \in {2, 4, 6, 8}
    <3>1. Line(vs[i])[j] = Space
      BY <1>2, <2>2, LineLemma
    <3>2. j # 10
      BY <2>2
    <3>. QED  BY <1>3, <3>1, <3>2, KindsLemma
  <2>3. CASE j \in {1, 3, 5, 7, 9}
    <3>1. Line(vs[i])[j].kind = "hex"
      BY <1>2, <2>3, LineLemma
    <3>. QED  BY <1>3, <2>3, <3>1
  <2>4. j = 10 \/ j \in {2, 4, 6, 8} \/ j \in {1, 3, 5, 7, 9}
    BY ONLY j \in 1 .. 10
  <2>. QED  BY <2>1, <2>2, <2>3, <2>4
<1>5. (\E k \in 1 .. q : x = 10 * k) <=> j = 10
  <2>1. ASSUME NEW k \in 1 .. q, x = 10 * k PROVE j = 10
    <3>1. 10 * k = 10 * (i - 1) + j /\ k \in Int /\ i \in Int /\ j \in 1 .. 10
      BY <1>1, <2>1
    <3>. QED  BY ONLY <3>1
  <2>2. ASSUME j = 10 PROVE x = 10 * i
    BY <1>0, <1>1, <2>2
  <2>. QED  BY <2>1, <2>2
<1>. QED  BY <1>4, <1>5

LEMMA ShowsEnds ==
  ASSUME NEW vs \in Seq(MadeVector), NEW text, NEW q, NEW r, Shows(text, vs, q, r)
  PROVE  EndsAt(text, "eol", q + 1, [k \in 0 .. q + 1 |-> IF k <= q THEN 10 * k ELSE Len(text) + 1])
<1>. DEFINE n == q + 1
            e == [k \in 0 .. n |-> IF k <= q THEN 10 * k ELSE Len(text) + 1]
<1>1. /\ q \in Nat /\ q <= Len(vs) /\ r \in 0 .. 9 /\ Len(text) = 10 * q + r /\ Len(text) \in Nat
  BY DEF Shows
<1>2. e \in [0 .. n -> Nat] /\ e[0] = 0 /\ e[n] = Len(text) + 1
  BY <1>1
<1>3. ASSUME NEW i \in 0 .. n, NEW j \in 0 .. n, i < j PROVE e[i] < e[j]
  <2>1. e[i] = 10 * i
    BY <1>1, <1>3
  <2>2. CASE j <= q
    BY <1>1, <1>3, <2>1, <2>2
  <2>3. CASE j = n
    BY <1>1, <1>3, <2>1, <2>3
  <2>. QED  BY <1>1, <2>2, <2>3
<1>4. ASSUME NEW x \in 1 .. Len(text)
      PROVE  text[x].kind = "eol" <=> \E k \in 1 .. q : x = 10 * k
  <2>1. CASE x <= 10 * q
    <3>1. x \in 1 .. 10 * q
      BY <1>1, <2>1
    <3>2. HasLines(text, vs, q)
      BY DEF Shows
    <3>3. q \in 0 .. Len(vs)
      BY DEF Shows
    <3>4. EndsAtTens(text, q)
      BY <3>2, <3>3, VectorEnds
    <3>. QED  BY <3>1, <3>4 DEF EndsAtTens
  <2>2. CASE ~(x <= 10 * q)
    <3>1. PICK j \in 1 .. r : x = 10 * q + j
      <4>1. x - 10 * q \in 1 .. r /\ x = 10 * q + (x - 10 * q)
        BY <1>1, <2>2
      <4>. QED  BY <4>1
    <3>2. ~ \E k \in 1 .. q : x = 10 * k
      BY <1>1, <3>1
    <3>3. text[x].kind # "eol"
      <4>1. j \in {2, 4, 6, 8} \/ j \in {1, 3, 5, 7, 9}
        BY <1>1, <3>1
      <4>2. CASE j \in {2, 4, 6, 8}
        <5>1. text[x] = Space
          BY <3>1, <4>2 DEF Shows
        <5>. QED  BY <5>1, KindsLemma
      <4>3. CASE j \in {1, 3, 5, 7, 9}
        <5>1. text[x].kind = "hex"
          BY <3>1, <4>3 DEF Shows
        <5>. QED  BY <5>1
      <4>. QED  BY <4>1, <4>2, <4>3
    <3>. QED  BY <3>2, <3>3
  <2>. QED  BY <2>1, <2>2
<1>5. \A k \in 1 .. n - 1 : e[k] = 10 * k
  BY <1>1
<1>6. n - 1 = q
  BY <1>1
<1>. HIDE DEF e, n
<1>7. ASSUME NEW x \in 1 .. Len(text)
      PROVE  text[x].kind = "eol" <=> \E k \in 1 .. n - 1 : x = e[k]
  <2>1. (\E k \in 1 .. n - 1 : x = e[k]) <=> \E k \in 1 .. q : x = 10 * k
    BY <1>5, <1>6
  <2>. QED  BY <1>4, <2>1
<1>8. EndsAt(text, "eol", n, e)
  BY <1>2, <1>3, <1>7 DEF EndsAt
<1>. QED  BY <1>8 DEF e, n

(* The lines of such a file.                                               *)
LEMMA ShowsLines ==
  ASSUME NEW vs \in Seq(MadeVector), NEW text, NEW q, NEW r, Shows(text, vs, q, r)
  PROVE  LET m == IF r = 0 THEN q ELSE q + 1
         IN  /\ DOMAIN Lines(text) = 1 .. m /\ Len(Lines(text)) = m
             /\ \A k \in 1 .. q : Lines(text)[k] = SubSeq(text, 10 * (k - 1) + 1, 10 * (k - 1) + 9)
             /\ r # 0 => Lines(text)[q + 1] = SubSeq(text, 10 * q + 1, 10 * q + r)
<1>. DEFINE n == q + 1
            e == [k \in 0 .. n |-> IF k <= q THEN 10 * k ELSE Len(text) + 1]
            m == IF r = 0 THEN q ELSE n
<1>1. /\ q \in Nat /\ r \in 0 .. 9 /\ Len(text) = 10 * q + r /\ Len(text) \in Nat
      /\ text \in Seq(Tokens)
  BY DEF Shows
<1>2. EndsAt(text, "eol", n, e) /\ n \in Nat \ {0}
  BY <1>1, ShowsEnds
<1>3. /\ \A k \in 1 .. q : e[k - 1] = 10 * (k - 1) /\ e[k] = 10 * k
      /\ e[q] = 10 * q /\ e[n] = Len(text) + 1
  BY <1>1
<1>4. n - 1 = q
  BY <1>1
<1>5. (e[n - 1] = Len(text) <=> r = 0)
  BY <1>1, <1>3, <1>4
<1>. HIDE DEF e
<1>6. Lines(text) = [k \in 1 .. (IF e[n - 1] = Len(text) THEN n - 1 ELSE n) |->
                       SubSeq(text, e[k - 1] + 1, e[k] - 1)]
  <2>1. text \in Seq(Tokens)
    BY <1>1
  <2>. HIDE DEF n
  <2>. QED  BY ONLY <2>1, <1>2, LinesLemma
<1>7. Lines(text) = [k \in 1 .. m |-> SubSeq(text, e[k - 1] + 1, e[k] - 1)] /\ m \in Nat
  BY <1>1, <1>4, <1>5, <1>6
<1>8. ASSUME NEW k \in 1 .. q
      PROVE  k \in 1 .. m /\ e[k - 1] + 1 = 10 * (k - 1) + 1 /\ e[k] - 1 = 10 * (k - 1) + 9
  <2>1. e[k - 1] = 10 * (k - 1) /\ e[k] = 10 * k
    BY <1>3
  <2>2. k \in 1 .. m
    BY <1>1
  <2>3. 10 * k - 1 = 10 * (k - 1) + 9
    BY <1>1
  <2>. QED  BY <2>1, <2>2, <2>3
<1>9. r # 0 => /\ q + 1 \in 1 .. m
               /\ e[q + 1 - 1] + 1 = 10 * q + 1 /\ e[q + 1] - 1 = 10 * q + r
  BY <1>1, <1>3
<1>. HIDE DEF m
<1>10. DOMAIN Lines(text) = 1 .. m /\ Len(Lines(text)) = m
  BY <1>7
<1>11. \A k \in 1 .. q : Lines(text)[k] = SubSeq(text, 10 * (k - 1) + 1, 10 * (k - 1) + 9)
  BY <1>7, <1>8
<1>12. r # 0 => Lines(text)[q + 1] = SubSeq(text, 10 * q + 1, 10 * q + r)
  <2>1. \A k \in 1 .. m : Lines(text)[k] = SubSeq(text, e[k - 1] + 1, e[k] - 1)
    BY <1>7
  <2>2. SUFFICES ASSUME r # 0
                 PROVE  Lines(text)[q + 1] = SubSeq(text, 10 * q + 1, 10 * q + r)
    OBVIOUS
  <2>3. q + 1 \in 1 .. m
    BY <1>9, <2>2
  <2>4. Lines(text)[q + 1] = SubSeq(text, e[q + 1 - 1] + 1, e[q + 1] - 1)
    BY <1>1, <2>1, <2>3
  <2>. QED  BY <1>9, <2>2, <2>4
<1>. QED  BY <1>10, <1>11, <1>12 DEF m

(* What load_testvecs takes from it: an exception, or a vector of every    *)
(* line; a line without its end counts if it has five strings.             *)
LEMMA ShowsLoads ==
  ASSUME NEW vs \in Seq(MadeVector), NEW text, NEW q, NEW r, Shows(text, vs, q, r)
  PROVE  LET vecs == LoadTestvecs(text).vecs
             m    == IF r = 0 THEN q ELSE q + 1
         IN  /\ \/ vecs = << >>
                \/ /\ DOMAIN vecs = 1 .. m /\ Len(vecs) = m /\ m <= Len(vs)
                   /\ \A k \in 1 .. m : Read(vecs[k], vs[k], k < m)
             /\ r = 0 => LoadTestvecs(text).state = "vectors" /\ Len(vecs) = q
<1>. DEFINE lines == Lines(text)
            m == IF r = 0 THEN q ELSE q + 1
            good == \A k \in DOMAIN lines : Parses(lines[k])
            vecs == LoadTestvecs(text).vecs
<1>1. /\ q \in Nat /\ q <= Len(vs) /\ r \in 0 .. 9 /\ Len(text) = 10 * q + r /\ Len(text) \in Nat
      /\ text \in Seq(Tokens) /\ m \in Nat
  BY DEF Shows
<1>2. /\ DOMAIN lines = 1 .. m /\ Len(lines) = m
      /\ \A k \in 1 .. q : lines[k] = SubSeq(text, 10 * (k - 1) + 1, 10 * (k - 1) + 9)
      /\ r # 0 => lines[q + 1] = SubSeq(text, 10 * q + 1, 10 * q + r)
  BY ShowsLines
<1>. HIDE DEF lines
<1>3. ASSUME NEW k \in 1 .. q
      PROVE  Parses(lines[k]) /\ Read(Parsed(lines[k]), vs[k], TRUE)
  <2>. DEFINE line == SubSeq(text, 10 * (k - 1) + 1, 10 * (k - 1) + 9)
              a == 10 * (k - 1)
  <2>1. a \in Nat /\ a + 9 <= Len(text)
    BY <1>1
  <2>2. line \in Seq(Tokens) /\ Len(line) = 9 /\ \A j \in 1 .. 9 : line[j] = text[a + j]
    <3>. HIDE DEF a
    <3>1. ASSUME NEW b \in Nat, b + 9 <= Len(text)
          PROVE  /\ SubSeq(text, b + 1, b + 9) \in Seq(Tokens)
                 /\ Len(SubSeq(text, b + 1, b + 9)) = 9
                 /\ \A j \in 1 .. 9 : SubSeq(text, b + 1, b + 9)[j] = text[b + j]
      BY <1>1, <3>1
    <3>2. line = SubSeq(text, a + 1, a + 9)
      BY DEF a
    <3>. HIDE DEF line
    <3>3. a \in Nat /\ a + 9 <= Len(text)
      BY <2>1
    <3>. QED  BY ONLY <3>1, <3>2, <3>3
  <2>3. \A j \in 1 .. 9 : text[a + j] = Line(vs[k])[j]
    <3>1. \A i \in 1 .. q : \A j \in 1 .. 10 : text[10 * (i - 1) + j] = Line(vs[i])[j]
      BY DEF Shows, HasLines
    <3>2. \A j \in 1 .. 9 : j \in 1 .. 10
      OBVIOUS
    <3>. QED  BY <3>1, <3>2
  <2>4. vs[k] \in MadeVector
    BY <1>1
  <2>5. lines[k] = line
    BY <1>2
  <2>. HIDE DEF line, a
  <2>6. \A j \in 1 .. 9 : line[j] = Line(vs[k])[j]
    BY <2>2, <2>3
  <2>7. line[9] = Hex(vs[k].tag)
    BY <2>6 DEF Line
  <2>8. /\ line[9].kind = "hex" /\ line[9].of = vs[k].tag
        /\ line[9].digits \in 0 .. 2 * vs[k].tag.len
    <3>1. vs[k].tag.len \in Nat
      BY <2>4, VectorLemma
    <3>. QED  BY <2>7, <3>1 DEF Hex
  <2>9. \A j \in 1 .. 8 : line[j] = Line(vs[k])[j]
    BY <2>6
  <2>10. Len(line) \in {8, 9}
    BY <2>2
  <2>11. Parses(line) /\ Read(Parsed(line), vs[k], TRUE)
    BY ONLY <2>2, <2>4, <2>7, <2>8, <2>9, <2>10, ReadLine
  <2>. QED  BY <2>5, <2>11
<1>4. ASSUME r # 0, Parses(lines[q + 1])
      PROVE  q < Len(vs) /\ Read(Parsed(lines[q + 1]), vs[q + 1], FALSE)
  <2>. DEFINE line == SubSeq(text, 10 * q + 1, 10 * q + r)
  <2>1. line \in Seq(Tokens) /\ Len(line) = r /\ \A j \in 1 .. r : line[j] = text[10 * q + j]
    <3>1. ASSUME NEW b \in Nat, b + r <= Len(text)
          PROVE  /\ SubSeq(text, b + 1, b + r) \in Seq(Tokens)
                 /\ Len(SubSeq(text, b + 1, b + r)) = r
                 /\ \A j \in 1 .. r : SubSeq(text, b + 1, b + r)[j] = text[b + j]
      BY <1>1, <3>1
    <3>2. 10 * q \in Nat /\ 10 * q + r <= Len(text)
      BY <1>1
    <3>. QED  BY <3>1, <3>2
  <2>2. lines[q + 1] = line
    BY <1>2, <1>4
  <2>. HIDE DEF line
  <2>3. \A j \in 1 .. r : /\ j \in {2, 4, 6, 8} => line[j] = Space
                          /\ j \in {1, 3, 5, 7, 9} => line[j].kind = "hex"
    BY <2>1 DEF Shows
  <2>4. PICK h \in 0 .. 4 : r = 2 * h \/ r = 2 * h + 1
    <3>1. \A z \in 0 .. 9 : z \div 2 \in 0 .. 4 /\ (z = 2 * (z \div 2) \/ z = 2 * (z \div 2) + 1)
      OBVIOUS
    <3>. QED  BY <1>1, <3>1
  <2>5. ASSUME NEW x \in 1 .. Len(line)
        PROVE  line[x].kind = "space" <=> \E k \in 1 .. h : x = 2 * k
    <3>1. x \in 1 .. r
      BY <2>1
    <3>2. x \in {2, 4, 6, 8} \/ x \in {1, 3, 5, 7, 9}
      BY <1>1, <3>1
    <3>3. CASE x \in {2, 4, 6, 8}
      <4>1. line[x].kind = "space"
        BY <2>3, <3>1, <3>3, KindsLemma
      <4>2. \E k \in 1 .. h : x = 2 * k
        <5>1. x <= 2 * h + 1 /\ x \in Nat
          BY <1>1, <2>4, <3>1
        <5>2. PICK k \in 1 .. 4 : x = 2 * k
          BY <3>3
        <5>. QED  BY <5>1, <5>2
      <4>. QED  BY <4>1, <4>2
    <3>4. CASE x \in {1, 3, 5, 7, 9}
      <4>1. line[x].kind = "hex"
        BY <2>3, <3>1, <3>4
      <4>2. ~ \E k \in 1 .. h : x = 2 * k
        BY <3>4
      <4>. QED  BY <4>1, <4>2
    <3>. QED  BY <3>2, <3>3, <3>4
  <2>6. Len(line) \in {2 * h, 2 * h + 1} /\ h \in Nat
    BY <2>1, <2>4
  <2>7. h = 4
    BY <1>4, <2>1, <2>2, <2>5, <2>6, ParsesLemma
  <2>8. r = 8 \/ r = 9
    BY <2>4, <2>7
  <2>9. r >= 8
    BY <2>8
  <2>10. q < Len(vs) /\ \A j \in 1 .. 8 : text[10 * q + j] = Line(vs[q + 1])[j]
    BY <2>9 DEF Shows
  <2>11. vs[q + 1] \in MadeVector
    BY <1>1, <2>10
  <2>12. \A j \in 1 .. 8 : line[j] = Line(vs[q + 1])[j]
    <3>1. \A j \in 1 .. 8 : j \in 1 .. r
      BY <2>8
    <3>. QED  BY <2>1, <2>10, <3>1
  <2>13. Len(line) = 9 => /\ line[9].kind = "hex" /\ line[9].of = vs[q + 1].tag
                          /\ line[9].digits \in 0 .. 2 * vs[q + 1].tag.len
    <3>1. SUFFICES ASSUME r = 9
                   PROVE  /\ line[9].kind = "hex" /\ line[9].of = vs[q + 1].tag
                          /\ line[9].digits \in 0 .. 2 * vs[q + 1].tag.len
      BY <2>1
    <3>2. 9 \in 1 .. r
      BY <3>1
    <3>3. line[9] = text[10 * q + 9] /\ line[9].kind = "hex"
      BY <2>1, <2>3, <3>2
    <3>. QED  BY <3>1, <3>3 DEF Shows
  <2>14. Len(line) \in {8, 9}
    BY <2>1, <2>8
  <2>15. Parses(line) => Read(Parsed(line), vs[q + 1], FALSE)
    BY ONLY <2>1, <2>11, <2>12, <2>13, <2>14, ReadLine
  <2>. QED  BY <1>4, <2>2, <2>10, <2>15
<1>5. LoadTestvecs(text) =
        IF good THEN [state |-> "vectors", vecs |-> [k \in DOMAIN lines |-> Parsed(lines[k])]]
        ELSE [state |-> "exception", vecs |-> << >>]
  BY DEF LoadTestvecs, lines
<1>6. CASE ~good
  <2>1. vecs = << >>
    BY <1>5, <1>6
  <2>2. r # 0
    BY <1>2, <1>3, <1>6
  <2>. QED  BY <2>1, <2>2
<1>7. CASE good
  <2>1. vecs = [k \in 1 .. m |-> Parsed(lines[k])] /\ LoadTestvecs(text).state = "vectors"
    <3>1. LoadTestvecs(text) = [state |-> "vectors", vecs |-> [k \in DOMAIN lines |-> Parsed(lines[k])]]
      BY <1>5, <1>7
    <3>. HIDE DEF m
    <3>. QED  BY <1>2, <3>1
  <2>2. DOMAIN vecs = 1 .. m /\ Len(vecs) = m
    <3>. HIDE DEF m
    <3>. QED  BY <1>1, <2>1
  <2>3. m <= Len(vs)
    <3>1. CASE r = 0
      BY <1>1, <3>1
    <3>2. CASE r # 0
      <4>1. Parses(lines[q + 1])
        BY <1>1, <1>2, <1>7, <3>2
      <4>. QED  BY <1>1, <1>4, <3>2, <4>1
    <3>. QED  BY <3>1, <3>2
  <2>4. ASSUME NEW k \in 1 .. m PROVE Read(vecs[k], vs[k], k < m)
    <3>1. vecs[k] = Parsed(lines[k])
      BY <2>1
    <3>2. CASE k \in 1 .. q
      BY <1>3, <3>1, <3>2 DEF Read
    <3>3. CASE ~(k \in 1 .. q)
      <4>1. r # 0 /\ k = q + 1 /\ ~(k < m)
        BY <1>1, <3>3
      <4>2. Parses(lines[q + 1])
        BY <1>2, <1>7, <4>1
      <4>. QED  BY <1>4, <3>1, <4>1, <4>2 DEF Read
    <3>. QED  BY <3>2, <3>3
  <2>5. r = 0 => m = q
    OBVIOUS
  <2>. HIDE DEF vecs, m
  <2>6. r = 0 => LoadTestvecs(text).state = "vectors" /\ Len(vecs) = q
    BY <2>1, <2>2, <2>5
  <2>. QED  BY <2>2, <2>3, <2>4, <2>6 DEF vecs, m
<1>. QED  BY <1>6, <1>7

(* The file ends in a line of m strings whose last one is a word: a        *)
(* message of main or generate, or the first half of a vector and the      *)
(* message of the check.                                                   *)
ShowsMessage(text, vs, m) ==
  LET q == Len(vs) IN
  /\ text \in Seq(Tokens) /\ m \in 2 .. 6 /\ Len(text) = 10 * q + 2 * m
  /\ HasLines(text, vs, q)
  /\ \A j \in 1 .. m - 1 : /\ text[10 * q + 2 * j - 1].kind \in {"hex", "word"}
                           /\ text[10 * q + 2 * j] = Space
  /\ text[10 * q + 2 * m - 1] = Word /\ text[10 * q + 2 * m] = EndOfLine

(* The script does not take such a file for a file of vectors.             *)
LEMMA ShowsMessageFails ==
  ASSUME NEW vs \in Seq(MadeVector), NEW text, NEW m, ShowsMessage(text, vs, m)
  PROVE  LoadTestvecs(text) = [state |-> "exception", vecs |-> << >>]
<1>. DEFINE q == Len(vs)
            n == q + 2
            e == [k \in 0 .. n |-> IF k <= q THEN 10 * k
                                   ELSE IF k = q + 1 THEN Len(text) ELSE Len(text) + 1]
            b == 10 * q
<1>1. /\ q \in Nat /\ m \in 2 .. 6 /\ Len(text) = b + 2 * m /\ Len(text) \in Nat
      /\ text \in Seq(Tokens) /\ HasLines(text, vs, q) /\ b \in Nat
      /\ \A j \in 1 .. m - 1 : /\ text[b + 2 * j - 1].kind \in {"hex", "word"}
                               /\ text[b + 2 * j] = Space
      /\ text[b + 2 * m - 1] = Word /\ text[b + 2 * m] = EndOfLine
  BY DEF ShowsMessage
<1>. HIDE DEF b
<1>2. b = 10 * q
  BY DEF b
<1>. HIDE DEF q
<1>3. /\ \A j \in 1 .. m : text[b + 2 * j - 1].kind \in {"hex", "word"}
      /\ \A j \in 1 .. m - 1 : text[b + 2 * j].kind = "space"
      /\ text[b + 2 * m].kind = "eol" /\ text[b + 2 * m - 1].kind = "word"
  <2>1. \A j \in 1 .. m : j \in 1 .. m - 1 \/ j = m
    BY <1>1
  <2>2. /\ \A j \in 1 .. m - 1 : text[b + 2 * j].kind = "space"
        /\ text[b + 2 * m].kind = "eol" /\ text[b + 2 * m - 1].kind = "word"
    BY <1>1, KindsLemma
  <2>. QED  BY <1>1, <2>1, <2>2
<1>4. e \in [0 .. n -> Nat] /\ e[0] = 0 /\ e[n] = Len(text) + 1
  BY <1>1
<1>5. ASSUME NEW i \in 0 .. n, NEW j \in 0 .. n, i < j PROVE e[i] < e[j]
  <2>1. CASE j <= q
    BY <1>1, <1>5, <2>1
  <2>2. CASE j = q + 1
    <3>1. e[i] = 10 * i /\ e[j] = b + 2 * m /\ i <= q
      BY <1>1, <1>5, <2>2
    <3>. QED  BY <1>1, <1>2, <1>5, <3>1
  <2>3. CASE j = n
    <3>1. e[j] = b + 2 * m + 1
      BY <1>1, <2>3
    <3>2. CASE i <= q
      <4>1. e[i] = 10 * i
        BY <1>1, <3>2
      <4>. QED  BY <1>1, <1>2, <3>1, <3>2, <4>1
    <3>3. CASE i = q + 1
      <4>1. e[i] = b + 2 * m
        BY <1>1, <3>3
      <4>. QED  BY <1>1, <3>1, <4>1
    <3>. QED  BY <1>1, <1>5, <2>3, <3>2, <3>3
  <2>. QED  BY <1>1, <2>1, <2>2, <2>3
<1>6. (\A k \in 1 .. q : e[k] = 10 * k) /\ e[q + 1] = b + 2 * m /\ e[q] = b
  BY <1>1, <1>2
<1>7. ASSUME NEW x \in 1 .. Len(text)
      PROVE  text[x].kind = "eol" <=> \E k \in 1 .. q + 1 : x = e[k]
  <2>. HIDE DEF e, n
  <2>1. CASE x <= b
    <3>1. EndsAtTens(text, q)
      <4>1. Len(vs) = q /\ q \in 0 .. Len(vs)
        BY <1>1 DEF q
      <4>. QED  BY <1>1, <4>1, VectorEnds
    <3>2. x \in 1 .. 10 * q
      BY <1>1, <1>2, <2>1
    <3>3. text[x].kind = "eol" <=> \E k \in 1 .. q : x = 10 * k
      BY <3>1, <3>2 DEF EndsAtTens
    <3>4. (\E k \in 1 .. q : x = 10 * k) <=> (\E k \in 1 .. q + 1 : x = e[k])
      <4>1. x # e[q + 1]
        BY <1>1, <1>6, <2>1
      <4>2. \A k \in 1 .. q + 1 : k \in 1 .. q \/ k = q + 1
        BY <1>1
      <4>3. \A k \in 1 .. q : k \in 1 .. q + 1
        BY <1>1
      <4>. QED  BY <1>6, <4>1, <4>2, <4>3
    <3>. QED  BY <3>3, <3>4
  <2>2. CASE ~(x <= b)
    <3>1. PICK j \in 1 .. m : x = b + 2 * j - 1 \/ x = b + 2 * j
      <4>1. PICK d \in 1 .. 2 * m : x = b + d
        <5>1. x - b \in 1 .. 2 * m /\ x = b + (x - b)
          BY <1>1, <2>2
        <5>. QED  BY <5>1
      <4>2. \A z \in 1 .. 12 : (z + 1) \div 2 \in 1 .. 6
                             /\ (z = 2 * ((z + 1) \div 2) - 1 \/ z = 2 * ((z + 1) \div 2))
        OBVIOUS
      <4>3. PICK j \in 1 .. 6 : d = 2 * j - 1 \/ d = 2 * j
        BY <1>1, <4>2
      <4>4. j \in 1 .. m
        BY <1>1, <4>3
      <4>5. x = b + 2 * j - 1 \/ x = b + 2 * j
        BY <1>1, <4>1, <4>3
      <4>. QED  BY <4>4, <4>5
    <3>2. ASSUME NEW k \in 1 .. q + 1 PROVE x = e[k] <=> x = b + 2 * m /\ k = q + 1
      <4>1. CASE k = q + 1
        BY <1>6, <4>1
      <4>2. CASE k \in 1 .. q
        <5>1. e[k] = 10 * k /\ 10 * k <= b
          BY <1>1, <1>2, <1>6, <4>2
        <5>. QED  BY <1>1, <2>2, <4>2, <5>1
      <4>. QED  BY <1>1, <4>1, <4>2
    <3>3. (\E k \in 1 .. q + 1 : x = e[k]) <=> x = b + 2 * m
      <4>1. q + 1 \in 1 .. q + 1
        BY <1>1
      <4>. QED  BY <3>2, <4>1
    <3>4. CASE x = b + 2 * j - 1
      <4>1. text[x].kind # "eol"
        BY <1>3, <3>1, <3>4
      <4>2. x # b + 2 * m
        BY <1>1, <3>1, <3>4
      <4>. QED  BY <3>3, <4>1, <4>2
    <3>5. CASE x = b + 2 * j
      <4>1. CASE j = m
        BY <1>3, <3>3, <3>5, <4>1
      <4>2. CASE j # m
        <5>1. j \in 1 .. m - 1
          BY <1>1, <4>2
        <5>2. text[x].kind = "space"
          BY <1>3, <3>5, <5>1
        <5>3. x # b + 2 * m
          BY <1>1, <3>1, <3>5, <4>2
        <5>. QED  BY <3>3, <5>2, <5>3
      <4>. QED  BY <4>1, <4>2
    <3>. QED  BY <3>1, <3>4, <3>5
  <2>. QED  BY <2>1, <2>2
<1>8. n - 1 = q + 1 /\ n \in Nat \ {0}
  BY <1>1
<1>. HIDE DEF e, n
<1>9. EndsAt(text, "eol", n, e)
  BY <1>4, <1>5, <1>7, <1>8 DEF EndsAt
<1>10. Lines(text) = [k \in 1 .. (IF e[n - 1] = Len(text) THEN n - 1 ELSE n) |->
                       SubSeq(text, e[k - 1] + 1, e[k] - 1)]
  <2>1. text \in Seq(Tokens)
    BY <1>1
  <2>. QED  BY ONLY <1>8, <1>9, <2>1, LinesLemma
<1>. DEFINE line == SubSeq(text, b + 1, b + 2 * m - 1)
            h == m - 1
<1>11. q + 1 \in DOMAIN Lines(text) /\ Lines(text)[q + 1] = line
  <2>1. Lines(text) = [k \in 1 .. q + 1 |-> SubSeq(text, e[k - 1] + 1, e[k] - 1)]
    BY <1>1, <1>6, <1>8, <1>10
  <2>2. q + 1 \in 1 .. q + 1 /\ q + 1 - 1 = q
    BY <1>1
  <2>3. Lines(text)[q + 1] = SubSeq(text, e[q + 1 - 1] + 1, e[q + 1] - 1)
    <3>1. \A k \in 1 .. q + 1 : Lines(text)[k] = SubSeq(text, e[k - 1] + 1, e[k] - 1)
      BY <2>1
    <3>. QED  BY <1>1, <2>2, <3>1
  <2>4. e[q + 1 - 1] + 1 = b + 1 /\ e[q + 1] - 1 = b + 2 * m - 1
    BY <1>1, <1>6, <2>2
  <2>5. q + 1 \in DOMAIN Lines(text)
    BY <2>1, <2>2
  <2>. QED  BY <2>3, <2>4, <2>5
<1>12. line \in Seq(Tokens) /\ Len(line) = 2 * h + 1 /\ h \in 1 .. 5
       /\ \A x \in 1 .. 2 * h + 1 : line[x] = text[b + x]
  <2>1. b + 2 * m - 1 <= Len(text)
    BY <1>1
  <2>. QED  BY <1>1, <2>1
<1>. HIDE DEF line
<1>13. ASSUME NEW x \in 1 .. Len(line)
       PROVE  line[x].kind = "space" <=> \E k \in 1 .. h : x = 2 * k
  <2>1. x \in 1 .. 2 * h + 1 /\ line[x] = text[b + x]
    BY <1>12
  <2>2. PICK j \in 1 .. m : x = 2 * j - 1 \/ x = 2 * j
    <3>1. \A z \in 1 .. 12 : (z + 1) \div 2 \in 1 .. 6
                           /\ (z = 2 * ((z + 1) \div 2) - 1 \/ z = 2 * ((z + 1) \div 2))
      OBVIOUS
    <3>2. PICK j \in 1 .. 6 : x = 2 * j - 1 \/ x = 2 * j
      BY <1>12, <2>1, <3>1
    <3>3. j \in 1 .. m
      BY <1>1, <2>1, <3>2
    <3>. QED  BY <3>2, <3>3
  <2>3. CASE x = 2 * j
    <3>1. j \in 1 .. h /\ j \in 1 .. m - 1
      BY <1>1, <2>1, <2>3
    <3>2. text[b + x].kind = "space"
      BY <1>3, <2>3, <3>1
    <3>. QED  BY <2>1, <2>3, <3>1, <3>2
  <2>4. CASE x = 2 * j - 1
    <3>1. b + x = b + 2 * j - 1
      BY <1>1, <2>4
    <3>2. text[b + x].kind \in {"hex", "word"}
      BY <1>3, <3>1
    <3>3. ~ \E k \in 1 .. h : x = 2 * k
      BY <1>1, <2>4
    <3>. QED  BY <2>1, <3>2, <3>3
  <2>. QED  BY <2>2, <2>3, <2>4
<1>14. ~Parses(line)
  <2>1. SUFFICES ASSUME Parses(line) PROVE FALSE
    OBVIOUS
  <2>2. h \in Nat /\ Len(line) \in {2 * h, 2 * h + 1}
    BY <1>12
  <2>3. /\ h = 4
        /\ \A j \in {1, 3, 5, 7, 9} : j <= Len(line) =>
             line[j].kind = "hex" /\ line[j].digits % 2 = 0
    <3>. HIDE DEF h
    <3>. QED  BY <1>12, <1>13, <2>1, <2>2, ParsesLemma
  <2>4. m = 5 /\ Len(line) = 9
    BY <1>1, <1>12, <2>3
  <2>5. line[9].kind = "hex"
    BY <2>3, <2>4
  <2>6. line[9] = text[b + 9]
    BY <1>12, <2>3
  <2>7. b + 2 * m - 1 = b + 9
    BY <1>1, <2>4
  <2>8. text[b + 9].kind = "word"
    BY <1>3, <2>7
  <2>. QED  BY <2>5, <2>6, <2>8
<1>. QED  BY <1>11, <1>14 DEF LoadTestvecs

-----------------------------------------------------------------------------
(* The second inductive invariant: what stands on stdout.                  *)
Vecs == [i \in DOMAIN made |-> made[i].vec]

(* The half of a line that was printed before the generator was killed.    *)
HalfLine ==
  LET b == 10 * Len(made) IN
  \/ Len(out) = b
  \/ /\ Len(out) = b + 6
     /\ \A j \in {2, 4, 6} : out[b + j] = Space
     /\ \A j \in {1, 3, 5} : out[b + j].kind = "hex"

OutOK ==
  LET b == 10 * Len(made) IN
  /\ out \in Seq(Tokens)
  /\ HasLines(out, Vecs, Len(made))
  /\ pc \in {"main", "generate", "sample"} => Len(out) = b
  /\ pc \in {"check", "cipher"} =>
       Len(out) = b + 6 /\ \A j \in 1 .. 6 : out[b + j] = Line(cur)[j]
  /\ pc = "killed" => HalfLine
  /\ pc = "exit" => IF status = 0 THEN Len(out) = b
                    ELSE \E m \in 2 .. 6 : ShowsMessage(out, Vecs, m)

LEMMA VecsLemma ==
  ASSUME TypeOK
  PROVE  /\ Vecs \in Seq(MadeVector) /\ Len(Vecs) = Len(made) /\ Len(made) \in Nat
         /\ \A i \in 1 .. Len(made) : Vecs[i] = made[i].vec
<1>1. made \in Seq([vec : MadeVector, index : Nat])
  BY DEF TypeOK
<1>2. \A i \in 1 .. Len(made) : made[i].vec \in MadeVector
  <2>1. \A i \in 1 .. Len(made) : made[i] \in [vec : MadeVector, index : Nat]
    BY <1>1, ElementOfSeq
  <2>. QED  BY <2>1
<1>3. DOMAIN made = 1 .. Len(made) /\ Len(made) \in Nat
  BY <1>1
<1>. QED  BY <1>2, <1>3 DEF Vecs

(* The tokens of the messages.                                             *)
LEMMA TextLemma ==
  ASSUME NEW n \in 2 .. 6
  PROVE  /\ Text(n) \in Seq(Tokens) /\ Len(Text(n)) = 2 * n
         /\ \A j \in 1 .. n : Text(n)[2 * j - 1] = Word
         /\ \A j \in 1 .. n - 1 : Text(n)[2 * j] = Space
         /\ Text(n)[2 * n] = EndOfLine
<1>1. \A i \in 1 .. 2 * n : Text(n)[i] \in Tokens
  BY DEF Text, Tokens
<1>2. Text(n) = [i \in 1 .. 2 * n |-> Text(n)[i]] /\ 2 * n \in Nat
  BY DEF Text
<1>3. Text(n) \in Seq(Tokens) /\ Len(Text(n)) = 2 * n
  BY <1>1, <1>2
<1>4. \A j \in 1 .. n : Text(n)[2 * j - 1] = Word
  <2>1. ASSUME NEW j \in 1 .. n PROVE (2 * j - 1) % 2 = 1 /\ 2 * j - 1 \in 1 .. 2 * n
    OBVIOUS
  <2>. QED  BY <2>1 DEF Text
<1>5. \A j \in 1 .. n : Text(n)[2 * j] = IF j = n THEN EndOfLine ELSE Space
  <2>1. ASSUME NEW j \in 1 .. n
        PROVE  (2 * j) % 2 = 0 /\ 2 * j \in 1 .. 2 * n /\ (2 * j = 2 * n <=> j = n)
    OBVIOUS
  <2>. QED  BY <2>1 DEF Text
<1>6. \A j \in 1 .. n - 1 : Text(n)[2 * j] = Space
  BY <1>5
<1>7. Text(n)[2 * n] = EndOfLine
  BY <1>5
<1>. QED  BY <1>3, <1>4, <1>6, <1>7

(* A message after the complete lines, or after half a line.               *)
LEMMA FailOutOK ==
  ASSUME TypeOK, OutOK, NEW n \in {2, 3, 5, 6}, NEW code, code # 0,
         (pc \in {"main", "generate"} /\ n \in {3, 5, 6}) \/ (pc = "check" /\ n = 2),
         Fail(Text(n), code)
  PROVE  OutOK'
<1>. DEFINE b == 10 * Len(made)
            q == Len(made)
<1>1. out' = out \o Text(n) /\ status' = code /\ pc' = "exit" /\ UNCHANGED <<args, made, cur>>
  BY DEF Fail
<1>2. out \in Seq(Tokens) /\ HasLines(out, Vecs, q) /\ Len(out) \in Nat
  BY DEF OutOK
<1>3. Vecs \in Seq(MadeVector) /\ Len(Vecs) = q /\ q \in Nat /\ Vecs' = Vecs
  BY <1>1, VecsLemma DEF Vecs
<1>4. n \in 2 .. 6
  OBVIOUS
<1>5. /\ Text(n) \in Seq(Tokens) /\ Len(Text(n)) = 2 * n
      /\ \A j \in 1 .. n : Text(n)[2 * j - 1] = Word
      /\ \A j \in 1 .. n - 1 : Text(n)[2 * j] = Space
      /\ Text(n)[2 * n] = EndOfLine
  BY <1>4, TextLemma
<1>6. /\ out' \in Seq(Tokens) /\ Len(out') = Len(out) + 2 * n
      /\ \A i \in 1 .. Len(out) : out'[i] = out[i]
      /\ \A i \in 1 .. 2 * n : out'[Len(out) + i] = Text(n)[i]
  <2>1. ASSUME NEW s \in Seq(Tokens), NEW t \in Seq(Tokens)
        PROVE  /\ s \o t \in Seq(Tokens) /\ Len(s \o t) = Len(s) + Len(t)
               /\ \A i \in 1 .. Len(s) : (s \o t)[i] = s[i]
               /\ \A i \in 1 .. Len(t) : (s \o t)[Len(s) + i] = t[i]
    OBVIOUS
  <2>. DEFINE t == Text(n)
  <2>2. out' = out \o t /\ t \in Seq(Tokens) /\ Len(t) = 2 * n
    BY <1>1, <1>5
  <2>3. out \in Seq(Tokens)
    BY <1>2
  <2>. HIDE DEF t
  <2>4. /\ out' \in Seq(Tokens) /\ Len(out') = Len(out) + Len(t)
        /\ \A i \in 1 .. Len(out) : out'[i] = out[i]
        /\ \A i \in 1 .. Len(t) : out'[Len(out) + i] = t[i]
    BY <2>1, <2>2, <2>3
  <2>. QED  BY <2>2, <2>4 DEF t
<1>. HIDE DEF q
<1>7. b = 10 * q /\ b \in Nat /\ b <= Len(out)
  <2>1. Len(out) = b \/ Len(out) = b + 6
    BY DEF OutOK
  <2>2. b = 10 * q
    BY DEF q
  <2>. HIDE DEF b
  <2>. QED  BY <1>3, <2>1, <2>2
<1>. HIDE DEF b
<1>8. HasLines(out', Vecs, q)
  <2>1. ASSUME NEW i \in 1 .. q, NEW j \in 1 .. 10 PROVE out'[10 * (i - 1) + j] = out[10 * (i - 1) + j]
    <3>1. 10 * (i - 1) + j \in 1 .. Len(out)
      BY <1>2, <1>3, <1>7
    <3>. QED  BY <1>6, <3>1
  <2>. QED  BY <1>2, <2>1 DEF HasLines
<1>9. \E m \in 2 .. 6 : ShowsMessage(out', Vecs, m)
  <2>1. CASE pc \in {"main", "generate"} /\ n \in {3, 5, 6}
    <3>1. Len(out) = b
      BY <2>1 DEF OutOK, b
    <3>2. /\ \A j \in 1 .. n - 1 : out'[b + 2 * j - 1] = Word /\ out'[b + 2 * j] = Space
          /\ out'[b + 2 * n - 1] = Word /\ out'[b + 2 * n] = EndOfLine
      <4>1. ASSUME NEW j \in 1 .. n
            PROVE  /\ b + 2 * j - 1 = Len(out) + (2 * j - 1) /\ 2 * j - 1 \in 1 .. 2 * n
                   /\ b + 2 * j = Len(out) + 2 * j /\ 2 * j \in 1 .. 2 * n
        BY <1>2, <1>4, <3>1
      <4>2. ASSUME NEW j \in 1 .. n
            PROVE  out'[b + 2 * j - 1] = Text(n)[2 * j - 1] /\ out'[b + 2 * j] = Text(n)[2 * j]
        BY <1>6, <4>1
      <4>. QED  BY <1>4, <1>5, <4>2
    <3>3. ShowsMessage(out', Vecs, n)
      <4>1. Len(out') = b + 2 * n
        BY <1>6, <3>1
      <4>2. \A j \in 1 .. n - 1 : out'[b + 2 * j - 1].kind \in {"hex", "word"}
        BY <3>2, KindsLemma
      <4>. QED  BY <1>3, <1>4, <1>6, <1>7, <1>8, <3>2, <4>1, <4>2 DEF ShowsMessage
    <3>. QED  BY <1>4, <3>3
  <2>2. CASE pc = "check" /\ n = 2
    <3>1. Len(out) = b + 6 /\ \A j \in 1 .. 6 : out[b + j] = Line(cur)[j]
      BY <2>2 DEF OutOK, b
    <3>2. cur \in MadeVector
      BY <2>2 DEF TypeOK
    <3>3. \A j \in 1 .. 6 : out'[b + j] = Line(cur)[j]
      <4>1. \A j \in 1 .. 6 : b + j \in 1 .. Len(out)
        <5>1. \A j \in 1 .. 6 : b + j \in 1 .. b + 6
          BY <1>7
        <5>. QED  BY <3>1, <5>1
      <4>. QED  BY <1>6, <3>1, <4>1
    <3>4. /\ out'[b + 1].kind = "hex" /\ out'[b + 2] = Space /\ out'[b + 3].kind = "hex"
          /\ out'[b + 4] = Space /\ out'[b + 5].kind = "hex" /\ out'[b + 6] = Space
      <4>1. /\ \A j \in {2, 4, 6} : out'[b + j] = Space
            /\ \A j \in {1, 3, 5} : out'[b + j].kind = "hex"
        BY <3>2, <3>3, LineLemma
      <4>. QED  BY <4>1
    <3>5. /\ out'[b + 7] = Word /\ out'[b + 8] = Space /\ out'[b + 9] = Word
          /\ out'[b + 10] = EndOfLine
      <4>1. /\ Text(2)[1] = Word /\ Text(2)[2] = Space /\ Text(2)[3] = Word /\ Text(2)[4] = EndOfLine
        BY DEF Text
      <4>2. \A i \in 1 .. 4 : out'[b + 6 + i] = Text(2)[i]
        BY <1>6, <2>2, <3>1
      <4>3. /\ out'[b + 6 + 1] = Word /\ out'[b + 6 + 2] = Space
            /\ out'[b + 6 + 3] = Word /\ out'[b + 6 + 4] = EndOfLine
        BY <4>1, <4>2
      <4>4. b + 6 + 1 = b + 7 /\ b + 6 + 2 = b + 8 /\ b + 6 + 3 = b + 9 /\ b + 6 + 4 = b + 10
        BY <1>7
      <4>. QED  BY <4>3, <4>4
    <3>6. ASSUME NEW j \in 1 .. 5 - 1
          PROVE  out'[b + 2 * j - 1].kind \in {"hex", "word"} /\ out'[b + 2 * j] = Space
      <4>1. CASE j = 1
        <5>1. b + 2 * j - 1 = b + 1 /\ b + 2 * j = b + 2
          BY <1>7, <4>1
        <5>. QED  BY <3>4, <5>1
      <4>2. CASE j = 2
        <5>1. b + 2 * j - 1 = b + 3 /\ b + 2 * j = b + 4
          BY <1>7, <4>2
        <5>. QED  BY <3>4, <5>1
      <4>3. CASE j = 3
        <5>1. b + 2 * j - 1 = b + 5 /\ b + 2 * j = b + 6
          BY <1>7, <4>3
        <5>. QED  BY <3>4, <5>1
      <4>4. CASE j = 4
        <5>1. b + 2 * j - 1 = b + 7 /\ b + 2 * j = b + 8
          BY <1>7, <4>4
        <5>. QED  BY <3>5, <5>1, KindsLemma
      <4>. QED  BY <4>1, <4>2, <4>3, <4>4
    <3>7. out'[b + 2 * 5 - 1] = Word /\ out'[b + 2 * 5] = EndOfLine
      <4>1. b + 2 * 5 - 1 = b + 9 /\ b + 2 * 5 = b + 10
        BY <1>7
      <4>. QED  BY <3>5, <4>1
    <3>8. ShowsMessage(out', Vecs, 5)
      <4>1. Len(out') = b + 2 * 5
        BY <1>6, <1>7, <2>2, <3>1
      <4>2. 10 * Len(Vecs) = b /\ 5 \in 2 .. 6
        BY <1>3, <1>7
      <4>3. \A j \in 1 .. 5 - 1 : /\ out'[b + 2 * j - 1].kind \in {"hex", "word"}
                                 /\ out'[b + 2 * j] = Space
        BY <3>6
      <4>4. HasLines(out', Vecs, Len(Vecs)) /\ out' \in Seq(Tokens)
        BY <1>3, <1>6, <1>8
      <4>. QED  BY ONLY <3>7, <4>1, <4>2, <4>3, <4>4 DEF ShowsMessage
    <3>. QED  BY <3>8
  <2>. QED  BY <2>1, <2>2
<1>. QED  BY <1>1, <1>3, <1>6, <1>8, <1>9 DEF OutOK, q

LEMMA ConcatLemma ==
  ASSUME NEW s \in Seq(Tokens), NEW t \in Seq(Tokens)
  PROVE  /\ s \o t \in Seq(Tokens) /\ Len(s \o t) = Len(s) + Len(t)
         /\ \A i \in 1 .. Len(s) : (s \o t)[i] = s[i]
         /\ \A i \in 1 .. Len(t) : (s \o t)[Len(s) + i] = t[i]
OBVIOUS

(* The first half of a line is printed with the buffers filled.            *)
LEMMA PlainOutOK == ASSUME TypeOK, InPlace, OutOK, PrintPlain, cur' \in MadeVector PROVE OutOK'
<1>. DEFINE b == 10 * Len(made)
            t == FirstHalf(cur')
<1>1. /\ pc = "sample" /\ pc' \in {"check", "cipher"} /\ UNCHANGED <<args, status, made, loaded>>
  BY DEF PrintPlain, AfterPlain
<1>2. out' = out \o t
  <2>. DEFINE p == Mode(args.primitive)
              m == MLen(args, pair)
              message == Random(pos, m)
              key == Random(pos + m, p.keylen)
              nonce == Random(pos + m + p.keylen, p.noncelen)
  <2>1. /\ cur' \in Encrypted(p, message, key, nonce)
        /\ out' = out \o <<Hex(key), Space, Hex(nonce), Space, Hex(message), Space>>
    BY DEF PrintPlain
  <2>. HIDE DEF p, m, message, key, nonce
  <2>2. cur'.key = key /\ cur'.nonce = nonce /\ cur'.message = message
    BY <2>1 DEF Encrypted
  <2>. QED  BY <2>1, <2>2 DEF FirstHalf
<1>3. out \in Seq(Tokens) /\ HasLines(out, Vecs, Len(made)) /\ Len(out) = b
  BY <1>1 DEF OutOK
<1>4. t \in Seq(Tokens) /\ Len(t) = 6 /\ \A j \in 1 .. 6 : t[j] = Line(cur')[j]
  <2>1. \A j \in 1 .. 6 : t[j] = Line(cur')[j] /\ t[j] \in Tokens
    <3>1. \A j \in 1 .. 6 : j \in 1 .. 10
      OBVIOUS
    <3>. QED  BY <3>1, LineLemma
  <2>2. t = [j \in 1 .. 6 |-> t[j]]
    BY DEF FirstHalf
  <2>. HIDE DEF t
  <2>3. t \in Seq(Tokens) /\ Len(t) = 6
    BY <2>1, <2>2
  <2>. QED  BY <2>1, <2>3
<1>. HIDE DEF t
<1>5. /\ out' \in Seq(Tokens) /\ Len(out') = Len(out) + 6
      /\ \A i \in 1 .. Len(out) : out'[i] = out[i]
      /\ \A i \in 1 .. 6 : out'[Len(out) + i] = t[i]
  <2>1. /\ out' \in Seq(Tokens) /\ Len(out') = Len(out) + Len(t)
        /\ \A i \in 1 .. Len(out) : out'[i] = out[i]
        /\ \A i \in 1 .. Len(t) : out'[Len(out) + i] = t[i]
    BY <1>2, <1>3, <1>4, ConcatLemma
  <2>. QED  BY <1>4, <2>1
<1>6. Vecs' = Vecs /\ Len(made) \in Nat
  BY <1>1, VecsLemma DEF Vecs
<1>7. HasLines(out', Vecs, Len(made))
  <2>1. ASSUME NEW i \in 1 .. Len(made), NEW j \in 1 .. 10
        PROVE out'[10 * (i - 1) + j] = out[10 * (i - 1) + j]
    <3>1. 10 * (i - 1) + j \in 1 .. b
      BY <1>6
    <3>. QED  BY <1>3, <1>5, <3>1
  <2>. QED  BY <1>3, <2>1 DEF HasLines
<1>8. Len(out') = b + 6 /\ \A j \in 1 .. 6 : out'[b + j] = Line(cur')[j]
  BY <1>3, <1>4, <1>5
<1>. QED  BY <1>1, <1>5, <1>6, <1>7, <1>8 DEF OutOK

(* The second half completes the line of the vector.                       *)
LEMMA CipherOutOK == ASSUME TypeOK, OutOK, PrintCipher PROVE OutOK'
<1>. DEFINE b == 10 * Len(made)
            q == Len(made)
            t == SecondHalf(cur)
            e == [vec |-> cur, index |-> sample]
<1>1. /\ pc = "cipher" /\ pc' = "sample" /\ out' = out \o t /\ made' = Append(made, e)
      /\ cur \in MadeVector
  BY DEF PrintCipher, TypeOK
<1>2. /\ out \in Seq(Tokens) /\ HasLines(out, Vecs, q) /\ Len(out) = b + 6
      /\ \A j \in 1 .. 6 : out[b + j] = Line(cur)[j]
  BY <1>1 DEF OutOK
<1>3. /\ t \in Seq(Tokens) /\ Len(t) = 4
      /\ t[1] = Line(cur)[7] /\ t[2] = Line(cur)[8] /\ t[3] = Line(cur)[9] /\ t[4] = Line(cur)[10]
  <2>1. t[1] = Line(cur)[7] /\ t[2] = Line(cur)[8] /\ t[3] = Line(cur)[9] /\ t[4] = Line(cur)[10]
    BY DEF SecondHalf, Line
  <2>2. t = [j \in 1 .. 4 |-> t[j]]
    BY DEF SecondHalf
  <2>3. \A j \in 1 .. 10 : Line(cur)[j] \in Tokens
    BY <1>1, LineLemma
  <2>. HIDE DEF t
  <2>4. \A j \in 1 .. 4 : t[j] \in Tokens
    <3>1. \A j \in 1 .. 4 : j = 1 \/ j = 2 \/ j = 3 \/ j = 4
      OBVIOUS
    <3>2. t[1] \in Tokens /\ t[2] \in Tokens /\ t[3] \in Tokens /\ t[4] \in Tokens
      BY <2>1, <2>3
    <3>. QED  BY <3>1, <3>2
  <2>. QED  BY <2>1, <2>2, <2>4
<1>. HIDE DEF t
<1>4. /\ out' \in Seq(Tokens) /\ Len(out') = Len(out) + 4
      /\ \A i \in 1 .. Len(out) : out'[i] = out[i]
      /\ \A i \in 1 .. 4 : out'[Len(out) + i] = t[i]
  <2>1. /\ out' \in Seq(Tokens) /\ Len(out') = Len(out) + Len(t)
        /\ \A i \in 1 .. Len(out) : out'[i] = out[i]
        /\ \A i \in 1 .. Len(t) : out'[Len(out) + i] = t[i]
    BY <1>1, <1>2, <1>3, ConcatLemma
  <2>. QED  BY <1>3, <2>1
<1>5. q \in Nat /\ made \in Seq([vec : MadeVector, index : Nat])
  BY VecsLemma DEF TypeOK
<1>6. /\ Len(made') = q + 1 /\ made'[q + 1] = e /\ \A i \in 1 .. q : made'[i] = made[i]
      /\ DOMAIN made' = 1 .. q + 1
  <2>. HIDE DEF e
  <2>. QED  BY <1>1, <1>5
<1>7. /\ \A i \in 1 .. q : Vecs'[i] = Vecs[i]
      /\ Vecs'[q + 1] = cur
  <2>1. \A i \in 1 .. q : Vecs[i] = made[i].vec
    BY <1>5 DEF Vecs
  <2>2. \A i \in 1 .. q + 1 : Vecs'[i] = made'[i].vec
    BY <1>6 DEF Vecs
  <2>3. q + 1 \in 1 .. q + 1 /\ \A i \in 1 .. q : i \in 1 .. q + 1
    BY <1>5
  <2>. QED  BY <1>6, <2>1, <2>2, <2>3
<1>. HIDE DEF q
<1>8. b = 10 * q
  BY DEF q
<1>. HIDE DEF b
<1>9. \A j \in 1 .. 10 : out'[b + j] = Line(cur)[j]
  <2>1. ASSUME NEW j \in 1 .. 6 PROVE out'[b + j] = Line(cur)[j]
    <3>1. b + j \in 1 .. Len(out)
      BY <1>2, <1>5, <1>8
    <3>. QED  BY <1>2, <1>4, <3>1
  <2>2. ASSUME NEW j \in 7 .. 10 PROVE out'[b + j] = Line(cur)[j]
    <3>1. j - 6 \in 1 .. 4 /\ b + j = Len(out) + (j - 6)
      BY <1>2, <1>5, <1>8
    <3>2. out'[b + j] = t[j - 6]
      BY <1>4, <3>1
    <3>3. j = 7 \/ j = 8 \/ j = 9 \/ j = 10
      OBVIOUS
    <3>4. 7 - 6 = 1 /\ 8 - 6 = 2 /\ 9 - 6 = 3 /\ 10 - 6 = 4
      OBVIOUS
    <3>. QED  BY <1>3, <3>2, <3>3, <3>4
  <2>3. \A j \in 1 .. 10 : j \in 1 .. 6 \/ j \in 7 .. 10
    OBVIOUS
  <2>. QED  BY <2>1, <2>2, <2>3
<1>10. HasLines(out', Vecs', q + 1)
  <2>1. ASSUME NEW i \in 1 .. q, NEW j \in 1 .. 10
        PROVE  out'[10 * (i - 1) + j] = Line(Vecs'[i])[j]
    <3>1. 10 * (i - 1) + j \in 1 .. Len(out)
      BY <1>2, <1>5, <1>8
    <3>2. out[10 * (i - 1) + j] = Line(Vecs[i])[j]
      BY <1>2 DEF HasLines
    <3>. QED  BY <1>4, <1>7, <3>1, <3>2
  <2>2. ASSUME NEW i \in {q + 1}, NEW j \in 1 .. 10
        PROVE  out'[10 * (i - 1) + j] = Line(Vecs'[i])[j]
    <3>1. 10 * (i - 1) + j = b + j
      BY <1>5, <1>8
    <3>2. Vecs'[i] = cur
      BY <1>7
    <3>. QED  BY <1>9, <3>1, <3>2
  <2>3. \A i \in 1 .. q + 1 : i \in 1 .. q \/ i = q + 1
    BY <1>5
  <2>4. ASSUME NEW i \in 1 .. q + 1, NEW j \in 1 .. 10
        PROVE  out'[10 * (i - 1) + j] = Line(Vecs'[i])[j]
    <3>1. CASE i \in 1 .. q
      BY <2>1, <3>1
    <3>2. CASE i = q + 1
      BY <2>2, <3>2
    <3>. QED  BY <2>3, <3>1, <3>2
  <2>. QED  BY <2>4 DEF HasLines
<1>11. Len(out') = 10 * Len(made')
  BY <1>2, <1>4, <1>5, <1>6, <1>8
<1>. QED  BY <1>1, <1>4, <1>6, <1>10, <1>11 DEF OutOK

(* Without a message, what is printed are lines and at most half a line.   *)
LEMMA HalfLineLemma ==
  ASSUME TypeOK, OutOK, pc # "exit" \/ status = 0
  PROVE  HalfLine
<1>1. CASE pc \in {"main", "generate", "sample"}
  BY <1>1 DEF OutOK, HalfLine
<1>2. CASE pc \in {"check", "cipher"}
  <2>1. cur \in MadeVector
    BY <1>2 DEF TypeOK
  <2>2. /\ Len(out) = 10 * Len(made) + 6
        /\ \A j \in 1 .. 6 : out[10 * Len(made) + j] = Line(cur)[j]
    BY <1>2 DEF OutOK
  <2>3. /\ \A j \in {2, 4, 6} : Line(cur)[j] = Space
        /\ \A j \in {1, 3, 5} : Line(cur)[j].kind = "hex"
    BY <2>1, LineLemma
  <2>4. \A j \in {1, 2, 3, 4, 5, 6} : j \in 1 .. 6
    OBVIOUS
  <2>5. /\ \A j \in {2, 4, 6} : out[10 * Len(made) + j] = Space
        /\ \A j \in {1, 3, 5} : out[10 * Len(made) + j].kind = "hex"
    BY <2>2, <2>3, <2>4
  <2>. QED  BY <2>2, <2>5 DEF HalfLine
<1>3. CASE pc = "killed"
  BY <1>3 DEF OutOK
<1>4. CASE pc = "exit"
  BY <1>4 DEF OutOK, HalfLine
<1>. QED  BY <1>1, <1>2, <1>3, <1>4 DEF TypeOK

LEMMA InitOutOK == Init => OutOK
<1>. SUFFICES ASSUME Init PROVE OutOK
  OBVIOUS
<1>1. out = << >> /\ made = << >> /\ pc = "main"
  BY DEF Init
<1>2. Len(made) = 0 /\ Len(out) = 0 /\ out \in Seq(Tokens)
  BY <1>1
<1>3. HasLines(out, Vecs, Len(made))
  BY <1>2 DEF HasLines
<1>. QED  BY <1>1, <1>2, <1>3 DEF OutOK

LEMMA StepOutOK == TypeOK /\ InPlace /\ OutOK /\ [Next]_vars => OutOK'
<1>. SUFFICES ASSUME TypeOK, InPlace, OutOK, [Next]_vars PROVE OutOK'
  OBVIOUS
<1>0. TypeOK'
  BY StepTypeOK
<1>1. CASE Usage \/ Unsupported \/ CannotParse
  BY <1>1, FailOutOK DEF Usage, Unsupported, CannotParse
<1>2. CASE CannotCheck
  BY <1>2, FailOutOK DEF CannotCheck
<1>3. CASE CheckFails
  BY <1>3, FailOutOK DEF CheckFails
<1>4. CASE PrintPlain
  <2>1. cur' \in MadeVector
    BY <1>0, <1>4 DEF PrintPlain, AfterPlain, TypeOK
  <2>. QED  BY <1>4, <2>1, PlainOutOK
<1>5. CASE PrintCipher
  BY <1>5, CipherOutOK
<1>6. CASE ParseArgs \/ Generate \/ CheckPasses \/ NextPair
  <2>1. /\ UNCHANGED <<out, made, cur>> /\ Vecs' = Vecs
        /\ \/ pc \in {"main", "generate", "sample"} /\ pc' \in {"generate", "sample"}
           \/ pc = "check" /\ pc' = "cipher"
    BY <1>6 DEF ParseArgs, Generate, CheckPasses, NextPair, Vecs
  <2>. QED  BY <2>1 DEF OutOK
<1>7. CASE Done
  <2>1. UNCHANGED <<out, made, cur, status>> /\ Vecs' = Vecs /\ pc = "generate" /\ pc' = "exit"
    BY <1>7 DEF Done, Vecs
  <2>2. status = 0
    BY <2>1 DEF TypeOK
  <2>. QED  BY <2>1, <2>2 DEF OutOK
<1>8. CASE Kill
  <2>1. UNCHANGED <<out, made, cur>> /\ Vecs' = Vecs /\ pc' = "killed"
        /\ pc \in {"main", "generate", "sample", "check", "cipher"}
    BY <1>8 DEF Kill, Vecs, TypeOK
  <2>2. HalfLine
    BY <2>1, HalfLineLemma
  <2>3. HalfLine'
    BY <2>1, <2>2 DEF HalfLine
  <2>. QED  BY <2>1, <2>3 DEF OutOK
<1>9. CASE Load \/ UNCHANGED vars
  <2>1. UNCHANGED <<out, made, cur, pc, status>> /\ Vecs' = Vecs
    BY <1>9 DEF Load, vars, Vecs
  <2>2. HalfLine' = HalfLine
    BY <2>1 DEF HalfLine
  <2>. QED  BY <2>1, <2>2 DEF OutOK
<1>. QED  BY <1>1, <1>2, <1>3, <1>4, <1>5, <1>6, <1>7, <1>8, <1>9 DEF Next

-----------------------------------------------------------------------------
(* A file that was read before all of it was flushed: a beginning of the   *)
(* output whose last string may miss digits.                               *)
LEMMA CutLemma ==
  ASSUME out \in Seq(Tokens), NEW text \in Cut(out) \cup {out}
  PROVE  /\ text \in Seq(Tokens) /\ Len(text) <= Len(out)
         /\ \A x \in 1 .. Len(text) :
              \/ text[x] = out[x]
              \/ /\ x = Len(text) /\ text[x].kind = "hex" /\ out[x].kind = "hex"
                 /\ text[x].of = out[x].of /\ text[x].digits \in 0 .. out[x].digits
<1>1. Len(out) \in Nat
  OBVIOUS
<1>2. ASSUME NEW k \in 0 .. Len(out)
      PROVE  /\ SubSeq(out, 1, k) \in Seq(Tokens) /\ Len(SubSeq(out, 1, k)) = k
             /\ \A x \in 1 .. k : SubSeq(out, 1, k)[x] = out[x]
  BY <1>1
<1>3. CASE text = out
  BY <1>1, <1>3
<1>4. CASE \E k \in 0 .. Len(out) : text = SubSeq(out, 1, k)
  <2>1. PICK k \in 0 .. Len(out) : text = SubSeq(out, 1, k)
    BY <1>4
  <2>. QED  BY <1>1, <1>2, <2>1
<1>5. CASE \E k \in 0 .. Len(out) :
             /\ k < Len(out) /\ out[k + 1].kind = "hex"
             /\ \E d \in 1 .. out[k + 1].digits - 1 :
                  text = Append(SubSeq(out, 1, k), [out[k + 1] EXCEPT !.digits = d])
  <2>1. PICK k \in 0 .. Len(out) :
             /\ k < Len(out) /\ out[k + 1].kind = "hex"
             /\ \E d \in 1 .. out[k + 1].digits - 1 :
                  text = Append(SubSeq(out, 1, k), [out[k + 1] EXCEPT !.digits = d])
    BY <1>5
  <2>2. PICK d \in 1 .. out[k + 1].digits - 1 :
               text = Append(SubSeq(out, 1, k), [out[k + 1] EXCEPT !.digits = d])
    BY <2>1
  <2>. DEFINE s == SubSeq(out, 1, k)
              o == out[k + 1]
              t == [o EXCEPT !.digits = d]
  <2>3. s \in Seq(Tokens) /\ Len(s) = k /\ \A x \in 1 .. k : s[x] = out[x]
    BY <1>2
  <2>4. o \in [kind : {"hex"}, of : Values, digits : Nat]
    <3>1. k + 1 \in 1 .. Len(out)
      BY <1>1, <2>1
    <3>2. o \in Tokens
      BY <3>1, ElementOfSeq
    <3>. QED  BY <2>1, <3>2, KindsLemma
  <2>5. /\ t \in [kind : {"hex"}, of : Values, digits : Nat]
        /\ t.of = o.of /\ t.digits = d /\ d \in Nat /\ d <= o.digits
    <3>1. d \in 1 .. o.digits - 1 /\ o.digits \in Nat
      BY <2>4
    <3>. HIDE DEF o
    <3>. QED  BY <2>4, <3>1
  <2>6. t \in Tokens /\ t.kind = "hex"
    BY <2>5 DEF Tokens
  <2>7. text = Append(s, t)
    BY <2>2
  <2>. HIDE DEF s, t
  <2>8. /\ text \in Seq(Tokens) /\ Len(text) = k + 1 /\ text[k + 1] = t
        /\ \A x \in 1 .. k : text[x] = out[x]
    BY <2>3, <2>6, <2>7
  <2>9. /\ text[k + 1].kind = "hex" /\ out[k + 1].kind = "hex"
        /\ text[k + 1].of = out[k + 1].of /\ text[k + 1].digits \in 0 .. out[k + 1].digits
    BY <2>1, <2>4, <2>5, <2>6, <2>8
  <2>10. \A x \in 1 .. Len(text) : x \in 1 .. k \/ x = k + 1
    BY <2>8
  <2>11. Len(text) <= Len(out)
    BY <1>1, <2>1, <2>8
  <2>. QED  BY <2>8, <2>9, <2>10, <2>11
<1>. QED  BY <1>3, <1>4, <1>5 DEF Cut

(* What the script reads while no message is printed.                      *)
LEMMA CutShows ==
  ASSUME TypeOK, OutOK, HalfLine, NEW text \in Cut(out) \cup {out}
  PROVE  \E q, r \in Nat : /\ Shows(text, Vecs, q, r)
                           /\ text = out /\ Len(out) = 10 * Len(made) => q = Len(made) /\ r = 0
<1>. DEFINE n == Len(made)
            b == 10 * n
            L == Len(text)
            q == L \div 10
            r == L % 10
<1>1. /\ out \in Seq(Tokens) /\ HasLines(out, Vecs, n) /\ n \in Nat /\ Len(out) \in Nat
      /\ Vecs \in Seq(MadeVector) /\ Len(Vecs) = n
  BY VecsLemma DEF OutOK
<1>2. /\ text \in Seq(Tokens) /\ L \in Nat /\ L <= Len(out)
      /\ \A x \in 1 .. L :
              \/ text[x] = out[x]
              \/ /\ x = L /\ text[x].kind = "hex" /\ out[x].kind = "hex"
                 /\ text[x].of = out[x].of /\ text[x].digits \in 0 .. out[x].digits
  BY <1>1, CutLemma
<1>. HIDE DEF n
<1>3. b \in Nat /\ b = 10 * n
  BY <1>1
<1>4. \/ Len(out) = b
      \/ /\ Len(out) = b + 6
         /\ \A j \in {2, 4, 6} : out[b + j] = Space
         /\ \A j \in {1, 3, 5} : out[b + j].kind = "hex"
  BY DEF HalfLine, n
<1>. HIDE DEF L, b
<1>5. q \in Nat /\ r \in 0 .. 9 /\ L = 10 * q + r
  <2>1. \A y \in Nat : y \div 10 \in Nat /\ y % 10 \in 0 .. 9 /\ y = 10 * (y \div 10) + (y % 10)
    OBVIOUS
  <2>. QED  BY <1>2, <2>1
<1>. HIDE DEF q, r
<1>6. q <= n /\ (r > 6 => q < n) /\ (q = n => r = 0 \/ Len(out) = b + 6)
  <2>1. 10 * q + r <= 10 * n + 6 /\ (Len(out) = b => 10 * q + r <= 10 * n)
    <3>1. CASE Len(out) = b
      BY <1>1, <1>2, <1>3, <1>5, <3>1
    <3>2. CASE Len(out) = b + 6
      BY <1>1, <1>2, <1>3, <1>5, <3>2
    <3>. QED  BY <1>4, <3>1, <3>2
  <2>. QED  BY <1>1, <1>4, <1>5, <2>1
<1>7. \A x \in 1 .. L : text[x] = out[x] \/ (x = L /\ out[x].kind = "hex")
  BY <1>2
<1>8. ASSUME NEW i \in 1 .. n, NEW j \in 1 .. 10 PROVE out[10 * (i - 1) + j] = Line(Vecs[i])[j] /\ Vecs[i] \in MadeVector
  <2>1. out[10 * (i - 1) + j] = Line(Vecs[i])[j]
    BY <1>1 DEF HasLines
  <2>2. Vecs[i] \in MadeVector
    BY <1>1, ElementOfSeq
  <2>. QED  BY <2>1, <2>2
<1>9. HasLines(text, Vecs, q)
  <2>1. ASSUME NEW i \in 1 .. q, NEW j \in 1 .. 10
        PROVE  text[10 * (i - 1) + j] = Line(Vecs[i])[j]
    <3>. DEFINE x == 10 * (i - 1) + j
    <3>1. x \in 1 .. L /\ i \in 1 .. n /\ (x = L => j = 10)
      BY <1>1, <1>5, <1>6
    <3>2. out[x] = Line(Vecs[i])[j] /\ Vecs[i] \in MadeVector
      BY <1>8, <3>1
    <3>. HIDE DEF x
    <3>3. CASE text[x] = out[x]
      BY <3>2, <3>3 DEF x
    <3>4. CASE x = L /\ out[x].kind = "hex"
      <4>1. out[x] = EndOfLine
        BY <3>1, <3>2, <3>4, LineLemma
      <4>. QED  BY <3>4, <4>1, KindsLemma
    <3>. QED  BY <1>7, <3>1, <3>3, <3>4
  <2>. QED  BY <2>1 DEF HasLines
<1>10. ASSUME NEW j \in 1 .. r
       PROVE  /\ 10 * q + j \in 1 .. L /\ (10 * q + j = L => j = r)
              /\ j \in {2, 4, 6, 8} => out[10 * q + j] = Space
              /\ j \in {1, 3, 5, 7, 9} => out[10 * q + j].kind = "hex"
              /\ q < n => out[10 * q + j] = Line(Vecs[q + 1])[j]
  <2>1. 10 * q + j \in 1 .. L /\ (10 * q + j = L => j = r)
    BY <1>5
  <2>2. CASE q < n
    <3>1. PICK i \in 1 .. n : i = q + 1
      BY <1>1, <1>5, <2>2
    <3>2. out[10 * q + j] = Line(Vecs[q + 1])[j] /\ Vecs[q + 1] \in MadeVector
      <4>1. 10 * (i - 1) + j = 10 * q + j /\ j \in 1 .. 10
        BY <1>1, <1>5, <3>1
      <4>2. out[10 * (i - 1) + j] = Line(Vecs[i])[j] /\ Vecs[i] \in MadeVector
        BY <1>8, <4>1
      <4>. QED  BY <3>1, <4>1, <4>2
    <3>3. /\ j \in {2, 4, 6, 8} => Line(Vecs[q + 1])[j] = Space
          /\ j \in {1, 3, 5, 7, 9} => Line(Vecs[q + 1])[j].kind = "hex"
      BY <3>2, LineLemma
    <3>. QED  BY <2>1, <3>2, <3>3
  <2>3. CASE ~(q < n)
    <3>1. q = n /\ r <= 6 /\ Len(out) = b + 6 /\ 10 * q + j = b + j
      BY <1>1, <1>3, <1>5, <1>6, <2>3
    <3>2. /\ j \in {2, 4, 6, 8} => j \in {2, 4, 6}
          /\ j \in {1, 3, 5, 7, 9} => j \in {1, 3, 5}
      BY <1>5, <3>1
    <3>3. /\ \A k \in {2, 4, 6} : out[b + k] = Space
          /\ \A k \in {1, 3, 5} : out[b + k].kind = "hex"
      BY <1>3, <1>4, <3>1
    <3>. QED  BY <2>1, <2>3, <3>1, <3>2, <3>3
  <2>. QED  BY <2>2, <2>3
<1>11. ASSUME NEW j \in 1 .. r
       PROVE  /\ j \in {2, 4, 6, 8} => text[10 * q + j] = Space
              /\ j \in {1, 3, 5, 7, 9} => text[10 * q + j].kind = "hex"
  <2>1. 10 * q + j \in 1 .. L
    BY <1>10
  <2>2. ASSUME j \in {2, 4, 6, 8} PROVE text[10 * q + j] = Space
    <3>1. out[10 * q + j] = Space
      BY <1>10, <2>2
    <3>. QED  BY <1>7, <2>1, <3>1, KindsLemma
  <2>3. ASSUME j \in {1, 3, 5, 7, 9} PROVE text[10 * q + j].kind = "hex"
    <3>1. out[10 * q + j].kind = "hex"
      BY <1>10, <2>3
    <3>. QED  BY <1>2, <2>1, <3>1
  <2>. QED  BY <2>2, <2>3
<1>12. ASSUME r >= 8
       PROVE  q < n /\ \A j \in 1 .. 8 : text[10 * q + j] = Line(Vecs[q + 1])[j]
  <2>1. q < n
    BY <1>5, <1>6, <1>12
  <2>2. ASSUME NEW j \in 1 .. 8 PROVE text[10 * q + j] = Line(Vecs[q + 1])[j]
    <3>1. j \in 1 .. r
      BY <1>5, <1>12
    <3>2. 10 * q + j \in 1 .. L /\ (10 * q + j = L => j = r)
          /\ out[10 * q + j] = Line(Vecs[q + 1])[j]
      BY <1>10, <2>1, <3>1
    <3>3. CASE j = 8
      <4>1. out[10 * q + j].kind = "space"
        BY <1>10, <3>1, <3>3, KindsLemma
      <4>. QED  BY <1>7, <3>2, <4>1
    <3>4. CASE j # 8
      <4>1. 10 * q + j # L
        BY <1>5, <1>12, <3>2, <3>4
      <4>. QED  BY <1>7, <3>2, <4>1
    <3>. QED  BY <3>3, <3>4
  <2>. QED  BY <2>1, <2>2
<1>13. ASSUME r = 9
       PROVE  /\ text[10 * q + 9].of = Vecs[q + 1].tag
              /\ text[10 * q + 9].digits \in 0 .. 2 * Vecs[q + 1].tag.len
  <2>1. q < n /\ 9 \in 1 .. r
    BY <1>5, <1>12, <1>13
  <2>2. 10 * q + 9 \in 1 .. L /\ out[10 * q + 9] = Line(Vecs[q + 1])[9]
    BY <1>10, <2>1
  <2>3. out[10 * q + 9] = Hex(Vecs[q + 1].tag)
    BY <2>2 DEF Line
  <2>4. Vecs[q + 1] \in MadeVector
    <3>1. q + 1 \in 1 .. n /\ 1 \in 1 .. 10
      BY <1>1, <1>5, <2>1
    <3>. QED  BY <1>8, <3>1
  <2>5. Vecs[q + 1].tag.len \in Nat
    BY <2>4, VectorLemma
  <2>6. out[10 * q + 9].of = Vecs[q + 1].tag /\ out[10 * q + 9].digits = 2 * Vecs[q + 1].tag.len
    BY <2>3 DEF Hex
  <2>7. 2 * Vecs[q + 1].tag.len \in 0 .. 2 * Vecs[q + 1].tag.len
    BY <2>5
  <2>. QED  BY <1>2, <2>2, <2>6, <2>7
<1>14. Shows(text, Vecs, q, r)
  <2>1. q \in 0 .. Len(Vecs) /\ Len(text) = 10 * q + r
    BY <1>1, <1>5, <1>6 DEF L
  <2>2. r >= 8 => q < Len(Vecs) /\ \A j \in 1 .. 8 : text[10 * q + j] = Line(Vecs[q + 1])[j]
    BY <1>1, <1>12
  <2>. QED  BY <1>2, <1>5, <1>9, <1>11, <1>13, <2>1, <2>2 DEF Shows
<1>15. text = out /\ Len(out) = b => q = n /\ r = 0
  <2>1. text = out /\ Len(out) = b => 10 * q + r = 10 * n
    BY <1>3, <1>5 DEF L
  <2>. QED  BY <1>1, <1>5, <2>1
<1>. QED  BY <1>5, <1>14, <1>15 DEF n, b

(* LoadsGenerated of any vectors.                                          *)
FromMade(vecs) ==
  /\ Len(vecs) <= Len(made)
  /\ \A i \in DOMAIN vecs : i \in DOMAIN made /\ Read(vecs[i], made[i].vec, i < Len(vecs))

LEMMA FromMadeLemma == FromMade(loaded.vecs) => LoadsGenerated
BY DEF FromMade, LoadsGenerated, Read

LEMMA EmptyFromMade == TypeOK => FromMade(<< >>)
BY VecsLemma DEF FromMade

(* What a step of the script loads.                                        *)
LEMMA LoadLemma ==
  ASSUME TypeOK, OutOK, Load
  PROVE  /\ FromMade(loaded'.vecs)
         /\ pc = "exit" => IF status = 0
                             THEN loaded'.state = "vectors" /\ Len(loaded'.vecs) = Len(made)
                             ELSE loaded'.state = "exception"
<1>1. PICK text \in IF pc = "exit" THEN {out} ELSE Cut(out) : loaded' = LoadTestvecs(text)
  BY DEF Load
<1>2. Vecs \in Seq(MadeVector) /\ Len(Vecs) = Len(made) /\ Len(made) \in Nat
      /\ \A i \in 1 .. Len(made) : Vecs[i] = made[i].vec
  BY VecsLemma
<1>3. CASE pc = "exit" /\ status # 0
  <2>1. PICK m \in 2 .. 6 : ShowsMessage(out, Vecs, m)
    BY <1>3 DEF OutOK
  <2>2. loaded' = [state |-> "exception", vecs |-> << >>]
    BY <1>1, <1>2, <1>3, <2>1, ShowsMessageFails
  <2>. QED  BY <1>3, <2>2, EmptyFromMade
<1>4. CASE ~(pc = "exit" /\ status # 0)
  <2>1. HalfLine
    BY <1>4, HalfLineLemma
  <2>2. text \in Cut(out) \cup {out} /\ (pc = "exit" => text = out /\ Len(out) = 10 * Len(made))
    BY <1>1, <1>4 DEF OutOK
  <2>3. PICK q \in Nat, r \in Nat :
               /\ Shows(text, Vecs, q, r)
               /\ text = out /\ Len(out) = 10 * Len(made) => q = Len(made) /\ r = 0
    BY <2>1, <2>2, CutShows
  <2>. DEFINE vecs == LoadTestvecs(text).vecs
              m == IF r = 0 THEN q ELSE q + 1
  <2>4. /\ \/ vecs = << >>
           \/ /\ DOMAIN vecs = 1 .. m /\ Len(vecs) = m /\ m <= Len(Vecs)
              /\ \A k \in 1 .. m : Read(vecs[k], Vecs[k], k < m)
        /\ r = 0 => LoadTestvecs(text).state = "vectors" /\ Len(vecs) = q
    BY <1>2, <2>3, ShowsLoads
  <2>5. loaded'.vecs = vecs
    BY <1>1
  <2>6. FromMade(vecs)
    <3>1. CASE vecs = << >>
      BY <3>1, EmptyFromMade
    <3>2. CASE /\ DOMAIN vecs = 1 .. m /\ Len(vecs) = m /\ m <= Len(Vecs)
               /\ \A k \in 1 .. m : Read(vecs[k], Vecs[k], k < m)
      <4>. HIDE DEF vecs
      <4>1. m \in Nat
        BY <2>3
      <4>. HIDE DEF m
      <4>2. \A k \in 1 .. m : k \in 1 .. Len(made) /\ k \in DOMAIN made /\ Vecs[k] = made[k].vec
        <5>1. DOMAIN made = 1 .. Len(made)
          BY DEF TypeOK
        <5>. QED  BY <1>2, <3>2, <4>1, <5>1
      <4>3. Len(vecs) <= Len(made)
        BY <1>2, <3>2
      <4>. QED  BY <3>2, <4>2, <4>3 DEF FromMade
    <3>. QED  BY <2>4, <3>1, <3>2
  <2>7. pc = "exit" => status = 0 /\ LoadTestvecs(text).state = "vectors" /\ Len(vecs) = Len(made)
    BY <1>4, <2>2, <2>3, <2>4
  <2>. HIDE DEF vecs
  <2>. QED  BY <1>1, <2>5, <2>6, <2>7
<1>. QED  BY <1>3, <1>4

LEMMA StepFromMade ==
  TypeOK /\ OutOK /\ FromMade(loaded.vecs) /\ [Next]_vars => FromMade(loaded.vecs)'
<1>. SUFFICES ASSUME TypeOK, OutOK, FromMade(loaded.vecs), [Next]_vars
              PROVE  FromMade(loaded.vecs)'
  OBVIOUS
<1>1. CASE Load
  <2>1. FromMade(loaded'.vecs) /\ made' = made
    BY <1>1, LoadLemma DEF Load
  <2>. QED  BY <2>1 DEF FromMade
<1>2. CASE PrintCipher
  <2>. DEFINE e == [vec |-> cur, index |-> sample]
  <2>1. loaded' = loaded /\ made' = Append(made, e)
    BY <1>2 DEF PrintCipher
  <2>2. made \in Seq([vec : MadeVector, index : Nat])
    BY DEF TypeOK
  <2>3. /\ Len(made) <= Len(made') /\ Len(made) \in Nat /\ Len(made') \in Nat
        /\ \A i \in DOMAIN made : i \in DOMAIN made' /\ made'[i] = made[i]
    <3>. HIDE DEF e
    <3>. QED  BY <2>1, <2>2
  <2>4. Len(loaded.vecs) <= Len(made) => Len(loaded.vecs) <= Len(made')
    <3>1. Len(made') = Len(made) + 1
      <4>. HIDE DEF e
      <4>. QED  BY <2>1, <2>2
    <3>. QED  BY <2>3, <3>1
  <2>. QED  BY <2>1, <2>3, <2>4 DEF FromMade
<1>3. CASE UNCHANGED <<made, loaded>>
  BY <1>3 DEF FromMade
<1>4. CASE Usage \/ Unsupported \/ CannotParse \/ CannotCheck \/ CheckFails
  BY <1>3, <1>4 DEF Usage, Unsupported, CannotParse, CannotCheck, CheckFails, Fail
<1>5. CASE ParseArgs \/ Generate \/ PrintPlain \/ CheckPasses \/ NextPair \/ Done \/ Kill
  BY <1>3, <1>5 DEF ParseArgs, Generate, PrintPlain, CheckPasses, NextPair, Done, Kill
<1>. QED  BY <1>1, <1>2, <1>3, <1>4, <1>5 DEF Next, vars

(* The second inductive invariant holds always.                            *)
THEOREM Written == Spec => [](TypeOK /\ InPlace /\ OutOK /\ FromMade(loaded.vecs))
<1>1. Init => TypeOK /\ InPlace /\ OutOK /\ FromMade(loaded.vecs)
  <2>1. Init => loaded.vecs = << >>
    BY DEF Init, NotLoaded
  <2>. QED  BY <2>1, InitTypeOK, InitInPlace, InitOutOK, EmptyFromMade
<1>2. TypeOK /\ InPlace /\ OutOK /\ FromMade(loaded.vecs) /\ [Next]_vars =>
        (TypeOK /\ InPlace /\ OutOK /\ FromMade(loaded.vecs))'
  BY StepTypeOK, StepInPlace, StepOutOK, StepFromMade
<1>. QED  BY <1>1, <1>2, PTL DEF Spec

(* Whatever part of the output the script reads, also while the generator  *)
(* is still writing or after it was killed, the vectors it takes are the   *)
(* first ones the generator made: the field order of generate.c 192-218    *)
(* against run-experiment.py 101-114.                                      *)
THEOREM LoadsGeneratedHolds == Spec => []LoadsGenerated
BY Written, FromMadeLemma, PTL
-----------------------------------------------------------------------------
(* With --check nothing is made before its check has passed.               *)
AllChecked ==
  args.check => /\ pc = "cipher" => Accepts(cur)
                /\ \A i \in DOMAIN made : Accepts(made[i].vec)

LEMMA StepAllChecked == TypeOK /\ AllChecked /\ [Next]_vars => AllChecked'
<1>. SUFFICES ASSUME TypeOK, AllChecked, [Next]_vars PROVE AllChecked'
  OBVIOUS
<1>1. CASE PrintCipher
  <2>. DEFINE e == [vec |-> cur, index |-> sample]
  <2>1. /\ pc = "cipher" /\ pc' = "sample" /\ made' = Append(made, e) /\ UNCHANGED args
    BY <1>1 DEF PrintCipher
  <2>2. made \in Seq([vec : MadeVector, index : Nat])
    BY DEF TypeOK
  <2>3. ASSUME NEW i \in DOMAIN made'
        PROVE  made'[i] = e \/ (i \in DOMAIN made /\ made'[i] = made[i])
    <3>. HIDE DEF e
    <3>1. DOMAIN made' = 1 .. Len(made) + 1 /\ Len(made) \in Nat
      BY <2>1, <2>2
    <3>2. CASE i \in 1 .. Len(made)
      BY <2>1, <2>2, <3>2
    <3>3. CASE i = Len(made) + 1
      BY <2>1, <2>2, <3>3
    <3>. QED  BY <3>1, <3>2, <3>3
  <2>4. args.check => \A i \in DOMAIN made' : Accepts(made'[i].vec)
    BY <2>1, <2>3 DEF AllChecked
  <2>. QED  BY <2>1, <2>4 DEF AllChecked
<1>2. CASE CheckPasses
  BY <1>2 DEF CheckPasses, AllChecked
<1>3. CASE PrintPlain
  <2>1. (args.check => pc' = "check") /\ UNCHANGED <<args, made>>
    BY <1>3 DEF PrintPlain, AfterPlain
  <2>. QED  BY <2>1 DEF AllChecked
<1>4. CASE \/ Usage \/ Unsupported \/ CannotParse \/ CannotCheck \/ CheckFails
  <2>1. pc' = "exit" /\ UNCHANGED <<args, made>>
    BY <1>4 DEF Usage, Unsupported, CannotParse, CannotCheck, CheckFails, Fail
  <2>. QED  BY <2>1 DEF AllChecked
<1>5. CASE ParseArgs \/ Generate \/ NextPair \/ Done \/ Kill
  <2>1. pc' # "cipher" /\ UNCHANGED <<args, made>>
    BY <1>5 DEF ParseArgs, Generate, NextPair, Done, Kill
  <2>. QED  BY <2>1 DEF AllChecked
<1>6. CASE Load \/ UNCHANGED vars
  BY <1>6 DEF Load, vars, AllChecked
<1>. QED  BY <1>1, <1>2, <1>3, <1>4, <1>5, <1>6 DEF Next

(* A vector that the script takes from a file generated with --check has   *)
(* passed its mode's own decryption, however the generator ended:          *)
(* generate.c 198-214.                                                     *)
THEOREM LoadsCheckedHolds == Spec => []LoadsChecked
<1>1. Init => AllChecked
  BY DEF Init, AllChecked
<1>2. TypeOK /\ AllChecked /\ [Next]_vars => AllChecked'
  BY StepAllChecked
<1>3. AllChecked /\ FromMade(loaded.vecs) => LoadsChecked
  BY DEF AllChecked, FromMade, LoadsChecked
<1>. QED  BY <1>1, <1>2, <1>3, Written, PTL DEF Spec
-----------------------------------------------------------------------------

-----------------------------------------------------------------------------
(* The vectors asked for that come before the s-th one of the n-th pair.   *)
Before(n, s) == {a \in Asked : a[1] < n \/ (a[1] = n /\ a[2] < s)}

Counts(vectors) == IsFiniteSet(vectors) /\ Len(made) = Cardinality(vectors)

(* The generator makes the vectors asked for one after the other, and each *)
(* of them once.                                                           *)
Counted ==
  /\ pc = "main" => pair = 1 /\ made = << >>
  /\ pc = "generate" => Counts(Before(pair, 0))
  /\ InLoop => Counts(Before(pair, sample))
  /\ pc = "exit" /\ status = 0 => Counts(Asked)

LEMMA AskedLemma ==
  ASSUME args \in ArgLists, NEW a \in Asked
  PROVE  \E i \in 1 .. Pairs(args) : \E s \in 0 .. Samples(args, i) - 1 :
           a = <<i, s>> /\ a[1] = i /\ a[2] = s /\ i \in Int /\ s \in Int
<1>1. PICK i \in 1 .. Pairs(args) : a \in {i} \X (0 .. Samples(args, i) - 1)
  BY DEF Asked
<1>2. a = <<a[1], a[2]>> /\ a[1] = i /\ a[2] \in 0 .. Samples(args, i) - 1
  BY <1>1
<1>. QED  BY <1>2

LEMMA BeforeStart ==
  ASSUME args \in ArgLists
  PROVE  Before(1, 0) = {}
<1>. SUFFICES ASSUME NEW a \in Asked, a[1] < 1 \/ (a[1] = 1 /\ a[2] < 0)
              PROVE  FALSE
  BY DEF Before
<1>1. PICK i \in 1 .. Pairs(args) : \E s \in 0 .. Samples(args, i) - 1 :
        a[1] = i /\ a[2] = s
  BY AskedLemma
<1>2. Pairs(args) \in Nat /\ Samples(args, i) \in Int
  BY ArgsLemma
<1>. QED  BY <1>1, <1>2

LEMMA BeforeNext ==
  ASSUME args \in ArgLists, NEW n \in 1 .. Pairs(args), NEW s \in Nat, s < Samples(args, n)
  PROVE  /\ <<n, s>> \notin Before(n, s)
         /\ Before(n, s + 1) = Before(n, s) \cup {<<n, s>>}
<1>1. Pairs(args) \in Nat /\ Samples(args, n) \in Int
  BY ArgsLemma
<1>2. <<n, s>> \in Asked
  <2>1. s \in 0 .. Samples(args, n) - 1
    BY <1>1
  <2>2. <<n, s>> \in {n} \X (0 .. Samples(args, n) - 1)
    BY <2>1
  <2>. QED  BY <2>2 DEF Asked
<1>3. <<n, s>> \notin Before(n, s)
  BY <1>1 DEF Before
<1>4. ASSUME NEW a \in Asked
      PROVE  (a[1] < n \/ (a[1] = n /\ a[2] < s + 1))
               <=> ((a[1] < n \/ (a[1] = n /\ a[2] < s)) \/ a = <<n, s>>)
  <2>1. PICK i \in 1 .. Pairs(args) : \E t \in 0 .. Samples(args, i) - 1 :
          a = <<i, t>> /\ a[1] = i /\ a[2] = t /\ i \in Int /\ t \in Int
    BY AskedLemma
  <2>2. PICK t \in 0 .. Samples(args, i) - 1 :
          a = <<i, t>> /\ a[1] = i /\ a[2] = t /\ i \in Int /\ t \in Int
    BY <2>1
  <2>3. a = <<n, s>> <=> i = n /\ t = s
    BY <2>2
  <2>4. (i < n \/ (i = n /\ t < s + 1)) <=> ((i < n \/ (i = n /\ t < s)) \/ (i = n /\ t = s))
    BY <2>2, <1>1
  <2>. QED  BY <2>2, <2>3, <2>4
<1>5. ASSUME NEW a PROVE a \in Before(n, s + 1) <=> a \in Before(n, s) \cup {<<n, s>>}
  BY <1>2, <1>4 DEF Before
<1>. QED  BY <1>3, <1>5

LEMMA BeforeEnd ==
  ASSUME args \in ArgLists, NEW n \in 1 .. Pairs(args), NEW s \in Nat, ~(s < Samples(args, n))
  PROVE  Before(n + 1, 0) = Before(n, s)
<1>1. Pairs(args) \in Nat
  BY ArgsLemma
<1>4. ASSUME NEW a \in Asked
      PROVE  (a[1] < n + 1 \/ (a[1] = n + 1 /\ a[2] < 0))
               <=> (a[1] < n \/ (a[1] = n /\ a[2] < s))
  <2>1. PICK i \in 1 .. Pairs(args) : \E t \in 0 .. Samples(args, i) - 1 :
          a[1] = i /\ a[2] = t
    BY AskedLemma
  <2>2. PICK t \in 0 .. Samples(args, i) - 1 : a[1] = i /\ a[2] = t
    BY <2>1
  <2>3. Samples(args, i) \in Int /\ t \in Int /\ t >= 0 /\ t < Samples(args, i) /\ i \in Int
    BY <1>1, ArgsLemma
  <2>4. i = n => t < s
    BY <2>3
  <2>5. (i < n + 1 \/ (i = n + 1 /\ t < 0)) <=> (i < n \/ (i = n /\ t < s))
    BY <2>3, <2>4, <1>1
  <2>. QED  BY <2>2, <2>5
<1>. QED  BY <1>4 DEF Before

LEMMA BeforeAll ==
  ASSUME args \in ArgLists
  PROVE  Before(Pairs(args) + 1, 0) = Asked
<1>1. Pairs(args) \in Nat
  BY ArgsLemma
<1>2. ASSUME NEW a \in Asked PROVE a[1] < Pairs(args) + 1
  <2>1. PICK i \in 1 .. Pairs(args) : \E s \in 0 .. Samples(args, i) - 1 : a[1] = i
    BY AskedLemma
  <2>. QED  BY <1>1, <2>1
<1>. QED  BY <1>2 DEF Before

LEMMA StepCounted == TypeOK /\ InPlace /\ Counted /\ [Next]_vars => Counted'
<1>. SUFFICES ASSUME TypeOK, InPlace, Counted, [Next]_vars PROVE Counted'
  OBVIOUS
<1>1. /\ args \in ArgLists /\ pair \in 1 .. Pairs(args) + 1 /\ sample \in Nat
      /\ Pairs(args) \in Nat /\ made \in Seq([vec : MadeVector, index : Nat])
  BY ArgsLemma DEF TypeOK
<1>2. CASE \/ Usage \/ Unsupported \/ CannotParse \/ CannotCheck \/ CheckFails
  <2>1. pc' = "exit" /\ status' # 0
    BY <1>2 DEF Usage, Unsupported, CannotParse, CannotCheck, CheckFails, Fail
  <2>. QED  BY <2>1 DEF Counted, InLoop
<1>3. CASE ParseArgs
  <2>1. pc = "main" /\ pc' = "generate" /\ UNCHANGED <<args, pair, made>>
    BY <1>3 DEF ParseArgs
  <2>2. pair' = 1 /\ made' = << >>
    BY <2>1 DEF Counted
  <2>3. (Before(pair, 0))' = {}
    BY <1>1, <2>1, <2>2, BeforeStart DEF Before, Asked, Pairs, Samples
  <2>4. Len(made') = 0
    BY <2>2
  <2>5. Counts(Before(pair, 0))'
    BY <2>3, <2>4, FS_EmptySet DEF Counts
  <2>. QED  BY <2>1, <2>5 DEF Counted, InLoop
<1>4. CASE Generate
  <2>1. pc = "generate" /\ pc' = "sample" /\ sample' = 0 /\ UNCHANGED <<args, pair, made>>
    BY <1>4 DEF Generate
  <2>2. Counts(Before(pair, sample))'
    BY <2>1 DEF Counted, Counts, Before, Asked, Pairs, Samples
  <2>. QED  BY <2>1, <2>2 DEF Counted, InLoop
<1>5. CASE PrintPlain \/ CheckPasses
  <2>1. InLoop /\ pc' \in {"check", "cipher"} /\ UNCHANGED <<args, pair, sample, made>>
    BY <1>5 DEF PrintPlain, CheckPasses, AfterPlain, InLoop
  <2>2. Counts(Before(pair, sample))'
    BY <2>1 DEF Counted, Counts, Before, Asked, Pairs, Samples
  <2>. QED  BY <2>1, <2>2 DEF Counted, InLoop
<1>6. CASE PrintCipher
  <2>. DEFINE e == [vec |-> cur, index |-> sample]
  <2>1. /\ pc = "cipher" /\ pc' = "sample" /\ sample' = sample + 1
        /\ made' = Append(made, e) /\ UNCHANGED <<args, pair>>
    BY <1>6 DEF PrintCipher
  <2>2. Len(made') = Len(made) + 1
    <3>. HIDE DEF e
    <3>. QED  BY <1>1, <2>1
  <2>3. pair \in 1 .. Pairs(args) /\ sample < Samples(args, pair)
    BY <1>1, <2>1 DEF TypeOK, InPlace, InLoop
  <2>4. IsFiniteSet(Before(pair, sample)) /\ Len(made) = Cardinality(Before(pair, sample))
    BY <2>1 DEF Counted, Counts, InLoop
  <2>5. /\ <<pair, sample>> \notin Before(pair, sample)
        /\ Before(pair, sample + 1) = Before(pair, sample) \cup {<<pair, sample>>}
    BY <1>1, <2>3, BeforeNext
  <2>6. /\ IsFiniteSet(Before(pair, sample + 1))
        /\ Cardinality(Before(pair, sample + 1)) = Cardinality(Before(pair, sample)) + 1
    BY <2>4, <2>5, FS_AddElement
  <2>7. (Before(pair, sample))' = Before(pair, sample + 1)
    BY <2>1 DEF Before, Asked, Pairs, Samples
  <2>8. Counts(Before(pair, sample))'
    BY <2>2, <2>4, <2>6, <2>7 DEF Counts
  <2>. QED  BY <2>1, <2>8 DEF Counted, InLoop
<1>7. CASE NextPair
  <2>1. /\ pc = "sample" /\ ~(sample < Samples(args, pair))
        /\ pc' = "generate" /\ pair' = pair + 1 /\ UNCHANGED <<args, made>>
    BY <1>7 DEF NextPair, More
  <2>2. pair \in 1 .. Pairs(args)
    BY <1>1, <2>1 DEF InPlace, InLoop
  <2>3. Before(pair + 1, 0) = Before(pair, sample)
    BY <1>1, <2>1, <2>2, BeforeEnd
  <2>4. (Before(pair, 0))' = Before(pair + 1, 0)
    BY <2>1 DEF Before, Asked, Pairs, Samples
  <2>5. Counts(Before(pair, 0))'
    BY <2>1, <2>3, <2>4 DEF Counted, Counts, InLoop
  <2>. QED  BY <2>1, <2>5 DEF Counted, InLoop
<1>8. CASE Done
  <2>1. /\ pc = "generate" /\ pair > Pairs(args) /\ pc' = "exit"
        /\ UNCHANGED <<args, pair, made, status>>
    BY <1>8 DEF Done
  <2>2. pair = Pairs(args) + 1
    BY <1>1, <2>1
  <2>3. Before(pair, 0) = Asked
    BY <1>1, <2>2, BeforeAll
  <2>4. Asked' = Asked
    BY <2>1 DEF Asked, Pairs, Samples
  <2>5. Counts(Asked)'
    BY <2>1, <2>3, <2>4 DEF Counted, Counts
  <2>. QED  BY <2>1, <2>5 DEF Counted, InLoop
<1>9. CASE Kill
  <2>1. pc' = "killed"
    BY <1>9 DEF Kill
  <2>. QED  BY <2>1 DEF Counted, InLoop
<1>10. CASE Load \/ UNCHANGED vars
  <2>1. UNCHANGED <<pc, args, pair, sample, made, status>>
    BY <1>10 DEF Load, vars
  <2>. QED  BY <2>1 DEF Counted, InLoop, Counts, Before, Asked, Pairs, Samples
<1>. QED  BY <1>2, <1>3, <1>4, <1>5, <1>6, <1>7, <1>8, <1>9, <1>10 DEF Next

(* The script accepts the whole output of the generator exactly if the     *)
(* generator succeeded, and then it has all the vectors asked for: every   *)
(* error message on stdout (generate.c 203, 210, 235-318, 347-388) is a    *)
(* line that load_testvecs rejects.                                        *)
THEOREM LoadsAllOrNothingHolds == Spec => LoadsAllOrNothing
<1>1. Init => Counted
  BY DEF Init, Counted, InLoop
<1>2. TypeOK /\ InPlace /\ Counted /\ [Next]_vars => Counted'
  BY StepCounted
<1>3. TypeOK /\ OutOK /\ Counted /\ [Next]_vars =>
        [(pc = "exit" /\ loaded' # loaded) =>
           IF status = 0
             THEN /\ loaded'.state = "vectors"
                  /\ Len(loaded'.vecs) = Cardinality(Asked)
             ELSE loaded'.state = "exception"]_vars
  <2>. SUFFICES ASSUME TypeOK, OutOK, Counted, [Next]_vars, pc = "exit", loaded' # loaded
                PROVE  IF status = 0
                         THEN /\ loaded'.state = "vectors"
                              /\ Len(loaded'.vecs) = Cardinality(Asked)
                         ELSE loaded'.state = "exception"
    OBVIOUS
  <2>1. Load
    BY DEF Next, vars, Usage, Unsupported, CannotParse, ParseArgs, CannotCheck, Generate,
           PrintPlain, CheckPasses, CheckFails, PrintCipher, NextPair, Done, Kill
  <2>2. IF status = 0 THEN loaded'.state = "vectors" /\ Len(loaded'.vecs) = Len(made)
        ELSE loaded'.state = "exception"
    BY <2>1, LoadLemma
  <2>3. status = 0 => Len(made) = Cardinality(Asked)
    BY DEF Counted, Counts
  <2>. QED  BY <2>2, <2>3
<1>. QED  BY <1>1, <1>2, <1>3, Written, PTL DEF Spec, LoadsAllOrNothing

-----------------------------------------------------------------------------
(* The words of the names that generate knows.                             *)
Words == {"aes", "gcm", "siv", "128", "pobc", "htmac", "pmac", "jolteon", "espeon"}

LEMMA PrefixLemma ==
  ASSUME NEW s \in Seq(Words), NEW t \in Seq(Words), IsPrefix(s, t)
  PROVE  \A k \in 1 .. Len(s) : s[k] = t[k]
<1>1. Len(s) <= Len(t) /\ SubSeq(s, 1, Len(s)) = SubSeq(t, 1, Len(s))
  BY DEF IsPrefix
<1>2. Len(s) \in Nat /\ Len(t) \in Nat
  OBVIOUS
<1>3. ASSUME NEW k \in 1 .. Len(s)
      PROVE  SubSeq(s, 1, Len(s))[k] = s[k] /\ SubSeq(t, 1, Len(s))[k] = t[k]
  BY <1>1, <1>2
<1>. QED  BY <1>1, <1>3

LEMMA NameLemma ==
  ASSUME NEW name \in Seq(Words), Supported(name)
  PROVE  \/ Mode(name) = GCM_SIV /\ name[1] = "aes" /\ name[2] = "gcm" /\ name[3] = "siv"
         \/ Mode(name) = GCM /\ name[1] = "aes" /\ name[2] = "gcm"
         \/ Mode(name) = POBC /\ name[1] = "aes" /\ name[2] = "pobc"
         \/ Mode(name) = POBC_SIV /\ name[1] = "aes" /\ name[2] = "pobc" /\ Len(name) >= 3
         \/ Mode(name) = HTMAC /\ name[1] = "htmac"
         \/ Mode(name) = PMAC /\ name[1] = "pmac"
         \/ Mode(name) = JOLTEON /\ name[1] = "jolteon"
         \/ Mode(name) = ESPEON /\ name[1] = "espeon"
<1>. DEFINE p == Mode(name)
<1>1. p \in {GCM_SIV, GCM, POBC, POBC_SIV, HTMAC, PMAC, JOLTEON, ESPEON}
  <2>1. p \in Range(Primitives)
    BY ModeLemma
  <2>2. Range(Primitives) = {GCM_SIV, GCM, POBC, POBC_SIV, HTMAC, PMAC, JOLTEON, ESPEON}
    <3>. HIDE DEF GCM_SIV, GCM, POBC, POBC_SIV, HTMAC, PMAC, JOLTEON, ESPEON
    <3>. QED  BY DEF Range, Primitives
  <2>. QED  BY <2>1, <2>2
<1>2. IsPrefix(p.name, name)
  BY BranchLemma DEF Mode, Names
<1>. HIDE DEF p
<1>3. ASSUME NEW s \in Seq(Words), p.name = s
      PROVE  \A k \in 1 .. Len(s) : name[k] = s[k]
  BY <1>2, <1>3, PrefixLemma
<1>4. CASE p = GCM_SIV
  <2>. DEFINE s == <<"aes", "gcm", "siv", "128">>
  <2>1. p.name = s /\ s \in Seq(Words) /\ Len(s) = 4
    BY <1>4 DEF GCM_SIV, Primitive, Words
  <2>2. \A k \in 1 .. 4 : name[k] = s[k]
    <3>. HIDE DEF s
    <3>. QED  BY <1>3, <2>1
  <2>3. name[1] = "aes" /\ name[2] = "gcm" /\ name[3] = "siv"
    BY <2>2
  <2>. QED  BY <1>4, <2>3 DEF p
<1>5. CASE p = GCM
  <2>. DEFINE s == <<"aes", "gcm", "128">>
  <2>1. p.name = s /\ s \in Seq(Words) /\ Len(s) = 3
    BY <1>5 DEF GCM, Primitive, Words
  <2>2. \A k \in 1 .. 3 : name[k] = s[k]
    <3>. HIDE DEF s
    <3>. QED  BY <1>3, <2>1
  <2>3. name[1] = "aes" /\ name[2] = "gcm"
    BY <2>2
  <2>. QED  BY <1>5, <2>3 DEF p
<1>6. CASE p = POBC
  <2>. DEFINE s == <<"aes", "pobc">>
  <2>1. p.name = s /\ s \in Seq(Words) /\ Len(s) = 2
    BY <1>6 DEF POBC, Primitive, Words
  <2>2. \A k \in 1 .. 2 : name[k] = s[k]
    <3>. HIDE DEF s
    <3>. QED  BY <1>3, <2>1
  <2>3. name[1] = "aes" /\ name[2] = "pobc"
    BY <2>2
  <2>. QED  BY <1>6, <2>3 DEF p
<1>7. CASE p = POBC_SIV
  <2>. DEFINE s == <<"aes", "pobc", "siv">>
  <2>1. p.name = s /\ s \in Seq(Words) /\ Len(s) = 3
    BY <1>7 DEF POBC_SIV, Primitive, Words
  <2>2. \A k \in 1 .. 3 : name[k] = s[k]
    <3>. HIDE DEF s
    <3>. QED  BY <1>3, <2>1
  <2>3. name[1] = "aes" /\ name[2] = "pobc"
    BY <2>2
  <2>4. Len(name) >= 3
    BY <1>2, <2>1 DEF IsPrefix
  <2>. QED  BY <1>7, <2>3, <2>4 DEF p
<1>8. CASE p = HTMAC
  <2>. DEFINE s == <<"htmac", "aes">>
  <2>1. p.name = s /\ s \in Seq(Words) /\ Len(s) = 2
    BY <1>8 DEF HTMAC, Primitive, Words
  <2>2. \A k \in 1 .. 2 : name[k] = s[k]
    <3>. HIDE DEF s
    <3>. QED  BY <1>3, <2>1
  <2>3. name[1] = "htmac"
    BY <2>2
  <2>. QED  BY <1>8, <2>3 DEF p
<1>9. CASE p = PMAC
  <2>. DEFINE s == <<"pmac", "aes">>
  <2>1. p.name = s /\ s \in Seq(Words) /\ Len(s) = 2
    BY <1>9 DEF PMAC, Primitive, Words
  <2>2. \A k \in 1 .. 2 : name[k] = s[k]
    <3>. HIDE DEF s
    <3>. QED  BY <1>3, <2>1
  <2>3. name[1] = "pmac"
    BY <2>2
  <2>. QED  BY <1>9, <2>3 DEF p
<1>10. CASE p = JOLTEON
  <2>. DEFINE s == <<"jolteon", "aes", "128">>
  <2>1. p.name = s /\ s \in Seq(Words) /\ Len(s) = 3
    BY <1>10 DEF JOLTEON, Primitive, Words
  <2>2. \A k \in 1 .. 3 : name[k] = s[k]
    <3>. HIDE DEF s
    <3>. QED  BY <1>3, <2>1
  <2>3. name[1] = "jolteon"
    BY <2>2
  <2>. QED  BY <1>10, <2>3 DEF p
<1>11. CASE p = ESPEON
  <2>. DEFINE s == <<"espeon", "aes", "128">>
  <2>1. p.name = s /\ s \in Seq(Words) /\ Len(s) = 3
    BY <1>11 DEF ESPEON, Primitive, Words
  <2>2. \A k \in 1 .. 3 : name[k] = s[k]
    <3>. HIDE DEF s
    <3>. QED  BY <1>3, <2>1
  <2>3. name[1] = "espeon"
    BY <2>2
  <2>. QED  BY <1>11, <2>3 DEF p
<1>. QED  BY <1>1, <1>4, <1>5, <1>6, <1>7, <1>8, <1>9, <1>10, <1>11

(* The lengths of a mode suit a board.                                     *)
Suits(p, board) ==
  /\ p.keylen = board.keyLen /\ p.taglen = board.tagLen
  /\ board.readsNonce => p.noncelen = board.nonceLen

(* The branch of generate for the name of a mode that has firmware has the *)
(* lengths of that firmware; that of aes_pobc_siv is the one of aes_pobc,  *)
(* whose key and tag are as long.                                          *)
LEMMA BoardLemma ==
  ASSUME NEW b \in Range(Boards), Supported(b[1].name)
  PROVE  Suits(Mode(b[1].name), b[2])
<1>. DEFINE name == b[1].name
<1>. USE DEF GCM_SIV, GCM, POBC, POBC_SIV, HTMAC, PMAC, JOLTEON, ESPEON, Primitive,
             Board, Suits
<1>1. \/ b = <<GCM_SIV, Board(16, TRUE, 12, 16)>> \/ b = <<GCM,      Board(16, TRUE, 12, 16)>>
      \/ b = <<POBC,    Board(16, TRUE, 12, 16)>> \/ b = <<POBC_SIV, Board(16, FALSE, 0, 16)>>
      \/ b = <<PMAC,    Board(16, TRUE, 12, 16)>> \/ b = <<JOLTEON,  Board(32, TRUE, 14, 16)>>
      \/ b = <<ESPEON,  Board(32, TRUE, 16, 16)>>
  <2>. HIDE DEF GCM_SIV, GCM, POBC, POBC_SIV, HTMAC, PMAC, JOLTEON, ESPEON, Board
  <2>1. DOMAIN Boards = 1 .. 7
    BY DEF Boards
  <2>2. PICK i \in 1 .. 7 : b = Boards[i]
    BY <2>1 DEF Range
  <2>3. /\ Boards[1] = <<GCM_SIV, Board(16, TRUE, 12, 16)>>
        /\ Boards[2] = <<GCM,      Board(16, TRUE, 12, 16)>>
        /\ Boards[3] = <<POBC,     Board(16, TRUE, 12, 16)>>
        /\ Boards[4] = <<POBC_SIV, Board(16, FALSE, 0, 16)>>
        /\ Boards[5] = <<PMAC,     Board(16, TRUE, 12, 16)>>
        /\ Boards[6] = <<JOLTEON,  Board(32, TRUE, 14, 16)>>
        /\ Boards[7] = <<ESPEON,   Board(32, TRUE, 16, 16)>>
    BY DEF Boards
  <2>4. i = 1 \/ i = 2 \/ i = 3 \/ i = 4 \/ i = 5 \/ i = 6 \/ i = 7
    OBVIOUS
  <2>. QED  BY <2>2, <2>3, <2>4, Zenon
<1>2. CASE b = <<GCM_SIV, Board(16, TRUE, 12, 16)>>
  <2>1. name = <<"aes", "gcm", "siv", "128">>
    BY <1>2
  <2>2. name \in Seq(Words) /\ name[1] = "aes" /\ name[2] = "gcm"
    BY <2>1 DEF Words
  <2>3. Mode(name) \in {GCM_SIV, GCM}
    <3>. HIDE DEF name, GCM_SIV, GCM, POBC, POBC_SIV, HTMAC, PMAC, JOLTEON, ESPEON
    <3>. QED  BY <2>2, NameLemma DEF name
  <2>. QED  BY <1>2, <2>3
<1>3. CASE b = <<GCM, Board(16, TRUE, 12, 16)>>
  <2>1. name = <<"aes", "gcm", "128">>
    BY <1>3
  <2>2. name \in Seq(Words) /\ name[1] = "aes" /\ name[2] = "gcm"
    BY <2>1 DEF Words
  <2>3. Mode(name) \in {GCM_SIV, GCM}
    <3>. HIDE DEF name, GCM_SIV, GCM, POBC, POBC_SIV, HTMAC, PMAC, JOLTEON, ESPEON
    <3>. QED  BY <2>2, NameLemma DEF name
  <2>. QED  BY <1>3, <2>3
<1>4. CASE b = <<POBC, Board(16, TRUE, 12, 16)>>
  <2>1. name = <<"aes", "pobc">>
    BY <1>4
  <2>2. name \in Seq(Words) /\ name[1] = "aes" /\ name[2] = "pobc" /\ ~(Len(name) >= 3)
    BY <2>1 DEF Words
  <2>3. Mode(name) = POBC
    <3>. HIDE DEF name, GCM_SIV, GCM, POBC, POBC_SIV, HTMAC, PMAC, JOLTEON, ESPEON
    <3>. QED  BY <2>2, NameLemma DEF name
  <2>. QED  BY <1>4, <2>3
<1>5. CASE b = <<POBC_SIV, Board(16, FALSE, 0, 16)>>
  <2>1. name = <<"aes", "pobc", "siv">>
    BY <1>5
  <2>2. name \in Seq(Words) /\ name[1] = "aes" /\ name[2] = "pobc"
    BY <2>1 DEF Words
  <2>3. Mode(name) \in {POBC, POBC_SIV}
    <3>. HIDE DEF name, GCM_SIV, GCM, POBC, POBC_SIV, HTMAC, PMAC, JOLTEON, ESPEON
    <3>. QED  BY <2>2, NameLemma DEF name
  <2>. QED  BY <1>5, <2>3
<1>6. CASE b = <<PMAC, Board(16, TRUE, 12, 16)>>
  <2>1. name = <<"pmac", "aes">>
    BY <1>6
  <2>2. name \in Seq(Words) /\ name[1] = "pmac" /\ name[2] = "aes"
    BY <2>1 DEF Words
  <2>3. Mode(name) = PMAC
    <3>. HIDE DEF name, GCM_SIV, GCM, POBC, POBC_SIV, HTMAC, PMAC, JOLTEON, ESPEON
    <3>. QED  BY <2>2, NameLemma DEF name
  <2>. QED  BY <1>6, <2>3
<1>7. CASE b = <<JOLTEON, Board(32, TRUE, 14, 16)>>
  <2>1. name = <<"jolteon", "aes", "128">>
    BY <1>7
  <2>2. name \in Seq(Words) /\ name[1] = "jolteon" /\ name[2] = "aes"
    BY <2>1 DEF Words
  <2>3. Mode(name) = JOLTEON
    <3>. HIDE DEF name, GCM_SIV, GCM, POBC, POBC_SIV, HTMAC, PMAC, JOLTEON, ESPEON
    <3>. QED  BY <2>2, NameLemma DEF name
  <2>. QED  BY <1>7, <2>3
<1>8. CASE b = <<ESPEON, Board(32, TRUE, 16, 16)>>
  <2>1. name = <<"espeon", "aes", "128">>
    BY <1>8
  <2>2. name \in Seq(Words) /\ name[1] = "espeon" /\ name[2] = "aes"
    BY <2>1 DEF Words
  <2>3. Mode(name) = ESPEON
    <3>. HIDE DEF name, GCM_SIV, GCM, POBC, POBC_SIV, HTMAC, PMAC, JOLTEON, ESPEON
    <3>. QED  BY <2>2, NameLemma DEF name
  <2>. QED  BY <1>8, <2>3
<1>. QED  BY <1>1, <1>2, <1>3, <1>4, <1>5, <1>6, <1>7, <1>8

(* A vector loaded from a file for a primitive has the lengths that the    *)
(* firmware of the primitive reads and sends, except for a tag that was    *)
(* cut: generate.c 229-315 against KEY_LEN, NONCE_LEN and TAG_LEN.         *)
THEOREM MatchesBoardHolds == Spec => []MatchesBoard
<1>1. InPlace /\ FromMade(loaded.vecs) => MatchesBoard
  <2>. SUFFICES ASSUME InPlace, FromMade(loaded.vecs),
                       NEW b \in Range(Boards), b[1].name = args.primitive,
                       NEW i \in DOMAIN loaded.vecs
                PROVE  LET v == loaded.vecs[i]
                       IN  /\ v.key.len = b[2].keyLen /\ v.ct.len = v.message.len
                           /\ b[2].readsNonce => v.nonce.len = b[2].nonceLen
                           /\ v.tag.len <= b[2].tagLen
                           /\ i < Len(loaded.vecs) => v.tag.len = b[2].tagLen
    BY DEF MatchesBoard
  <2>. DEFINE p == Mode(args.primitive)
              v == loaded.vecs[i]
              w == made[i].vec
  <2>1. i \in DOMAIN made /\ Read(v, w, i < Len(loaded.vecs))
    BY DEF FromMade
  <2>2. Supported(args.primitive) /\ \E n \in Nat : w \in VectorAt(p, n, made[i].index)
    BY <2>1 DEF InPlace
  <2>3. PICK n \in Nat : w \in VectorAt(p, n, made[i].index)
    BY <2>2
  <2>4. /\ w.key.len = p.keylen /\ w.nonce.len = p.noncelen /\ w.tag.len = p.taglen
        /\ w.ct.len = w.message.len
    BY <2>3 DEF VectorAt, Encrypted, Random, Cipher, Tag
  <2>5. /\ v.key.len = w.key.len /\ v.nonce.len = w.nonce.len
        /\ v.ct.len = w.ct.len /\ v.message.len = w.message.len
        /\ v.tag.len <= w.tag.len
        /\ i < Len(loaded.vecs) => v.tag.len = w.tag.len
    BY <2>1 DEF Read, Whole
  <2>6. Suits(p, b[2])
    BY <2>2, BoardLemma
  <2>. QED  BY <2>4, <2>5, <2>6 DEF Suits
<1>. QED  BY <1>1, Written, PTL
=============================================================================
