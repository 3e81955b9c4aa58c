----------------------------- MODULE ModesProofs -----------------------------
(***************************************************************************)
(* All modes of the device together: what is proved of each of them holds  *)
(* of every call, because a call stays in its mode and a mode leaves the   *)
(* variables of the others alone. At the end, that AES-128 as aes.c has it *)
(* and the fork cipher of the runs are ciphers as these theorems suppose.  *)
(***************************************************************************)
EXTENDS MCModes, PobcProofs, GcmProofs, EeveeProofs

\* A call stays in its mode.
LEMMA SameCall == ASSUME [Next]_allVars PROVE job' = job
<1>1. PobcNext => job' = job
  BY DEF PobcNext, Mask, FullBlock, PartialBlock, EndStream, TagBlock, EndAd, PobcReturn
<1>2. SivNext => job' = job
  BY DEF SivNext, Mac, EncryptChunk, EndEncrypt, SivTransit, DecryptChunk, Verify
<1>3. MacNext => job' = job
  BY DEF MacNext, CtrBlock, EndCtr, PmacBlock, PmacLast, FinishEnc, MacTransit, FinishDec
<1>4. GcmNext => job' = job
  BY DEF GcmNext, Keys, TwoBlocks, Rest, GcmHashBlock, GcmTag
<1>5. GcmSivNext => job' = job
  BY DEF GcmSivNext, DeriveKeys, GcmSivHashBlock, GcmSivTag, GcmSivStream, GcmSivReturn
<1>6. JolteonNext => job' = job
  BY DEF JolteonNext, JolteonRefuse, JolteonBegin, JolteonAdBlock, JolteonAdLast,
         JolteonEncEmpty, JolteonEncBlock, JolteonEncLast, JolteonTransit,
         JolteonDecEmpty, JolteonDecBlock, JolteonDecLast
<1>7. EspeonNext => job' = job
  BY DEF EspeonNext, EspeonRefuse, EspeonBegin, EspeonAdBlock, EspeonAdLast,
         EspeonEncEmpty, EspeonEncBlock, EspeonEncLast, EspeonTransit,
         EspeonDecEmpty, EspeonDecBlock, EspeonDecLast
<1> QED BY <1>1, <1>2, <1>3, <1>4, <1>5, <1>6, <1>7 DEF Next, allVars

\* Of its mode a call does a step or none.
LEMMA StepOfMode ==
  ASSUME [Next]_allVars
  PROVE  /\ Pobc    => [PobcNext]_pobcVars
         /\ Siv     => [SivNext]_sivVars
         /\ CtrMac  => [MacNext]_macVars
         /\ Gcm     => [GcmNext]_gcmVars
         /\ GcmSiv  => [GcmSivNext]_gcmSivVars
         /\ Jolteon => [JolteonNext]_jolteonVars
         /\ Espeon  => [EspeonNext]_espeonVars
<1>1. CASE UNCHANGED allVars
  BY <1>1 DEF allVars, pobcVars, sivVars, macVars, gcmVars, gcmSivVars, jolteonVars, espeonVars
<1>2. CASE Next
  BY <1>2 DEF Next, Pobc, Siv, CtrMac, Gcm, GcmSiv, Jolteon, Espeon
<1> QED BY <1>1, <1>2

\* A call begins as its mode does.
LEMMA InitOfMode ==
  ASSUME Init
  PROVE  /\ Pobc    => PobcInit
         /\ Siv     => SivInit
         /\ CtrMac  => MacInit
         /\ Gcm     => GcmInit
         /\ GcmSiv  => GcmSivInit
         /\ Jolteon => JolteonInit
         /\ Espeon  => EspeonInit
<1>1. PobcInit => job.mode = "pobc"
  BY CallFacts DEF PobcInit
<1>2. SivInit => job.mode = "pobc_siv"
  BY CallFacts DEF SivInit
<1>3. MacInit => job.mode \in {"pmac", "htmac"}
  BY CallFacts DEF MacInit
<1>4. GcmInit => job.mode = "gcm"
  BY CallFacts DEF GcmInit
<1>5. GcmSivInit => job.mode = "gcm_siv"
  BY CallFacts DEF GcmSivInit
<1>6. JolteonInit => job.mode = "jolteon"
  BY JolteonCallsAssumption DEF JolteonInit
<1>7. EspeonInit => job.mode = "espeon"
  BY EspeonCallsAssumption DEF EspeonInit
<1>8. \/ PobcInit \/ SivInit \/ MacInit \/ GcmInit \/ GcmSivInit \/ JolteonInit \/ EspeonInit
  BY DEF Init
<1> QED BY <1>1, <1>2, <1>3, <1>4, <1>5, <1>6, <1>7, <1>8
       DEF Pobc, Siv, CtrMac, Gcm, GcmSiv, Jolteon, Espeon

\* What needs no hypothesis of the ciphers.
ModesInv ==
  /\ Pobc    => PobcInv
  /\ Siv     => SivInv
  /\ CtrMac  => MacInv
  /\ Gcm     => GcmInv
  /\ Jolteon => TweakInv

LEMMA InitModesInv == Init => ModesInv
BY InitOfMode, InitPobcInv, InitSivInv, InitMacInv, InitGcmInv, InitTweakInv DEF ModesInv

LEMMA NextModesInv == ModesInv /\ [Next]_allVars => ModesInv'
<1> SUFFICES ASSUME ModesInv, [Next]_allVars PROVE ModesInv'
  OBVIOUS
<1>1. job' = job
  BY SameCall
<1>2. /\ Pobc'    = Pobc   /\ Siv' = Siv /\ CtrMac' = CtrMac /\ Gcm' = Gcm
      /\ Jolteon' = Jolteon
  BY <1>1 DEF Pobc, Siv, CtrMac, Gcm, Jolteon
<1>3. Pobc => PobcInv'
  BY StepOfMode, NextPobcInv DEF ModesInv
<1>4. Siv => SivInv'
  BY StepOfMode, NextSivInv DEF ModesInv
<1>5. CtrMac => MacInv'
  BY StepOfMode, NextMacInv DEF ModesInv
<1>6. Gcm => GcmInv'
  BY StepOfMode, NextGcmInv DEF ModesInv
<1>7. Jolteon => TweakInv'
  BY StepOfMode, NextTweakInv DEF ModesInv
<1> QED BY <1>2, <1>3, <1>4, <1>5, <1>6, <1>7 DEF ModesInv

LEMMA ModesInvGives ==
  ModesInv => DistinctInputs /\ PairsAreCounterMode /\ CleanRejection /\ TweaksDistinct
BY PobcInvGives, GcmInvGives, TweakInvGives
   DEF ModesInv, DistinctInputs, PairsAreCounterMode, CleanRejection, TweaksDistinct, SivInv

\* No call of the device asks the cipher twice for a block, at the lengths where
\* the modes keep their counters apart (aes_pobc_encrypt, aes_gcm_128_encrypt).
THEOREM CallsAskDistinct == Spec => []DistinctInputs
BY InitModesInv, NextModesInv, ModesInvGives, PTL DEF Spec

\* The two counters of aes_gcm_128_encrypt, which encrypts two blocks at a time,
\* make one counter mode.
THEOREM CallsPairCounters == Spec => []PairsAreCounterMode
BY InitModesInv, NextModesInv, ModesInvGives, PTL DEF Spec

\* A call of aes_pobc_siv_decrypt that rejects leaves no byte of the message.
THEOREM CallsRejectCleanly == Spec => []CleanRejection
BY InitModesInv, NextModesInv, ModesInvGives, PTL DEF Spec

\* An encryption of Jolteon uses no tweak twice (jolteon_encrypt).
THEOREM CallsKeepTweaksDistinct == Spec => []TweaksDistinct
BY InitModesInv, NextModesInv, ModesInvGives, PTL DEF Spec

(***************************************************************************)
(* What needs that the block cipher returns blocks                         *)
(***************************************************************************)
\* AES-POBC takes blocks from the cipher.
RunInv == Pobc => PobcRunInv

LEMMA InitRunInv == ASSUME BlockCipher PROVE Init => RunInv
BY InitOfMode, InitPobcRunInv DEF RunInv

LEMMA NextRunInv == ASSUME BlockCipher PROVE RunInv /\ [Next]_allVars => RunInv'
<1> SUFFICES ASSUME RunInv, [Next]_allVars PROVE RunInv'
  OBVIOUS
<1>1. Pobc' = Pobc
  BY SameCall DEF Pobc
<1>2. Pobc => PobcRunInv'
  BY StepOfMode, NextPobcRunInv DEF RunInv
<1> QED BY <1>1, <1>2 DEF RunInv

LEMMA RunInvGives == ASSUME BlockCipher PROVE RunInv => EncryptsAsSpecified
BY PobcRunInvGives DEF RunInv, EncryptsAsSpecified

\* aes_pobc_encrypt writes the counter mode of the message, and the tag that is
\* the sum of mask, associated data and ciphertext.
THEOREM CallsEncryptAsSpecified ==
  ASSUME BlockCipher
  PROVE  Spec => []EncryptsAsSpecified
BY InitRunInv, NextRunInv, RunInvGives, PTL DEF Spec

(***************************************************************************)
(* What MPC/code decrypts again                                            *)
(***************************************************************************)
DecryptInv ==
  /\ Gcm    => GcmRunInv
  /\ GcmSiv => GcmSivRunInv
  /\ CtrMac => MacInv

LEMMA InitDecryptInv == Init => DecryptInv
BY InitOfMode, InitGcmRunInv, InitGcmSivRunInv, InitMacInv DEF DecryptInv

LEMMA NextDecryptInv == ASSUME BlockCipher PROVE DecryptInv /\ [Next]_allVars => DecryptInv'
<1> SUFFICES ASSUME DecryptInv, [Next]_allVars PROVE DecryptInv'
  OBVIOUS
<1>1. Gcm' = Gcm /\ GcmSiv' = GcmSiv /\ CtrMac' = CtrMac
  BY SameCall DEF Gcm, GcmSiv, CtrMac
<1>2. Gcm => GcmRunInv'
  BY StepOfMode, NextGcmRunInv DEF DecryptInv
<1>3. GcmSiv => GcmSivRunInv'
  BY StepOfMode, NextGcmSivRunInv DEF DecryptInv
<1>4. CtrMac => MacInv'
  BY StepOfMode, NextMacInv DEF DecryptInv
<1> QED BY <1>1, <1>2, <1>3, <1>4 DEF DecryptInv

LEMMA DecryptInvGives == ASSUME BlockCipher PROVE DecryptInv => MpcDecrypts
<1> SUFFICES ASSUME DecryptInv, pc = "done", job.adlen = 0
             PROVE  /\ job.mode = "gcm" =>
                         aes_gcm_128_decrypt(job.k, job.npub, c, job.mlen, tag) = [check |-> 1, m |-> job.m]
                    /\ job.mode = "gcm_siv" =>
                         aes_gcm_siv_128_decrypt(job.k, job.npub, c, job.mlen, tag)
                           = [check |-> 1, m |-> job.m]
                    /\ job.mode = "pmac" =>
                         dec_pmac_message(job.k, job.npub, Slice(c, 0, job.mlen), job.mlen) = job.m
  BY DEF MpcDecrypts
<1>1. (Gcm <=> job.mode = "gcm") /\ (GcmSiv <=> job.mode = "gcm_siv") /\ (job.mode = "pmac" => CtrMac)
  BY DEF Gcm, GcmSiv, CtrMac
<1>2. Gcm => aes_gcm_128_decrypt(job.k, job.npub, c, job.mlen, tag) = [check |-> 1, m |-> job.m]
  BY GcmDecrypts DEF DecryptInv
<1>3. GcmSiv => aes_gcm_siv_128_decrypt(job.k, job.npub, c, job.mlen, tag) = [check |-> 1, m |-> job.m]
  BY SivDecrypts DEF DecryptInv
<1>4. CtrMac => dec_pmac_message(job.k, job.npub, Slice(c, 0, job.mlen), job.mlen) = job.m
  BY MacMessageDecrypts DEF DecryptInv
<1> QED BY <1>1, <1>2, <1>3, <1>4

\* What aes_gcm.c, aes_gcm_siv.c and CTR-PMAC encrypt without associated data,
\* the programs of MPC/code decrypt to the message, for every key, nonce and
\* message: the counter is the same word. Of GCM and GCM-SIV they accept the tag,
\* since the hash from tables is the hash in the field and lengths and keys are
\* the same blocks.
THEOREM CallsMpcDecrypts ==
  ASSUME BlockCipher
  PROVE  Spec => []MpcDecrypts
BY InitDecryptInv, NextDecryptInv, DecryptInvGives, PTL DEF Spec

(***************************************************************************)
(* What needs that the left output of the fork cipher can be undone        *)
(***************************************************************************)
ForkInv ==
  /\ Jolteon => JolteonInv
  /\ Espeon  => EspeonInv /\ EspeonUsed

LEMMA InitForkInv == Init => ForkInv
<1> SUFFICES ASSUME Init PROVE ForkInv
  OBVIOUS
<1>1. Jolteon => JolteonInv
  BY InitOfMode, InitTweakInv, InitSums DEF JolteonInv
<1>2. Espeon => EspeonInv /\ EspeonUsed
  BY InitOfMode, InitEspeonUsed, EspeonInitSums DEF EspeonInv, EspeonUsedInv
<1> QED BY <1>1, <1>2 DEF ForkInv

LEMMA NextForkInv ==
  ASSUME JolteonForks, EspeonForks
  PROVE  ForkInv /\ [Next]_allVars => ForkInv'
<1> SUFFICES ASSUME ForkInv, [Next]_allVars PROVE ForkInv'
  OBVIOUS
<1>1. Jolteon' = Jolteon /\ Espeon' = Espeon
  BY SameCall DEF Jolteon, Espeon
<1>2. ASSUME Jolteon PROVE JolteonInv'
  <2>1. JolteonInv /\ [JolteonNext]_jolteonVars
    BY <1>2, StepOfMode DEF ForkInv
  <2>2. TweakInv'
    BY <2>1, NextTweakInv DEF JolteonInv
  <2>3. SumInv'
    BY <2>1, NextSums
  <2> QED BY <2>2, <2>3 DEF JolteonInv
<1>3. ASSUME Espeon PROVE EspeonInv' /\ EspeonUsed'
  <2>1. EspeonInv /\ EspeonUsed /\ [EspeonNext]_espeonVars
    BY <1>3, StepOfMode DEF ForkInv
  <2>2. EspeonShape' /\ EspeonUsed'
    BY <2>1, NextEspeonUsed DEF EspeonInv, EspeonUsedInv
  <2>3. EspeonSums'
    BY <2>1, EspeonNextSums
  <2> QED BY <2>2, <2>3 DEF EspeonInv
<1> QED BY <1>1, <1>2, <1>3 DEF ForkInv

LEMMA ForkInvGives ==
  ModesInv /\ ForkInv => RoundTrips /\ EspeonTweaksApart
<1> SUFFICES ASSUME ModesInv, ForkInv PROVE RoundTrips /\ EspeonTweaksApart
  OBVIOUS
<1>1. Siv => SivRoundTrip
  BY DEF ModesInv, SivInv
<1>2. CtrMac => MacRoundTrip
  BY MacInvGives DEF ModesInv
<1>3. Jolteon => RoundTrip
  BY JolteonInvGives DEF ForkInv
<1>4. Espeon => RoundTrip
  BY EspeonInvGives DEF ForkInv
<1>5. Espeon => EspeonTweaksDistinct
  BY EspeonUsedGives DEF ForkInv, EspeonInv, EspeonUsedInv
<1> QED BY <1>1, <1>2, <1>3, <1>4, <1>5 DEF RoundTrips, EspeonTweaksApart

\* Decryption inverts encryption in AES-POBC-SIV, AES-CTR-PMAC and HTMAC with any
\* block cipher, in Jolteon and Espeon with any fork cipher.
THEOREM CallsInvert ==
  ASSUME JolteonForks, EspeonForks
  PROVE  Spec => []RoundTrips
<1>1. ModesInv /\ ForkInv /\ [Next]_allVars => ForkInv'
  BY NextForkInv
<1> QED BY <1>1, InitModesInv, NextModesInv, InitForkInv, ForkInvGives, PTL DEF Spec

\* An encryption of Espeon uses no tweak twice that is not made of ciphertext
\* (espeon_encrypt).
THEOREM CallsKeepEspeonTweaksApart ==
  ASSUME JolteonForks, EspeonForks
  PROVE  Spec => []EspeonTweaksApart
<1>1. ModesInv /\ ForkInv /\ [Next]_allVars => ForkInv'
  BY NextForkInv
<1> QED BY <1>1, InitModesInv, NextModesInv, InitForkInv, ForkInvGives, PTL DEF Spec

(***************************************************************************)
(* The buffers of all modes                                                *)
(***************************************************************************)
BuffersInv ==
  /\ GcmSiv  => GcmSivInv
  /\ Jolteon => JolteonShape
  /\ Espeon  => EspeonShape

LEMMA InitBuffersInv == Init => BuffersInv
<1> SUFFICES ASSUME Init PROVE BuffersInv
  OBVIOUS
<1>1. GcmSiv => GcmSivInv
  BY InitOfMode, InitGcmSivInv
<1>2. Jolteon => JolteonShape
  BY InitOfMode, InitJolteonShape
<1>3. Espeon => EspeonShape
  BY InitOfMode, InitEspeonShape
<1> QED BY <1>1, <1>2, <1>3 DEF BuffersInv

LEMMA NextBuffersInv ==
  ASSUME BlockCipher, JolteonForks, EspeonForks
  PROVE  BuffersInv /\ [Next]_allVars => BuffersInv'
<1> SUFFICES ASSUME BuffersInv, [Next]_allVars PROVE BuffersInv'
  OBVIOUS
<1>1. GcmSiv' = GcmSiv /\ Jolteon' = Jolteon /\ Espeon' = Espeon
  BY SameCall DEF GcmSiv, Jolteon, Espeon
<1>2. GcmSiv => GcmSivInv'
  BY StepOfMode, NextGcmSivInv DEF BuffersInv
<1>3. Jolteon => JolteonShape'
  BY StepOfMode, StepJolteonShape DEF BuffersInv
<1>4. Espeon => EspeonShape'
  BY StepOfMode, StepEspeonShape DEF BuffersInv
<1> QED BY <1>1, <1>2, <1>3, <1>4 DEF BuffersInv

LEMMA BuffersInvGives == ModesInv /\ RunInv /\ BuffersInv => TypesOK
<1> SUFFICES ASSUME ModesInv, RunInv, BuffersInv PROVE TypesOK
  OBVIOUS
<1>1. Pobc => PobcTypeOK
  BY PobcRunInvGives DEF RunInv
<1>2. Siv => SivTypeOK
  BY DEF ModesInv, SivInv
<1>3. CtrMac => MacTypeOK
  BY DEF ModesInv, MacInv
<1>4. Gcm => GcmTypeOK
  BY GcmInvGives DEF ModesInv
<1>5. GcmSiv => GcmSivTypeOK
  BY DEF BuffersInv, GcmSivInv
<1>6. Jolteon => JolteonTypeOK
  BY JolteonShapeGives DEF BuffersInv
<1>7. Espeon => EspeonTypeOK
  BY EspeonShapeGives DEF BuffersInv
<1> QED BY <1>1, <1>2, <1>3, <1>4, <1>5, <1>6, <1>7 DEF TypesOK

\* Every call writes its buffers as far as its loops say, and no further; what is
\* a block stays one.
THEOREM CallsKeepToBuffers ==
  ASSUME BlockCipher, JolteonForks, EspeonForks
  PROVE  Spec => []TypesOK
<1>1. BuffersInv /\ [Next]_allVars => BuffersInv'
  BY NextBuffersInv
<1>2. RunInv /\ [Next]_allVars => RunInv'
  BY NextRunInv
<1>3. Init => RunInv
  BY InitRunInv
<1> QED BY <1>1, <1>2, <1>3, InitModesInv, NextModesInv, InitBuffersInv, BuffersInvGives, PTL
        DEF Spec

(***************************************************************************)
(* AES-128, and the fork cipher of the runs, are what the theorems suppose *)
(***************************************************************************)
LEMMA XorIsByte == \A a, b \in Byte : a (+) b \in Byte
BY DEF (+), Byte

LEMMA FullIs == ASSUME NEW v PROVE Full(v) = v
BY DEF Full

LEMMA ValueIsByte == ASSUME NEW b PROVE Value(b) \in 0..255
<1>1. \A q : Bit(q, b) \in {0, 1}
  BY DEF Bit
<1>2. /\ Bit(0, b) \in {0, 1} /\ Bit(1, b) \in {0, 1} /\ Bit(2, b) \in {0, 1}
      /\ Bit(3, b) \in {0, 1} /\ Bit(4, b) \in {0, 1} /\ Bit(5, b) \in {0, 1}
      /\ Bit(6, b) \in {0, 1} /\ Bit(7, b) \in {0, 1}
  BY <1>1
<1> QED BY <1>2 DEF Value

LEMMA RotatedIsByte == ASSUME NEW b \in Byte PROVE RotateLeft(b) \in Byte
<1>1. \A bit \in b : bit \in 0..7
  BY DEF Byte, Bits
<1>2. \A bit \in 0..7 : (bit + 1) % 8 \in 0..7
  OBVIOUS
<1> QED BY <1>1, <1>2 DEF RotateLeft, Byte, Bits

\* The S-box returns bytes.
LEMMA SubByteIsByte == ASSUME NEW b PROVE SubByte(b) \in Byte
<1> DEFINE Affine(x0) == LET x1 == RotateLeft(x0)  x2 == RotateLeft(x1)
                             x3 == RotateLeft(x2)  x4 == RotateLeft(x3)
                         IN  x0 (+) (x1 (+) (x2 (+) (x3 (+) (x4 (+) {0, 1, 5, 6}))))
           input(v) == IF v = 0 THEN Zero ELSE NumByte(pow[255 - log[v]])
<1>1. \A v : input(v) \in Byte
  BY DEF NumByte, Zero, Byte
<1>2. ASSUME NEW x \in Byte PROVE Affine(x) \in Byte
  <2>1. RotateLeft(x) \in Byte
    BY RotatedIsByte
  <2>2. RotateLeft(RotateLeft(x)) \in Byte
    BY <2>1, RotatedIsByte
  <2>3. RotateLeft(RotateLeft(RotateLeft(x))) \in Byte
    BY <2>2, RotatedIsByte
  <2>4. RotateLeft(RotateLeft(RotateLeft(RotateLeft(x)))) \in Byte
    BY <2>3, RotatedIsByte
  <2>5. {0, 1, 5, 6} \in Byte
    BY DEF Byte, Bits
  <2> QED BY <2>1, <2>2, <2>3, <2>4, <2>5, XorIsByte
<1>3. FSb = [v \in 0..255 |-> Affine(input(v))]
  BY DEF FSb
<1>4. Value(b) \in 0..255
  BY ValueIsByte
<1> HIDE DEF Affine, input
<1> QED BY <1>1, <1>2, <1>3, <1>4 DEF SubByte

\* A round of the Feistel network is undone by the round back.
LEMMA FeistelRound ==
  ASSUME NEW salt \in [0..7 -> Byte], NEW x \in Block
  PROVE  Forth(salt, x) \in Block /\ Back(salt, x) \in Block /\ Back(salt, Forth(salt, x)) = x
<1> DEFINE upper == [q \in 0..7 |-> x[q + 8]]
           f == Round(salt, upper)
           w == Forth(salt, x)
<1>1. x = [q \in 0..15 |-> x[q]] /\ \A q \in 0..15 : x[q] \in Byte
  BY DEF Block, Buffer, BlockLen
<1>2. ASSUME NEW half PROVE \A q \in 0..7 : Round(salt, half)[q] \in Byte
  <2>1. Round(salt, half) = [q \in 0..7 |->
          SubByte(half[q] (+) (SubByte(half[(q + 1) % 8] (+) salt[q])
                     (+)  SubByte(half[(q + 3) % 8])))]
    BY DEF Round
  <2> QED BY <2>1, SubByteIsByte
<1>3. w = [q \in 0..15 |-> IF q < 8 THEN x[q + 8] ELSE x[q - 8] (+) f[q - 8]]
  BY DEF Forth
<1>4. \A q \in 0..7 : f[q] \in Byte
  BY <1>2
<1> HIDE DEF f, w
<1>5. ASSUME NEW q \in 0..15 PROVE w[q] \in Byte
  <2>1. CASE q < 8
    <3>1. q + 8 \in 0..15
      BY <2>1
    <3> QED BY <2>1, <3>1, <1>1, <1>3
  <2>2. CASE ~(q < 8)
    <3>1. q - 8 \in 0..7 /\ q - 8 \in 0..15
      BY <2>2
    <3>2. x[q - 8] (+) f[q - 8] \in Byte
      BY <3>1, <1>1, <1>4, XorIsByte
    <3> QED BY <2>2, <3>2, <1>3
  <2> QED BY <2>1, <2>2
<1>6. w \in Block
  BY <1>3, <1>5 DEF Block, Buffer, BlockLen
<1>7. Back(salt, x) \in Block
  <2> DEFINE g == Round(salt, [q \in 0..7 |-> x[q]])
  <2>1. \A q \in 0..7 : g[q] \in Byte
    BY <1>2
  <2>2. Back(salt, x) = [q \in 0..15 |-> IF q < 8 THEN x[q + 8] (+) g[q] ELSE x[q - 8]]
    BY DEF Back
  <2> HIDE DEF g
  <2>3. ASSUME NEW q \in 0..15
        PROVE  (IF q < 8 THEN x[q + 8] (+) g[q] ELSE x[q - 8]) \in Byte
    <3>1. CASE q < 8
      <4>1. q + 8 \in 0..15 /\ q \in 0..7
        BY <3>1
      <4> QED BY <3>1, <4>1, <2>1, <1>1, XorIsByte
    <3>2. CASE ~(q < 8)
      <4>1. q - 8 \in 0..15
        BY <3>2
      <4> QED BY <3>2, <4>1, <1>1
    <3> QED BY <3>1, <3>2
  <2> QED BY <2>2, <2>3 DEF Block, Buffer, BlockLen
<1>8. [q \in 0..7 |-> w[q]] = upper
  <2>1. \A q \in 0..7 : q \in 0..15 /\ q < 8
    OBVIOUS
  <2> QED BY <1>3, <2>1
<1>9. Back(salt, w) = [q \in 0..15 |-> IF q < 8 THEN w[q + 8] (+) f[q] ELSE w[q - 8]]
  BY <1>8 DEF Back, f
<1>10. ASSUME NEW q \in 0..15
       PROVE  (IF q < 8 THEN w[q + 8] (+) f[q] ELSE w[q - 8]) = x[q]
  <2>1. CASE q < 8
    <3>1. q + 8 \in 0..15 /\ ~(q + 8 < 8) /\ (q + 8) - 8 = q
      BY <2>1
    <3>2. w[q + 8] = x[q] (+) f[q]
      BY <3>1, <1>3
    <3> QED BY <2>1, <3>2, XorTwice
  <2>2. CASE ~(q < 8)
    <3>1. q - 8 \in 0..15 /\ q - 8 < 8 /\ (q - 8) + 8 = q
      BY <2>2
    <3> QED BY <2>2, <3>1, <1>3
  <2> QED BY <2>1, <2>2
<1>11. Back(salt, w) = x
  BY <1>1, <1>9, <1>10
<1> QED BY <1>6, <1>7, <1>11 DEF w

SaltsOfBytes == [0..3 -> [0..7 -> Byte]]

\* So is the network.
LEMMA Feistel ==
  ASSUME NEW s \in SaltsOfBytes, NEW x \in Block
  PROVE  Forth4(s, x) \in Block /\ Back4(s, x) \in Block /\ Back4(s, Forth4(s, x)) = x
<1>1. /\ s[0] \in [0..7 -> Byte] /\ s[1] \in [0..7 -> Byte]
      /\ s[2] \in [0..7 -> Byte] /\ s[3] \in [0..7 -> Byte]
  BY DEF SaltsOfBytes
<1>2. /\ \A z : Forth4(s, z) = Forth(s[3], Forth(s[2], Forth(s[1], Forth(s[0], z))))
      /\ \A z : Back4(s, z) = Back(s[0], Back(s[1], Back(s[2], Back(s[3], z))))
  BY FullIs DEF Forth4, Back4
<1> DEFINE y1 == Forth(s[0], x)
           y2 == Forth(s[1], y1)
           y3 == Forth(s[2], y2)
           y4 == Forth(s[3], y3)
           z1 == Back(s[3], x)
           z2 == Back(s[2], z1)
           z3 == Back(s[1], z2)
<1>3. y1 \in Block /\ Back(s[0], y1) = x /\ z1 \in Block
  BY <1>1, FeistelRound
<1> HIDE DEF y1, z1
<1>4. y2 \in Block /\ Back(s[1], y2) = y1 /\ z2 \in Block
  BY <1>1, <1>3, FeistelRound
<1> HIDE DEF y2, z2
<1>5. y3 \in Block /\ Back(s[2], y3) = y2 /\ z3 \in Block
  BY <1>1, <1>4, FeistelRound
<1> HIDE DEF y3, z3
<1>6. y4 \in Block /\ Back(s[3], y4) = y3 /\ Back(s[0], z3) \in Block
  BY <1>1, <1>5, FeistelRound
<1> HIDE DEF y4
<1>7. Forth4(s, x) = y4
  BY <1>2 DEF y1, y2, y3, y4
<1>8. Back4(s, x) = Back(s[0], z3)
  BY <1>2 DEF z1, z2, z3
<1>9. Back4(s, y4) = x
  BY <1>2, <1>3, <1>4, <1>5, <1>6
<1> QED BY <1>6, <1>7, <1>8, <1>9

LEMMA NumByteIsByte == ASSUME NEW v PROVE NumByte(v) \in Byte
BY DEF NumByte, Byte

\* The bytes that a tweak gives to the rounds.
LEMMA JolteonSaltsAre ==
  ASSUME NEW tweak, tweak.npub \in Buffer(JolteonNonceSize), NEW leg
  PROVE  JolteonSalts(tweak, leg) \in SaltsOfBytes
<1> DEFINE value(r, q) == leg + 5 * r + 11 * q + 3 * tweak.w + (IF tweak.msg THEN 128 ELSE 0)
           byte(r, q)  == tweak.npub[q] (+) (tweak.npub[q + 6] (+) NumByte(value(r, q) % 256))
<1>1. JolteonSalts(tweak, leg) = [r \in 0..3 |-> [q \in 0..7 |-> byte(r, q)]]
  BY DEF JolteonSalts
<1>2. ASSUME NEW r \in 0..3, NEW q \in 0..7 PROVE byte(r, q) \in Byte
  <2>1. q \in 0..13 /\ q + 6 \in 0..13
    OBVIOUS
  <2>2. tweak.npub[q] \in Byte /\ tweak.npub[q + 6] \in Byte
    BY <2>1 DEF Buffer, JolteonNonceSize
  <2>3. NumByte(value(r, q) % 256) \in Byte
    BY NumByteIsByte
  <2> QED BY <2>2, <2>3, XorIsByte
<1> HIDE DEF byte
<1> QED BY <1>1, <1>2 DEF SaltsOfBytes

LEMMA EspeonSaltsAre ==
  ASSUME NEW n \in Nat, NEW tweak \in Buffer(n), NEW leg
  PROVE  EspeonSalts(tweak, leg) \in SaltsOfBytes
<1> DEFINE f == Folded(tweak)
           byte(r, q) == NumByte((leg + 5 * r + 11 * q) % 256) (+) f[(q + r) % 8]
<1>1. ASSUME NEW l \in 0..7 PROVE f[l] \in Byte
  <2>1. f[l] = XorAll({m \in DOMAIN tweak : m % 8 = l}, tweak)
    BY DEF Folded
  <2>2. \A m \in DOMAIN tweak : tweak[m] \in Byte
    BY DEF Buffer
  <2> QED BY <2>1, <2>2 DEF XorAll, Byte
<1>2. EspeonSalts(tweak, leg) = [r \in 0..3 |-> [q \in 0..7 |-> byte(r, q)]]
  BY FullIs DEF EspeonSalts
<1> HIDE DEF f
<1>3. ASSUME NEW r \in 0..3, NEW q \in 0..7 PROVE byte(r, q) \in Byte
  <2>1. (q + r) % 8 \in 0..7
    OBVIOUS
  <2>2. f[(q + r) % 8] \in Byte
    BY <1>1, <2>1
  <2>3. NumByte((leg + 5 * r + 11 * q) % 256) \in Byte
    BY NumByteIsByte
  <2> QED BY <2>2, <2>3, XorIsByte
<1> HIDE DEF byte
<1> QED BY <1>2, <1>3 DEF SaltsOfBytes

LEMMA ThreeFields ==
  ASSUME NEW t \in [npub : Buffer(JolteonNonceSize), msg : BOOLEAN, w : 0..(JolteonCounterSize - 1)]
  PROVE  OfJolteon(t)
<1>1. DOMAIN t = {"npub", "msg", "w"}
  OBVIOUS
<1> DEFINE S == {"npub"}
           T == S \cup {"msg"}
           U == T \cup {"w"}
<1>2. U = {"npub", "msg", "w"} /\ "msg" \notin S /\ "w" \notin T
  OBVIOUS
<1>3. IsFiniteSet(S) /\ Cardinality(S) = 1
  BY FS_Singleton
<1> HIDE DEF S
<1>4. IsFiniteSet(T) /\ Cardinality(T) = Cardinality(S) + 1
  BY <1>2, <1>3, FS_AddElement
<1> HIDE DEF T
<1>5. IsFiniteSet(U) /\ Cardinality(U) = Cardinality(T) + 1
  BY <1>2, <1>4, FS_AddElement
<1> HIDE DEF U
<1>6. Cardinality(U) = 3
  BY ONLY <1>3, <1>4, <1>5
<1> QED BY <1>1, <1>2, <1>6 DEF OfJolteon

LEMMA ManyBytes == ASSUME NEW n \in {16, 32}, NEW t \in Buffer(n) PROVE ~OfJolteon(t)
<1>1. DOMAIN t = 0..(n - 1)
  BY DEF Buffer
<1>2. Cardinality(0..(n - 1)) = n
  BY FS_Interval
<1> QED BY <1>1, <1>2 DEF OfJolteon

\* The fork cipher of the runs can be undone under every tweak of both modes, so
\* it is one that the theorems on Jolteon and Espeon speak of.
THEOREM ForkCipherForks ==
  ASSUME \A tweak, x : Left(tweak, x) = ModesLeft(tweak, x),
         \A tweak, x : Undo(tweak, x) = ModesUndo(tweak, x)
  PROVE  JolteonForks /\ EspeonForks
<1>1. ASSUME NEW t \in [npub : Buffer(JolteonNonceSize), msg : BOOLEAN,
                        w : 0..(JolteonCounterSize - 1)], NEW x \in Block
      PROVE  Left(t, x) \in Block /\ Undo(t, x) \in Block /\ Undo(t, Left(t, x)) = x
  <2>1. JolteonSalts(t, 17) \in SaltsOfBytes
    <3>1. t.npub \in Buffer(JolteonNonceSize)
      OBVIOUS
    <3> QED BY <3>1, JolteonSaltsAre
  <2>2. \A z : Left(t, z) = Forth4(JolteonSalts(t, 17), z) /\ Undo(t, z) = Back4(JolteonSalts(t, 17), z)
    BY ThreeFields DEF ModesLeft, ModesUndo, Salts
  <2> QED BY <2>1, <2>2, Feistel
<1>2. ASSUME NEW n \in {16, 32}, NEW t \in Buffer(n), NEW x \in Block
      PROVE  Left(t, x) \in Block /\ Undo(t, x) \in Block /\ Undo(t, Left(t, x)) = x
  <2>1. EspeonSalts(t, 17) \in SaltsOfBytes
    BY EspeonSaltsAre
  <2>2. \A z : Left(t, z) = Forth4(EspeonSalts(t, 17), z) /\ Undo(t, z) = Back4(EspeonSalts(t, 17), z)
    BY ManyBytes DEF ModesLeft, ModesUndo, Salts
  <2> QED BY <2>1, <2>2, Feistel
<1>3. JolteonForks
  BY <1>1 DEF JolteonForks, Forks
<1>4. EspeonForks
  BY <1>2 DEF EspeonForks, Forks
<1> QED BY <1>3, <1>4

\* A function on 0..9 whose elements are each computed of the one before.
LEMMA RconIs == RCON = [e \in 0..9 |-> IF e = 0 THEN One ELSE XTIME(RCON[e - 1])]
<1> DEFINE r0 == One          r1 == XTIME(r0)  r2 == XTIME(r1)  r3 == XTIME(r2)
           r4 == XTIME(r3)    r5 == XTIME(r4)  r6 == XTIME(r5)  r7 == XTIME(r6)
           r8 == XTIME(r7)    r9 == XTIME(r8)
           G(e) == IF e = 0 THEN r0 ELSE IF e = 1 THEN r1 ELSE IF e = 2 THEN r2
                   ELSE IF e = 3 THEN r3 ELSE IF e = 4 THEN r4 ELSE IF e = 5 THEN r5
                   ELSE IF e = 6 THEN r6 ELSE IF e = 7 THEN r7 ELSE IF e = 8 THEN r8 ELSE r9
           F == [e \in 0..9 |-> G(e)]
<1>1. \A e \in 0..9 : G(e) = IF e = 0 THEN One ELSE XTIME(F[e - 1])
  <2>1. r0 = One
    OBVIOUS
  <2>2. /\ r1 = XTIME(r0) /\ r2 = XTIME(r1) /\ r3 = XTIME(r2)
        /\ r4 = XTIME(r3) /\ r5 = XTIME(r4) /\ r6 = XTIME(r5)
        /\ r7 = XTIME(r6) /\ r8 = XTIME(r7) /\ r9 = XTIME(r8)
    OBVIOUS
  <2> HIDE DEF r0, r1, r2, r3, r4, r5, r6, r7, r8, r9
  <2>3. TAKE e \in 0..9
  <2>4. e \in {0, 1, 2, 3, 4, 5, 6, 7, 8, 9}
    BY <2>3
  <2>5. e # 0 => e - 1 \in 0..9 /\ F[e - 1] = G(e - 1)
    OBVIOUS
  <2>6. e # 0 => G(e) = XTIME(G(e - 1))
    BY <2>2, <2>4
  <2> QED BY <2>1, <2>5, <2>6
<1> HIDE DEF G
<1>2. F = [e \in 0..9 |-> IF e = 0 THEN One ELSE XTIME(F[e - 1])]
  BY <1>1
<1>3. \E R : R = [e \in 0..9 |-> IF e = 0 THEN One ELSE XTIME(R[e - 1])]
  BY <1>2
<1> QED BY <1>3 DEF RCON

LEMMA XtimeIsByte == ASSUME NEW b \in Byte PROVE XTIME(b) \in Byte
<1>1. \A bit \in b \ {7} : bit + 1 \in 0..7
  BY DEF Byte, Bits
<1>2. {bit + 1 : bit \in b \ {7}} \in Byte
  BY <1>1 DEF Byte, Bits
<1>3. {0, 1, 3, 4} \in Byte /\ Zero \in Byte
  BY DEF Byte, Bits, Zero
<1> QED BY <1>2, <1>3, XorIsByte DEF XTIME

LEMMA RconAreBytes == \A e \in 0..9 : RCON[e] \in Byte
<1>1. RCON[0] = One
  BY RconIs
<1>2. \A e \in 1..9 : RCON[e] = XTIME(RCON[e - 1])
  <2> TAKE e \in 1..9
  <2>1. e \in 0..9 /\ e # 0
    OBVIOUS
  <2> QED BY <2>1, RconIs
<1>3. One \in Byte
  BY DEF One, Byte, Bits
<1>4. /\ RCON[1] = XTIME(RCON[0]) /\ RCON[2] = XTIME(RCON[1]) /\ RCON[3] = XTIME(RCON[2])
      /\ RCON[4] = XTIME(RCON[3]) /\ RCON[5] = XTIME(RCON[4]) /\ RCON[6] = XTIME(RCON[5])
      /\ RCON[7] = XTIME(RCON[6]) /\ RCON[8] = XTIME(RCON[7]) /\ RCON[9] = XTIME(RCON[8])
  BY <1>2
<1>5. /\ RCON[0] \in Byte /\ RCON[1] \in Byte /\ RCON[2] \in Byte /\ RCON[3] \in Byte
      /\ RCON[4] \in Byte /\ RCON[5] \in Byte /\ RCON[6] \in Byte /\ RCON[7] \in Byte
      /\ RCON[8] \in Byte /\ RCON[9] \in Byte
  BY <1>1, <1>3, <1>4, XtimeIsByte
<1>6. \A e \in 0..9 : e \in {0, 1, 2, 3, 4, 5, 6, 7, 8, 9}
  OBVIOUS
<1> QED BY <1>5, <1>6

LEMMA NextKeyIsBlock ==
  ASSUME NEW key \in Block, NEW n \in 0..9 PROVE NextKey(key, n) \in Block
<1> DEFINE row(q) == q % 4
           sum(q) == XorAll(0..(q \div 4), [wd \in 0..(q \div 4) |-> key[4 * wd + row(q)]])
           first(q) == SubByte(key[12 + ((row(q) + 1) % 4)])
           const(q) == IF row(q) = 0 THEN RCON[n] ELSE Zero
<1>1. NextKey(key, n) = [q \in 0..15 |-> first(q) (+) (const(q) (+) sum(q))]
  BY DEF NextKey
<1>2. ASSUME NEW q \in 0..15 PROVE first(q) (+) (const(q) (+) sum(q)) \in Byte
  <2>1. first(q) \in Byte
    BY SubByteIsByte
  <2>2. const(q) \in Byte
    BY RconAreBytes DEF Zero, Byte
  <2>3. \A wd \in 0..(q \div 4) : key[4 * wd + row(q)] \in Byte
    <3> TAKE wd \in 0..(q \div 4)
    <3>1. 4 * wd + row(q) \in 0..15
      OBVIOUS
    <3> QED BY <3>1 DEF Block, Buffer, BlockLen
  <2>4. sum(q) \in Byte
    BY <2>3 DEF XorAll, Byte
  <2> QED BY <2>1, <2>2, <2>4, XorIsByte
<1> HIDE DEF first, const, sum
<1> QED BY <1>1, <1>2 DEF Block, Buffer, BlockLen

LEMMA OnceNextKey == \A k, n : Once(k, LAMBDA z : NextKey(z, n)) = NextKey(k, n)
BY DEF Once

\* The round keys of a key are blocks.
LEMMA RoundKeys ==
  ASSUME NEW key \in Block
  PROVE  \A n \in 0..10 : mbedtls_aes_setkey_enc(key)[n] \in Block
<1> DEFINE r0 == key               r1 == NextKey(r0, 0)  r2 == NextKey(r1, 1)
           r3 == NextKey(r2, 2)    r4 == NextKey(r3, 3)  r5 == NextKey(r4, 4)
           r6 == NextKey(r5, 5)    r7 == NextKey(r6, 6)  r8 == NextKey(r7, 7)
           r9 == NextKey(r8, 8)    r10 == NextKey(r9, 9)
           G(e) == IF e = 0 THEN r0 ELSE IF e = 1 THEN r1 ELSE IF e = 2 THEN r2
                   ELSE IF e = 3 THEN r3 ELSE IF e = 4 THEN r4 ELSE IF e = 5 THEN r5
                   ELSE IF e = 6 THEN r6 ELSE IF e = 7 THEN r7 ELSE IF e = 8 THEN r8
                   ELSE IF e = 9 THEN r9 ELSE r10
           F == [e \in 0..10 |-> G(e)]
           RK == CHOOSE R : R = [n \in 0..10 |->
                   IF n = 0 THEN key ELSE Once(R[n - 1], LAMBDA z : NextKey(z, n - 1))]
<1>1. \A n \in 0..10 : G(n) = IF n = 0 THEN key ELSE NextKey(F[n - 1], n - 1)
  <2>1. r0 = key
    OBVIOUS
  <2>2. /\ r1 = NextKey(r0, 0) /\ r2 = NextKey(r1, 1) /\ r3 = NextKey(r2, 2)
        /\ r4 = NextKey(r3, 3) /\ r5 = NextKey(r4, 4) /\ r6 = NextKey(r5, 5)
        /\ r7 = NextKey(r6, 6) /\ r8 = NextKey(r7, 7) /\ r9 = NextKey(r8, 8)
        /\ r10 = NextKey(r9, 9)
    OBVIOUS
  <2> HIDE DEF r0, r1, r2, r3, r4, r5, r6, r7, r8, r9, r10
  <2>3. TAKE n \in 0..10
  <2>4. n \in {0, 1, 2, 3, 4, 5, 6, 7, 8, 9, 10}
    BY <2>3
  <2>5. n # 0 => n - 1 \in 0..10 /\ F[n - 1] = G(n - 1)
    OBVIOUS
  <2>6. n # 0 => G(n) = NextKey(G(n - 1), n - 1)
    BY <2>2, <2>4
  <2> QED BY <2>1, <2>5, <2>6
<1> HIDE DEF G
<1>2. \E R : R = [n \in 0..10 |->
                    IF n = 0 THEN key ELSE Once(R[n - 1], LAMBDA z : NextKey(z, n - 1))]
  <2>1. F = [n \in 0..10 |-> IF n = 0 THEN key ELSE NextKey(F[n - 1], n - 1)]
    BY <1>1
  <2>2. F = [n \in 0..10 |->
               IF n = 0 THEN key ELSE Once(F[n - 1], LAMBDA z : NextKey(z, n - 1))]
    BY <2>1, OnceNextKey
  <2> QED BY <2>2
<1>3. RK = [n \in 0..10 |->
              IF n = 0 THEN key ELSE Once(RK[n - 1], LAMBDA z : NextKey(z, n - 1))]
  BY <1>2
<1>4. mbedtls_aes_setkey_enc(key) = [n \in 0..10 |-> RK[n]]
  BY DEF mbedtls_aes_setkey_enc
<1> HIDE DEF RK
<1>5. RK[0] = key /\ \A n \in 1..10 : RK[n] = NextKey(RK[n - 1], n - 1)
  <2>1. RK[0] = key
    BY <1>3
  <2>2. ASSUME NEW n \in 1..10 PROVE RK[n] = NextKey(RK[n - 1], n - 1)
    <3>1. n \in 0..10 /\ n # 0
      OBVIOUS
    <3>2. RK[n] = Once(RK[n - 1], LAMBDA z : NextKey(z, n - 1))
      BY <1>3, <3>1
    <3> QED BY <3>2, OnceNextKey
  <2> QED BY <2>1, <2>2
<1>6. \A n \in 1..10 : RK[n - 1] \in Block => RK[n] \in Block
  <2> TAKE n \in 1..10
  <2>1. n - 1 \in 0..9
    OBVIOUS
  <2> QED BY <1>5, <2>1, NextKeyIsBlock
<1>7. /\ RK[0] \in Block => RK[1] \in Block
      /\ RK[1] \in Block => RK[2] \in Block
      /\ RK[2] \in Block => RK[3] \in Block
      /\ RK[3] \in Block => RK[4] \in Block
      /\ RK[4] \in Block => RK[5] \in Block
      /\ RK[5] \in Block => RK[6] \in Block
      /\ RK[6] \in Block => RK[7] \in Block
      /\ RK[7] \in Block => RK[8] \in Block
      /\ RK[8] \in Block => RK[9] \in Block
      /\ RK[9] \in Block => RK[10] \in Block
  BY <1>6
<1>8. \A n \in 0..10 : n \in {0, 1, 2, 3, 4, 5, 6, 7, 8, 9, 10}
  OBVIOUS
<1> QED BY <1>4, <1>5, <1>7, <1>8

\* AES-128 is a block cipher: under a key of 16 bytes, every block becomes a
\* block. The last of its rounds alone decides that.
THEOREM AesIsBlockCipher ==
  ASSUME \A rk, x : E(rk, x) = ModesE(rk, x),
         \A key : Schedule(key) = ModesSchedule(key)
  PROVE  BlockCipher
<1> SUFFICES ASSUME NEW key \in Block, NEW x \in Block
             PROVE  E(Schedule(key), x) \in Block
  BY DEF BlockCipher
<1> DEFINE rk == mbedtls_aes_setkey_enc(key)
           z == AfterRounds(rk, x, 9)
           last == [q \in 0..15 |-> rk[10][q] (+) SubByte(z[From(q, q % 4)])]
<1>1. rk[10] \in Block
  BY RoundKeys
<1>2. E(Schedule(key), x) = mbedtls_aes_crypt_ecb(rk, x)
  BY DEF ModesE, ModesSchedule
<1>3. mbedtls_aes_crypt_ecb(rk, x) = last
  BY DEF mbedtls_aes_crypt_ecb, Once
<1> HIDE DEF rk, z
<1>4. ASSUME NEW q \in 0..15 PROVE rk[10][q] (+) SubByte(z[From(q, q % 4)]) \in Byte
  <2>1. rk[10][q] \in Byte
    BY <1>1 DEF Block, Buffer, BlockLen
  <2> QED BY <2>1, SubByteIsByte, XorIsByte
<1>5. last \in Block
  BY <1>4 DEF Block, Buffer, BlockLen
<1> QED BY <1>2, <1>3, <1>5
=============================================================================
