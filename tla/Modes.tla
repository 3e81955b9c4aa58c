-------------------------------- MODULE Modes --------------------------------
(***************************************************************************)
(* The modes of the device. A behaviour is one call of one mode, with any  *)
(* block cipher and any fork cipher.                                       *)
(***************************************************************************)
EXTENDS Pobc, PobcSiv, CtrMac, Gcm, GcmSiv, Jolteon, Espeon

\* What the variables hold in the modes that do not have them.
none == << >>

\* The variables that a mode does not have.
notOfPobc == <<side, word, cnt0, cnt1, counter, keys, y, mask, acc, ta, tk, iv, recv, p, ret, used>>
notOfSiv == <<side, word, cnt0, cnt1, counter, keys, y, mask, acc, ta, tk, tag, asked, used>>
notOfMac == <<nc, cnt0, cnt1, counter, keys, y, ta, tk, iv, asked, used>>
notOfGcm == <<side, nc, word, counter, mask, acc, ta, tk, iv, recv, p, ret, used>>
notOfGcmSiv == <<side, nc, word, cnt0, cnt1, mask, acc, ta, tk, iv, recv, p, ret, asked, used>>
notOfJolteon == <<nc, word, cnt0, cnt1, counter, keys, y, mask, acc, tk, iv, asked>>
notOfEspeon == <<nc, word, cnt0, cnt1, counter, keys, y, mask, acc, iv, asked>>

allVars == <<job, pc, side, i, nc, word, cnt0, cnt1, counter, keys, y, mask, acc,
             ta, tk, c, tag, iv, recv, p, ret, asked, used>>

Pobc    == job.mode = "pobc"
Siv     == job.mode = "pobc_siv"
CtrMac  == job.mode \in {"pmac", "htmac"}
Gcm     == job.mode = "gcm"
GcmSiv  == job.mode = "gcm_siv"
Jolteon == job.mode = "jolteon"
Espeon  == job.mode = "espeon"

Init ==
  \/ /\ PobcInit
     /\ side = none /\ word = none /\ cnt0 = none /\ cnt1 = none
     /\ counter = none /\ keys = none /\ y = none /\ mask = none /\ acc = none
     /\ ta = none /\ tk = none /\ iv = none /\ recv = none /\ p = none
     /\ ret = none /\ used = none
  \/ /\ SivInit
     /\ side = none /\ word = none /\ cnt0 = none /\ cnt1 = none
     /\ counter = none /\ keys = none /\ y = none /\ mask = none /\ acc = none
     /\ ta = none /\ tk = none /\ tag = none /\ asked = none /\ used = none
  \/ /\ MacInit
     /\ nc = none /\ cnt0 = none /\ cnt1 = none /\ counter = none
     /\ keys = none /\ y = none /\ ta = none /\ tk = none /\ iv = none
     /\ asked = none /\ used = none
  \/ /\ GcmInit
     /\ side = none /\ nc = none /\ word = none /\ counter = none
     /\ mask = none /\ acc = none /\ ta = none /\ tk = none /\ iv = none
     /\ recv = none /\ p = none /\ ret = none /\ used = none
  \/ /\ GcmSivInit
     /\ side = none /\ nc = none /\ word = none /\ cnt0 = none /\ cnt1 = none
     /\ mask = none /\ acc = none /\ ta = none /\ tk = none /\ iv = none
     /\ recv = none /\ p = none /\ ret = none /\ asked = none /\ used = none
  \/ /\ JolteonInit
     /\ nc = none /\ word = none /\ cnt0 = none /\ cnt1 = none
     /\ counter = none /\ keys = none /\ y = none /\ mask = none /\ acc = none
     /\ tk = none /\ iv = none /\ asked = none
  \/ /\ EspeonInit
     /\ nc = none /\ word = none /\ cnt0 = none /\ cnt1 = none
     /\ counter = none /\ keys = none /\ y = none /\ mask = none /\ acc = none
     /\ iv = none /\ asked = none

Next ==
  \/ Pobc    /\ PobcNext    /\ UNCHANGED notOfPobc
  \/ Siv     /\ SivNext     /\ UNCHANGED notOfSiv
  \/ CtrMac  /\ MacNext     /\ UNCHANGED notOfMac
  \/ Gcm     /\ GcmNext     /\ UNCHANGED notOfGcm
  \/ GcmSiv  /\ GcmSivNext  /\ UNCHANGED notOfGcmSiv
  \/ Jolteon /\ JolteonNext /\ UNCHANGED notOfJolteon
  \/ Espeon  /\ EspeonNext  /\ UNCHANGED notOfEspeon

Spec == Init /\ [][Next]_allVars

(***************************************************************************)
(* Properties                                                              *)
(***************************************************************************)
\* The type invariant of the mode that runs.
TypesOK ==
  /\ Pobc    => PobcTypeOK
  /\ Siv     => SivTypeOK
  /\ CtrMac  => MacTypeOK
  /\ Gcm     => GcmTypeOK
  /\ GcmSiv  => GcmSivTypeOK
  /\ Jolteon => JolteonTypeOK
  /\ Espeon  => EspeonTypeOK

\* aes_pobc_encrypt returns the counter mode of the message, and the sum of
\* mask, associated data and ciphertext; see Pobc.
EncryptsAsSpecified == Pobc => PobcEncryptsAsSpecified

\* No call of AES-POBC or AES-GCM asks the cipher twice for one block, up to
\* the lengths at which the ranges of its counters meet; see Pobc and Gcm.
DistinctInputs == (Pobc => PobcDistinctInputs) /\ (Gcm => GcmDistinctInputs)

\* The two counters of aes_gcm_128_encrypt are one counter mode; see Gcm.
PairsAreCounterMode == Gcm => GcmPairsAreCounterMode

\* Decryption inverts encryption, in every mode of which the device has a
\* decryption; see PobcSiv, CtrMac and Eevee.
RoundTrips ==
  /\ Siv    => SivRoundTrip
  /\ CtrMac => MacRoundTrip
  /\ Jolteon \/ Espeon => RoundTrip

\* aes_pobc_siv_decrypt wipes a message it rejects; see PobcSiv.
CleanRejection == Siv => SivCleanRejection

\* A changed bit is noticed, as far as the mode promises; see there.
ChangesNoticed ==
  /\ Siv     => SivNoticesChange
  /\ CtrMac  => MacNoticesChange
  /\ Jolteon => JolteonNoticesChange
  /\ Espeon  => EspeonNoticesChange

\* No encryption of Jolteon uses a tweak twice, below the limits of the
\* counters; see Jolteon.
TweaksDistinct == Jolteon => JolteonTweaksDistinct

\* No encryption of Espeon uses a tweak twice that is not made of ciphertext,
\* below the limits of the counter; see Espeon.
EspeonTweaksApart == Espeon => EspeonTweaksDistinct

\* Associated data is told from its padding written out; see Jolteon, Espeon.
PaddingsTold == (Jolteon => JolteonPaddingTold) /\ (Espeon => EspeonPaddingTold)
=============================================================================
