------------------------------ MODULE Jolteon -------------------------------
(***************************************************************************)
(* IoT-benchmark/eevee-forkskinny/jolteon_core.c in the instance with      *)
(* blocks of 16 bytes: encryption, and decryption of what arrives. A fork  *)
(* cipher has two outputs, left and right; a tweak is the nonce and 16     *)
(* bits that the code puts behind it.                                      *)
(***************************************************************************)
EXTENDS Eevee, Sequences

CONSTANTS
  JolteonCounterSize,   \* how many values a block counter has, 2^15
  JolteonCalls          \* the arguments: mode, ad, adlen, m, mlen, npub

JolteonNonceSize == 14

ASSUME JolteonCounterAssumption == JolteonCounterSize \in Nat /\ JolteonCounterSize > 4
ASSUME JolteonCallsAssumption ==
  \A call \in JolteonCalls :
    /\ call.mode = "jolteon"
    /\ call.mlen \in Nat /\ call.m \in Buffer(call.mlen)
    /\ call.adlen \in Nat /\ call.ad \in Buffer(call.adlen)
    /\ call.npub \in Buffer(JolteonNonceSize)

jolteonVars == <<job, pc, side, i, ta, c, tag, recv, p, ret, used>>

JolteonMaxLength == JolteonCounterSize * BlockLen

JolteonInit ==
  /\ job \in JolteonCalls
  /\ pc = "begin" /\ side = "enc" /\ i = 0
  /\ ta = Zeros(BlockLen)
  /\ c = Zeros(0) /\ tag = Zeros(0)
  /\ recv = [c |-> job.m, tag |-> Zeros(0), ad |-> job.ad, npub |-> job.npub]
  /\ p = Zeros(0) /\ ret = "none"
  /\ used = << >>

\* The top bit of the 16 tells messages from associated data.
JolteonTweak(msg, w) == [npub |-> recv.npub, msg |-> msg, w |-> w]

\* Slip: the counter of the message's blocks begins with zero.
MessageTweakZero == JolteonTweak(TRUE, i % JolteonCounterSize)

JolteonAdTweak       == JolteonTweak(FALSE, (i + 4) % JolteonCounterSize)
MessageTweak  == JolteonTweak(TRUE, (i + 2) % JolteonCounterSize)
MessageEnd    == JolteonTweak(TRUE, IF Complete(job.mlen) THEN 0 ELSE 1)

\* Slip: one tweak for complete and incomplete data.
JolteonAdEndSame(complete, no_m) == 0

\* no_m + (complete_block) ? 0 : 2, as C reads it.
JolteonAdEnd(complete, no_m) == IF no_m \/ complete THEN 0 ELSE 2

JolteonUse(tweak) == used' = IF side = "enc" THEN Append(used, tweak) ELSE used

JolteonRefuse ==
  /\ pc = "begin"
  /\ job.mlen > JolteonMaxLength \/ job.adlen > JolteonMaxLength \/ (job.mlen = 0 /\ job.adlen = 0)
  /\ pc' = "done" /\ ret' = "refused"
  /\ UNCHANGED <<job, side, i, ta, c, tag, recv, p, used>>

\* After the associated data: an empty message has a tag only.
JolteonBegin ==
  /\ pc = "begin"
  /\ job.mlen <= JolteonMaxLength /\ job.adlen <= JolteonMaxLength
  /\ job.mlen > 0 \/ job.adlen > 0
  /\ pc' = IF job.adlen > 0 THEN "ad" ELSE "message"
  /\ i' = 0 /\ ta' = Zeros(BlockLen)
  /\ UNCHANGED <<job, side, c, tag, recv, p, ret, used>>

JolteonAdBlock ==
  /\ pc = "ad" /\ i < Before(job.adlen)
  /\ ta' = XorBlock(ta, Left(JolteonAdTweak, BlockAt(recv.ad, i)))
  /\ JolteonUse(JolteonAdTweak)
  /\ i' = i + 1
  /\ UNCHANGED <<job, pc, side, c, tag, recv, p, ret>>

JolteonAdLast ==
  /\ pc = "ad" /\ i = Before(job.adlen)
  /\ LET tweak == JolteonTweak(FALSE, JolteonAdEnd(Complete(job.adlen), job.mlen = 0))
     IN  ta' = XorBlock(ta, Left(tweak, Padded(recv.ad, job.adlen))) /\ JolteonUse(tweak)
  /\ pc' = IF job.mlen = 0 THEN "empty" ELSE "message"
  /\ i' = 0
  /\ UNCHANGED <<job, side, c, tag, recv, p, ret>>

(***************************************************************************)
(* Encryption                                                              *)
(***************************************************************************)
JolteonEncEmpty ==
  /\ side = "enc" /\ pc = "empty" /\ pc' = "transit"
  /\ tag' = ta
  /\ UNCHANGED <<job, side, i, ta, c, recv, p, ret, used>>

JolteonEncBlock ==
  /\ side = "enc" /\ pc = "message" /\ i < Before(job.mlen)
  /\ c' = Put(c, i * BlockLen, Left(MessageTweak, BlockAt(recv.c, i)))
  /\ ta' = XorBlock(XorBlock(ta, BlockAt(recv.c, i)), BlockAt(c', i))
  /\ JolteonUse(MessageTweak)
  /\ i' = i + 1
  /\ UNCHANGED <<job, pc, side, tag, recv, p, ret>>

\* The last block takes the sum in; its left output is the tag.
JolteonEncLast ==
  /\ side = "enc" /\ pc = "message" /\ i = Before(job.mlen)
  /\ LET last_m == XorBlock(Padded(recv.c, job.mlen), ta)
     IN  /\ tag' = Left(MessageEnd, last_m)
         /\ c' = Put(c, i * BlockLen, XorBlock(Slice(recv.c, i * BlockLen, LastLen),
                                               Right(MessageEnd, last_m)))
  /\ JolteonUse(MessageEnd)
  /\ pc' = "transit"
  /\ UNCHANGED <<job, side, i, ta, recv, p, ret>>

(***************************************************************************)
(* Between the calls                                                       *)
(***************************************************************************)
\* One bit of one argument may have changed.
JolteonTransit ==
  /\ pc = "transit" /\ pc' = "begin" /\ side' = "dec"
  /\ recv' \in      {Sent}
               \cup {[Sent EXCEPT !.c    = Flip(@, j)] : j \in DOMAIN c}
               \cup {[Sent EXCEPT !.tag  = Flip(@, j)] : j \in DOMAIN tag}
               \cup {[Sent EXCEPT !.ad   = Flip(@, j)] : j \in DOMAIN job.ad}
               \cup {[Sent EXCEPT !.npub = Flip(@, j)] : j \in DOMAIN job.npub}
  /\ UNCHANGED <<job, i, ta, c, tag, p, ret, used>>

(***************************************************************************)
(* Decryption                                                              *)
(***************************************************************************)
JolteonDecEmpty ==
  /\ side = "dec" /\ pc = "empty" /\ pc' = "done"
  /\ ret' = IF recv.tag = ta THEN "ok" ELSE "bad"
  /\ UNCHANGED <<job, side, i, ta, c, tag, recv, p, used>>

\* Slip: the sum takes in the message only.
DecBlockMessage ==
  /\ side = "dec" /\ pc = "message" /\ i < Before(job.mlen)
  /\ p' = Put(p, i * BlockLen, Undo(MessageTweak, BlockAt(recv.c, i)))
  /\ ta' = XorBlock(ta, BlockAt(p', i))
  /\ i' = i + 1
  /\ UNCHANGED <<job, pc, side, c, tag, recv, ret, used>>

JolteonDecBlock ==
  /\ side = "dec" /\ pc = "message" /\ i < Before(job.mlen)
  /\ p' = Put(p, i * BlockLen, Undo(MessageTweak, BlockAt(recv.c, i)))
  /\ ta' = XorBlock(XorBlock(ta, BlockAt(recv.c, i)), BlockAt(p', i))
  /\ i' = i + 1
  /\ UNCHANGED <<job, pc, side, c, tag, recv, ret, used>>

\* The right output that belongs to a left one.
Other(tweak, left) == Right(tweak, Undo(tweak, left))

\* Slip: one byte too many is written.
DecLastLong ==
  /\ side = "dec" /\ pc = "message" /\ i = Before(job.mlen)
  /\ LET out == XorBlock(Undo(MessageEnd, recv.tag), ta)
     IN  /\ p' = Put(p, i * BlockLen, Slice(out, 0, Min2(LastLen + 1, BlockLen)))
         /\ ret' = IF Good(out, Other(MessageEnd, recv.tag)) THEN "ok" ELSE "bad"
  /\ pc' = "done"
  /\ UNCHANGED <<job, side, i, ta, c, tag, recv, used>>

JolteonDecLast ==
  /\ side = "dec" /\ pc = "message" /\ i = Before(job.mlen)
  /\ LET out == XorBlock(Undo(MessageEnd, recv.tag), ta)
     IN  /\ p' = Put(p, i * BlockLen, Slice(out, 0, LastLen))
         /\ ret' = IF Good(out, Other(MessageEnd, recv.tag)) THEN "ok" ELSE "bad"
  /\ pc' = "done"
  /\ UNCHANGED <<job, side, i, ta, c, tag, recv, used>>

JolteonNext ==
  \/ JolteonRefuse \/ JolteonBegin \/ JolteonAdBlock \/ JolteonAdLast
  \/ JolteonEncEmpty \/ JolteonEncBlock \/ JolteonEncLast \/ JolteonTransit
  \/ JolteonDecEmpty \/ JolteonDecBlock \/ JolteonDecLast

JolteonSpec == JolteonInit /\ [][JolteonNext]_jolteonVars

(***************************************************************************)
(* Properties                                                              *)
(***************************************************************************)
\* Stages, indices, and how much of the buffers has been written.
JolteonTypeOK ==
  /\ job \in JolteonCalls
  /\ pc \in {"begin", "ad", "message", "empty", "transit", "done"}
  /\ side \in {"enc", "dec"}
  /\ ret \in {"none", "refused", "ok", "bad"}
  /\ i \in Nat
  /\ DOMAIN c = 0..((CASE ret = "refused" -> 0
                       [] side = "enc" /\ pc \in {"begin", "ad", "empty"} -> 0
                       [] side = "enc" /\ pc = "message" -> i * BlockLen
                       [] OTHER -> job.mlen) - 1)
  /\ DOMAIN p = 0..((CASE side = "enc" \/ pc \in {"begin", "ad", "empty"} -> 0
                       [] side = "dec" /\ pc = "message" -> i * BlockLen
                       [] OTHER -> job.mlen) - 1)

\* One changed bit of ciphertext, tag, associated data or nonce is noticed.
JolteonNoticesChange == pc = "done" /\ side = "dec" /\ recv # Sent => ret = "bad"

\* The lengths at which no counter takes a value that stands for a last block:
\* a message shorter than JolteonMaxLength, and associated data three blocks shorter.
NoWrap ==
  /\ job.mlen < JolteonMaxLength
  /\ job.adlen > 0 => Before(job.adlen) + 4 <= JolteonCounterSize

\* At those lengths no tweak is used twice in one encryption.
JolteonTweaksDistinct ==
  NoWrap => \A a, b \in 1..Len(used) : a # b => used[a] # used[b]

\* What associated data contributes to the sum.
JolteonAdSum(data, len, no_m) ==
  LET out == [b \in 0..Before(len) |->
                IF b < Before(len)
                THEN Left(JolteonTweak(FALSE, (b + 4) % JolteonCounterSize), BlockAt(data, b))
                ELSE Left(JolteonTweak(FALSE, JolteonAdEnd(Complete(len), no_m)), Padded(data, len))]
  IN  [j \in 0..(BlockLen - 1) |-> XorAll(DOMAIN out, [b \in DOMAIN out |-> out[b][j]])]

\* Before a message, associated data is told from the same data with its
\* padding written out: the last tweak makes up for the padding's ambiguity.
JolteonPaddingTold ==
  (/\ pc = "message" /\ side = "enc" /\ i = 0 /\ job.adlen > 0
   /\ ~Complete(job.adlen)) =>
     LET len == (Before(job.adlen) + 1) * BlockLen
         out == Put(job.ad, Before(job.adlen) * BlockLen, Padded(job.ad, job.adlen))
     IN  /\ ta = JolteonAdSum(job.ad, job.adlen, FALSE)
         /\ ta # JolteonAdSum(out, len, FALSE)
=============================================================================
