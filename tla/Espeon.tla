------------------------------- MODULE Espeon -------------------------------
(***************************************************************************)
(* IoT-benchmark/eevee-forkskinny/espeon.c: encryption, and decryption of  *)
(* what arrives, in the instances with a tweakey of 384 and of 256 bits.   *)
(* There is no counter of a message's blocks: a block's tweak is made of   *)
(* the ciphertext before it. The fork cipher is the one of Jolteon.        *)
(***************************************************************************)
EXTENDS Eevee, Sequences

CONSTANTS
  EspeonCounterSize,   \* how many values the counter has, 2^16
  EspeonCalls          \* the arguments: mode, ad, adlen, m, mlen, npub, and the
                       \* instance, 384 or 256

NonceSize(instance) == IF instance = 384 THEN 16 ELSE 13

ASSUME EspeonCounterAssumption == EspeonCounterSize \in 5..(256 * 256)
ASSUME EspeonCallsAssumption ==
  \A call \in EspeonCalls :
    /\ call.mode = "espeon" /\ call.instance \in {384, 256}
    /\ call.mlen \in Nat /\ call.m \in Buffer(call.mlen)
    /\ call.adlen \in Nat /\ call.ad \in Buffer(call.adlen)
    /\ call.npub \in Buffer(NonceSize(call.instance))

espeonVars == <<job, pc, side, i, ta, tk, c, tag, recv, p, ret, used>>

EspeonMaxLength == EspeonCounterSize * BlockLen

EspeonInit ==
  /\ job \in EspeonCalls
  /\ pc = "begin" /\ side = "enc" /\ i = 0
  /\ ta = Zeros(BlockLen) /\ tk = Zeros(0)
  /\ c = Zeros(0) /\ tag = Zeros(0)
  /\ recv = [c |-> job.m, tag |-> Zeros(0), ad |-> job.ad, npub |-> job.npub]
  /\ p = Zeros(0) /\ ret = "none"
  /\ used = << >>

(***************************************************************************)
(* Tweaks. With 384 bits a tweak has two blocks: associated data puts the  *)
(* counter in the first and the nonce in the second, the message does not. *)
(***************************************************************************)
Wide == job.instance = 384

\* The bytes behind the nonce, or at the end of the block of the counter.
Suffix(w) == [j \in 0..2 |-> CASE j = 0 -> NumByte((w \div 256) % 256)
                               [] j = 1 -> NumByte(w % 256)
                               [] j = 2 -> Zero]
EspeonAdTweak(w) == IF Wide THEN Put(Put(Zeros(BlockLen), 13, Suffix(w)), BlockLen, recv.npub)
                      ELSE Put(recv.npub, 13, Suffix(w))

\* Slip: the counter begins with zero.
AdCounterZero == i % EspeonCounterSize

AdCounter == (i + 4) % EspeonCounterSize

\* Slip: one tweak for complete and incomplete data.
EspeonAdEndSame(complete, no_m) == 0

\* (no_m << 2) + (complete_block) ? 0 : 0xc, as C reads it.
EspeonAdEnd(complete, no_m) == IF no_m \/ complete THEN 0 ELSE 12

\* The tweakey as the loop over the message finds it, whatever was done before.
FirstTweak ==
  IF Wide THEN Put(recv.npub, BlockLen, [Zeros(BlockLen) EXCEPT ![14] = NumByte(4)])
          ELSE Put(recv.npub, 13, [Zeros(3) EXCEPT ![2] = One])

\* The tweakey behind block b: the block and, if it has room, what was before
\* the block, each last byte making room for the mark.
Chained(cipher, b) ==
  LET before == IF b = 0 THEN recv.npub ELSE BlockAt(cipher, b - 1)
  IN  IF Wide THEN Put(Put(BlockAt(cipher, b), BlockLen, Slice(before, 0, BlockLen - 1)),
                       2 * BlockLen - 1, [j \in {0} |-> One])
      ELSE Put(Slice(cipher, b * BlockLen, BlockLen - 1), BlockLen - 1, [j \in {0} |-> One])

\* The mark of the last block.
LastTweak == [tk EXCEPT ![IF Wide THEN 2 * BlockLen - 1 ELSE BlockLen - 1] =
                IF Complete(job.mlen) THEN NumByte(2) ELSE NumByte(3)]

EspeonUse(kind, tweak) ==
  used' = IF side = "enc" THEN Append(used, [kind |-> kind, tweak |-> tweak]) ELSE used

(***************************************************************************)
(* Both functions                                                          *)
(***************************************************************************)
\* Of the lengths only that of associated data is limited.
EspeonRefuse ==
  /\ pc = "begin"
  /\ job.adlen > EspeonMaxLength \/ (job.mlen = 0 /\ job.adlen = 0)
  /\ pc' = "done" /\ ret' = "refused"
  /\ UNCHANGED <<job, side, i, ta, tk, c, tag, recv, p, used>>

EspeonBegin ==
  /\ pc = "begin"
  /\ job.adlen <= EspeonMaxLength
  /\ job.mlen > 0 \/ job.adlen > 0
  /\ pc' = IF job.adlen > 0 THEN "ad" ELSE "message"
  /\ i' = 0 /\ ta' = Zeros(BlockLen) /\ tk' = FirstTweak
  /\ UNCHANGED <<job, side, c, tag, recv, p, ret, used>>

EspeonAdBlock ==
  /\ pc = "ad" /\ i < Before(job.adlen)
  /\ LET tweak == EspeonAdTweak(AdCounter)
     IN  ta' = XorBlock(ta, Left(tweak, BlockAt(recv.ad, i))) /\ EspeonUse("ad", tweak)
  /\ i' = i + 1
  /\ UNCHANGED <<job, pc, side, tk, c, tag, recv, p, ret>>

EspeonAdLast ==
  /\ pc = "ad" /\ i = Before(job.adlen)
  /\ LET tweak == EspeonAdTweak(EspeonAdEnd(Complete(job.adlen), job.mlen = 0))
     IN  ta' = XorBlock(ta, Left(tweak, Padded(recv.ad, job.adlen))) /\ EspeonUse("ad", tweak)
  /\ pc' = IF job.mlen = 0 THEN "empty" ELSE "message"
  /\ i' = 0
  /\ UNCHANGED <<job, side, tk, c, tag, recv, p, ret>>

(***************************************************************************)
(* Encryption                                                              *)
(***************************************************************************)
EspeonEncEmpty ==
  /\ side = "enc" /\ pc = "empty" /\ pc' = "transit"
  /\ tag' = ta
  /\ UNCHANGED <<job, side, i, ta, tk, c, recv, p, ret, used>>

\* The first block is enciphered with the sum in it, the others as they are.
EspeonEncBlock ==
  /\ side = "enc" /\ pc = "message" /\ i < Before(job.mlen)
  /\ ta' = XorBlock(ta, BlockAt(recv.c, i))
  /\ c' = Put(c, i * BlockLen, Left(tk, IF i = 0 THEN ta' ELSE BlockAt(recv.c, i)))
  /\ tk' = Chained(c', i)
  /\ EspeonUse("block", tk)
  /\ i' = i + 1
  /\ UNCHANGED <<job, pc, side, tag, recv, p, ret>>

\* The last block takes the sum in; its left output is the tag.
EspeonEncLast ==
  /\ side = "enc" /\ pc = "message" /\ i = Before(job.mlen)
  /\ LET m_in == XorBlock(Padded(recv.c, job.mlen), ta)
     IN  /\ tag' = Left(LastTweak, m_in)
         /\ c' = Put(c, i * BlockLen, XorBlock(Slice(recv.c, i * BlockLen, LastLen),
                                               Right(LastTweak, m_in)))
  /\ EspeonUse("last", LastTweak)
  /\ tk' = LastTweak
  /\ pc' = "transit"
  /\ UNCHANGED <<job, side, i, ta, recv, p, ret>>

(***************************************************************************)
(* Between the calls: one bit of one argument may have changed.            *)
(***************************************************************************)
EspeonTransit ==
  /\ pc = "transit" /\ pc' = "begin" /\ side' = "dec"
  /\ \/ recv' = Sent
     \/ \E j \in DOMAIN c        : recv' = [Sent EXCEPT !.c    = Flip(@, j)]
     \/ \E j \in DOMAIN tag      : recv' = [Sent EXCEPT !.tag  = Flip(@, j)]
     \/ \E j \in DOMAIN job.ad   : recv' = [Sent EXCEPT !.ad   = Flip(@, j)]
     \/ \E j \in DOMAIN job.npub : recv' = [Sent EXCEPT !.npub = Flip(@, j)]
  /\ UNCHANGED <<job, i, ta, tk, c, tag, p, ret, used>>

(***************************************************************************)
(* Decryption                                                              *)
(***************************************************************************)
EspeonDecEmpty ==
  /\ side = "dec" /\ pc = "empty" /\ pc' = "done"
  /\ ret' = IF recv.tag = ta THEN "ok" ELSE "bad"
  /\ UNCHANGED <<job, side, i, ta, tk, c, tag, recv, p, used>>

\* Slip: the sum is taken out of every block.
DecBlockAll ==
  /\ side = "dec" /\ pc = "message" /\ i < Before(job.mlen)
  /\ p' = Put(p, i * BlockLen, XorBlock(Undo(tk, BlockAt(recv.c, i)), ta))
  /\ ta' = XorBlock(ta, BlockAt(p', i))
  /\ tk' = Chained(recv.c, i)
  /\ i' = i + 1
  /\ UNCHANGED <<job, pc, side, c, tag, recv, ret, used>>

EspeonDecBlock ==
  /\ side = "dec" /\ pc = "message" /\ i < Before(job.mlen)
  /\ LET output == Undo(tk, BlockAt(recv.c, i))
     IN  p' = Put(p, i * BlockLen, IF i = 0 THEN XorBlock(output, ta) ELSE output)
  /\ ta' = XorBlock(ta, BlockAt(p', i))
  /\ tk' = Chained(recv.c, i)
  /\ i' = i + 1
  /\ UNCHANGED <<job, pc, side, c, tag, recv, ret, used>>

\* Slip: the whole block is written.
DecLastWhole ==
  /\ side = "dec" /\ pc = "message" /\ i = Before(job.mlen)
  /\ LET left == Undo(LastTweak, recv.tag)
         out  == XorBlock(left, ta)
     IN  /\ p' = Put(p, i * BlockLen, out)
         /\ ret' = IF Good(out, Right(LastTweak, left)) THEN "ok" ELSE "bad"
  /\ tk' = LastTweak
  /\ pc' = "done"
  /\ UNCHANGED <<job, side, i, ta, c, tag, recv, used>>

\* The other output, c_out, belongs to the block that gives the tag.
EspeonDecLast ==
  /\ side = "dec" /\ pc = "message" /\ i = Before(job.mlen)
  /\ LET left == Undo(LastTweak, recv.tag)
         out  == XorBlock(left, ta)
     IN  /\ p' = Put(p, i * BlockLen, Slice(out, 0, LastLen))
         /\ ret' = IF Good(out, Right(LastTweak, left)) THEN "ok" ELSE "bad"
  /\ tk' = LastTweak
  /\ pc' = "done"
  /\ UNCHANGED <<job, side, i, ta, c, tag, recv, used>>

EspeonNext ==
  \/ EspeonRefuse \/ EspeonBegin \/ EspeonAdBlock \/ EspeonAdLast
  \/ EspeonEncEmpty \/ EspeonEncBlock \/ EspeonEncLast \/ EspeonTransit
  \/ EspeonDecEmpty \/ EspeonDecBlock \/ EspeonDecLast

EspeonSpec == EspeonInit /\ [][EspeonNext]_espeonVars

(***************************************************************************)
(* Properties                                                              *)
(***************************************************************************)
\* Stages, indices, and how much of the buffers has been written.
EspeonTypeOK ==
  /\ job \in EspeonCalls
  /\ pc \in {"begin", "ad", "message", "empty", "transit", "done"}
  /\ side \in {"enc", "dec"}
  /\ ret \in {"none", "refused", "ok", "bad"}
  /\ i \in Nat
  /\ DOMAIN tk \in {0..-1, 0..((IF Wide THEN 32 ELSE 16) - 1)}
  /\ DOMAIN c = 0..((CASE ret = "refused" -> 0
                       [] side = "enc" /\ pc \in {"begin", "ad", "empty"} -> 0
                       [] side = "enc" /\ pc = "message" -> i * BlockLen
                       [] OTHER -> job.mlen) - 1)
  /\ DOMAIN p = 0..((CASE side = "enc" \/ pc \in {"begin", "ad", "empty"} -> 0
                       [] side = "dec" /\ pc = "message" -> i * BlockLen
                       [] OTHER -> job.mlen) - 1)

\* One changed bit of ciphertext, tag or nonce is noticed, although a tweak
\* leaves out the last byte of a block. So is one of associated data, unless
\* there is a block before the last: what is enciphered first goes on being the
\* sum on both sides, and only the first block that comes out is another one.
EspeonNoticesChange ==
  pc = "done" /\ side = "dec" /\ recv # Sent =>
    \/ ret = "bad"
    \/ /\ recv = [Sent EXCEPT !.ad = recv.ad] /\ Before(job.mlen) > 0
       /\ BlockAt(p, 0) # BlockAt(job.m, 0)
       /\ \A j \in BlockLen..(job.mlen - 1) : p[j] = job.m[j]

\* The data for which no counter takes the value of the last tweak: within one
\* turn of the counter, and in front of a message no block with the counter 12
\* before an incomplete one.
NoCollision ==
  job.adlen > 0 =>
    /\ Before(job.adlen) + 4 <= EspeonCounterSize
    /\ job.mlen > 0 /\ ~Complete(job.adlen) => Before(job.adlen) <= 8

\* A wide tweak ends with the nonce or with one of the marks 0 to 3.
NonceIsNoMark == Wide => Value(job.npub[BlockLen - 1]) > 3

\* For such data a tweak of associated data and the tweak of the last block are
\* used once; the others depend on ciphertext and may recur.
EspeonTweaksDistinct ==
  NoCollision /\ NonceIsNoMark =>
    \A a, b \in 1..Len(used) :
      a # b /\ used[a].kind # "block" => used[a].tweak # used[b].tweak

\* What associated data contributes to the sum.
EspeonAdSum(data, len, no_m) ==
  LET out == [b \in 0..Before(len) |->
                IF b < Before(len)
                THEN Left(EspeonAdTweak((b + 4) % EspeonCounterSize), BlockAt(data, b))
                ELSE Left(EspeonAdTweak(EspeonAdEnd(Complete(len), no_m)), Padded(data, len))]
  IN  [j \in 0..(BlockLen - 1) |-> XorAll(DOMAIN out, [b \in DOMAIN out |-> out[b][j]])]

\* Before a message, associated data is told from the same data with its
\* padding written out.
EspeonPaddingTold ==
  (/\ pc = "message" /\ side = "enc" /\ i = 0 /\ job.adlen > 0
   /\ ~Complete(job.adlen)) =>
     LET len == (Before(job.adlen) + 1) * BlockLen
         out == Put(job.ad, Before(job.adlen) * BlockLen, Padded(job.ad, job.adlen))
     IN  /\ ta = EspeonAdSum(job.ad, job.adlen, FALSE)
         /\ ta # EspeonAdSum(out, len, FALSE)
=============================================================================
