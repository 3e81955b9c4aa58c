------------------------------- MODULE Eevee --------------------------------
(***************************************************************************)
(* What jolteon_core.c and espeon.c have in common: how data is cut into   *)
(* blocks of 16 bytes, a fork cipher, which has two outputs, and the check *)
(* of the last block.                                                      *)
(***************************************************************************)
EXTENDS Device

CONSTANTS
  Left(_, _), Right(_, _),   \* the fork cipher's outputs: the tweak, the block
  Undo(_, _)                 \* the block whose left output is given

\* The blocks before the last one, which may be complete or not.
Before(len)   == IF len % BlockLen = 0 THEN (len \div BlockLen) - 1 ELSE len \div BlockLen
Complete(len) == len % BlockLen = 0

BlockAt(data, b) == Slice(data, b * BlockLen, BlockLen)

\* The last block, with 0x80 and zeros behind the data when it is not complete.
Padded(data, len) ==
  [j \in 0..(BlockLen - 1) |->
     LET at == Before(len) * BlockLen + j
     IN  CASE at < len -> data[at] [] at = len -> Pad [] at > len -> Zero]

LastLen == job.mlen - Before(job.mlen) * BlockLen

\* What is sent.
Sent == [c |-> c, tag |-> tag, ad |-> job.ad, npub |-> job.npub]

\* Slip: only the padding is compared.
GoodPadding(out, c_out) ==
  \A j \in LastLen..(BlockLen - 1) : out[j] = IF j = LastLen THEN Pad ELSE Zero

\* The padding is as it was made, and the last bytes encrypt to what arrived.
Good(out, c_out) ==
  /\ \A j \in LastLen..(BlockLen - 1) : out[j] = IF j = LastLen THEN Pad ELSE Zero
  /\ \A j \in 0..(LastLen - 1) : out[j] (+) c_out[j] = recv.c[i * BlockLen + j]

\* Decryption of what encryption returned succeeds and gives the message back,
\* at every length that is not refused. In Jolteon both sides add up the same
\* sum, and each makes the other's padding; in Espeon they also chain the same
\* tweaks, and take the sum out of the first and the last block only.
RoundTrip == pc = "done" /\ side = "dec" /\ recv = Sent => ret = "ok" /\ p = job.m
=============================================================================
