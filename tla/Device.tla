------------------------------- MODULE Device --------------------------------
(***************************************************************************)
(* What the modes of the device have in common: the state of one call of   *)
(* one mode. A mode uses the variables that its function has.              *)
(***************************************************************************)
EXTENDS Bytes

VARIABLES
  job,         \* the arguments: the mode, key k, nonce npub, ad, adlen, m, mlen
  pc,          \* the loop that runs, or "done"
  side,        \* the function, "enc" or "dec"
  i,           \* the loop's index, of a byte or of a block
  nc,          \* nonce_counter, or nonce_tmp in process_blocks of AES-POBC
  word,        \* the counter word, or the number of the mask in PMAC
  cnt0, cnt1,  \* the two counters of AES-GCM
  counter,     \* the counter block of AES-GCM-SIV
  keys,        \* what has been derived from the key
  y,           \* the state of GHASH
  mask, acc,   \* PMAC's mask and accumulator
  ta,          \* t_a, the sum that the last block takes in
  tk,          \* tweakey behind the key, as the message's blocks use it
  c, tag, iv,  \* what encryption has written to the output buffers
  recv,        \* the decryption's arguments
  p,           \* what decryption has written to its message buffer
  ret,         \* what the function returned
  asked,       \* history: the counter blocks the cipher was asked for
  used         \* history: the tweaks of the encryption

\* What of the data is next, at most a block.
Chunk == Min2(job.mlen - i, BlockLen)

\* One bit of a byte changes on the way to the decryption.
Flip(b, j) == [b EXCEPT ![j] = @ (+) One]
=============================================================================
