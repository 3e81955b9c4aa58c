----------------------------- MODULE MpcCipher ------------------------------
(***************************************************************************)
(* Aes128 of MPC/code/aes_gf_long.py at work: aesMain round by round, with *)
(* the keys that expandAESKey makes, then invAesMain of the result; and    *)
(* subBytes of a single cell, then invSubBytes.                            *)
(***************************************************************************)
EXTENDS MpcAes

CONSTANT Inputs     \* [kind, key, cells], the kind "block" or "cell"

VARIABLES
  job,       \* the bytes that are embedded
  pc,        \* what works on them: encrypt, decrypt, done
  round,     \* the rounds that are done, or are still to be undone
  keys,      \* expandedKey, as far as it has been used
  state      \* the cells

vars == <<job, pc, round, keys, state>>

SecretArrayEmbedd(bytes) == [j \in DOMAIN bytes |-> ApplyEmbedding(bytes[j])]

Init ==
  /\ job \in Inputs
  /\ pc = "encrypt" /\ round = 0
  /\ keys = [n \in {0} |-> SecretArrayEmbedd(job.key)]
  /\ LET cells == SecretArrayEmbedd(job.cells)
     IN  state = IF job.kind = "block" THEN addRoundKey(cells, keys[0]) ELSE cells

\* The next round key is that of a round.
Expand ==
  keys' = Once(NextRoundKey(keys[round], round + 1), LAMBDA key :
            [n \in 0..(round + 1) |-> IF n <= round THEN keys[n] ELSE key])

FullRound ==
  /\ job.kind = "block" /\ pc = "encrypt" /\ round < 9
  /\ Expand
  /\ state' = aesRound(state, keys'[round + 1])
  /\ round' = round + 1
  /\ UNCHANGED <<job, pc>>

LastRound ==
  /\ job.kind = "block" /\ pc = "encrypt" /\ round = 9
  /\ Expand
  /\ state' = Once(Once(subBytes(state), shiftRows), LAMBDA z : addRoundKey(z, keys'[10]))
  /\ round' = 10
  /\ UNCHANGED <<job, pc>>

InvFirst ==
  /\ job.kind = "block" /\ pc = "encrypt" /\ round = 10
  /\ state' = Once(Once(addRoundKey(state, keys[10]), invShiftRows), invSubBytes)
  /\ pc' = "decrypt" /\ round' = 9
  /\ UNCHANGED <<job, keys>>

InvRound ==
  /\ job.kind = "block" /\ pc = "decrypt" /\ round > 0
  /\ state' = invAesRound(state, keys[round])
  /\ round' = round - 1
  /\ UNCHANGED <<job, pc, keys>>

InvLast ==
  /\ job.kind = "block" /\ pc = "decrypt" /\ round = 0
  /\ state' = addRoundKey(state, keys[0])
  /\ pc' = "done"
  /\ UNCHANGED <<job, round, keys>>

Cell ==
  /\ job.kind = "cell" /\ pc = "encrypt" /\ round = 0
  /\ state' = subBytes(state)
  /\ round' = 1
  /\ UNCHANGED <<job, pc, keys>>

InvCell ==
  /\ job.kind = "cell" /\ pc = "encrypt" /\ round = 1
  /\ state' = invSubBytes(state)
  /\ pc' = "done" /\ round' = 0
  /\ UNCHANGED <<job, keys>>

Next ==
  FullRound \/ LastRound \/ InvFirst \/ InvRound \/ InvLast \/ Cell \/ InvCell

Spec == Init /\ [][Next]_vars
=============================================================================
