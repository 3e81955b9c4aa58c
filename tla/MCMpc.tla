-------------------------------- MODULE MCMpc -------------------------------
(***************************************************************************)
(* The cipher, the comparison of tags and the arrays of the multi-party    *)
(* computation for model checking. A behaviour is one call of one of the   *)
(* former, or the life of the arrays.                                      *)
(***************************************************************************)
EXTENDS TagCheck, BitsArray, Aes

CONSTANT Inputs

VARIABLES job, pc, round, keys, state       \* of MpcCipher

C == INSTANCE MpcCipher

\* What is embedded are bytes, the blocks and keys as long as they have to be.
ASSUME InputsAssumption ==
  \A input \in Inputs :
    \/ input.kind = "block" /\ input.key \in Block /\ input.cells \in Block
    \/ input.kind = "cell" /\ input.cells \in [{0} -> Byte]

\* The inverse, in the field of the bytes, of the byte with the value v, by the
\* device's tables of powers and logarithms (see FSb).
InverseByte(v) == IF v = 0 THEN Zero ELSE NumByte(pow[255 - log[v]])

\* The tables of the embedding, byte by byte: it can be undone, and takes the
\* multiplications of the rounds, which the device composes of XTIME, to products
\* in the field, and the inverses of the device's tables to those that seven
\* squarings give. All of it is about given tables, and evaluated for all bytes.
ASSUME EmbeddingAssumption ==
  /\ \A n \in 0..9 : C!rcon[n + 1] = RCON[n]
  /\ \A n \in Bits : /\ C!Mul(C!ApplyEmbedding({0}), C!K01[n]) = C!ApplyEmbedding({n})
                     /\ C!Mul(C!ApplyEmbedding({}), C!K01[n]) = {}
  /\ \A b \in Byte :
       LET in   == C!ApplyEmbedding(b)
           two  == XTIME(b)
           four == XTIME(two)
           nine == XTIME(four) (+) b
           inverse == InverseByte(Value(b))
       IN  /\ C!InverseEmbedding(in) = b
           /\ C!PowerOf(b) = C!ApplyEmbedding(inverse)
           /\ InverseByte(Value(inverse)) = b
           /\ C!Mul(C!ApplyEmbedding({1}), in) = C!ApplyEmbedding(two)
           /\ C!Mul(C!InvMixColKv[1], in) = C!ApplyEmbedding(XTIME(four) (+) (four (+) two))
           /\ C!Mul(C!InvMixColKv[2], in) = C!ApplyEmbedding(nine (+) two)
           /\ C!Mul(C!InvMixColKv[3], in) = C!ApplyEmbedding(nine (+) four)
           /\ C!Mul(C!InvMixColKv[4], in) = C!ApplyEmbedding(nine)

cipherVars == <<job, pc, round, keys, state>>
allVars    == <<vars, cipherVars, arrayVars>>

\* The job when no cipher runs; the other variables of what does not run are
\* empty.
none == [kind |-> "none"]

NoTags   == delta = << >> /\ factors = << >> /\ verdict = << >>
NoCipher == job = none /\ pc = "none" /\ round = 0 /\ keys = << >> /\ state = << >>
NoArrays == mem = << >> /\ array = << >> /\ owned = {} /\ content = << >>

MCInit ==
  \/ Init /\ NoCipher /\ NoArrays
  \/ C!Init /\ NoTags /\ NoArrays
  \/ ArraysInit /\ NoTags /\ NoCipher

MCNext ==
  \/ Next /\ UNCHANGED <<cipherVars, arrayVars>>
  \/ C!Next /\ UNCHANGED <<vars, arrayVars>>
  \/ ArraysNext /\ UNCHANGED <<vars, cipherVars>>

MCSpec == MCInit /\ [][MCNext]_allVars /\ WF_vars(Next)

(***************************************************************************)
(* Constants                                                               *)
(***************************************************************************)
\* All differences of up to nine bits.
MCDeltas == UNION {[1..n -> {0, 1}] : n \in 1..9}

Text(n, seed) == [j \in 0..(n-1) |-> NumByte((seed + 37 * j + 11 * j * j) % 256)]

\* All bytes, and a block.
MCInputs ==
       {[kind |-> "cell", key |-> Zeros(0), cells |-> [j \in {0} |-> b]] : b \in Byte}
  \cup {[kind |-> "block", key |-> Text(16, 5), cells |-> Text(16, 77)]}

\* Arrays of one element or two, in a memory that has no room for all of them.
MCArrays  == {"a1", "a2"}
MCLengths == {1, 2}
MCValues  == {"v1", "v2"}

(***************************************************************************)
(* Properties                                                              *)
(***************************************************************************)
Checking == delta # << >>

\* The factors stay bits, and one is left; Verdict of TagCheck holds as it stands.
TagCheckTypeOK == Checking => TypeOK

\* tag_check returns, for every number of bits.
TagCheckTerminates == Checking ~> (verdict # << >>)

\* The S-box on an embedded byte, a chain of field products and of tables of
\* squares, is the device's table of the byte.
SboxAgrees ==
  job.kind = "cell" /\ round = 1 => state[0] = C!ApplyEmbedding(SubByte(job.cells[0]))

\* Round for round, key and state are the embedded ones of the device, whose
\* rounds are look-ups in tables of columns.
CipherAgrees ==
  job.kind = "block" /\ pc = "encrypt" =>
    Once(mbedtls_aes_setkey_enc(job.key), LAMBDA rk :
      /\ keys[round] = C!SecretArrayEmbedd(rk[round])
      /\ state = C!SecretArrayEmbedd(IF round < 10 THEN AfterRounds(rk, job.cells, round)
                                     ELSE mbedtls_aes_crypt_ecb(rk, job.cells)))

\* invAesMain undoes aesMain and invSubBytes undoes subBytes: the cells are again
\* the embedded bytes, and InverseEmbedding gives these back.
DecryptionInverts ==
  pc = "done" => /\ state = C!SecretArrayEmbedd(job.cells)
                 /\ \A j \in DOMAIN state : C!InverseEmbedding(state[j]) = job.cells[j]

\* The type invariant of BitsArray.
ArraysOK == mem # << >> => ArraysTypeOK
=============================================================================
