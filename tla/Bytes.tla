------------------------------- MODULE Bytes --------------------------------
(***************************************************************************)
(* Bytes and buffers. A byte is the set of its bits that are one (bit 0 is *)
(* the least significant), so XOR is symmetric difference. A buffer of n   *)
(* bytes is a function on 0..n-1, indexed as in the code.                  *)
(***************************************************************************)
EXTENDS Integers, FiniteSets

BlockLen == 16
NonceLen == 12

Bits  == 0..7
Byte  == SUBSET Bits
Zero  == {}
One   == {0}
Ones  == Bits                       \* 0xFF
Pad   == {7}                        \* 0x80

Buffer(n) == [0..(n-1) -> Byte]
Block     == Buffer(BlockLen)
Zeros(n)  == [j \in 0..(n-1) |-> Zero]

\* How many blocks n bytes take.
BlocksOf(n) == (n + BlockLen - 1) \div BlockLen

Min2(a, b) == IF a < b THEN a ELSE b

\* v. TLC evaluates it in full, to compare it with itself.
Full(v) == CHOOSE e \in {v} : e = e

\* F(v). TLC evaluates v once and in full.
Once(v, F(_)) == CHOOSE r \in {F(x) : x \in {e \in {v} : e = e}} : TRUE

a (+) b == (a \ b) \cup (b \ a)

\* XOR of two buffers of one length; of the sets f[s] for all s in S.
XorBlock(a, b) == [j \in DOMAIN a |-> a[j] (+) b[j]]
XorAll(S, f)   == {q \in UNION {f[s] : s \in S} : Cardinality({s \in S : q \in f[s]}) % 2 = 1}

\* b with the bytes of d written from position k on (memcpy to b + k).
Put(b, k, d) == [j \in (DOMAIN b) \cup {k + l : l \in DOMAIN d} |->
                   IF (j - k) \in DOMAIN d THEN d[j - k] ELSE b[j]]

\* The n bytes of b from position k on.
Slice(b, k, n) == [j \in 0..(n-1) |-> b[k + j]]

\* ++x of a byte.
IncByte(x) ==
  IF x = Ones THEN Zero
  ELSE LET z == CHOOSE q \in Bits \ x : 0..(q-1) \subseteq x
       IN  {z} \cup {q \in x : q > z}

\* The byte with the value v, and the value of a byte.
NumByte(v) == {q \in Bits : (v \div 2^q) % 2 = 1}

Bit(q, b) == IF q \in b THEN 1 ELSE 0
Value(b)  == Bit(0, b) + 2 * Bit(1, b) + 4 * Bit(2, b) + 8 * Bit(3, b)
             + 16 * Bit(4, b) + 32 * Bit(5, b) + 64 * Bit(6, b) + 128 * Bit(7, b)

\* ++ of the big-endian number in the bytes of b at the positions lo..hi.
IncBE(b, lo, hi) ==
  [j \in DOMAIN b |->
     IF j \in lo..hi /\ \A l \in (j+1)..hi : b[l] = Ones THEN IncByte(b[j]) ELSE b[j]]
=============================================================================
