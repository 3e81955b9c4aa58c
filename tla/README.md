# A formal model of POBC

This directory holds TLA+ modules, TLC configurations and TLAPS proofs for the
artifact in this repository: authenticated encryption on a microcontroller
(`IoT-benchmark`) and its distributed decryption in MP-SPDZ (`MPC`).
`PROJECT.json` lists the components, runs, hazards, theorems and, for each
definition, the source lines it stands for.

## 1. The system

| Part | Source | State | Operations | Correct when |
|---|---|---|---|---|
| Host script | `IoT-benchmark/run-experiment.py` | position in `benchmark_testvec`, vectors, counts, output file, serial buffers | write a frame; read count, ciphertext, tag; save | each count in the file is the board's count for the vector of that row; a run ends |
| Firmware | `IoT-benchmark/*_benchmark*.c` | position in the main loop, bytes received, length, bytes to send | header, length, payload, encrypt, reply, refuse | what it encrypts is what was sent; it never leaves the loop in step with nothing |
| USART wrapper | `IoT-benchmark/common/stm32f4_wrapper.c` | one data register per direction | blocking send, blocking receive | no byte is lost that the exchange needs |
| Generator | `IoT-benchmark/generate.c` | random state, current vector, output so far | parse arguments, dispatch on the name, generate, check, print | the file has the lengths and the mode it was asked for, and only complete lines |
| POBC, POBC-SIV | `IoT-benchmark/aes-pobc` | block counter, tag accumulator | encrypt, MAC, decrypt | distinct cipher inputs; decryption inverts encryption; a wrong tag leaves no plaintext |
| CTR-PMAC, HTMAC | `IoT-benchmark/aes-modes` | counter, mask, accumulator | encrypt, decrypt | decryption accepts what encryption produced, at every length |
| GCM, GCM-SIV | `IoT-benchmark/aes/aes_gcm*.c`, `ghash.c`, `polyval.c` | counter, hash state, tables | encrypt, hash | table-driven multiplication is the field's |
| Jolteon, Espeon | `IoT-benchmark/eevee-forkskinny`, `aes/aes_xex_fork.c` | tweak, block counter | encrypt, decrypt | tweaks are distinct up to the length limit |
| AES core | `IoT-benchmark/aes/aes*.{c,s}`, `mbedtls/library/aes.c` | round keys, tables | encrypt, decrypt a block | it is AES |
| MPC decryption | `MPC/code/aes_*.py` | secret and public blocks | decrypt and check a tag | it inverts the device's encryption |
| MPC arithmetic | `MPC/code/aes_gf_long.py`, `utils.py` | embedded bytes, round keys, factors | embed, S-box, rounds and their inverses, compare | its cipher is the device's; the comparison is equality |
| MPC memory | `BitsArray` of `MPC/code/utils.py` | address, length, `freed` | make, store, load, free | what is loaded was stored; a freed array is not used |
| Driver | `MPC/code/benchmark.mpc` | imported names, arguments | import, parse, choose a circuit | every circuit it names compiles |

How they interact. `generate.c` prints a file of vectors. `run-experiment.py`
reads it and, vector by vector, talks to the board over two byte streams; the
firmware calls one of the modes and answers. The MPC programs share no code or
data with the device: what ties the two is that they claim to implement the
same modes. `mbedtls`, `blake2s-opt`, `mimc-gmp` (third-party) and MP-SPDZ and
libopencm3 (submodules) are external.

Where it is hard. The link is the only concurrent part, and it has no timeout,
checksum, sequence number or resynchronisation: everything depends on both
sides being at the same place of an implicit protocol. The operator interrupts
and resets either side at will. The rest is sequential code in which block
boundaries, counters and the agreement of two implementations are hard to test
(no test in the repository covers a partial block, and none runs both sides).

The hazards are listed, each at its line, in `PROJECT.json`.

## 2. The plan

Where the development stands; the order is that of its growth.

1. The link. `SerialBench` (script, firmware, wires) with the abstract
   `Measurement`. *Done; its safety, and that it implements `Measurement`, proved.*
2. `Generator`: `generate.c` and the function of the script that reads its
   output. *Done, and every property of it proved.*
3. The modes of the device, a module each, over a block cipher that is a
   parameter: `Pobc`, `PobcSiv`, `CtrMac`, `Gcm`, `GcmSiv`; with `Aes` and
   `Ghash` for checking them against recorded vectors. *Done for the modes that
   are in the repository in full, and proved.*
4. `Jolteon` and `Espeon` over a fork cipher that is a parameter. *Done for
   `jolteon_core.c` and for both instances of `espeon.c`, and proved.*
5. The computation: `MpcModes`, `MpcCipher` in both directions, `TagCheck`,
   `BitsArray`, `Driver`. *Done but for what section 8 names; `TagCheck`,
   `BitsArray` and `MpcCipher` proved.*
6. The modes composed (`Device`, `Modes`), and every property of theirs that does
   not depend on which cipher it is proved for all calls. *Done.*
7. Left: the tag of PMAC in the computation, `polyval.c` and
   `aes_xex_fork.c`. What is checked and not proved is at the end of section 7.

## 3. The modules

| Module | What it is |
|---|---|
| `SerialBench`, `Measurement` | the link, and what it promises |
| `Generator` | the vector generator and the reading of its output |
| `Bytes`, `Blocks` | bytes and buffers; the block cipher as a parameter and counter blocks |
| `Device` | the variables of a call: job, stage, index, buffers |
| `Aes`, `Ghash` | AES-128 of `mbedtls/library/aes.c` and `aes/ghash.c`, as functions |
| `Pobc`, `PobcSiv`, `CtrMac`, `Gcm`, `GcmSiv` | the modes of the device, over any block cipher |
| `Eevee`, `Jolteon`, `Espeon` | how both cut data into blocks; `jolteon_core.c` and `espeon.c`, over any fork cipher |
| `Modes` | the composition: one call of any of the seven modes, with the properties of all of them |
| `ForkCipher` | a small fork cipher for checking them |
| `MpcAes`, `MpcCipher` | the embedded field, S-box and rounds of `aes_gf_long.py`; a block's way through its rounds and back, as a state machine |
| `MpcModes` | the decryptions of `MPC/code`, as functions |
| `TagCheck`, `BitsArray` | `tag_check` and the arrays of `utils.py` |
| `Driver` | `benchmark.mpc` |
| `MCSerialBench`, `MCGenerator`, `MCModes`, `MCMpc`, `MCDriver` | instances for TLC; `MCModes` gives `Modes` its ciphers and calls, and sets the computation's decryptions beside them; `MCMpc` composes the computation's cipher with the device's, beside `TagCheck` and `BitsArray` |
| `SerialBenchProofs`, `GeneratorProofs` | theorems on the modules of those names, and that the link implements `Measurement` |
| `MpcProofs` | theorems on `TagCheck`, `BitsArray`, `MpcCipher` beside `Aes`, and their composition in `MCMpc` |
| `BlocksProofs`, `PobcProofs`, `GcmProofs`, `EeveeProofs` | facts on buffers; theorems on `Pobc` and `PobcSiv`; on `Gcm`, `GcmSiv` and `CtrMac`, on `Ghash` and on `MpcModes` after them; on `Jolteon` and `Espeon` |
| `ModesProofs` | theorems on `Modes`, and on the ciphers of `MCModes` |

A definition whose comment begins with *Slip* is not part of the model: it is a
mistake that the definition after it could have had, and checking the model
with it in place shows that a property notices.

### How `SerialBench` corresponds to the code

| Model | Code |
|---|---|
| `hpc` | the statement of `benchmark_testvec`, or of the loops around it, that runs next |
| `cur`, `row`, `cnts`, `output` | the loop's vector, `cycle_counts`, `cnts`, the file named by `-o` |
| `dpc`, `rx`, `mlen`, `tx` | the call the main loop is in, the bytes of its current `recv_USART_bytes`, `message_len`, what is left to send |
| `up` | bytes in the host's output buffer, on the wire and in the board's data register |
| `down` | bytes on the wire and in the host's input buffer |
| `clean` | nothing in the code: a history variable for stating properties |

Each host action is one statement, each board action one byte received or sent
or one decision of the loop. Bytes going up are numbers (`Base` values, 256 in
the code) because the header is told from payload by value. Bytes going down
are tokens: a digit, a byte of ciphertext or tag, a character of another text,
a line end. A reply token carries the input of the encryption it comes from;
this is how a property can say *whose* count was recorded. A byte of ciphertext
or tag may be anything when it is read as text, so `readline` may or may not
end at it and `int` may or may not accept it (`LineOfLength`, `MayParse`,
`MayFail` overlap).

Choices worth knowing:

* A write is one step. Its at most 1500 bytes fit the tty's buffer, so `write`
  returns at once; what the board has seen of it is up to `RecvByte`.
* Message, key and nonce are read by three calls in a row with nothing between
  them. They are one stage of `PayloadLen` bytes.
* `Flush` returns when at most one byte is left for the board, the one that may
  sit in its data register.
* A byte is lost (`Overrun`) when two are waiting while the board encrypts or
  sends. Between two receive calls the board is faster than the wire, so no
  byte is lost there.
* "Ready!", "Message too large!", "encrypt returned non-zero" and "Cannot
  allocate" are each a text token and a line end: no property tells them apart.
* `raise "something went wrong!"` raises in its turn (a string is not an
  exception); either way the script ends, `Die`.
* `load_testvecs` has succeeded: a run starts on a file of parsed vectors.
  `Generator` says which ones it can return.
* The seven firmware programs differ in `KeyLen`, `NonceLen`, `TagLen`,
  `ReadsNonce` and in the lengths their mode refuses, `FailLens`.

`Careful` describes the operator. With `FALSE` a script may be started or
interrupted and the board reset at any time. With `TRUE` the script is started
on a board that waits for a header with nothing on the wire, and the board is
reset only between runs. The code enforces neither; `TRUE` is an assumption and
used only where a property needs it (below).

### How `Generator` corresponds to the code

| Model | Code |
|---|---|
| `pc` | the place in `main`, `generate` and `generate_f` |
| `args` | `argv`: the flag, the primitive split at its underscores, what `strtol` makes of the rest |
| `pair`, `sample` | the loop indices of `main` and `generate_f` |
| `pos` | how many bytes `rand()` has given since `srand(1)` |
| `cur` | the buffers of `generate_f` |
| `out`, `status` | stdout, the exit status (-1 and -2 arrive as 255 and 254) |
| `made` | nothing in the code: the vectors printed in full |
| `loaded` | the value of `load_testvecs`, or the exception that ended it |

The output is a sequence of hexadecimal strings, words, spaces and line ends; a
string knows its digits, so a file can end in the middle of one. `Kill` stops
the generator, and `Load` reads the file at any moment: all of `out` once the
generator has returned from `main`, and otherwise any beginning of it, because
stdio flushes a redirected stdout in blocks. Bytes are symbolic: a random string
is a place in the stream of `rand()`, a ciphertext and a tag are terms. Of the
modes only what the generator can notice is modelled: `--check` compares the
blocks that encryption and decryption authenticate, and the tag of
`enc_pmac_aes128` depends on memory past its buffer (`Stray`) when the last
block is not complete. `Boards` repeats the constants of the firmware programs,
so that `MatchesBoard` compares nine files. Left out: negative lengths (an array
of negative size is undefined), the `assert`s (no mode here fails on a message
that is not empty and has no associated data, and a supported name always finds
a branch), and the text of messages.

### How the modes correspond to the code

A byte is the set of its bits, so XOR is symmetric difference; a buffer is a
function on `0..n-1` that grows as the code writes to it. `pc` is the loop that
runs, `i` its index, and one action is one iteration, or the statements between
two loops. `job` holds the arguments of the call, the mode among them. The modes
share these variables, which `Device` declares, as calls of one device that never
overlap: `Modes` begins with a call of one of them and then takes the steps of that
mode, and a variable that its function does not have stays empty. A mode's own
definitions have its name in front (`PobcInit`, `GcmNext`, `MacTypeOK`) where two
modes have one of that kind; each has a specification of its own as well
(`PobcSpec`, `SivSpec`, `MacSpec`, ...), which the theorems on single modes are about. A counter block is kept as a
nonce and a number (`Counter`), and becomes bytes where the code hands it to the
cipher (`RawLE`, `RawBE`); PobcSiv and GcmSiv, which count in bytes that they have
computed, increment byte by byte (`gcm_incr`, `IncLE`).

| Model | Code |
|---|---|
| `nc`, `cnt0`, `cnt1`, `counter`, `w` | `nonce_counter`, `counter_block` and so on |
| `tag`, `iv`, `acc`, `y` | the buffer in which the tag is added up |
| `mask` (CtrMac), `ta` (Jolteon, Espeon) | PMAC's masks, `t_a` |
| `tk` (Espeon) | the tweakey behind the key, as the loop over the message keeps it |
| `asked`, `used` | nothing in the code: the blocks the cipher was asked for, the tweaks |
| `stray` | the bytes in memory behind the ciphertext, which PMAC and the digest read |
| `Transit` | nothing in the code: what happens between encryption and decryption |

`PobcSiv`, `CtrMac`, `Jolteon` and `Espeon` call the decryption with what encryption has
written, or with one bit changed in any byte of one of the arguments.

The block cipher `E`, its key schedule, and the fork cipher are CONSTANTS: no
statement about a mode's control depends on them. `MCModes` gives `E` the value
of `Aes`; the fixsliced implementations in C and assembly that GCM and GCM-SIV
call compute the same function, as the recorded vectors confirm. `Jolteon` and
`Espeon` get the Feistel network of `ForkCipher`, which can be undone, since
forkskinny-opt32 is not in the repository. `Left` and `Right` are its two
outputs; where the C code computes both and drops one, only the one it keeps is
modelled.

### How the computation corresponds to the code

The programs of `MPC/code` are written for MP-SPDZ, whose types hide values
from the parties. What they compute is what is modelled: an element of the
computation's field is a set of exponents, and Python's arithmetic on it is
`Sum` and `Mul`. The decryptions make no decision that depends on a secret, so each is one
operator (`MpcModes`), except the two that have a loop worth following: the
rounds of AES (`MpcCipher`) and the product tree of `tag_check` (`TagCheck`).
In `MpcModes` the cipher is again `E`; that the computation's own cipher is
that function is what `CipherAgrees` and `SboxAgrees` check.

| Model | Code |
|---|---|
| `state`, `keys`, `round` (MpcCipher) | `state`, `expandedKey` as far as it is used, the loop of `aesMain` or `invAesMain` |
| `factors`, `verdict` (TagCheck) | the list that `tag_check` halves, its result |
| `array[a]` (BitsArray) | the object `a`: `address`, `length`, `freed` |
| `mem`, `owned` | the memory of MP-SPDZ, and which arrays it has not got back (external: `malloc` gives any free cells) |
| `content` | nothing in the code: what was stored |
| `argv`, `names`, `status` (Driver) | `sys.argv`, the names that the imports have bound, how compilation ends |

In `BitsArray` a cell knows of which value it is which part, so that a value
that is read across two elements is noticed. `Careful` restricts the callers to
arrays that they have not given back and to indices within them, as the
assertions of the class ask of them.

## 4. The properties

Of `SerialBench`:

`InStep` says that the run began on an idle board (at the first
`reset_input_buffer` the board waited for a header, nothing was on its way to
it), that the board has not been reset since, and that the file fits the
program and the script's branch (`Matched`). What happened *before* the run is
arbitrary.

* `TypeOK` - types; a buffer never gets more bytes than it is asked for.
* `CountsBelong` - in such a run every recorded row is the whole cycle count
  the board printed for that very vector.
* `NothingDiscarded` - `listen()` and `reset_input_buffer()` then never have
  anything of a reply to throw away.
* `NothingLost` - no byte of a vector that fits waits while the board is deaf.
* `ReplyMatches` (action) - the two fixed-length reads return this vector's
  ciphertext and this vector's tag.
* `NoGarbage` (action) - the script dies of a line that is no number only for a
  vector the board refuses.
* `LinkInv` - why all of this holds: the invariant of section 7.
* `EndsWell` (liveness) - a run in step ends, with all rows in the file unless
  somebody interferes.
* `Measures` - `SerialBench` implements `Measurement!Spec`, including its
  liveness: a run measures the vectors in order, saves all rows after the last,
  or is broken off.
* `ReceivesCount` - the README's promise that a sent vector is answered;
  violated, see section 6.

Of `Generator`:

* `TypeOK` - types, loop bounds, exit statuses.
* `LoadsGenerated` - whatever moment the file is read at, the vectors the script
  gets are the first ones that were generated, and only the last one's tag may
  be cut. (Four spaces come before the tag, so a line that is cut earlier has
  too few parts. A cut tag has fewer bytes, which the script then reads too
  few of; it is the last vector, and `reset_input_buffer` of the next run
  throws the rest away.)
* `LoadsChecked` - with `--check` they have been checked.
* `LoadsAllOrNothing` (action) - the complete output is accepted if and only if
  the generator succeeded, and is then complete.
* `Reproducible` - a vector depends on its length and index only.
* `FreshBytes` - vectors of one length share no random bytes, so keys and nonces
  do not repeat.
* `MatchesBoard` - the lengths are those the firmware reads and sends.
* `NamedMode`, `CheckSucceeds` - claims of the usage text; violated, section 6.

Of the modes. `Modes` joins what several of them state; the names in brackets are
those in the modules of the modes.

* `TypesOK` (`PobcTypeOK`, `SivTypeOK`, ...) - stages, indices, and exactly how much
  of each buffer is written.
* `EncryptsAsSpecified` (Pobc) - the ciphertext is counter mode, and the tag is the
  sum in which each byte of data stands once, at all lengths.
* `DistinctInputs` (Pobc, Gcm) - one call never asks the cipher twice for one block.
  In AES-POBC the counters of stream, ciphertext and associated data begin at 2^24,
  2^24 + 0x40 and 2^24 + 0x60 of one word, so this holds up to 0x20 blocks of message
  when there is associated data (the firmware has none), and up to 0x40 blocks when
  the nonce is zero; beyond, it does not (`KeepApart`).
* `PairsAreCounterMode` (Gcm) - two blocks at a time with two counters is counter
  mode.
* `RoundTrips` (`SivRoundTrip`, `MacRoundTrip`, `RoundTrip` of Eevee) - decryption
  inverts encryption and accepts. `CtrMac` accepts where both sides count the same
  blocks (`SameBlocks`, see `vectors_pmac` in section 6).
* `ChangesNoticed` - decryption rejects one changed bit. Of `CtrMac` this is stated
  for complete blocks, because the tags do not cover the rest. In Espeon, one changed
  bit of ciphertext, tag or nonce is rejected. One of associated data is, too, unless
  there is a block of message before the last: the sum over associated data is
  enciphered with the first block, and what comes out of decryption with another sum
  makes up for the difference in the sum that goes into the tag. Then only the first
  block of the result is another one, and the call accepts.
* `CleanRejection` (PobcSiv) - no plaintext stays after a rejection.
* `TweaksDistinct` (Jolteon) - no tweak is used twice in one encryption. At a
  message of `JolteonMaxLength`, which the code accepts, the last counter is the tweak
  of the last block; likewise for associated data within three blocks of it
  (`NoWrap`).
* `EspeonTweaksApart` (Espeon) - the tweak of the last block and those of associated
  data are used once. This needs `NoCollision`: associated data within one turn of the
  counter, and no more than eight blocks before an incomplete last one, because the
  last tweak then has the number 0xc, which is a counter as well; and, with a
  tweakey of 384 bits, a nonce whose last byte is none of the marks
  (`NonceIsNoMark`).
* `PaddingsTold` (Jolteon, Espeon) - associated data that ends inside a block is told
  from the same data with its padding written out. This holds before a message.
  Without a message the tweak is the same for both: `no_m + (complete_block) ? 0 : 2`
  is `(no_m + complete_block) ? 0 : 2`.
* `MatchesRecorded` - the vectors in `IoT-benchmark/vectors` come out.
* `MpcDecrypts` - the computation decrypts what the device has encrypted with GCM
  and GCM-SIV, and recovers the message of PMAC.
* `MpcDecryptsPobc`, `DoubleIsByX` - violated, section 6.

Of the computation:

* `TagCheckTypeOK`, `Verdict`, `TagCheckTerminates` - the product tree accepts equal
  tags only, and ends, for every number of bits.
* `SboxAgrees`, `CipherAgrees` - the computation's S-box and rounds are the
  device's, embedded.
* `DecryptionInverts` - the inverse rounds, with the round keys in the opposite
  order, and the inverse S-box lead back to the embedded bytes.
* `ArraysOK`, `LoadsStored` - a careful user of an array loads what he stored last,
  whatever the others do. The flag `freed`, at which the assertions of the class
  look, is never set, so no property can rest on them.
* `CompilesAll` - violated, section 6.

## 5. The runs

| Run | Constants | What it shows |
|---|---|---|
| `link_faults` | nonce firmware, `Careful = FALSE`, two runs of the script, two boots, five files: two fitting vectors whose payload contains the header's bytes; one with a too large second vector that contains a header; an empty message that the mode refuses; a message too long for two bytes of length; a file of the wrong branch. `malloc` may fail | all safety properties, under every interleaving with faults (2.5 million states) |
| `link_siv` | SIV firmware, two files, three runs, two boots, `Careful = TRUE` | `EndsWell`, the refinement and `CountsBelong` for the branch without nonce |
| `link_misread` | nonce firmware, a file of its own whose path contains `pobc` and `siv` | `ReceivesCount` is violated |
| `vectors` | fifteen command lines, `Stray = {0, 1}` | the invariants of `Generator`, for every way it can end |
| `vectors_siv` | `aes_pobc_siv 16 1` | `NamedMode` is violated |
| `vectors_pmac` | `--check pmac_aes 8 1` | `CheckSucceeds` is violated |
| `modes` | 136 calls of all modes with AES-128 or the small fork cipher; decryption with every one-bit change; block counters of six values for Jolteon and of thirteen for Espeon | the properties of the modes, and `MpcDecrypts` |
| `recorded_siv` | the recorded calls of AES-POBC-SIV with 8 and 16 bytes | `MatchesRecorded` is violated |
| `mpc_pobc` | AES-POBC and AES-POBC-SIV with 1, 16 and 33 bytes | `MpcDecryptsPobc` is violated |
| `mpc_double` | PMAC of one block and of three | `DoubleIsByX` is violated |
| `mpc_parts` | all differences of one to nine bits; all 256 bytes, one block; two arrays of one or two elements of two cells, in six cells, `Careful = TRUE` | the properties of the computation's parts |
| `mpc_driver` | each circuit with well-formed arguments, and malformed ones | `CompilesAll` is violated |

Bounds. `Base = 4` keeps the header `0 3 0` and lets a length of 16 overflow
its two bytes, as 65536 does. `MaxMessageLen = 2` with messages of 0, 1, 2, 3
and 16 bytes meets both sides of the boundary. One-byte keys, nonces and tags
keep a frame within 9 bytes; they are long enough that leaving one out, or
reading one twice, shifts everything after it. Two digits let a count be cut in
half. Two runs (`MaxSessions`) are one that may leave a mess and one that finds
it; the third in `link_siv` adds a run after a saved one. Two boots
(`MaxBoots`) allow one reset. `MaxDown` only bounds the endless message of a
board without memory. `CHECK_DEADLOCK FALSE`: the system really stops, when the
runs are used up or both sides wait.

The command lines of `vectors` reach every exit of `main` and `generate`, a
check that passes and one that fails in the second pair, two pairs of the same
and of different lengths, a negative number of samples, an odd number of
arguments and a name with a suffix. Lengths are 1, 8, 16 and 24: less than a
block, a block, and a block and a half. Fields have their real lengths and a cut
is tried at every digit. Two or three vectors show everything that relates two of them.
The generator stops, hence `CHECK_DEADLOCK FALSE`.

The lengths of `modes` lie on both sides of one, two and more blocks; 512 bytes
with associated data and 1024 with a zero nonce are the longest messages for which
`KeepApart` holds. The counter word of `Pobc` has `2^24 + 161` values in place of
2^32 (TLC's integers are narrower), which is more than any of these calls counts to.
Recorded vectors are those of 8 and 32 bytes (32 only of PMAC, see section 6).
A one-bit change is tried in every byte. Jolteon has counters with
six values, so that a message of 96 bytes reaches the limit; 97 is refused.
Espeon has thirteen, enough for the counter to reach 0xc before its limit.
Six cells hold an array of two elements and one of one, but not two of two, so that
an array is given cells that another has given back, also at odd addresses.
The difference of two tags has 128 bits in the code; nine bits have an odd
factor in three of the rounds, and every number of bits up to nine is tried. The
theorems on `TagCheck` and `BitsArray` have no such bounds. The behaviours of these runs are
calls that return, the driver ends, and the arrays are made once each and given
back, hence `CHECK_DEADLOCK FALSE`.

Fairness. `FairSpec` has weak fairness of `HostStep` and of `DeviceStep`: two
processors that run. Each is a sequential program with at most one statement
enabled, or waits for a byte, so weak fairness of the disjunction is fairness
of the program. Nothing is assumed of the operator, of interrupts or of losses.
A board without memory (`CannotAllocate`) gets no fairness; nothing depends on it.
`TagCheck` is a sequential program and has weak fairness of its only thread.

## 6. Findings

`link_misread`: `check_file_type` (`run-experiment.py:8`) looks for `pobc` and
`siv` anywhere in the path. The repository's own name is POBC, so the vectors of
AES-GCM-SIV given by a path through a checkout select the branch that sends no
nonce. The firmware waits for 12 more bytes, the script for a line, for ever.
The README of `IoT-benchmark` (line 38) promises key, nonce and message to be sent
and an answer to be received.

`vectors_siv`: `generate` (`generate.c:254`) finds `aes_pobc` at the beginning of
`aes_pobc_siv` and never reaches the branch of the latter. The usage text lists
both. The vectors have the other mode's ciphertexts, tags and nonce length; the
SIV firmware does not read the nonce and the script compares nothing, so the
measurement goes on unharmed (`MatchesBoard` holds).

`vectors_pmac`: `dec_pmac_aes128` (`aes_modes.c:168`) counts complete blocks,
`enc_pmac_aes128` (line 155) rounds up. For a length that is no multiple of 16,
such as the 8 bytes of the recorded vectors, `--check` reports a failure.

`recorded_siv`: the first vector of `vectors_pobc_siv_8_bytes` has the ciphertext
of AES-POBC and a tag of neither mode. The recorded vectors of AES-POBC,
GCM, GCM-SIV and PMAC are what the code computes (`modes`). Nothing compares
them: the script prints what it receives.

`mpc_pobc`: the README says that `IoT-benchmark` encrypts and `MPC` decrypts. For
AES-POBC and AES-POBC-SIV they are different modes of the same name: the computation
has another order of counter and nonce, a tag over blocks of 12 bytes that are
enciphered, and leaves the cipher's outputs embedded. For GCM and GCM-SIV the
two agree (`MpcDecrypts`).

`mpc_double`: `double` in `aes_modes.py` computes `b + b` for "left shift by 1"; in
a field of characteristic two that is zero.

`mpc_driver`: the README of `MPC` says that all modes can be compiled through
`benchmark.mpc`. Its sixth import, `dec_htmac_aes128`, is commented out in
`aes_modes.py`, so no circuit is.

Other facts about the code that are visible in the model and are no
contradiction with any document: Espeon accepts changed associated data before a
message of more than one block, and Jolteon and Espeon have lengths at which a
tweak recurs (section 4). Without `Careful` a run that does not begin on
an idle board can record a count that belongs to another input (`CountsBelong`
therefore says *in step*), and a failure during the last vector loses the
measurements of all (`Measurement` promises rows only after the last).

## 7. The proofs

Every theorem is of the specification that TLC checks, with the constants left open:
any number of runs, vectors and lengths, any calls, any cipher. The only assumptions
are the named ones of the modules (`ConstantsAssumption`, `ArgsAssumption`,
`JobsAssumption`, ...: lengths are natural numbers, buffers have the lengths they
come with; one is about the tables of an embedding), which TLC evaluates in every run, and
three hypotheses about ciphers,
written into the theorems that need them and shown at the end to hold of AES-128 and
of the runs' fork cipher.

Hardly a property is inductive. Of each module the inductive invariant and the reason
for it are given here; under every invariant is one lemma per action.

### The link, the generator, the computation

`SerialBenchProofs`, from `ConstantsAssumption`:

* `TypeCorrect`: `Spec => []TypeOK`. `TypeOK` is inductive.
* `LinkInvariant`: `Spec => []LinkInv`. An exchange in step is in
  one of three stages. *Receiving*: the bytes the board has read (`Taken`, `rx`)
  and those on the wire (`up`) are, position by position, the part of the frame
  that the script has written (`Written`), and no reply is pending. *Replying*:
  what has arrived (`down`) and what is still to be sent (`tx`) are the part of
  the vector's reply that the script has not read (`Consumed`). *Refused*: the
  next thing the script will read is a line of text. Each action is shown to
  keep its stage or to lead to the next (`FrameStep`, `RecvStep`, `HeaderStep`,
  `LengthStep`, `EncryptStep`, `SendStep`, `ConsumeStep`, `ReturnStage`), and
  `Tally` carries the recorded rows along. None of `CountsBelong`,
  `NothingDiscarded`, `NothingLost` is inductive: that a row is right depends on
  every byte of the exchange before it.
* `CountsCorrect`, `NothingDiscardedHolds`, `NothingLostHolds`,
  `ReplyMatchesHolds`, `NoGarbageHolds`: the properties, from these two.
* `ImplementsMeasurement`, for a careful operator and files that fit the program:
  `Spec => Promise!Init /\ [][Promise!Next]_(Promise!mvars)`, the refinement
  `Measures` without its liveness. What is needed besides `LinkInv` is
  `Undisturbed`: the board is idle from the start of a run until
  its first `reset_input_buffer`, so every run is in step from then on. A
  return from `benchmark_testvec` is `Measure` (`ReturnMeasures`), a line of the
  output file is `Save` (`SaveRowSaves`), every way to die is `BreakOff`, and the
  rest stutters.

`GeneratorProofs`, from `ArgsAssumption` (no negative message length, a
non-empty set of stray contents):

* `GeneratorTypeCorrect`: `Spec => []TypeOK`.
* `Placed`: `Spec => [](TypeOK /\ InPlace)`, the inductive invariant: the k-th
  vector of a pair begins at k times the bytes of one vector, and everything in
  `made` was drawn from such a place.
* `ReproducibleHolds`, `FreshBytesHolds`: both follow from `InPlace`. Equal
  indices and lengths mean the same place; different indices of one length mean
  disjoint intervals (`PiecesLemma`, `PartsInPiece`).
* `Written`: what stands on stdout, `OutOK`. Ten strings and delimiters for each
  vector made, and after them the first half of a line, or the error message that
  goes with the exit status, or nothing. `Split` is defined by the places of the
  delimiters and not by recursion, so that splitting can be reasoned about: given the places,
  `SplitLemma` has the pieces. From it follow the lines of any beginning of the
  output, at whatever character it is cut, and which of them parse.
* `LoadsGeneratedHolds`: the script takes complete lines, each with the fields of the
  vector made there, and at most one more that was cut in its tag; a line cut
  earlier has too few fields, and an error message begins with a word, or continues the
  half line with one. `LoadsCheckedHolds` needs besides that nothing is made before its
  check has passed. `MatchesBoardHolds` needs that the branch of a full name is the
  one with this name, although the comparison is of prefixes (`NameLemma`).
* `LoadsAllOrNothingHolds`: the number of vectors. `Counted`: as many are made as come
  before the one to be made now (`Before`), in the order of the two loops.

`MpcProofs`, from `DeltasAssumption` (every difference is a non-empty
sequence of bits), `ArraysAssumption` (elements have at least one cell),
`InputsAssumption` (keys and blocks have 16 bytes) and `EmbeddingAssumption`, the
facts on single bytes:

* `VerdictCorrect`: `tag_check` accepts if and only if no bit differs. The
  invariant: the remaining factors are all one if and only if no bit differs. A
  round keeps this because every factor, the odd last one included, stands in
  exactly one product (`Halves`, `Round`).
* `ArraysLoadStored`: a careful user loads what was stored last. The invariant has
  three parts. `Placed`: which elements every object has. `Separate`: the
  arrays that are owned lie in the memory and share no cell. `Kept`: every cell of an owned array's
  element holds its part of what was stored. A store keeps the last because a
  cell belongs to one element only (`OneElement`), so that the cells a store
  writes are those of the elements it means (`WhichElement`).
* `SboxAgreesHolds`, `CipherAgreesHolds`, `DecryptionInvertsHolds`: for every byte,
  key and block, AES on embedded bytes is the device's, and the inverse rounds undo
  it. `EmbeddingAssumption` says, for each of the 256 bytes, what one
  product in the field GF(2^128) makes of its embedding, which the prover would have to
  compute and TLC does; everything that is put together of such products is
  proved. The S-box (`SboxEmbeds`): given that the chain of squarings is
  inversion, the matrix of the computation is the device's rotations
  (`SameTransform`) and its second matrix undoes it (`LinearUndone`). A column: the
  embedding is additive (`EmbAdds`), so `mixColumns` is the device's sum of doubles
  (`MixedColumns`), which is what `AES_FROUND` looks up in its table (`LookUps`); and the
  multiples of 14, 11, 13 and 9 that `invMixColumns` adds up are one of the
  column's own byte and none of the others (`Contributions`, `ColumnBack`). A round key:
  that of the computation is the recursion along the key, the device's a sum of words
  (`ComputedKey`, `DeviceKey`, `KeysEmbed`). The invariant `CipherRuns` then says that
  keys and cells are, round by round, the embedded ones of the device, on the way
  back too; each inverse round undoes the last one that is left (`UnAdded`, `UnMixed`,
  `UnSubstituted`).
* `FactorsStayBits`, `TagsCompared`, `ArraysKeepLengths`, `ArraysKeepElements`: the
  properties of the first two for `MCSpec`, which has them beside the cipher, so what
  the run checks.

### The modes of the device

`BlocksProofs` has the facts on buffers, counters and sums that the others need:
what writing at the end of a buffer gives (`PutAtEnd`), what a chunk is
(`ChunkFacts`), that adding twice is adding nothing (`XorTwice`), what one more term
does to a sum (`XorAllMore`).

`PobcProofs`:

* `PobcInputsAreDistinct`. The invariant says which counter blocks the mask, the
  stream, the associated data and the tag have asked for at each index. The next one
  is new (`StreamFresh`, `AdFresh`, `TagFresh`) because the ranges do not meet, which
  is what `KeepApart` says; the stream's nonce may be zero and then only the ranges
  tell the stages apart.
* `PobcTypeCorrect`, `PobcIsAsSpecified`, for a cipher that returns blocks
  (`BlockCipher`): ciphertext and tag are what the specification of the mode says, as
  long as no counter word overflows (`PobcFits`). The invariant `PobcRunInv`: the
  ciphertext so far is that part of the counter mode, and the tag so far is the
  sum of the terms up to the index, in which each stands once.
* `PobcSivTypeCorrect`, `PobcSivInverts`, `PobcSivWipes`, for any cipher. The invariant
  compares the two calls: at the same index both have the same counter block, a
  function of the index and of where it began, so the same block is added twice
  (`CryptedFacts`), and the MAC is a function of equal arguments. The MAC's own
  loop is a recursive function of which nothing is used but that it is one.

`GcmProofs`:

* `GcmTypeCorrect`, `GcmIsCounterMode`, `GcmInputsAreDistinct`, for any cipher. The
  invariant `GcmPairing`: of the two counters one is always ahead of the other by one,
  and what has been asked for are, in order, the hash key's block, the mask's and the
  stream's up to the index.
* `MacTypeCorrect`, `MacInverts`: decryption in AES-CTR-PMAC and HTMAC gives the
  message back at every length, and accepts the tag whenever both sides count
  the same blocks (`SameBlocks`; section 6 has the lengths at which PMAC does
  not). The tag depends on memory behind the ciphertext, so that
  the invariant has to say that both sides read the same there, and PMAC's loop
  is followed block by block (`PmacRunNext`).
* `GcmSivTypeCorrect`, for a cipher that returns blocks.
* `GcmMultIsProduct`: `gcm_mult` of `ghash.c` is multiplication in GF(2^128). The
  multiplication that the computation is compiled to is a sum over pairs of bits,
  reduced at the end; the device's takes the block four bits at a time, by Horner's
  rule. It rests on three facts: the product is additive (`MulAdds`) and
  commutes with multiplying by x (`MulUp`, `MulUp4`); the sixteen numbers of
  `last4` are what the four bits that fall out come back as (`Shift4Is`); and
  each row of the table is the product of its four bits and the hash key (`TableIs`).
  Then after n steps the sum is the product of the n nibbles taken so far
  (`TakenIn`, `TakenMore`). So the hash of a message is, block by block, that of the
  computation (`HashGoesOn`).
* `GcmDecrypts`, `SivDecrypts`, `MacMessageDecrypts`: a call that is done is decrypted.
  The invariants `GcmRunInv` and `GcmSivRunInv` extend the ones above by what the
  computation will make of it: every byte of the ciphertext is the message's with the
  counter block of its own index (`GcmStreamed`, `SivStreamed`), where counters run
  modulo `WordSize`, so that nothing is required of them; and the hash is the one after
  so many blocks (`HashesTo`). Lengths in bits are modelled as 32-bit words, so of the
  code this speaks for messages below 2^28 bytes. The computation derives counters differently: GCM's from
  the four bytes behind the nonce (`CountersAre`, `RawBEIs`), GCM-SIV's by carrying
  from byte to byte of the tag (`CountsMore`), and its keys from halves (`HalvesAre`).

`EeveeProofs`, for every width of the counter. Of the fork cipher two hypotheses are
used, `JolteonForks` and `EspeonForks`: under the tweaks that the mode makes, a block
becomes a block and the left output can be undone.

* `JolteonTweaksAreDistinct`, for any fork cipher. A tweak is told by a word.
  The invariant `TweakInv` says which words associated data and message have used at
  each index; the next one is new as long as the counter has not wrapped
  (`CounterFacts`), which is what `NoWrap` says.
* `JolteonInverts`, at every length that is not refused, beyond `NoWrap` too. The
  invariant `SumInv` keeps the two sequences of sums that encryption went through,
  over associated data and over the message; decryption is at the same sum at every
  index, because it adds the same two blocks in the other order (`XorBlockSwap`),
  and so takes the sum out of the last block that encryption put in, which leaves the
  padding and the tail to be compared (`DecLastOpens`).
* `EspeonInverts`, the same for both instances of `espeon.c`. Here the tweaks of the
  message depend on the ciphertext (`SameChain`, `TkAtFacts`), so the
  invariant `EspeonSums` follows those as well.
* `EspeonTweaksAreDistinct`. A tweak of ciphertext may recur, so the theorem
  speaks of the others: they are told from one another by their counter
  (`CountersApart`), and from the tweaks of the message by their mark (`MarksApart`).
  `NoCollision` and `NonceIsNoMark` are the lengths and nonces for which this is so.
* `JolteonTypeCorrect`, `EspeonTypeCorrect`.

`ModesProofs` composes these. A call stays in its mode (`SameCall`) and does a step of
that mode or none (`StepOfMode`), so the invariants of the modes, each under the
condition that the call is of this mode, are inductive together (`ModesInv`,
`RunInv`, `DecryptInv`, `ForkInv`, `BuffersInv`). From them:

* `CallsAskDistinct`, `CallsPairCounters`, `CallsRejectCleanly`,
  `CallsKeepTweaksDistinct`, for any cipher; `CallsEncryptAsSpecified` and
  `CallsMpcDecrypts` under `BlockCipher`; `CallsInvert` and `CallsKeepEspeonTweaksApart` under the hypotheses
  on the fork cipher; `CallsKeepToBuffers` under all three.
* `AesIsBlockCipher`: `Aes` satisfies `BlockCipher`, so that
  `CallsEncryptAsSpecified`, `CallsMpcDecrypts` and `CallsKeepToBuffers` are theorems
  about AES-128. The
  S-box returns bytes (`SubByteIsByte`), and so the key schedule blocks
  (`RconAreBytes`, `RoundKeys`).
* `ForkCipherForks`: the fork cipher of the runs satisfies the hypotheses on fork
  ciphers, so they can be satisfied. It is a Feistel network, each round of
  which is undone (`FeistelRound`), whatever its round function is.

Run `tlapm` on each of the proof modules; every leaf is discharged by SMT, Zenon or LS4.

### What is only model-checked

* `EndsWell`, `TagCheckTerminates` and the liveness of `Measures`: liveness is out of the
  prover's reach.
* `ChangesNoticed` and `PaddingsTold`, which do not hold of every cipher: they say that
  two values the cipher computes differ.
* `MatchesRecorded`, which is about given bytes: the prover would have to compute AES.
* `MpcDecryptsPobc` and `DoubleIsByX`, which are violated (section 6).
* `EmbeddingAssumption`, on which three theorems of `MpcProofs` rest: 256 bytes and given
  tables, which TLC evaluates in full before it runs `mpc_parts`.

## 8. Not modelled

The parts marked so in `PROJECT.json`.

* Third-party libraries (`mbedtls` but for AES encryption, `blake2s-opt`,
  `mimc-gmp`), which make up nearly all of the repository's lines; and MP-SPDZ, libopencm3 and
  forkskinny-opt32, which are not in it.
* The fork ciphers. forkskinny-opt32 is not in the repository; `aes_xex_fork.c` is,
  but the files that would call it, `jolteon_aes.c` and `espeon_aes.c`, are not.
* `polyval.c` (the build uses GHASH), decryption of an AES block on the device
  (no mode calls it), keys longer than 128 bits, and the fixsliced C and assembly
  implementations of AES, of which the recorded vectors show that they agree
  with the one modelled.
* Of the computation: the tag of `dec_pmac_aes128`, which applies the cipher to
  cells that are not embedded, so that its value depends on what MP-SPDZ makes of
  them; `dec_htmac_aes128`, which is commented out; `BitsVectorConstants`, a
  table; and `testutils.py`, which prints comparisons.
* Cycle counts and other measurements. Of the link: parity and framing errors,
  the physical clock, `average` and other printing, and failures of the serial
  port itself.
