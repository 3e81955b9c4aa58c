------------------------------- MODULE Generator -------------------------------
(***************************************************************************)
(* The test vector generator generate.c and load_testvecs, the function of *)
(* run-experiment.py that reads what the generator printed.                *)
(*                                                                         *)
(* The generator prints a vector in two halves with the optional check of  *)
(* the tag between them, and reports every failure on the same stdout that *)
(* is redirected into the vector file.  It can be interrupted, and the     *)
(* file can be read, at any point: a file of an unfinished run is cut at   *)
(* an arbitrary character, because stdout is flushed in blocks.            *)
(*                                                                         *)
(* Bytes are symbolic.  A random byte string is its place in the stream of *)
(* rand() and its length; a ciphertext and a tag are terms over the inputs *)
(* of the mode.  A printed string keeps its number of hexadecimal digits.  *)
(*                                                                         *)
(* A definition introduced as a slip is a mistake that the next definition *)
(* could have had; it is part of no behaviour.                             *)
(***************************************************************************)
EXTENDS Integers, Sequences, FiniteSets, SequencesExt

CONSTANTS
  ArgLists, \* the command lines the generator may be started with
  Stray     \* the contents that the memory after a buffer may have

VARIABLES
  pc,      \* the statement the generator is at
  args,    \* its command line
  pair,    \* the (mlen, samples) pair being generated
  sample,  \* the loop index of generate_f
  pos,     \* bytes drawn from rand() since srand(1)
  cur,     \* the message, key, nonce, ciphertext and tag buffers
  out,     \* everything printed to stdout
  status,  \* the exit status
  made,    \* history: the vectors printed in full
  loaded   \* the result of load_testvecs

vars == <<pc, args, pair, sample, pos, cur, out, status, made, loaded>>

(* A command line: the --check flag, the primitive as the words between    *)
(* its underscores, and the remaining arguments as strtol reads them (0    *)
(* for one that is not a number).  A command line that is too short is one *)
(* with neither the flag nor numbers.  No mlen is negative: an array of    *)
(* negative size is undefined.                                             *)
ArgList == [check : BOOLEAN, primitive : Seq(STRING), nums : Seq(Int)]

ASSUME ArgsAssumption ==
  /\ ArgLists # {} /\ ArgLists \subseteq ArgList
  /\ \A a \in ArgLists : \A i \in DOMAIN a.nums : i % 2 = 1 => a.nums[i] >= 0
  /\ Stray # {}
-----------------------------------------------------------------------------
(* The primitives, in the order in which generate compares their names.    *)
Primitive(name, keylen, noncelen, taglen, checks) ==
  [name |-> name, keylen |-> keylen, noncelen |-> noncelen,
   taglen |-> taglen, checks |-> checks]

GCM_SIV  == Primitive(<<"aes", "gcm", "siv", "128">>, 16, 12, 16, FALSE)
GCM      == Primitive(<<"aes", "gcm", "128">>, 16, 12, 16, FALSE)
POBC     == Primitive(<<"aes", "pobc">>, 16, 12, 16, FALSE)
POBC_SIV == Primitive(<<"aes", "pobc", "siv">>, 16, 16, 16, TRUE)
HTMAC    == Primitive(<<"htmac", "aes">>, 16, 12, 16, TRUE)
PMAC     == Primitive(<<"pmac", "aes">>, 16, 12, 16, TRUE)
(* Slip: the nonce of Espeon.                                              *)
JOLTEONLongNonce == Primitive(<<"jolteon", "aes", "128">>, 32, 16, 16, FALSE)
JOLTEON  == Primitive(<<"jolteon", "aes", "128">>, 32, 14, 16, FALSE)
ESPEON   == Primitive(<<"espeon", "aes", "128">>, 32, 16, 16, FALSE)

Primitives == <<GCM_SIV, GCM, POBC, POBC_SIV, HTMAC, PMAC, JOLTEON, ESPEON>>

(* strncmp over the length of the known name: any name it begins.          *)
Names(p, name) == IsPrefix(p.name, name)

Supported(name) == \E i \in DOMAIN Primitives : Names(Primitives[i], name)

(* The first branch of generate that takes the name.                       *)
Branch(name) ==
  CHOOSE i \in DOMAIN Primitives :
    /\ Names(Primitives[i], name)
    /\ \A j \in 1 .. i - 1 : ~Names(Primitives[j], name)

Mode(name) == Primitives[Branch(name)]

(* What the firmware of a mode reads and sends; there is none for          *)
(* htmac_aes.                                                              *)
Board(keyLen, readsNonce, nonceLen, tagLen) ==
  [keyLen |-> keyLen, readsNonce |-> readsNonce, nonceLen |-> nonceLen, tagLen |-> tagLen]

Boards == <<
  <<GCM_SIV, Board(16, TRUE, 12, 16)>>, <<GCM,      Board(16, TRUE, 12, 16)>>,
  <<POBC,    Board(16, TRUE, 12, 16)>>, <<POBC_SIV, Board(16, FALSE, 0, 16)>>,
  <<PMAC,    Board(16, TRUE, 12, 16)>>, <<JOLTEON,  Board(32, TRUE, 14, 16)>>,
  <<ESPEON,  Board(32, TRUE, 16, 16)>> >>
-----------------------------------------------------------------------------
Pairs(a)      == Len(a.nums) \div 2
MLen(a, i)    == a.nums[2 * i - 1]
Samples(a, i) == a.nums[2 * i]

Random(at, n) == [rand |-> at, len |-> n]

(* The number of blocks that the two directions of the CTR-then-MAC modes  *)
(* authenticate.                                                           *)
EncBlocks(p, mlen) == IF p = PMAC THEN (mlen + 15) \div 16 ELSE mlen \div 16
DecBlocks(p, clen) == clen \div 16

(* The last block that enc_pmac_aes128 authenticates extends past the      *)
(* ciphertext buffer.                                                      *)
ReadsPast(p, mlen) == p = PMAC /\ mlen % 16 # 0

RandomBytes == [rand : Nat, len : Nat]

(* What encryption leaves in the ciphertext and tag buffers.               *)
Cipher(p, key, nonce, message) ==
  [enc |-> p.name, key |-> key, nonce |-> nonce, message |-> message,
   len |-> message.len]

Tag(p, key, nonce, message, blocks, stray) ==
  [mac |-> p.name, key |-> key, nonce |-> nonce, message |-> message,
   blocks |-> blocks, stray |-> stray, len |-> p.taglen]

Encrypted(p, message, key, nonce) ==
  {[mode |-> p, message |-> message, key |-> key, nonce |-> nonce,
    ct |-> Cipher(p, key, nonce, message),
    tag |-> Tag(p, key, nonce, message, EncBlocks(p, message.len), s)] :
     s \in IF ReadsPast(p, message.len) THEN {{x} : x \in Stray} ELSE {{}}}

(* The buffers of one vector.                                              *)
MadeVector ==
  LET names == {p.name : p \in Range(Primitives)} IN
  [mode : Range(Primitives), message : RandomBytes, key : RandomBytes,
   nonce : RandomBytes,
   ct : [enc : names, key : RandomBytes, nonce : RandomBytes,
         message : RandomBytes, len : Nat],
   tag : [mac : names, key : RandomBytes, nonce : RandomBytes,
          message : RandomBytes, blocks : Nat, stray : SUBSET Stray, len : Nat]]

(* The mode's own decryption accepts the vector and gives its message.     *)
Accepts(v) ==
  /\ v.tag = Tag(v.mode, v.key, v.nonce, v.message, DecBlocks(v.mode, v.ct.len), {})
  /\ v.ct = Cipher(v.mode, v.key, v.nonce, v.message)
-----------------------------------------------------------------------------
(* What is printed: hexadecimal digits of a byte string, words of a        *)
(* message, single spaces and ends of line.                                *)
Hex(bytes)  == [kind |-> "hex", of |-> bytes, digits |-> 2 * bytes.len]
Word        == [kind |-> "word"]
Space       == [kind |-> "space"]
EndOfLine   == [kind |-> "eol"]

(* A line of n words, none of them a hexadecimal string.                   *)
Text(n) == [i \in 1 .. 2 * n |->
              IF i % 2 = 1 THEN Word ELSE IF i = 2 * n THEN EndOfLine ELSE Space]

(* The contents that a file may have while only some of what was printed   *)
(* has been flushed to it: the last string may miss digits.  No text with  *)
(* a cut word is a line of five strings, so words are not cut.             *)
Cut(text) ==
  UNION {{SubSeq(text, 1, k)} \cup
         (IF k < Len(text) /\ text[k + 1].kind = "hex"
            THEN {Append(SubSeq(text, 1, k), [text[k + 1] EXCEPT !.digits = d]) :
                    d \in 1 .. text[k + 1].digits - 1}
            ELSE {}) : k \in 0 .. Len(text)}

(* Where the pieces of a text end: at the delimiters, and after its end.   *)
PieceEnds(text, kind) ==
  {i \in DOMAIN text : text[i].kind = kind} \cup {Len(text) + 1}

(* str.split and readlines: the pieces of a text between delimiters.       *)
Split(text, kind) ==
  LET ends   == PieceEnds(text, kind)
      End(k) == IF k = 0 THEN 0
                ELSE CHOOSE e \in ends : Cardinality({d \in ends : d <= e}) = k
  IN  [k \in 1 .. Cardinality(ends) |-> SubSeq(text, End(k - 1) + 1, End(k) - 1)]

Lines(text) ==
  LET pieces == Split(text, "eol")
  IN  IF Last(pieces) = <<>> THEN Front(pieces) ELSE pieces

(* bytes.fromhex takes an even number of digits, and the empty string.     *)
IsHex(part) ==
  part = <<>> \/ (Len(part) = 1 /\ part[1].kind = "hex" /\ part[1].digits % 2 = 0)

FromHex(part) ==
  IF part = <<>> THEN [of |-> <<>>, len |-> 0]
  ELSE [of |-> part[1].of, len |-> part[1].digits \div 2]

Parses(line) ==
  LET parts == Split(line, "space")
  IN  Len(parts) = 5 /\ \A i \in 1 .. 5 : IsHex(parts[i])

Parsed(line) ==
  LET parts == Split(line, "space")
  IN  [key |-> FromHex(parts[1]), nonce |-> FromHex(parts[2]),
       message |-> FromHex(parts[3]), ct |-> FromHex(parts[4]), tag |-> FromHex(parts[5])]

NotLoaded == [state |-> "none", vecs |-> <<>>]

(* The script goes on with the vectors, or an exception ends it.           *)
LoadTestvecs(text) ==
  LET lines == Lines(text)
  IN  IF \A i \in DOMAIN lines : Parses(lines[i])
        THEN [state |-> "vectors", vecs |-> [i \in DOMAIN lines |-> Parsed(lines[i])]]
        ELSE [state |-> "exception", vecs |-> <<>>]
-----------------------------------------------------------------------------
Init ==
  /\ pc = "main" /\ args \in ArgLists
  /\ pair = 1 /\ sample = 0 /\ pos = 0 /\ cur = <<>>
  /\ out = <<>> /\ status = 0 /\ made = <<>>
  /\ loaded = NotLoaded

(* Slip: the message goes to stderr, not into the vector file.             *)
FailQuietly(text, code) ==
  /\ out' = out /\ status' = code /\ pc' = "exit"
  /\ UNCHANGED <<args, pair, sample, pos, cur, made, loaded>>

(* A message on stdout and an exit status.                                 *)
Fail(text, code) ==
  /\ out' = out \o text /\ status' = code /\ pc' = "exit"
  /\ UNCHANGED <<args, pair, sample, pos, cur, made, loaded>>

TooShort(a) == ~a.check /\ a.nums = <<>>

Usage       == pc = "main" /\ TooShort(args) /\ Fail(Text(5), 1)

Unsupported ==
  /\ pc = "main" /\ ~TooShort(args) /\ ~Supported(args.primitive)
  /\ Fail(Text(3), 2)

Unreadable(a) == \E i \in 1 .. 2 * Pairs(a) : a.nums[i] = 0

CannotParse ==
  /\ pc = "main" /\ ~TooShort(args) /\ Supported(args.primitive)
  /\ Unreadable(args)
  /\ Fail(Text(6), 3)

ParseArgs ==
  /\ pc = "main" /\ ~TooShort(args) /\ Supported(args.primitive)
  /\ ~Unreadable(args)
  /\ pc' = "generate"
  /\ UNCHANGED <<args, pair, sample, pos, cur, out, status, made, loaded>>

(* generate refuses to check a mode whose decryption it does not have.     *)
CannotCheck ==
  /\ pc = "generate" /\ pair <= Pairs(args)
  /\ args.check /\ ~Mode(args.primitive).checks
  /\ Fail(Text(6), 254)

(* Slip: main seeds the stream once.                                       *)
GenerateUnseeded ==
  /\ pc = "generate" /\ pair <= Pairs(args)
  /\ args.check => Mode(args.primitive).checks
  /\ sample' = 0 /\ pos' = pos /\ pc' = "sample"
  /\ UNCHANGED <<args, pair, cur, out, status, made, loaded>>

(* generate takes a branch and calls generate_f, which seeds the stream.   *)
Generate ==
  /\ pc = "generate" /\ pair <= Pairs(args)
  /\ args.check => Mode(args.primitive).checks
  /\ sample' = 0 /\ pos' = 0 /\ pc' = "sample"
  /\ UNCHANGED <<args, pair, cur, out, status, made, loaded>>

(* Slip: the loop runs to i <= samples.                                    *)
MoreUnequal == sample <= Samples(args, pair)

More == sample < Samples(args, pair)

(* Slip: the check is skipped.                                             *)
AfterPlainUnchecked == "cipher"

AfterPlain == IF args.check THEN "check" ELSE "cipher"

(* Slip: every buffer is filled from a newly seeded stream.                *)
PrintPlainReseeded ==
  /\ pc = "sample" /\ More
  /\ LET p == Mode(args.primitive)
     IN  cur' \in Encrypted(p, Random(0, MLen(args, pair)), Random(0, p.keylen),
                            Random(0, p.noncelen))
  /\ pc' = AfterPlain
  /\ UNCHANGED <<args, pair, sample, pos, out, status, made, loaded>>

(* One iteration of generate_f up to its check: draw, encrypt, print what  *)
(* the board will be sent.                                                 *)
PrintPlain ==
  /\ pc = "sample" /\ More
  /\ LET p       == Mode(args.primitive)
         mlen    == MLen(args, pair)
         message == Random(pos, mlen)
         key     == Random(pos + mlen, p.keylen)
         nonce   == Random(pos + mlen + p.keylen, p.noncelen)
     IN  /\ cur' \in Encrypted(p, message, key, nonce)
         /\ pos' = pos + mlen + p.keylen + p.noncelen
         /\ out' = out \o <<Hex(key), Space, Hex(nonce), Space, Hex(message), Space>>
  /\ pc' = AfterPlain
  /\ UNCHANGED <<args, pair, sample, status, made, loaded>>

CheckPasses ==
  /\ pc = "check" /\ Accepts(cur) /\ pc' = "cipher"
  /\ UNCHANGED <<args, pair, sample, pos, cur, out, status, made, loaded>>

CheckFails == pc = "check" /\ ~Accepts(cur) /\ Fail(Text(2), 255)

(* Slip: the tag is printed first.                                         *)
SecondHalfTagFirst(v) == <<Hex(v.tag), Space, Hex(v.ct), EndOfLine>>

SecondHalf(v) == <<Hex(v.ct), Space, Hex(v.tag), EndOfLine>>

(* The rest of the iteration.                                              *)
PrintCipher ==
  /\ pc = "cipher"
  /\ out' = out \o SecondHalf(cur)
  /\ made' = Append(made, [vec |-> cur, index |-> sample])
  /\ sample' = sample + 1 /\ pc' = "sample"
  /\ UNCHANGED <<args, pair, pos, cur, status, loaded>>

NextPair ==
  /\ pc = "sample" /\ ~More
  /\ pair' = pair + 1 /\ pc' = "generate"
  /\ UNCHANGED <<args, sample, pos, cur, out, status, made, loaded>>

Done ==
  /\ pc = "generate" /\ pair > Pairs(args)
  /\ pc' = "exit"
  /\ UNCHANGED <<args, pair, sample, pos, cur, out, status, made, loaded>>

(* Ctrl-C or a crash of the host: what is not flushed is lost.             *)
Kill ==
  /\ pc \notin {"exit", "killed"}
  /\ pc' = "killed"
  /\ UNCHANGED <<args, pair, sample, pos, cur, out, status, made, loaded>>

(* The script is started on the file, at any time; the exit of the         *)
(* generator flushes all that was printed.                                 *)
Load ==
  /\ loaded = NotLoaded
  /\ \E text \in IF pc = "exit" THEN {out} ELSE Cut(out) : loaded' = LoadTestvecs(text)
  /\ UNCHANGED <<pc, args, pair, sample, pos, cur, out, status, made>>

Next ==
  \/ Usage \/ Unsupported \/ CannotParse \/ ParseArgs \/ CannotCheck \/ Generate
  \/ PrintPlain \/ CheckPasses \/ CheckFails \/ PrintCipher \/ NextPair \/ Done
  \/ Kill \/ Load

Spec == Init /\ [][Next]_vars
-----------------------------------------------------------------------------
(* The generator's loops keep their bounds, and its exit status is one of  *)
(* those of main and generate: generate.c 175-221, 343-400.                *)
TypeOK ==
  /\ pc \in {"main", "generate", "sample", "check", "cipher", "exit", "killed"}
  /\ args \in ArgLists
  /\ pair \in 1 .. Pairs(args) + 1 /\ pos \in Nat
  /\ sample \in Nat
  /\ pc \in {"check", "cipher"} => sample < Samples(args, pair)
  /\ status \in {0, 1, 2, 3, 254, 255}
  /\ status # 0 => pc = "exit"
  /\ pc \in {"check", "cipher"} => cur \in MadeVector
  /\ made \in Seq([vec : MadeVector, index : Nat])

Whole(part, bytes) == part = [of |-> bytes, len |-> bytes.len]

(* Whatever the file holds when the script reads it, also while the        *)
(* generator is still writing or after it was killed, the vectors that     *)
(* load_testvecs accepts are the first ones the generator made, and only   *)
(* the tag of the last one can have lost its end: the field order of       *)
(* generate.c 192-218 against run-experiment.py 101-114.                   *)
LoadsGenerated ==
  LET vecs == loaded.vecs
  IN  /\ Len(vecs) <= Len(made)
      /\ \A i \in DOMAIN vecs :
           LET v == made[i].vec
           IN  /\ Whole(vecs[i].key, v.key) /\ Whole(vecs[i].nonce, v.nonce)
               /\ Whole(vecs[i].message, v.message) /\ Whole(vecs[i].ct, v.ct)
               /\ i < Len(vecs) => Whole(vecs[i].tag, v.tag)
               /\ vecs[i].tag.len <= v.tag.len
               /\ vecs[i].tag.len > 0 => vecs[i].tag.of = v.tag

(* A vector that the script takes from a file generated with --check has   *)
(* passed its mode's own decryption, however the generator ended: the      *)
(* check stands between the two halves of a line, generate.c 198-214.      *)
LoadsChecked ==
  args.check => \A i \in DOMAIN loaded.vecs : Accepts(made[i].vec)

(* The vectors of a command line: a pair and a sample of it.               *)
Asked == UNION {{i} \X (0 .. Samples(args, i) - 1) : i \in 1 .. Pairs(args)}

(* The script accepts the whole output of the generator exactly if the     *)
(* generator succeeded, and then it has all the vectors asked for: every   *)
(* error message on stdout (generate.c 203, 210, 235-318, 347-388) is a    *)
(* line that load_testvecs rejects.                                        *)
LoadsAllOrNothing ==
  [][(pc = "exit" /\ loaded' # loaded) =>
       IF status = 0
         THEN /\ loaded'.state = "vectors"
              /\ Len(loaded'.vecs) = Cardinality(Asked)
         ELSE loaded'.state = "exception"]_vars

(* A vector depends on the primitive, the message length and its place     *)
(* among the vectors of that length only, not on what was generated before *)
(* it: generate_f seeds the stream anew, generate.c 184.  Of the tags this *)
(* holds where encryption reads no memory past its buffer.                 *)
Reproducible ==
  \A i, j \in DOMAIN made :
    LET v == made[i].vec
        w == made[j].vec
    IN  (made[i].index = made[j].index /\ v.message.len = w.message.len) =>
          /\ v.message = w.message /\ v.key = w.key /\ v.nonce = w.nonce /\ v.ct = w.ct
          /\ ReadsPast(v.mode, v.message.len) \/ v.tag = w.tag

Disjoint(a, b) == a.rand + a.len <= b.rand \/ b.rand + b.len <= a.rand

(* No two vectors of one length share a byte of the random stream, so no   *)
(* key comes with a nonce twice: fill_rand, generate.c 187-189.            *)
FreshBytes ==
  \A i, j \in DOMAIN made :
    LET parts(v) == {v.message, v.key, v.nonce}
    IN  (made[i].index # made[j].index
          /\ made[i].vec.message.len = made[j].vec.message.len) =>
            \A a \in parts(made[i].vec), b \in parts(made[j].vec) : Disjoint(a, b)

(* A vector loaded from a file for a primitive has the lengths that the    *)
(* firmware of the primitive reads and sends, except for a tag that was    *)
(* cut: generate.c 229-315 against KEY_LEN, NONCE_LEN and TAG_LEN.         *)
MatchesBoard ==
  \A b \in Range(Boards) : b[1].name = args.primitive =>
    \A i \in DOMAIN loaded.vecs :
      LET v == loaded.vecs[i]
      IN  /\ v.key.len = b[2].keyLen /\ v.ct.len = v.message.len
          /\ b[2].readsNonce => v.nonce.len = b[2].nonceLen
          /\ v.tag.len <= b[2].tagLen
          /\ i < Len(loaded.vecs) => v.tag.len = b[2].tagLen

(* generate.c 353 lists aes_pobc_siv as a supported primitive: the vectors *)
(* for a listed name are vectors of the mode with this name.               *)
NamedMode ==
  \A i \in DOMAIN made : \A p \in Range(Primitives) :
    p.name = args.primitive => made[i].vec.mode = p

(* generate.c 348 says of --check that it checks if encryption produces a  *)
(* valid ciphertext: encryption followed by its own decryption succeeds.   *)
CheckSucceeds == status # 255
=============================================================================
