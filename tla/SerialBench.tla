------------------------------ MODULE SerialBench ------------------------------
(***************************************************************************)
(* The benchmark link of IoT-benchmark: the host script run-experiment.py, *)
(* the firmware of an STM32F407 board (the main loop that the *_benchmark  *)
(* programs share) and the two directions of the UART between them.        *)
(*                                                                         *)
(* The host walks through a file of test vectors.  For each it writes a    *)
(* frame (header, message length, message, key and, on one of its two      *)
(* branches, nonce), then reads a line with a cycle count, the ciphertext  *)
(* and the tag.  Neither side has a timeout, a checksum or a sequence      *)
(* number, the board does not resynchronise on a bad header, and the USART *)
(* holds one byte, so bytes that arrive while the board is not polling are *)
(* lost.  The script can be interrupted and run again, and the board can   *)
(* be reset, between any two steps.                                        *)
(*                                                                         *)
(* A definition introduced as a slip is a mistake that the next definition *)
(* could have had; it is part of no behaviour.                             *)
(***************************************************************************)
EXTENDS Integers, Sequences

CONSTANTS
  Base,           \* number of values of a byte: 256 in the code
  MaxMessageLen,  \* MAX_MESSAGE_LEN of the firmware
  KeyLen,         \* KEY_LEN of the firmware
  NonceLen,       \* NONCE_LEN of the firmware
  TagLen,         \* TAG_LEN (IV_LEN in the SIV firmware)
  ReadsNonce,     \* FALSE for aes_obc_siv_benchmark.c, TRUE for the others
  FailLens,       \* message lengths for which the flashed mode returns non-zero
  MallocOutcomes, \* the results the two malloc calls may have
  Digits,         \* characters of a printed cycle count
  NCycleCounts,   \* the script's --cyclecounts
  SampleFiles,    \* the vector files the script may be run on
  Careful,        \* the operator starts the script on an idle board and
                  \* resets the board only between runs
  MaxSessions,    \* bound: runs of the script
  MaxBoots,       \* bound: boots of the board
  MaxDown         \* bound: unread bytes from a board without memory

Byte == 0 .. Base - 1

(* A line of a vector file as load_testvecs parses it.  Of ciphertext and  *)
(* tag the script only ever uses the lengths.                              *)
Vector == [message : Seq(Byte), key : Seq(Byte), nonce : Seq(Byte),
           ctLen : Nat, tagLen : Nat]

(* A vector file: the words "pobc" and "siv" that its lower-cased path     *)
(* contains, and its vectors.                                              *)
SampleFile == [path : SUBSET {"pobc", "siv"}, vecs : Seq(Vector)]

ASSUME ConstantsAssumption ==
  /\ Base \in Nat /\ Base > 1
  /\ MaxMessageLen \in Nat
  /\ KeyLen \in Nat \ {0} /\ NonceLen \in Nat \ {0} /\ TagLen \in Nat
  /\ ReadsNonce \in BOOLEAN /\ Careful \in BOOLEAN
  /\ FailLens \subseteq Nat
  /\ MallocOutcomes \subseteq BOOLEAN /\ MallocOutcomes # {}
  /\ Digits \in Nat \ {0} /\ NCycleCounts \in Nat \ {0}
  /\ SampleFiles # {} /\ SampleFiles \subseteq SampleFile
  /\ \A f \in SampleFiles : f.vecs # <<>>
  /\ MaxSessions \in Nat /\ MaxBoots \in Nat /\ MaxDown \in Nat

VARIABLES
  hpc,      \* the script: the statement it is about to execute
  samples,  \* the script: the file it was started on
  cur,      \* the script: index of the test vector in benchmark_testvec
  row,      \* the script: cycle_counts of this vector
  cnts,     \* the script: cnts, one row per finished vector
  output,   \* rows in the file named by -o
  session,  \* number of runs of the script so far
  dpc,      \* the board: what its main loop is doing
  rx,       \* the board: bytes of the current recv_USART_bytes
  mlen,     \* the board: message_len
  tx,       \* the board: bytes it still has to send
  boots,    \* number of boots of the board so far
  up,       \* bytes written by the script that the board has not read
  down,     \* bytes sent by the board that the script has not read
  clean     \* history: this run began on an idle board that was not reset since

host   == <<samples, cur, row, cnts, output, session>>
device == <<rx, mlen, tx, boots>>
vars   == <<hpc, host, dpc, device, up, down, clean>>

-----------------------------------------------------------------------------
(* What travels on the wires.  Upwards plain bytes; downwards tokens: a     *)
(* digit of a cycle count, a byte of ciphertext or tag, a character of     *)
(* some other text, or an end of line.  A reply token carries the input    *)
(* bytes (message, key, nonce) of the encryption it reports on.            *)
HEADER == <<0, Base - 1, 0>>

(* Slip: the other byte order.                                             *)
LenBytesBigEndian(n) == <<n \div Base, n % Base>>

LenBytes(n) == <<n % Base, n \div Base>>

DecodeLen(b) == b[1] + Base * b[2]

Token(kind, of, pos) == [kind |-> kind, of |-> of, pos |-> pos]

NewLine == Token("newline", <<>>, 0)

TextLine == <<Token("text", <<>>, 1), NewLine>>

CountDigits(input) == [i \in 1 .. Digits |-> Token("digit", input, i)]

CipherBytes(input, n) == [i \in 1 .. n |-> Token("cipher", input, i)]

TagBytes(input) == [i \in 1 .. TagLen |-> Token("tag", input, i)]

(* A raw byte of ciphertext or tag can have any value: it may be a line    *)
(* feed or a digit when it is read as text.                                *)
Raw(t) == t.kind \in {"cipher", "tag"}

(* Slip: the tag is sent before the ciphertext.                            *)
ReplyTagFirst(input, n) ==
  CountDigits(input) \o <<NewLine>> \o TagBytes(input) \o CipherBytes(input, n)

Reply(input, n) ==
  CountDigits(input) \o <<NewLine>> \o CipherBytes(input, n) \o TagBytes(input)

(* check_file_type: which of the script's two branches runs.               *)
IsPobcSiv(path) == {"pobc", "siv"} \subseteq path

SendsNonce == ~IsPobcSiv(samples.path)

V == samples.vecs[cur]

-----------------------------------------------------------------------------
(* The board's receiver.                                                   *)

(* Slip in PayloadLen: the firmware does not read the nonce it is sent.    *)
PayloadLenNoNonce(n) == n + KeyLen

(* Slip in PayloadLen: the SIV firmware still reads a nonce.               *)
PayloadLenAlwaysNonce(n) == n + KeyLen + NonceLen

(* Bytes that follow the length: message, key and nonce are read by three  *)
(* consecutive calls with nothing in between, taken together here.         *)
PayloadLen(n) == n + KeyLen + (IF ReadsNonce THEN NonceLen ELSE 0)

Need == CASE dpc = "header"  -> 3
          [] dpc = "length"  -> 2
          [] dpc = "payload" -> PayloadLen(mlen)
          [] OTHER           -> 0

(* The board neither polls the USART nor is about to: it is encrypting or  *)
(* sending, for longer than a byte takes to arrive.                        *)
Busy == dpc \in {"send", "nomem"} \/ (dpc = "payload" /\ Len(rx) = Need)

(* At the top of the main loop with nothing received, nothing on the way.  *)
Idle == dpc = "header" /\ rx = <<>> /\ up = <<>>

-----------------------------------------------------------------------------
Init ==
  /\ hpc = "off" /\ samples \in SampleFiles /\ cur = 1
  /\ row = <<>> /\ cnts = <<>> /\ output = <<>> /\ session = 0
  /\ dpc = "boot" /\ rx = <<>> /\ mlen = 0 /\ tx = <<>> /\ boots = 1
  /\ up = <<>> /\ down = <<>> /\ clean = FALSE

-----------------------------------------------------------------------------
(* The script.                                                             *)
Running == hpc \notin {"off", "dead", "done"}

Start ==
  /\ ~Running
  /\ session < MaxSessions
  /\ Careful => Idle
  /\ samples' \in SampleFiles
  /\ hpc' = "listen" /\ cur' = 1 /\ row' = <<>> /\ cnts' = <<>>
  /\ session' = session + 1 /\ clean' = FALSE
  /\ UNCHANGED <<output, dpc, device, up, down>>

(* listen(ser): print and drop what has arrived.                           *)
Listen ==
  /\ \/ hpc = "listen"  /\ hpc' = "reset"
     \/ hpc = "listen2" /\ hpc' = "mlen"
  /\ down' = <<>>
  /\ UNCHANGED <<host, dpc, device, up, clean>>

ResetInput ==
  /\ hpc = "reset" /\ hpc' = "header"
  /\ down' = <<>>
  /\ clean' = IF cur = 1 THEN Idle ELSE clean
  /\ UNCHANGED <<host, dpc, device, up>>

Write(from, to, bytes) ==
  /\ hpc = from /\ hpc' = to
  /\ up' = up \o bytes
  /\ UNCHANGED <<host, dpc, device, down, clean>>

Die == hpc' = "dead" /\ UNCHANGED host

WriteHeader  == Write("header", "listen2", HEADER)

WriteMlen ==
  /\ Len(V.message) < Base * Base
  /\ Write("mlen", "message", LenBytes(Len(V.message)))

(* len(message).to_bytes(2, ...) raises OverflowError.                     *)
MlenOverflow ==
  /\ hpc = "mlen" /\ Len(V.message) >= Base * Base
  /\ Die
  /\ UNCHANGED <<dpc, device, up, down, clean>>

WriteMessage == Write("message", "key", V.message)

WriteKey     == Write("key", IF SendsNonce THEN "nonce" ELSE "flush", V.key)

WriteNonce   == Write("nonce", "flush", V.nonce)

(* ser.flush() returns when the last byte is on the wire; one byte may sit *)
(* in the board's data register.                                           *)
Flush ==
  /\ hpc = "flush" /\ Len(up) <= 1
  /\ hpc' = "count"
  /\ UNCHANGED <<host, dpc, device, up, down, clean>>

(* readline() returns the n unread bytes up to and including a line feed.  *)
LineOfLength(n) ==
  /\ n \in 1 .. Len(down)
  /\ down[n].kind = "newline" \/ Raw(down[n])
  /\ \A i \in 1 .. n - 1 : down[i].kind # "newline"

(* int(cyclecount) may succeed, may raise.                                 *)
MayParse(line) ==
  /\ line # <<>>
  /\ \A i \in 1 .. Len(line) : line[i].kind = "digit" \/ Raw(line[i])

MayFail(line) ==
  \/ line = <<>>
  \/ \E i \in 1 .. Len(line) : line[i].kind # "digit"

Drop(n) == down' = SubSeq(down, n + 1, Len(down))

ReadCount ==
  /\ hpc = "count"
  /\ \E n \in 1 .. Len(down) :
       /\ LineOfLength(n)
       /\ MayParse(SubSeq(down, 1, n - 1))
       /\ row' = Append(row, SubSeq(down, 1, n - 1))
       /\ Drop(n)
  /\ hpc' = IF Len(row') < NCycleCounts THEN "count" ELSE "cipher"
  /\ UNCHANGED <<samples, cur, cnts, output, session, dpc, device, up, clean>>

(* int() raises, and so does the handler: the script dies.                 *)
ReadGarbage ==
  /\ hpc = "count"
  /\ \E n \in 1 .. Len(down) :
       LineOfLength(n) /\ MayFail(SubSeq(down, 1, n - 1)) /\ Drop(n)
  /\ Die
  /\ UNCHANGED <<dpc, device, up, clean>>

(* Slip: the list of counts is not emptied for the next vector.            *)
ReturnKeepsRow ==
  /\ cnts' = Append(cnts, row) /\ UNCHANGED row
  /\ IF cur < Len(samples.vecs)
       THEN hpc' = "listen" /\ cur' = cur + 1 /\ UNCHANGED output
       ELSE hpc' = "save" /\ output' = <<>> /\ UNCHANGED cur
  /\ UNCHANGED <<samples, session>>

(* Slip: the output file is opened without being emptied.                  *)
ReturnAppends ==
  /\ cnts' = Append(cnts, row) /\ row' = <<>>
  /\ IF cur < Len(samples.vecs)
       THEN hpc' = "listen" /\ cur' = cur + 1
       ELSE hpc' = "save" /\ UNCHANGED cur
  /\ UNCHANGED <<samples, session, output>>

(* benchmark_testvec returns; main appends the row and takes the next      *)
(* vector, or opens the output file, which empties it.                     *)
Return ==
  /\ cnts' = Append(cnts, row) /\ row' = <<>>
  /\ IF cur < Len(samples.vecs)
       THEN hpc' = "listen" /\ cur' = cur + 1 /\ UNCHANGED output
       ELSE hpc' = "save" /\ output' = <<>> /\ UNCHANGED cur
  /\ UNCHANGED <<samples, session>>

(* Slip: the script returns without having read the tag.                   *)
ReadCipherOnly ==
  /\ hpc = "cipher" /\ Len(down) >= V.ctLen
  /\ Drop(V.ctLen)
  /\ Return
  /\ UNCHANGED <<dpc, device, up, clean>>

ReadCipher ==
  /\ hpc = "cipher" /\ Len(down) >= V.ctLen
  /\ Drop(V.ctLen)
  /\ IF V.tagLen > 0 THEN hpc' = "tag" /\ UNCHANGED host ELSE Return
  /\ UNCHANGED <<dpc, device, up, clean>>

ReadTag ==
  /\ hpc = "tag" /\ Len(down) >= V.tagLen
  /\ Drop(V.tagLen)
  /\ Return
  /\ UNCHANGED <<dpc, device, up, clean>>

(* One line of the output file, and its close after the last.              *)
SaveRow ==
  /\ hpc = "save"
  /\ output' = Append(output, cnts[Len(output) + 1])
  /\ hpc' = IF Len(output') = Len(cnts) THEN "done" ELSE "save"
  /\ UNCHANGED <<samples, cur, row, cnts, session, dpc, device, up, down, clean>>

(* Interrupted by the user, or killed.                                     *)
Interrupt ==
  /\ Running /\ Die
  /\ UNCHANGED <<dpc, device, up, down, clean>>

-----------------------------------------------------------------------------
(* The board.                                                              *)

(* usart_setup, the two malloc calls, then "Ready!".                       *)
Boot ==
  /\ dpc = "boot"
  /\ \E ok \in MallocOutcomes :
       IF ok THEN dpc' = "send" /\ tx' = TextLine
             ELSE dpc' = "nomem" /\ UNCHANGED tx
  /\ UNCHANGED <<hpc, host, rx, mlen, boots, up, down, clean>>

CannotAllocate ==
  /\ dpc = "nomem" /\ Len(down) + 2 <= MaxDown
  /\ down' = down \o TextLine
  /\ UNCHANGED <<hpc, host, dpc, device, up, clean>>

(* Slip: one byte too many.                                                *)
RecvByteTooMany ==
  /\ dpc \in {"header", "length", "payload"} /\ Len(rx) <= Need /\ up # <<>>
  /\ rx' = Append(rx, Head(up)) /\ up' = Tail(up)
  /\ UNCHANGED <<hpc, host, dpc, mlen, tx, boots, down, clean>>

(* One iteration of recv_USART_bytes.                                      *)
RecvByte ==
  /\ Len(rx) < Need /\ up # <<>>
  /\ rx' = Append(rx, Head(up)) /\ up' = Tail(up)
  /\ UNCHANGED <<hpc, host, dpc, mlen, tx, boots, down, clean>>

CheckHeader ==
  /\ dpc = "header" /\ Len(rx) = Need
  /\ dpc' = IF rx = HEADER THEN "length" ELSE "header"
  /\ rx' = <<>>
  /\ UNCHANGED <<hpc, host, mlen, tx, boots, up, down, clean>>

(* "Message too large!" goes back to the top without reading the message.  *)
CheckLength ==
  /\ dpc = "length" /\ Len(rx) = Need
  /\ mlen' = DecodeLen(rx) /\ rx' = <<>>
  /\ IF mlen' > MaxMessageLen THEN dpc' = "send" /\ tx' = TextLine
                              ELSE dpc' = "payload" /\ UNCHANGED tx
  /\ UNCHANGED <<hpc, host, boots, up, down, clean>>

(* Encrypt with the cycle counter running; then sprintf what is to be sent. *)
Encrypt ==
  /\ dpc = "payload" /\ Len(rx) = Need
  /\ tx' = IF mlen \in FailLens THEN TextLine ELSE Reply(rx, mlen)
  /\ dpc' = "send" /\ rx' = <<>>
  /\ UNCHANGED <<hpc, host, mlen, boots, up, down, clean>>

(* One iteration of send_USART_str or send_USART_bytes.                    *)
SendByte ==
  /\ dpc = "send"
  /\ down' = Append(down, Head(tx)) /\ tx' = Tail(tx)
  /\ dpc' = IF Len(tx) = 1 THEN "header" ELSE "send"
  /\ UNCHANGED <<hpc, host, rx, mlen, boots, up, clean>>

-----------------------------------------------------------------------------
(* The UART.                                                               *)

(* The data register holds one byte: the next one to arrive while the      *)
(* board is busy is lost.                                                  *)
Overrun ==
  /\ Busy /\ Len(up) > 1
  /\ up' = <<up[1]>> \o SubSeq(up, 3, Len(up))
  /\ UNCHANGED <<hpc, host, dpc, device, down, clean>>

(* Before usart_enable nothing is received.                                *)
NotListening ==
  /\ dpc = "boot" /\ up # <<>>
  /\ up' = Tail(up)
  /\ UNCHANGED <<hpc, host, dpc, device, down, clean>>

(* The reset button, or a new program flashed.                             *)
ResetBoard ==
  /\ boots < MaxBoots /\ dpc # "boot"
  /\ Careful => ~Running
  /\ dpc' = "boot" /\ boots' = boots + 1
  /\ rx' = <<>> /\ tx' = <<>> /\ mlen' = 0 /\ clean' = FALSE
  /\ UNCHANGED <<hpc, host, up, down>>

-----------------------------------------------------------------------------
HostStep ==
  \/ Listen \/ ResetInput \/ WriteHeader \/ WriteMlen \/ MlenOverflow
  \/ WriteMessage \/ WriteKey \/ WriteNonce \/ Flush
  \/ ReadCount \/ ReadGarbage \/ ReadCipher \/ ReadTag \/ SaveRow

DeviceStep ==
  Boot \/ RecvByte \/ CheckHeader \/ CheckLength \/ Encrypt \/ SendByte

Next ==
  \/ HostStep \/ DeviceStep
  \/ CannotAllocate \/ Overrun \/ NotListening
  \/ Start \/ Interrupt \/ ResetBoard

Spec == Init /\ [][Next]_vars

(* Both programs run; nothing makes the operator act or bytes get lost.    *)
FairSpec == Spec /\ WF_vars(HostStep) /\ WF_vars(DeviceStep)

-----------------------------------------------------------------------------
(* Correctness.                                                            *)
Rx == {"header", "length", "payload"}

Tokens ==
  [kind : {"digit", "newline", "text", "cipher", "tag"}, of : Seq(Byte), pos : Nat]

HostType ==
  /\ hpc \in {"off", "listen", "reset", "header", "listen2", "mlen", "message",
              "key", "nonce", "flush", "count", "cipher", "tag", "save",
              "done", "dead"}
  /\ samples \in SampleFiles
  /\ cur \in 1 .. Len(samples.vecs)
  /\ row \in Seq(Seq(Tokens)) /\ cnts \in Seq(Seq(Seq(Tokens)))
  /\ output \in Seq(Seq(Seq(Tokens)))
  /\ (hpc = "save") => Len(output) < Len(cnts)
  /\ session \in Nat /\ clean \in BOOLEAN

BoardType ==
  /\ dpc \in Rx \cup {"boot", "nomem", "send"}
  /\ rx \in Seq(Byte) /\ mlen \in Nat /\ tx \in Seq(Tokens) /\ boots \in Nat
  /\ IF dpc = "send" THEN tx # <<>> ELSE tx = <<>>
  /\ IF dpc \in Rx THEN Len(rx) <= Need ELSE rx = <<>>

WireType == up \in Seq(Byte) /\ down \in Seq(Tokens)

(* Every variable keeps its type, the board never stores more bytes than   *)
(* the buffer it is filling takes and never sends past the end of a string.*)
TypeOK == HostType /\ BoardType /\ WireType

(* What the board must have encrypted when it reports on vector v.         *)
Input(v) == v.message \o v.key \o (IF ReadsNonce THEN v.nonce ELSE <<>>)

(* The row that belongs to vector v.                                       *)
RowFor(v) == <<CountDigits(Input(v))>>

(* The file fits the flashed program and the chosen branch of the script.  *)
MatchedVector(v) ==
  /\ Len(v.key) = KeyLen
  /\ ReadsNonce => Len(v.nonce) = NonceLen
  /\ v.ctLen = Len(v.message) /\ v.tagLen = TagLen

Matched(f) ==
  /\ IsPobcSiv(f.path) = ~ReadsNonce
  /\ NCycleCounts = 1
  /\ \A i \in 1 .. Len(f.vecs) : MatchedVector(f.vecs[i])

Fits(v) ==
  /\ Len(v.message) < Base * Base
  /\ Len(v.message) <= MaxMessageLen /\ Len(v.message) \notin FailLens

InStep == clean /\ Matched(samples)

(* benchmark_testvec is at work on V.                                      *)
Exchanging == Running /\ hpc # "save"

(* Every cycle count the script has kept in a run that began on an idle    *)
(* board is the whole count the board printed for that very vector: no     *)
(* shift by one, no count of a stale or mixed-up input, no digits missing. *)
CountsBelong ==
  InStep =>
    /\ \A i \in 1 .. Len(cnts) : cnts[i] = RowFor(samples.vecs[i])
    /\ hpc \in {"cipher", "tag"} => row = RowFor(V)

(* listen() and reset_input_buffer() drop whatever has arrived: in such a  *)
(* run they never have anything of a reply to drop.                        *)
NothingDiscarded ==
  (InStep /\ hpc \in {"listen", "reset", "header", "listen2"}) =>
    down = <<>> /\ tx = <<>>

(* While the board is busy with a vector it can encrypt, no byte is on its *)
(* way to it: the one-byte data register is never overrun.                 *)
NothingLost ==
  (InStep /\ Exchanging /\ Fits(V) /\ Busy) => up = <<>>

(* The script's read(len(ciphertext)) and read(len(tag)) return the bytes  *)
(* of this vector's reply, all of them and in order.                       *)
ReplyMatches ==
  [][InStep =>
       /\ ReadCipher => SubSeq(down, 1, V.ctLen) = CipherBytes(Input(V), V.ctLen)
       /\ ReadTag => SubSeq(down, 1, V.tagLen) = TagBytes(Input(V))]_vars

(* The script dies of a line that is no number only for a vector that the  *)
(* board refuses.                                                          *)
NoGarbage == [][(ReadGarbage /\ InStep) => ~Fits(V)]_vars

(* Nobody waits for ever: a run in step ends, with every row saved unless  *)
(* somebody interferes or a vector is refused.                             *)
EndsWell ==
  (InStep /\ Running) ~>
    \/ hpc = "done" /\ Len(output) = Len(samples.vecs)
    \/ hpc = "dead" \/ ~clean

(* README: the script "sends a test vector (key, nonce, message) to the     *)
(* connected M4, receives ciphertext, tag and the cycle count": having     *)
(* sent a vector it does not wait for the cycle count for ever.            *)
ReceivesCount == (hpc = "count") ~> (hpc # "count")

-----------------------------------------------------------------------------
(* Why it is so.  In a run in step, an exchange is in one of three stages.  *)
Frame(v) == HEADER \o LenBytes(Len(v.message)) \o Input(v)

FrameLen(v) == 5 + PayloadLen(Len(v.message))

(* Bytes of V's frame that the script has written.                         *)
Written ==
  CASE hpc \in {"listen", "reset", "header"} -> 0
    [] hpc \in {"listen2", "mlen"} -> 3
    [] hpc = "message" -> 5
    [] hpc = "key"     -> 5 + Len(V.message)
    [] hpc = "nonce"   -> 5 + Len(V.message) + KeyLen
    [] OTHER           -> FrameLen(V)

(* Bytes of V's frame that earlier calls of recv_USART_bytes have taken.   *)
Taken == CASE dpc = "length" -> 3 [] dpc = "payload" -> 5 [] OTHER -> 0

(* The board is reading the frame: what it has read and what is still on   *)
(* the wire make up what the script has written, and no reply is pending.  *)
Receiving ==
  /\ dpc \in Rx /\ tx = <<>> /\ down = <<>>
  /\ hpc \notin {"cipher", "tag"} /\ (hpc = "nonce" => SendsNonce)
  /\ Taken + Len(rx) + Len(up) = Written
  /\ \A k \in 1 .. Len(rx) : rx[k] = Frame(V)[Taken + k]
  /\ \A k \in 1 .. Len(up) : up[k] = Frame(V)[Taken + Len(rx) + k]
  /\ (Written > 3) => (Len(V.message) < Base * Base)
  /\ (dpc = "payload") => (mlen = Len(V.message) /\ mlen <= MaxMessageLen)

(* Tokens of V's reply that the script has read.                           *)
Consumed ==
  CASE hpc = "cipher" -> Digits + 1
    [] hpc = "tag"    -> Digits + 1 + Len(V.message)
    [] OTHER          -> 0

(* The board is sending its reply: what has arrived and what it still has  *)
(* to send make up the part of the reply that the script has not read.     *)
Replying ==
  LET reply == Reply(Input(V), Len(V.message)) IN
  /\ hpc \in {"flush", "count", "cipher", "tag"}
  /\ Fits(V)
  /\ up = <<>> /\ rx = <<>>
  /\ dpc = IF tx = <<>> THEN "header" ELSE "send"
  /\ Consumed + Len(down) + Len(tx) = Len(reply)
  /\ \A k \in 1 .. Len(down) : down[k] = reply[Consumed + k]
  /\ \A k \in 1 .. Len(tx) : tx[k] = reply[Consumed + Len(down) + k]

(* The board has refused the vector: the next thing the script will read   *)
(* is the refusal, whatever the rest of the frame makes the board do.      *)
Refused ==
  /\ hpc \in {"message", "key", "nonce", "flush", "count"}
  /\ ~Fits(V)
  /\ IF down = <<>> THEN dpc = "send" /\ tx[1].kind = "text"
                    ELSE down[1].kind = "text"

(* The rows so far are those of the first vectors of the file.             *)
Tally ==
  /\ \A i \in 1 .. Len(cnts) : cnts[i] = RowFor(samples.vecs[i])
  /\ Exchanging => /\ Len(cnts) = cur - 1
                   /\ row = IF hpc \in {"cipher", "tag"} THEN RowFor(V) ELSE <<>>
  /\ hpc \in {"save", "done"} => Len(cnts) = Len(samples.vecs)

(* A run starts with no rows.                                              *)
Fresh == (hpc \in {"listen", "reset"} /\ cur = 1) => (cnts = <<>> /\ row = <<>>)

LinkInv ==
  /\ Fresh
  /\ InStep => Tally /\ (Exchanging => (Receiving \/ Replying \/ Refused))

-----------------------------------------------------------------------------
(* With a careful operator and vectors that fit, the link implements       *)
(* Measurement: what the script has recorded so far is the measurements of *)
(* the first vectors of its file.                                          *)
Phase ==
  CASE hpc = "off"  -> "off"
    [] hpc = "save" -> "saving"
    [] hpc = "done" -> "saved"
    [] hpc = "dead" -> "failed"
    [] OTHER        -> "measuring"

Rows(f) == [i \in 1 .. Len(f.vecs) |-> RowFor(f.vecs[i])]

Promise == INSTANCE Measurement WITH
  Wanted <- {Rows(f) : f \in SampleFiles},
  phase <- Phase, want <- Rows(samples), got <- cnts, saved <- output

Measures == Promise!Spec

=============================================================================
