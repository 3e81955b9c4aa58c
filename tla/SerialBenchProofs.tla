--------------------------- MODULE SerialBenchProofs ---------------------------
(* Theorems about SerialBench, for every value of its constants.           *)
EXTENDS SerialBench, SequenceTheorems, TLAPS

(* Encoding a message length in two bytes loses nothing below Base^2.      *)
LEMMA LenBytesLemma ==
  ASSUME NEW n \in Nat, n < Base * Base
  PROVE  /\ LenBytes(n) \in Seq(Byte)
         /\ Len(LenBytes(n)) = 2
         /\ DecodeLen(LenBytes(n)) = n
<1>1. n = Base * (n \div Base) + (n % Base) /\ n % Base \in 0 .. Base - 1 /\ n \div Base \in Nat
  BY ConstantsAssumption
<1>2. n \div Base < Base
  BY <1>1, ConstantsAssumption
<1>. QED  BY <1>1, <1>2, ConstantsAssumption DEF LenBytes, DecodeLen, Byte

LEMMA VectorLemma ==
  ASSUME HostType
  PROVE  V \in Vector /\ samples \in SampleFile
BY ConstantsAssumption DEF HostType, V, SampleFile

(* Part of a sequence, element by element.                                 *)
LEMMA SubSeqLemma ==
  ASSUME NEW S, NEW s \in Seq(S), NEW i \in Nat \ {0}, NEW j \in Nat, j <= Len(s), i <= j + 1
  PROVE  /\ SubSeq(s, i, j) \in Seq(S)
         /\ Len(SubSeq(s, i, j)) = j - i + 1
         /\ \A k \in 1 .. j - i + 1 : SubSeq(s, i, j)[k] = s[i + k - 1]
OBVIOUS

LEMMA AppendLemma ==
  ASSUME NEW S, NEW s \in Seq(S), NEW e \in S
  PROVE  /\ Append(s, e) \in Seq(S)
         /\ Len(Append(s, e)) = Len(s) + 1
         /\ Append(s, e)[Len(s) + 1] = e
         /\ \A k \in 1 .. Len(s) : Append(s, e)[k] = s[k]
OBVIOUS

LEMMA HeadTailLemma ==
  ASSUME NEW S, NEW s \in Seq(S), s # <<>>
  PROVE  /\ Len(s) \in Nat /\ Len(s) >= 1
         /\ Head(s) = s[1] /\ s[1] \in S
         /\ Tail(s) \in Seq(S)
         /\ Len(Tail(s)) = Len(s) - 1
         /\ \A k \in 1 .. Len(s) - 1 : Tail(s)[k] = s[k + 1]
OBVIOUS

(* Reading n tokens.                                                       *)
LEMMA DropLemma ==
  ASSUME WireType, NEW n \in Nat, n <= Len(down), Drop(n)
  PROVE  /\ down' \in Seq(Tokens)
         /\ Len(down') = Len(down) - n
         /\ \A k \in 1 .. Len(down) - n : down'[k] = down[n + k]
BY DEF WireType, Drop

LEMMA TokenLemma ==
  ASSUME NEW kind \in {"digit", "newline", "text", "cipher", "tag"},
         NEW of \in Seq(Byte), NEW pos \in Nat
  PROVE  Token(kind, of, pos) \in Tokens
BY DEF Token, Tokens

LEMMA TextLineLemma ==
  /\ TextLine \in Seq(Tokens) /\ Len(TextLine) = 2 /\ TextLine # <<>>
  /\ NewLine \in Tokens
  /\ TextLine[1].kind = "text" /\ NewLine.kind = "newline"
<1>. <<>> \in Seq(Byte)
  OBVIOUS
<1>1. Token("text", <<>>, 1) \in Tokens /\ NewLine \in Tokens
  BY DEF NewLine, Token, Tokens
<1>2. Token("text", <<>>, 1).kind = "text" /\ NewLine.kind = "newline"
  BY DEF Token, NewLine
<1>. QED  BY <1>1, <1>2 DEF TextLine

(* Concatenation, element by element.                                      *)
LEMMA ConcatLemma ==
  ASSUME NEW S, NEW s \in Seq(S), NEW t \in Seq(S)
  PROVE  /\ s \o t \in Seq(S)
         /\ Len(s \o t) = Len(s) + Len(t)
         /\ \A i \in 1 .. Len(s) : (s \o t)[i] = s[i]
         /\ \A i \in 1 .. Len(t) : (s \o t)[Len(s) + i] = t[i]
OBVIOUS

(* The reply, token by token.                                              *)
LEMMA ReplyLemma ==
  ASSUME NEW input \in Seq(Byte), NEW n \in Nat
  PROVE  /\ Reply(input, n) \in Seq(Tokens) /\ Reply(input, n) # <<>>
         /\ Len(Reply(input, n)) = Digits + 1 + n + TagLen
         /\ \A i \in 1 .. Digits : Reply(input, n)[i] = Token("digit", input, i)
         /\ Reply(input, n)[Digits + 1] = NewLine
         /\ \A i \in 1 .. n :
              Reply(input, n)[Digits + 1 + i] = Token("cipher", input, i)
         /\ \A i \in 1 .. TagLen :
              Reply(input, n)[Digits + 1 + n + i] = Token("tag", input, i)
<1>. DEFINE c == CountDigits(input)
            m == CipherBytes(input, n)
            t == TagBytes(input)
            h == c \o <<NewLine>>
            g == h \o m
<1>1. c \in Seq(Tokens) /\ Len(c) = Digits
  BY TokenLemma, ConstantsAssumption DEF CountDigits
<1>2. m \in Seq(Tokens) /\ Len(m) = n
  BY TokenLemma DEF CipherBytes
<1>3. t \in Seq(Tokens) /\ Len(t) = TagLen
  BY TokenLemma, ConstantsAssumption DEF TagBytes
<1>4. /\ \A i \in 1 .. Digits : c[i] = Token("digit", input, i)
      /\ \A i \in 1 .. n : m[i] = Token("cipher", input, i)
      /\ \A i \in 1 .. TagLen : t[i] = Token("tag", input, i)
  BY DEF CountDigits, CipherBytes, TagBytes
<1>5. Reply(input, n) = g \o t
  BY DEF Reply
<1>6. <<NewLine>> \in Seq(Tokens) /\ Len(<<NewLine>>) = 1 /\ <<NewLine>>[1] = NewLine
  BY TextLineLemma
<1>. HIDE DEF c, m, t
<1>7. /\ h \in Seq(Tokens) /\ Len(h) = Digits + 1
      /\ \A i \in 1 .. Digits : h[i] = c[i]
      /\ h[Digits + 1] = NewLine
  <2>. DEFINE e == <<NewLine>>
  <2>. e \in Seq(Tokens) /\ Len(e) = 1 /\ e[1] = NewLine
    BY <1>6
  <2>. HIDE DEF e
  <2>1. h = c \o e
    BY DEF e
  <2>. QED  BY <1>1, <2>1, ConcatLemma, ConstantsAssumption
<1>. HIDE DEF h
<1>8. /\ g \in Seq(Tokens) /\ Len(g) = Digits + 1 + n
      /\ \A i \in 1 .. Digits + 1 : g[i] = h[i]
      /\ \A i \in 1 .. n : g[Digits + 1 + i] = m[i]
  <2>1. /\ g \in Seq(Tokens) /\ Len(g) = Len(h) + Len(m)
        /\ \A i \in 1 .. Len(h) : g[i] = h[i]
        /\ \A i \in 1 .. Len(m) : g[Len(h) + i] = m[i]
    <3>1. h \in Seq(Tokens) /\ m \in Seq(Tokens)
      BY <1>2, <1>7
    <3>. QED  BY ONLY <3>1, ConcatLemma
  <2>. QED  BY <2>1, <1>2, <1>7, ConstantsAssumption
<1>. HIDE DEF g
<1>9. /\ g \o t \in Seq(Tokens) /\ Len(g \o t) = Digits + 1 + n + TagLen
      /\ \A i \in 1 .. Digits + 1 + n : (g \o t)[i] = g[i]
      /\ \A i \in 1 .. TagLen : (g \o t)[Digits + 1 + n + i] = t[i]
  <2>1. /\ g \o t \in Seq(Tokens) /\ Len(g \o t) = Len(g) + Len(t)
        /\ \A i \in 1 .. Len(g) : (g \o t)[i] = g[i]
        /\ \A i \in 1 .. Len(t) : (g \o t)[Len(g) + i] = t[i]
    <3>1. g \in Seq(Tokens) /\ t \in Seq(Tokens)
      BY <1>3, <1>8
    <3>. QED  BY ONLY <3>1, ConcatLemma
  <2>. QED  BY <2>1, <1>3, <1>8, ConstantsAssumption
<1>10. \A i \in 1 .. Digits : (g \o t)[i] = c[i]
  BY <1>7, <1>8, <1>9, ConstantsAssumption
<1>11. (g \o t)[Digits + 1] = NewLine
  BY <1>7, <1>8, <1>9, ConstantsAssumption
<1>12. \A i \in 1 .. n : (g \o t)[Digits + 1 + i] = m[i]
  <2>1. \A i \in 1 .. n : Digits + 1 + i \in 1 .. Digits + 1 + n
    BY ConstantsAssumption
  <2>. QED  BY <2>1, <1>8, <1>9
<1>13. g \o t # <<>>
  BY <1>9, EmptySeq, ConstantsAssumption
<1>. QED
  BY <1>4, <1>5, <1>9, <1>10, <1>11, <1>12, <1>13
-----------------------------------------------------------------------------
(* Every variable keeps its type.                                          *)
THEOREM TypeCorrect == Spec => []TypeOK
<1>. USE DEF host, device
<1>1. Init => TypeOK
  <2>. SUFFICES ASSUME Init PROVE TypeOK
    OBVIOUS
  <2>1. samples \in SampleFile /\ samples.vecs # <<>> /\ samples.vecs \in Seq(Vector)
    BY ConstantsAssumption DEF Init, SampleFile
  <2>2. 1 \in 1 .. Len(samples.vecs)
    BY <2>1
  <2>3. HostType
    <3>1. row \in Seq(Seq(Tokens)) /\ cnts \in Seq(Seq(Seq(Tokens))) /\ output \in Seq(Seq(Seq(Tokens)))
      BY EmptySeq DEF Init
    <3>. QED  BY <2>2, <3>1 DEF Init, HostType
  <2>4. BoardType /\ WireType
    BY DEF Init, BoardType, WireType, Rx
  <2>. QED  BY <2>3, <2>4 DEF TypeOK
<1>2. TypeOK /\ [Next]_vars => TypeOK'
  <2>. SUFFICES ASSUME TypeOK, [Next]_vars PROVE TypeOK'
    OBVIOUS
  <2>. HostType /\ BoardType /\ WireType
    BY DEF TypeOK
  <2>. V \in Vector /\ samples \in SampleFile
    BY VectorLemma
  <2>a. UNCHANGED <<dpc, device>> => BoardType'
    BY DEF BoardType, Need
  <2>b. UNCHANGED <<hpc, host, clean>> => HostType'
    BY DEF HostType
  <2>c. UNCHANGED <<up, down>> => WireType'
    BY DEF WireType
  <2>d. ASSUME UNCHANGED host, clean' \in BOOLEAN,
               hpc' \in {"reset", "header", "listen2", "mlen", "message", "key",
                         "nonce", "flush", "count", "cipher", "tag", "dead"}
        PROVE  HostType'
    BY <2>d DEF HostType
  <2>1. CASE Listen
    <3>1. HostType' /\ WireType'
      BY <2>1, <2>d DEF Listen, HostType, WireType
    <3>. QED  BY <2>1, <2>a, <3>1 DEF Listen, TypeOK
  <2>2. CASE ResetInput
    <3>1. HostType'
      BY <2>2, <2>d DEF ResetInput, Idle, HostType
    <3>2. WireType'
      BY <2>2 DEF ResetInput, WireType
    <3>. QED  BY <2>2, <2>a, <3>1, <3>2 DEF ResetInput, TypeOK
  <2>3. ASSUME NEW bytes \in Seq(Byte), NEW to \in {"listen2", "message", "key", "nonce", "flush"},
               NEW from, Write(from, to, bytes)
        PROVE  TypeOK'
    <3>1. HostType'
      BY <2>3, <2>d DEF Write, HostType
    <3>2. WireType'
      BY <2>3 DEF Write, WireType
    <3>. QED  BY <2>3, <2>a, <3>1, <3>2 DEF Write, TypeOK
  <2>4. CASE WriteHeader
    <3>1. HEADER \in Seq(Byte)
      BY ConstantsAssumption DEF HEADER, Byte
    <3>. QED  BY <2>3, <2>4, <3>1 DEF WriteHeader
  <2>5. CASE WriteMlen
    <3>1. LenBytes(Len(V.message)) \in Seq(Byte)
      BY <2>5, LenBytesLemma DEF WriteMlen, Vector
    <3>. QED  BY <2>3, <2>5, <3>1 DEF WriteMlen
  <2>6. CASE MlenOverflow
    BY <2>6, <2>a, <2>c, <2>d DEF MlenOverflow, Die, HostType, TypeOK
  <2>7. CASE WriteMessage
    BY <2>3, <2>7 DEF WriteMessage, Vector
  <2>8. CASE WriteKey
    BY <2>3, <2>8 DEF WriteKey, Vector
  <2>9. CASE WriteNonce
    BY <2>3, <2>9 DEF WriteNonce, Vector
  <2>10. CASE Flush
    BY <2>10, <2>a, <2>c, <2>d DEF Flush, HostType, TypeOK
  <2>11. CASE ReadCount
    <3>1. PICK n \in 1 .. Len(down) :
            row' = Append(row, SubSeq(down, 1, n - 1)) /\ Drop(n)
      BY <2>11 DEF ReadCount
    <3>2. WireType'
      BY <2>11, <3>1, DropLemma DEF ReadCount, WireType
    <3>3. SubSeq(down, 1, n - 1) \in Seq(Tokens)
      BY SubSeqLemma DEF WireType
    <3>4. row' \in Seq(Seq(Tokens))
      <4>1. row \in Seq(Seq(Tokens)) /\ row' = Append(row, SubSeq(down, 1, n - 1))
        BY <3>1 DEF HostType
      <4>. QED  BY <3>3, <4>1, AppendLemma, Zenon
    <3>5. HostType'
      BY <2>11, <3>4 DEF ReadCount, HostType
    <3>. QED  BY <2>11, <2>a, <3>2, <3>5 DEF ReadCount, TypeOK
  <2>12. CASE ReadGarbage
    <3>1. WireType'
      BY <2>12, DropLemma DEF ReadGarbage, WireType
    <3>2. HostType'
      BY <2>12, <2>d DEF ReadGarbage, Die, HostType
    <3>. QED  BY <2>12, <2>a, <3>1, <3>2 DEF ReadGarbage, TypeOK
  <2>13. ASSUME Return, clean' = clean
         PROVE  HostType'
    <3>1. cnts' \in Seq(Seq(Seq(Tokens))) /\ Len(cnts') > 0
      BY <2>13 DEF Return, HostType
    <3>2. row' \in Seq(Seq(Tokens)) /\ output' \in Seq(Seq(Seq(Tokens)))
      BY <2>13, EmptySeq DEF Return, HostType
    <3>3. samples' = samples /\ cur' \in 1 .. Len(samples.vecs)
      BY <2>13 DEF Return, HostType, SampleFile
    <3>4. hpc' = "listen" \/ (hpc' = "save" /\ Len(output') = 0)
      BY <2>13 DEF Return
    <3>. QED  BY <2>13, <3>1, <3>2, <3>3, <3>4 DEF Return, HostType
  <2>14. CASE ReadCipher
    <3>1. WireType'
      BY <2>14, DropLemma DEF ReadCipher, WireType, Vector
    <3>2. HostType'
      BY <2>14, <2>d, <2>13 DEF ReadCipher, HostType
    <3>. QED  BY <2>14, <2>a, <3>1, <3>2 DEF ReadCipher, TypeOK
  <2>15. CASE ReadTag
    <3>1. WireType'
      BY <2>15, DropLemma DEF ReadTag, WireType, Vector
    <3>. QED  BY <2>15, <2>a, <2>13, <3>1 DEF ReadTag, TypeOK
  <2>16. CASE SaveRow
    <3>1. HostType'
      BY <2>16 DEF SaveRow, HostType
    <3>. QED  BY <2>16, <2>a, <2>c, <3>1 DEF SaveRow, TypeOK
  <2>17. CASE Boot
    <3>1. BoardType'
      <4>1. CASE dpc' = "send" /\ tx' = TextLine
        BY <2>17, <4>1, TextLineLemma DEF Boot, BoardType, Rx
      <4>2. CASE dpc' = "nomem" /\ tx' = tx
        BY <2>17, <4>2 DEF Boot, BoardType, Rx
      <4>. QED  BY <2>17, <4>1, <4>2 DEF Boot
    <3>. QED  BY <2>17, <2>b, <2>c, <3>1 DEF Boot, TypeOK
  <2>18. CASE RecvByte
    <3>1. rx' \in Seq(Byte) /\ Len(rx') = Len(rx) + 1 /\ up' \in Seq(Byte)
      BY <2>18 DEF RecvByte, BoardType, WireType
    <3>2. Need' = Need /\ Need \in Int
      <4>1. mlen' = mlen /\ dpc' = dpc /\ mlen \in Nat
        BY <2>18 DEF RecvByte, BoardType
      <4>2. Need' = Need
        BY <4>1 DEF Need
      <4>3. Need \in Int
        BY <4>1, ConstantsAssumption DEF Need, PayloadLen
      <4>. QED  BY <4>2, <4>3
    <3>3. dpc \in Rx
      BY <2>18, <3>2, EmptySeq DEF RecvByte, BoardType, Need, Rx
    <3>4. BoardType'
      <4>1. /\ dpc' = dpc /\ mlen' = mlen /\ tx' = tx /\ boots' = boots
            /\ Len(rx) < Need /\ Len(rx) \in Nat
        BY <2>18 DEF RecvByte, BoardType
      <4>2. Len(rx') <= Need'
        BY <3>1, <3>2, <4>1
      <4>. QED  BY <3>1, <3>3, <4>1, <4>2 DEF BoardType
    <3>. QED  BY <2>18, <2>b, <3>1, <3>4 DEF RecvByte, WireType, TypeOK
  <2>19. CASE CheckHeader
    <3>1. BoardType'
      BY <2>19 DEF CheckHeader, BoardType, Need, Rx
    <3>. QED  BY <2>19, <2>b, <2>c, <3>1 DEF CheckHeader, TypeOK
  <2>20. CASE CheckLength
    <3>1. mlen' \in Nat
      <4>1. rx \in Seq(Byte) /\ Len(rx) = 2
        BY <2>20 DEF CheckLength, BoardType, Need
      <4>2. rx[1] \in Byte /\ rx[2] \in Byte
        BY ONLY <4>1, ElementOfSeq
      <4>. QED  BY <2>20, <4>2, ConstantsAssumption DEF CheckLength, DecodeLen, Byte
    <3>2. dpc' = "payload" => Need' >= 0
      BY <3>1, ConstantsAssumption DEF Need, PayloadLen
    <3>3. BoardType'
      <4>1. CASE dpc' = "send" /\ tx' = TextLine
        BY <2>20, <4>1, <3>1, TextLineLemma DEF CheckLength, BoardType, Rx
      <4>2. CASE dpc' = "payload" /\ tx' = tx
        BY <2>20, <4>2, <3>1, <3>2 DEF CheckLength, BoardType, Rx
      <4>. QED  BY <2>20, <4>1, <4>2 DEF CheckLength
    <3>. QED  BY <2>20, <2>b, <2>c, <3>3 DEF CheckLength, TypeOK
  <2>21. CASE Encrypt
    <3>1. tx' \in Seq(Tokens) /\ tx' # <<>>
      <4>1. CASE tx' = TextLine
        BY <4>1, TextLineLemma
      <4>2. CASE tx' = Reply(rx, mlen)
        BY <4>2, ReplyLemma DEF BoardType
      <4>. QED  BY <2>21, <4>1, <4>2 DEF Encrypt
    <3>2. BoardType'
      BY <2>21, <3>1 DEF Encrypt, BoardType, Rx
    <3>. QED  BY <2>21, <2>b, <2>c, <3>2 DEF Encrypt, TypeOK
  <2>22. CASE SendByte
    <3>0. tx \in Seq(Tokens) /\ tx # <<>> /\ down \in Seq(Tokens)
      BY <2>22 DEF SendByte, BoardType, WireType
    <3>1. tx' \in Seq(Tokens) /\ down' \in Seq(Tokens) /\ (Len(tx) # 1 => tx' # <<>>)
      <4>1. /\ Tail(tx) \in Seq(Tokens) /\ Head(tx) \in Tokens
            /\ Len(Tail(tx)) = Len(tx) - 1 /\ Len(tx) \in Nat
        BY <3>0, HeadTailLemma
      <4>2. Append(down, Head(tx)) \in Seq(Tokens)
        BY <3>0, <4>1
      <4>3. Len(tx) # 1 => Tail(tx) # <<>>
        BY <4>1, EmptySeq
      <4>. QED  BY <2>22, <4>1, <4>2, <4>3 DEF SendByte
    <3>2. BoardType'
      <4>1. dpc' \in {"send", "header"} /\ rx' \in Seq(Byte) /\ mlen' \in Nat /\ boots' \in Nat
        BY <2>22 DEF SendByte, BoardType
      <4>2. IF dpc' = "send" THEN tx' # <<>> ELSE tx' = <<>>
        BY <2>22, <3>0, <3>1, HeadTailLemma, EmptySeq DEF SendByte
      <4>3. rx' = <<>> /\ (dpc' = "header" => Need' = 3)
        BY <2>22 DEF SendByte, BoardType, Rx, Need
      <4>. QED  BY <3>1, <4>1, <4>2, <4>3 DEF BoardType, Rx
    <3>. QED  BY <2>22, <2>b, <3>1, <3>2 DEF SendByte, WireType, TypeOK
  <2>23. CASE CannotAllocate
    <3>1. WireType'
      BY <2>23, TextLineLemma DEF CannotAllocate, WireType
    <3>. QED  BY <2>23, <2>a, <2>b, <3>1 DEF CannotAllocate, TypeOK
  <2>24. CASE Overrun
    <3>1. WireType'
      BY <2>24 DEF Overrun, WireType
    <3>. QED  BY <2>24, <2>a, <2>b, <3>1 DEF Overrun, TypeOK
  <2>25. CASE NotListening
    <3>1. WireType'
      BY <2>25 DEF NotListening, WireType
    <3>. QED  BY <2>25, <2>a, <2>b, <3>1 DEF NotListening, TypeOK
  <2>26. CASE Start
    <3>1. samples' \in SampleFiles /\ 1 \in 1 .. Len(samples'.vecs)
      BY <2>26, ConstantsAssumption DEF Start, SampleFile
    <3>2. HostType'
      <4>1. row' \in Seq(Seq(Tokens)) /\ cnts' \in Seq(Seq(Seq(Tokens)))
        BY <2>26, EmptySeq DEF Start
      <4>2. hpc' = "listen" /\ cur' = 1 /\ session' = session + 1 /\ clean' = FALSE
        BY <2>26 DEF Start
      <4>3. output' \in Seq(Seq(Seq(Tokens))) /\ session \in Nat
        BY <2>26 DEF Start, HostType
      <4>4. cur' \in 1 .. Len(samples'.vecs) /\ session' \in Nat
        BY <3>1, <4>2, <4>3
      <4>. QED  BY <3>1, <4>1, <4>2, <4>3, <4>4 DEF HostType
    <3>. QED  BY <2>26, <2>a, <2>c, <3>2 DEF Start, TypeOK
  <2>27. CASE Interrupt
    BY <2>27, <2>a, <2>c, <2>d DEF Interrupt, Die, HostType, TypeOK
  <2>28. CASE ResetBoard
    <3>1. HostType'
      BY <2>28 DEF ResetBoard, HostType
    <3>2. BoardType'
      BY <2>28 DEF ResetBoard, BoardType, Rx
    <3>. QED  BY <2>28, <2>c, <3>1, <3>2 DEF ResetBoard, TypeOK
  <2>29. CASE UNCHANGED vars
    BY <2>29, <2>a, <2>b, <2>c DEF vars, TypeOK
  <2>. QED
    BY <2>1, <2>2, <2>4, <2>5, <2>6, <2>7, <2>8, <2>9, <2>10, <2>11, <2>12,
       <2>14, <2>15, <2>16, <2>17, <2>18, <2>19, <2>20, <2>21, <2>22,
       <2>23, <2>24, <2>25, <2>26, <2>27, <2>28, <2>29
       DEF Next, HostStep, DeviceStep
<1>. QED  BY <1>1, <1>2, PTL DEF Spec
-----------------------------------------------------------------------------
(* The frame and the encryption's input, byte by byte.                     *)
LEMMA FrameLemma ==
  ASSUME NEW v \in Vector, MatchedVector(v)
  PROVE  LET m == Len(v.message) IN
         /\ m \in Nat /\ PayloadLen(m) \in Nat /\ PayloadLen(m) >= m + KeyLen
         /\ Input(v) \in Seq(Byte) /\ Len(Input(v)) = PayloadLen(m)
         /\ \A k \in 1 .. m : Input(v)[k] = v.message[k]
         /\ \A k \in 1 .. KeyLen : Input(v)[m + k] = v.key[k]
         /\ ReadsNonce => /\ PayloadLen(m) = m + KeyLen + NonceLen
                          /\ \A k \in 1 .. NonceLen : Input(v)[m + KeyLen + k] = v.nonce[k]
         /\ ~ReadsNonce => PayloadLen(m) = m + KeyLen
         /\ \A k \in 1 .. 3 : Frame(v)[k] = HEADER[k]
         /\ \A k \in 1 .. 2 : Frame(v)[3 + k] = LenBytes(m)[k]
         /\ \A k \in 1 .. PayloadLen(m) : Frame(v)[5 + k] = Input(v)[k]
<1>. DEFINE m == Len(v.message)
            b == IF ReadsNonce THEN v.nonce ELSE <<>>
            a == v.message \o v.key
            g == HEADER \o LenBytes(m)
<1>1. v.message \in Seq(Byte) /\ v.key \in Seq(Byte) /\ v.nonce \in Seq(Byte)
  BY DEF Vector
<1>2. m \in Nat /\ Len(v.key) = KeyLen /\ (ReadsNonce => Len(v.nonce) = NonceLen)
  BY <1>1 DEF MatchedVector
<1>3. b \in Seq(Byte) /\ PayloadLen(m) = m + KeyLen + Len(b) /\ Len(b) \in Nat
  <2>1. CASE ReadsNonce
    BY <2>1, <1>1, <1>2 DEF PayloadLen
  <2>2. CASE ~ReadsNonce
    BY <2>2, <1>2, ConstantsAssumption DEF PayloadLen
  <2>. QED  BY <2>1, <2>2
<1>4. /\ HEADER \in Seq(Nat) /\ Len(HEADER) = 3
      /\ LenBytes(m) \in Seq(Nat) /\ Len(LenBytes(m)) = 2
  <2>1. m % Base \in Nat /\ m \div Base \in Nat
    <3>. HIDE DEF m
    <3>. QED  BY <1>2, ConstantsAssumption
  <2>2. Base - 1 \in Nat
    BY ConstantsAssumption
  <2>. QED  BY <2>1, <2>2 DEF HEADER, LenBytes
<1>. HIDE DEF m
<1>5. /\ a \in Seq(Byte) /\ Len(a) = m + KeyLen
      /\ \A k \in 1 .. m : a[k] = v.message[k]
      /\ \A k \in 1 .. KeyLen : a[m + k] = v.key[k]
  <2>. DEFINE x == v.message
              y == v.key
  <2>0. Len(x) = m /\ Len(y) = KeyLen
    BY <1>2 DEF m
  <2>1. x \in Seq(Byte) /\ y \in Seq(Byte)
    BY <1>1
  <2>2. a = x \o y
    OBVIOUS
  <2>. HIDE DEF a, x, y
  <2>3. /\ a \in Seq(Byte) /\ Len(a) = Len(x) + Len(y)
        /\ \A k \in 1 .. Len(x) : a[k] = x[k]
        /\ \A k \in 1 .. Len(y) : a[Len(x) + k] = y[k]
    BY ONLY <2>1, <2>2, ConcatLemma
  <2>. QED  BY <2>0, <2>3 DEF x, y
<1>6. Input(v) = a \o b
  BY DEF Input
<1>. HIDE DEF a, b
<1>7. /\ Input(v) \in Seq(Byte) /\ Len(Input(v)) = Len(a) + Len(b)
      /\ \A k \in 1 .. Len(a) : Input(v)[k] = a[k]
      /\ \A k \in 1 .. Len(b) : Input(v)[Len(a) + k] = b[k]
  <2>1. a \in Seq(Byte) /\ b \in Seq(Byte)
    BY <1>3, <1>5
  <2>. QED  BY ONLY <2>1, <1>6, ConcatLemma
<1>8. /\ g \in Seq(Nat) /\ Len(g) = 5
      /\ \A k \in 1 .. 3 : g[k] = HEADER[k]
      /\ \A k \in 1 .. 2 : g[3 + k] = LenBytes(m)[k]
  <2>. DEFINE x == LenBytes(m)
  <2>0. Len(HEADER) = 3 /\ Len(x) = 2
    BY <1>4
  <2>1. HEADER \in Seq(Nat) /\ x \in Seq(Nat)
    BY <1>4
  <2>2. g = HEADER \o x
    OBVIOUS
  <2>. HIDE DEF g, x
  <2>3. /\ g \in Seq(Nat) /\ Len(g) = Len(HEADER) + Len(x)
        /\ \A k \in 1 .. Len(HEADER) : g[k] = HEADER[k]
        /\ \A k \in 1 .. Len(x) : g[Len(HEADER) + k] = x[k]
    BY ONLY <2>1, <2>2, ConcatLemma
  <2>. QED  BY <2>0, <2>3 DEF x
<1>9. Frame(v) = g \o Input(v)
  BY DEF Frame, m
<1>. HIDE DEF g
<1>10. /\ \A k \in 1 .. Len(g) : Frame(v)[k] = g[k]
       /\ \A k \in 1 .. Len(Input(v)) : Frame(v)[Len(g) + k] = Input(v)[k]
  <2>1. Input(v) \in Seq(Nat) /\ g \in Seq(Nat)
    BY <1>7, <1>8, ConstantsAssumption DEF Byte
  <2>. QED  BY ONLY <2>1, <1>9, ConcatLemma
<1>11. \A k \in 1 .. m : Input(v)[k] = v.message[k]
  BY <1>2, <1>5, <1>7, ConstantsAssumption
<1>12. \A k \in 1 .. KeyLen : Input(v)[m + k] = v.key[k]
  <2>1. \A k \in 1 .. KeyLen : m + k \in 1 .. Len(a)
    BY <1>2, <1>5, ConstantsAssumption
  <2>. QED  BY <2>1, <1>5, <1>7
<1>13. ReadsNonce => \A k \in 1 .. NonceLen : Input(v)[m + KeyLen + k] = v.nonce[k]
  BY <1>2, <1>5, <1>7, ConstantsAssumption DEF b
<1>14. (ReadsNonce => Len(b) = NonceLen) /\ (~ReadsNonce => Len(b) = 0)
  BY <1>2 DEF b
<1>15. Len(Input(v)) = PayloadLen(m) /\ PayloadLen(m) \in Nat
  BY <1>2, <1>3, <1>5, <1>7, ConstantsAssumption
<1>16. \A k \in 1 .. PayloadLen(m) : Frame(v)[5 + k] = Input(v)[k]
  BY <1>8, <1>10, <1>15
<1>17. /\ \A k \in 1 .. 3 : Frame(v)[k] = HEADER[k]
       /\ \A k \in 1 .. 2 : Frame(v)[3 + k] = LenBytes(m)[k]
  <2>1. \A k \in 1 .. 5 : Frame(v)[k] = g[k]
    BY <1>8, <1>10
  <2>. QED  BY <2>1, <1>8
<1>18. /\ PayloadLen(m) >= m + KeyLen
       /\ ReadsNonce => PayloadLen(m) = m + KeyLen + NonceLen
       /\ ~ReadsNonce => PayloadLen(m) = m + KeyLen
  BY <1>2, <1>3, <1>14, ConstantsAssumption
<1>. QED
  BY <1>2, <1>7, <1>11, <1>12, <1>13, <1>15, <1>16, <1>17, <1>18 DEF m
-----------------------------------------------------------------------------
(* What the stages of an exchange mean for the vector at hand.             *)
LEMMA MatchedLemma ==
  ASSUME TypeOK, InStep
  PROVE  /\ V \in Vector /\ MatchedVector(V) /\ SendsNonce = ReadsNonce
         /\ Len(V.message) \in Nat /\ NCycleCounts = 1
<1>1. V \in Vector /\ cur \in 1 .. Len(samples.vecs)
  BY VectorLemma DEF TypeOK, HostType
<1>2. MatchedVector(V) /\ NCycleCounts = 1
  BY <1>1 DEF InStep, Matched, V
<1>3. SendsNonce = ReadsNonce
  BY ConstantsAssumption, Zenon DEF InStep, Matched, SendsNonce
<1>. QED  BY <1>1, <1>2, <1>3 DEF Vector

LEMMA SameVector ==
  ASSUME UNCHANGED host
  PROVE  V' = V /\ SendsNonce' = SendsNonce /\ Matched(samples)' = Matched(samples)
BY DEF V, SendsNonce, host

(* The script writes the next part of the frame.                           *)
LEMMA WriteStep ==
  ASSUME TypeOK, Receiving,
         NEW from, NEW to \in {"listen2", "message", "key", "nonce", "flush"},
         NEW bytes \in Seq(Nat), Write(from, to, bytes),
         Written' = Written + Len(bytes),
         \A k \in 1 .. Len(bytes) : Frame(V)[Written + k] = bytes[k],
         (Written' > 3) => (Len(V.message) < Base * Base),
         (to = "nonce") => SendsNonce
  PROVE  Receiving'
<1>. DEFINE F == Frame(V)
<1>. V' = V /\ SendsNonce' = SendsNonce
  BY SameVector DEF Write
<1>1. F' = F
  OBVIOUS
<1>2. up \in Seq(Nat) /\ bytes \in Seq(Nat)
  BY ConstantsAssumption DEF TypeOK, WireType, Byte
<1>3. up' = up \o bytes
  BY DEF Write
<1>4. /\ Len(up') = Len(up) + Len(bytes)
      /\ \A k \in 1 .. Len(up) : up'[k] = up[k]
      /\ \A k \in 1 .. Len(bytes) : up'[Len(up) + k] = bytes[k]
  BY ONLY <1>2, <1>3, ConcatLemma
<1>5. UNCHANGED <<dpc, rx, mlen, tx, down>> /\ Taken' = Taken /\ hpc' = to
  BY DEF Write, device, Taken
<1>6. Taken \in Nat /\ Len(rx) \in Nat /\ Len(up) \in Nat /\ Len(bytes) \in Nat
  BY <1>2 DEF Taken, TypeOK, BoardType
<1>. HIDE DEF F
<1>7. /\ Taken + Len(rx) + Len(up) = Written
      /\ \A k \in 1 .. Len(up) : up[k] = F[Taken + Len(rx) + k]
      /\ \A k \in 1 .. Len(bytes) : F[Written + k] = bytes[k]
  BY DEF Receiving, F
<1>8. ASSUME NEW k \in 1 .. Len(up')
      PROVE  up'[k] = F[Taken + Len(rx) + k]
  <2>1. CASE k <= Len(up)
    BY <2>1, <1>4, <1>6, <1>7
  <2>2. CASE k > Len(up)
    <3>. DEFINE j == k - Len(up)
    <3>1. j \in 1 .. Len(bytes) /\ k = Len(up) + j
      BY <2>2, <1>4, <1>6
    <3>2. up'[k] = bytes[j] /\ bytes[j] = F[Written + j]
      BY <3>1, <1>4, <1>7
    <3>3. Written + j = Taken + Len(rx) + k
      BY <3>1, <1>6, <1>7
    <3>. QED  BY <3>2, <3>3
  <2>. QED  BY <2>1, <2>2, <1>6
<1>9. Taken + Len(rx) + Len(up') = Written'
  BY <1>4, <1>6, <1>7
<1>. QED  BY <1>1, <1>5, <1>8, <1>9 DEF Receiving, F

(* The board takes the next byte of the frame off the wire.                *)
LEMMA RecvStep ==
  ASSUME TypeOK, Receiving, RecvByte
  PROVE  Receiving'
<1>. DEFINE F == Frame(V)
<1>. V' = V /\ SendsNonce' = SendsNonce
  BY SameVector DEF RecvByte
<1>1. F' = F
  OBVIOUS
<1>2. rx \in Seq(Byte) /\ up \in Seq(Byte) /\ up # <<>>
  BY DEF TypeOK, BoardType, WireType, RecvByte
<1>3. /\ Len(up) \in Nat /\ Len(up) >= 1 /\ up[1] \in Byte /\ Head(up) = up[1]
      /\ Len(Tail(up)) = Len(up) - 1
      /\ \A k \in 1 .. Len(up) - 1 : Tail(up)[k] = up[k + 1]
  BY <1>2, HeadTailLemma
<1>4. /\ Len(Append(rx, up[1])) = Len(rx) + 1 /\ Len(rx) \in Nat
      /\ Append(rx, up[1])[Len(rx) + 1] = up[1]
      /\ \A k \in 1 .. Len(rx) : Append(rx, up[1])[k] = rx[k]
  BY <1>2, <1>3, AppendLemma
<1>5. rx' = Append(rx, up[1]) /\ up' = Tail(up)
  BY <1>3 DEF RecvByte
<1>6. UNCHANGED <<hpc, dpc, mlen, tx, down>> /\ Taken' = Taken /\ Written' = Written
  BY DEF RecvByte, Taken, Written
<1>7. Taken \in Nat
  BY DEF Taken
<1>. HIDE DEF F
<1>8. /\ Taken + Len(rx) + Len(up) = Written
      /\ \A k \in 1 .. Len(rx) : rx[k] = F[Taken + k]
      /\ \A k \in 1 .. Len(up) : up[k] = F[Taken + Len(rx) + k]
  BY DEF Receiving, F
<1>9. Taken + Len(rx') + Len(up') = Written
  <2>1. Len(rx') = Len(rx) + 1 /\ Len(up') = Len(up) - 1
    BY <1>3, <1>4, <1>5
  <2>. QED  BY <2>1, <1>3, <1>4, <1>7, <1>8
<1>10. ASSUME NEW k \in 1 .. Len(rx')
       PROVE  rx'[k] = F[Taken + k]
  <2>1. CASE k <= Len(rx)
    BY <2>1, <1>4, <1>5, <1>8
  <2>2. CASE k = Len(rx) + 1
    BY <2>2, <1>3, <1>4, <1>5, <1>7, <1>8
  <2>. QED  BY <2>1, <2>2, <1>4, <1>5
<1>11. ASSUME NEW k \in 1 .. Len(up')
       PROVE  up'[k] = F[Taken + Len(rx') + k]
  <2>1. up'[k] = up[k + 1] /\ k + 1 \in 1 .. Len(up)
    BY <1>3, <1>5
  <2>2. Taken + Len(rx) + (k + 1) = Taken + Len(rx') + k
    BY <1>4, <1>5, <1>7
  <2>. QED  BY <2>1, <2>2, <1>8
<1>. QED  BY <1>1, <1>6, <1>9, <1>10, <1>11 DEF Receiving, F

(* How much of the frame is written at each statement of the script.       *)
LEMMA WrittenLemma ==
  ASSUME TypeOK, InStep, Exchanging, Receiving
  PROVE  LET m == Len(V.message) IN
         /\ PayloadLen(m) \in Nat /\ PayloadLen(m) >= m + KeyLen
         /\ Written \in Nat /\ Written <= 5 + PayloadLen(m)
         /\ (Written = 5 + PayloadLen(m)) => (hpc \in {"flush", "count"})
         /\ (Written >= 5) => (hpc \in {"message", "key", "nonce", "flush", "count"})
<1>. DEFINE m == Len(V.message)
<1>1. /\ m \in Nat /\ SendsNonce = ReadsNonce /\ PayloadLen(m) \in Nat
      /\ PayloadLen(m) >= m + KeyLen
      /\ ReadsNonce => PayloadLen(m) = m + KeyLen + NonceLen
  <2>1. V \in Vector /\ MatchedVector(V) /\ SendsNonce = ReadsNonce
    BY MatchedLemma
  <2>. QED  BY <2>1, FrameLemma, Zenon
<1>2. hpc \in {"listen", "reset", "header", "listen2", "mlen", "message", "key",
               "nonce", "flush", "count"}
  BY DEF Receiving, Exchanging, Running, TypeOK, HostType
<1>3. hpc = "nonce" => PayloadLen(m) = m + KeyLen + NonceLen
  BY <1>1 DEF Receiving
<1>4. KeyLen \in Nat /\ KeyLen > 0 /\ NonceLen \in Nat /\ NonceLen > 0
  BY ConstantsAssumption
<1>5. Written = CASE hpc \in {"listen", "reset", "header"} -> 0
                  [] hpc \in {"listen2", "mlen"} -> 3
                  [] hpc = "message" -> 5
                  [] hpc = "key"     -> 5 + m
                  [] hpc = "nonce"   -> 5 + m + KeyLen
                  [] OTHER           -> 5 + PayloadLen(m)
  BY DEF Written, FrameLen
<1>. HIDE DEF m
<1>6. CASE hpc \in {"listen", "reset", "header", "listen2", "mlen"}
  BY <1>1, <1>4, <1>5, <1>6 DEF m
<1>7. CASE hpc = "message"
  BY <1>1, <1>4, <1>5, <1>7 DEF m
<1>8. CASE hpc = "key"
  BY <1>1, <1>4, <1>5, <1>8 DEF m
<1>9. CASE hpc = "nonce"
  <2>1. Written = 5 + m + KeyLen
    BY <1>5, <1>9
  <2>2. m \in Nat /\ PayloadLen(m) = m + KeyLen + NonceLen
    BY <1>1, <1>3, <1>9
  <2>3. /\ Written \in Nat /\ Written <= 5 + PayloadLen(m)
        /\ Written # 5 + PayloadLen(m) /\ PayloadLen(m) \in Nat /\ PayloadLen(m) >= m + KeyLen
    BY <2>1, <2>2, <1>4
  <2>. QED  BY <2>3, <1>9 DEF m
<1>10. CASE hpc \in {"flush", "count"}
  BY <1>1, <1>5, <1>10 DEF m
<1>. QED  BY <1>2, <1>6, <1>7, <1>8, <1>9, <1>10

(* The header that the board has received is the script's.                 *)
LEMMA HeaderStep ==
  ASSUME TypeOK, InStep, Receiving, CheckHeader
  PROVE  Receiving'
<1>. DEFINE F == Frame(V)
<1>. V' = V /\ SendsNonce' = SendsNonce
  BY SameVector DEF CheckHeader
<1>1. F' = F
  OBVIOUS
<1>2. \A k \in 1 .. 3 : F[k] = HEADER[k]
  BY MatchedLemma, FrameLemma
<1>. HIDE DEF F
<1>3. dpc = "header" /\ Len(rx) = 3 /\ Taken = 0 /\ rx \in Seq(Byte)
  BY DEF CheckHeader, Need, Taken, TypeOK, BoardType
<1>4. /\ 3 + Len(up) = Written
      /\ \A k \in 1 .. 3 : rx[k] = F[k]
      /\ \A k \in 1 .. Len(up) : up[k] = F[3 + k]
  BY <1>3 DEF Receiving, F, WireType, TypeOK
<1>5. rx = HEADER
  BY <1>2, <1>3, <1>4 DEF HEADER
<1>6. /\ dpc' = "length" /\ rx' = <<>> /\ UNCHANGED <<hpc, mlen, tx, up, down>>
      /\ Taken' = 3 /\ Written' = Written
  BY <1>5 DEF CheckHeader, Taken, Written
<1>7. Taken' + Len(rx') + Len(up') = Written'
  BY <1>4, <1>6
<1>8. \A k \in 1 .. Len(up) : up[k] = F[3 + 0 + k]
  BY <1>4
<1>. QED  BY <1>1, <1>6, <1>7, <1>8 DEF Receiving, F, Rx

(* The length that the board has received is the message's.                *)
LEMMA LengthStep ==
  ASSUME TypeOK, InStep, Exchanging, Receiving, CheckLength
  PROVE  Receiving' \/ Refused'
<1>. DEFINE F == Frame(V)
            m == Len(V.message)
<1>. V' = V /\ SendsNonce' = SendsNonce
  BY SameVector DEF CheckLength
<1>1. F' = F /\ m' = m
  OBVIOUS
<1>2. (\A k \in 1 .. 2 : F[3 + k] = LenBytes(m)[k]) /\ m \in Nat
  BY MatchedLemma, FrameLemma
<1>. HIDE DEF F, m
<1>3. dpc = "length" /\ Len(rx) = 2 /\ Taken = 3 /\ rx \in Seq(Byte) /\ up \in Seq(Byte)
  BY DEF CheckLength, Need, Taken, TypeOK, BoardType, WireType
<1>4. /\ 5 + Len(up) = Written
      /\ \A k \in 1 .. 2 : rx[k] = F[3 + k]
      /\ \A k \in 1 .. Len(up) : up[k] = F[5 + k]
  BY <1>3 DEF Receiving, F
<1>5. Written >= 5 /\ m < Base * Base
  BY <1>3, <1>4 DEF Receiving, m
<1>6. DecodeLen(rx) = m
  <2>1. LenBytes(m) \in Seq(Byte) /\ Len(LenBytes(m)) = 2 /\ DecodeLen(LenBytes(m)) = m
    BY <1>2, <1>5, LenBytesLemma
  <2>2. \A k \in 1 .. 2 : rx[k] = LenBytes(m)[k]
    BY <1>2, <1>4
  <2>. QED  BY <2>1, <2>2 DEF DecodeLen
<1>7. mlen' = m /\ rx' = <<>> /\ UNCHANGED <<hpc, up, down>> /\ Written' = Written
  BY <1>6 DEF CheckLength, Written
<1>8. CASE m > MaxMessageLen
  <2>1. hpc \in {"message", "key", "nonce", "flush", "count"}
    BY <1>5, WrittenLemma
  <2>2. ~Fits(V)
    BY <1>2, <1>8, ConstantsAssumption DEF Fits, m
  <2>3. down' = <<>> /\ dpc' = "send" /\ tx' = TextLine
    BY <1>7, <1>8 DEF CheckLength, Receiving
  <2>. QED  BY <1>7, <2>1, <2>2, <2>3, TextLineLemma DEF Refused
<1>9. CASE ~(m > MaxMessageLen)
  <2>1. dpc' = "payload" /\ tx' = tx /\ Taken' = 5
    BY <1>7, <1>9 DEF CheckLength, Taken
  <2>2. Taken' + Len(rx') + Len(up') = Written'
    BY <1>4, <1>7, <2>1
  <2>3. \A k \in 1 .. Len(up) : up[k] = F[5 + 0 + k]
    BY <1>4
  <2>4. m <= MaxMessageLen
    BY <1>2, <1>9, ConstantsAssumption
  <2>. QED  BY <1>1, <1>7, <2>1, <2>2, <2>3, <2>4, <1>5 DEF Receiving, F, m, Rx
<1>. QED  BY <1>8, <1>9

(* With the whole payload received, nothing of the frame is on the wire.   *)
LEMMA AllReceived ==
  ASSUME TypeOK, InStep, Exchanging, Receiving, dpc = "payload", Len(rx) = Need
  PROVE  up = <<>> /\ rx = Input(V) /\ hpc \in {"flush", "count"}
<1>. DEFINE F == Frame(V)
            m == Len(V.message)
            p == PayloadLen(m)
            x == Input(V)
<1>1. /\ Need = p /\ Len(rx) = p /\ Taken = 5
      /\ rx \in Seq(Byte) /\ up \in Seq(Byte) /\ Len(up) \in Nat
  BY DEF Need, Taken, TypeOK, BoardType, WireType, Receiving
<1>2. /\ p \in Nat /\ x \in Seq(Byte) /\ Len(x) = p
      /\ \A k \in 1 .. p : F[5 + k] = x[k]
  BY MatchedLemma, FrameLemma
<1>3. Written \in Nat /\ Written <= 5 + p /\ (Written = 5 + p => hpc \in {"flush", "count"})
  BY WrittenLemma
<1>. HIDE DEF F, p, x
<1>4. /\ 5 + p + Len(up) = Written
      /\ \A k \in 1 .. p : rx[k] = F[5 + k]
  BY <1>1 DEF Receiving, F
<1>5. Len(up) = 0 /\ Written = 5 + p
  BY <1>1, <1>2, <1>3, <1>4
<1>6. up = <<>>
  BY <1>1, <1>5, EmptySeq
<1>7. rx = x
  <2>1. \A k \in 1 .. p : rx[k] = x[k]
    BY <1>2, <1>4
  <2>. QED  BY <1>1, <1>2, <2>1, SeqEqual
<1>. QED  BY <1>3, <1>5, <1>6, <1>7 DEF x

(* What the board encrypts is the script's vector.                         *)
LEMMA EncryptStep ==
  ASSUME TypeOK, InStep, Exchanging, Receiving, Encrypt
  PROVE  Replying' \/ Refused'
<1>. DEFINE m == Len(V.message)
            reply == Reply(Input(V), m)
<1>. V' = V
  BY SameVector DEF Encrypt
<1>1. m \in Nat /\ Input(V) \in Seq(Byte) /\ PayloadLen(m) \in Nat
  BY MatchedLemma, FrameLemma
<1>2. up = <<>> /\ rx = Input(V) /\ hpc \in {"flush", "count"}
  BY AllReceived DEF Encrypt
<1>3. mlen = m /\ m <= MaxMessageLen /\ down = <<>>
  BY DEF Encrypt, Receiving
<1>4. m < Base * Base
  <2>1. Written = 5 + PayloadLen(m)
    BY <1>2 DEF Written, FrameLen
  <2>. QED  BY <1>1, <2>1 DEF Receiving
<1>5. /\ dpc' = "send" /\ rx' = <<>> /\ UNCHANGED <<hpc, up, down>>
      /\ tx' = IF m \in FailLens THEN TextLine ELSE reply
  BY <1>2, <1>3 DEF Encrypt
<1>6. CASE m \in FailLens
  BY <1>2, <1>3, <1>5, <1>6, TextLineLemma DEF Refused, Fits
<1>7. CASE m \notin FailLens
  <2>1. Fits(V)
    BY <1>3, <1>4, <1>7 DEF Fits
  <2>2. tx' = reply /\ Consumed' = 0
    BY <1>2, <1>5, <1>7 DEF Consumed
  <2>3. reply # <<>> /\ reply \in Seq(Tokens) /\ reply' = reply
    BY <1>1, ReplyLemma
  <2>. HIDE DEF m, reply
  <2>4. /\ Consumed' + Len(down') + Len(tx') = Len(reply)
        /\ \A k \in 1 .. Len(tx') : tx'[k] = reply[Consumed' + Len(down') + k]
    BY <1>3, <1>5, <2>2, <2>3
  <2>5. Len(down') = 0
    BY <1>3, <1>5
  <2>6. /\ hpc' \in {"flush", "count", "cipher", "tag"}
        /\ rx' = <<>> /\ up' = <<>>
        /\ dpc' = IF tx' = <<>> THEN "header" ELSE "send"
    BY <1>2, <1>5, <2>2, <2>3
  <2>7. \A k \in 1 .. Len(down') : down'[k] = reply[Consumed' + k]
    BY <2>5
  <2>8. Fits(V)' /\ reply' = reply
    BY <2>1, <2>3
  <2>9. /\ Consumed' + Len(down') + Len(tx') = Len(reply')
        /\ \A k \in 1 .. Len(down') : down'[k] = (reply')[Consumed' + k]
        /\ \A k \in 1 .. Len(tx') : tx'[k] = (reply')[Consumed' + Len(down') + k]
    BY ONLY <2>4, <2>7, <2>8
  <2>. QED  BY <2>6, <2>8, <2>9, Zenon DEF Replying, m, reply
<1>. QED  BY <1>6, <1>7
-----------------------------------------------------------------------------
LEMMA ConsumedLemma ==
  ASSUME TypeOK, InStep
  PROVE  Consumed \in Nat
<1>. DEFINE m == Len(V.message)
<1>1. m \in Nat /\ Digits \in Nat
  BY MatchedLemma, ConstantsAssumption
<1>. HIDE DEF m
<1>. QED  BY <1>1 DEF Consumed, m

(* The board sends the next token of its reply.                            *)
LEMMA SendStep ==
  ASSUME TypeOK, InStep, Replying, SendByte
  PROVE  Replying'
<1>. DEFINE reply == Reply(Input(V), Len(V.message))
<1>. V' = V
  BY SameVector DEF SendByte
<1>1. reply' = reply
  OBVIOUS
<1>. HIDE DEF reply
<1>2. tx \in Seq(Tokens) /\ tx # <<>> /\ down \in Seq(Tokens) /\ Len(down) \in Nat
  BY DEF SendByte, TypeOK, BoardType, WireType
<1>3. /\ Len(tx) \in Nat /\ Len(tx) >= 1 /\ Head(tx) = tx[1] /\ tx[1] \in Tokens
      /\ Tail(tx) \in Seq(Tokens) /\ Len(Tail(tx)) = Len(tx) - 1
      /\ \A k \in 1 .. Len(tx) - 1 : Tail(tx)[k] = tx[k + 1]
  BY <1>2, HeadTailLemma
<1>4. /\ down' = Append(down, tx[1]) /\ tx' = Tail(tx)
      /\ dpc' = IF Len(tx) = 1 THEN "header" ELSE "send"
      /\ UNCHANGED <<hpc, rx, up>> /\ Consumed' = Consumed
  BY <1>3 DEF SendByte, Consumed
<1>5. /\ Len(down') = Len(down) + 1 /\ down'[Len(down) + 1] = tx[1]
      /\ \A k \in 1 .. Len(down) : down'[k] = down[k]
  BY <1>2, <1>3, <1>4, AppendLemma
<1>6. Consumed \in Nat
  BY ConsumedLemma
<1>7. /\ Consumed + Len(down) + Len(tx) = Len(reply)
      /\ \A k \in 1 .. Len(down) : down[k] = reply[Consumed + k]
      /\ \A k \in 1 .. Len(tx) : tx[k] = reply[Consumed + Len(down) + k]
  BY DEF Replying, reply
<1>8. Consumed + Len(down') + Len(tx') = Len(reply)
  <2>1. Len(tx') = Len(tx) - 1
    BY <1>3, <1>4
  <2>2. Len(down') = Len(down) + 1 /\ Consumed + Len(down) + Len(tx) = Len(reply)
    BY <1>5, <1>7
  <2>3. Len(down) \in Nat /\ Len(tx) \in Nat
    BY <1>2, <1>3
  <2>. QED  BY ONLY <2>1, <2>2, <2>3, <1>6
<1>9. ASSUME NEW k \in 1 .. Len(down')
      PROVE  down'[k] = reply[Consumed + k]
  <2>1. CASE k <= Len(down)
    BY <2>1, <1>2, <1>5, <1>7
  <2>2. CASE k = Len(down) + 1
    <3>1. 1 \in 1 .. Len(tx) /\ Consumed + Len(down) + 1 = Consumed + k
      BY <2>2, <1>2, <1>3, <1>6
    <3>. QED  BY <2>2, <3>1, <1>5, <1>7
  <2>. QED  BY <2>1, <2>2, <1>2, <1>5
<1>10. ASSUME NEW k \in 1 .. Len(tx')
       PROVE  tx'[k] = reply[Consumed + Len(down') + k]
  <2>1. tx'[k] = tx[k + 1] /\ k + 1 \in 1 .. Len(tx)
    BY <1>3, <1>4
  <2>2. Consumed + Len(down) + (k + 1) = Consumed + Len(down') + k
    BY <1>2, <1>5, <1>6
  <2>. QED  BY <2>1, <2>2, <1>7, Zenon
<1>11. dpc' = IF tx' = <<>> THEN "header" ELSE "send"
  BY <1>3, <1>4, EmptySeq
<1>. QED  BY <1>1, <1>4, <1>8, <1>9, <1>10, <1>11 DEF Replying, reply

(* The script reads n more tokens of the reply.                            *)
LEMMA ConsumeStep ==
  ASSUME TypeOK, InStep, Replying, NEW n \in Nat, n <= Len(down), Drop(n),
         UNCHANGED <<up, rx, tx, dpc, samples, cur>>,
         Consumed' = Consumed + n, hpc' \in {"cipher", "tag"}
  PROVE  Replying'
<1>. DEFINE reply == Reply(Input(V), Len(V.message))
<1>. V' = V
  BY DEF V
<1>1. reply' = reply
  OBVIOUS
<1>. HIDE DEF reply
<1>2. /\ Len(down') = Len(down) - n /\ Len(down) \in Nat
      /\ \A k \in 1 .. Len(down) - n : down'[k] = down[n + k]
  <2>1. WireType
    BY DEF TypeOK
  <2>2. Len(down) \in Nat
    BY <2>1 DEF WireType
  <2>. QED  BY <2>1, <2>2, DropLemma
<1>3. Consumed \in Nat /\ Len(tx) \in Nat
  BY ConsumedLemma DEF TypeOK, BoardType
<1>4. /\ Consumed + Len(down) + Len(tx) = Len(reply)
      /\ \A k \in 1 .. Len(down) : down[k] = reply[Consumed + k]
      /\ \A k \in 1 .. Len(tx) : tx[k] = reply[Consumed + Len(down) + k]
  BY DEF Replying, reply
<1>5. Consumed' + Len(down') + Len(tx') = Len(reply)
  <2>1. /\ Consumed + Len(down) + Len(tx) = Len(reply) /\ tx' = tx
        /\ Len(down') = Len(down) - n /\ Len(down) \in Nat
    BY <1>2, <1>4
  <2>2. Consumed' = Consumed + n /\ n \in Nat
    OBVIOUS
  <2>. QED  BY ONLY <2>1, <2>2, <1>3
<1>6. ASSUME NEW k \in 1 .. Len(down')
      PROVE  down'[k] = reply[Consumed' + k]
  <2>1. n + k \in 1 .. Len(down) /\ down'[k] = down[n + k]
    BY <1>2
  <2>2. Consumed + (n + k) = Consumed' + k
    BY <1>2, <1>3
  <2>. QED  BY <2>1, <2>2, <1>4
<1>7. Consumed' + Len(down') = Consumed + Len(down)
  BY <1>2, <1>3
<1>. QED  BY <1>1, <1>4, <1>5, <1>6, <1>7 DEF Replying, reply

(* Before the count is read, the only line is the count.                   *)
LEMMA CountLine ==
  ASSUME TypeOK, InStep, Replying, hpc = "count",
         NEW n \in 1 .. Len(down), LineOfLength(n)
  PROVE  /\ n = Digits + 1
         /\ SubSeq(down, 1, n - 1) = CountDigits(Input(V))
         /\ ~MayFail(SubSeq(down, 1, n - 1))
<1>. DEFINE m == Len(V.message)
            x == Input(V)
            reply == Reply(x, m)
            line == SubSeq(down, 1, n - 1)
<1>1. m \in Nat /\ x \in Seq(Byte)
  BY MatchedLemma, FrameLemma
<1>2. /\ \A i \in 1 .. Digits : reply[i] = Token("digit", x, i)
      /\ reply[Digits + 1] = NewLine
  BY <1>1, ReplyLemma
<1>3. Digits \in Nat /\ Digits > 0
  BY ConstantsAssumption
<1>4. down \in Seq(Tokens) /\ Len(down) \in Nat
  BY DEF TypeOK, WireType
<1>5. \A k \in 1 .. Len(down) : down[k] = reply[k]
  <2>1. Consumed = 0
    BY DEF Consumed
  <2>. QED  BY <2>1, <1>4 DEF Replying
<1>6. /\ \A i \in 1 .. Digits : reply[i].kind = "digit"
      /\ reply[Digits + 1].kind = "newline"
  <2>1. \A i \in 1 .. Digits : Token("digit", x, i).kind = "digit"
    BY DEF Token
  <2>. HIDE DEF reply, x
  <2>. QED  BY <2>1, <1>2, TextLineLemma
<1>. HIDE DEF reply
<1>7. n > Digits
  <2>. SUFFICES ASSUME n <= Digits PROVE FALSE
    BY <1>3, <1>4
  <2>1. down[n].kind = "digit"
    BY <1>3, <1>5, <1>6
  <2>. QED  BY <2>1 DEF LineOfLength, Raw
<1>8. ~(n > Digits + 1)
  <2>. SUFFICES ASSUME n > Digits + 1 PROVE FALSE
    OBVIOUS
  <2>1. Digits + 1 \in 1 .. n - 1 /\ Digits + 1 \in 1 .. Len(down)
    BY <1>3, <1>4
  <2>2. down[Digits + 1].kind = "newline"
    BY <2>1, <1>5, <1>6
  <2>. QED  BY <2>1, <2>2 DEF LineOfLength
<1>9. n = Digits + 1
  BY <1>3, <1>4, <1>7, <1>8
<1>10. /\ line \in Seq(Tokens) /\ Len(line) = Digits
       /\ \A k \in 1 .. Digits : line[k] = down[k]
  <2>1. /\ line \in Seq(Tokens) /\ Len(line) = (n - 1) - 1 + 1
        /\ \A k \in 1 .. (n - 1) - 1 + 1 : line[k] = down[1 + k - 1]
    <3>1. n - 1 \in Nat /\ n - 1 <= Len(down) /\ 1 <= (n - 1) + 1 /\ 1 \in Nat \ {0}
      BY <1>4
    <3>. QED  BY <1>4, <3>1, SubSeqLemma
  <2>. QED  BY <2>1, <1>3, <1>9
<1>11. \A k \in 1 .. Digits : line[k] = reply[k]
  BY <1>3, <1>4, <1>5, <1>9, <1>10
<1>. HIDE DEF line
<1>12. line = CountDigits(x)
  <2>1. CountDigits(x) \in Seq(Tokens) /\ Len(CountDigits(x)) = Digits
    BY <1>1, <1>3, TokenLemma DEF CountDigits
  <2>2. \A k \in 1 .. Digits : line[k] = CountDigits(x)[k]
    BY <1>2, <1>11 DEF CountDigits, reply
  <2>. QED  BY <1>10, <2>1, <2>2, SeqEqual
<1>13. ~MayFail(line)
  <2>1. line # <<>>
    BY <1>3, <1>10, EmptySeq
  <2>2. \A k \in 1 .. Len(line) : line[k].kind = "digit"
    BY <1>6, <1>10, <1>11
  <2>. QED  BY <2>1, <2>2 DEF MayFail
<1>. QED  BY <1>9, <1>12, <1>13 DEF line

(* With the last token of the reply read, the link is at rest.             *)
LEMMA ReturnStage ==
  ASSUME TypeOK, InStep, Replying, NEW n \in Nat, n <= Len(down), Drop(n),
         Consumed + n = Len(Reply(Input(V), Len(V.message))),
         Return, UNCHANGED <<dpc, device, up>>, Exchanging'
  PROVE  Receiving'
<1>1. Len(down') = Len(down) - n /\ Len(down) \in Nat /\ down' \in Seq(Tokens)
  <2>1. WireType
    BY DEF TypeOK
  <2>2. Len(down) \in Nat
    BY <2>1 DEF WireType
  <2>. QED  BY <2>1, <2>2, DropLemma
<1>2. Consumed \in Nat /\ Len(tx) \in Nat /\ tx \in Seq(Tokens)
  BY ConsumedLemma DEF TypeOK, BoardType
<1>3. Consumed + Len(down) + Len(tx) = Consumed + n
  BY DEF Replying
<1>4. Len(tx) = 0 /\ Len(down') = 0
  BY ONLY <1>1, <1>2, <1>3, n \in Nat, n <= Len(down)
<1>5. tx = <<>> /\ down' = <<>>
  BY <1>1, <1>2, <1>4, EmptySeq
<1>6. dpc' = "header" /\ tx' = <<>> /\ rx' = <<>> /\ up' = <<>>
  BY <1>5 DEF Replying, device
<1>7. hpc' = "listen"
  BY DEF Return, Exchanging
<1>8. Taken' = 0 /\ Written' = 0
  BY <1>6, <1>7 DEF Taken, Written
<1>9. Len(rx') = 0 /\ Len(up') = 0
  BY <1>6
<1>. QED  BY <1>5, <1>6, <1>7, <1>8, <1>9 DEF Receiving, Rx

(* From an idle board the first frame can be written.                      *)
LEMMA FreshStage ==
  ASSUME Idle, TypeOK, ResetInput
  PROVE  Receiving'
<1>1. /\ dpc' = "header" /\ rx' = <<>> /\ up' = <<>> /\ down' = <<>> /\ tx' = <<>>
      /\ hpc' = "header"
  BY DEF Idle, ResetInput, device, TypeOK, BoardType, Rx
<1>2. Taken' = 0 /\ Written' = 0
  BY <1>1 DEF Taken, Written
<1>3. Len(rx') = 0 /\ Len(up') = 0
  BY <1>1
<1>. QED  BY <1>1, <1>2, <1>3 DEF Receiving, Rx

(* A step that the wires do not see.                                       *)
LEMMA QuietStep ==
  ASSUME UNCHANGED <<host, dpc, device, up, down>>
  PROVE  /\ (Receiving /\ hpc' \notin {"cipher", "tag", "nonce"} /\ Written' = Written)
              => Receiving'
         /\ (Replying /\ hpc = "flush" /\ hpc' = "count") => Replying'
         /\ (Refused /\ hpc' \in {"message", "key", "nonce", "flush", "count"}) => Refused'
<1>. V' = V
  BY SameVector
<1>. USE DEF device
<1>1. Receiving /\ hpc' \notin {"cipher", "tag", "nonce"} /\ Written' = Written => Receiving'
  <2>. SUFFICES ASSUME Receiving, hpc' \notin {"cipher", "tag", "nonce"}, Written' = Written
                PROVE  Receiving'
    OBVIOUS
  <2>1. Taken' = Taken
    BY DEF Taken
  <2>2. Frame(V)' = Frame(V)
    OBVIOUS
  <2>. QED  BY <2>1, <2>2 DEF Receiving
<1>2. Replying /\ hpc = "flush" /\ hpc' = "count" => Replying'
  <2>. SUFFICES ASSUME Replying, hpc = "flush", hpc' = "count" PROVE Replying'
    OBVIOUS
  <2>1. Consumed' = 0 /\ Consumed = 0
    BY DEF Consumed
  <2>2. Reply(Input(V), Len(V.message))' = Reply(Input(V), Len(V.message)) /\ Fits(V)' = Fits(V)
    OBVIOUS
  <2>. QED  BY <2>1, <2>2 DEF Replying
<1>3. Refused /\ hpc' \in {"message", "key", "nonce", "flush", "count"} => Refused'
  BY DEF Refused
<1>. QED  BY <1>1, <1>2, <1>3
-----------------------------------------------------------------------------
(* The steps that neither begin a run nor break one off.                   *)
Quick ==
  HostStep \/ DeviceStep \/ CannotAllocate \/ Overrun \/ NotListening

(* The script writes the five parts of the frame in their order.           *)
LEMMA FrameStep ==
  ASSUME TypeOK, InStep, Exchanging, Receiving,
         WriteHeader \/ WriteMlen \/ WriteMessage \/ WriteKey \/ WriteNonce
  PROVE  Receiving'
<1>. DEFINE m == Len(V.message)
            F == Frame(V)
            lb == LenBytes(m)
<1>1. /\ V \in Vector /\ MatchedVector(V) /\ SendsNonce = ReadsNonce /\ m \in Nat
      /\ V.message \in Seq(Nat) /\ V.key \in Seq(Nat) /\ V.nonce \in Seq(Nat)
  <2>1. V \in Vector /\ MatchedVector(V) /\ SendsNonce = ReadsNonce /\ m \in Nat
    BY MatchedLemma
  <2>. QED  BY <2>1, ConstantsAssumption DEF Vector, Byte
<1>2. /\ Len(V.key) = KeyLen /\ (ReadsNonce => Len(V.nonce) = NonceLen)
      /\ KeyLen \in Nat /\ NonceLen \in Nat
  BY <1>1, ConstantsAssumption DEF MatchedVector
<1>3. /\ PayloadLen(m) \in Nat
      /\ \A k \in 1 .. m : Input(V)[k] = V.message[k]
      /\ \A k \in 1 .. KeyLen : Input(V)[m + k] = V.key[k]
      /\ ReadsNonce => /\ PayloadLen(m) = m + KeyLen + NonceLen
                       /\ \A k \in 1 .. NonceLen : Input(V)[m + KeyLen + k] = V.nonce[k]
      /\ ~ReadsNonce => PayloadLen(m) = m + KeyLen
      /\ PayloadLen(m) >= m + KeyLen
      /\ \A k \in 1 .. 3 : F[k] = HEADER[k]
      /\ \A k \in 1 .. 2 : F[3 + k] = lb[k]
      /\ \A k \in 1 .. PayloadLen(m) : F[5 + k] = Input(V)[k]
  BY <1>1, FrameLemma, Zenon
<1>. V' = V
  BY SameVector DEF WriteHeader, WriteMlen, WriteMessage, WriteKey, WriteNonce, Write
<1>. HIDE DEF F, lb
<1>4. CASE WriteHeader
  <2>. DEFINE b == HEADER
  <2>1. b \in Seq(Nat) /\ Len(b) = 3
    BY ConstantsAssumption DEF HEADER
  <2>2. Written = 0 /\ Written' = 3
    BY <1>4 DEF WriteHeader, Write, Written
  <2>3. \A k \in 1 .. Len(b) : F[Written + k] = b[k]
    <3>1. \A k \in 1 .. 3 : F[k] = b[k] /\ 0 + k = k
      BY <1>3
    <3>. HIDE DEF b
    <3>. QED  BY <3>1, <2>1, <2>2
  <2>4. Write("header", "listen2", b)
    BY <1>4 DEF WriteHeader, b
  <2>. HIDE DEF b, m
  <2>5. Written' = Written + Len(b) /\ ~(Written' > 3)
    BY <2>1, <2>2
  <2>. QED  BY <2>1, <2>3, <2>4, <2>5, WriteStep DEF F, m
<1>5. CASE WriteMlen
  <2>. DEFINE b == lb
  <2>1. m < Base * Base /\ Write("mlen", "message", b)
    BY <1>5 DEF WriteMlen, lb
  <2>2. b \in Seq(Nat) /\ Len(b) = 2
    <3>1. LenBytes(m) \in Seq(Byte) /\ Len(LenBytes(m)) = 2
      BY <1>1, <2>1, LenBytesLemma
    <3>. QED  BY <3>1, ConstantsAssumption DEF Byte, lb
  <2>3. Written = 3 /\ Written' = 5
    BY <2>1 DEF Write, Written
  <2>4. \A k \in 1 .. Len(b) : F[Written + k] = b[k]
    BY <1>3, <2>2, <2>3
  <2>5. Written' = Written + Len(b)
    BY <2>2, <2>3
  <2>. HIDE DEF b, m
  <2>. QED  BY <2>1, <2>2, <2>4, <2>5, WriteStep DEF F, m
<1>6. CASE WriteMessage
  <2>. DEFINE b == V.message
  <2>1. b \in Seq(Nat) /\ Len(b) = m
    BY <1>1
  <2>2. Write("message", "key", b)
    BY <1>6 DEF WriteMessage
  <2>3. Written = 5 /\ Written' = 5 + m
    BY <2>2 DEF Write, Written
  <2>4. ASSUME NEW k \in 1 .. m PROVE F[5 + k] = b[k]
    <3>1. k \in 1 .. PayloadLen(m)
      BY <1>1, <1>2, <1>3
    <3>. QED  BY <3>1, <1>3
  <2>5. m < Base * Base
    BY <2>3 DEF Receiving
  <2>. HIDE DEF b, m
  <2>6. Written' = Written + Len(b)
    BY <2>1, <2>3
  <2>7. \A k \in 1 .. Len(b) : F[Written + k] = b[k]
    BY <2>1, <2>3, <2>4
  <2>. QED  BY <2>1, <2>2, <2>5, <2>6, <2>7, WriteStep DEF F, m
<1>7. CASE WriteKey
  <2>. DEFINE b == V.key
              to == IF SendsNonce THEN "nonce" ELSE "flush"
  <2>1. b \in Seq(Nat) /\ Len(b) = KeyLen
    BY <1>1, <1>2
  <2>2. Write("key", to, b) /\ hpc' = to /\ hpc = "key"
    BY <1>7 DEF WriteKey, Write
  <2>3. Written = 5 + m /\ Written' = 5 + m + KeyLen
    <3>1. CASE SendsNonce
      BY <2>2, <3>1 DEF Written
    <3>2. CASE ~SendsNonce
      <4>1. Written = 5 + m /\ Written' = 5 + PayloadLen(m)
        BY <2>2, <3>2 DEF Written, FrameLen
      <4>2. PayloadLen(m) = m + KeyLen
        BY <1>1, <1>3, <3>2
      <4>. QED  BY <4>1, <4>2, <1>1, <1>2
    <3>. QED  BY <3>1, <3>2
  <2>4. ASSUME NEW k \in 1 .. KeyLen PROVE F[5 + m + k] = b[k]
    <3>1. m + k \in 1 .. PayloadLen(m)
      <4>1. m \in Nat /\ KeyLen \in Nat /\ PayloadLen(m) \in Nat /\ PayloadLen(m) >= m + KeyLen
        BY <1>1, <1>2, <1>3
      <4>. HIDE DEF m
      <4>. QED  BY <4>1
    <3>2. F[5 + (m + k)] = Input(V)[m + k] /\ Input(V)[m + k] = b[k]
      BY <3>1, <1>3
    <3>3. 5 + m + k = 5 + (m + k)
      BY <1>1
    <3>. QED  BY <3>2, <3>3
  <2>5. m < Base * Base
    <3>1. Written > 3
      BY <2>3, <1>1
    <3>. QED  BY <3>1 DEF Receiving
  <2>6. to \in {"listen2", "message", "key", "nonce", "flush"} /\ (to = "nonce" => SendsNonce)
    OBVIOUS
  <2>. HIDE DEF b, to, m
  <2>7. Written' = Written + Len(b)
    BY <2>1, <2>3
  <2>8. \A k \in 1 .. Len(b) : F[Written + k] = b[k]
    BY <2>1, <2>3, <2>4
  <2>. QED  BY <2>1, <2>2, <2>5, <2>6, <2>7, <2>8, WriteStep DEF F, m
<1>8. CASE WriteNonce
  <2>. DEFINE b == V.nonce
  <2>0. ReadsNonce /\ SendsNonce
    BY <1>1, <1>8 DEF WriteNonce, Write, Receiving
  <2>1. b \in Seq(Nat) /\ Len(b) = NonceLen
    BY <1>1, <1>2, <2>0
  <2>2. Write("nonce", "flush", b)
    BY <1>8 DEF WriteNonce
  <2>3. Written = 5 + m + KeyLen /\ Written' = 5 + m + KeyLen + NonceLen
    <3>1. Written = 5 + m + KeyLen /\ Written' = 5 + PayloadLen(m)
      BY <2>2 DEF Write, Written, FrameLen
    <3>2. PayloadLen(m) = m + KeyLen + NonceLen
      BY <2>0, <1>3
    <3>3. m \in Nat /\ KeyLen \in Nat /\ NonceLen \in Nat
      BY <1>1, <1>2
    <3>. HIDE DEF m
    <3>. QED  BY ONLY <3>1, <3>2, <3>3
  <2>4. ASSUME NEW k \in 1 .. NonceLen PROVE F[5 + m + KeyLen + k] = b[k]
    <3>1. m + KeyLen + k \in 1 .. PayloadLen(m) /\ 5 + m + KeyLen + k = 5 + (m + KeyLen + k)
      <4>1. PayloadLen(m) = m + KeyLen + NonceLen
        BY <2>0, <1>3
      <4>2. m \in Nat /\ KeyLen \in Nat /\ NonceLen \in Nat
        BY <1>1, <1>2
      <4>. HIDE DEF m
      <4>. QED  BY <4>1, <4>2
    <3>. QED  BY <3>1, <2>0, <1>3
  <2>5. m < Base * Base
    <3>1. Written > 3
      BY <2>3, <1>1, <1>2
    <3>. QED  BY <3>1 DEF Receiving
  <2>. HIDE DEF b, m
  <2>6. Written' = Written + Len(b)
    BY <2>1, <2>3
  <2>7. \A k \in 1 .. Len(b) : F[Written + k] = b[k]
    BY <2>1, <2>3, <2>4
  <2>. QED  BY <2>1, <2>2, <2>5, <2>6, <2>7, WriteStep DEF F, m
<1>. QED  BY <1>4, <1>5, <1>6, <1>7, <1>8

(* While the board is reading the frame.                                   *)
LEMMA ReceivingStep ==
  ASSUME TypeOK, InStep, Exchanging, Receiving, Quick, Exchanging'
  PROVE  Receiving' \/ Replying' \/ Refused'
<1>. USE DEF device
<1>1. dpc \in Rx /\ tx = <<>> /\ down = <<>> /\ hpc \notin {"cipher", "tag"}
  BY DEF Receiving
<1>2. CASE Listen \/ ResetInput
  <2>1. UNCHANGED <<host, dpc, device, up>> /\ down' = <<>> /\ hpc' \in {"reset", "mlen", "header"}
    BY <1>2 DEF Listen, ResetInput
  <2>2. Written' = Written
    BY <1>2 DEF Listen, ResetInput, Written
  <2>. QED  BY <1>1, <2>1, <2>2, QuietStep
<1>3. CASE WriteHeader \/ WriteMlen \/ WriteMessage \/ WriteKey \/ WriteNonce
  BY <1>3, FrameStep
<1>4. CASE MlenOverflow
  BY <1>4 DEF MlenOverflow, Die, Exchanging, Running
<1>5. CASE Flush
  <2>1. UNCHANGED <<host, dpc, device, up, down>> /\ hpc = "flush" /\ hpc' = "count"
    BY <1>5 DEF Flush
  <2>2. V' = V
    BY <2>1, SameVector
  <2>3. Written' = Written
    BY <2>1, <2>2 DEF Written
  <2>. QED  BY <2>1, <2>3, QuietStep
<1>6. ~ReadCount /\ ~ReadGarbage /\ ~ReadCipher /\ ~ReadTag /\ ~SaveRow
  <2>1. 1 .. Len(down) = {}
    BY <1>1
  <2>. QED  BY <1>1, <2>1 DEF ReadCount, ReadGarbage, ReadCipher, ReadTag, SaveRow, Exchanging
<1>7. ~Boot /\ ~SendByte /\ ~CannotAllocate /\ ~NotListening
  BY <1>1 DEF Boot, SendByte, CannotAllocate, NotListening, Rx
<1>8. ~Overrun
  <2>. SUFFICES ASSUME Overrun PROVE FALSE
    OBVIOUS
  <2>1. dpc = "payload" /\ Len(rx) = Need /\ Len(up) > 1
    BY <1>1 DEF Overrun, Busy, Rx
  <2>. QED  BY <2>1, AllReceived
<1>9. CASE RecvByte
  BY <1>9, RecvStep
<1>10. CASE CheckHeader
  BY <1>10, HeaderStep
<1>11. CASE CheckLength
  BY <1>11, LengthStep
<1>12. CASE Encrypt
  BY <1>12, EncryptStep
<1>. QED  BY <1>2, <1>3, <1>4, <1>5, <1>6, <1>7, <1>8, <1>9, <1>10, <1>11, <1>12
             DEF Quick, HostStep, DeviceStep

(* While the board is sending its reply.                                   *)
LEMMA ReplyingStep ==
  ASSUME TypeOK, InStep, Exchanging, Replying, Tally, Quick, Exchanging'
  PROVE  Receiving' \/ Replying'
<1>. USE DEF device
<1>. DEFINE m == Len(V.message)
            reply == Reply(Input(V), m)
<1>1. /\ hpc \in {"flush", "count", "cipher", "tag"} /\ up = <<>> /\ rx = <<>>
      /\ dpc \in {"header", "send"}
  BY DEF Replying
<1>2. /\ m \in Nat /\ NCycleCounts = 1 /\ V.ctLen = m /\ V.tagLen = TagLen
      /\ TagLen \in Nat /\ Digits \in Nat
      /\ Len(reply) = Digits + 1 + m + TagLen
  <2>1. V \in Vector /\ MatchedVector(V) /\ m \in Nat /\ NCycleCounts = 1
    BY MatchedLemma
  <2>2. Input(V) \in Seq(Byte)
    BY <2>1, FrameLemma
  <2>. QED  BY <2>1, <2>2, ReplyLemma, ConstantsAssumption DEF MatchedVector
<1>3. /\ ~Listen /\ ~ResetInput /\ ~WriteHeader /\ ~WriteMlen /\ ~MlenOverflow
      /\ ~WriteMessage /\ ~WriteKey /\ ~WriteNonce /\ ~SaveRow
  BY <1>1 DEF Listen, ResetInput, WriteHeader, WriteMlen, MlenOverflow,
              WriteMessage, WriteKey, WriteNonce, Write, SaveRow
<1>4. CASE Flush
  BY <1>4, QuietStep DEF Flush
<1>5. CASE ReadCount
  <2>1. PICK n \in 1 .. Len(down) :
          LineOfLength(n) /\ row' = Append(row, SubSeq(down, 1, n - 1)) /\ Drop(n)
    BY <1>5 DEF ReadCount
  <2>2. hpc = "count" /\ UNCHANGED <<samples, cur, dpc, device, up>>
    BY <1>5 DEF ReadCount
  <2>3. n = Digits + 1
    BY <2>1, <2>2, CountLine
  <2>4. row = <<>>
    BY <2>2 DEF Tally
  <2>5. Len(row') = 1
    BY <2>1, <2>4
  <2>6. hpc' = "cipher"
    BY <1>2, <1>5, <2>5 DEF ReadCount
  <2>7. Consumed = 0 /\ Consumed' = Digits + 1
    BY <2>2, <2>6 DEF Consumed
  <2>8. Consumed' = Consumed + n
    BY <2>3, <2>7, <1>2
  <2>9. n \in Nat /\ n <= Len(down)
    OBVIOUS
  <2>. QED  BY <2>1, <2>2, <2>6, <2>8, <2>9, ConsumeStep
<1>6. ~ReadGarbage
  BY CountLine DEF ReadGarbage
<1>7. CASE ReadCipher
  <2>. DEFINE n == V.ctLen
  <2>1. /\ n \in Nat /\ n <= Len(down) /\ Drop(n) /\ UNCHANGED <<dpc, device, up>>
        /\ hpc = "cipher"
    <3>1. Len(down) \in Nat
      BY DEF TypeOK, WireType
    <3>. QED  BY <1>2, <1>7, <3>1 DEF ReadCipher
  <2>2. Consumed = Digits + 1
    BY <2>1 DEF Consumed
  <2>3. CASE V.tagLen > 0
    <3>1. hpc' = "tag" /\ UNCHANGED host
      BY <1>7, <2>3 DEF ReadCipher
    <3>2. Consumed' = Digits + 1 + m
      BY <3>1, SameVector DEF Consumed
    <3>3. Consumed' = Consumed + n /\ UNCHANGED <<samples, cur>>
      BY <1>2, <2>2, <3>1, <3>2 DEF host
    <3>. HIDE DEF n
    <3>. QED  BY <2>1, <3>1, <3>3, ConsumeStep
  <2>4. CASE ~(V.tagLen > 0)
    <3>1. Return
      BY <1>7, <2>4 DEF ReadCipher
    <3>2. Consumed + n = Len(reply)
      <4>1. TagLen = 0 /\ n = m
        BY <1>2, <2>4
      <4>. HIDE DEF n, m, reply
      <4>. QED  BY <4>1, <2>2, <1>2
    <3>. HIDE DEF n
    <3>. QED  BY <2>1, <3>1, <3>2, ReturnStage
  <2>. QED  BY <2>3, <2>4
<1>8. CASE ReadTag
  <2>. DEFINE n == V.tagLen
  <2>1. /\ n \in Nat /\ n <= Len(down) /\ Drop(n) /\ UNCHANGED <<dpc, device, up>>
        /\ hpc = "tag" /\ Return
    <3>1. Len(down) \in Nat
      BY DEF TypeOK, WireType
    <3>. QED  BY <1>2, <1>8, <3>1 DEF ReadTag
  <2>2. Consumed = Digits + 1 + m
    BY <2>1 DEF Consumed
  <2>3. Consumed + n = Len(reply)
    BY <1>2, <2>2
  <2>. HIDE DEF n
  <2>. QED  BY <2>1, <2>3, ReturnStage
<1>9. CASE SendByte
  BY <1>9, SendStep
<1>10. /\ ~Boot /\ ~RecvByte /\ ~CheckHeader /\ ~CheckLength /\ ~Encrypt
       /\ ~CannotAllocate /\ ~NotListening
  <2>1. Len(rx) = 0
    BY <1>1
  <2>. QED  BY <1>1, <2>1 DEF Boot, RecvByte, CheckHeader, CheckLength, Encrypt,
                              CannotAllocate, NotListening, Need
<1>11. ~Overrun
  BY <1>1 DEF Overrun
<1>. QED  BY <1>3, <1>4, <1>5, <1>6, <1>7, <1>8, <1>9, <1>10, <1>11
             DEF Quick, HostStep, DeviceStep

(* A refusal is not read as a cycle count.                                 *)
LEMMA RefusedCount ==
  ASSUME TypeOK, Refused
  PROVE  ~ReadCount
<1>a. /\ (down # <<>>) => (down[1].kind = "text")
      /\ down \in Seq(Tokens)
  BY DEF Refused, TypeOK, WireType
<1>. SUFFICES ASSUME NEW n \in 1 .. Len(down), LineOfLength(n),
                     MayParse(SubSeq(down, 1, n - 1))
              PROVE  FALSE
  BY DEF ReadCount
<1>1. down[1].kind = "text" /\ Len(down) \in Nat
  <2>1. down # <<>>
    BY <1>a, EmptySeq
  <2>. QED  BY <1>a, <2>1
<1>2. n # 1
  BY <1>1 DEF LineOfLength, Raw
<1>. DEFINE line == SubSeq(down, 1, n - 1)
<1>3. Len(line) = n - 1 /\ line[1] = down[1] /\ 1 \in 1 .. n - 1
  <2>1. n - 1 \in Nat /\ n - 1 <= Len(down) /\ 1 <= (n - 1) + 1 /\ 1 \in Nat \ {0}
    BY <1>1
  <2>2. /\ Len(line) = (n - 1) - 1 + 1
        /\ \A k \in 1 .. (n - 1) - 1 + 1 : line[k] = down[1 + k - 1]
    BY <1>a, <2>1, SubSeqLemma
  <2>. HIDE DEF line
  <2>. QED  BY <1>1, <1>2, <2>1, <2>2
<1>. HIDE DEF line
<1>4. MayParse(line)
  BY DEF line
<1>. QED  BY <1>1, <1>3, <1>4 DEF MayParse, Raw

(* After the board has refused the vector.                                 *)
LEMMA RefusedStep ==
  ASSUME TypeOK, InStep, Exchanging, Refused, Quick, Exchanging'
  PROVE  Refused'
<1>. USE DEF device
<1>1. /\ hpc \in {"message", "key", "nonce", "flush", "count"} /\ ~Fits(V)
      /\ IF down = <<>> THEN dpc = "send" /\ tx[1].kind = "text"
                        ELSE down[1].kind = "text"
  BY DEF Refused
<1>2. down \in Seq(Tokens) /\ tx \in Seq(Tokens) /\ (dpc = "send" => tx # <<>>)
  BY DEF TypeOK, WireType, BoardType
<1>3. ASSUME UNCHANGED <<host, dpc, tx, down>>,
             hpc' \in {"message", "key", "nonce", "flush", "count"}
      PROVE  Refused'
  BY <1>1, <1>3, SameVector DEF Refused
<1>4. ASSUME UNCHANGED <<host, hpc>>, down' # <<>>, down'[1].kind = "text"
      PROVE  Refused'
  BY <1>1, <1>4, SameVector DEF Refused
<1>5. /\ ~Listen /\ ~ResetInput /\ ~WriteHeader /\ ~WriteMlen /\ ~MlenOverflow
      /\ ~ReadCipher /\ ~ReadTag /\ ~SaveRow
  BY <1>1 DEF Listen, ResetInput, WriteHeader, WriteMlen, MlenOverflow, Write,
              ReadCipher, ReadTag, SaveRow
<1>6. CASE WriteMessage \/ WriteKey \/ WriteNonce
  <2>1. UNCHANGED <<host, dpc, tx, down>>
    BY <1>6 DEF WriteMessage, WriteKey, WriteNonce, Write
  <2>2. hpc' \in {"key", "nonce", "flush"}
    BY <1>6 DEF WriteMessage, WriteKey, WriteNonce, Write
  <2>. QED  BY <1>3, <2>1, <2>2
<1>7. CASE Flush
  BY <1>3, <1>7 DEF Flush
<1>8. ~ReadCount
  BY RefusedCount
<1>9. ~ReadGarbage
  BY DEF ReadGarbage, Die, Exchanging, Running
<1>10. CASE SendByte
  <2>1. /\ Head(tx) = tx[1] /\ tx[1] \in Tokens
    BY <1>2, <1>10, HeadTailLemma DEF SendByte
  <2>2. down' = Append(down, tx[1]) /\ UNCHANGED <<host, hpc>>
    BY <1>10, <2>1 DEF SendByte
  <2>3. down' # <<>> /\ down'[1].kind = "text"
    <3>1. /\ Len(down') = Len(down) + 1 /\ Len(down) \in Nat
          /\ down'[Len(down) + 1] = tx[1] /\ down' \in Seq(Tokens)
          /\ \A k \in 1 .. Len(down) : down'[k] = down[k]
      BY <1>2, <2>1, <2>2, AppendLemma
    <3>2. CASE down = <<>>
      <4>1. Len(down) = 0 /\ tx[1].kind = "text"
        BY <1>1, <3>2
      <4>2. Len(down') = 1 /\ down'[1] = tx[1]
        BY <3>1, <4>1
      <4>3. down' # <<>>
        BY <4>2
      <4>. QED  BY <4>1, <4>2, <4>3
    <3>3. CASE down # <<>>
      BY <1>1, <1>2, <3>1, <3>3, EmptySeq
    <3>. QED  BY <3>2, <3>3
  <2>. QED  BY <1>4, <2>2, <2>3
<1>11. CASE CannotAllocate
  <2>1. down # <<>> /\ down[1].kind = "text"
    BY <1>1, <1>11 DEF CannotAllocate
  <2>2. Len(down) \in Nat /\ Len(down) >= 1
    BY <1>2, <2>1, EmptySeq
  <2>3. down' = down \o TextLine /\ UNCHANGED <<host, hpc>>
    BY <1>11 DEF CannotAllocate
  <2>4. Len(down') = Len(down) + 2 /\ down'[1] = down[1]
    <3>. DEFINE line == TextLine
    <3>1. line \in Seq(Tokens) /\ down \in Seq(Tokens)
      BY <1>2, TextLineLemma
    <3>4. Len(line) = 2
      BY TextLineLemma
    <3>2. down' = down \o line
      BY <2>3
    <3>. HIDE DEF line
    <3>3. /\ Len(down \o line) = Len(down) + Len(line)
          /\ \A i \in 1 .. Len(down) : (down \o line)[i] = down[i]
      BY ONLY <3>1, ConcatLemma
    <3>. QED  BY <2>2, <3>2, <3>3, <3>4
  <2>5. down' # <<>>
    BY <2>2, <2>4
  <2>. QED  BY <1>4, <2>1, <2>3, <2>4, <2>5
<1>12. CASE Boot \/ RecvByte \/ CheckHeader \/ CheckLength \/ Encrypt
  <2>1. dpc # "send"
    BY <1>12, EmptySeq DEF Boot, RecvByte, CheckHeader, CheckLength, Encrypt,
                           Need, TypeOK, BoardType
  <2>2. UNCHANGED <<host, hpc, down>>
    BY <1>12 DEF Boot, RecvByte, CheckHeader, CheckLength, Encrypt
  <2>. QED  BY <1>1, <1>4, <2>1, <2>2
<1>13. CASE Overrun \/ NotListening
  BY <1>1, <1>3, <1>13 DEF Overrun, NotListening
<1>. QED  BY <1>5, <1>6, <1>7, <1>8, <1>9, <1>10, <1>11, <1>12, <1>13
             DEF Quick, HostStep, DeviceStep
-----------------------------------------------------------------------------
Stage == Receiving \/ Replying \/ Refused

(* The rows stay those of the first vectors of the file.                   *)
LEMMA TallyStep ==
  ASSUME TypeOK, InStep, Tally, Exchanging => Stage, Quick
  PROVE  Tally'
<1>. USE DEF device
<1>0. /\ V \in Vector /\ NCycleCounts = 1
      /\ cnts \in Seq(Seq(Seq(Tokens))) /\ row \in Seq(Seq(Tokens))
      /\ cur \in 1 .. Len(samples.vecs) /\ Len(samples.vecs) \in Nat
  BY MatchedLemma, VectorLemma DEF TypeOK, HostType, SampleFile
<1>1. ASSUME UNCHANGED <<samples, cur, row, cnts>>, Exchanging' => Exchanging,
             hpc' \in {"save", "done"} => hpc \in {"save", "done"},
             Exchanging' => (hpc' \in {"cipher", "tag"} <=> hpc \in {"cipher", "tag"})
      PROVE  Tally'
  <2>1. V' = V
    BY <1>1 DEF V
  <2>. QED  BY <1>1, <2>1 DEF Tally
<1>2. ASSUME Return, hpc \in {"cipher", "tag"}
      PROVE  Tally'
  <2>1. row = RowFor(V) /\ Len(cnts) = cur - 1
    BY <1>2 DEF Tally, Exchanging, Running
  <2>2. /\ Len(cnts') = Len(cnts) + 1 /\ cnts'[Len(cnts) + 1] = row
        /\ \A i \in 1 .. Len(cnts) : cnts'[i] = cnts[i]
    <3>. DEFINE S == Seq(Seq(Tokens))
    <3>1. cnts \in Seq(S) /\ row \in S /\ cnts' = Append(cnts, row)
      BY <1>0, <1>2 DEF Return
    <3>. HIDE DEF S
    <3>. QED  BY ONLY <3>1, AppendLemma
  <2>3. Len(cnts') = cur /\ samples' = samples /\ row' = <<>>
    BY <1>0, <1>2, <2>1, <2>2 DEF Return
  <2>4. \A i \in 1 .. Len(cnts') : cnts'[i] = RowFor(samples.vecs[i])
    <3>. SUFFICES ASSUME NEW i \in 1 .. cur PROVE cnts'[i] = RowFor(samples.vecs[i])
      BY <2>3
    <3>1. CASE i = cur
      BY <3>1, <1>0, <2>1, <2>2 DEF V
    <3>2. CASE i # cur
      <4>1. i \in 1 .. Len(cnts)
        BY <3>2, <1>0, <2>1
      <4>. QED  BY <4>1, <2>2 DEF Tally
    <3>. QED  BY <3>1, <3>2
  <2>5. CASE cur < Len(samples.vecs)
    <3>1. hpc' = "listen" /\ cur' = cur + 1
      BY <1>2, <2>5 DEF Return
    <3>2. Len(cnts') = cur' - 1
      BY <1>0, <2>3, <3>1
    <3>. QED  BY <2>3, <2>4, <3>1, <3>2 DEF Tally
  <2>6. CASE ~(cur < Len(samples.vecs))
    <3>1. hpc' = "save" /\ cur = Len(samples.vecs)
      BY <1>0, <1>2, <2>6 DEF Return
    <3>. QED  BY <2>3, <2>4, <3>1 DEF Tally, Exchanging
  <2>. QED  BY <2>5, <2>6
<1>3. CASE ReadCount
  <2>1. hpc = "count" /\ Exchanging /\ UNCHANGED <<samples, cur, cnts>>
    BY <1>3 DEF ReadCount, Exchanging, Running
  <2>2. PICK n \in 1 .. Len(down) :
          LineOfLength(n) /\ row' = Append(row, SubSeq(down, 1, n - 1)) /\ Drop(n)
    BY <1>3 DEF ReadCount
  <2>3. Replying
    <3>1. ~Refused
      BY <1>3, RefusedCount
    <3>2. ~Receiving
      BY <2>2 DEF Receiving
    <3>. QED  BY <2>1, <3>1, <3>2 DEF Stage
  <2>4. SubSeq(down, 1, n - 1) = CountDigits(Input(V))
    BY <2>1, <2>2, <2>3, CountLine
  <2>5. row = <<>> /\ Len(cnts) = cur - 1
    BY <2>1 DEF Tally
  <2>6. row' = <<CountDigits(Input(V))>>
    BY <2>2, <2>4, <2>5
  <2>7. hpc' = "cipher"
    BY <1>0, <1>3, <2>6 DEF ReadCount
  <2>8. V' = V
    BY <2>1 DEF V
  <2>. QED  BY <2>1, <2>5, <2>6, <2>7, <2>8 DEF Tally, RowFor
<1>4. CASE ReadCipher
  <2>1. CASE V.tagLen > 0
    BY <1>1, <1>4, <2>1 DEF ReadCipher, host, Exchanging, Running
  <2>2. CASE ~(V.tagLen > 0)
    BY <1>2, <1>4, <2>2 DEF ReadCipher
  <2>. QED  BY <2>1, <2>2
<1>5. CASE ReadTag
  BY <1>2, <1>5 DEF ReadTag
<1>6. CASE SaveRow
  BY <1>1, <1>6 DEF SaveRow, Exchanging, Running
<1>7. CASE Listen \/ ResetInput \/ WriteHeader \/ WriteMlen \/ WriteMessage \/ WriteNonce \/ Flush
  <2>1. /\ hpc \in {"listen", "listen2", "reset", "header", "mlen", "message", "nonce", "flush"}
        /\ hpc' \in {"reset", "mlen", "header", "listen2", "message", "key", "flush", "count"}
        /\ UNCHANGED host
    BY <1>7 DEF Listen, ResetInput, WriteHeader, WriteMlen, WriteMessage,
                WriteNonce, Write, Flush
  <2>. QED  BY <1>1, <2>1 DEF host, Exchanging, Running
<1>8. CASE WriteKey
  BY <1>1, <1>8 DEF WriteKey, Write, host, Exchanging, Running
<1>9. CASE MlenOverflow \/ ReadGarbage
  BY <1>1, <1>9 DEF MlenOverflow, ReadGarbage, Die, host, Exchanging, Running
<1>10. CASE DeviceStep \/ CannotAllocate \/ Overrun \/ NotListening
  <2>1. UNCHANGED <<host, hpc>>
    BY <1>10 DEF DeviceStep, Boot, RecvByte, CheckHeader, CheckLength, Encrypt,
                 SendByte, CannotAllocate, Overrun, NotListening
  <2>. QED  BY <1>1, <2>1 DEF host, Exchanging, Running
<1>. QED  BY <1>3, <1>4, <1>5, <1>6, <1>7, <1>8, <1>9, <1>10 DEF Quick, HostStep

(* The three stages of an exchange, and the rows kept so far.              *)
THEOREM LinkInvariant == Spec => []LinkInv
<1>1. Init => LinkInv
  BY DEF Init, LinkInv, Fresh, InStep
<1>2. ASSUME TypeOK, LinkInv, [Next]_vars PROVE LinkInv'
  <2>. USE DEF device
  <2>1. Fresh'
    <3>1. CASE Start
      BY <3>1 DEF Start, Fresh
    <3>2. CASE Listen
      BY <1>2, <3>2 DEF Listen, Fresh, LinkInv, host
    <3>3. CASE UNCHANGED <<hpc, cur, cnts, row>>
      BY <1>2, <3>3 DEF Fresh, LinkInv
    <3>4. CASE hpc' \notin {"listen", "reset"}
      BY <3>4 DEF Fresh
    <3>5. CASE Return
      BY <1>2, <3>5 DEF Fresh, Return, TypeOK, HostType
    <3>6. CASE HostStep
      <4>1. \/ Return \/ Listen
            \/ hpc' \notin {"listen", "reset"}
        BY <3>6 DEF HostStep, ResetInput, WriteHeader, WriteMlen, MlenOverflow,
             WriteMessage, WriteKey, WriteNonce, Write, Die, Flush, ReadCount,
             ReadGarbage, ReadCipher, ReadTag, SaveRow
      <4>. QED  BY <4>1, <3>2, <3>4, <3>5
    <3>7. CASE DeviceStep \/ CannotAllocate \/ Overrun \/ NotListening \/ ResetBoard
      <4>1. UNCHANGED <<host, hpc>>
        BY <3>7 DEF DeviceStep, Boot, RecvByte, CheckHeader, CheckLength, Encrypt,
                    SendByte, CannotAllocate, Overrun, NotListening, ResetBoard
      <4>. QED  BY <4>1, <3>3 DEF host
    <3>8. CASE Interrupt
      BY <3>8, <3>4 DEF Interrupt, Die
    <3>9. CASE UNCHANGED vars
      BY <3>9, <3>3 DEF vars, host
    <3>. QED  BY <1>2, <3>1, <3>6, <3>7, <3>8, <3>9 DEF Next
  <2>2. ASSUME InStep' PROVE Tally' /\ (Exchanging' => Stage')
    <3>1. ~Start /\ ~ResetBoard
      BY <2>2 DEF Start, ResetBoard, InStep
    <3>2. CASE UNCHANGED vars
      <4>1. InStep /\ Tally /\ (Exchanging => Stage)
        BY <1>2, <2>2, <3>2 DEF LinkInv, Stage, InStep, Matched, vars, host
      <4>2. V' = V /\ SendsNonce' = SendsNonce
        BY <3>2, SameVector DEF vars
      <4>3. Tally' = Tally /\ Exchanging' = Exchanging
        BY <3>2, <4>2 DEF Tally, Exchanging, Running, vars, host
      <4>4. Taken' = Taken /\ Written' = Written /\ Consumed' = Consumed /\ Frame(V)' = Frame(V)
        BY <3>2, <4>2 DEF Taken, Written, Consumed, vars
      <4>5. Receiving' = Receiving /\ Replying' = Replying /\ Refused' = Refused
        BY <3>2, <4>2, <4>4 DEF Receiving, Replying, Refused, vars
      <4>. QED  BY <4>1, <4>3, <4>5 DEF Stage
    <3>3. CASE ResetInput /\ cur = 1
      <4>1. Idle /\ hpc = "reset" /\ hpc' = "header" /\ UNCHANGED host
        BY <2>2, <3>3 DEF ResetInput, InStep
      <4>2. Receiving'
        BY <1>2, <3>3, <4>1, FreshStage
      <4>3. cnts = <<>> /\ row = <<>>
        BY <1>2, <3>3, <4>1 DEF LinkInv, Fresh
      <4>4. Tally'
        <5>1. cnts' = <<>> /\ row' = <<>> /\ cur' = 1 /\ Len(cnts') = 0
          BY <3>3, <4>1, <4>3 DEF host
        <5>. QED  BY <4>1, <5>1 DEF Tally
      <4>. QED  BY <4>2, <4>4 DEF Stage
    <3>4. CASE Quick /\ ~(ResetInput /\ cur = 1)
      <4>1. InStep
        <5>1. clean' = clean /\ samples' = samples
          BY <3>4 DEF Quick, HostStep, DeviceStep, ResetInput, Listen, WriteHeader,
               WriteMlen, MlenOverflow, WriteMessage, WriteKey, WriteNonce, Write,
               Die, Flush, ReadCount, ReadGarbage, ReadCipher, ReadTag, Return,
               SaveRow, Boot, RecvByte, CheckHeader, CheckLength, Encrypt, SendByte,
               CannotAllocate, Overrun, NotListening, host
        <5>. QED  BY <2>2, <5>1 DEF InStep, Matched
      <4>2. Tally /\ (Exchanging => Stage)
        BY <1>2, <4>1 DEF LinkInv, Stage
      <4>3. Tally'
        BY <1>2, <3>4, <4>1, <4>2, TallyStep
      <4>4. Exchanging' => Exchanging
        BY <3>4 DEF Quick, HostStep, DeviceStep, Exchanging, Running, ResetInput,
             Listen, WriteHeader, WriteMlen, MlenOverflow, WriteMessage, WriteKey,
             WriteNonce, Write, Die, Flush, ReadCount, ReadGarbage, ReadCipher,
             ReadTag, SaveRow, Boot, RecvByte, CheckHeader, CheckLength,
             Encrypt, SendByte, CannotAllocate, Overrun, NotListening
      <4>5. ASSUME Exchanging' PROVE Stage'
        <5>1. CASE Receiving
          BY <1>2, <3>4, <4>1, <4>4, <4>5, <5>1, ReceivingStep DEF Stage
        <5>2. CASE Replying
          BY <1>2, <3>4, <4>1, <4>2, <4>4, <4>5, <5>2, ReplyingStep DEF Stage
        <5>3. CASE Refused
          BY <1>2, <3>4, <4>1, <4>4, <4>5, <5>3, RefusedStep DEF Stage
        <5>. QED  BY <4>2, <4>4, <4>5, <5>1, <5>2, <5>3 DEF Stage
      <4>. QED  BY <4>3, <4>5
    <3>5. CASE Interrupt
      <4>1. InStep /\ ~Exchanging' /\ hpc' = "dead" /\ UNCHANGED host
        BY <2>2, <3>5 DEF Interrupt, Die, InStep, Matched, Exchanging, Running, host
      <4>2. Tally
        BY <1>2, <4>1 DEF LinkInv
      <4>3. Tally'
        BY <4>1, <4>2 DEF Tally, host
      <4>. QED  BY <4>1, <4>3
    <3>. QED  BY <1>2, <3>1, <3>2, <3>3, <3>4, <3>5 DEF Next, Quick
  <2>. QED  BY <2>1, <2>2 DEF LinkInv, Stage
<1>. QED  BY <1>1, <1>2, TypeCorrect, PTL DEF Spec
-----------------------------------------------------------------------------
(* What the stages say about what the script reads.                        *)
LEMMA ReadLemma ==
  ASSUME TypeOK, InStep, Replying,
         NEW n \in Nat, n <= Len(down),
         NEW part \in Seq(Tokens), Len(part) = n,
         \A k \in 1 .. n : Reply(Input(V), Len(V.message))[Consumed + k] = part[k]
  PROVE  SubSeq(down, 1, n) = part
<1>1. down \in Seq(Tokens) /\ Len(down) \in Nat
  BY DEF TypeOK, WireType
<1>2. \A k \in 1 .. Len(down) : down[k] = Reply(Input(V), Len(V.message))[Consumed + k]
  BY DEF Replying
<1>3. /\ SubSeq(down, 1, n) \in Seq(Tokens) /\ Len(SubSeq(down, 1, n)) = n
      /\ \A k \in 1 .. n : SubSeq(down, 1, n)[k] = down[k]
  <2>1. 1 <= n + 1 /\ 1 \in Nat \ {0} /\ n - 1 + 1 = n
    OBVIOUS
  <2>2. /\ SubSeq(down, 1, n) \in Seq(Tokens) /\ Len(SubSeq(down, 1, n)) = n - 1 + 1
        /\ \A k \in 1 .. n - 1 + 1 : SubSeq(down, 1, n)[k] = down[1 + k - 1]
    BY <1>1, <2>1, SubSeqLemma
  <2>. QED  BY <2>1, <2>2
<1>4. \A k \in 1 .. n : SubSeq(down, 1, n)[k] = part[k]
  BY <1>1, <1>2, <1>3
<1>. QED  BY <1>3, <1>4, SeqEqual

(* Every count kept in a run in step is the board's count of that vector.  *)
THEOREM CountsCorrect == Spec => []CountsBelong
<1>1. LinkInv => CountsBelong
  <2>. SUFFICES ASSUME LinkInv, InStep PROVE
         /\ \A i \in 1 .. Len(cnts) : cnts[i] = RowFor(samples.vecs[i])
         /\ hpc \in {"cipher", "tag"} => row = RowFor(V)
    BY DEF CountsBelong
  <2>. QED  BY DEF LinkInv, Tally, Exchanging, Running
<1>. QED  BY <1>1, LinkInvariant, PTL

(* In a run in step, listen() and reset_input_buffer() drop no reply.      *)
THEOREM NothingDiscardedHolds == Spec => []NothingDiscarded
<1>1. LinkInv => NothingDiscarded
  BY DEF LinkInv, NothingDiscarded, Exchanging, Running, Receiving, Replying, Refused
<1>. QED  BY <1>1, LinkInvariant, PTL

(* In a run in step, no byte of a vector that fits is lost to an overrun.  *)
THEOREM NothingLostHolds == Spec => []NothingLost
<1>1. TypeOK /\ LinkInv => NothingLost
  <2>. SUFFICES ASSUME TypeOK, LinkInv, InStep, Exchanging, Fits(V), Busy
                PROVE  up = <<>>
    BY DEF NothingLost
  <2>1. CASE Receiving
    <3>1. dpc = "payload" /\ Len(rx) = Need
      BY <2>1 DEF Receiving, Busy, Rx
    <3>. QED  BY <2>1, <3>1, AllReceived
  <2>2. CASE Replying
    BY <2>2 DEF Replying
  <2>3. CASE Refused
    BY <2>3 DEF Refused
  <2>. QED  BY <2>1, <2>2, <2>3 DEF LinkInv
<1>. QED  BY <1>1, LinkInvariant, TypeCorrect, PTL

(* In a run in step, the script's two reads return the ciphertext and the  *)
(* tag of its vector.                                                      *)
THEOREM ReplyMatchesHolds == Spec => ReplyMatches
<1>1. TypeOK /\ LinkInv =>
        (InStep =>
           /\ ReadCipher => SubSeq(down, 1, V.ctLen) = CipherBytes(Input(V), V.ctLen)
           /\ ReadTag => SubSeq(down, 1, V.tagLen) = TagBytes(Input(V)))
  <2>. SUFFICES ASSUME TypeOK, LinkInv, InStep PROVE
         /\ ReadCipher => SubSeq(down, 1, V.ctLen) = CipherBytes(Input(V), V.ctLen)
         /\ ReadTag => SubSeq(down, 1, V.tagLen) = TagBytes(Input(V))
    OBVIOUS
  <2>. DEFINE m == Len(V.message)
              x == Input(V)
              reply == Reply(x, m)
  <2>1. /\ V \in Vector /\ MatchedVector(V) /\ m \in Nat /\ x \in Seq(Byte)
        /\ V.ctLen = m /\ V.tagLen = TagLen /\ TagLen \in Nat
    <3>1. V \in Vector /\ MatchedVector(V) /\ m \in Nat
      BY MatchedLemma
    <3>. QED  BY <3>1, FrameLemma, ConstantsAssumption DEF MatchedVector
  <2>2. /\ \A i \in 1 .. m : reply[Digits + 1 + i] = Token("cipher", x, i)
        /\ \A i \in 1 .. TagLen : reply[Digits + 1 + m + i] = Token("tag", x, i)
    BY <2>1, ReplyLemma
  <2>3. ReadCipher \/ ReadTag => Replying
    BY DEF LinkInv, ReadCipher, ReadTag, Exchanging, Running, Receiving, Refused
  <2>4. ASSUME ReadCipher PROVE SubSeq(down, 1, V.ctLen) = CipherBytes(x, V.ctLen)
    <3>. DEFINE part == CipherBytes(x, m)
    <3>1. part \in Seq(Tokens) /\ Len(part) = m
      BY <2>1, TokenLemma DEF CipherBytes
    <3>2. Consumed = Digits + 1 /\ Replying /\ Len(down) >= m
      BY <2>1, <2>3, <2>4 DEF ReadCipher, Consumed
    <3>3. \A k \in 1 .. m : reply[Consumed + k] = part[k]
      BY <2>2, <3>2 DEF CipherBytes
    <3>4. m <= Len(down)
      BY <2>1, <3>2 DEF TypeOK, WireType
    <3>. HIDE DEF part
    <3>5. SubSeq(down, 1, m) = part
      BY <2>1, <3>1, <3>2, <3>3, <3>4, ReadLemma
    <3>. QED  BY <2>1, <3>5 DEF part
  <2>5. ASSUME ReadTag PROVE SubSeq(down, 1, V.tagLen) = TagBytes(x)
    <3>. DEFINE part == TagBytes(x)
    <3>1. part \in Seq(Tokens) /\ Len(part) = TagLen
      BY <2>1, TokenLemma DEF TagBytes
    <3>2. Consumed = Digits + 1 + m /\ Replying /\ Len(down) >= TagLen
      BY <2>1, <2>3, <2>5 DEF ReadTag, Consumed
    <3>3. \A k \in 1 .. TagLen : reply[Consumed + k] = part[k]
      BY <2>2, <3>2 DEF TagBytes
    <3>4. TagLen <= Len(down)
      BY <2>1, <3>2 DEF TypeOK, WireType
    <3>. HIDE DEF part
    <3>5. SubSeq(down, 1, TagLen) = part
      BY <2>1, <3>1, <3>2, <3>3, <3>4, ReadLemma
    <3>. QED  BY <2>1, <3>5 DEF part
  <2>. QED  BY <2>4, <2>5
<1>. QED  BY <1>1, LinkInvariant, TypeCorrect, PTL DEF ReplyMatches

(* In a run in step, the script only dies of a line that is no number if   *)
(* the board refuses the vector.                                           *)
THEOREM NoGarbageHolds == Spec => NoGarbage
<1>1. TypeOK /\ LinkInv => ((ReadGarbage /\ InStep) => ~Fits(V))
  <2>. SUFFICES ASSUME TypeOK, LinkInv, ReadGarbage, InStep, Fits(V) PROVE FALSE
    OBVIOUS
  <2>1. hpc = "count" /\ Exchanging
    BY DEF ReadGarbage, Exchanging, Running
  <2>2. PICK n \in 1 .. Len(down) : LineOfLength(n) /\ MayFail(SubSeq(down, 1, n - 1))
    BY DEF ReadGarbage
  <2>3. CASE Receiving
    BY <2>2, <2>3 DEF Receiving
  <2>4. CASE Replying
    BY <2>1, <2>2, <2>4, CountLine
  <2>5. CASE Refused
    BY <2>5 DEF Refused
  <2>. QED  BY <2>1, <2>3, <2>4, <2>5 DEF LinkInv
<1>. QED  BY <1>1, LinkInvariant, TypeCorrect, PTL DEF NoGarbage

(***************************************************************************)
(* SerialBench implements Measurement, as far as safety goes: with a       *)
(* careful operator and files that fit the program, whatever the rest of   *)
(* the constants, a run of the script measures the vectors in order and    *)
(* saves all rows after the last, or is broken off.                        *)
(***************************************************************************)

\* The run has begun but has not yet emptied the input buffer.
Beginning == hpc \in {"listen", "reset"} /\ cur = 1

\* What carefulness is for: the board is idle when a run begins, and stays so
\* until the run is known to be clean.
Undisturbed == Running => IF Beginning THEN Idle ELSE clean

LEMMA InitUndisturbed == Init => Undisturbed
BY DEF Init, Undisturbed, Running

LEMMA NextUndisturbed ==
  ASSUME Careful, TypeOK, Undisturbed, [Next]_vars
  PROVE  Undisturbed'
<1>. USE DEF device, host
<1>1. CASE UNCHANGED vars
  BY <1>1 DEF vars, Undisturbed, Running, Beginning, Idle
<1>2. CASE Start
  BY <1>2 DEF Start, Undisturbed, Running, Beginning, Idle
<1>3. CASE Listen
  BY <1>3 DEF Listen, Undisturbed, Running, Beginning, Idle
<1>4. CASE ResetInput
  BY <1>4 DEF ResetInput, Undisturbed, Running, Beginning, Idle
<1>5. CASE WriteHeader \/ WriteMlen \/ WriteMessage \/ WriteKey \/ WriteNonce \/ Flush
  BY <1>5 DEF WriteHeader, WriteMlen, WriteMessage, WriteKey, WriteNonce, Flush, Write,
              Undisturbed, Running, Beginning
<1>6. CASE MlenOverflow \/ ReadGarbage \/ Interrupt
  BY <1>6 DEF MlenOverflow, ReadGarbage, Interrupt, Die, Undisturbed, Running
<1>7. CASE ReadCount \/ SaveRow
  BY <1>7 DEF ReadCount, SaveRow, Undisturbed, Running, Beginning
<1>8. CASE ReadCipher \/ ReadTag
  <2>1. Running /\ ~Beginning /\ clean' = clean /\ cur \in Nat /\ cur > 0
    BY <1>8 DEF ReadCipher, ReadTag, Running, Beginning, TypeOK, HostType
  <2>2. hpc' = "tag" \/ hpc' = "save" \/ cur' = cur + 1
    BY <1>8 DEF ReadCipher, ReadTag, Return
  <2>3. cur' = cur + 1 => cur' # 1
    BY <2>1
  <2> QED BY <2>1, <2>2, <2>3 DEF Undisturbed, Beginning, Running
<1>9. CASE DeviceStep \/ CannotAllocate \/ Overrun \/ NotListening
  <2>1. ~Idle
    <3>1. dpc = "header" /\ rx = <<>> => Need = 3 /\ Len(rx) = 0
      BY DEF Need
    <3>2. up = <<>> => Len(up) = 0
      OBVIOUS
    <3> QED BY <1>9, <3>1, <3>2 DEF DeviceStep, Boot, RecvByte, CheckHeader, CheckLength,
                 Encrypt, SendByte, CannotAllocate, Overrun, NotListening, Idle
  <2>2. hpc' = hpc /\ cur' = cur /\ clean' = clean
    BY <1>9 DEF DeviceStep, Boot, RecvByte, CheckHeader, CheckLength,
                 Encrypt, SendByte, CannotAllocate, Overrun, NotListening
  <2> QED BY <2>1, <2>2 DEF Undisturbed, Running, Beginning
<1>10. CASE ResetBoard
  BY <1>10 DEF ResetBoard, Undisturbed, Running
<1> QED BY <1>1, <1>2, <1>3, <1>4, <1>5, <1>6, <1>7, <1>8, <1>9, <1>10 DEF Next, HostStep

\* What a step of the implementation needs to know about the state.
Known == TypeOK /\ LinkInv /\ Undisturbed

\* Returning from benchmark_testvec is measuring the next vector.
LEMMA ReturnMeasures ==
  ASSUME \A f \in SampleFiles : Matched(f), Known, Return, hpc \in {"cipher", "tag"}
  PROVE  Promise!Measure
<1>1. /\ InStep /\ Exchanging /\ Tally
      /\ samples \in SampleFiles /\ cur \in 1 .. Len(samples.vecs)
  BY DEF Known, Undisturbed, Running, Beginning, InStep, LinkInv, TypeOK, HostType, Exchanging
<1>2. row = RowFor(V) /\ Len(cnts) = cur - 1 /\ cnts \in Seq(Seq(Seq(Tokens)))
      /\ row \in Seq(Seq(Tokens))
  BY <1>1 DEF Tally, Known, TypeOK, HostType
<1>3. samples.vecs \in Seq(Vector) /\ Len(samples.vecs) \in Nat
  BY <1>1, ConstantsAssumption DEF SampleFile
<1>4. Len(Rows(samples)) = Len(samples.vecs) /\ Rows(samples)[Len(cnts) + 1] = row
  BY <1>1, <1>2, <1>3 DEF Rows, V
<1>5. cnts' = Append(cnts, row) /\ Len(cnts') = cur
  BY <1>1, <1>2, AppendLemma DEF Return
<1>6. Phase = "measuring"
  BY DEF Phase
<1>7. Rows(samples)' = Rows(samples)
  BY DEF Return, Rows
<1>8. CASE cur < Len(samples.vecs)
  <2>1. Phase' = "measuring" /\ output' = output
    BY <1>8 DEF Return, Phase
  <2>2. Len(cnts') # Len(Rows(samples))
    BY <1>8, <1>4, <1>5, <1>1, <1>3
  <2> QED BY <1>4, <1>5, <1>6, <1>7, <2>1, <2>2 DEF Promise!Measure
<1>9. CASE ~(cur < Len(samples.vecs))
  <2>1. Phase' = "saving" /\ output' = <<>>
    BY <1>9 DEF Return, Phase
  <2>2. Len(cnts') = Len(Rows(samples))
    BY <1>9, <1>4, <1>5, <1>1, <1>3
  <2> QED BY <1>4, <1>5, <1>6, <1>7, <2>1, <2>2 DEF Promise!Measure
<1> QED BY <1>8, <1>9

\* A line of the output file is a row of the promise.
LEMMA SaveRowSaves ==
  ASSUME \A f \in SampleFiles : Matched(f), Known, SaveRow
  PROVE  Promise!Save
<1>1. /\ InStep /\ Tally /\ hpc = "save" /\ samples \in SampleFiles
  BY DEF Known, Undisturbed, Running, Beginning, InStep, LinkInv, TypeOK, HostType, SaveRow
<1>2. /\ cnts \in Seq(Seq(Seq(Tokens))) /\ output \in Seq(Seq(Seq(Tokens)))
      /\ Len(output) < Len(cnts) /\ Len(cnts) = Len(samples.vecs)
      /\ \A k \in 1 .. Len(cnts) : cnts[k] = RowFor(samples.vecs[k])
  BY <1>1 DEF Known, TypeOK, HostType, Tally
<1>3. /\ Len(output) \in Nat /\ Len(cnts) \in Nat /\ Len(output) + 1 \in 1 .. Len(cnts)
  BY <1>2
<1>4. /\ Len(Rows(samples)) = Len(cnts)
      /\ Rows(samples)[Len(output) + 1] = cnts[Len(output) + 1]
  BY <1>2, <1>3 DEF Rows
<1>5. /\ output' = Append(output, Rows(samples)[Len(output) + 1])
      /\ cnts' = cnts /\ samples' = samples
      /\ hpc' = IF Len(output') = Len(cnts) THEN "done" ELSE "save"
  BY <1>4 DEF SaveRow
<1>6. /\ Phase = "saving" /\ Rows(samples)' = Rows(samples)
      /\ Phase' = IF Len(output') = Len(Rows(samples)) THEN "saved" ELSE "saving"
  BY <1>1, <1>4, <1>5 DEF Phase, Rows
<1> QED BY <1>5, <1>6 DEF Promise!Save

LEMMA StepImplements ==
  ASSUME \A f \in SampleFiles : Matched(f), Known, [Next]_vars
  PROVE  [Promise!Next]_(Promise!mvars)
<1>. USE DEF device, host
<1>1. ASSUME hpc' = hpc \/ (Phase = "measuring" /\ Phase' = "measuring"),
             UNCHANGED <<samples, cnts, output>>
      PROVE  UNCHANGED Promise!mvars
  BY <1>1 DEF Promise!mvars, Phase, Rows
<1>2. ASSUME Running, hpc' = "dead", UNCHANGED <<samples, cnts, output>>
      PROVE  Promise!Next
  <2>1. Phase \in {"measuring", "saving"} /\ Phase' = "failed" /\ Rows(samples)' = Rows(samples)
    BY <1>2 DEF Phase, Running, Rows
  <2> QED BY <1>2, <2>1 DEF Promise!Next, Promise!BreakOff
<1>3. CASE UNCHANGED vars
  BY <1>3, <1>1 DEF vars
<1>4. CASE Start
  <2>1. Phase \in {"off", "saved", "failed"} /\ Phase' = "measuring" /\ cnts' = <<>>
        /\ output' = output /\ samples' \in SampleFiles
    BY <1>4 DEF Start, Running, Phase, Known, TypeOK, HostType
  <2>2. Rows(samples)' \in {Rows(f) : f \in SampleFiles}
    BY <2>1 DEF Rows
  <2> QED BY <2>1, <2>2 DEF Promise!Next, Promise!Begin
<1>5. CASE Listen \/ ResetInput \/ WriteHeader \/ WriteMlen \/ WriteMessage \/ WriteKey
           \/ WriteNonce \/ Flush \/ ReadCount
  <2>1. Phase = "measuring" /\ Phase' = "measuring" /\ UNCHANGED <<samples, cnts, output>>
    BY <1>5 DEF Listen, ResetInput, WriteHeader, WriteMlen, WriteMessage, WriteKey,
                WriteNonce, Flush, Write, ReadCount, Phase
  <2> QED BY <2>1, <1>1
<1>6. CASE MlenOverflow \/ ReadGarbage \/ Interrupt
  <2>1. Running /\ hpc' = "dead" /\ UNCHANGED <<samples, cnts, output>>
    BY <1>6 DEF MlenOverflow, ReadGarbage, Interrupt, Die, Running
  <2> QED BY <2>1, <1>2
<1>7. CASE ReadCipher
  <2>1. CASE V.tagLen > 0
    <3>1. Phase = "measuring" /\ Phase' = "measuring" /\ UNCHANGED <<samples, cnts, output>>
      BY <1>7, <2>1 DEF ReadCipher, Phase
    <3> QED BY <3>1, <1>1
  <2>2. CASE ~(V.tagLen > 0)
    <3>1. Return /\ hpc \in {"cipher", "tag"}
      BY <1>7, <2>2 DEF ReadCipher
    <3> QED BY <3>1, ReturnMeasures DEF Promise!Next
  <2> QED BY <2>1, <2>2
<1>8. CASE ReadTag
  <2>1. Return /\ hpc \in {"cipher", "tag"}
    BY <1>8 DEF ReadTag
  <2> QED BY <2>1, ReturnMeasures DEF Promise!Next
<1>9. CASE SaveRow
  BY <1>9, SaveRowSaves DEF Promise!Next
<1>10. CASE DeviceStep \/ CannotAllocate \/ Overrun \/ NotListening \/ ResetBoard
  <2>1. hpc' = hpc /\ UNCHANGED <<samples, cnts, output>>
    BY <1>10 DEF DeviceStep, Boot, RecvByte, CheckHeader, CheckLength,
                 Encrypt, SendByte, CannotAllocate, Overrun, NotListening, ResetBoard
  <2> QED BY <2>1, <1>1
<1> QED BY <1>3, <1>4, <1>5, <1>6, <1>7, <1>8, <1>9, <1>10 DEF Next, HostStep

\* The safety part of Measures, for every number of runs, boots and vectors and
\* all lengths: whatever is interrupted or refused, rows are those of the file,
\* in order, and reach the output file only when all are there.
THEOREM ImplementsMeasurement ==
  ASSUME Careful, \A f \in SampleFiles : Matched(f)
  PROVE  Spec => Promise!Init /\ [][Promise!Next]_(Promise!mvars)
<1>1. Init => Promise!Init
  BY DEF Init, Promise!Init, Phase
<1>2. Spec => []Undisturbed
  <2>1. TypeOK /\ Undisturbed /\ [Next]_vars => Undisturbed'
    BY NextUndisturbed
  <2> QED BY <2>1, InitUndisturbed, TypeCorrect, PTL DEF Spec
<1>3. TypeOK /\ LinkInv /\ Undisturbed /\ [Next]_vars => [Promise!Next]_(Promise!mvars)
  BY StepImplements DEF Known
<1> QED BY <1>1, <1>2, <1>3, TypeCorrect, LinkInvariant, PTL DEF Spec
================================================================================
