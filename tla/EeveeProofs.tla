---------------------------- MODULE EeveeProofs -----------------------------
(***************************************************************************)
(* Jolteon and both instances of Espeon, for every number of counter       *)
(* values and any calls. Within an encryption the tweaks that are not made *)
(* of ciphertext are distinct. Over any fork cipher whose left output can  *)
(* be undone, decryption of what encryption returned gives the message     *)
(* back and accepts, and the buffers keep to the loops.                    *)
(***************************************************************************)
EXTENDS Jolteon, Espeon, BlocksProofs

(***************************************************************************)
(* Lengths and counters                                                    *)
(***************************************************************************)
LEMMA JolteonJobFacts ==
  ASSUME job \in JolteonCalls
  PROVE  /\ job.mlen \in Nat /\ job.m \in Buffer(job.mlen)
         /\ job.adlen \in Nat /\ job.ad \in Buffer(job.adlen)
BY JolteonCallsAssumption

\* The last block begins within the data and ends at its end or behind it.
LEMMA BeforeFacts ==
  ASSUME NEW len \in Nat, len > 0
  PROVE  /\ Before(len) \in Nat
         /\ Before(len) * 16 < len /\ len <= Before(len) * 16 + 16
         /\ Complete(len) <=> len = Before(len) * 16 + 16
<1>1. CASE len % 16 = 0
  <2>1. len = 16 * (len \div 16) /\ len \div 16 \in Nat /\ len \div 16 > 0
    BY <1>1
  <2>2. Before(len) = (len \div 16) - 1
    BY <1>1 DEF Before, BlockLen
  <2> QED BY <1>1, <2>1, <2>2 DEF Complete, BlockLen
<1>2. CASE len % 16 # 0
  <2>1. /\ 16 * (len \div 16) < len /\ len < 16 * (len \div 16) + 16
        /\ len \div 16 \in Nat
    BY <1>2
  <2>2. Before(len) = len \div 16
    BY <1>2 DEF Before, BlockLen
  <2> QED BY <1>2, <2>1, <2>2 DEF Complete, BlockLen
<1> QED BY <1>1, <1>2

\* A counter that begins at k, within one turn: it is the sum, or zero when
\* it has just turned.
LEMMA CounterFacts ==
  ASSUME NEW b \in Nat, NEW k \in Nat, b + k <= JolteonCounterSize
  PROVE  (b + k) % JolteonCounterSize = IF b + k = JolteonCounterSize THEN 0 ELSE b + k
<1>1. JolteonCounterSize \in Nat /\ JolteonCounterSize > 0
  BY JolteonCounterAssumption
<1>2. CASE b + k = JolteonCounterSize
  BY <1>1, <1>2
<1>3. CASE b + k # JolteonCounterSize
  <2>1. b + k \in 0..(JolteonCounterSize - 1)
    BY <1>1, <1>3
  <2> QED BY <1>1, <1>3, <2>1
<1> QED BY <1>2, <1>3

(***************************************************************************)
(* The tweaks of an encryption                                             *)
(***************************************************************************)
AdWords(n)  == {(b + 4) % JolteonCounterSize : b \in 0..(n - 1)}
MsgWords(n) == {(b + 2) % JolteonCounterSize : b \in 0..(n - 1)}

Tweaks == [npub : {job.npub}, msg : BOOLEAN, w : Nat]

\* The loops run over the blocks before the last one.
Within ==
  /\ pc = "ad" => job.adlen > 0 /\ i <= Before(job.adlen)
  /\ pc = "message" => job.mlen > 0 /\ i <= Before(job.mlen)
  /\ pc = "empty" => job.mlen = 0

\* Nothing is used before the first block; associated data goes first and uses
\* the counters it has passed; then the message does.
UsedInv ==
  /\ used \in Seq(Tweaks)
  /\ side = "enc" => recv.npub = job.npub
  /\ side = "enc" /\ pc = "begin" => used = << >>
  /\ side = "enc" /\ pc = "ad" =>
       \A k \in 1..Len(used) : used[k].msg = FALSE /\ used[k].w \in AdWords(i)
  /\ side = "enc" /\ pc = "message" =>
       \A k \in 1..Len(used) : used[k].msg = TRUE => used[k].w \in MsgWords(i)

TweakInv ==
  /\ job \in JolteonCalls /\ i \in Nat
  /\ pc \in {"begin", "ad", "message", "empty", "transit", "done"}
  /\ side \in {"enc", "dec"}
  /\ (pc = "transit" => side = "enc")
  /\ Within /\ UsedInv
  /\ NoWrap => Distinct(used)

LEMMA InitTweakInv == JolteonInit => TweakInv
<1> SUFFICES ASSUME JolteonInit PROVE TweakInv
  OBVIOUS
<1>1. /\ job \in JolteonCalls /\ pc = "begin" /\ side = "enc" /\ i = 0 /\ used = << >>
      /\ recv.npub = job.npub
  BY DEF JolteonInit
<1>2. used \in Seq(Tweaks) /\ Len(used) = 0
  BY <1>1
<1> QED BY <1>1, <1>2 DEF TweakInv, Within, UsedInv, Distinct

\* What a step on the way of an encryption does: one tweak more.
LEMMA TweaksMore ==
  ASSUME TweakInv, side = "enc", NEW x, x \in Tweaks, used' = Append(used, x),
         NoWrap => \A k \in 1..Len(used) : used[k] # x
  PROVE  /\ used' \in Seq(Tweaks) /\ Len(used') = Len(used) + 1 /\ Len(used) \in Nat
         /\ \A k \in 1..Len(used) : used'[k] = used[k]
         /\ used'[Len(used) + 1] = x
         /\ NoWrap => Distinct(used')
<1>1. used \in Seq(Tweaks)
  BY DEF TweakInv, UsedInv
<1>2. NoWrap => Distinct(used')
  BY <1>1, AppendDistinct DEF TweakInv
<1> QED BY <1>1, <1>2

LEMMA RefuseTweaks == TweakInv /\ JolteonRefuse => TweakInv'
BY DEF TweakInv, JolteonRefuse, Within, UsedInv, Tweaks, NoWrap, Distinct, Before, JolteonMaxLength, Complete

LEMMA BeginTweaks == TweakInv /\ JolteonBegin => TweakInv'
<1> SUFFICES ASSUME TweakInv, JolteonBegin PROVE TweakInv'
  OBVIOUS
<1>1. /\ job \in JolteonCalls /\ job' = job /\ side' = side /\ recv' = recv /\ used' = used
      /\ i' = 0 /\ pc = "begin"
      /\ pc' = IF job.adlen > 0 THEN "ad" ELSE "message"
      /\ job.mlen > 0 \/ job.adlen > 0
  BY DEF JolteonBegin, TweakInv
<1>2. job.mlen \in Nat /\ job.adlen \in Nat
  BY <1>1, JolteonJobFacts
<1>3. Within'
  <2>1. CASE job.adlen > 0
    BY <1>1, <1>2, <2>1, BeforeFacts DEF Within
  <2>2. CASE ~(job.adlen > 0)
    <3>1. job.mlen > 0
      BY <1>1, <2>2
    <3>2. Before(job.mlen) \in Nat
      BY <3>1, <1>2, BeforeFacts
    <3> QED BY <1>1, <2>2, <3>1, <3>2 DEF Within
  <2> QED BY <2>1, <2>2
<1>4. side = "enc" => \A k \in 1..Len(used) : FALSE
  BY <1>1 DEF TweakInv, UsedInv
<1>5. UsedInv'
  BY <1>1, <1>4 DEF TweakInv, UsedInv, Tweaks
<1>6. NoWrap' => Distinct(used')
  BY <1>1 DEF TweakInv, NoWrap, Distinct, JolteonMaxLength
<1> QED BY <1>1, <1>3, <1>5, <1>6 DEF TweakInv

LEMMA AdBlockTweaks == TweakInv /\ JolteonAdBlock => TweakInv'
<1> SUFFICES ASSUME TweakInv, JolteonAdBlock PROVE TweakInv'
  OBVIOUS
<1>1. /\ job \in JolteonCalls /\ job' = job /\ side' = side /\ recv' = recv /\ pc' = pc
      /\ i' = i + 1 /\ pc = "ad" /\ i < Before(job.adlen) /\ i \in Nat
      /\ used' = IF side = "enc" THEN Append(used, JolteonAdTweak) ELSE used
  BY DEF JolteonAdBlock, TweakInv, JolteonUse
<1>2. job.adlen \in Nat /\ job.adlen > 0 /\ Before(job.adlen) \in Nat
  BY <1>1, JolteonJobFacts, BeforeFacts DEF TweakInv, Within
<1>3. Within'
  BY <1>1, <1>2 DEF Within
<1>4. (NoWrap' <=> NoWrap) /\ Tweaks' = Tweaks
  BY <1>1 DEF NoWrap, Tweaks, JolteonMaxLength
<1>5. CASE side = "dec"
  BY <1>1, <1>3, <1>4, <1>5 DEF TweakInv, UsedInv, Distinct
<1>6. CASE side = "enc"
  <2> DEFINE x == JolteonAdTweak
  <2>1. recv.npub = job.npub /\ used \in Seq(Tweaks)
        /\ \A k \in 1..Len(used) : used[k].msg = FALSE /\ used[k].w \in AdWords(i)
    BY <1>1, <1>6 DEF TweakInv, UsedInv
  <2>2. x.msg = FALSE /\ x.w = (i + 4) % JolteonCounterSize /\ x \in Tweaks
    <3>1. (i + 4) % JolteonCounterSize \in Nat
      BY <1>1, JolteonCounterAssumption
    <3> QED BY <3>1, <2>1 DEF JolteonAdTweak, JolteonTweak, Tweaks
  <2> HIDE DEF x
  <2>3. ASSUME NoWrap, NEW k \in 1..Len(used) PROVE used[k] # x
    <3>1. PICK b \in 0..(i - 1) : used[k].w = (b + 4) % JolteonCounterSize
      BY <2>1 DEF AdWords
    <3>2. Before(job.adlen) + 4 <= JolteonCounterSize /\ JolteonCounterSize \in Nat
      BY <2>3, <1>2, JolteonCounterAssumption DEF NoWrap
    <3>3. b \in Nat /\ b + 4 < JolteonCounterSize /\ i + 4 < JolteonCounterSize /\ b # i
      BY <3>1, <3>2, <1>1, <1>2
    <3>4. (b + 4) % JolteonCounterSize = b + 4 /\ (i + 4) % JolteonCounterSize = i + 4
      BY <3>2, <3>3, <1>1, CounterFacts
    <3> QED BY <3>1, <3>3, <3>4, <2>2, <1>1
  <2>4. used' = Append(used, x)
    BY <1>1, <1>6 DEF x
  <2>5. /\ used' \in Seq(Tweaks) /\ Len(used') = Len(used) + 1 /\ Len(used) \in Nat
        /\ \A k \in 1..Len(used) : used'[k] = used[k]
        /\ used'[Len(used) + 1] = x
        /\ NoWrap => Distinct(used')
    BY <1>6, <2>2, <2>3, <2>4, TweaksMore
  <2>6. ASSUME NEW k \in 1..Len(used')
        PROVE  used'[k].msg = FALSE /\ used'[k].w \in AdWords(i')
    <3>1. CASE k = Len(used) + 1
      <4>1. i \in 0..(i' - 1)
        BY <1>1
      <4> QED BY <4>1, <3>1, <2>2, <2>5 DEF AdWords
    <3>2. CASE k # Len(used) + 1
      <4>1. k \in 1..Len(used)
        BY <3>2, <2>5
      <4>2. PICK b \in 0..(i - 1) : used[k].w = (b + 4) % JolteonCounterSize
        BY <4>1, <2>1 DEF AdWords
      <4>3. b \in 0..(i' - 1)
        BY <1>1
      <4> QED BY <4>1, <4>2, <4>3, <2>1, <2>5 DEF AdWords
    <3> QED BY <3>1, <3>2
  <2>7. UsedInv'
    BY <1>1, <1>4, <1>6, <2>1, <2>5, <2>6 DEF UsedInv
  <2> QED BY <1>1, <1>3, <1>4, <2>5, <2>7 DEF TweakInv
<1> QED BY <1>5, <1>6 DEF TweakInv

LEMMA AdLastTweaks == TweakInv /\ JolteonAdLast => TweakInv'
<1> SUFFICES ASSUME TweakInv, JolteonAdLast PROVE TweakInv'
  OBVIOUS
<1> DEFINE x == JolteonTweak(FALSE, JolteonAdEnd(Complete(job.adlen), job.mlen = 0))
<1>1. /\ job \in JolteonCalls /\ job' = job /\ side' = side /\ recv' = recv
      /\ pc' = IF job.mlen = 0 THEN "empty" ELSE "message"
      /\ i' = 0 /\ pc = "ad" /\ i = Before(job.adlen) /\ i \in Nat
      /\ used' = IF side = "enc" THEN Append(used, x) ELSE used
  BY DEF JolteonAdLast, TweakInv, JolteonUse
<1>2. x.msg = FALSE /\ x.w \in {0, 2} /\ x.npub = recv.npub
      /\ x = [npub |-> recv.npub, msg |-> FALSE, w |-> x.w]
  BY DEF JolteonTweak, JolteonAdEnd
<1> HIDE DEF x
<1>3. job.adlen \in Nat /\ job.adlen > 0 /\ Before(job.adlen) \in Nat /\ job.mlen \in Nat
  BY <1>1, JolteonJobFacts, BeforeFacts DEF TweakInv, Within
<1>4. Within'
  <2>1. CASE job.mlen = 0
    BY <1>1, <2>1 DEF Within
  <2>2. CASE job.mlen # 0
    <3>1. job.mlen > 0
      BY <1>3, <2>2
    <3>2. Before(job.mlen) \in Nat
      BY <1>3, <3>1, BeforeFacts
    <3> QED BY <1>1, <2>2, <3>1, <3>2 DEF Within
  <2> QED BY <2>1, <2>2
<1>5. (NoWrap' <=> NoWrap) /\ Tweaks' = Tweaks
  BY <1>1 DEF NoWrap, Tweaks, JolteonMaxLength
<1>6. CASE side = "dec"
  BY <1>1, <1>4, <1>5, <1>6 DEF TweakInv, UsedInv, Distinct
<1>7. CASE side = "enc"
  <2>1. recv.npub = job.npub /\ used \in Seq(Tweaks)
        /\ \A k \in 1..Len(used) : used[k].msg = FALSE /\ used[k].w \in AdWords(i)
    BY <1>1, <1>7 DEF TweakInv, UsedInv
  <2>2. x \in Tweaks
    <3>1. x.w \in Nat
      BY <1>2
    <3> QED BY <1>2, <2>1, <3>1 DEF Tweaks
  <2>3. ASSUME NoWrap, NEW k \in 1..Len(used) PROVE used[k] # x
    <3>1. PICK b \in 0..(i - 1) : used[k].w = (b + 4) % JolteonCounterSize
      BY <2>1 DEF AdWords
    <3>2. Before(job.adlen) + 4 <= JolteonCounterSize /\ JolteonCounterSize \in Nat
      BY <2>3, <1>3, JolteonCounterAssumption DEF NoWrap
    <3>3. b \in Nat /\ b + 4 < JolteonCounterSize
      BY <3>1, <3>2, <1>1, <1>3
    <3>4. (b + 4) % JolteonCounterSize = b + 4
      BY <3>2, <3>3, CounterFacts
    <3> QED BY <3>1, <3>3, <3>4, <1>2
  <2>4. used' = Append(used, x)
    BY <1>1, <1>7
  <2>5. /\ used' \in Seq(Tweaks) /\ Len(used') = Len(used) + 1 /\ Len(used) \in Nat
        /\ \A k \in 1..Len(used) : used'[k] = used[k]
        /\ used'[Len(used) + 1] = x
        /\ NoWrap => Distinct(used')
    BY <1>7, <2>2, <2>3, <2>4, TweaksMore
  <2>6. ASSUME NEW k \in 1..Len(used') PROVE used'[k].msg = FALSE
    <3>1. CASE k = Len(used) + 1
      BY <3>1, <1>2, <2>5
    <3>2. CASE k # Len(used) + 1
      <4>1. k \in 1..Len(used)
        BY <3>2, <2>5
      <4> QED BY <4>1, <2>1, <2>5
    <3> QED BY <3>1, <3>2
  <2>7. UsedInv'
    BY <1>1, <1>5, <1>7, <2>1, <2>5, <2>6 DEF UsedInv
  <2> QED BY <1>1, <1>4, <1>5, <2>5, <2>7 DEF TweakInv
<1> QED BY <1>6, <1>7 DEF TweakInv

LEMMA EncBlockTweaks == TweakInv /\ JolteonEncBlock => TweakInv'
<1> SUFFICES ASSUME TweakInv, JolteonEncBlock PROVE TweakInv'
  OBVIOUS
<1> DEFINE x == MessageTweak
<1>1. /\ job \in JolteonCalls /\ job' = job /\ side' = side /\ recv' = recv /\ pc' = pc
      /\ i' = i + 1 /\ pc = "message" /\ i < Before(job.mlen) /\ i \in Nat
      /\ side = "enc" /\ used' = Append(used, x)
  BY DEF JolteonEncBlock, TweakInv, JolteonUse
<1>2. job.mlen \in Nat /\ job.mlen > 0 /\ Before(job.mlen) \in Nat
      /\ Before(job.mlen) * 16 < job.mlen
  BY <1>1, JolteonJobFacts, BeforeFacts DEF TweakInv, Within
<1>3. Within'
  BY <1>1, <1>2 DEF Within
<1>4. (NoWrap' <=> NoWrap) /\ Tweaks' = Tweaks
  BY <1>1 DEF NoWrap, Tweaks, JolteonMaxLength
<1>5. recv.npub = job.npub /\ used \in Seq(Tweaks)
      /\ \A k \in 1..Len(used) : used[k].msg = TRUE => used[k].w \in MsgWords(i)
  BY <1>1 DEF TweakInv, UsedInv
<1>6. x.msg = TRUE /\ x.w = (i + 2) % JolteonCounterSize /\ x \in Tweaks
  <2>1. (i + 2) % JolteonCounterSize \in Nat
    BY <1>1, JolteonCounterAssumption
  <2> QED BY <2>1, <1>5 DEF MessageTweak, JolteonTweak, Tweaks
<1> HIDE DEF x
<1>7. ASSUME NoWrap, NEW k \in 1..Len(used) PROVE used[k] # x
  <2>1. SUFFICES ASSUME used[k].msg = TRUE PROVE used[k].w # x.w
    BY <1>6
  <2>2. PICK b \in 0..(i - 1) : used[k].w = (b + 2) % JolteonCounterSize
    BY <2>1, <1>5 DEF MsgWords
  <2>3. job.mlen < JolteonCounterSize * 16 /\ JolteonCounterSize \in Nat
    BY <1>7, JolteonCounterAssumption DEF NoWrap, JolteonMaxLength, BlockLen
  <2>4. b \in Nat /\ b + 2 < JolteonCounterSize /\ i + 2 <= JolteonCounterSize /\ b # i
    BY <2>2, <2>3, <1>1, <1>2
  <2>5. (b + 2) % JolteonCounterSize = b + 2
        /\ (i + 2) % JolteonCounterSize = IF i + 2 = JolteonCounterSize THEN 0 ELSE i + 2
    BY <2>3, <2>4, <1>1, CounterFacts
  <2> QED BY <2>2, <2>4, <2>5, <1>1, <1>6
<1>8. /\ used' \in Seq(Tweaks) /\ Len(used') = Len(used) + 1 /\ Len(used) \in Nat
      /\ \A k \in 1..Len(used) : used'[k] = used[k]
      /\ used'[Len(used) + 1] = x
      /\ NoWrap => Distinct(used')
  BY <1>1, <1>6, <1>7, TweaksMore
<1>9. ASSUME NEW k \in 1..Len(used'), used'[k].msg = TRUE
      PROVE  used'[k].w \in MsgWords(i')
  <2>1. CASE k = Len(used) + 1
    <3>1. i \in 0..(i' - 1)
      BY <1>1
    <3> QED BY <3>1, <2>1, <1>6, <1>8 DEF MsgWords
  <2>2. CASE k # Len(used) + 1
    <3>1. k \in 1..Len(used)
      BY <2>2, <1>8
    <3>2. PICK b \in 0..(i - 1) : used[k].w = (b + 2) % JolteonCounterSize
      BY <3>1, <1>5, <1>8, <1>9 DEF MsgWords
    <3>3. b \in 0..(i' - 1)
      BY <1>1
    <3> QED BY <3>1, <3>2, <3>3, <1>8 DEF MsgWords
  <2> QED BY <2>1, <2>2
<1>10. UsedInv'
  BY <1>1, <1>4, <1>5, <1>8, <1>9 DEF UsedInv
<1> QED BY <1>1, <1>3, <1>4, <1>8, <1>10 DEF TweakInv

LEMMA EncLastTweaks == TweakInv /\ JolteonEncLast => TweakInv'
<1> SUFFICES ASSUME TweakInv, JolteonEncLast PROVE TweakInv'
  OBVIOUS
<1> DEFINE x == MessageEnd
<1>1. /\ job \in JolteonCalls /\ job' = job /\ side' = side /\ recv' = recv /\ pc' = "transit"
      /\ i' = i /\ pc = "message" /\ i = Before(job.mlen) /\ i \in Nat
      /\ side = "enc" /\ used' = Append(used, x)
  BY DEF JolteonEncLast, TweakInv, JolteonUse
<1>2. /\ job.mlen \in Nat /\ job.mlen > 0 /\ Before(job.mlen) \in Nat
      /\ Before(job.mlen) * 16 < job.mlen
      /\ Complete(job.mlen) <=> job.mlen = Before(job.mlen) * 16 + 16
  BY <1>1, JolteonJobFacts, BeforeFacts DEF TweakInv, Within
<1>3. (NoWrap' <=> NoWrap) /\ Tweaks' = Tweaks
  BY <1>1 DEF NoWrap, Tweaks, JolteonMaxLength
<1>4. recv.npub = job.npub /\ used \in Seq(Tweaks)
      /\ \A k \in 1..Len(used) : used[k].msg = TRUE => used[k].w \in MsgWords(i)
  BY <1>1 DEF TweakInv, UsedInv
<1>5. x.msg = TRUE /\ x.w = (IF Complete(job.mlen) THEN 0 ELSE 1) /\ x \in Tweaks
  BY <1>4 DEF MessageEnd, JolteonTweak, Tweaks
<1> HIDE DEF x
<1>6. ASSUME NoWrap, NEW k \in 1..Len(used) PROVE used[k] # x
  <2>1. SUFFICES ASSUME used[k].msg = TRUE PROVE used[k].w # x.w
    BY <1>5
  <2>2. PICK b \in 0..(i - 1) : used[k].w = (b + 2) % JolteonCounterSize
    BY <2>1, <1>4 DEF MsgWords
  <2>3. job.mlen < JolteonCounterSize * 16 /\ JolteonCounterSize \in Nat
    BY <1>6, JolteonCounterAssumption DEF NoWrap, JolteonMaxLength, BlockLen
  <2> DEFINE n == Before(job.mlen)
  <2>4. n \in Nat /\ n = i /\ b \in Nat /\ b + 1 <= n
    BY <2>2, <1>1, <1>2
  <2>5. n * 16 < JolteonCounterSize * 16
    BY <2>3, <1>2
  <2> HIDE DEF n
  <2>6. b + 2 <= JolteonCounterSize
    BY <2>4, <2>5, <2>3
  <2>7. ASSUME Complete(job.mlen) PROVE b + 2 < JolteonCounterSize
    <3>1. n * 16 + 16 < JolteonCounterSize * 16
      BY <2>7, <2>3, <1>2 DEF n
    <3> QED BY <3>1, <2>4, <2>3
  <2>8. (b + 2) % JolteonCounterSize = IF b + 2 = JolteonCounterSize THEN 0 ELSE b + 2
    BY <2>4, <2>6, CounterFacts
  <2> QED BY <2>2, <2>4, <2>6, <2>7, <2>8, <1>5
<1>7. /\ used' \in Seq(Tweaks)
      /\ NoWrap => Distinct(used')
  BY <1>1, <1>5, <1>6, TweaksMore
<1>8. UsedInv' /\ Within'
  BY <1>1, <1>3, <1>4, <1>7 DEF UsedInv, Within
<1> QED BY <1>1, <1>3, <1>7, <1>8 DEF TweakInv

\* The steps that use no tweak of an encryption.
LEMMA OtherTweaks ==
  TweakInv /\ (JolteonEncEmpty \/ JolteonTransit \/ JolteonDecEmpty \/ JolteonDecBlock \/ JolteonDecLast) => TweakInv'
<1> SUFFICES ASSUME TweakInv, JolteonEncEmpty \/ JolteonTransit \/ JolteonDecEmpty \/ JolteonDecBlock \/ JolteonDecLast
             PROVE  TweakInv'
  OBVIOUS
<1>1. job' = job /\ used' = used /\ job \in JolteonCalls
  BY DEF JolteonEncEmpty, JolteonTransit, JolteonDecEmpty, JolteonDecBlock, JolteonDecLast, TweakInv
<1>2. (NoWrap' <=> NoWrap) /\ Tweaks' = Tweaks
  BY <1>1 DEF NoWrap, Tweaks, JolteonMaxLength
<1>3. CASE JolteonEncEmpty
  BY <1>1, <1>2, <1>3 DEF JolteonEncEmpty, TweakInv, Within, UsedInv, Distinct
<1>4. CASE JolteonTransit
  BY <1>1, <1>2, <1>4 DEF JolteonTransit, TweakInv, Within, UsedInv, Distinct
<1>5. CASE JolteonDecEmpty
  BY <1>1, <1>2, <1>5 DEF JolteonDecEmpty, TweakInv, Within, UsedInv, Distinct
<1>6. CASE JolteonDecBlock
  <2>1. /\ side = "dec" /\ side' = side /\ pc = "message" /\ pc' = pc
        /\ i < Before(job.mlen) /\ i' = i + 1 /\ i \in Nat
    BY <1>6 DEF JolteonDecBlock, TweakInv
  <2>2. job.mlen > 0 /\ Before(job.mlen) \in Nat
    BY <1>1, <2>1, JolteonJobFacts, BeforeFacts DEF TweakInv, Within
  <2> QED BY <1>1, <1>2, <2>1, <2>2 DEF TweakInv, Within, UsedInv, Distinct
<1>7. CASE JolteonDecLast
  BY <1>1, <1>2, <1>7 DEF JolteonDecLast, TweakInv, Within, UsedInv, Distinct
<1> QED BY <1>3, <1>4, <1>5, <1>6, <1>7

LEMMA NextTweakInv == TweakInv /\ [JolteonNext]_jolteonVars => TweakInv'
<1> SUFFICES ASSUME TweakInv, [JolteonNext]_jolteonVars PROVE TweakInv'
  OBVIOUS
<1>1. CASE JolteonNext
  BY <1>1, RefuseTweaks, BeginTweaks, AdBlockTweaks, AdLastTweaks, EncBlockTweaks,
     EncLastTweaks, OtherTweaks DEF JolteonNext
<1>2. CASE UNCHANGED jolteonVars
  BY <1>2 DEF jolteonVars, TweakInv, Within, UsedInv, Tweaks, NoWrap, JolteonMaxLength, Distinct
<1> QED BY <1>1, <1>2

LEMMA TweakInvGives == TweakInv => JolteonTweaksDistinct
BY DEF TweakInv, Distinct, JolteonTweaksDistinct

\* Whatever the number of counter values: up to the lengths at which a counter
\* reaches a value of the last block, no tweak is used twice.
THEOREM JolteonTweaksAreDistinct == JolteonSpec => []JolteonTweaksDistinct
BY InitTweakInv, NextTweakInv, TweakInvGives, PTL DEF JolteonSpec

(***************************************************************************)
(* What an encryption computes. A is the sequence of sums over associated  *)
(* data, T that over the message, out the ciphertext and g the tag.        *)
(***************************************************************************)
TweakOf(call, msg, w) == [npub |-> call.npub, msg |-> msg, w |-> w]
AdAt(call, b)         == TweakOf(call, FALSE, (b + 4) % JolteonCounterSize)
AdEndOf(call)         == TweakOf(call, FALSE, JolteonAdEnd(Complete(call.adlen), call.mlen = 0))
MessageAt(call, b)    == TweakOf(call, TRUE, (b + 2) % JolteonCounterSize)
MessageEndOf(call)    == TweakOf(call, TRUE, IF Complete(call.mlen) THEN 0 ELSE 1)

\* A fork cipher under some tweaks: its left output is a block, and the block can
\* be got back from it. Nothing is supposed of the right output.
Forks(tweaks) ==
  \A tweak \in tweaks, x \in Block :
    Left(tweak, x) \in Block /\ Undo(tweak, x) \in Block /\ Undo(tweak, Left(tweak, x)) = x

\* Under the tweaks of Jolteon, with any nonce.
JolteonForks ==
  Forks([npub : Buffer(JolteonNonceSize), msg : BOOLEAN, w : 0..(JolteonCounterSize - 1)])

JolteonAdSums(call, A, k) ==
  /\ A[0] = Zeros(BlockLen)
  /\ \A b \in 0..(k-1) : A[b+1] = XorBlock(A[b], Left(AdAt(call, b), BlockAt(call.ad, b)))

JolteonAdSummed(call, A, t) ==
  /\ call.adlen = 0 => t = Zeros(BlockLen)
  /\ call.adlen > 0 =>
       /\ JolteonAdSums(call, A, Before(call.adlen))
       /\ t = XorBlock(A[Before(call.adlen)], Left(AdEndOf(call), Padded(call.ad, call.adlen)))

JolteonEnciphered(call, T, out, k) ==
  /\ \A b \in 0..k : T[b] \in Block
  /\ \A b \in 0..(k-1) :
       /\ BlockAt(out, b) = Left(MessageAt(call, b), BlockAt(call.m, b))
       /\ T[b+1] = XorBlock(XorBlock(T[b], BlockAt(call.m, b)), BlockAt(out, b))

LastBlock(call, T) == XorBlock(Padded(call.m, call.mlen), T[Before(call.mlen)])

JolteonEnded(call, T, out, g) ==
  /\ g = Left(MessageEndOf(call), LastBlock(call, T))
  /\ \A j \in 0..(call.mlen - Before(call.mlen) * 16 - 1) :
       out[Before(call.mlen) * 16 + j] =
         call.m[Before(call.mlen) * 16 + j] (+) Right(MessageEndOf(call), LastBlock(call, T))[j]

JolteonEncrypted(call, A, T, out, g) ==
  /\ JolteonAdSummed(call, A, T[0])
  /\ call.mlen = 0 => g = T[0]
  /\ call.mlen > 0 => JolteonEnciphered(call, T, out, Before(call.mlen)) /\ JolteonEnded(call, T, out, g)

\* An encryption is on its way.
EncState == side = "enc" =>
  /\ recv.c = job.m /\ recv.ad = job.ad /\ recv.npub = job.npub
  /\ p = Zeros(0)
  /\ pc \in {"begin", "ad", "empty"} => c = Zeros(0)
  /\ pc = "ad" => ta \in Block /\ \E A : JolteonAdSums(job, A, i) /\ ta = A[i]
  /\ pc = "empty" => \E A : JolteonAdSummed(job, A, ta)
  /\ pc = "message" =>
       /\ DOMAIN c = 0..(i * 16 - 1)
       /\ \E A, T : JolteonAdSummed(job, A, T[0]) /\ JolteonEnciphered(job, T, c, i) /\ ta = T[i]
  /\ pc = "transit" => \E A, T : JolteonEncrypted(job, A, T, c, tag)

\* A decryption of what encryption returned: at each index it has the same sum.
Following(A, T) ==
  /\ pc \in {"begin", "ad", "empty"} => p = Zeros(0)
  /\ pc = "ad" => ta = A[i]
  /\ pc = "empty" => ta = T[0]
  /\ pc = "message" => /\ ta = T[i] /\ DOMAIN p = 0..(i * 16 - 1)
                       /\ \A j \in 0..(i * 16 - 1) : p[j] = job.m[j]
  /\ pc = "done" => ret = "ok" /\ p = job.m

DecState == side = "dec" /\ recv = Sent =>
  \E A, T : JolteonEncrypted(job, A, T, c, tag) /\ Following(A, T)

\* Who has begun was not refused, and is not refused later.
Admitted ==
  side = "dec" \/ pc \notin {"begin", "done"} =>
    /\ job.mlen <= JolteonMaxLength /\ job.adlen <= JolteonMaxLength
    /\ job.mlen > 0 \/ job.adlen > 0

SumInv == Admitted /\ EncState /\ DecState

JolteonInv == TweakInv /\ SumInv

(***************************************************************************)
(* Blocks                                                                  *)
(***************************************************************************)
LEMMA XorBlockFacts ==
  ASSUME NEW a \in Block, NEW b \in Block
  PROVE  XorBlock(a, b) \in Block /\ XorBlock(XorBlock(a, b), b) = a
<1>1. DOMAIN a = 0..15 /\ DOMAIN b = 0..15 /\ \A j \in 0..15 : a[j] \in Byte /\ b[j] \in Byte
  BY DEF Block, Buffer, BlockLen
<1>2. \A j \in 0..15 : a[j] (+) b[j] \in Byte
  BY <1>1 DEF (+), Byte
<1>3. XorBlock(a, b) \in Block
  BY <1>1, <1>2 DEF XorBlock, Block, Buffer, BlockLen
<1>4. XorBlock(XorBlock(a, b), b) = [j \in 0..15 |-> (a[j] (+) b[j]) (+) b[j]]
  BY <1>1 DEF XorBlock
<1>5. XorBlock(XorBlock(a, b), b) = [j \in 0..15 |-> a[j]]
  BY <1>4, XorTwice
<1>6. a = [j \in 0..15 |-> a[j]]
  BY <1>1 DEF Block, Buffer, BlockLen
<1> QED BY <1>3, <1>5, <1>6

LEMMA XorBlockCommutes ==
  ASSUME NEW a \in Block, NEW b \in Block
  PROVE  XorBlock(a, b) = XorBlock(b, a)
<1>1. DOMAIN a = 0..15 /\ DOMAIN b = 0..15
  BY DEF Block, Buffer, BlockLen
<1>2. \A j : a[j] (+) b[j] = b[j] (+) a[j]
  BY XorCommutes
<1> QED BY <1>1, <1>2 DEF XorBlock

\* The order in which two blocks are added does not matter.
LEMMA XorBlockSwap ==
  ASSUME NEW a, NEW b, NEW d
  PROVE  XorBlock(XorBlock(a, b), d) = XorBlock(XorBlock(a, d), b)
<1>1. \A u, v, w : (u (+) v) (+) w = (u (+) w) (+) v
  BY DEF (+)
<1>2. /\ XorBlock(XorBlock(a, b), d) = [j \in DOMAIN a |-> (a[j] (+) b[j]) (+) d[j]]
      /\ XorBlock(XorBlock(a, d), b) = [j \in DOMAIN a |-> (a[j] (+) d[j]) (+) b[j]]
  BY DEF XorBlock
<1> QED BY <1>1, <1>2

LEMMA BlockAtFacts ==
  ASSUME NEW len \in Nat, NEW data \in Buffer(len), NEW b \in Nat, b * 16 + 16 <= len
  PROVE  BlockAt(data, b) \in Block
<1>1. \A j \in 0..15 : b * 16 + j \in 0..(len - 1)
  OBVIOUS
<1>2. \A j \in 0..15 : data[b * 16 + j] \in Byte
  BY <1>1 DEF Buffer
<1> QED BY <1>2 DEF BlockAt, Slice, Block, Buffer, BlockLen

LEMMA PaddedFacts ==
  ASSUME NEW len \in Nat, len > 0, NEW data \in Buffer(len)
  PROVE  /\ Padded(data, len) \in Block
         /\ \A j \in 0..(len - Before(len) * 16 - 1) :
              Padded(data, len)[j] = data[Before(len) * 16 + j]
         /\ \A j \in (len - Before(len) * 16)..15 :
              Padded(data, len)[j] = IF j = len - Before(len) * 16 THEN Pad ELSE Zero
<1> DEFINE n == Before(len)
<1>1. n \in Nat /\ n * 16 < len /\ len <= n * 16 + 16
  BY BeforeFacts
<1>2. Padded(data, len) =
        [j \in 0..15 |-> CASE n * 16 + j < len -> data[n * 16 + j]
                           [] n * 16 + j = len -> Pad [] n * 16 + j > len -> Zero]
  BY DEF Padded, BlockLen
<1> HIDE DEF n
<1>3. ASSUME NEW j \in 0..15
      PROVE  Padded(data, len)[j] = CASE n * 16 + j < len -> data[n * 16 + j]
                                      [] n * 16 + j = len -> Pad [] n * 16 + j > len -> Zero
  BY <1>2
<1>4. ASSUME NEW j \in 0..(len - n * 16 - 1)
      PROVE  j \in 0..15 /\ Padded(data, len)[j] = data[n * 16 + j] /\ data[n * 16 + j] \in Byte
  <2>1. j \in 0..15 /\ n * 16 + j < len /\ n * 16 + j \in 0..(len - 1)
    BY <1>1
  <2>2. ~(n * 16 + j = len) /\ ~(n * 16 + j > len)
    BY <2>1, <1>1
  <2>3. Padded(data, len)[j] = data[n * 16 + j]
    BY <2>1, <2>2, <1>3
  <2>4. data[n * 16 + j] \in Byte
    BY <2>1 DEF Buffer
  <2> QED BY <2>1, <2>3, <2>4
<1>5. ASSUME NEW j \in (len - n * 16)..15
      PROVE  Padded(data, len)[j] = IF j = len - n * 16 THEN Pad ELSE Zero
  <2>1. j \in 0..15 /\ ~(n * 16 + j < len) /\ (n * 16 + j = len <=> j = len - n * 16)
    BY <1>1
  <2>2. n * 16 + j = len \/ n * 16 + j > len
    BY <2>1, <1>1
  <2> QED BY <2>1, <2>2, <1>1, <1>3
<1>6. \A j \in 0..15 : Padded(data, len)[j] \in Byte
  <2>1. Pad \in Byte /\ Zero \in Byte
    BY DEF Pad, Zero, Byte, Bits
  <2>2. \A j \in 0..15 : j \in 0..(len - n * 16 - 1) \/ j \in (len - n * 16)..15
    BY <1>1
  <2> QED BY <2>1, <2>2, <1>4, <1>5
<1>7. Padded(data, len) \in Block
  <2>1. Padded(data, len) = [j \in 0..15 |-> Padded(data, len)[j]]
    BY <1>2
  <2>2. Block = [0..15 -> Byte]
    BY DEF Block, Buffer, BlockLen
  <2> HIDE DEF n
  <2> QED BY <2>1, <2>2, <1>6
<1>8. \A j \in 0..(len - n * 16 - 1) : Padded(data, len)[j] = data[n * 16 + j]
  BY <1>4
<1>9. \A j \in (len - n * 16)..15 :
        Padded(data, len)[j] = IF j = len - n * 16 THEN Pad ELSE Zero
  BY <1>5
<1> QED BY <1>7, <1>8, <1>9 DEF n

\* A buffer of k blocks keeps them when more is written behind them.
LEMMA BlocksKept ==
  ASSUME NEW k \in Nat, NEW m, m = k * 16, NEW out, NEW b, NEW d, NEW e,
         Appended(out, b, m, d, e)
  PROVE  \A q \in 0..(k-1) : BlockAt(out, q) = BlockAt(b, q)
<1> SUFFICES ASSUME NEW q \in 0..(k-1) PROVE BlockAt(out, q) = BlockAt(b, q)
  OBVIOUS
<1>1. \A j \in 0..15 : q * 16 + j \in 0..(k * 16 - 1)
  OBVIOUS
<1>2. \A j \in 0..15 : out[q * 16 + j] = b[q * 16 + j]
  BY <1>1 DEF Appended
<1> QED BY <1>2 DEF BlockAt, Slice, BlockLen

\* When it is one block, that is the next one.
LEMMA BlockAppended ==
  ASSUME NEW k \in Nat, NEW out, NEW b, NEW d \in Block,
         Appended(out, b, k * 16, d, (k + 1) * 16)
  PROVE  /\ \A q \in 0..(k-1) : BlockAt(out, q) = BlockAt(b, q)
         /\ BlockAt(out, k) = d
<1>1. ASSUME NEW j \in 0..15 PROVE out[k * 16 + j] = d[j]
  <2>1. \A l \in (k * 16)..((k + 1) * 16 - 1) : out[l] = d[l - k * 16]
    BY DEF Appended
  <2>2. k * 16 + j \in (k * 16)..((k + 1) * 16 - 1) /\ (k * 16 + j) - k * 16 = j
    OBVIOUS
  <2>3. out[k * 16 + j] = d[(k * 16 + j) - k * 16]
    BY <2>1, <2>2
  <2> QED BY <2>2, <2>3
<1>2. BlockAt(out, k) = [j \in 0..15 |-> d[j]]
  BY <1>1 DEF BlockAt, Slice, BlockLen
<1>3. d = [j \in 0..15 |-> d[j]]
  <2>1. Block = [0..15 -> Byte]
    BY DEF Block, Buffer, BlockLen
  <2> QED BY <2>1
<1> QED BY <1>2, <1>3, BlocksKept

\* A block that is written to the end.
LEMMA BlockPut ==
  ASSUME NEW m \in Nat, NEW b, NEW d \in Block, DOMAIN b = 0..(m - 1)
  PROVE  Appended(Put(b, m, d), b, m, d, m + 16)
<1>1. PICK n \in Nat : n = 16
  OBVIOUS
<1>2. DOMAIN d = 0..(n - 1)
  BY <1>1 DEF Block, Buffer, BlockLen
<1>3. Appended(Put(b, m, d), b, m, d, m + n)
  BY <1>2, PutAtEnd
<1> QED BY <1>1, <1>3

(***************************************************************************)
(* How much of the buffers has been written, in either mode, and that it   *)
(* is bytes where it is taken as blocks later                              *)
(***************************************************************************)
BytesTo(b, n) == \A j \in 0..(n - 1) : b[j] \in Byte

Args ==
  /\ job.mlen \in Nat /\ job.m \in Buffer(job.mlen)
  /\ job.adlen \in Nat /\ job.ad \in Buffer(job.adlen)

Shape ==
  /\ pc \in {"begin", "ad", "message", "empty", "transit", "done"}
  /\ side \in {"enc", "dec"} /\ (pc = "transit" => side = "enc")
  /\ i \in Nat /\ Within
  /\ ret \in {"none", "refused", "ok", "bad"}
  /\ (ret = "refused") <=> (side = "enc" /\ pc = "done")
  /\ recv.ad \in Buffer(job.adlen)
  /\ side = "enc" => recv.c = job.m
  /\ side = "enc" /\ pc \in {"begin", "ad", "empty", "done"} => DOMAIN c = 0..(0 - 1)
  /\ side = "enc" /\ pc = "message" => DOMAIN c = 0..(i * 16 - 1) /\ BytesTo(c, i * 16)
  /\ side = "dec" \/ pc = "transit" =>
       DOMAIN c = 0..(job.mlen - 1) /\ BytesTo(c, Before(job.mlen) * 16)
  /\ side = "dec" => BytesTo(recv.c, Before(job.mlen) * 16)
  /\ side = "enc" \/ pc \in {"begin", "ad", "empty"} => DOMAIN p = 0..(0 - 1)
  /\ side = "dec" /\ pc = "message" => DOMAIN p = 0..(i * 16 - 1)
  /\ side = "dec" /\ pc = "done" => DOMAIN p = 0..(job.mlen - 1)

LEMMA ShapeRefused ==
  ASSUME Shape, pc = "begin", side = "enc", pc' = "done", ret' = "refused",
         UNCHANGED <<job, side, i, c, recv, p>>
  PROVE  Shape'
BY DEF Shape, Within, BytesTo, Before

LEMMA ShapeBegun ==
  ASSUME Args, Shape, pc = "begin", job.mlen > 0 \/ job.adlen > 0,
         pc' = IF job.adlen > 0 THEN "ad" ELSE "message", i' = 0,
         UNCHANGED <<job, side, c, recv, p, ret>>
  PROVE  Shape'
<1>1. Within'
  <2>1. CASE job.adlen > 0
    BY <2>1, BeforeFacts DEF Within, Args
  <2>2. CASE ~(job.adlen > 0)
    BY <2>2, BeforeFacts DEF Within, Args
  <2> QED BY <2>1, <2>2
<1>2. i' * 16 = 0 /\ i' \in Nat
  OBVIOUS
<1>3. BytesTo(c, 0)
  BY DEF BytesTo
<1>4. CASE side = "enc"
  BY <1>1, <1>2, <1>3, <1>4 DEF Shape
<1>5. CASE side = "dec"
  BY <1>1, <1>2, <1>5 DEF Shape, BytesTo
<1> QED BY <1>4, <1>5 DEF Shape

LEMMA ShapeAdBlock ==
  ASSUME Args, Shape, pc = "ad", i < Before(job.adlen), i' = i + 1,
         UNCHANGED <<job, pc, side, c, recv, p, ret>>
  PROVE  Shape'
<1>1. i \in Nat /\ job.adlen \in Nat /\ job.adlen > 0 /\ Before(job.adlen) \in Nat
  BY BeforeFacts DEF Within, Args, Shape
<1>2. Within' /\ i' \in Nat
  BY <1>1 DEF Within
<1> QED BY <1>2 DEF Shape, BytesTo

LEMMA ShapeAdLast ==
  ASSUME Args, Shape, pc = "ad", pc' = IF job.mlen = 0 THEN "empty" ELSE "message", i' = 0,
         UNCHANGED <<job, side, c, recv, p, ret>>
  PROVE  Shape'
<1>1. Within'
  <2>1. CASE job.mlen = 0
    BY <2>1 DEF Within, Args
  <2>2. CASE job.mlen # 0
    BY <2>2, BeforeFacts DEF Within, Args
  <2> QED BY <2>1, <2>2
<1>2. i' * 16 = 0 /\ i' \in Nat
  OBVIOUS
<1>3. BytesTo(c, 0)
  BY DEF BytesTo
<1>4. CASE side = "enc"
  BY <1>1, <1>2, <1>3, <1>4 DEF Shape
<1>5. CASE side = "dec"
  BY <1>1, <1>2, <1>5 DEF Shape, BytesTo
<1> QED BY <1>4, <1>5 DEF Shape

LEMMA ShapeEncEmpty ==
  ASSUME Args, Shape, side = "enc", pc = "empty", pc' = "transit",
         UNCHANGED <<job, side, i, c, recv, p, ret>>
  PROVE  Shape'
<1>1. job.mlen = 0 /\ Before(job.mlen) * 16 <= 0
  BY DEF Shape, Within, Before, BlockLen
<1>2. BytesTo(c, Before(job.mlen) * 16)
  BY <1>1 DEF BytesTo, Before, BlockLen
<1> QED BY <1>1, <1>2 DEF Shape, Within

\* The buffers with one block more.
LEMMA BytesMore ==
  ASSUME NEW k \in Nat, NEW b, DOMAIN b = 0..(k * 16 - 1), NEW d, DOMAIN d = 0..15,
         NEW out, out = Put(b, k * 16, d)
  PROVE  /\ DOMAIN out = 0..((k + 1) * 16 - 1)
         /\ BytesTo(b, k * 16) /\ BytesTo(d, 16) => BytesTo(out, (k + 1) * 16)
<1>1. PICK m \in Nat, n \in Nat : m = k * 16 /\ n = 16 /\ m + n = (k + 1) * 16
  OBVIOUS
<1>2. Appended(out, b, m, d, m + n)
  <2>1. DOMAIN b = 0..(m - 1) /\ DOMAIN d = 0..(n - 1) /\ out = Put(b, m, d)
    BY <1>1
  <2> QED BY <2>1, PutAtEnd
<1>3. DOMAIN out = 0..((k + 1) * 16 - 1)
  BY <1>1, <1>2 DEF Appended
<1>4. ASSUME BytesTo(b, k * 16), BytesTo(d, 16), NEW j \in 0..(m + n - 1)
      PROVE  out[j] \in Byte
  <2>1. CASE j < m
    <3>1. j \in 0..(m - 1)
      BY <2>1
    <3> QED BY <3>1, <1>1, <1>2, <1>4 DEF Appended, BytesTo
  <2>2. CASE ~(j < m)
    <3>1. j \in m..(m + n - 1) /\ j - m \in 0..(16 - 1)
      BY <2>2, <1>1
    <3>2. out[j] = d[j - m]
      BY <3>1, <1>2 DEF Appended
    <3> QED BY <3>1, <3>2, <1>4 DEF BytesTo
  <2> QED BY <2>1, <2>2
<1>5. ASSUME BytesTo(b, k * 16), BytesTo(d, 16) PROVE BytesTo(out, (k + 1) * 16)
  <2>1. BytesTo(out, m + n)
    BY <1>4, <1>5 DEF BytesTo
  <2> QED BY <1>1, <2>1
<1> QED BY <1>3, <1>5

LEMMA BlockBytes ==
  ASSUME NEW d \in Block
  PROVE  DOMAIN d = 0..15 /\ BytesTo(d, 16)
BY DEF Block, Buffer, BlockLen, BytesTo

LEMMA BytesBlock ==
  ASSUME NEW k \in Nat, NEW x, BytesTo(x, (k + 1) * 16)
  PROVE  BlockAt(x, k) \in Block /\ (k > 0 => BlockAt(x, k - 1) \in Block)
<1>1. ASSUME NEW q \in Nat, q <= k PROVE BlockAt(x, q) \in Block
  <2>1. \A j \in 0..15 : q * 16 + j \in 0..((k + 1) * 16 - 1)
    BY <1>1
  <2>2. \A j \in 0..15 : x[q * 16 + j] \in Byte
    BY <2>1 DEF BytesTo
  <2> QED BY <2>2 DEF BlockAt, Slice, Block, Buffer, BlockLen
<1> QED BY <1>1

LEMMA ShapeEncBlock ==
  ASSUME Args, Shape, side = "enc", pc = "message", i < Before(job.mlen), i' = i + 1,
         NEW d \in Block, c' = Put(c, i * 16, d),
         UNCHANGED <<job, pc, side, recv, p, ret>>
  PROVE  Shape'
<1>1. i \in Nat /\ DOMAIN c = 0..(i * 16 - 1) /\ BytesTo(c, i * 16)
  BY DEF Shape
<1>2. DOMAIN c' = 0..((i + 1) * 16 - 1) /\ BytesTo(c', (i + 1) * 16)
  BY <1>1, BlockBytes, BytesMore
<1>3. Within'
  <2>1. job.mlen \in Nat /\ job.mlen > 0 /\ Before(job.mlen) \in Nat
    BY BeforeFacts DEF Within, Args, Shape
  <2> QED BY <1>1, <2>1 DEF Within
<1>4. /\ side' = "enc" /\ pc' = "message" /\ i' \in Nat /\ job' = job /\ recv' = recv
      /\ p' = p /\ ret' = ret /\ DOMAIN c' = 0..(i' * 16 - 1) /\ BytesTo(c', i' * 16)
  BY <1>1, <1>2
<1> QED BY <1>3, <1>4 DEF Shape

\* The buffers with the last block.
LEMMA BytesLast ==
  ASSUME Args, Shape, pc = "message", i = Before(job.mlen),
         NEW b, DOMAIN b = 0..(i * 16 - 1), NEW d, DOMAIN d = 0..(LastLen - 1),
         NEW out, out = Put(b, i * 16, d)
  PROVE  /\ DOMAIN out = 0..(job.mlen - 1)
         /\ BytesTo(b, i * 16) => BytesTo(out, i * 16)
<1>1. /\ i \in Nat /\ job.mlen \in Nat /\ LastLen \in Nat /\ i * 16 + LastLen = job.mlen
  <2>1. job.mlen \in Nat /\ job.mlen > 0
    BY DEF Args, Shape, Within
  <2>2. Before(job.mlen) \in Nat /\ Before(job.mlen) * 16 < job.mlen
    BY <2>1, BeforeFacts
  <2> QED BY <2>1, <2>2 DEF LastLen, BlockLen
<1>2. PICK m \in Nat, n \in Nat : m = i * 16 /\ n = LastLen /\ m + n = job.mlen
  BY <1>1
<1>3. Appended(out, b, m, d, m + n)
  BY <1>2, PutAtEnd
<1> QED BY <1>2, <1>3 DEF Appended, BytesTo

LEMMA ShapeEncLast ==
  ASSUME Args, Shape, side = "enc", pc = "message", i = Before(job.mlen), pc' = "transit",
         NEW d, DOMAIN d = 0..(LastLen - 1), c' = Put(c, i * 16, d),
         UNCHANGED <<job, side, i, recv, p, ret>>
  PROVE  Shape'
<1>1. i \in Nat /\ DOMAIN c = 0..(i * 16 - 1) /\ BytesTo(c, i * 16)
  BY DEF Shape
<1>2. DOMAIN c' = 0..(job.mlen - 1) /\ BytesTo(c', Before(job.mlen) * 16)
  BY <1>1, BytesLast
<1>3. /\ side' = "enc" /\ pc' = "transit" /\ i' \in Nat /\ job' = job /\ recv' = recv
      /\ p' = p /\ ret' = ret
      /\ DOMAIN c' = 0..(job'.mlen - 1) /\ BytesTo(c', Before(job'.mlen) * 16)
  BY <1>1, <1>2
<1>4. Within'
  BY <1>3 DEF Within
<1> QED BY <1>3, <1>4 DEF Shape

\* A byte that has changed is a byte.
LEMMA FlipFacts ==
  ASSUME NEW b, NEW j \in DOMAIN b
  PROVE  /\ \A n : b \in Buffer(n) => Flip(b, j) \in Buffer(n)
         /\ \A n : BytesTo(b, n) /\ n \in Int /\ (\A l \in 0..(n - 1) : l \in DOMAIN b) => BytesTo(Flip(b, j), n)
         /\ DOMAIN Flip(b, j) = DOMAIN b
<1>1. \A x \in Byte : x (+) One \in Byte
  BY DEF (+), Byte, One, Bits
<1>2. DOMAIN Flip(b, j) = DOMAIN b
  BY DEF Flip
<1>3. \A l \in DOMAIN b : Flip(b, j)[l] = IF l = j THEN b[l] (+) One ELSE b[l]
  BY DEF Flip
<1>4. Flip(b, j) = [l \in DOMAIN b |-> Flip(b, j)[l]]
  BY DEF Flip
<1>5. ASSUME NEW n, b \in Buffer(n) PROVE Flip(b, j) \in Buffer(n)
  <2>1. DOMAIN b = 0..(n - 1) /\ \A l \in DOMAIN b : b[l] \in Byte
    BY <1>5 DEF Buffer
  <2> QED BY <1>1, <1>3, <1>4, <2>1 DEF Buffer
<1>6. ASSUME NEW n \in Int, BytesTo(b, n), \A l \in 0..(n - 1) : l \in DOMAIN b
      PROVE  BytesTo(Flip(b, j), n)
  BY <1>1, <1>3, <1>6 DEF BytesTo
<1> QED BY <1>2, <1>5, <1>6

\* What may arrive.
Arrived ==
  {Sent} \cup {[Sent EXCEPT !.c    = Flip(@, j)] : j \in DOMAIN c}
         \cup {[Sent EXCEPT !.tag  = Flip(@, j)] : j \in DOMAIN tag}
         \cup {[Sent EXCEPT !.ad   = Flip(@, j)] : j \in DOMAIN job.ad}
         \cup {[Sent EXCEPT !.npub = Flip(@, j)] : j \in DOMAIN job.npub}

LEMMA ArrivedFacts ==
  ASSUME NEW x \in Arrived
  PROVE  /\ x.c = c \/ \E j \in DOMAIN c : x.c = Flip(c, j)
         /\ x.ad = job.ad \/ \E j \in DOMAIN job.ad : x.ad = Flip(job.ad, j)
         /\ x.npub = job.npub \/ \E j \in DOMAIN job.npub : x.npub = Flip(job.npub, j)
BY DEF Arrived, Sent

LEMMA ShapeTransit ==
  ASSUME Args, Shape, pc = "transit", pc' = "begin", side' = "dec", recv' \in Arrived,
         UNCHANGED <<job, i, c, p, ret>>
  PROVE  Shape'
<1>1. /\ side = "enc" /\ DOMAIN c = 0..(job.mlen - 1) /\ BytesTo(c, Before(job.mlen) * 16)
      /\ DOMAIN p = 0..(0 - 1)
  BY DEF Shape
<1>2. PICK x : x = recv' /\ x \in Arrived
  OBVIOUS
<1>3. /\ x.c = c \/ \E j \in DOMAIN c : x.c = Flip(c, j)
      /\ x.ad = job.ad \/ \E j \in DOMAIN job.ad : x.ad = Flip(job.ad, j)
  BY <1>2, ArrivedFacts
<1>4. x.ad \in Buffer(job.adlen)
  BY <1>3, FlipFacts DEF Args
<1>5. PICK n \in Int : n = Before(job.mlen) * 16 /\ n <= job.mlen
  <2>1. CASE job.mlen = 0
    BY <2>1 DEF Before, BlockLen
  <2>2. CASE job.mlen # 0
    <3>1. Before(job.mlen) \in Nat /\ Before(job.mlen) * 16 < job.mlen /\ job.mlen \in Nat
      BY <2>2, BeforeFacts DEF Args
    <3>2. Before(job.mlen) * 16 \in Int /\ Before(job.mlen) * 16 <= job.mlen
      BY <3>1
    <3> QED BY <3>2
  <2> QED BY <2>1, <2>2
<1>6. BytesTo(x.c, n)
  <2>1. \A l \in 0..(n - 1) : l \in DOMAIN c
    BY <1>1, <1>5 DEF Args
  <2> QED BY <1>1, <1>3, <1>5, <2>1, FlipFacts
<1>7. Within'
  BY DEF Within
<1> QED BY <1>1, <1>2, <1>4, <1>5, <1>6, <1>7 DEF Shape

LEMMA ShapeDecEmpty ==
  ASSUME Args, Shape, side = "dec", pc = "empty", pc' = "done", ret' \in {"ok", "bad"},
         UNCHANGED <<job, side, i, c, recv, p>>
  PROVE  Shape'
<1>1. job.mlen = 0
  BY DEF Shape, Within
<1> QED BY <1>1 DEF Shape, Within

LEMMA ShapeDecBlock ==
  ASSUME Args, Shape, side = "dec", pc = "message", i < Before(job.mlen), i' = i + 1,
         NEW d, DOMAIN d = 0..15, p' = Put(p, i * 16, d),
         UNCHANGED <<job, pc, side, c, recv, ret>>
  PROVE  Shape'
<1>1. i \in Nat /\ DOMAIN p = 0..(i * 16 - 1)
  BY DEF Shape
<1>2. DOMAIN p' = 0..((i + 1) * 16 - 1)
  BY <1>1, BytesMore
<1>3. Within'
  <2>1. job.mlen \in Nat /\ job.mlen > 0 /\ Before(job.mlen) \in Nat
    BY BeforeFacts DEF Within, Args, Shape
  <2> QED BY <1>1, <2>1 DEF Within
<1>4. DOMAIN p' = 0..(i' * 16 - 1) /\ i' \in Nat
  BY <1>1, <1>2
<1> QED BY <1>3, <1>4 DEF Shape

LEMMA ShapeDecLast ==
  ASSUME Args, Shape, side = "dec", pc = "message", i = Before(job.mlen), pc' = "done",
         NEW d, DOMAIN d = 0..(LastLen - 1), p' = Put(p, i * 16, d), ret' \in {"ok", "bad"},
         UNCHANGED <<job, side, i, c, recv>>
  PROVE  Shape'
<1>1. DOMAIN p = 0..(i * 16 - 1)
  BY DEF Shape
<1>2. DOMAIN p' = 0..(job.mlen - 1)
  BY <1>1, BytesLast
<1>3. Within'
  BY DEF Within
<1> QED BY <1>2, <1>3 DEF Shape

\* The blocks that the loop over the message takes are blocks.
LEMMA ShapeBlocks ==
  ASSUME Args, Shape
  PROVE  /\ pc = "message" /\ i < Before(job.mlen) => BlockAt(recv.c, i) \in Block
         /\ pc = "ad" /\ i < Before(job.adlen) => BlockAt(recv.ad, i) \in Block
         /\ pc = "ad" => Padded(recv.ad, job.adlen) \in Block
<1>1. i \in Nat
  BY DEF Shape
<1>2. ASSUME pc = "message", i < Before(job.mlen) PROVE BlockAt(recv.c, i) \in Block
  <2>1. job.mlen \in Nat /\ job.mlen > 0 /\ Before(job.mlen) \in Nat
        /\ Before(job.mlen) * 16 < job.mlen
    BY <1>2, BeforeFacts DEF Args, Shape, Within
  <2>2. PICK n \in Nat : n = Before(job.mlen) * 16 /\ i * 16 + 16 <= n
    BY <1>1, <1>2, <2>1
  <2>3. BytesTo(recv.c, n)
    <3>1. CASE side = "dec"
      BY <3>1, <2>2 DEF Shape
    <3>2. CASE side = "enc"
      <4>1. recv.c = job.m /\ job.m \in Buffer(job.mlen) /\ n <= job.mlen
        BY <3>2, <2>1, <2>2 DEF Shape, Args
      <4>2. \A j \in 0..(n - 1) : j \in 0..(job.mlen - 1)
        BY <2>1, <4>1
      <4> QED BY <4>1, <4>2 DEF Buffer, BytesTo
    <3> QED BY <3>1, <3>2 DEF Shape
  <2>4. \A j \in 0..15 : i * 16 + j \in 0..(n - 1)
    BY <1>1, <2>2
  <2>5. \A j \in 0..15 : recv.c[i * 16 + j] \in Byte
    BY <2>3, <2>4 DEF BytesTo
  <2> QED BY <2>5 DEF BlockAt, Slice, Block, Buffer, BlockLen
<1>3. ASSUME pc = "ad"
      PROVE  /\ i < Before(job.adlen) => BlockAt(recv.ad, i) \in Block
             /\ Padded(recv.ad, job.adlen) \in Block
  <2>1. job.adlen \in Nat /\ job.adlen > 0 /\ recv.ad \in Buffer(job.adlen)
        /\ Before(job.adlen) \in Nat /\ Before(job.adlen) * 16 < job.adlen
    BY <1>3, BeforeFacts DEF Args, Shape, Within
  <2>2. i < Before(job.adlen) => i * 16 + 16 <= job.adlen
    BY <1>1, <2>1
  <2> QED BY <1>1, <2>1, <2>2, BlockAtFacts, PaddedFacts
<1> QED BY <1>2, <1>3

\* In the words of the type invariants.
LEMMA ShapeDomains ==
  ASSUME Shape
  PROVE  /\ DOMAIN c = 0..((CASE ret = "refused" -> 0
                              [] side = "enc" /\ pc \in {"begin", "ad", "empty"} -> 0
                              [] side = "enc" /\ pc = "message" -> i * BlockLen
                              [] OTHER -> job.mlen) - 1)
         /\ DOMAIN p = 0..((CASE side = "enc" \/ pc \in {"begin", "ad", "empty"} -> 0
                              [] side = "dec" /\ pc = "message" -> i * BlockLen
                              [] OTHER -> job.mlen) - 1)
<1> DEFINE k == CASE ret = "refused" -> 0
                  [] side = "enc" /\ pc \in {"begin", "ad", "empty"} -> 0
                  [] side = "enc" /\ pc = "message" -> i * BlockLen
                  [] OTHER -> job.mlen
           l == CASE side = "enc" \/ pc \in {"begin", "ad", "empty"} -> 0
                  [] side = "dec" /\ pc = "message" -> i * BlockLen
                  [] OTHER -> job.mlen
<1>1. DOMAIN c = 0..(k - 1)
  <2>1. CASE ret = "refused"
    <3>1. side = "enc" /\ pc = "done" /\ ~(pc \in {"begin", "ad", "empty"}) /\ pc # "message"
      BY <2>1 DEF Shape
    <3>2. k = 0
      BY <2>1, <3>1, Zenon
    <3>3. DOMAIN c = 0..(0 - 1)
      BY <3>1 DEF Shape
    <3> HIDE DEF k
    <3> QED BY <3>2, <3>3
  <2>2. CASE ret # "refused" /\ side = "enc" /\ pc \in {"begin", "ad", "empty"}
    <3>1. pc # "message"
      BY <2>2
    <3>2. k = 0
      BY <2>2, <3>1, Zenon
    <3>3. DOMAIN c = 0..(0 - 1)
      BY <2>2 DEF Shape
    <3> HIDE DEF k
    <3> QED BY <3>2, <3>3
  <2>3. CASE ret # "refused" /\ side = "enc" /\ pc = "message"
    <3>1. ~(pc \in {"begin", "ad", "empty"})
      BY <2>3
    <3>2. k = i * BlockLen
      BY <2>3, <3>1, Zenon
    <3>3. DOMAIN c = 0..(i * BlockLen - 1)
      BY <2>3 DEF Shape, BlockLen
    <3> HIDE DEF k
    <3> QED BY <3>2, <3>3
  <2>4. CASE /\ ret # "refused" /\ ~(side = "enc" /\ pc \in {"begin", "ad", "empty"})
             /\ ~(side = "enc" /\ pc = "message")
    <3>1. k = job.mlen
      BY <2>4, Zenon
    <3>2. side = "dec" \/ pc = "transit"
      BY <2>4 DEF Shape
    <3>3. DOMAIN c = 0..(job.mlen - 1)
      BY <3>2 DEF Shape
    <3> HIDE DEF k
    <3> QED BY <3>1, <3>3
  <2> QED BY <2>1, <2>2, <2>3, <2>4
<1>2. DOMAIN p = 0..(l - 1)
  <2>1. CASE side = "enc" \/ pc \in {"begin", "ad", "empty"}
    <3>1. ~(side = "dec" /\ pc = "message")
      BY <2>1
    <3>2. l = 0
      BY <2>1, <3>1, Zenon
    <3>3. DOMAIN p = 0..(0 - 1)
      BY <2>1 DEF Shape
    <3> HIDE DEF l
    <3> QED BY <3>2, <3>3
  <2>2. CASE side = "dec" /\ pc = "message"
    <3>1. ~(side = "enc" \/ pc \in {"begin", "ad", "empty"})
      BY <2>2
    <3>2. l = i * BlockLen
      BY <2>2, <3>1, Zenon
    <3>3. DOMAIN p = 0..(i * BlockLen - 1)
      BY <2>2 DEF Shape, BlockLen
    <3> HIDE DEF l
    <3> QED BY <3>2, <3>3
  <2>3. CASE /\ ~(side = "enc" \/ pc \in {"begin", "ad", "empty"})
             /\ ~(side = "dec" /\ pc = "message")
    <3>1. l = job.mlen
      BY <2>3, Zenon
    <3>2. side = "dec" /\ pc = "done"
      BY <2>3 DEF Shape
    <3>3. DOMAIN p = 0..(job.mlen - 1)
      BY <3>2 DEF Shape
    <3> HIDE DEF l
    <3> QED BY <3>1, <3>3
  <2> QED BY <2>1, <2>2, <2>3
<1> QED BY <1>1, <1>2

\* The sums go on with one more block.
LEMMA AdSumsMore ==
  ASSUME NEW call, NEW A, NEW k \in Nat, JolteonAdSums(call, A, k)
  PROVE  \E B : /\ JolteonAdSums(call, B, k + 1)
                /\ B[k+1] = XorBlock(A[k], Left(AdAt(call, k), BlockAt(call.ad, k)))
<1> DEFINE v == XorBlock(A[k], Left(AdAt(call, k), BlockAt(call.ad, k)))
           B == [n \in Nat |-> IF n = k + 1 THEN v ELSE A[n]]
<1>1. B[k+1] = v /\ \A n \in 0..k : B[n] = A[n]
  OBVIOUS
<1>2. ASSUME NEW b \in 0..k
      PROVE  B[b+1] = XorBlock(B[b], Left(AdAt(call, b), BlockAt(call.ad, b)))
  <2> HIDE DEF B
  <2>1. CASE b = k
    BY <1>1, <2>1
  <2>2. CASE b # k
    <3>1. b \in 0..(k-1) /\ b + 1 \in 0..k
      BY <2>2
    <3> QED BY <1>1, <3>1 DEF JolteonAdSums
  <2> QED BY <2>1, <2>2
<1>3. B[0] = Zeros(BlockLen)
  BY <1>1 DEF JolteonAdSums
<1> HIDE DEF B
<1>4. (k + 1) - 1 = k
  OBVIOUS
<1>5. JolteonAdSums(call, B, k + 1)
  BY <1>2, <1>3, <1>4 DEF JolteonAdSums
<1> QED BY <1>1, <1>5

LEMMA EncipheredMore ==
  ASSUME NEW call, NEW T, NEW b, NEW out, NEW k \in Nat, NEW v \in Block,
         JolteonEnciphered(call, T, b, k),
         \A q \in 0..(k-1) : BlockAt(out, q) = BlockAt(b, q),
         BlockAt(out, k) = Left(MessageAt(call, k), BlockAt(call.m, k)),
         v = XorBlock(XorBlock(T[k], BlockAt(call.m, k)), BlockAt(out, k))
  PROVE  \E U : U[0] = T[0] /\ U[k+1] = v /\ JolteonEnciphered(call, U, out, k + 1)
<1> DEFINE U == [n \in Nat |-> IF n = k + 1 THEN v ELSE T[n]]
<1>1. U[k+1] = v /\ \A n \in 0..k : U[n] = T[n]
  OBVIOUS
<1> HIDE DEF U
<1>2. ASSUME NEW q \in 0..(k + 1) PROVE U[q] \in Block
  <2>1. CASE q = k + 1
    BY <1>1, <2>1
  <2>2. CASE q # k + 1
    <3>1. q \in 0..k
      BY <2>2
    <3> QED BY <1>1, <3>1 DEF JolteonEnciphered
  <2> QED BY <2>1, <2>2
<1>3. ASSUME NEW q \in 0..k
      PROVE  /\ BlockAt(out, q) = Left(MessageAt(call, q), BlockAt(call.m, q))
             /\ U[q+1] = XorBlock(XorBlock(U[q], BlockAt(call.m, q)), BlockAt(out, q))
  <2>1. CASE q = k
    BY <1>1, <2>1
  <2>2. CASE q # k
    <3>1. q \in 0..(k-1) /\ q + 1 \in 0..k
      BY <2>2
    <3> QED BY <1>1, <3>1 DEF JolteonEnciphered
  <2> QED BY <2>1, <2>2
<1>4. (k + 1) - 1 = k
  OBVIOUS
<1>5. JolteonEnciphered(call, U, out, k + 1)
  BY <1>2, <1>3, <1>4 DEF JolteonEnciphered
<1> QED BY <1>1, <1>5

\* With the nonce of the encryption the tweaks are those of the encryption.
LEMMA SameTweaks ==
  ASSUME recv.npub = job.npub
  PROVE  /\ JolteonAdTweak = AdAt(job, i)
         /\ JolteonTweak(FALSE, JolteonAdEnd(Complete(job.adlen), job.mlen = 0)) = AdEndOf(job)
         /\ MessageTweak = MessageAt(job, i)
         /\ MessageEnd = MessageEndOf(job)
BY DEF JolteonAdTweak, MessageTweak, MessageEnd, JolteonTweak, AdAt, AdEndOf, MessageAt, MessageEndOf, TweakOf

\* The block at the loop's index, or the last one.
LEMMA AdBlockFacts ==
  ASSUME TweakInv, pc = "ad"
  PROVE  /\ i < Before(job.adlen) => BlockAt(job.ad, i) \in Block
         /\ Padded(job.ad, job.adlen) \in Block
<1>1. job.adlen \in Nat /\ job.adlen > 0 /\ job.ad \in Buffer(job.adlen) /\ i \in Nat
  BY JolteonJobFacts DEF TweakInv, Within
<1>2. Before(job.adlen) \in Nat /\ Before(job.adlen) * 16 < job.adlen
  BY <1>1, BeforeFacts
<1>3. i < Before(job.adlen) => i * 16 + 16 <= job.adlen
  BY <1>1, <1>2
<1> QED BY <1>1, <1>3, BlockAtFacts, PaddedFacts

LEMMA MessageBlockFacts ==
  ASSUME TweakInv, pc = "message"
  PROVE  /\ job.mlen \in Nat /\ job.mlen > 0 /\ job.m \in Buffer(job.mlen) /\ i \in Nat
         /\ LastLen \in Nat /\ LastLen > 0 /\ LastLen <= 16
         /\ Before(job.mlen) \in Nat /\ Before(job.mlen) * 16 + LastLen = job.mlen
         /\ i < Before(job.mlen) => BlockAt(job.m, i) \in Block
         /\ Padded(job.m, job.mlen) \in Block
<1>1. job.mlen \in Nat /\ job.mlen > 0 /\ job.m \in Buffer(job.mlen) /\ i \in Nat
  BY JolteonJobFacts DEF TweakInv, Within
<1>2. /\ Before(job.mlen) \in Nat /\ Before(job.mlen) * 16 < job.mlen
      /\ job.mlen <= Before(job.mlen) * 16 + 16
  BY <1>1, BeforeFacts
<1>3. LastLen \in Nat /\ LastLen > 0 /\ LastLen <= 16 /\ Before(job.mlen) * 16 + LastLen = job.mlen
  BY <1>1, <1>2 DEF LastLen, BlockLen
<1>4. i < Before(job.mlen) => i * 16 + 16 <= job.mlen
  BY <1>1, <1>2
<1> QED BY <1>1, <1>2, <1>3, <1>4, BlockAtFacts, PaddedFacts

(***************************************************************************)
(* The steps of both sides                                                 *)
(***************************************************************************)
LEMMA ZerosFacts ==
  /\ Zeros(BlockLen) \in Block
  /\ DOMAIN Zeros(0) = 0..(0 * 16 - 1)
  /\ \A b \in Buffer(0) : b = Zeros(0)
<1>1. Zero \in Byte
  BY DEF Zero, Byte
<1>2. Zeros(BlockLen) \in Block
  BY <1>1 DEF Zeros, Block, Buffer
<1>3. DOMAIN Zeros(0) = 0..(0 * 16 - 1)
  BY DEF Zeros
<1>4. ASSUME NEW b \in Buffer(0) PROVE b = Zeros(0)
  <2>1. DOMAIN b = 0..(0 - 1) /\ b = [j \in 0..(0 - 1) |-> b[j]]
    BY DEF Buffer
  <2>2. \A j \in 0..(0 - 1) : FALSE
    OBVIOUS
  <2> QED BY <2>1, <2>2 DEF Zeros
<1> QED BY <1>2, <1>3, <1>4

\* What the decryption asks for is within the hypothesis, also with a nonce that
\* has changed on the way.
LEMMA TweakForks ==
  ASSUME JolteonForks, recv.npub \in Buffer(JolteonNonceSize), i \in Nat, NEW x \in Block,
         NEW tweak \in {JolteonAdTweak, MessageTweak, MessageEnd,
                        JolteonTweak(FALSE, JolteonAdEnd(Complete(job.adlen), job.mlen = 0))}
  PROVE  Left(tweak, x) \in Block /\ Undo(tweak, x) \in Block /\ Undo(tweak, Left(tweak, x)) = x
<1>1. JolteonCounterSize \in Nat /\ JolteonCounterSize > 4
  BY JolteonCounterAssumption
<1>2. /\ (i + 2) % JolteonCounterSize \in 0..(JolteonCounterSize - 1)
      /\ (i + 4) % JolteonCounterSize \in 0..(JolteonCounterSize - 1)
  BY <1>1
<1>3. \A n \in {0, 1, 2} : n \in 0..(JolteonCounterSize - 1)
  BY <1>1
<1>4. \E msg \in BOOLEAN, w \in 0..(JolteonCounterSize - 1) : tweak = JolteonTweak(msg, w)
  BY <1>2, <1>3 DEF JolteonAdTweak, JolteonAdEnd, MessageTweak, MessageEnd
<1>5. tweak \in [npub : Buffer(JolteonNonceSize), msg : BOOLEAN, w : 0..(JolteonCounterSize - 1)]
  BY <1>4 DEF JolteonTweak
<1> QED BY <1>5 DEF JolteonForks, Forks

LEMMA ForkFacts ==
  ASSUME JolteonForks, job \in JolteonCalls, NEW x \in Block, NEW b \in Nat,
         NEW tweak \in {AdAt(job, b), AdEndOf(job), MessageAt(job, b), MessageEndOf(job)}
  PROVE  Left(tweak, x) \in Block /\ Undo(tweak, Left(tweak, x)) = x
<1>1. JolteonCounterSize \in Nat /\ JolteonCounterSize > 4
  BY JolteonCounterAssumption
<1>2. /\ (b + 2) % JolteonCounterSize \in 0..(JolteonCounterSize - 1)
      /\ (b + 4) % JolteonCounterSize \in 0..(JolteonCounterSize - 1)
  BY <1>1
<1>3. \A n \in {0, 1, 2} : n \in 0..(JolteonCounterSize - 1)
  BY <1>1
<1>4. \E msg \in BOOLEAN, w \in 0..(JolteonCounterSize - 1) : tweak = TweakOf(job, msg, w)
  BY <1>2, <1>3 DEF AdAt, AdEndOf, JolteonAdEnd, MessageAt, MessageEndOf
<1>5. job.npub \in Buffer(JolteonNonceSize)
  BY JolteonCallsAssumption
<1>6. tweak \in [npub : Buffer(JolteonNonceSize), msg : BOOLEAN, w : 0..(JolteonCounterSize - 1)]
  BY <1>4, <1>5 DEF TweakOf
<1> QED BY <1>6 DEF JolteonForks, Forks

LEMMA InitSums == JolteonInit => SumInv
BY DEF JolteonInit, SumInv, Admitted, EncState, DecState

LEMMA RefuseSums == ASSUME JolteonInv, JolteonRefuse PROVE SumInv'
<1>1. /\ pc = "begin" /\ pc' = "done" /\ side' = side /\ job' = job /\ recv' = recv
      /\ p' = p /\ c' = c
      /\ job.mlen > JolteonMaxLength \/ job.adlen > JolteonMaxLength \/ (job.mlen = 0 /\ job.adlen = 0)
  BY DEF JolteonRefuse
<1>2. /\ job.mlen \in Nat /\ job.adlen \in Nat /\ JolteonMaxLength \in Nat
  BY JolteonJobFacts, JolteonCounterAssumption DEF JolteonInv, TweakInv, JolteonMaxLength, BlockLen
<1>3. side # "dec" /\ side = "enc"
  BY <1>1, <1>2 DEF JolteonInv, TweakInv, SumInv, Admitted
<1>4. Admitted' /\ DecState'
  BY <1>1, <1>3 DEF Admitted, DecState
<1>5. EncState'
  BY <1>1, <1>3 DEF JolteonInv, SumInv, EncState
<1> QED BY <1>4, <1>5 DEF SumInv

LEMMA BeginSums == ASSUME JolteonInv, JolteonBegin PROVE SumInv'
<1>1. /\ pc = "begin" /\ pc' = (IF job.adlen > 0 THEN "ad" ELSE "message")
      /\ side' = side /\ job' = job /\ recv' = recv /\ i' = 0 /\ ta' = Zeros(BlockLen)
      /\ p' = p /\ c' = c /\ tag' = tag
      /\ job.mlen <= JolteonMaxLength /\ job.adlen <= JolteonMaxLength
      /\ job.mlen > 0 \/ job.adlen > 0
  BY DEF JolteonBegin
<1>2. job.adlen \in Nat /\ job.mlen \in Nat /\ side \in {"enc", "dec"}
  BY JolteonJobFacts DEF JolteonInv, TweakInv
<1>3. Admitted'
  BY <1>1 DEF Admitted, JolteonMaxLength
<1>4. EncState'
  <2> SUFFICES ASSUME side = "enc" PROVE EncState'
    BY <1>1 DEF EncState
  <2>1. /\ recv.c = job.m /\ recv.ad = job.ad /\ recv.npub = job.npub
        /\ p = Zeros(0) /\ c = Zeros(0)
    BY <1>1 DEF JolteonInv, SumInv, EncState
  <2>2. CASE job.adlen > 0
    <3> DEFINE A == [n \in Nat |-> Zeros(BlockLen)]
    <3>1. A[0] = Zeros(BlockLen) /\ JolteonAdSums(job, A, 0)
      BY DEF JolteonAdSums
    <3> HIDE DEF A
    <3> QED BY <1>1, <2>1, <2>2, <3>1, ZerosFacts DEF EncState
  <2>3. CASE ~(job.adlen > 0)
    <3> DEFINE T == [n \in Nat |-> Zeros(BlockLen)]
    <3>1. T[0] = Zeros(BlockLen)
      OBVIOUS
    <3> HIDE DEF T
    <3>2. JolteonAdSummed(job, T, T[0])
      BY <2>3, <3>1 DEF JolteonAdSummed
    <3>3. JolteonEnciphered(job, T, c, 0)
      BY <3>1, ZerosFacts DEF JolteonEnciphered
    <3>4. pc' = "message" /\ ta' = T[i'] /\ DOMAIN c' = 0..(i' * 16 - 1)
      BY <1>1, <2>1, <2>3, <3>1, ZerosFacts
    <3> QED BY <1>1, <2>1, <3>2, <3>3, <3>4 DEF EncState
  <2> QED BY <2>2, <2>3
<1>5. DecState'
  <2> SUFFICES ASSUME side = "dec", recv = Sent
               PROVE  \E A, T : JolteonEncrypted(job, A, T, c, tag) /\ Following(A, T)'
    BY <1>1 DEF DecState, Sent
  <2>1. PICK A, T : JolteonEncrypted(job, A, T, c, tag) /\ Following(A, T)
    BY DEF JolteonInv, SumInv, DecState
  <2>2. p = Zeros(0) /\ JolteonAdSummed(job, A, T[0])
    BY <1>1, <2>1 DEF Following, JolteonEncrypted
  <2>3. CASE job.adlen > 0
    <3>1. A[0] = Zeros(BlockLen)
      BY <2>2, <2>3 DEF JolteonAdSummed, JolteonAdSums
    <3> QED BY <1>1, <2>1, <2>2, <2>3, <3>1 DEF Following
  <2>4. CASE ~(job.adlen > 0)
    <3>1. T[0] = Zeros(BlockLen)
      BY <1>2, <2>2, <2>4 DEF JolteonAdSummed
    <3>2. pc' = "message" /\ ta' = T[i'] /\ DOMAIN p' = 0..(i' * 16 - 1)
      BY <1>1, <2>2, <2>4, <3>1, ZerosFacts
    <3>3. \A j \in 0..(i' * 16 - 1) : FALSE
      BY <1>1
    <3> QED BY <2>1, <3>2, <3>3 DEF Following
  <2> QED BY <2>3, <2>4
<1> QED BY <1>3, <1>4, <1>5 DEF SumInv

LEMMA AdBlockSums == ASSUME JolteonForks, JolteonInv, JolteonAdBlock PROVE SumInv'
<1>1. /\ pc = "ad" /\ pc' = pc /\ i < Before(job.adlen) /\ i' = i + 1
      /\ ta' = XorBlock(ta, Left(JolteonAdTweak, BlockAt(recv.ad, i)))
      /\ side' = side /\ job' = job /\ recv' = recv /\ p' = p /\ c' = c /\ tag' = tag
  BY DEF JolteonAdBlock
<1>2. i \in Nat /\ side \in {"enc", "dec"} /\ BlockAt(job.ad, i) \in Block
  BY <1>1, AdBlockFacts DEF JolteonInv, TweakInv
<1>3. Admitted'
  BY <1>1 DEF JolteonInv, SumInv, Admitted, JolteonMaxLength
<1>4. EncState'
  <2> SUFFICES ASSUME side = "enc" PROVE EncState'
    BY <1>1 DEF EncState
  <2>1. /\ recv.c = job.m /\ recv.ad = job.ad /\ recv.npub = job.npub
        /\ p = Zeros(0) /\ c = Zeros(0) /\ ta \in Block
    BY <1>1 DEF JolteonInv, SumInv, EncState
  <2>2. PICK A : JolteonAdSums(job, A, i) /\ ta = A[i]
    BY <1>1 DEF JolteonInv, SumInv, EncState
  <2>3. ta' = XorBlock(ta, Left(AdAt(job, i), BlockAt(job.ad, i)))
    BY <1>1, <2>1, SameTweaks
  <2>4. ta' \in Block
    BY <1>2, <2>1, <2>3, XorBlockFacts, ForkFacts DEF JolteonInv, TweakInv
  <2>5. \E B : JolteonAdSums(job, B, i + 1) /\ B[i+1] = ta'
    BY <1>2, <2>2, <2>3, AdSumsMore
  <2> QED BY <1>1, <2>1, <2>4, <2>5 DEF EncState
<1>5. DecState'
  <2> SUFFICES ASSUME side = "dec", recv = Sent
               PROVE  \E A, T : JolteonEncrypted(job, A, T, c, tag) /\ Following(A, T)'
    BY <1>1 DEF DecState, Sent
  <2>1. PICK A, T : JolteonEncrypted(job, A, T, c, tag) /\ Following(A, T)
    BY DEF JolteonInv, SumInv, DecState
  <2>2. p = Zeros(0) /\ ta = A[i]
    BY <1>1, <2>1 DEF Following
  <2>3. JolteonAdSums(job, A, Before(job.adlen))
    BY <1>1, <2>1 DEF JolteonEncrypted, JolteonAdSummed, JolteonInv, TweakInv, Within
  <2>4. Before(job.adlen) \in Nat
    BY <1>1, JolteonJobFacts, BeforeFacts DEF JolteonInv, TweakInv, Within
  <2>5. i \in 0..(Before(job.adlen) - 1)
    BY <1>1, <1>2, <2>4
  <2>6. A[i+1] = XorBlock(A[i], Left(AdAt(job, i), BlockAt(job.ad, i)))
    BY <2>3, <2>5 DEF JolteonAdSums
  <2>7. recv.ad = job.ad /\ recv.npub = job.npub
    BY DEF Sent
  <2>8. ta' = A[i']
    BY <1>1, <2>2, <2>6, <2>7, SameTweaks
  <2> QED BY <1>1, <2>1, <2>2, <2>8 DEF Following
<1> QED BY <1>3, <1>4, <1>5 DEF SumInv

LEMMA AdLastSums == ASSUME JolteonForks, JolteonInv, JolteonAdLast PROVE SumInv'
<1> DEFINE tweak == JolteonTweak(FALSE, JolteonAdEnd(Complete(job.adlen), job.mlen = 0))
<1>1. /\ pc = "ad" /\ pc' = (IF job.mlen = 0 THEN "empty" ELSE "message")
      /\ i = Before(job.adlen) /\ i' = 0
      /\ ta' = XorBlock(ta, Left(tweak, Padded(recv.ad, job.adlen)))
      /\ side' = side /\ job' = job /\ recv' = recv /\ p' = p /\ c' = c /\ tag' = tag
  BY DEF JolteonAdLast
<1>2. recv.npub = job.npub => tweak = AdEndOf(job)
  BY SameTweaks
<1> HIDE DEF tweak
<1>3. /\ job.adlen \in Nat /\ job.adlen > 0 /\ job.mlen \in Nat /\ side \in {"enc", "dec"}
      /\ Padded(job.ad, job.adlen) \in Block
  BY <1>1, JolteonJobFacts, AdBlockFacts DEF JolteonInv, TweakInv, Within
<1>4. Admitted'
  BY <1>1 DEF JolteonInv, SumInv, Admitted, JolteonMaxLength
<1>5. EncState'
  <2> SUFFICES ASSUME side = "enc" PROVE EncState'
    BY <1>1 DEF EncState
  <2>1. /\ recv.c = job.m /\ recv.ad = job.ad /\ recv.npub = job.npub
        /\ p = Zeros(0) /\ c = Zeros(0) /\ ta \in Block
    BY <1>1 DEF JolteonInv, SumInv, EncState
  <2>2. PICK A : JolteonAdSums(job, A, i) /\ ta = A[i]
    BY <1>1 DEF JolteonInv, SumInv, EncState
  <2>3. ta' = XorBlock(A[i], Left(AdEndOf(job), Padded(job.ad, job.adlen)))
    BY <1>1, <1>2, <2>1, <2>2
  <2>4. ta' \in Block
    BY <1>3, <2>1, <2>2, <2>3, XorBlockFacts, ForkFacts DEF JolteonInv, TweakInv
  <2>5. JolteonAdSummed(job, A, ta')
    BY <1>1, <1>3, <2>2, <2>3 DEF JolteonAdSummed
  <2>6. CASE job.mlen = 0
    BY <1>1, <2>1, <2>5, <2>6 DEF EncState
  <2>7. CASE job.mlen # 0
    <3> DEFINE T == [n \in Nat |-> ta']
    <3>1. T[0] = ta'
      OBVIOUS
    <3> HIDE DEF T
    <3>2. JolteonEnciphered(job, T, c, 0)
      BY <2>4, <3>1 DEF JolteonEnciphered
    <3>3. pc' = "message" /\ ta' = T[i'] /\ DOMAIN c' = 0..(i' * 16 - 1)
      BY <1>1, <2>1, <2>7, <3>1, ZerosFacts
    <3> QED BY <1>1, <2>1, <2>5, <3>1, <3>2, <3>3 DEF EncState
  <2> QED BY <2>6, <2>7
<1>6. DecState'
  <2> SUFFICES ASSUME side = "dec", recv = Sent
               PROVE  \E A, T : JolteonEncrypted(job, A, T, c, tag) /\ Following(A, T)'
    BY <1>1 DEF DecState, Sent
  <2>1. PICK A, T : JolteonEncrypted(job, A, T, c, tag) /\ Following(A, T)
    BY DEF JolteonInv, SumInv, DecState
  <2>2. p = Zeros(0) /\ ta = A[i]
    BY <1>1, <2>1 DEF Following
  <2>3. T[0] = XorBlock(A[i], Left(AdEndOf(job), Padded(job.ad, job.adlen)))
    BY <1>1, <1>3, <2>1 DEF JolteonEncrypted, JolteonAdSummed
  <2>4. recv.ad = job.ad /\ recv.npub = job.npub
    BY DEF Sent
  <2>5. ta' = T[0]
    BY <1>1, <1>2, <2>2, <2>3, <2>4
  <2>6. CASE job.mlen = 0
    BY <1>1, <2>1, <2>2, <2>5, <2>6 DEF Following
  <2>7. CASE job.mlen # 0
    <3>1. pc' = "message" /\ ta' = T[i'] /\ DOMAIN p' = 0..(i' * 16 - 1)
      BY <1>1, <2>2, <2>5, <2>7, ZerosFacts
    <3>2. \A j \in 0..(i' * 16 - 1) : FALSE
      BY <1>1
    <3> QED BY <2>1, <3>1, <3>2 DEF Following
  <2> QED BY <2>6, <2>7
<1> QED BY <1>4, <1>5, <1>6 DEF SumInv

LEMMA EncEmptySums == ASSUME JolteonInv, JolteonEncEmpty PROVE SumInv'
<1>1. /\ side = "enc" /\ pc = "empty" /\ pc' = "transit" /\ tag' = ta
      /\ side' = side /\ job' = job /\ recv' = recv /\ p' = p /\ c' = c
  BY DEF JolteonEncEmpty
<1>2. Admitted' /\ DecState'
  BY <1>1 DEF JolteonInv, SumInv, Admitted, JolteonMaxLength, DecState
<1>3. /\ recv.c = job.m /\ recv.ad = job.ad /\ recv.npub = job.npub /\ p = Zeros(0)
      /\ job.mlen = 0
  BY <1>1 DEF JolteonInv, SumInv, EncState, TweakInv, Within
<1>4. PICK A : JolteonAdSummed(job, A, ta)
  BY <1>1 DEF JolteonInv, SumInv, EncState
<1> DEFINE T == [n \in Nat |-> ta]
<1>5. T[0] = ta
  OBVIOUS
<1> HIDE DEF T
<1>6. JolteonEncrypted(job, A, T, c, ta)
  BY <1>3, <1>4, <1>5 DEF JolteonEncrypted
<1>7. EncState'
  BY <1>1, <1>3, <1>6 DEF EncState
<1> QED BY <1>2, <1>7 DEF SumInv

LEMMA EncBlockSums == ASSUME JolteonForks, JolteonInv, JolteonEncBlock PROVE SumInv'
<1> DEFINE d == Left(MessageTweak, BlockAt(recv.c, i))
<1>1. /\ side = "enc" /\ pc = "message" /\ pc' = pc /\ i < Before(job.mlen) /\ i' = i + 1
      /\ c' = Put(c, i * 16, d)
      /\ ta' = XorBlock(XorBlock(ta, BlockAt(recv.c, i)), BlockAt(c', i))
      /\ side' = side /\ job' = job /\ recv' = recv /\ p' = p
  BY DEF JolteonEncBlock, BlockLen
<1>2. i \in Nat /\ BlockAt(job.m, i) \in Block
  BY <1>1, MessageBlockFacts DEF JolteonInv
<1>3. /\ recv.c = job.m /\ recv.ad = job.ad /\ recv.npub = job.npub /\ p = Zeros(0)
      /\ DOMAIN c = 0..(i * 16 - 1)
  BY <1>1 DEF JolteonInv, SumInv, EncState
<1>4. PICK A, T : JolteonAdSummed(job, A, T[0]) /\ JolteonEnciphered(job, T, c, i) /\ ta = T[i]
  BY <1>1 DEF JolteonInv, SumInv, EncState
<1>5. d = Left(MessageAt(job, i), BlockAt(job.m, i))
  BY <1>3, SameTweaks
<1> HIDE DEF d
<1>6. d \in Block
  BY <1>2, <1>5, ForkFacts DEF JolteonInv, TweakInv
<1>7. /\ Appended(c', c, i * 16, d, (i + 1) * 16)
      /\ \A q \in 0..(i-1) : BlockAt(c', q) = BlockAt(c, q)
      /\ BlockAt(c', i) = d
  <2>1. PICK m \in Nat : m = i * 16 /\ m + 16 = (i + 1) * 16
    BY <1>2
  <2>2. DOMAIN c = 0..(m - 1) /\ c' = Put(c, m, d)
    BY <1>1, <1>3, <2>1
  <2>3. Appended(c', c, m, d, m + 16)
    BY <1>6, <2>2, BlockPut
  <2>4. Appended(c', c, i * 16, d, (i + 1) * 16)
    BY <2>1, <2>3
  <2> QED BY <1>2, <1>6, <2>4, BlockAppended
<1>8. ta' \in Block
  <2>1. T[i] \in Block
    BY <1>2, <1>4 DEF JolteonEnciphered
  <2>2. XorBlock(ta, BlockAt(job.m, i)) \in Block
    BY <1>2, <1>4, <2>1, XorBlockFacts
  <2> QED BY <1>1, <1>3, <1>6, <1>7, <2>2, XorBlockFacts
<1>9. PICK U : U[0] = T[0] /\ U[i+1] = ta' /\ JolteonEnciphered(job, U, c', i + 1)
  <2>1. ta' = XorBlock(XorBlock(T[i], BlockAt(job.m, i)), BlockAt(c', i))
    BY <1>1, <1>3, <1>4
  <2>2. BlockAt(c', i) = Left(MessageAt(job, i), BlockAt(job.m, i))
    BY <1>5, <1>7
  <2>3. \E U : U[0] = T[0] /\ U[i+1] = ta' /\ JolteonEnciphered(job, U, c', i + 1)
    BY <1>2, <1>4, <1>7, <1>8, <2>1, <2>2, EncipheredMore
  <2> QED BY <2>3
<1>10. DOMAIN c' = 0..(i' * 16 - 1)
  BY <1>1, <1>7 DEF Appended
<1>11. EncState'
  BY <1>1, <1>3, <1>4, <1>9, <1>10 DEF EncState
<1>12. Admitted' /\ DecState'
  BY <1>1 DEF JolteonInv, SumInv, Admitted, JolteonMaxLength, DecState
<1> QED BY <1>11, <1>12 DEF SumInv

\* What is written at the end is found there.
LEMMA EndAdded ==
  ASSUME NEW m \in Nat, NEW n \in Nat, NEW b, NEW d,
         DOMAIN b = 0..(m - 1), DOMAIN d = 0..(n - 1)
  PROVE  /\ Appended(Put(b, m, d), b, m, d, m + n)
         /\ \A j \in 0..(n-1) : Put(b, m, d)[m + j] = d[j]
<1> DEFINE out == Put(b, m, d)
<1>1. Appended(out, b, m, d, m + n)
  BY PutAtEnd
<1> HIDE DEF out
<1>2. ASSUME NEW j \in 0..(n-1) PROVE out[m + j] = d[j]
  <2>1. \A l \in m..(m + n - 1) : out[l] = d[l - m]
    BY <1>1 DEF Appended
  <2>2. m + j \in m..(m + n - 1) /\ (m + j) - m = j
    OBVIOUS
  <2>3. out[m + j] = d[(m + j) - m]
    BY <2>1, <2>2
  <2> QED BY <2>2, <2>3
<1>3. \A j \in 0..(n-1) : out[m + j] = d[j]
  BY <1>2
<1> QED BY <1>1, <1>3 DEF out

LEMMA EncLastSums == ASSUME JolteonInv, JolteonEncLast PROVE SumInv'
<1> DEFINE last_m == XorBlock(Padded(recv.c, job.mlen), ta)
           d == XorBlock(Slice(recv.c, i * 16, LastLen), Right(MessageEnd, last_m))
<1>1. /\ side = "enc" /\ pc = "message" /\ pc' = "transit" /\ i = Before(job.mlen)
      /\ tag' = Left(MessageEnd, last_m) /\ c' = Put(c, i * 16, d)
      /\ side' = side /\ job' = job /\ recv' = recv /\ p' = p
  BY DEF JolteonEncLast, BlockLen
<1>2. i \in Nat /\ job.mlen \in Nat /\ job.mlen > 0 /\ LastLen \in Nat
  BY <1>1, MessageBlockFacts DEF JolteonInv
<1>3. /\ recv.c = job.m /\ recv.ad = job.ad /\ recv.npub = job.npub /\ p = Zeros(0)
      /\ DOMAIN c = 0..(i * 16 - 1)
  BY <1>1 DEF JolteonInv, SumInv, EncState
<1>4. PICK A, T : JolteonAdSummed(job, A, T[0]) /\ JolteonEnciphered(job, T, c, i) /\ ta = T[i]
  BY <1>1 DEF JolteonInv, SumInv, EncState
<1>5. last_m = LastBlock(job, T) /\ MessageEnd = MessageEndOf(job)
  BY <1>1, <1>3, <1>4, SameTweaks DEF LastBlock
<1>6. /\ DOMAIN d = 0..(LastLen - 1)
      /\ \A j \in 0..(LastLen - 1) :
           d[j] = job.m[i * 16 + j] (+) Right(MessageEndOf(job), LastBlock(job, T))[j]
  BY <1>3, <1>5 DEF XorBlock, Slice
<1> HIDE DEF last_m, d
<1>7. /\ \A q \in 0..(i-1) : BlockAt(c', q) = BlockAt(c, q)
      /\ \A j \in 0..(LastLen - 1) : c'[i * 16 + j] = d[j]
  <2>1. PICK n \in Nat, m \in Nat : n = LastLen /\ m = i * 16
    BY <1>2
  <2>2. DOMAIN d = 0..(n - 1) /\ DOMAIN c = 0..(m - 1)
    BY <1>3, <1>6, <2>1
  <2>3. /\ Appended(Put(c, m, d), c, m, d, m + n)
        /\ \A j \in 0..(n-1) : Put(c, m, d)[m + j] = d[j]
    BY <2>2, EndAdded
  <2>4. Appended(c', c, m, d, m + n) /\ \A j \in 0..(n-1) : c'[m + j] = d[j]
    BY <1>1, <2>1, <2>3
  <2>5. \A q \in 0..(i-1) : BlockAt(c', q) = BlockAt(c, q)
    <3>1. PICK k, e : k = i /\ k \in Nat /\ m = k * 16 /\ e = m + n
      BY <1>2, <2>1
    <3>2. Appended(c', c, m, d, e)
      BY <2>4, <3>1
    <3>3. \A q \in 0..(k-1) : BlockAt(c', q) = BlockAt(c, q)
      BY ONLY <3>1, <3>2, BlocksKept
    <3> QED BY ONLY <3>1, <3>3
  <2>6. \A j \in 0..(LastLen - 1) : c'[i * 16 + j] = d[j]
    BY ONLY <2>1, <2>4
  <2> QED BY <2>5, <2>6
<1>8. JolteonEnciphered(job, T, c', i)
  BY <1>4, <1>7 DEF JolteonEnciphered
<1>9. LastLen = job.mlen - Before(job.mlen) * 16
  BY DEF LastLen, BlockLen
<1>10. JolteonEnded(job, T, c', tag')
  BY <1>1, <1>5, <1>6, <1>7, <1>9 DEF JolteonEnded
<1>11. JolteonEncrypted(job, A, T, c', tag')
  BY <1>1, <1>2, <1>4, <1>8, <1>10 DEF JolteonEncrypted
<1>12. EncState'
  BY <1>1, <1>3, <1>11 DEF EncState
<1>13. Admitted' /\ DecState'
  BY <1>1 DEF JolteonInv, SumInv, Admitted, JolteonMaxLength, DecState
<1> QED BY <1>12, <1>13 DEF SumInv

LEMMA TransitSums == ASSUME JolteonInv, JolteonTransit PROVE SumInv'
<1>1. /\ pc = "transit" /\ pc' = "begin" /\ side' = "dec"
      /\ job' = job /\ p' = p /\ c' = c /\ tag' = tag
  BY DEF JolteonTransit
<1>2. side = "enc"
  BY <1>1 DEF JolteonInv, TweakInv
<1>3. PICK A, T : JolteonEncrypted(job, A, T, c, tag)
  BY <1>1, <1>2 DEF JolteonInv, SumInv, EncState
<1>4. p = Zeros(0)
  BY <1>2 DEF JolteonInv, SumInv, EncState
<1>5. Following(A, T)'
  BY <1>1, <1>4 DEF Following
<1>6. DecState'
  BY <1>1, <1>3, <1>5 DEF DecState
<1>7. Admitted' /\ EncState'
  BY <1>1 DEF JolteonInv, SumInv, Admitted, JolteonMaxLength, EncState
<1> QED BY <1>6, <1>7 DEF SumInv

LEMMA DecEmptySums == ASSUME JolteonInv, JolteonDecEmpty PROVE SumInv'
<1>1. /\ side = "dec" /\ pc = "empty" /\ pc' = "done"
      /\ ret' = (IF recv.tag = ta THEN "ok" ELSE "bad")
      /\ side' = side /\ job' = job /\ recv' = recv /\ p' = p /\ c' = c /\ tag' = tag
  BY DEF JolteonDecEmpty
<1>2. job.mlen = 0 /\ job.m \in Buffer(0)
  BY <1>1, JolteonJobFacts DEF JolteonInv, TweakInv, Within
<1>3. DecState'
  <2> SUFFICES ASSUME recv = Sent
               PROVE  \E A, T : JolteonEncrypted(job, A, T, c, tag) /\ Following(A, T)'
    BY <1>1 DEF DecState, Sent
  <2>1. PICK A, T : JolteonEncrypted(job, A, T, c, tag) /\ Following(A, T)
    BY <1>1 DEF JolteonInv, SumInv, DecState
  <2>2. p = Zeros(0) /\ ta = T[0] /\ recv.tag = T[0]
    BY <1>1, <1>2, <2>1 DEF Following, JolteonEncrypted, Sent
  <2>3. ret' = "ok" /\ p' = job'.m
    BY <1>1, <1>2, <2>2, ZerosFacts
  <2>4. Following(A, T)'
    BY <1>1, <2>3 DEF Following
  <2> QED BY <2>1, <2>4
<1>4. Admitted' /\ EncState'
  BY <1>1 DEF JolteonInv, SumInv, Admitted, JolteonMaxLength, EncState
<1> QED BY <1>3, <1>4 DEF SumInv

LEMMA DecBlockSums == ASSUME JolteonForks, JolteonInv, JolteonDecBlock PROVE SumInv'
<1> DEFINE d == Undo(MessageTweak, BlockAt(recv.c, i))
<1>1. /\ side = "dec" /\ pc = "message" /\ pc' = pc /\ i < Before(job.mlen) /\ i' = i + 1
      /\ p' = Put(p, i * 16, d)
      /\ ta' = XorBlock(XorBlock(ta, BlockAt(recv.c, i)), BlockAt(p', i))
      /\ side' = side /\ job' = job /\ recv' = recv /\ c' = c /\ tag' = tag
  BY DEF JolteonDecBlock, BlockLen
<1> HIDE DEF d
<1>2. /\ i \in Nat /\ BlockAt(job.m, i) \in Block /\ Before(job.mlen) \in Nat
      /\ job.mlen > 0
  BY <1>1, MessageBlockFacts DEF JolteonInv
<1>3. DecState'
  <2> SUFFICES ASSUME recv = Sent
               PROVE  \E A, T : JolteonEncrypted(job, A, T, c, tag) /\ Following(A, T)'
    BY <1>1 DEF DecState, Sent
  <2>1. PICK A, T : JolteonEncrypted(job, A, T, c, tag) /\ Following(A, T)
    BY <1>1 DEF JolteonInv, SumInv, DecState
  <2>2. ta = T[i] /\ DOMAIN p = 0..(i * 16 - 1) /\ \A j \in 0..(i * 16 - 1) : p[j] = job.m[j]
    BY <1>1, <2>1 DEF Following
  <2>3. /\ i \in 0..(Before(job.mlen) - 1)
        /\ JolteonEnciphered(job, T, c, Before(job.mlen))
    BY <1>1, <1>2, <2>1 DEF JolteonEncrypted
  <2>4. /\ BlockAt(c, i) = Left(MessageAt(job, i), BlockAt(job.m, i))
        /\ T[i+1] = XorBlock(XorBlock(T[i], BlockAt(job.m, i)), BlockAt(c, i))
    BY <2>3 DEF JolteonEnciphered
  <2>5. recv.c = c /\ recv.npub = job.npub
    BY DEF Sent
  <2>6. d = Undo(MessageAt(job, i), Left(MessageAt(job, i), BlockAt(job.m, i)))
    BY <2>4, <2>5, SameTweaks DEF d
  <2>7. d = BlockAt(job.m, i) /\ d \in Block
    BY <1>2, <2>6, ForkFacts DEF JolteonInv, TweakInv
  <2>8. Appended(p', p, i * 16, d, (i + 1) * 16) /\ BlockAt(p', i) = d
    <3>1. PICK m \in Nat : m = i * 16 /\ m + 16 = (i + 1) * 16
      BY <1>2
    <3>2. DOMAIN p = 0..(m - 1) /\ p' = Put(p, m, d)
      BY <1>1, <2>2, <3>1
    <3>3. Appended(p', p, m, d, m + 16)
      BY <2>7, <3>2, BlockPut
    <3>4. Appended(p', p, i * 16, d, (i + 1) * 16)
      BY <3>1, <3>3
    <3> QED BY <1>2, <2>7, <3>4, BlockAppended
  <2>9. ta' = T[i']
    BY <1>1, <2>2, <2>4, <2>5, <2>7, <2>8, XorBlockSwap
  <2>10. DOMAIN p' = 0..(i' * 16 - 1)
    BY <1>1, <2>8 DEF Appended
  <2>11. ASSUME NEW j \in 0..((i + 1) * 16 - 1) PROVE p'[j] = job.m[j]
    <3>1. CASE j < i * 16
      <4>1. j \in 0..(i * 16 - 1)
        BY <1>2, <3>1
      <4> QED BY <4>1, <2>2, <2>8 DEF Appended
    <3>2. CASE ~(j < i * 16)
      <4>1. j \in (i * 16)..((i + 1) * 16 - 1) /\ j - i * 16 \in 0..15
        BY <1>2, <3>2
      <4>2. p'[j] = d[j - i * 16]
        BY <4>1, <2>8 DEF Appended
      <4>3. d[j - i * 16] = job.m[i * 16 + (j - i * 16)]
        BY <4>1, <2>7 DEF BlockAt, Slice, BlockLen
      <4>4. i * 16 + (j - i * 16) = j
        BY <1>2
      <4> QED BY <4>2, <4>3, <4>4
    <3> QED BY <3>1, <3>2
  <2>12. Following(A, T)'
    BY <1>1, <2>9, <2>10, <2>11 DEF Following
  <2> QED BY <2>1, <2>12
<1>4. Admitted' /\ EncState'
  BY <1>1 DEF JolteonInv, SumInv, Admitted, JolteonMaxLength, EncState
<1> QED BY <1>3, <1>4 DEF SumInv

\* What the last block decrypts to is the end of the message with its padding.
LEMMA DecLastOpens ==
  ASSUME JolteonForks, JolteonInv, pc = "message", i = Before(job.mlen), recv = Sent,
         NEW T, ta = T[i], JolteonEnciphered(job, T, c, i), JolteonEnded(job, T, c, tag),
         NEW x, x = XorBlock(Undo(MessageEnd, recv.tag), ta)
  PROVE  x = Padded(job.m, job.mlen) /\ Good(x, Other(MessageEnd, recv.tag))
<1>1. /\ i \in Nat /\ job.mlen \in Nat /\ job.mlen > 0 /\ job.m \in Buffer(job.mlen)
      /\ Padded(job.m, job.mlen) \in Block /\ LastLen \in Nat
  BY MessageBlockFacts DEF JolteonInv
<1>2. recv.c = c /\ recv.tag = tag /\ recv.npub = job.npub
  BY DEF Sent
<1>3. MessageEnd = MessageEndOf(job) /\ recv.tag = Left(MessageEndOf(job), LastBlock(job, T))
  BY <1>2, SameTweaks DEF JolteonEnded
<1>4. T[i] \in Block
  BY <1>1 DEF JolteonEnciphered
<1>5. LastBlock(job, T) \in Block
  BY <1>1, <1>4, XorBlockFacts DEF LastBlock
<1>6. Undo(MessageEnd, recv.tag) = LastBlock(job, T)
  BY <1>1, <1>3, <1>5, ForkFacts DEF JolteonInv, TweakInv
<1>7. x = Padded(job.m, job.mlen)
  BY <1>1, <1>4, <1>6, XorBlockFacts DEF LastBlock
<1>8. LastLen = job.mlen - Before(job.mlen) * 16
  BY DEF LastLen, BlockLen
<1>9. ASSUME NEW j \in LastLen..(BlockLen - 1)
      PROVE  x[j] = IF j = LastLen THEN Pad ELSE Zero
  BY <1>1, <1>7, <1>8, PaddedFacts DEF BlockLen
<1>10. ASSUME NEW j \in 0..(LastLen - 1)
       PROVE  x[j] (+) Other(MessageEnd, recv.tag)[j] = recv.c[i * BlockLen + j]
  <2>1. x[j] = job.m[i * 16 + j]
    BY <1>1, <1>7, <1>8, PaddedFacts
  <2>2. c[i * 16 + j] = job.m[i * 16 + j] (+) Right(MessageEndOf(job), LastBlock(job, T))[j]
    BY <1>8 DEF JolteonEnded
  <2>3. Other(MessageEnd, recv.tag) = Right(MessageEndOf(job), LastBlock(job, T))
    BY <1>3, <1>6 DEF Other
  <2> QED BY <1>2, <2>1, <2>2, <2>3 DEF BlockLen
<1>11. Good(x, Other(MessageEnd, recv.tag))
  BY <1>9, <1>10 DEF Good
<1> QED BY <1>7, <1>11

LEMMA DecLastSums == ASSUME JolteonForks, JolteonInv, JolteonDecLast PROVE SumInv'
<1> DEFINE x == XorBlock(Undo(MessageEnd, recv.tag), ta)
           d == Slice(x, 0, LastLen)
<1>1. /\ side = "dec" /\ pc = "message" /\ pc' = "done" /\ i = Before(job.mlen)
      /\ p' = Put(p, i * 16, d)
      /\ ret' = (IF Good(x, Other(MessageEnd, recv.tag)) THEN "ok" ELSE "bad")
      /\ side' = side /\ job' = job /\ recv' = recv /\ c' = c /\ tag' = tag
  BY DEF JolteonDecLast, BlockLen
<1>2. /\ i \in Nat /\ job.mlen \in Nat /\ job.mlen > 0 /\ job.m \in Buffer(job.mlen)
      /\ LastLen \in Nat /\ i * 16 + LastLen = job.mlen
      /\ LastLen = job.mlen - Before(job.mlen) * 16
  BY <1>1, MessageBlockFacts DEF JolteonInv, LastLen, BlockLen
<1>3. DecState'
  <2> SUFFICES ASSUME recv = Sent
               PROVE  \E A, T : JolteonEncrypted(job, A, T, c, tag) /\ Following(A, T)'
    BY <1>1 DEF DecState, Sent
  <2>1. PICK A, T : JolteonEncrypted(job, A, T, c, tag) /\ Following(A, T)
    BY <1>1 DEF JolteonInv, SumInv, DecState
  <2>2. ta = T[i] /\ DOMAIN p = 0..(i * 16 - 1) /\ \A j \in 0..(i * 16 - 1) : p[j] = job.m[j]
    BY <1>1, <2>1 DEF Following
  <2>3. JolteonEnciphered(job, T, c, i) /\ JolteonEnded(job, T, c, tag)
    BY <1>1, <1>2, <2>1 DEF JolteonEncrypted
  <2>4. x = Padded(job.m, job.mlen) /\ Good(x, Other(MessageEnd, recv.tag))
    BY <1>1, <2>2, <2>3, DecLastOpens
  <2> HIDE DEF x
  <2>5. /\ DOMAIN d = 0..(LastLen - 1)
        /\ \A j \in 0..(LastLen - 1) : d[j] = x[j]
    BY DEF Slice
  <2> HIDE DEF d
  <2>6. PICK n \in Nat, m \in Nat : n = LastLen /\ m = i * 16
    BY <1>2
  <2>7. Appended(p', p, m, d, m + n) /\ \A j \in 0..(n-1) : p'[m + j] = d[j]
    <3>1. DOMAIN d = 0..(n - 1) /\ DOMAIN p = 0..(m - 1)
      BY <2>2, <2>5, <2>6
    <3>2. /\ Appended(Put(p, m, d), p, m, d, m + n)
          /\ \A j \in 0..(n-1) : Put(p, m, d)[m + j] = d[j]
      BY <3>1, EndAdded
    <3> QED BY <1>1, <2>6, <3>2
  <2>8. DOMAIN p' = 0..(job.mlen - 1) /\ p' = [j \in 0..(job.mlen - 1) |-> p'[j]]
    BY <1>2, <2>6, <2>7 DEF Appended
  <2>9. ASSUME NEW j \in 0..(job.mlen - 1) PROVE p'[j] = job.m[j]
    <3>1. CASE j < i * 16
      <4>1. j \in 0..(i * 16 - 1)
        BY <1>2, <3>1
      <4> QED BY <4>1, <2>2, <2>6, <2>7 DEF Appended
    <3>2. CASE ~(j < i * 16)
      <4>1. PICK l \in 0..(n-1) : l = j - i * 16 /\ j = i * 16 + l
        <5>1. j - i * 16 \in 0..(n-1) /\ j = i * 16 + (j - i * 16)
          BY <1>2, <2>6, <3>2
        <5> QED BY <5>1
      <4>2. p'[j] = x[l]
        BY <4>1, <2>5, <2>6, <2>7
      <4>3. x[l] = job.m[Before(job.mlen) * 16 + l]
        BY <1>2, <2>4, <2>6, PaddedFacts
      <4> QED BY <1>1, <4>1, <4>2, <4>3
    <3> QED BY <3>1, <3>2
  <2>10. p' = job.m
    <3>1. job.m = [j \in 0..(job.mlen - 1) |-> job.m[j]]
      BY <1>2 DEF Buffer
    <3> QED BY <2>8, <2>9, <3>1
  <2>11. Following(A, T)'
    BY <1>1, <2>4, <2>10 DEF Following
  <2> QED BY <2>1, <2>11
<1>4. Admitted' /\ EncState'
  BY <1>1 DEF JolteonInv, SumInv, Admitted, JolteonMaxLength, EncState
<1> QED BY <1>3, <1>4 DEF SumInv

LEMMA NextSums == ASSUME JolteonForks, JolteonInv, [JolteonNext]_jolteonVars PROVE SumInv'
<1>1. CASE JolteonNext
  BY <1>1, RefuseSums, BeginSums, AdBlockSums, AdLastSums, EncEmptySums, EncBlockSums,
     EncLastSums, TransitSums, DecEmptySums, DecBlockSums, DecLastSums DEF JolteonNext
<1>2. CASE UNCHANGED jolteonVars
  <2>1. Admitted' /\ EncState'
    BY <1>2 DEF jolteonVars, JolteonInv, SumInv, Admitted, EncState, JolteonMaxLength
  <2>2. DecState'
    BY <1>2 DEF jolteonVars, JolteonInv, SumInv, DecState, Following, Sent
  <2> QED BY <2>1, <2>2 DEF SumInv
<1> QED BY <1>1, <1>2

LEMMA JolteonInvGives == JolteonInv => RoundTrip
<1> SUFFICES ASSUME JolteonInv, pc = "done", side = "dec", recv = Sent PROVE ret = "ok" /\ p = job.m
  BY DEF RoundTrip
<1>1. PICK A, T : JolteonEncrypted(job, A, T, c, tag) /\ Following(A, T)
  BY DEF JolteonInv, SumInv, DecState
<1> QED BY <1>1 DEF Following

\* Over any fork cipher: what encryption returned decrypts to the message.
THEOREM JolteonInverts ==
  ASSUME JolteonForks
  PROVE  JolteonSpec => []RoundTrip
<1>1. JolteonInit => JolteonInv
  BY InitTweakInv, InitSums DEF JolteonInv
<1>2. JolteonInv /\ [JolteonNext]_jolteonVars => JolteonInv'
  BY NextTweakInv, NextSums DEF JolteonInv
<1> QED BY <1>1, <1>2, JolteonInvGives, PTL DEF JolteonSpec

(***************************************************************************)
(* The buffers of Jolteon                                                  *)
(***************************************************************************)
JolteonShape ==
  /\ job \in JolteonCalls /\ recv.npub \in Buffer(JolteonNonceSize)
  /\ Admitted /\ Shape

LEMMA InitJolteonShape == JolteonInit => JolteonShape
<1> SUFFICES ASSUME JolteonInit PROVE JolteonShape
  OBVIOUS
<1>1. /\ job \in JolteonCalls /\ pc = "begin" /\ side = "enc" /\ i = 0 /\ ret = "none"
      /\ recv.c = job.m /\ recv.ad = job.ad /\ recv.npub = job.npub
      /\ c = Zeros(0) /\ p = Zeros(0)
  BY DEF JolteonInit
<1>2. job.npub \in Buffer(JolteonNonceSize) /\ job.ad \in Buffer(job.adlen)
  BY <1>1, JolteonCallsAssumption
<1>3. DOMAIN Zeros(0) = 0..(0 - 1)
  BY DEF Zeros
<1> QED BY <1>1, <1>2, <1>3 DEF JolteonShape, Shape, Admitted, Within

LEMMA JolteonArgs == ASSUME JolteonShape PROVE Args
BY JolteonJobFacts DEF JolteonShape, Args

LEMMA NextJolteonShape ==
  ASSUME JolteonForks, JolteonShape, JolteonNext
  PROVE  JolteonShape'
<1>1. Shape /\ Args /\ Admitted /\ i \in Nat /\ recv.npub \in Buffer(JolteonNonceSize)
  BY JolteonArgs DEF JolteonShape, Shape
<1>2. CASE JolteonRefuse
  <2>1. /\ pc = "begin" /\ pc' = "done" /\ ret' = "refused"
        /\ UNCHANGED <<job, side, i, c, recv, p>>
        /\ job.mlen > JolteonMaxLength \/ job.adlen > JolteonMaxLength \/ (job.mlen = 0 /\ job.adlen = 0)
    BY <1>2 DEF JolteonRefuse
  <2>2. job.mlen \in Nat /\ job.adlen \in Nat /\ JolteonMaxLength \in Nat
    BY <1>1, JolteonCounterAssumption DEF Args, JolteonMaxLength, BlockLen
  <2>3. side = "enc"
    BY <1>1, <2>1, <2>2 DEF Shape, Admitted
  <2>4. Shape'
    BY <1>1, <2>1, <2>3, ShapeRefused
  <2> QED BY <2>1, <2>3, <2>4 DEF JolteonShape, Admitted
<1>3. CASE JolteonBegin
  <2>1. /\ pc = "begin" /\ pc' = (IF job.adlen > 0 THEN "ad" ELSE "message") /\ i' = 0
        /\ UNCHANGED <<job, side, c, recv, p, ret>>
        /\ job.mlen <= JolteonMaxLength /\ job.adlen <= JolteonMaxLength
        /\ job.mlen > 0 \/ job.adlen > 0
    BY <1>3 DEF JolteonBegin
  <2>2. Shape'
    BY <1>1, <2>1, ShapeBegun
  <2> QED BY <2>1, <2>2 DEF JolteonShape, Admitted, JolteonMaxLength
<1>4. CASE JolteonAdBlock
  <2>1. /\ pc = "ad" /\ i < Before(job.adlen) /\ i' = i + 1
        /\ UNCHANGED <<job, pc, side, c, recv, p, ret>>
    BY <1>4 DEF JolteonAdBlock
  <2>2. Shape'
    BY <1>1, <2>1, ShapeAdBlock
  <2> QED BY <2>1, <2>2 DEF JolteonShape, Admitted, JolteonMaxLength
<1>5. CASE JolteonAdLast
  <2>1. /\ pc = "ad" /\ pc' = (IF job.mlen = 0 THEN "empty" ELSE "message") /\ i' = 0
        /\ UNCHANGED <<job, side, c, recv, p, ret>>
    BY <1>5 DEF JolteonAdLast
  <2>2. Shape'
    BY <1>1, <2>1, ShapeAdLast
  <2> QED BY <2>1, <2>2 DEF JolteonShape, Admitted, JolteonMaxLength
<1>6. CASE JolteonEncEmpty
  <2>1. /\ side = "enc" /\ pc = "empty" /\ pc' = "transit"
        /\ UNCHANGED <<job, side, i, c, recv, p, ret>>
    BY <1>6 DEF JolteonEncEmpty
  <2>2. Shape'
    BY <1>1, <2>1, ShapeEncEmpty
  <2> QED BY <2>1, <2>2 DEF JolteonShape, Admitted, JolteonMaxLength
<1>7. CASE JolteonEncBlock
  <2> DEFINE d == Left(MessageTweak, BlockAt(recv.c, i))
  <2>1. /\ side = "enc" /\ pc = "message" /\ i < Before(job.mlen) /\ i' = i + 1
        /\ c' = Put(c, i * 16, d)
        /\ UNCHANGED <<job, pc, side, recv, p, ret>>
    BY <1>7 DEF JolteonEncBlock, BlockLen
  <2>2. d \in Block
    BY <1>1, <2>1, ShapeBlocks, TweakForks
  <2> HIDE DEF d
  <2>3. Shape'
    BY <1>1, <2>1, <2>2, ShapeEncBlock
  <2> QED BY <2>1, <2>3 DEF JolteonShape, Admitted, JolteonMaxLength
<1>8. CASE JolteonEncLast
  <2> DEFINE d == XorBlock(Slice(recv.c, i * 16, LastLen),
                           Right(MessageEnd, XorBlock(Padded(recv.c, job.mlen), ta)))
  <2>1. /\ side = "enc" /\ pc = "message" /\ i = Before(job.mlen) /\ pc' = "transit"
        /\ c' = Put(c, i * 16, d)
        /\ UNCHANGED <<job, side, i, recv, p, ret>>
    BY <1>8 DEF JolteonEncLast, BlockLen
  <2>2. DOMAIN d = 0..(LastLen - 1)
    BY DEF XorBlock, Slice
  <2> HIDE DEF d
  <2>3. Shape'
    BY <1>1, <2>1, <2>2, ShapeEncLast
  <2> QED BY <2>1, <2>3 DEF JolteonShape, Admitted, JolteonMaxLength
<1>9. CASE JolteonTransit
  <2>1. /\ pc = "transit" /\ pc' = "begin" /\ side' = "dec"
        /\ UNCHANGED <<job, i, c, p, ret>>
    BY <1>9 DEF JolteonTransit
  <2>2. PICK x : x = recv' /\ x \in Arrived
    BY <1>9 DEF JolteonTransit, Arrived
  <2>3. job.npub \in Buffer(JolteonNonceSize)
    BY JolteonCallsAssumption DEF JolteonShape
  <2>4. x.npub \in Buffer(JolteonNonceSize)
    <3>1. x.npub = job.npub \/ \E j \in DOMAIN job.npub : x.npub = Flip(job.npub, j)
      BY <2>2, ArrivedFacts
    <3>2. \A j \in DOMAIN job.npub : Flip(job.npub, j) \in Buffer(JolteonNonceSize)
      BY <2>3, FlipFacts
    <3> QED BY <2>3, <3>1, <3>2
  <2>5. Shape'
    BY <1>1, <2>1, <2>2, ShapeTransit
  <2> QED BY <2>1, <2>2, <2>4, <2>5 DEF JolteonShape, Admitted, JolteonMaxLength
<1>10. CASE JolteonDecEmpty
  <2>1. /\ side = "dec" /\ pc = "empty" /\ pc' = "done" /\ ret' \in {"ok", "bad"}
        /\ UNCHANGED <<job, side, i, c, recv, p>>
    BY <1>10 DEF JolteonDecEmpty
  <2>2. Shape'
    BY <1>1, <2>1, ShapeDecEmpty
  <2> QED BY <2>1, <2>2 DEF JolteonShape, Admitted, JolteonMaxLength
<1>11. CASE JolteonDecBlock
  <2> DEFINE d == Undo(MessageTweak, BlockAt(recv.c, i))
  <2>1. /\ side = "dec" /\ pc = "message" /\ i < Before(job.mlen) /\ i' = i + 1
        /\ p' = Put(p, i * 16, d)
        /\ UNCHANGED <<job, pc, side, c, recv, ret>>
    BY <1>11 DEF JolteonDecBlock, BlockLen
  <2>2. d \in Block
    BY <1>1, <2>1, ShapeBlocks, TweakForks
  <2> HIDE DEF d
  <2>3. DOMAIN d = 0..15
    BY <2>2, BlockBytes
  <2>4. Shape'
    BY <1>1, <2>1, <2>3, ShapeDecBlock
  <2> QED BY <2>1, <2>4 DEF JolteonShape, Admitted, JolteonMaxLength
<1>12. CASE JolteonDecLast
  <2> DEFINE d == Slice(XorBlock(Undo(MessageEnd, recv.tag), ta), 0, LastLen)
  <2>1. /\ side = "dec" /\ pc = "message" /\ i = Before(job.mlen) /\ pc' = "done"
        /\ p' = Put(p, i * 16, d) /\ ret' \in {"ok", "bad"}
        /\ UNCHANGED <<job, side, i, c, recv>>
    BY <1>12 DEF JolteonDecLast, BlockLen
  <2>2. DOMAIN d = 0..(LastLen - 1)
    BY DEF Slice
  <2> HIDE DEF d
  <2>3. Shape'
    BY <1>1, <2>1, <2>2, ShapeDecLast
  <2> QED BY <2>1, <2>3 DEF JolteonShape, Admitted, JolteonMaxLength
<1> QED BY <1>2, <1>3, <1>4, <1>5, <1>6, <1>7, <1>8, <1>9, <1>10, <1>11, <1>12
        DEF JolteonNext, JolteonShape

LEMMA StepJolteonShape ==
  ASSUME JolteonForks, JolteonShape, [JolteonNext]_jolteonVars
  PROVE  JolteonShape'
<1>1. CASE UNCHANGED jolteonVars
  BY <1>1 DEF jolteonVars, JolteonShape, Shape, Admitted, Within, BytesTo, Before, JolteonMaxLength
<1> QED BY <1>1, NextJolteonShape

LEMMA JolteonShapeGives == JolteonShape => JolteonTypeOK
BY ShapeDomains DEF JolteonShape, Shape, JolteonTypeOK

\* Over any fork cipher: the loops of jolteon_core.c keep to the buffers, and what
\* has been written of them is what the stage says.
THEOREM JolteonTypeCorrect ==
  ASSUME JolteonForks
  PROVE  JolteonSpec => []JolteonTypeOK
BY InitJolteonShape, StepJolteonShape, JolteonShapeGives, PTL DEF JolteonSpec

(***************************************************************************)
(* The tweakeys of Espeon, of both widths and any nonce                    *)
(***************************************************************************)
NonceLenOf(wide) == IF wide THEN 16 ELSE 13
TkLenOf(wide)    == IF wide THEN 32 ELSE 16

AdTweakOf(wide, npub, w) ==
  IF wide THEN Put(Put(Zeros(BlockLen), 13, Suffix(w)), BlockLen, npub)
          ELSE Put(npub, 13, Suffix(w))
FirstTkOf(wide, npub) ==
  IF wide THEN Put(npub, BlockLen, [Zeros(BlockLen) EXCEPT ![14] = NumByte(4)])
          ELSE Put(npub, 13, [Zeros(3) EXCEPT ![2] = One])
ChainOf(wide, npub, cipher, b) ==
  LET before == IF b = 0 THEN npub ELSE BlockAt(cipher, b - 1)
  IN  IF wide THEN Put(Put(BlockAt(cipher, b), BlockLen, Slice(before, 0, BlockLen - 1)),
                       2 * BlockLen - 1, [j \in {0} |-> One])
      ELSE Put(Slice(cipher, b * BlockLen, BlockLen - 1), BlockLen - 1, [j \in {0} |-> One])
LastOf(wide, t, mark) == [t EXCEPT ![IF wide THEN 2 * BlockLen - 1 ELSE BlockLen - 1] = mark]

Marks == {NumByte(2), NumByte(3)}
MarkOf(len) == IF Complete(len) THEN NumByte(2) ELSE NumByte(3)

LEMMA EspeonTweaksAre ==
  /\ \A w : EspeonAdTweak(w) = AdTweakOf(Wide, recv.npub, w)
  /\ FirstTweak = FirstTkOf(Wide, recv.npub)
  /\ \A cipher, b : Chained(cipher, b) = ChainOf(Wide, recv.npub, cipher, b)
  /\ LastTweak = LastOf(Wide, tk, MarkOf(job.mlen))
<1>1. \A w : EspeonAdTweak(w) = AdTweakOf(Wide, recv.npub, w)
  BY DEF EspeonAdTweak, AdTweakOf
<1>2. FirstTweak = FirstTkOf(Wide, recv.npub)
  BY DEF FirstTweak, FirstTkOf
<1>3. \A cipher, b : Chained(cipher, b) = ChainOf(Wide, recv.npub, cipher, b)
  BY DEF Chained, ChainOf
<1>4. LastTweak = LastOf(Wide, tk, MarkOf(job.mlen))
  BY DEF LastTweak, LastOf, MarkOf
<1> QED BY <1>1, <1>2, <1>3, <1>4

\* A buffer that is written behind another.
LEMMA BufferPut ==
  ASSUME NEW k \in Nat, NEW n \in Nat, NEW b \in Buffer(k), NEW d \in Buffer(n), NEW m, m = k + n
  PROVE  /\ Put(b, k, d) \in Buffer(m)
         /\ \A j \in 0..(k-1) : Put(b, k, d)[j] = b[j]
         /\ \A j \in k..(m-1) : Put(b, k, d)[j] = d[j - k]
<1> DEFINE out == Put(b, k, d)
<1>1. DOMAIN b = 0..(k-1) /\ DOMAIN d = 0..(n-1)
  BY DEF Buffer
<1>2. Appended(out, b, k, d, m)
  BY <1>1, PutAtEnd
<1> HIDE DEF out
<1>3. ASSUME NEW j \in 0..(m-1) PROVE out[j] \in Byte
  <2>1. CASE j < k
    <3>1. j \in 0..(k-1)
      BY <2>1
    <3> QED BY <3>1, <1>2 DEF Appended, Buffer
  <2>2. CASE ~(j < k)
    <3>1. j \in k..(m-1) /\ j - k \in 0..(n-1)
      BY <2>2
    <3> QED BY <3>1, <1>2 DEF Appended, Buffer
  <2> QED BY <2>1, <2>2
<1>4. out \in Buffer(m)
  BY <1>2, <1>3 DEF Appended, Buffer
<1> QED BY <1>2, <1>4 DEF Appended, out

LEMMA ByteFacts == Zero \in Byte /\ One \in Byte /\ Pad \in Byte /\ \A v : NumByte(v) \in Byte
BY DEF Zero, One, Pad, Byte, Bits, NumByte

LEMMA SuffixFacts ==
  ASSUME NEW w
  PROVE  /\ Suffix(w) \in Buffer(3)
         /\ Suffix(w)[0] = NumByte((w \div 256) % 256) /\ Suffix(w)[1] = NumByte(w % 256)
         /\ Suffix(w)[2] = Zero
<1>1. Suffix(w) = [j \in 0..2 |-> CASE j = 0 -> NumByte((w \div 256) % 256)
                                    [] j = 1 -> NumByte(w % 256)
                                    [] j = 2 -> Zero]
  BY DEF Suffix
<1> DEFINE hi == NumByte((w \div 256) % 256)
           lo == NumByte(w % 256)
<1>2. hi \in Byte /\ lo \in Byte /\ Zero \in Byte
  BY ByteFacts
<1> HIDE DEF hi, lo
<1>3. Suffix(w) = [j \in 0..2 |-> CASE j = 0 -> hi [] j = 1 -> lo [] j = 2 -> Zero]
  BY <1>1 DEF hi, lo
<1>4. 0 \in 0..2 /\ 1 \in 0..2 /\ 2 \in 0..2 /\ 0 # 1 /\ 1 # 2 /\ 0 # 2
  OBVIOUS
<1>5. /\ Suffix(w)[0] = CASE 0 = 0 -> hi [] 0 = 1 -> lo [] 0 = 2 -> Zero
      /\ Suffix(w)[1] = CASE 1 = 0 -> hi [] 1 = 1 -> lo [] 1 = 2 -> Zero
      /\ Suffix(w)[2] = CASE 2 = 0 -> hi [] 2 = 1 -> lo [] 2 = 2 -> Zero
  BY <1>3, <1>4, Zenon
<1>6. Suffix(w)[0] = hi /\ Suffix(w)[1] = lo /\ Suffix(w)[2] = Zero
  BY <1>5
<1>7. \A j \in 0..2 : j = 0 \/ j = 1 \/ j = 2
  OBVIOUS
<1>8. \A j \in 0..2 : Suffix(w)[j] \in Byte
  BY <1>2, <1>6, <1>7
<1>9. DOMAIN Suffix(w) = 0..2 /\ Suffix(w) = [j \in 0..2 |-> Suffix(w)[j]]
  BY <1>3, Zenon
<1>10. Suffix(w) \in Buffer(3)
  BY <1>8, <1>9 DEF Buffer
<1> QED BY <1>6, <1>10 DEF hi, lo

\* The counter is in the same bytes of either width; the last byte is the nonce's
\* or zero.
LEMMA AdTweakFacts ==
  ASSUME NEW wide \in BOOLEAN, NEW npub \in Buffer(NonceLenOf(wide)), NEW w
  PROVE  /\ AdTweakOf(wide, npub, w) \in Buffer(TkLenOf(wide))
         /\ AdTweakOf(wide, npub, w)[13] = NumByte((w \div 256) % 256)
         /\ AdTweakOf(wide, npub, w)[14] = NumByte(w % 256)
         /\ AdTweakOf(wide, npub, w)[TkLenOf(wide) - 1] = IF wide THEN npub[15] ELSE Zero
<1> DEFINE s == Suffix(w)
<1>1. /\ s \in Buffer(3) /\ s[0] = NumByte((w \div 256) % 256) /\ s[1] = NumByte(w % 256)
      /\ s[2] = Zero
  BY SuffixFacts
<1> HIDE DEF s
<1>2. CASE wide
  <2> DEFINE z == Put(Zeros(BlockLen), 13, s)
  <2>1. DOMAIN Zeros(BlockLen) = 0..15 /\ \A j \in 0..15 : Zeros(BlockLen)[j] = Zero
    BY DEF Zeros, BlockLen
  <2>2. DOMAIN s = 0..2 /\ \A j \in 0..2 : s[j] \in Byte
    BY <1>1 DEF Buffer
  <2>3. (0..15) \cup {13 + l : l \in 0..2} = 0..15
    OBVIOUS
  <2>4. z = [j \in 0..15 |-> IF (j - 13) \in 0..2 THEN s[j - 13] ELSE Zeros(BlockLen)[j]]
    BY <2>1, <2>2, <2>3 DEF Put
  <2>5. ASSUME NEW j \in 0..15 PROVE z[j] \in Byte
    BY <2>1, <2>2, <2>4, ByteFacts
  <2>6. z[13] = s[0] /\ z[14] = s[1] /\ z = [j \in 0..15 |-> z[j]]
    <3>1. 13 - 13 = 0 /\ 14 - 13 = 1
      OBVIOUS
    <3> QED BY <2>4, <3>1
  <2> HIDE DEF z
  <2>7. z \in Buffer(16)
    BY <2>5, <2>6 DEF Buffer
  <2>8. npub \in Buffer(16)
    BY <1>2 DEF NonceLenOf
  <2>9. AdTweakOf(wide, npub, w) = Put(z, 16, npub)
    BY <1>2 DEF AdTweakOf, BlockLen, z, s
  <2>10. /\ Put(z, 16, npub) \in Buffer(32)
         /\ \A j \in 0..15 : Put(z, 16, npub)[j] = z[j]
         /\ \A j \in 16..31 : Put(z, 16, npub)[j] = npub[j - 16]
    <3>1. PICK k \in Nat, n \in Nat, m \in Nat : k = 16 /\ n = 16 /\ m = k + n /\ m = 32
      OBVIOUS
    <3>2. z \in Buffer(k) /\ npub \in Buffer(n)
      BY <2>7, <2>8, <3>1
    <3>3. /\ Put(z, k, npub) \in Buffer(m)
          /\ \A j \in 0..(k-1) : Put(z, k, npub)[j] = z[j]
          /\ \A j \in k..(m-1) : Put(z, k, npub)[j] = npub[j - k]
      <4>1. m = k + n
        BY <3>1
      <4> QED BY ONLY <3>2, <4>1, k \in Nat, n \in Nat, BufferPut
    <3> QED BY <3>1, <3>3
  <2>11. Put(z, 16, npub)[31] = npub[15]
    <3>1. 31 \in 16..31 /\ 31 - 16 = 15
      OBVIOUS
    <3> QED BY <2>10, <3>1
  <2>12. TkLenOf(wide) = 32 /\ TkLenOf(wide) - 1 = 31 /\ 13 \in 0..15 /\ 14 \in 0..15
    BY <1>2 DEF TkLenOf
  <2>13. Put(z, 16, npub)[13] = z[13] /\ Put(z, 16, npub)[14] = z[14]
    BY <2>10, <2>12
  <2> QED BY <1>1, <1>2, <2>6, <2>9, <2>10, <2>11, <2>12, <2>13
<1>3. CASE ~wide
  <2>1. npub \in Buffer(13)
    BY <1>3 DEF NonceLenOf
  <2>2. AdTweakOf(wide, npub, w) = Put(npub, 13, s)
    BY <1>3 DEF AdTweakOf, s
  <2>3. /\ Put(npub, 13, s) \in Buffer(16)
        /\ \A j \in 13..15 : Put(npub, 13, s)[j] = s[j - 13]
    <3>1. PICK k \in Nat, n \in Nat, m \in Nat : k = 13 /\ n = 3 /\ m = k + n
      OBVIOUS
    <3>2. npub \in Buffer(k) /\ s \in Buffer(n)
      BY <1>1, <2>1, <3>1
    <3>3. /\ Put(npub, k, s) \in Buffer(m)
          /\ \A j \in k..(m-1) : Put(npub, k, s)[j] = s[j - k]
      BY <3>1, <3>2, BufferPut
    <3> QED BY <3>1, <3>3
  <2>4. 13 - 13 = 0 /\ 14 - 13 = 1 /\ 15 - 13 = 2
    OBVIOUS
  <2> QED BY <1>1, <1>3, <2>2, <2>3, <2>4 DEF TkLenOf
<1> QED BY <1>2, <1>3

LEMMA FirstFacts ==
  ASSUME NEW wide \in BOOLEAN, NEW npub \in Buffer(NonceLenOf(wide))
  PROVE  /\ FirstTkOf(wide, npub) \in Buffer(TkLenOf(wide))
         /\ FirstTkOf(wide, npub)[TkLenOf(wide) - 1] = IF wide THEN Zero ELSE One
<1>1. CASE wide
  <2> DEFINE d == [Zeros(BlockLen) EXCEPT ![14] = NumByte(4)]
  <2>1. d \in Buffer(16) /\ d[15] = Zero
    BY ByteFacts DEF Zeros, BlockLen, Buffer
  <2>2. FirstTkOf(wide, npub) = Put(npub, 16, d)
    BY <1>1 DEF FirstTkOf, BlockLen
  <2> HIDE DEF d
  <2>3. PICK k \in Nat, n \in Nat, m \in Nat : k = 16 /\ n = 16 /\ m = k + n
    OBVIOUS
  <2>4. npub \in Buffer(k) /\ d \in Buffer(n)
    BY <1>1, <2>1, <2>3 DEF NonceLenOf
  <2>5. /\ Put(npub, k, d) \in Buffer(m)
        /\ \A j \in k..(m-1) : Put(npub, k, d)[j] = d[j - k]
    <3>1. m = k + n
      BY <2>3
    <3> QED BY ONLY <2>4, <3>1, k \in Nat, n \in Nat, BufferPut
  <2>6. 31 \in k..(m-1) /\ 31 - k = 15 /\ m = 32
    BY <2>3
  <2>7. Put(npub, k, d)[31] = d[15]
    BY <2>5, <2>6
  <2>8. TkLenOf(wide) = 32 /\ TkLenOf(wide) - 1 = 31
    BY <1>1 DEF TkLenOf
  <2> QED BY <1>1, <2>1, <2>2, <2>3, <2>5, <2>6, <2>7, <2>8
<1>2. CASE ~wide
  <2> DEFINE d == [Zeros(3) EXCEPT ![2] = One]
  <2>1. d \in Buffer(3) /\ d[2] = One
    BY ByteFacts DEF Zeros, Buffer
  <2>2. FirstTkOf(wide, npub) = Put(npub, 13, d)
    BY <1>2 DEF FirstTkOf
  <2> HIDE DEF d
  <2>3. PICK k \in Nat, n \in Nat, m \in Nat : k = 13 /\ n = 3 /\ m = k + n
    OBVIOUS
  <2>4. npub \in Buffer(k) /\ d \in Buffer(n)
    BY <1>2, <2>1, <2>3 DEF NonceLenOf
  <2>5. /\ Put(npub, k, d) \in Buffer(m)
        /\ \A j \in k..(m-1) : Put(npub, k, d)[j] = d[j - k]
    BY <2>3, <2>4, BufferPut
  <2>6. 15 \in k..(m-1) /\ 15 - k = 2 /\ m = 16
    BY <2>3
  <2>7. Put(npub, k, d)[15] = d[2]
    BY <2>5, <2>6
  <2> QED BY <1>2, <2>1, <2>2, <2>3, <2>5, <2>6, <2>7 DEF TkLenOf
<1> QED BY <1>1, <1>2

LEMMA ChainFacts ==
  ASSUME NEW wide \in BOOLEAN, NEW npub \in Buffer(NonceLenOf(wide)), NEW b \in Nat,
         NEW cipher, BlockAt(cipher, b) \in Block, b > 0 => BlockAt(cipher, b - 1) \in Block
  PROVE  /\ ChainOf(wide, npub, cipher, b) \in Buffer(TkLenOf(wide))
         /\ ChainOf(wide, npub, cipher, b)[TkLenOf(wide) - 1] = One
<1> DEFINE mark == [j \in {0} |-> One]
<1>1. mark \in Buffer(1) /\ mark[0] = One
  <2>1. 0..(1 - 1) = {0}
    OBVIOUS
  <2> QED BY <2>1, ByteFacts DEF Buffer
<1> HIDE DEF mark
<1>2. CASE wide
  <2> DEFINE before == IF b = 0 THEN npub ELSE BlockAt(cipher, b - 1)
             s == Slice(before, 0, BlockLen - 1)
             d == BlockAt(cipher, b)
  <2>1. before \in Buffer(16)
    BY <1>2 DEF NonceLenOf, Block, BlockLen
  <2>2. ChainOf(wide, npub, cipher, b) = Put(Put(d, 16, s), 31, mark)
    BY <1>2 DEF ChainOf, BlockLen, mark
  <2> HIDE DEF before
  <2>3. s \in Buffer(15)
    <3>1. \A j \in 0..(15 - 1) : 0 + j \in 0..(16 - 1)
      OBVIOUS
    <3>2. \A j \in 0..(15 - 1) : before[0 + j] \in Byte
      BY <2>1, <3>1 DEF Buffer
    <3> QED BY <3>2 DEF Slice, BlockLen, Buffer
  <2>4. d \in Buffer(16)
    BY DEF Block, BlockLen
  <2> HIDE DEF s, d
  <2>5. PICK k \in Nat, n \in Nat, l \in Nat, o \in Nat, m \in Nat :
          k = 16 /\ n = 15 /\ l = 1 /\ o = k + n /\ m = o + l /\ o = 31 /\ m = 32
    OBVIOUS
  <2>6. Put(d, k, s) \in Buffer(o)
    BY <2>3, <2>4, <2>5, BufferPut
  <2>7. PICK e : e = Put(d, k, s)
    OBVIOUS
  <2>8. e \in Buffer(o) /\ mark \in Buffer(l)
    BY <1>1, <2>5, <2>6, <2>7
  <2>9. /\ Put(e, o, mark) \in Buffer(m)
        /\ \A j \in o..(m-1) : Put(e, o, mark)[j] = mark[j - o]
    BY <2>5, <2>8, BufferPut
  <2>10. o \in o..(m-1) /\ o - o = 0
    BY <2>5
  <2>11. Put(e, o, mark)[o] = One
    BY <1>1, <2>9, <2>10
  <2>12. TkLenOf(wide) = m /\ TkLenOf(wide) - 1 = o
    BY <1>2, <2>5 DEF TkLenOf
  <2>13. ChainOf(wide, npub, cipher, b) = Put(e, o, mark)
    BY <2>2, <2>5, <2>7
  <2> QED BY <2>9, <2>11, <2>12, <2>13
<1>3. CASE ~wide
  <2> DEFINE s == Slice(cipher, b * BlockLen, BlockLen - 1)
  <2>1. ChainOf(wide, npub, cipher, b) = Put(s, 15, mark)
    BY <1>3 DEF ChainOf, BlockLen, mark
  <2>2. s \in Buffer(15)
    <3>1. \A j \in 0..15 : cipher[b * 16 + j] \in Byte
      <4>1. BlockAt(cipher, b) = [j \in 0..15 |-> cipher[b * 16 + j]]
        BY DEF BlockAt, Slice, BlockLen
      <4>2. Block = [0..15 -> Byte]
        BY DEF Block, Buffer, BlockLen
      <4> QED BY <4>1, <4>2
    <3>2. \A j \in 0..(15 - 1) : cipher[b * 16 + j] \in Byte
      BY <3>1
    <3> QED BY <3>2 DEF Slice, BlockLen, Buffer
  <2> HIDE DEF s
  <2>3. PICK o \in Nat, l \in Nat, m \in Nat : o = 15 /\ l = 1 /\ m = o + l /\ m = 16
    OBVIOUS
  <2>4. s \in Buffer(o) /\ mark \in Buffer(l)
    BY <1>1, <2>2, <2>3
  <2>5. /\ Put(s, o, mark) \in Buffer(m)
        /\ \A j \in o..(m-1) : Put(s, o, mark)[j] = mark[j - o]
    BY <2>3, <2>4, BufferPut
  <2>6. o \in o..(m-1) /\ o - o = 0
    BY <2>3
  <2>7. Put(s, o, mark)[o] = One
    BY <1>1, <2>5, <2>6
  <2> QED BY <1>3, <2>1, <2>3, <2>5, <2>7 DEF TkLenOf
<1> QED BY <1>2, <1>3

LEMMA LastFacts ==
  ASSUME NEW wide \in BOOLEAN, NEW t \in Buffer(TkLenOf(wide)), NEW mark \in Marks
  PROVE  /\ LastOf(wide, t, mark) \in Buffer(TkLenOf(wide))
         /\ LastOf(wide, t, mark)[TkLenOf(wide) - 1] = mark
<1>1. mark \in Byte
  BY ByteFacts DEF Marks
<1>2. CASE wide
  BY <1>1, <1>2 DEF LastOf, TkLenOf, Buffer, BlockLen
<1>3. CASE ~wide
  BY <1>1, <1>3 DEF LastOf, TkLenOf, Buffer, BlockLen
<1> QED BY <1>2, <1>3

LEMMA MarkFacts == \A len : MarkOf(len) \in Marks
BY DEF MarkOf, Marks

(***************************************************************************)
(* The buffers of Espeon                                                   *)
(***************************************************************************)
\* A fork cipher under tweaks of either width.
EspeonForks == Forks(Buffer(16) \cup Buffer(32))

LEMMA EspeonTkForks ==
  ASSUME EspeonForks, NEW wide \in BOOLEAN, NEW t \in Buffer(TkLenOf(wide)), NEW x \in Block
  PROVE  Left(t, x) \in Block /\ Undo(t, x) \in Block /\ Undo(t, Left(t, x)) = x
<1>1. t \in Buffer(16) \cup Buffer(32)
  BY DEF TkLenOf
<1> QED BY <1>1 DEF EspeonForks, Forks

LEMMA EspeonJobFacts ==
  ASSUME job \in EspeonCalls
  PROVE  Args /\ Wide \in BOOLEAN /\ job.npub \in Buffer(NonceLenOf(Wide))
<1>1. job.instance \in {384, 256} /\ job.npub \in Buffer(NonceSize(job.instance))
  BY EspeonCallsAssumption
<1>2. Args
  BY EspeonCallsAssumption DEF Args
<1>3. NonceSize(job.instance) = NonceLenOf(Wide)
  BY <1>1 DEF NonceSize, NonceLenOf, Wide
<1> QED BY <1>1, <1>2, <1>3 DEF Wide

\* Who has begun was not refused, and is not refused later.
EspeonAdmitted ==
  side = "dec" \/ pc \notin {"begin", "done"} =>
    /\ job.adlen <= EspeonMaxLength
    /\ job.mlen > 0 \/ job.adlen > 0

\* From the beginning of a function on its tweakey is one of the instance's width.
TkShape ==
  /\ recv.npub \in Buffer(NonceLenOf(Wide))
  /\ ta \in Block
  /\ tk = Zeros(0) \/ tk \in Buffer(TkLenOf(Wide))
  /\ pc \in {"ad", "message", "empty"} => tk \in Buffer(TkLenOf(Wide))

EspeonShape == job \in EspeonCalls /\ EspeonAdmitted /\ TkShape /\ Shape

LEMMA InitEspeonShape == EspeonInit => EspeonShape
<1> SUFFICES ASSUME EspeonInit PROVE EspeonShape
  OBVIOUS
<1>1. /\ job \in EspeonCalls /\ pc = "begin" /\ side = "enc" /\ i = 0 /\ ret = "none"
      /\ recv.c = job.m /\ recv.ad = job.ad /\ recv.npub = job.npub
      /\ c = Zeros(0) /\ p = Zeros(0) /\ ta = Zeros(BlockLen) /\ tk = Zeros(0)
  BY DEF EspeonInit
<1>2. job.npub \in Buffer(NonceLenOf(Wide)) /\ job.ad \in Buffer(job.adlen)
  BY <1>1, EspeonJobFacts DEF Args
<1>3. DOMAIN Zeros(0) = 0..(0 - 1)
  BY DEF Zeros
<1> QED BY <1>1, <1>2, <1>3, ZerosFacts DEF EspeonShape, TkShape, Shape, EspeonAdmitted, Within

\* A step that leaves the arguments and the nonce alone.
LEMMA TkStep ==
  ASSUME TkShape, UNCHANGED <<job, recv>>, ta' \in Block, tk' \in Buffer(TkLenOf(Wide))
  PROVE  TkShape'
BY DEF TkShape, Wide

LEMMA NextEspeonShape ==
  ASSUME EspeonForks, EspeonShape, EspeonNext
  PROVE  EspeonShape'
<1>1. /\ Shape /\ TkShape /\ EspeonAdmitted /\ i \in Nat /\ job \in EspeonCalls
      /\ Wide \in BOOLEAN /\ Args
  BY EspeonJobFacts DEF EspeonShape, Shape
<1>2. recv.npub \in Buffer(NonceLenOf(Wide)) /\ ta \in Block
  BY <1>1 DEF TkShape
<1>3. CASE EspeonRefuse
  <2>1. /\ pc = "begin" /\ pc' = "done" /\ ret' = "refused"
        /\ UNCHANGED <<job, side, i, c, recv, p>> /\ UNCHANGED <<ta, tk>>
        /\ job.adlen > EspeonMaxLength \/ (job.mlen = 0 /\ job.adlen = 0)
    BY <1>3 DEF EspeonRefuse
  <2>2. job.mlen \in Nat /\ job.adlen \in Nat /\ EspeonMaxLength \in Nat
    <3>1. EspeonCounterSize \in Nat
      BY EspeonCounterAssumption
    <3> QED BY <1>1, <3>1 DEF Args, EspeonMaxLength, BlockLen
  <2>3. side = "enc"
    BY <1>1, <2>1, <2>2 DEF Shape, EspeonAdmitted
  <2>4. Shape'
    BY <1>1, <2>1, <2>3, ShapeRefused
  <2>5. TkShape'
    BY <1>1, <2>1 DEF TkShape, Wide
  <2> QED BY <1>1, <2>1, <2>3, <2>4, <2>5 DEF EspeonShape, EspeonAdmitted
<1>4. CASE EspeonBegin
  <2>1. /\ pc = "begin" /\ pc' = (IF job.adlen > 0 THEN "ad" ELSE "message") /\ i' = 0
        /\ UNCHANGED <<job, side, c, recv, p, ret>>
        /\ ta' = Zeros(BlockLen) /\ tk' = FirstTweak
        /\ job.adlen <= EspeonMaxLength
        /\ job.mlen > 0 \/ job.adlen > 0
    BY <1>4 DEF EspeonBegin
  <2>2. Shape'
    BY <1>1, <2>1, ShapeBegun
  <2>3. FirstTweak \in Buffer(TkLenOf(Wide))
    BY <1>1, <1>2, EspeonTweaksAre, FirstFacts
  <2>4. TkShape'
    BY <1>1, <2>1, <2>3, TkStep, ZerosFacts
  <2> QED BY <1>1, <2>1, <2>2, <2>4 DEF EspeonShape, EspeonAdmitted, EspeonMaxLength
<1>5. CASE EspeonAdBlock
  <2> DEFINE t == EspeonAdTweak(AdCounter)
  <2>1. /\ pc = "ad" /\ i < Before(job.adlen) /\ i' = i + 1
        /\ UNCHANGED <<job, pc, side, c, recv, p, ret>> /\ UNCHANGED tk
        /\ ta' = XorBlock(ta, Left(t, BlockAt(recv.ad, i)))
    BY <1>5 DEF EspeonAdBlock
  <2>2. Shape'
    BY <1>1, <2>1, ShapeAdBlock
  <2>3. t \in Buffer(TkLenOf(Wide))
    BY <1>1, <1>2, EspeonTweaksAre, AdTweakFacts
  <2> HIDE DEF t
  <2>4. BlockAt(recv.ad, i) \in Block
    BY <1>1, <2>1, ShapeBlocks
  <2>5. Left(t, BlockAt(recv.ad, i)) \in Block
    BY <1>1, <2>3, <2>4, EspeonTkForks
  <2>6. TkShape'
    BY <1>1, <1>2, <2>1, <2>5, XorBlockFacts, TkStep DEF TkShape
  <2> QED BY <1>1, <2>1, <2>2, <2>6 DEF EspeonShape, EspeonAdmitted, EspeonMaxLength
<1>6. CASE EspeonAdLast
  <2> DEFINE t == EspeonAdTweak(EspeonAdEnd(Complete(job.adlen), job.mlen = 0))
  <2>1. /\ pc = "ad" /\ pc' = (IF job.mlen = 0 THEN "empty" ELSE "message") /\ i' = 0
        /\ UNCHANGED <<job, side, c, recv, p, ret>> /\ UNCHANGED tk
        /\ ta' = XorBlock(ta, Left(t, Padded(recv.ad, job.adlen)))
    BY <1>6 DEF EspeonAdLast
  <2>2. Shape'
    BY <1>1, <2>1, ShapeAdLast
  <2>3. t \in Buffer(TkLenOf(Wide))
    BY <1>1, <1>2, EspeonTweaksAre, AdTweakFacts
  <2> HIDE DEF t
  <2>4. Padded(recv.ad, job.adlen) \in Block
    BY <1>1, <2>1, ShapeBlocks
  <2>5. Left(t, Padded(recv.ad, job.adlen)) \in Block
    BY <1>1, <2>3, <2>4, EspeonTkForks
  <2>6. TkShape'
    BY <1>1, <1>2, <2>1, <2>5, XorBlockFacts, TkStep DEF TkShape
  <2> QED BY <1>1, <2>1, <2>2, <2>6 DEF EspeonShape, EspeonAdmitted, EspeonMaxLength
<1>7. CASE EspeonEncEmpty
  <2>1. /\ side = "enc" /\ pc = "empty" /\ pc' = "transit"
        /\ UNCHANGED <<job, side, i, c, recv, p, ret>> /\ UNCHANGED <<ta, tk>>
    BY <1>7 DEF EspeonEncEmpty
  <2>2. Shape'
    BY <1>1, <2>1, ShapeEncEmpty
  <2>3. TkShape'
    BY <1>1, <2>1 DEF TkShape, Wide
  <2> QED BY <1>1, <2>1, <2>2, <2>3 DEF EspeonShape, EspeonAdmitted, EspeonMaxLength
<1>8. CASE EspeonEncBlock
  <2> DEFINE x == IF i = 0 THEN XorBlock(ta, BlockAt(recv.c, i)) ELSE BlockAt(recv.c, i)
             d == Left(tk, x)
  <2>1. /\ side = "enc" /\ pc = "message" /\ i < Before(job.mlen) /\ i' = i + 1
        /\ c' = Put(c, i * 16, d)
        /\ ta' = XorBlock(ta, BlockAt(recv.c, i)) /\ tk' = Chained(c', i)
        /\ UNCHANGED <<job, pc, side, recv, p, ret>>
    BY <1>8 DEF EspeonEncBlock, BlockLen
  <2>2. BlockAt(recv.c, i) \in Block
    BY <1>1, <2>1, ShapeBlocks
  <2>3. XorBlock(ta, BlockAt(recv.c, i)) \in Block
    BY <1>2, <2>2, XorBlockFacts
  <2>4. x \in Block
    BY <2>2, <2>3
  <2>5. tk \in Buffer(TkLenOf(Wide))
    BY <1>1, <2>1 DEF TkShape
  <2> HIDE DEF x
  <2>6. d \in Block
    BY <1>1, <2>4, <2>5, EspeonTkForks
  <2> HIDE DEF d
  <2>7. Shape'
    BY <1>1, <2>1, <2>6, ShapeEncBlock
  <2>8. PICK out : out = c'
    OBVIOUS
  <2>9. BytesTo(out, (i + 1) * 16)
    BY <2>1, <2>7, <2>8 DEF Shape
  <2>10. /\ BlockAt(out, i) \in Block
         /\ i > 0 => BlockAt(out, i - 1) \in Block
    BY <1>1, <2>9, BytesBlock
  <2>11. Chained(out, i) \in Buffer(TkLenOf(Wide))
    BY <1>1, <1>2, <2>10, EspeonTweaksAre, ChainFacts
  <2>12. TkShape'
    BY <1>1, <2>1, <2>3, <2>8, <2>11, TkStep
  <2> QED BY <1>1, <2>1, <2>7, <2>12 DEF EspeonShape, EspeonAdmitted, EspeonMaxLength
<1>9. CASE EspeonEncLast
  <2> DEFINE d == XorBlock(Slice(recv.c, i * 16, LastLen),
                           Right(LastTweak, XorBlock(Padded(recv.c, job.mlen), ta)))
  <2>1. /\ side = "enc" /\ pc = "message" /\ i = Before(job.mlen) /\ pc' = "transit"
        /\ c' = Put(c, i * 16, d) /\ tk' = LastTweak /\ ta' = ta
        /\ UNCHANGED <<job, side, i, recv, p, ret>>
    BY <1>9 DEF EspeonEncLast, BlockLen
  <2>2. DOMAIN d = 0..(LastLen - 1)
    BY DEF XorBlock, Slice
  <2> HIDE DEF d
  <2>3. Shape'
    BY <1>1, <2>1, <2>2, ShapeEncLast
  <2>4. LastTweak \in Buffer(TkLenOf(Wide))
    BY <1>1, <2>1, EspeonTweaksAre, LastFacts, MarkFacts DEF TkShape
  <2>5. TkShape'
    BY <1>1, <1>2, <2>1, <2>4, TkStep
  <2> QED BY <1>1, <2>1, <2>3, <2>5 DEF EspeonShape, EspeonAdmitted, EspeonMaxLength
<1>10. CASE EspeonTransit
  <2>1. /\ pc = "transit" /\ pc' = "begin" /\ side' = "dec"
        /\ UNCHANGED <<job, i, c, p, ret>> /\ UNCHANGED <<ta, tk>>
    BY <1>10 DEF EspeonTransit
  <2>2. PICK x : x = recv' /\ x \in Arrived
    BY <1>10 DEF EspeonTransit, Arrived
  <2>3. job.npub \in Buffer(NonceLenOf(Wide))
    BY <1>1, EspeonJobFacts
  <2>4. x.npub \in Buffer(NonceLenOf(Wide))
    <3>1. x.npub = job.npub \/ \E j \in DOMAIN job.npub : x.npub = Flip(job.npub, j)
      BY <2>2, ArrivedFacts
    <3>2. \A j \in DOMAIN job.npub : Flip(job.npub, j) \in Buffer(NonceLenOf(Wide))
      BY <2>3, FlipFacts
    <3> QED BY <2>3, <3>1, <3>2
  <2>5. Shape'
    BY <1>1, <2>1, <2>2, ShapeTransit
  <2>6. TkShape'
    BY <1>1, <2>1, <2>2, <2>4 DEF TkShape, Wide
  <2> QED BY <1>1, <2>1, <2>5, <2>6 DEF EspeonShape, EspeonAdmitted, EspeonMaxLength
<1>11. CASE EspeonDecEmpty
  <2>1. /\ side = "dec" /\ pc = "empty" /\ pc' = "done" /\ ret' \in {"ok", "bad"}
        /\ UNCHANGED <<job, side, i, c, recv, p>> /\ UNCHANGED <<ta, tk>>
    BY <1>11 DEF EspeonDecEmpty
  <2>2. Shape'
    BY <1>1, <2>1, ShapeDecEmpty
  <2>3. TkShape'
    BY <1>1, <2>1 DEF TkShape, Wide
  <2> QED BY <1>1, <2>1, <2>2, <2>3 DEF EspeonShape, EspeonAdmitted, EspeonMaxLength
<1>12. CASE EspeonDecBlock
  <2> DEFINE x == Undo(tk, BlockAt(recv.c, i))
             d == IF i = 0 THEN XorBlock(x, ta) ELSE x
  <2>1. /\ side = "dec" /\ pc = "message" /\ i < Before(job.mlen) /\ i' = i + 1
        /\ p' = Put(p, i * 16, d)
        /\ ta' = XorBlock(ta, BlockAt(p', i)) /\ tk' = Chained(recv.c, i)
        /\ UNCHANGED <<job, pc, side, c, recv, ret>>
    BY <1>12 DEF EspeonDecBlock, BlockLen
  <2>2. BlockAt(recv.c, i) \in Block
    BY <1>1, <2>1, ShapeBlocks
  <2>3. tk \in Buffer(TkLenOf(Wide))
    BY <1>1, <2>1 DEF TkShape
  <2>4. x \in Block
    BY <1>1, <2>2, <2>3, EspeonTkForks
  <2> HIDE DEF x
  <2>5. d \in Block
    BY <1>2, <2>4, XorBlockFacts
  <2> HIDE DEF d
  <2>6. DOMAIN d = 0..15
    BY <2>5, BlockBytes
  <2>7. Shape'
    BY <1>1, <2>1, <2>6, ShapeDecBlock
  <2>8. BlockAt(p', i) = d
    <3>1. PICK m \in Nat : m = i * 16 /\ m + 16 = (i + 1) * 16
      BY <1>1
    <3>2. DOMAIN p = 0..(m - 1) /\ p' = Put(p, m, d)
      BY <1>1, <2>1, <3>1 DEF Shape
    <3>3. Appended(p', p, m, d, m + 16)
      BY <2>5, <3>2, BlockPut
    <3>4. Appended(p', p, i * 16, d, (i + 1) * 16)
      BY <3>1, <3>3
    <3> QED BY <1>1, <2>5, <3>4, BlockAppended
  <2>9. BytesTo(recv.c, (i + 1) * 16)
    <3>1. /\ job.mlen \in Nat /\ job.mlen > 0 /\ Before(job.mlen) \in Nat
          /\ BytesTo(recv.c, Before(job.mlen) * 16)
      BY <1>1, <2>1, BeforeFacts DEF Args, Shape, Within
    <3>2. \A j \in 0..((i + 1) * 16 - 1) : j \in 0..(Before(job.mlen) * 16 - 1)
      BY <1>1, <2>1, <3>1
    <3> QED BY <3>1, <3>2 DEF BytesTo
  <2>10. i > 0 => BlockAt(recv.c, i - 1) \in Block
    BY <1>1, <2>9, BytesBlock
  <2>11. Chained(recv.c, i) \in Buffer(TkLenOf(Wide))
    BY <1>1, <1>2, <2>2, <2>10, EspeonTweaksAre, ChainFacts
  <2>12. TkShape'
    BY <1>1, <1>2, <2>1, <2>5, <2>8, <2>11, XorBlockFacts, TkStep
  <2> QED BY <1>1, <2>1, <2>7, <2>12 DEF EspeonShape, EspeonAdmitted, EspeonMaxLength
<1>13. CASE EspeonDecLast
  <2> DEFINE d == Slice(XorBlock(Undo(LastTweak, recv.tag), ta), 0, LastLen)
  <2>1. /\ side = "dec" /\ pc = "message" /\ i = Before(job.mlen) /\ pc' = "done"
        /\ p' = Put(p, i * 16, d) /\ ret' \in {"ok", "bad"} /\ tk' = LastTweak /\ ta' = ta
        /\ UNCHANGED <<job, side, i, c, recv>>
    BY <1>13 DEF EspeonDecLast, BlockLen
  <2>2. DOMAIN d = 0..(LastLen - 1)
    BY DEF Slice
  <2> HIDE DEF d
  <2>3. Shape'
    BY <1>1, <2>1, <2>2, ShapeDecLast
  <2>4. LastTweak \in Buffer(TkLenOf(Wide))
    BY <1>1, <2>1, EspeonTweaksAre, LastFacts, MarkFacts DEF TkShape
  <2>5. TkShape'
    BY <1>1, <1>2, <2>1, <2>4, TkStep
  <2> QED BY <1>1, <2>1, <2>3, <2>5 DEF EspeonShape, EspeonAdmitted, EspeonMaxLength
<1> QED BY <1>3, <1>4, <1>5, <1>6, <1>7, <1>8, <1>9, <1>10, <1>11, <1>12, <1>13 DEF EspeonNext

LEMMA StepEspeonShape ==
  ASSUME EspeonForks, EspeonShape, [EspeonNext]_espeonVars
  PROVE  EspeonShape'
<1>1. CASE UNCHANGED espeonVars
  BY <1>1 DEF espeonVars, EspeonShape, TkShape, Wide, Shape, EspeonAdmitted, Within, BytesTo,
              Before, EspeonMaxLength
<1> QED BY <1>1, NextEspeonShape

LEMMA EspeonShapeGives == EspeonShape => EspeonTypeOK
<1> SUFFICES ASSUME EspeonShape PROVE EspeonTypeOK
  OBVIOUS
<1>1. DOMAIN tk \in {0..-1, 0..((IF Wide THEN 32 ELSE 16) - 1)}
  <2>1. DOMAIN Zeros(0) = 0..-1
    BY DEF Zeros
  <2>2. \A t \in Buffer(TkLenOf(Wide)) : DOMAIN t = 0..((IF Wide THEN 32 ELSE 16) - 1)
    BY DEF Buffer, TkLenOf
  <2> QED BY <2>1, <2>2 DEF EspeonShape, TkShape
<1> QED BY <1>1, ShapeDomains DEF EspeonShape, Shape, EspeonTypeOK

\* Over any fork cipher: the loops of espeon.c keep to the buffers, and the tweakey
\* has the length of its instance.
THEOREM EspeonTypeCorrect ==
  ASSUME EspeonForks
  PROVE  EspeonSpec => []EspeonTypeOK
BY InitEspeonShape, StepEspeonShape, EspeonShapeGives, PTL DEF EspeonSpec

(***************************************************************************)
(* What an encryption of Espeon computes: A is the sequence of sums over   *)
(* associated data, T that over the message, out the ciphertext, of which  *)
(* the tweakeys are made, and g the tag.                                   *)
(***************************************************************************)
WideOf(call)      == call.instance = 384
SumTk(call, w)    == AdTweakOf(WideOf(call), call.npub, w)
SumTkAt(call, b)  == SumTk(call, (b + 4) % EspeonCounterSize)
SumTkEnd(call)    == SumTk(call, EspeonAdEnd(Complete(call.adlen), call.mlen = 0))
TkAt(call, out, b) ==
  IF b = 0 THEN FirstTkOf(WideOf(call), call.npub)
           ELSE ChainOf(WideOf(call), call.npub, out, b - 1)
TkEnd(call, out)  ==
  LastOf(WideOf(call), TkAt(call, out, Before(call.mlen)), MarkOf(call.mlen))

EspeonAdSums(call, A, k) ==
  /\ A[0] = Zeros(BlockLen)
  /\ \A b \in 0..(k-1) : A[b+1] = XorBlock(A[b], Left(SumTkAt(call, b), BlockAt(call.ad, b)))

EspeonAdSummed(call, A, t) ==
  /\ call.adlen = 0 => t = Zeros(BlockLen)
  /\ call.adlen > 0 =>
       /\ EspeonAdSums(call, A, Before(call.adlen))
       /\ t = XorBlock(A[Before(call.adlen)], Left(SumTkEnd(call), Padded(call.ad, call.adlen)))

\* What is enciphered: the first block with the sum in it.
InputAt(call, T, b) == IF b = 0 THEN T[1] ELSE BlockAt(call.m, b)

EspeonEnciphered(call, T, out, k) ==
  /\ \A b \in 0..k : T[b] \in Block
  /\ \A b \in 0..(k-1) :
       /\ BlockAt(out, b) = Left(TkAt(call, out, b), InputAt(call, T, b))
       /\ T[b+1] = XorBlock(T[b], BlockAt(call.m, b))

EspeonEnded(call, T, out, g) ==
  /\ g = Left(TkEnd(call, out), LastBlock(call, T))
  /\ \A j \in 0..(call.mlen - Before(call.mlen) * 16 - 1) :
       out[Before(call.mlen) * 16 + j] =
         call.m[Before(call.mlen) * 16 + j] (+) Right(TkEnd(call, out), LastBlock(call, T))[j]

EspeonEncrypted(call, A, T, out, g) ==
  /\ EspeonAdSummed(call, A, T[0])
  /\ call.mlen = 0 => g = T[0]
  /\ call.mlen > 0 => EspeonEnciphered(call, T, out, Before(call.mlen)) /\ EspeonEnded(call, T, out, g)

\* An encryption is on its way.
EspeonEncState == side = "enc" =>
  /\ recv.c = job.m /\ recv.ad = job.ad /\ recv.npub = job.npub
  /\ p = Zeros(0)
  /\ pc \in {"begin", "ad", "empty"} => c = Zeros(0)
  /\ pc = "ad" => tk = TkAt(job, c, 0) /\ \E A : EspeonAdSums(job, A, i) /\ ta = A[i]
  /\ pc = "empty" => \E A : EspeonAdSummed(job, A, ta)
  /\ pc = "message" =>
       /\ DOMAIN c = 0..(i * 16 - 1) /\ tk = TkAt(job, c, i)
       /\ \E A, T : EspeonAdSummed(job, A, T[0]) /\ EspeonEnciphered(job, T, c, i) /\ ta = T[i]
  /\ pc = "transit" => \E A, T : EspeonEncrypted(job, A, T, c, tag)

\* A decryption of what encryption returned has the same sums and tweakeys.
EspeonFollowing(A, T) ==
  /\ Following(A, T)
  /\ pc = "ad" => tk = TkAt(job, c, 0)
  /\ pc = "message" => tk = TkAt(job, c, i)

EspeonDecState == side = "dec" /\ recv = Sent =>
  \E A, T : EspeonEncrypted(job, A, T, c, tag) /\ EspeonFollowing(A, T)

EspeonSums == EspeonEncState /\ EspeonDecState

EspeonInv == EspeonShape /\ EspeonSums

LEMMA EspeonSumsMore ==
  ASSUME NEW call, NEW A, NEW k \in Nat, EspeonAdSums(call, A, k)
  PROVE  \E B : /\ EspeonAdSums(call, B, k + 1)
                /\ B[k+1] = XorBlock(A[k], Left(SumTkAt(call, k), BlockAt(call.ad, k)))
<1> DEFINE v == XorBlock(A[k], Left(SumTkAt(call, k), BlockAt(call.ad, k)))
           B == [n \in Nat |-> IF n = k + 1 THEN v ELSE A[n]]
<1>1. B[k+1] = v /\ \A n \in 0..k : B[n] = A[n]
  OBVIOUS
<1>2. ASSUME NEW b \in 0..k
      PROVE  B[b+1] = XorBlock(B[b], Left(SumTkAt(call, b), BlockAt(call.ad, b)))
  <2> HIDE DEF B
  <2>1. CASE b = k
    BY <1>1, <2>1
  <2>2. CASE b # k
    <3>1. b \in 0..(k-1) /\ b + 1 \in 0..k
      BY <2>2
    <3> QED BY <1>1, <3>1 DEF EspeonAdSums
  <2> QED BY <2>1, <2>2
<1>3. B[0] = Zeros(BlockLen)
  BY <1>1 DEF EspeonAdSums
<1> HIDE DEF B
<1>4. (k + 1) - 1 = k
  OBVIOUS
<1>5. EspeonAdSums(call, B, k + 1)
  BY <1>2, <1>3, <1>4 DEF EspeonAdSums
<1> QED BY <1>1, <1>5

\* A tweakey is made of blocks before it.
LEMMA SameChain ==
  ASSUME NEW call, NEW k \in Nat, NEW out, NEW b, \A q \in 0..(k-1) : BlockAt(out, q) = BlockAt(b, q),
         NEW n \in 0..k
  PROVE  TkAt(call, out, n) = TkAt(call, b, n)
<1>1. CASE n = 0
  BY <1>1 DEF TkAt
<1>2. CASE n # 0
  <2>1. PICK l \in 0..(k-1) : l = n - 1
    BY <1>2
  <2>2. BlockAt(out, l) = BlockAt(b, l)
    BY <2>1
  <2>3. l # 0 => BlockAt(out, l - 1) = BlockAt(b, l - 1)
    <3> SUFFICES ASSUME l # 0 PROVE BlockAt(out, l - 1) = BlockAt(b, l - 1)
      OBVIOUS
    <3>1. l - 1 \in 0..(k-1)
      BY <2>1
    <3> QED BY <3>1
  <2>4. Slice(out, l * BlockLen, BlockLen - 1) = Slice(b, l * BlockLen, BlockLen - 1)
    <3>1. ASSUME NEW j \in 0..14 PROVE out[l * 16 + j] = b[l * 16 + j]
      <4>1. j \in 0..15
        OBVIOUS
      <4>2. BlockAt(out, l)[j] = out[l * 16 + j] /\ BlockAt(b, l)[j] = b[l * 16 + j]
        BY <4>1 DEF BlockAt, Slice, BlockLen
      <4> QED BY <2>2, <4>2
    <3> QED BY <3>1 DEF Slice, BlockLen
  <2>5. ChainOf(WideOf(call), call.npub, out, l) = ChainOf(WideOf(call), call.npub, b, l)
    BY <2>2, <2>3, <2>4 DEF ChainOf
  <2> QED BY <1>2, <2>1, <2>5 DEF TkAt
<1> QED BY <1>1, <1>2

LEMMA EspeonMore ==
  ASSUME NEW call, NEW T, NEW b, NEW out, NEW k \in Nat, NEW v \in Block,
         EspeonEnciphered(call, T, b, k),
         \A q \in 0..(k-1) : BlockAt(out, q) = BlockAt(b, q),
         v = XorBlock(T[k], BlockAt(call.m, k)),
         BlockAt(out, k) = Left(TkAt(call, b, k), IF k = 0 THEN v ELSE BlockAt(call.m, k))
  PROVE  \E U : U[0] = T[0] /\ U[k+1] = v /\ EspeonEnciphered(call, U, out, k + 1)
<1> DEFINE U == [n \in Nat |-> IF n = k + 1 THEN v ELSE T[n]]
<1>1. U[k+1] = v /\ \A n \in 0..k : U[n] = T[n]
  OBVIOUS
<1> HIDE DEF U
<1>2. ASSUME NEW q \in 0..(k + 1) PROVE U[q] \in Block
  <2>1. CASE q = k + 1
    BY <1>1, <2>1
  <2>2. CASE q # k + 1
    <3>1. q \in 0..k
      BY <2>2
    <3> QED BY <1>1, <3>1 DEF EspeonEnciphered
  <2> QED BY <2>1, <2>2
<1>3. ASSUME NEW q \in 0..k
      PROVE  /\ BlockAt(out, q) = Left(TkAt(call, out, q), InputAt(call, U, q))
             /\ U[q+1] = XorBlock(U[q], BlockAt(call.m, q))
  <2>1. TkAt(call, out, q) = TkAt(call, b, q)
    BY SameChain
  <2>2. CASE q = k
    <3>1. InputAt(call, U, k) = IF k = 0 THEN v ELSE BlockAt(call.m, k)
      BY <1>1 DEF InputAt
    <3> QED BY <1>1, <2>1, <2>2, <3>1
  <2>3. CASE q # k
    <3>1. q \in 0..(k-1) /\ q + 1 \in 0..k /\ (q = 0 => 1 \in 0..k)
      BY <2>3
    <3>2. InputAt(call, U, q) = InputAt(call, T, q)
      BY <1>1, <3>1 DEF InputAt
    <3> QED BY <1>1, <2>1, <3>1, <3>2 DEF EspeonEnciphered
  <2> QED BY <2>2, <2>3
<1>4. (k + 1) - 1 = k
  OBVIOUS
<1>5. EspeonEnciphered(call, U, out, k + 1)
  BY <1>2, <1>3, <1>4 DEF EspeonEnciphered
<1>6. U[0] = T[0]
  BY <1>1
<1> QED BY <1>1, <1>5, <1>6

\* With the nonce of the encryption the tweakeys are those of the encryption.
LEMMA EspeonSameTweaks ==
  ASSUME recv.npub = job.npub
  PROVE  /\ EspeonAdTweak(AdCounter) = SumTkAt(job, i)
         /\ EspeonAdTweak(EspeonAdEnd(Complete(job.adlen), job.mlen = 0)) = SumTkEnd(job)
         /\ \A out : FirstTweak = TkAt(job, out, 0)
<1>1. Wide = WideOf(job)
  BY DEF Wide, WideOf
<1>2. \A out : FirstTweak = TkAt(job, out, 0)
  BY <1>1, EspeonTweaksAre DEF TkAt
<1> QED BY <1>1, <1>2, EspeonTweaksAre DEF AdCounter, SumTkAt, SumTkEnd, SumTk

LEMMA EspeonSameChain ==
  ASSUME recv.npub = job.npub, i \in Nat, NEW out
  PROVE  Chained(out, i) = TkAt(job, out, i + 1)
<1>1. Wide = WideOf(job)
  BY DEF Wide, WideOf
<1>2. i + 1 # 0 /\ (i + 1) - 1 = i
  OBVIOUS
<1>3. Chained(out, i) = ChainOf(Wide, recv.npub, out, i)
  BY EspeonTweaksAre
<1> QED BY <1>1, <1>2, <1>3 DEF TkAt

LEMMA EspeonSameEnd ==
  ASSUME NEW out, tk = TkAt(job, out, Before(job.mlen))
  PROVE  LastTweak = TkEnd(job, out)
BY EspeonTweaksAre DEF TkEnd, Wide, WideOf

\* The tweakeys of the encryption are such.
LEMMA TkAtFacts ==
  ASSUME job \in EspeonCalls, NEW out, NEW k \in Nat,
         \A q \in 0..(k-1) : BlockAt(out, q) \in Block
  PROVE  TkAt(job, out, k) \in Buffer(TkLenOf(Wide))
<1>1. Wide \in BOOLEAN /\ job.npub \in Buffer(NonceLenOf(Wide)) /\ WideOf(job) = Wide
  BY EspeonJobFacts DEF Wide, WideOf
<1>2. CASE k = 0
  BY <1>1, <1>2, FirstFacts DEF TkAt
<1>3. CASE k # 0
  <2>1. PICK l \in Nat : l = k - 1
    BY <1>3
  <2>2. BlockAt(out, l) \in Block /\ (l > 0 => BlockAt(out, l - 1) \in Block)
    <3>1. l \in 0..(k-1) /\ (l > 0 => l - 1 \in 0..(k-1))
      BY <2>1
    <3> QED BY <3>1
  <2>3. ChainOf(Wide, job.npub, out, l) \in Buffer(TkLenOf(Wide))
    BY <1>1, <2>2, ChainFacts
  <2> QED BY <1>1, <1>3, <2>1, <2>3 DEF TkAt
<1> QED BY <1>2, <1>3

\* The last block's length, and the blocks of the arguments.
LEMMA MessageFacts ==
  ASSUME Args, Shape, pc = "message"
  PROVE  /\ job.mlen \in Nat /\ job.mlen > 0 /\ job.m \in Buffer(job.mlen) /\ i \in Nat
         /\ LastLen \in Nat /\ LastLen > 0 /\ LastLen <= 16
         /\ Before(job.mlen) \in Nat /\ Before(job.mlen) * 16 + LastLen = job.mlen
         /\ i < Before(job.mlen) => BlockAt(job.m, i) \in Block
         /\ Padded(job.m, job.mlen) \in Block
<1>1. job.mlen \in Nat /\ job.mlen > 0 /\ job.m \in Buffer(job.mlen) /\ i \in Nat
  BY DEF Args, Shape, Within
<1>2. /\ Before(job.mlen) \in Nat /\ Before(job.mlen) * 16 < job.mlen
      /\ job.mlen <= Before(job.mlen) * 16 + 16
  BY <1>1, BeforeFacts
<1>3. LastLen \in Nat /\ LastLen > 0 /\ LastLen <= 16 /\ Before(job.mlen) * 16 + LastLen = job.mlen
  BY <1>1, <1>2 DEF LastLen, BlockLen
<1>4. i < Before(job.mlen) => i * 16 + 16 <= job.mlen
  BY <1>1, <1>2
<1> QED BY <1>1, <1>2, <1>3, <1>4, BlockAtFacts, PaddedFacts

LEMMA EspeonInvFacts ==
  ASSUME EspeonInv
  PROVE  /\ Args /\ Shape /\ TkShape /\ EspeonAdmitted /\ EspeonEncState /\ EspeonDecState
         /\ job \in EspeonCalls /\ Wide \in BOOLEAN /\ i \in Nat /\ ta \in Block
         /\ side \in {"enc", "dec"}
BY EspeonJobFacts DEF EspeonInv, EspeonShape, EspeonSums, Shape, TkShape

LEMMA EspeonInitSums == EspeonInit => EspeonSums
BY DEF EspeonInit, EspeonSums, EspeonEncState, EspeonDecState

LEMMA EspeonRefuseSums == ASSUME EspeonInv, EspeonRefuse PROVE EspeonSums'
<1>1. /\ pc = "begin" /\ pc' = "done" /\ side' = side /\ job' = job /\ recv' = recv
      /\ p' = p /\ c' = c
      /\ job.adlen > EspeonMaxLength \/ (job.mlen = 0 /\ job.adlen = 0)
  BY DEF EspeonRefuse
<1>2. /\ job.mlen \in Nat /\ job.adlen \in Nat /\ EspeonMaxLength \in Nat
  <2>1. EspeonCounterSize \in Nat
    BY EspeonCounterAssumption
  <2> QED BY <2>1, EspeonInvFacts DEF Args, EspeonMaxLength, BlockLen
<1>3. side # "dec" /\ side = "enc"
  BY <1>1, <1>2, EspeonInvFacts DEF EspeonAdmitted
<1>4. EspeonDecState'
  BY <1>1, <1>3 DEF EspeonDecState
<1>5. EspeonEncState'
  BY <1>1, <1>3, EspeonInvFacts DEF EspeonEncState
<1> QED BY <1>4, <1>5 DEF EspeonSums

LEMMA EspeonBeginSums == ASSUME EspeonInv, EspeonBegin PROVE EspeonSums'
<1>1. /\ pc = "begin" /\ pc' = (IF job.adlen > 0 THEN "ad" ELSE "message")
      /\ side' = side /\ job' = job /\ recv' = recv /\ i' = 0 /\ ta' = Zeros(BlockLen)
      /\ p' = p /\ c' = c /\ tag' = tag /\ tk' = FirstTweak
      /\ job.mlen > 0 \/ job.adlen > 0
  BY DEF EspeonBegin
<1>2. job.adlen \in Nat /\ job.mlen \in Nat /\ side \in {"enc", "dec"}
  BY EspeonInvFacts DEF Args
<1>3. EspeonEncState'
  <2> SUFFICES ASSUME side = "enc" PROVE EspeonEncState'
    BY <1>1 DEF EspeonEncState
  <2>1. /\ recv.c = job.m /\ recv.ad = job.ad /\ recv.npub = job.npub
        /\ p = Zeros(0) /\ c = Zeros(0)
    BY <1>1, EspeonInvFacts DEF EspeonEncState
  <2>2. tk' = TkAt(job', c', 0)
    BY <1>1, <2>1, EspeonSameTweaks
  <2>3. CASE job.adlen > 0
    <3> DEFINE A == [n \in Nat |-> Zeros(BlockLen)]
    <3>1. A[0] = Zeros(BlockLen) /\ EspeonAdSums(job, A, 0)
      BY DEF EspeonAdSums
    <3> HIDE DEF A
    <3> QED BY <1>1, <2>1, <2>2, <2>3, <3>1 DEF EspeonEncState
  <2>4. CASE ~(job.adlen > 0)
    <3> DEFINE T == [n \in Nat |-> Zeros(BlockLen)]
    <3>1. T[0] = Zeros(BlockLen)
      OBVIOUS
    <3> HIDE DEF T
    <3>2. EspeonAdSummed(job, T, T[0])
      BY <2>4, <3>1 DEF EspeonAdSummed
    <3>3. EspeonEnciphered(job, T, c, 0)
      BY <3>1, ZerosFacts DEF EspeonEnciphered
    <3>4. pc' = "message" /\ ta' = T[i'] /\ DOMAIN c' = 0..(i' * 16 - 1)
      BY <1>1, <2>1, <2>4, <3>1, ZerosFacts
    <3> QED BY <1>1, <2>1, <2>2, <3>2, <3>3, <3>4 DEF EspeonEncState
  <2> QED BY <2>3, <2>4
<1>4. EspeonDecState'
  <2> SUFFICES ASSUME side = "dec", recv = Sent
               PROVE  \E A, T : EspeonEncrypted(job, A, T, c, tag) /\ EspeonFollowing(A, T)'
    BY <1>1 DEF EspeonDecState, Sent
  <2>1. PICK A, T : EspeonEncrypted(job, A, T, c, tag) /\ EspeonFollowing(A, T)
    BY EspeonInvFacts DEF EspeonDecState
  <2>2. p = Zeros(0) /\ EspeonAdSummed(job, A, T[0])
    BY <1>1, <2>1 DEF EspeonFollowing, Following, EspeonEncrypted
  <2>3. recv.npub = job.npub
    BY DEF Sent
  <2>4. tk' = TkAt(job', c', 0)
    BY <1>1, <2>3, EspeonSameTweaks
  <2>5. Following(A, T)'
    <3>1. CASE job.adlen > 0
      <4>1. A[0] = Zeros(BlockLen)
        BY <2>2, <3>1 DEF EspeonAdSummed, EspeonAdSums
      <4> QED BY <1>1, <2>1, <2>2, <3>1, <4>1 DEF Following
    <3>2. CASE ~(job.adlen > 0)
      <4>1. T[0] = Zeros(BlockLen)
        BY <1>2, <2>2, <3>2 DEF EspeonAdSummed
      <4>2. pc' = "message" /\ ta' = T[i'] /\ DOMAIN p' = 0..(i' * 16 - 1)
        BY <1>1, <2>2, <3>2, <4>1, ZerosFacts
      <4>3. \A j \in 0..(i' * 16 - 1) : FALSE
        BY <1>1
      <4> QED BY <4>2, <4>3 DEF Following
    <3> QED BY <3>1, <3>2
  <2> QED BY <1>1, <2>1, <2>4, <2>5 DEF EspeonFollowing
<1> QED BY <1>3, <1>4 DEF EspeonSums

LEMMA EspeonAdBlockSums == ASSUME EspeonInv, EspeonAdBlock PROVE EspeonSums'
<1>1. /\ pc = "ad" /\ pc' = pc /\ i < Before(job.adlen) /\ i' = i + 1
      /\ ta' = XorBlock(ta, Left(EspeonAdTweak(AdCounter), BlockAt(recv.ad, i)))
      /\ side' = side /\ job' = job /\ recv' = recv /\ p' = p /\ c' = c /\ tag' = tag
      /\ tk' = tk
  BY DEF EspeonAdBlock
<1>2. i \in Nat /\ side \in {"enc", "dec"}
  BY EspeonInvFacts
<1>3. EspeonEncState'
  <2> SUFFICES ASSUME side = "enc" PROVE EspeonEncState'
    BY <1>1 DEF EspeonEncState
  <2>1. /\ recv.c = job.m /\ recv.ad = job.ad /\ recv.npub = job.npub
        /\ p = Zeros(0) /\ c = Zeros(0) /\ tk = TkAt(job, c, 0)
    BY <1>1, EspeonInvFacts DEF EspeonEncState
  <2>2. PICK A : EspeonAdSums(job, A, i) /\ ta = A[i]
    BY <1>1, EspeonInvFacts DEF EspeonEncState
  <2>3. ta' = XorBlock(ta, Left(SumTkAt(job, i), BlockAt(job.ad, i)))
    BY <1>1, <2>1, EspeonSameTweaks
  <2>4. \E B : EspeonAdSums(job, B, i + 1) /\ B[i+1] = ta'
    BY <1>2, <2>2, <2>3, EspeonSumsMore
  <2> QED BY <1>1, <2>1, <2>4 DEF EspeonEncState
<1>4. EspeonDecState'
  <2> SUFFICES ASSUME side = "dec", recv = Sent
               PROVE  \E A, T : EspeonEncrypted(job, A, T, c, tag) /\ EspeonFollowing(A, T)'
    BY <1>1 DEF EspeonDecState, Sent
  <2>1. PICK A, T : EspeonEncrypted(job, A, T, c, tag) /\ EspeonFollowing(A, T)
    BY EspeonInvFacts DEF EspeonDecState
  <2>2. p = Zeros(0) /\ ta = A[i] /\ tk = TkAt(job, c, 0)
    BY <1>1, <2>1 DEF EspeonFollowing, Following
  <2>3. job.adlen \in Nat /\ job.adlen > 0 /\ Before(job.adlen) \in Nat
    BY <1>1, EspeonInvFacts, BeforeFacts DEF Args, Shape, Within
  <2>4. EspeonAdSums(job, A, Before(job.adlen))
    BY <1>1, <2>1, <2>3 DEF EspeonEncrypted, EspeonAdSummed
  <2>5. i \in 0..(Before(job.adlen) - 1)
    BY <1>1, <1>2, <2>3
  <2>6. A[i+1] = XorBlock(A[i], Left(SumTkAt(job, i), BlockAt(job.ad, i)))
    BY <2>4, <2>5 DEF EspeonAdSums
  <2>7. recv.ad = job.ad /\ recv.npub = job.npub
    BY DEF Sent
  <2>8. ta' = A[i']
    BY <1>1, <2>2, <2>6, <2>7, EspeonSameTweaks
  <2>9. Following(A, T)'
    BY <1>1, <2>1, <2>2, <2>8 DEF Following
  <2> QED BY <1>1, <2>1, <2>2, <2>9 DEF EspeonFollowing
<1> QED BY <1>3, <1>4 DEF EspeonSums

LEMMA EspeonAdLastSums == ASSUME EspeonForks, EspeonInv, EspeonAdLast PROVE EspeonSums'
<1> DEFINE tweak == EspeonAdTweak(EspeonAdEnd(Complete(job.adlen), job.mlen = 0))
<1>1. /\ pc = "ad" /\ pc' = (IF job.mlen = 0 THEN "empty" ELSE "message")
      /\ i = Before(job.adlen) /\ i' = 0
      /\ ta' = XorBlock(ta, Left(tweak, Padded(recv.ad, job.adlen)))
      /\ side' = side /\ job' = job /\ recv' = recv /\ p' = p /\ c' = c /\ tag' = tag
      /\ tk' = tk
  BY DEF EspeonAdLast
<1>2. recv.npub = job.npub => tweak = SumTkEnd(job)
  BY EspeonSameTweaks
<1>3. ta' \in Block
  <2>1. EspeonShape'
    BY NextEspeonShape DEF EspeonInv, EspeonNext
  <2> QED BY <2>1 DEF EspeonShape, TkShape
<1> HIDE DEF tweak
<1>4. job.adlen \in Nat /\ job.adlen > 0 /\ job.mlen \in Nat /\ side \in {"enc", "dec"}
  BY <1>1, EspeonInvFacts DEF Args, Shape, Within
<1>5. EspeonEncState'
  <2> SUFFICES ASSUME side = "enc" PROVE EspeonEncState'
    BY <1>1 DEF EspeonEncState
  <2>1. /\ recv.c = job.m /\ recv.ad = job.ad /\ recv.npub = job.npub
        /\ p = Zeros(0) /\ c = Zeros(0) /\ tk = TkAt(job, c, 0)
    BY <1>1, EspeonInvFacts DEF EspeonEncState
  <2>2. PICK A : EspeonAdSums(job, A, i) /\ ta = A[i]
    BY <1>1, EspeonInvFacts DEF EspeonEncState
  <2>3. ta' = XorBlock(A[i], Left(SumTkEnd(job), Padded(job.ad, job.adlen)))
    BY <1>1, <1>2, <2>1, <2>2
  <2>4. EspeonAdSummed(job, A, ta')
    BY <1>1, <1>4, <2>2, <2>3 DEF EspeonAdSummed
  <2>5. CASE job.mlen = 0
    BY <1>1, <2>1, <2>4, <2>5 DEF EspeonEncState
  <2>6. CASE job.mlen # 0
    <3> DEFINE T == [n \in Nat |-> ta']
    <3>1. T[0] = ta'
      OBVIOUS
    <3> HIDE DEF T
    <3>2. EspeonEnciphered(job, T, c, 0)
      BY <1>3, <3>1 DEF EspeonEnciphered
    <3>3. pc' = "message" /\ ta' = T[i'] /\ DOMAIN c' = 0..(i' * 16 - 1)
          /\ tk' = TkAt(job', c', i')
      BY <1>1, <2>1, <2>6, <3>1, ZerosFacts
    <3> QED BY <1>1, <2>1, <2>4, <3>1, <3>2, <3>3 DEF EspeonEncState
  <2> QED BY <2>5, <2>6
<1>6. EspeonDecState'
  <2> SUFFICES ASSUME side = "dec", recv = Sent
               PROVE  \E A, T : EspeonEncrypted(job, A, T, c, tag) /\ EspeonFollowing(A, T)'
    BY <1>1 DEF EspeonDecState, Sent
  <2>1. PICK A, T : EspeonEncrypted(job, A, T, c, tag) /\ EspeonFollowing(A, T)
    BY EspeonInvFacts DEF EspeonDecState
  <2>2. p = Zeros(0) /\ ta = A[i] /\ tk = TkAt(job, c, 0)
    BY <1>1, <2>1 DEF EspeonFollowing, Following
  <2>3. T[0] = XorBlock(A[i], Left(SumTkEnd(job), Padded(job.ad, job.adlen)))
    BY <1>1, <1>4, <2>1 DEF EspeonEncrypted, EspeonAdSummed
  <2>4. recv.ad = job.ad /\ recv.npub = job.npub
    BY DEF Sent
  <2>5. ta' = T[0]
    BY <1>1, <1>2, <2>2, <2>3, <2>4
  <2>6. Following(A, T)'
    <3>1. CASE job.mlen = 0
      BY <1>1, <2>1, <2>2, <2>5, <3>1 DEF Following
    <3>2. CASE job.mlen # 0
      <4>1. pc' = "message" /\ ta' = T[i'] /\ DOMAIN p' = 0..(i' * 16 - 1)
        BY <1>1, <2>2, <2>5, <3>2, ZerosFacts
      <4>2. \A j \in 0..(i' * 16 - 1) : FALSE
        BY <1>1
      <4> QED BY <4>1, <4>2 DEF Following
    <3> QED BY <3>1, <3>2
  <2>7. tk' = TkAt(job', c', i') /\ pc' # "ad"
    BY <1>1, <2>2
  <2> QED BY <2>1, <2>6, <2>7 DEF EspeonFollowing
<1> QED BY <1>5, <1>6 DEF EspeonSums

LEMMA EspeonEncEmptySums == ASSUME EspeonInv, EspeonEncEmpty PROVE EspeonSums'
<1>1. /\ side = "enc" /\ pc = "empty" /\ pc' = "transit" /\ tag' = ta
      /\ side' = side /\ job' = job /\ recv' = recv /\ p' = p /\ c' = c
  BY DEF EspeonEncEmpty
<1>2. EspeonDecState'
  BY <1>1 DEF EspeonDecState
<1>3. /\ recv.c = job.m /\ recv.ad = job.ad /\ recv.npub = job.npub /\ p = Zeros(0)
      /\ job.mlen = 0
  BY <1>1, EspeonInvFacts DEF EspeonEncState, Shape, Within
<1>4. PICK A : EspeonAdSummed(job, A, ta)
  BY <1>1, EspeonInvFacts DEF EspeonEncState
<1> DEFINE T == [n \in Nat |-> ta]
<1>5. T[0] = ta
  OBVIOUS
<1> HIDE DEF T
<1>6. EspeonEncrypted(job, A, T, c, ta)
  BY <1>3, <1>4, <1>5 DEF EspeonEncrypted
<1>7. EspeonEncState'
  BY <1>1, <1>3, <1>6 DEF EspeonEncState
<1> QED BY <1>2, <1>7 DEF EspeonSums

LEMMA EspeonEncBlockSums == ASSUME EspeonForks, EspeonInv, EspeonEncBlock PROVE EspeonSums'
<1> DEFINE x == IF i = 0 THEN XorBlock(ta, BlockAt(recv.c, i)) ELSE BlockAt(recv.c, i)
           d == Left(tk, x)
<1>1. /\ side = "enc" /\ pc = "message" /\ pc' = pc /\ i < Before(job.mlen) /\ i' = i + 1
      /\ c' = Put(c, i * 16, d)
      /\ ta' = XorBlock(ta, BlockAt(recv.c, i)) /\ tk' = Chained(c', i)
      /\ side' = side /\ job' = job /\ recv' = recv /\ p' = p
  BY DEF EspeonEncBlock, BlockLen
<1>2. i \in Nat /\ BlockAt(job.m, i) \in Block /\ ta \in Block /\ Wide \in BOOLEAN
  BY <1>1, MessageFacts, EspeonInvFacts
<1>3. /\ recv.c = job.m /\ recv.ad = job.ad /\ recv.npub = job.npub /\ p = Zeros(0)
      /\ DOMAIN c = 0..(i * 16 - 1) /\ tk = TkAt(job, c, i)
  BY <1>1, EspeonInvFacts DEF EspeonEncState
<1>4. PICK A, T : EspeonAdSummed(job, A, T[0]) /\ EspeonEnciphered(job, T, c, i) /\ ta = T[i]
  BY <1>1, EspeonInvFacts DEF EspeonEncState
<1>5. ta' \in Block /\ x \in Block
  BY <1>1, <1>2, <1>3, XorBlockFacts
<1>6. x = IF i = 0 THEN ta' ELSE BlockAt(job.m, i)
  BY <1>1, <1>3
<1>7. tk \in Buffer(TkLenOf(Wide))
  BY <1>1, EspeonInvFacts DEF TkShape
<1> HIDE DEF x
<1>8. d \in Block
  BY <1>2, <1>5, <1>7, EspeonTkForks
<1>9. d = Left(TkAt(job, c, i), IF i = 0 THEN ta' ELSE BlockAt(job.m, i))
  BY <1>3, <1>6
<1> HIDE DEF d
<1>10. /\ Appended(c', c, i * 16, d, (i + 1) * 16)
       /\ \A q \in 0..(i-1) : BlockAt(c', q) = BlockAt(c, q)
       /\ BlockAt(c', i) = d
  <2>1. PICK m \in Nat : m = i * 16 /\ m + 16 = (i + 1) * 16
    BY <1>2
  <2>2. DOMAIN c = 0..(m - 1) /\ c' = Put(c, m, d)
    BY <1>1, <1>3, <2>1
  <2>3. Appended(c', c, m, d, m + 16)
    BY <1>8, <2>2, BlockPut
  <2>4. Appended(c', c, i * 16, d, (i + 1) * 16)
    BY <2>1, <2>3
  <2> QED BY <1>2, <1>8, <2>4, BlockAppended
<1>11. PICK U : U[0] = T[0] /\ U[i+1] = ta' /\ EspeonEnciphered(job, U, c', i + 1)
  <2>1. PICK v \in Block : v = ta'
    BY <1>5
  <2>2. v = XorBlock(T[i], BlockAt(job.m, i))
    BY <1>1, <1>3, <1>4, <2>1
  <2>3. PICK out : out = c'
    OBVIOUS
  <2>4. BlockAt(out, i) = Left(TkAt(job, c, i), IF i = 0 THEN v ELSE BlockAt(job.m, i))
    BY <1>9, <1>10, <2>1, <2>3
  <2>5. \A q \in 0..(i-1) : BlockAt(out, q) = BlockAt(c, q)
    BY <1>10, <2>3
  <2>6. \E U : U[0] = T[0] /\ U[i+1] = v /\ EspeonEnciphered(job, U, out, i + 1)
    BY <1>2, <1>4, <2>2, <2>4, <2>5, EspeonMore
  <2> QED BY <2>1, <2>3, <2>6
<1>12. DOMAIN c' = 0..(i' * 16 - 1)
  BY <1>1, <1>10 DEF Appended
<1>13. tk' = TkAt(job', c', i')
  <2>1. PICK out : out = c'
    OBVIOUS
  <2>2. Chained(out, i) = TkAt(job, out, i + 1)
    BY <1>2, <1>3, EspeonSameChain
  <2> QED BY <1>1, <2>1, <2>2
<1>14. EspeonEncState'
  BY <1>1, <1>3, <1>4, <1>11, <1>12, <1>13 DEF EspeonEncState
<1>15. EspeonDecState'
  BY <1>1 DEF EspeonDecState
<1> QED BY <1>14, <1>15 DEF EspeonSums

LEMMA EspeonEncLastSums == ASSUME EspeonInv, EspeonEncLast PROVE EspeonSums'
<1> DEFINE last_m == XorBlock(Padded(recv.c, job.mlen), ta)
           d == XorBlock(Slice(recv.c, i * 16, LastLen), Right(LastTweak, last_m))
<1>1. /\ side = "enc" /\ pc = "message" /\ pc' = "transit" /\ i = Before(job.mlen)
      /\ tag' = Left(LastTweak, last_m) /\ c' = Put(c, i * 16, d)
      /\ side' = side /\ job' = job /\ recv' = recv /\ p' = p
  BY DEF EspeonEncLast, BlockLen
<1>2. i \in Nat /\ job.mlen \in Nat /\ job.mlen > 0 /\ LastLen \in Nat
  BY <1>1, MessageFacts, EspeonInvFacts
<1>3. /\ recv.c = job.m /\ recv.ad = job.ad /\ recv.npub = job.npub /\ p = Zeros(0)
      /\ DOMAIN c = 0..(i * 16 - 1) /\ tk = TkAt(job, c, i)
  BY <1>1, EspeonInvFacts DEF EspeonEncState
<1>4. PICK A, T : EspeonAdSummed(job, A, T[0]) /\ EspeonEnciphered(job, T, c, i) /\ ta = T[i]
  BY <1>1, EspeonInvFacts DEF EspeonEncState
<1>5. last_m = LastBlock(job, T) /\ LastTweak = TkEnd(job, c)
  BY <1>1, <1>3, <1>4, EspeonSameEnd DEF LastBlock
<1>6. /\ DOMAIN d = 0..(LastLen - 1)
      /\ \A j \in 0..(LastLen - 1) :
           d[j] = job.m[i * 16 + j] (+) Right(TkEnd(job, c), LastBlock(job, T))[j]
  BY <1>3, <1>5 DEF XorBlock, Slice
<1> HIDE DEF last_m, d
<1>7. /\ \A q \in 0..(i-1) : BlockAt(c', q) = BlockAt(c, q)
      /\ \A j \in 0..(LastLen - 1) : c'[i * 16 + j] = d[j]
  <2>1. PICK n \in Nat, m \in Nat : n = LastLen /\ m = i * 16
    BY <1>2
  <2>2. DOMAIN d = 0..(n - 1) /\ DOMAIN c = 0..(m - 1)
    BY <1>3, <1>6, <2>1
  <2>3. /\ Appended(Put(c, m, d), c, m, d, m + n)
        /\ \A j \in 0..(n-1) : Put(c, m, d)[m + j] = d[j]
    BY <2>2, EndAdded
  <2>4. Appended(c', c, m, d, m + n) /\ \A j \in 0..(n-1) : c'[m + j] = d[j]
    BY <1>1, <2>1, <2>3
  <2>5. \A q \in 0..(i-1) : BlockAt(c', q) = BlockAt(c, q)
    <3>1. PICK k, e : k = i /\ k \in Nat /\ m = k * 16 /\ e = m + n
      BY <1>2, <2>1
    <3>2. Appended(c', c, m, d, e)
      BY <2>4, <3>1
    <3>3. \A q \in 0..(k-1) : BlockAt(c', q) = BlockAt(c, q)
      BY ONLY <3>1, <3>2, BlocksKept
    <3> QED BY ONLY <3>1, <3>3
  <2>6. \A j \in 0..(LastLen - 1) : c'[i * 16 + j] = d[j]
    BY ONLY <2>1, <2>4
  <2> QED BY <2>5, <2>6
<1>8. PICK out : out = c'
  OBVIOUS
<1>9. \A n \in 0..i : TkAt(job, out, n) = TkAt(job, c, n)
  BY <1>2, <1>7, <1>8, SameChain
<1>10. EspeonEnciphered(job, T, out, i)
  <2>1. \A q \in 0..(i-1) : q \in 0..i
    BY <1>2
  <2> QED BY <1>4, <1>7, <1>8, <1>9, <2>1 DEF EspeonEnciphered
<1>11. LastLen = job.mlen - Before(job.mlen) * 16 /\ TkEnd(job, out) = TkEnd(job, c)
  <2>1. i \in 0..i
    BY <1>2
  <2> QED BY <1>1, <1>9, <2>1 DEF LastLen, BlockLen, TkEnd
<1>12. EspeonEnded(job, T, out, tag')
  BY <1>1, <1>5, <1>6, <1>7, <1>8, <1>11 DEF EspeonEnded
<1>13. EspeonEncrypted(job, A, T, c', tag')
  BY <1>1, <1>2, <1>4, <1>8, <1>10, <1>12 DEF EspeonEncrypted
<1>14. EspeonEncState'
  BY <1>1, <1>3, <1>13 DEF EspeonEncState
<1>15. EspeonDecState'
  BY <1>1 DEF EspeonDecState
<1> QED BY <1>14, <1>15 DEF EspeonSums

LEMMA EspeonTransitSums == ASSUME EspeonInv, EspeonTransit PROVE EspeonSums'
<1>1. /\ pc = "transit" /\ pc' = "begin" /\ side' = "dec"
      /\ job' = job /\ p' = p /\ c' = c /\ tag' = tag
  BY DEF EspeonTransit
<1>2. side = "enc"
  BY <1>1, EspeonInvFacts DEF Shape
<1>3. PICK A, T : EspeonEncrypted(job, A, T, c, tag)
  BY <1>1, <1>2, EspeonInvFacts DEF EspeonEncState
<1>4. p = Zeros(0)
  BY <1>2, EspeonInvFacts DEF EspeonEncState
<1>5. EspeonFollowing(A, T)'
  BY <1>1, <1>4 DEF EspeonFollowing, Following
<1>6. EspeonDecState'
  BY <1>1, <1>3, <1>5 DEF EspeonDecState
<1>7. EspeonEncState'
  BY <1>1 DEF EspeonEncState
<1> QED BY <1>6, <1>7 DEF EspeonSums

LEMMA EspeonDecEmptySums == ASSUME EspeonInv, EspeonDecEmpty PROVE EspeonSums'
<1>1. /\ side = "dec" /\ pc = "empty" /\ pc' = "done"
      /\ ret' = (IF recv.tag = ta THEN "ok" ELSE "bad")
      /\ side' = side /\ job' = job /\ recv' = recv /\ p' = p /\ c' = c /\ tag' = tag
  BY DEF EspeonDecEmpty
<1>2. job.mlen = 0 /\ job.m \in Buffer(0)
  BY <1>1, EspeonInvFacts DEF Args, Shape, Within
<1>3. EspeonDecState'
  <2> SUFFICES ASSUME recv = Sent
               PROVE  \E A, T : EspeonEncrypted(job, A, T, c, tag) /\ EspeonFollowing(A, T)'
    BY <1>1 DEF EspeonDecState, Sent
  <2>1. PICK A, T : EspeonEncrypted(job, A, T, c, tag) /\ EspeonFollowing(A, T)
    BY <1>1, EspeonInvFacts DEF EspeonDecState
  <2>2. p = Zeros(0) /\ ta = T[0] /\ recv.tag = T[0]
    BY <1>1, <1>2, <2>1 DEF EspeonFollowing, Following, EspeonEncrypted, Sent
  <2>3. ret' = "ok" /\ p' = job'.m
    BY <1>1, <1>2, <2>2, ZerosFacts
  <2>4. EspeonFollowing(A, T)'
    BY <1>1, <2>3 DEF EspeonFollowing, Following
  <2> QED BY <2>1, <2>4
<1>4. EspeonEncState'
  BY <1>1 DEF EspeonEncState
<1> QED BY <1>3, <1>4 DEF EspeonSums

\* What a block of the encryption decrypts to, its sum taken out of the first.
LEMMA EspeonOpens ==
  ASSUME EspeonForks, job \in EspeonCalls, NEW T, NEW k \in Nat, NEW q \in 0..(k-1),
         EspeonEnciphered(job, T, c, k), BlockAt(job.m, q) \in Block,
         \A l \in 0..(k-1) : BlockAt(c, l) \in Block,
         NEW d, NEW x, x = Undo(TkAt(job, c, q), BlockAt(c, q)),
         d = IF q = 0 THEN XorBlock(x, T[q]) ELSE x
  PROVE  d = BlockAt(job.m, q)
<1>1. /\ BlockAt(c, q) = Left(TkAt(job, c, q), InputAt(job, T, q))
      /\ T[q+1] = XorBlock(T[q], BlockAt(job.m, q))
      /\ T[q] \in Block /\ T[q+1] \in Block
  <2>1. q \in 0..k /\ q + 1 \in 0..k
    BY ONLY k \in Nat, q \in 0..(k-1)
  <2> QED BY <2>1 DEF EspeonEnciphered
<1>2. InputAt(job, T, q) \in Block
  BY <1>1 DEF InputAt
<1>3. TkAt(job, c, q) \in Buffer(TkLenOf(Wide)) /\ Wide \in BOOLEAN
  <2>1. \A l \in 0..(q-1) : l \in 0..(k-1)
    OBVIOUS
  <2> QED BY <2>1, TkAtFacts, EspeonJobFacts
<1>4. x = InputAt(job, T, q)
  BY <1>1, <1>2, <1>3, EspeonTkForks
<1>5. CASE q = 0
  <2>1. x = XorBlock(T[q], BlockAt(job.m, q))
    BY <1>1, <1>4, <1>5 DEF InputAt
  <2>2. d = XorBlock(XorBlock(T[q], BlockAt(job.m, q)), T[q])
    BY <1>5, <2>1
  <2>3. XorBlock(T[q], BlockAt(job.m, q)) = XorBlock(BlockAt(job.m, q), T[q])
    BY <1>1, XorBlockCommutes
  <2> QED BY <1>1, <2>2, <2>3, XorBlockFacts
<1>6. CASE q # 0
  BY <1>4, <1>6 DEF InputAt
<1> QED BY <1>5, <1>6

LEMMA EspeonDecBlockSums == ASSUME EspeonForks, EspeonInv, EspeonDecBlock PROVE EspeonSums'
<1> DEFINE x == Undo(tk, BlockAt(recv.c, i))
           d == IF i = 0 THEN XorBlock(x, ta) ELSE x
<1>1. /\ side = "dec" /\ pc = "message" /\ pc' = pc /\ i < Before(job.mlen) /\ i' = i + 1
      /\ p' = Put(p, i * 16, d) /\ ta' = XorBlock(ta, BlockAt(p', i))
      /\ tk' = Chained(recv.c, i)
      /\ side' = side /\ job' = job /\ recv' = recv /\ c' = c /\ tag' = tag
  BY DEF EspeonDecBlock, BlockLen
<1> HIDE DEF x, d
<1>2. /\ i \in Nat /\ BlockAt(job.m, i) \in Block /\ Before(job.mlen) \in Nat /\ job.mlen > 0
  BY <1>1, MessageFacts, EspeonInvFacts
<1>3. EspeonDecState'
  <2> SUFFICES ASSUME recv = Sent
               PROVE  \E A, T : EspeonEncrypted(job, A, T, c, tag) /\ EspeonFollowing(A, T)'
    BY <1>1 DEF EspeonDecState, Sent
  <2>1. PICK A, T : EspeonEncrypted(job, A, T, c, tag) /\ EspeonFollowing(A, T)
    BY <1>1, EspeonInvFacts DEF EspeonDecState
  <2>2. /\ ta = T[i] /\ tk = TkAt(job, c, i)
        /\ DOMAIN p = 0..(i * 16 - 1) /\ \A j \in 0..(i * 16 - 1) : p[j] = job.m[j]
    BY <1>1, <2>1 DEF EspeonFollowing, Following
  <2>3. PICK k \in Nat : k = Before(job.mlen)
    BY <1>2
  <2>4. i \in 0..(k-1) /\ EspeonEnciphered(job, T, c, k)
    BY <1>1, <1>2, <2>1, <2>3 DEF EspeonEncrypted
  <2>5. recv.c = c /\ recv.npub = job.npub
    BY DEF Sent
  <2>6. \A l \in 0..(k-1) : BlockAt(c, l) \in Block
    <3>1. BytesTo(c, k * 16)
      BY <1>1, <2>3, EspeonInvFacts DEF Shape
    <3> SUFFICES ASSUME NEW l \in 0..(k-1) PROVE BlockAt(c, l) \in Block
      OBVIOUS
    <3>2. \A j \in 0..15 : l * 16 + j \in 0..(k * 16 - 1)
      BY ONLY k \in Nat, l \in 0..(k-1)
    <3>3. \A j \in 0..15 : c[l * 16 + j] \in Byte
      BY <3>1, <3>2 DEF BytesTo
    <3> QED BY <3>3 DEF BlockAt, Slice, Block, Buffer, BlockLen
  <2>7. x = Undo(TkAt(job, c, i), BlockAt(c, i)) /\ d = IF i = 0 THEN XorBlock(x, T[i]) ELSE x
    BY <2>2, <2>5 DEF x, d
  <2>8. job \in EspeonCalls
    BY EspeonInvFacts
  <2>9. d = BlockAt(job.m, i) /\ d \in Block
    BY <1>2, <2>4, <2>6, <2>7, <2>8, EspeonOpens
  <2>10. Appended(p', p, i * 16, d, (i + 1) * 16) /\ BlockAt(p', i) = d
    <3>1. PICK m \in Nat : m = i * 16 /\ m + 16 = (i + 1) * 16
      BY <1>2
    <3>2. DOMAIN p = 0..(m - 1) /\ p' = Put(p, m, d)
      BY <1>1, <2>2, <3>1
    <3>3. Appended(p', p, m, d, m + 16)
      BY <2>9, <3>2, BlockPut
    <3>4. Appended(p', p, i * 16, d, (i + 1) * 16)
      BY <3>1, <3>3
    <3> QED BY <1>2, <2>9, <3>4, BlockAppended
  <2>11. ta' = T[i']
    BY <1>1, <2>2, <2>4, <2>9, <2>10 DEF EspeonEnciphered
  <2>12. DOMAIN p' = 0..(i' * 16 - 1)
    BY <1>1, <2>10 DEF Appended
  <2>13. ASSUME NEW j \in 0..((i + 1) * 16 - 1) PROVE p'[j] = job.m[j]
    <3>1. CASE j < i * 16
      <4>1. j \in 0..(i * 16 - 1)
        BY <1>2, <3>1
      <4> QED BY <4>1, <2>2, <2>10 DEF Appended
    <3>2. CASE ~(j < i * 16)
      <4>1. j \in (i * 16)..((i + 1) * 16 - 1) /\ j - i * 16 \in 0..15
        BY <1>2, <3>2
      <4>2. p'[j] = d[j - i * 16]
        BY <4>1, <2>10 DEF Appended
      <4>3. d[j - i * 16] = job.m[i * 16 + (j - i * 16)]
        BY <4>1, <2>9 DEF BlockAt, Slice, BlockLen
      <4>4. i * 16 + (j - i * 16) = j
        BY <1>2
      <4> QED BY <4>2, <4>3, <4>4
    <3> QED BY <3>1, <3>2
  <2>14. tk' = TkAt(job, c, i')
    <3>1. Chained(c, i) = TkAt(job, c, i + 1)
      BY <1>2, <2>5, EspeonSameChain
    <3> QED BY <1>1, <2>5, <3>1
  <2>15. EspeonFollowing(A, T)'
    BY <1>1, <2>11, <2>12, <2>13, <2>14 DEF EspeonFollowing, Following
  <2> QED BY <2>1, <2>15
<1>4. EspeonEncState'
  BY <1>1 DEF EspeonEncState
<1> QED BY <1>3, <1>4 DEF EspeonSums

\* What the last block decrypts to is the end of the message with its padding.
LEMMA EspeonDecLastOpens ==
  ASSUME EspeonForks, EspeonInv, pc = "message", i = Before(job.mlen), recv = Sent,
         NEW T, ta = T[i], tk = TkAt(job, c, i), tk \in Buffer(TkLenOf(Wide)),
         EspeonEnciphered(job, T, c, i), EspeonEnded(job, T, c, tag),
         NEW left, left = Undo(LastTweak, recv.tag), NEW x, x = XorBlock(left, ta)
  PROVE  x = Padded(job.m, job.mlen) /\ Good(x, Right(LastTweak, left))
<1>1. /\ i \in Nat /\ job.mlen \in Nat /\ job.mlen > 0 /\ job.m \in Buffer(job.mlen)
      /\ Padded(job.m, job.mlen) \in Block /\ LastLen \in Nat
  BY MessageFacts, EspeonInvFacts
<1>2. recv.c = c /\ recv.tag = tag
  BY DEF Sent
<1>3. LastTweak = TkEnd(job, c)
  BY EspeonSameEnd
<1>4. recv.tag = Left(LastTweak, LastBlock(job, T))
  BY <1>2, <1>3 DEF EspeonEnded
<1>5. T[i] \in Block
  <2>1. i \in 0..i
    BY <1>1
  <2> QED BY <2>1 DEF EspeonEnciphered
<1>6. LastBlock(job, T) \in Block
  BY <1>1, <1>5, XorBlockFacts DEF LastBlock
<1>7. LastTweak \in Buffer(TkLenOf(Wide)) /\ Wide \in BOOLEAN
  BY EspeonInvFacts, EspeonTweaksAre, LastFacts, MarkFacts
<1>8. left = LastBlock(job, T)
  BY <1>4, <1>6, <1>7, EspeonTkForks
<1>9. x = Padded(job.m, job.mlen)
  BY <1>1, <1>5, <1>8, XorBlockFacts DEF LastBlock
<1>10. LastLen = job.mlen - Before(job.mlen) * 16
  BY DEF LastLen, BlockLen
<1>11. ASSUME NEW j \in LastLen..(BlockLen - 1)
       PROVE  x[j] = IF j = LastLen THEN Pad ELSE Zero
  BY <1>1, <1>9, <1>10, PaddedFacts DEF BlockLen
<1>12. ASSUME NEW j \in 0..(LastLen - 1)
       PROVE  x[j] (+) Right(LastTweak, left)[j] = recv.c[i * BlockLen + j]
  <2>1. x[j] = job.m[i * 16 + j]
    BY <1>1, <1>9, <1>10, PaddedFacts
  <2>2. c[i * 16 + j] = job.m[i * 16 + j] (+) Right(TkEnd(job, c), LastBlock(job, T))[j]
    BY <1>10 DEF EspeonEnded
  <2> QED BY <1>2, <1>3, <1>8, <2>1, <2>2 DEF BlockLen
<1>13. Good(x, Right(LastTweak, left))
  BY <1>11, <1>12 DEF Good
<1> QED BY <1>9, <1>13

LEMMA EspeonDecLastSums == ASSUME EspeonForks, EspeonInv, EspeonDecLast PROVE EspeonSums'
<1> DEFINE left == Undo(LastTweak, recv.tag)
           x == XorBlock(left, ta)
           d == Slice(x, 0, LastLen)
<1>1. /\ side = "dec" /\ pc = "message" /\ pc' = "done" /\ i = Before(job.mlen)
      /\ p' = Put(p, i * 16, d)
      /\ ret' = (IF Good(x, Right(LastTweak, left)) THEN "ok" ELSE "bad")
      /\ side' = side /\ job' = job /\ recv' = recv /\ c' = c /\ tag' = tag
  BY DEF EspeonDecLast, BlockLen
<1> HIDE DEF left
<1>2. /\ i \in Nat /\ job.mlen \in Nat /\ job.mlen > 0 /\ job.m \in Buffer(job.mlen)
      /\ LastLen \in Nat /\ i * 16 + LastLen = job.mlen
      /\ LastLen = job.mlen - Before(job.mlen) * 16
  BY <1>1, MessageFacts, EspeonInvFacts DEF LastLen, BlockLen
<1>3. EspeonDecState'
  <2> SUFFICES ASSUME recv = Sent
               PROVE  \E A, T : EspeonEncrypted(job, A, T, c, tag) /\ EspeonFollowing(A, T)'
    BY <1>1 DEF EspeonDecState, Sent
  <2>1. PICK A, T : EspeonEncrypted(job, A, T, c, tag) /\ EspeonFollowing(A, T)
    BY <1>1, EspeonInvFacts DEF EspeonDecState
  <2>2. /\ ta = T[i] /\ tk = TkAt(job, c, i) /\ tk \in Buffer(TkLenOf(Wide))
        /\ DOMAIN p = 0..(i * 16 - 1) /\ \A j \in 0..(i * 16 - 1) : p[j] = job.m[j]
    BY <1>1, <2>1, EspeonInvFacts DEF EspeonFollowing, Following, TkShape
  <2>3. EspeonEnciphered(job, T, c, i) /\ EspeonEnded(job, T, c, tag)
    BY <1>1, <1>2, <2>1 DEF EspeonEncrypted
  <2>4. x = Padded(job.m, job.mlen) /\ Good(x, Right(LastTweak, left))
    BY <1>1, <2>2, <2>3, EspeonDecLastOpens DEF left
  <2> HIDE DEF x
  <2>5. /\ DOMAIN d = 0..(LastLen - 1)
        /\ \A j \in 0..(LastLen - 1) : d[j] = x[j]
    BY DEF Slice
  <2> HIDE DEF d
  <2>6. PICK n \in Nat, m \in Nat : n = LastLen /\ m = i * 16
    BY <1>2
  <2>7. Appended(p', p, m, d, m + n) /\ \A j \in 0..(n-1) : p'[m + j] = d[j]
    <3>1. DOMAIN d = 0..(n - 1) /\ DOMAIN p = 0..(m - 1)
      BY <2>2, <2>5, <2>6
    <3>2. /\ Appended(Put(p, m, d), p, m, d, m + n)
          /\ \A j \in 0..(n-1) : Put(p, m, d)[m + j] = d[j]
      BY <3>1, EndAdded
    <3> QED BY <1>1, <2>6, <3>2
  <2>8. DOMAIN p' = 0..(job.mlen - 1) /\ p' = [j \in 0..(job.mlen - 1) |-> p'[j]]
    BY <1>2, <2>6, <2>7 DEF Appended
  <2>9. ASSUME NEW j \in 0..(job.mlen - 1) PROVE p'[j] = job.m[j]
    <3>1. CASE j < i * 16
      <4>1. j \in 0..(i * 16 - 1)
        BY <1>2, <3>1
      <4> QED BY <4>1, <2>2, <2>6, <2>7 DEF Appended
    <3>2. CASE ~(j < i * 16)
      <4>1. PICK l \in 0..(n-1) : l = j - i * 16 /\ j = i * 16 + l
        <5>1. j - i * 16 \in 0..(n-1) /\ j = i * 16 + (j - i * 16)
          BY <1>2, <2>6, <3>2
        <5> QED BY <5>1
      <4>2. p'[j] = x[l]
        BY <4>1, <2>5, <2>6, <2>7
      <4>3. x[l] = job.m[Before(job.mlen) * 16 + l]
        BY <1>2, <2>4, <2>6, PaddedFacts
      <4> QED BY <1>1, <4>1, <4>2, <4>3
    <3> QED BY <3>1, <3>2
  <2>10. p' = job.m
    <3>1. job.m = [j \in 0..(job.mlen - 1) |-> job.m[j]]
      BY <1>2 DEF Buffer
    <3> QED BY <2>8, <2>9, <3>1
  <2>11. EspeonFollowing(A, T)'
    BY <1>1, <2>4, <2>10 DEF EspeonFollowing, Following
  <2> QED BY <2>1, <2>11
<1>4. EspeonEncState'
  BY <1>1 DEF EspeonEncState
<1> QED BY <1>3, <1>4 DEF EspeonSums

LEMMA EspeonNextSums == ASSUME EspeonForks, EspeonInv, [EspeonNext]_espeonVars PROVE EspeonSums'
<1>1. CASE EspeonNext
  BY <1>1, EspeonRefuseSums, EspeonBeginSums, EspeonAdBlockSums, EspeonAdLastSums,
     EspeonEncEmptySums, EspeonEncBlockSums, EspeonEncLastSums, EspeonTransitSums,
     EspeonDecEmptySums, EspeonDecBlockSums, EspeonDecLastSums DEF EspeonNext
<1>2. CASE UNCHANGED espeonVars
  <2>1. EspeonEncState'
    BY <1>2, EspeonInvFacts DEF espeonVars, EspeonEncState
  <2>2. EspeonDecState'
    BY <1>2, EspeonInvFacts DEF espeonVars, EspeonDecState, EspeonFollowing, Following, Sent
  <2> QED BY <2>1, <2>2 DEF EspeonSums
<1> QED BY <1>1, <1>2

LEMMA EspeonInvGives == EspeonInv => RoundTrip
<1> SUFFICES ASSUME EspeonInv, pc = "done", side = "dec", recv = Sent PROVE ret = "ok" /\ p = job.m
  BY DEF RoundTrip
<1>1. PICK A, T : EspeonEncrypted(job, A, T, c, tag) /\ EspeonFollowing(A, T)
  BY EspeonInvFacts DEF EspeonDecState
<1> QED BY <1>1 DEF EspeonFollowing, Following

\* Over any fork cipher, in either instance, what encryption returned decrypts to
\* the message.
THEOREM EspeonInverts ==
  ASSUME EspeonForks
  PROVE  EspeonSpec => []RoundTrip
<1>1. EspeonInit => EspeonInv
  BY InitEspeonShape, EspeonInitSums DEF EspeonInv
<1>2. EspeonInv /\ [EspeonNext]_espeonVars => EspeonInv'
  <2>1. EspeonInv => EspeonShape
    BY DEF EspeonInv
  <2>2. EspeonInv /\ [EspeonNext]_espeonVars => EspeonSums'
    BY EspeonNextSums
  <2> QED BY <2>1, <2>2, StepEspeonShape DEF EspeonInv
<1> QED BY <1>1, <1>2, EspeonInvGives, PTL DEF EspeonSpec

(***************************************************************************)
(* The tweaks of an encryption of Espeon. The last byte of a tweak is its  *)
(* mark: that of associated data, of a block, or of the last block. Two of *)
(* associated data differ in the bytes of the counter.                     *)
(***************************************************************************)
AdMark     == IF Wide THEN job.npub[15] ELSE Zero
BlockMarks == IF Wide THEN {Zero, One} ELSE {One}
TkMark(t)  == t[TkLenOf(Wide) - 1]

EspeonTks  == [kind : {"ad", "block", "last"}, tweak : Buffer(TkLenOf(Wide))]

\* Only blocks may have a tweak in common.
UsedApart ==
  \A a, b \in 1..Len(used) :
    a # b /\ used[a].kind # "block" => used[a].tweak # used[b].tweak

EspeonUsed ==
  /\ used \in Seq(EspeonTks)
  /\ side = "enc" => recv.npub = job.npub
  /\ side = "enc" /\ pc = "begin" => used = << >>
  /\ side = "enc" /\ pc \in {"ad", "message"} => TkMark(tk) \in BlockMarks
  /\ side = "enc" /\ pc = "ad" =>
       \A k \in 1..Len(used) :
         used[k].kind = "ad" /\ \E b \in 0..(i-1) : used[k].tweak = SumTkAt(job, b)
  /\ side = "enc" /\ pc = "message" =>
       \A k \in 1..Len(used) :
         \/ used[k].kind = "ad" /\ TkMark(used[k].tweak) = AdMark
         \/ used[k].kind = "block" /\ TkMark(used[k].tweak) \in BlockMarks
  /\ NoCollision /\ NonceIsNoMark => UsedApart

EspeonUsedInv == EspeonShape /\ EspeonUsed

LEMMA NumByteValue == ASSUME NEW v \in 0..255 PROVE Value(NumByte(v)) = v
<1>1. \A q \in 0..7 : Bit(q, NumByte(v)) = IF (v \div 2^q) % 2 = 1 THEN 1 ELSE 0
  BY DEF Bit, NumByte, Bits
<1>2. /\ Bit(0, NumByte(v)) = v % 2           /\ Bit(1, NumByte(v)) = (v \div 2) % 2
      /\ Bit(2, NumByte(v)) = (v \div 4) % 2  /\ Bit(3, NumByte(v)) = (v \div 8) % 2
      /\ Bit(4, NumByte(v)) = (v \div 16) % 2 /\ Bit(5, NumByte(v)) = (v \div 32) % 2
      /\ Bit(6, NumByte(v)) = (v \div 64) % 2 /\ Bit(7, NumByte(v)) = (v \div 128) % 2
  <2>1. /\ 2^0 = 1 /\ 2^1 = 2 /\ 2^2 = 4 /\ 2^3 = 8 /\ 2^4 = 16 /\ 2^5 = 32 /\ 2^6 = 64
        /\ 2^7 = 128
    OBVIOUS
  <2>2. v \div 1 = v
    OBVIOUS
  <2>3. Bit(0, NumByte(v)) = v % 2
    BY <1>1, <2>1, <2>2
  <2>4. Bit(1, NumByte(v)) = (v \div 2) % 2
    BY <1>1, <2>1
  <2>5. Bit(2, NumByte(v)) = (v \div 4) % 2
    BY <1>1, <2>1
  <2>6. Bit(3, NumByte(v)) = (v \div 8) % 2
    BY <1>1, <2>1
  <2>7. Bit(4, NumByte(v)) = (v \div 16) % 2
    BY <1>1, <2>1
  <2>8. Bit(5, NumByte(v)) = (v \div 32) % 2
    BY <1>1, <2>1
  <2>9. Bit(6, NumByte(v)) = (v \div 64) % 2
    BY <1>1, <2>1
  <2>10. Bit(7, NumByte(v)) = (v \div 128) % 2
    BY <1>1, <2>1
  <2> QED BY <2>3, <2>4, <2>5, <2>6, <2>7, <2>8, <2>9, <2>10
<1>3. v = (v % 2) + 2 * ((v \div 2) % 2) + 4 * ((v \div 4) % 2) + 8 * ((v \div 8) % 2)
          + 16 * ((v \div 16) % 2) + 32 * ((v \div 32) % 2) + 64 * ((v \div 64) % 2)
          + 128 * ((v \div 128) % 2)
  OBVIOUS
<1> QED BY <1>2, <1>3 DEF Value

LEMMA NumByteSame ==
  ASSUME NEW v \in 0..255, NEW w \in 0..255, NumByte(v) = NumByte(w)
  PROVE  v = w
BY NumByteValue

\* The marks are told from each other.
LEMMA MarksApart ==
  ASSUME NonceIsNoMark
  PROVE  AdMark \notin BlockMarks /\ AdMark \notin Marks /\ BlockMarks \cap Marks = {}
<1>1. Value(NumByte(2)) = 2 /\ Value(NumByte(3)) = 3
  BY NumByteValue
<1>2. Value(Zero) = 0 /\ Value(One) = 1
  BY DEF Value, Bit, Zero, One
<1>3. Zero # One
  BY <1>2
<1>4. CASE Wide
  <2>1. Value(AdMark) > 3
    BY <1>4 DEF NonceIsNoMark, AdMark, BlockLen
  <2>2. AdMark # Zero /\ AdMark # One /\ AdMark # NumByte(2) /\ AdMark # NumByte(3)
    BY <1>1, <1>2, <2>1
  <2> QED BY <1>1, <1>2, <1>4, <2>2 DEF BlockMarks, Marks
<1>5. CASE ~Wide
  BY <1>1, <1>2, <1>3, <1>5 DEF BlockMarks, Marks, AdMark
<1> QED BY <1>4, <1>5

\* Two counters of two bytes make two tweaks.
LEMMA CountersApart ==
  ASSUME NEW wide \in BOOLEAN, NEW npub \in Buffer(NonceLenOf(wide)),
         NEW v \in Nat, v < 256 * 256, NEW w \in Nat, w < 256 * 256,
         AdTweakOf(wide, npub, v) = AdTweakOf(wide, npub, w)
  PROVE  v = w
<1>1. /\ NumByte((v \div 256) % 256) = NumByte((w \div 256) % 256)
      /\ NumByte(v % 256) = NumByte(w % 256)
  BY AdTweakFacts
<1>2. /\ v \div 256 \in 0..255 /\ w \div 256 \in 0..255
      /\ v % 256 \in 0..255 /\ w % 256 \in 0..255
      /\ v = 256 * (v \div 256) + (v % 256) /\ w = 256 * (w \div 256) + (w % 256)
  OBVIOUS
<1>3. (v \div 256) % 256 = v \div 256 /\ (w \div 256) % 256 = w \div 256
  BY <1>2
<1>4. v \div 256 = w \div 256 /\ v % 256 = w % 256
  <2>1. PICK a \in 0..255, b \in 0..255, d \in 0..255, e \in 0..255 :
          a = v \div 256 /\ b = w \div 256 /\ d = v % 256 /\ e = w % 256
    BY <1>2
  <2>2. NumByte(a) = NumByte(b) /\ NumByte(d) = NumByte(e)
    BY <1>1, <1>3, <2>1
  <2>3. a = b /\ d = e
    BY ONLY <2>2, a \in 0..255, b \in 0..255, d \in 0..255, e \in 0..255, NumByteSame
  <2> QED BY <2>1, <2>3
<1> QED BY <1>2, <1>4

\* The counter of a block of associated data, for which NoCollision holds.
LEMMA AdCounters ==
  ASSUME job \in EspeonCalls, NoCollision, job.adlen > 0,
         NEW b \in Nat, b < Before(job.adlen),
         NEW e, e = EspeonAdEnd(Complete(job.adlen), job.mlen = 0)
  PROVE  /\ (b + 4) % EspeonCounterSize = b + 4 /\ b + 4 < 256 * 256
         /\ e \in Nat /\ e < 256 * 256 /\ b + 4 # e
<1>1. /\ EspeonCounterSize \in Nat /\ EspeonCounterSize <= 256 * 256 /\ job.adlen \in Nat
      /\ job.mlen \in Nat
  <2>1. EspeonCounterSize \in Nat /\ EspeonCounterSize <= 256 * 256
    BY EspeonCounterAssumption
  <2> QED BY <2>1, EspeonCallsAssumption
<1>2. Before(job.adlen) \in Nat
  BY <1>1, BeforeFacts
<1>3. Before(job.adlen) + 4 <= EspeonCounterSize
  BY DEF NoCollision
<1>4. b + 4 < EspeonCounterSize
  BY <1>1, <1>2, <1>3
<1>5. (b + 4) % EspeonCounterSize = b + 4 /\ b + 4 < 256 * 256
  <2>1. PICK n \in Nat : n = b + 4
    OBVIOUS
  <2>2. n % EspeonCounterSize = n
    BY <1>1, <1>4, <2>1
  <2> QED BY <1>1, <1>4, <2>1, <2>2
<1>6. CASE job.mlen = 0 \/ Complete(job.adlen)
  <2>1. e = 0
    BY <1>6 DEF EspeonAdEnd
  <2> QED BY <1>5, <2>1
<1>7. CASE ~(job.mlen = 0 \/ Complete(job.adlen))
  <2>1. Before(job.adlen) <= 8
    BY <1>1, <1>7 DEF NoCollision
  <2>2. b + 4 < 12
    BY <1>2, <2>1
  <2>3. e = 12
    BY <1>7 DEF EspeonAdEnd
  <2> QED BY <1>5, <2>2, <2>3
<1> QED BY <1>6, <1>7

\* What a step on the way of an encryption does: one tweak more.
LEMMA UsesMore ==
  ASSUME EspeonUsed, NEW kind \in {"ad", "block", "last"}, NEW t \in Buffer(TkLenOf(Wide)),
         used' = Append(used, [kind |-> kind, tweak |-> t]),
         NoCollision /\ NonceIsNoMark =>
           \A k \in 1..Len(used) :
             used[k].kind # "block" \/ kind # "block" => used[k].tweak # t
  PROVE  /\ used' \in Seq(EspeonTks) /\ Len(used') = Len(used) + 1 /\ Len(used) \in Nat
         /\ \A k \in 1..Len(used) : used'[k] = used[k]
         /\ used'[Len(used) + 1] = [kind |-> kind, tweak |-> t]
         /\ NoCollision /\ NonceIsNoMark => UsedApart'
<1>1. used \in Seq(EspeonTks)
  BY DEF EspeonUsed
<1>2. PICK x \in EspeonTks : x = [kind |-> kind, tweak |-> t]
  BY DEF EspeonTks
<1>3. used' = Append(used, x)
  BY <1>2
<1>4. /\ used' \in Seq(EspeonTks) /\ Len(used') = Len(used) + 1 /\ Len(used) \in Nat
      /\ \A k \in 1..Len(used) : used'[k] = used[k]
      /\ used'[Len(used) + 1] = x
  BY <1>1, <1>3
<1>5. ASSUME NoCollision, NonceIsNoMark PROVE UsedApart'
  <2> SUFFICES ASSUME NEW a \in 1..Len(used'), NEW b \in 1..Len(used'), a # b,
                      used'[a].kind # "block"
               PROVE  used'[a].tweak # used'[b].tweak
    BY DEF UsedApart
  <2>1. CASE a = Len(used) + 1
    <3>1. b \in 1..Len(used)
      BY <1>4, <2>1
    <3> QED BY <1>2, <1>4, <1>5, <2>1, <3>1
  <2>2. CASE b = Len(used) + 1
    <3>1. a \in 1..Len(used)
      BY <1>4, <2>2
    <3> QED BY <1>2, <1>4, <1>5, <2>2, <3>1
  <2>3. CASE a # Len(used) + 1 /\ b # Len(used) + 1
    <3>1. a \in 1..Len(used) /\ b \in 1..Len(used)
      BY <1>4, <2>3
    <3> QED BY <1>4, <1>5, <3>1 DEF EspeonUsed, UsedApart
  <2> QED BY <2>1, <2>2, <2>3
<1> QED BY <1>2, <1>4, <1>5

\* Of one call.
LEMMA SameUses ==
  ASSUME job' = job
  PROVE  /\ Wide' = Wide /\ AdMark' = AdMark /\ BlockMarks' = BlockMarks /\ EspeonTks' = EspeonTks
         /\ NoCollision' = NoCollision /\ NonceIsNoMark' = NonceIsNoMark
BY DEF Wide, AdMark, BlockMarks, EspeonTks, NoCollision, NonceIsNoMark, Before, Complete

LEMMA UsesKept ==
  ASSUME EspeonUsed, job' = job, used' = used
  PROVE  used' \in Seq(EspeonTks') /\ (NoCollision' /\ NonceIsNoMark' => UsedApart')
<1>1. EspeonTks' = EspeonTks /\ NoCollision' = NoCollision /\ NonceIsNoMark' = NonceIsNoMark
  BY SameUses
<1>2. UsedApart' <=> UsedApart
  BY DEF UsedApart
<1> QED BY <1>1, <1>2 DEF EspeonUsed

\* The steps after which no encryption uses a tweak of its own any more.
LEMMA EspeonQuiet ==
  ASSUME EspeonUsed, job' = job, used' = used, side' = "enc" => recv'.npub = job.npub,
         side' = "dec" \/ pc' \in {"empty", "transit", "done"}
  PROVE  EspeonUsed'
<1>1. ~(side' = "enc" /\ pc' \in {"begin", "ad", "message"})
  OBVIOUS
<1> QED BY <1>1, UsesKept DEF EspeonUsed

LEMMA EspeonBeginUses == ASSUME EspeonUsedInv, EspeonBegin PROVE EspeonUsed'
<1>1. /\ pc = "begin" /\ pc' \in {"ad", "message"} /\ job' = job /\ side' = side /\ recv' = recv
      /\ used' = used /\ i' = 0 /\ tk' = FirstTweak
  BY DEF EspeonBegin
<1>2. EspeonUsed /\ EspeonShape /\ Wide \in BOOLEAN /\ recv.npub \in Buffer(NonceLenOf(Wide))
  BY EspeonJobFacts DEF EspeonUsedInv, EspeonShape, TkShape
<1>3. CASE side = "dec"
  BY <1>1, <1>2, <1>3, EspeonQuiet
<1>4. CASE side = "enc"
  <2>1. used = << >> /\ recv.npub = job.npub
    BY <1>1, <1>2, <1>4 DEF EspeonUsed
  <2>2. \A k \in 1..Len(used') : FALSE
    BY <1>1, <2>1
  <2>3. TkMark(tk)' \in BlockMarks'
    <3>1. PICK t : t = tk' /\ t = FirstTkOf(Wide, recv.npub)
      BY <1>1, EspeonTweaksAre
    <3>2. t[TkLenOf(Wide) - 1] = IF Wide THEN Zero ELSE One
      BY <1>2, <3>1, FirstFacts
    <3>3. t[TkLenOf(Wide) - 1] \in BlockMarks
      BY <3>2 DEF BlockMarks
    <3> QED BY <1>1, <3>1, <3>3, SameUses DEF TkMark
  <2>4. used' \in Seq(EspeonTks') /\ (NoCollision' /\ NonceIsNoMark' => UsedApart')
    BY <1>1, <1>2, UsesKept
  <2> QED BY <1>1, <2>1, <2>2, <2>3, <2>4 DEF EspeonUsed
<1> QED BY <1>2, <1>3, <1>4 DEF EspeonShape, Shape

LEMMA EspeonAdBlockUses == ASSUME EspeonUsedInv, EspeonAdBlock PROVE EspeonUsed'
<1> DEFINE t == EspeonAdTweak(AdCounter)
<1>1. /\ pc = "ad" /\ pc' = pc /\ job' = job /\ side' = side /\ recv' = recv
      /\ i < Before(job.adlen) /\ i' = i + 1 /\ tk' = tk
      /\ used' = IF side = "enc" THEN Append(used, [kind |-> "ad", tweak |-> t]) ELSE used
  BY DEF EspeonAdBlock, EspeonUse
<1> HIDE DEF t
<1>2. /\ EspeonUsed /\ job \in EspeonCalls /\ side \in {"enc", "dec"} /\ i \in Nat
      /\ Wide \in BOOLEAN /\ job.npub \in Buffer(NonceLenOf(Wide)) /\ job.adlen > 0
  BY <1>1, EspeonJobFacts DEF EspeonUsedInv, EspeonShape, Shape, Within
<1>3. CASE side = "dec"
  BY <1>1, <1>2, <1>3, EspeonQuiet
<1>4. CASE side = "enc"
  <2>1. /\ recv.npub = job.npub /\ TkMark(tk) \in BlockMarks
        /\ \A k \in 1..Len(used) :
             used[k].kind = "ad" /\ \E b \in 0..(i-1) : used[k].tweak = SumTkAt(job, b)
    BY <1>1, <1>2, <1>4 DEF EspeonUsed
  <2>2. t = SumTkAt(job, i)
    BY <2>1, EspeonSameTweaks DEF t
  <2>3. t \in Buffer(TkLenOf(Wide))
    <3>1. PICK w : t = AdTweakOf(Wide, job.npub, w)
      BY <2>2 DEF SumTkAt, SumTk, WideOf, Wide
    <3> QED BY <1>2, <3>1, AdTweakFacts
  <2>4. ASSUME NoCollision, NEW k \in 1..Len(used) PROVE used[k].tweak # t
    <3> SUFFICES ASSUME used[k].tweak = t PROVE FALSE
      OBVIOUS
    <3>1. PICK b \in 0..(i-1) : used[k].tweak = SumTkAt(job, b)
      BY <2>1
    <3>2. b \in Nat /\ b < i /\ b < Before(job.adlen)
      <4>1. Before(job.adlen) \in Nat
        BY <1>2, EspeonCallsAssumption, BeforeFacts
      <4> QED BY <1>1, <1>2, <3>1, <4>1
    <3>3. PICK v \in Nat, w \in Nat : v = b + 4 /\ w = i + 4
      BY <1>2, <3>2
    <3>4. /\ (b + 4) % EspeonCounterSize = v /\ v < 256 * 256
          /\ (i + 4) % EspeonCounterSize = w /\ w < 256 * 256
      BY <1>1, <1>2, <2>4, <3>2, <3>3, AdCounters
    <3>5. AdTweakOf(Wide, job.npub, v) = AdTweakOf(Wide, job.npub, w)
      BY <2>2, <3>1, <3>4 DEF SumTkAt, SumTk, WideOf, Wide
    <3>6. v = w
      BY <1>2, <3>4, <3>5, CountersApart
    <3> QED BY <1>2, <3>2, <3>3, <3>6
  <2>5. /\ used' \in Seq(EspeonTks) /\ Len(used') = Len(used) + 1 /\ Len(used) \in Nat
        /\ \A k \in 1..Len(used) : used'[k] = used[k]
        /\ used'[Len(used) + 1] = [kind |-> "ad", tweak |-> t]
        /\ NoCollision /\ NonceIsNoMark => UsedApart'
    BY <1>1, <1>2, <1>4, <2>3, <2>4, UsesMore
  <2>6. ASSUME NEW k \in 1..Len(used')
        PROVE  used'[k].kind = "ad" /\ \E b \in 0..(i'-1) : used'[k].tweak = SumTkAt(job, b)
    <3>1. CASE k = Len(used) + 1
      <4>1. i \in 0..(i'-1)
        BY <1>1, <1>2
      <4> QED BY <2>2, <2>5, <3>1, <4>1
    <3>2. CASE k # Len(used) + 1
      <4>1. k \in 1..Len(used)
        BY <2>5, <3>2
      <4>2. PICK b \in 0..(i-1) : used[k].tweak = SumTkAt(job, b)
        BY <2>1, <4>1
      <4>3. b \in 0..(i'-1)
        BY <1>1, <1>2
      <4> QED BY <2>1, <2>5, <4>1, <4>2, <4>3
    <3> QED BY <3>1, <3>2
  <2>7. TkMark(tk)' \in BlockMarks'
    BY <1>1, <2>1, SameUses DEF TkMark
  <2>8. /\ job' = job /\ side' = "enc" /\ pc' = "ad" /\ recv'.npub = job'.npub
        /\ EspeonTks' = EspeonTks /\ NoCollision' = NoCollision /\ NonceIsNoMark' = NonceIsNoMark
    BY <1>1, <1>4, <2>1, SameUses
  <2>9. \A k \in 1..Len(used') :
          used'[k].kind = "ad" /\ \E b \in 0..(i'-1) : used'[k].tweak = SumTkAt(job', b)
    BY <2>6, <2>8
  <2> QED BY <2>5, <2>7, <2>8, <2>9 DEF EspeonUsed
<1> QED BY <1>2, <1>3, <1>4

LEMMA EspeonAdLastUses == ASSUME EspeonUsedInv, EspeonAdLast PROVE EspeonUsed'
<1> DEFINE e == EspeonAdEnd(Complete(job.adlen), job.mlen = 0)
           t == EspeonAdTweak(e)
<1>1. /\ pc = "ad" /\ pc' \in {"empty", "message"} /\ job' = job /\ side' = side /\ recv' = recv
      /\ i = Before(job.adlen) /\ tk' = tk
      /\ used' = IF side = "enc" THEN Append(used, [kind |-> "ad", tweak |-> t]) ELSE used
  BY DEF EspeonAdLast, EspeonUse
<1>2. t = AdTweakOf(Wide, recv.npub, e)
  BY EspeonTweaksAre
<1> HIDE DEF t
<1>3. PICK n : n = e
  OBVIOUS
<1> HIDE DEF e
<1>4. /\ EspeonUsed /\ job \in EspeonCalls /\ side \in {"enc", "dec"} /\ i \in Nat
      /\ Wide \in BOOLEAN /\ job.npub \in Buffer(NonceLenOf(Wide)) /\ job.adlen > 0
  BY <1>1, EspeonJobFacts DEF EspeonUsedInv, EspeonShape, Shape, Within
<1>5. CASE side = "dec"
  BY <1>1, <1>4, <1>5, EspeonQuiet
<1>6. CASE side = "enc"
  <2>1. /\ recv.npub = job.npub /\ TkMark(tk) \in BlockMarks
        /\ \A k \in 1..Len(used) :
             used[k].kind = "ad" /\ \E b \in 0..(i-1) : used[k].tweak = SumTkAt(job, b)
    BY <1>1, <1>4, <1>6 DEF EspeonUsed
  <2>2. t = AdTweakOf(Wide, job.npub, n)
    BY <1>2, <1>3, <2>1
  <2>3. t \in Buffer(TkLenOf(Wide)) /\ TkMark(t) = AdMark
    BY <1>4, <2>2, AdTweakFacts DEF TkMark, AdMark
  <2>4. ASSUME NoCollision, NEW k \in 1..Len(used) PROVE used[k].tweak # t
    <3> SUFFICES ASSUME used[k].tweak = t PROVE FALSE
      OBVIOUS
    <3>1. PICK b \in 0..(i-1) : used[k].tweak = SumTkAt(job, b)
      BY <2>1
    <3>2. b \in Nat /\ b < Before(job.adlen)
      BY <1>1, <1>4, <3>1
    <3>3. PICK v \in Nat : v = b + 4
      BY <3>2
    <3>4. /\ (b + 4) % EspeonCounterSize = v /\ v < 256 * 256
          /\ n \in Nat /\ n < 256 * 256 /\ v # n
      BY <1>3, <1>4, <2>4, <3>2, <3>3, AdCounters DEF e
    <3>5. AdTweakOf(Wide, job.npub, v) = AdTweakOf(Wide, job.npub, n)
      BY <2>2, <3>1, <3>4 DEF SumTkAt, SumTk, WideOf, Wide
    <3>6. v = n
      BY <1>4, <3>4, <3>5, CountersApart
    <3> QED BY <3>4, <3>6
  <2>5. /\ used' \in Seq(EspeonTks) /\ Len(used') = Len(used) + 1 /\ Len(used) \in Nat
        /\ \A k \in 1..Len(used) : used'[k] = used[k]
        /\ used'[Len(used) + 1] = [kind |-> "ad", tweak |-> t]
        /\ NoCollision /\ NonceIsNoMark => UsedApart'
    BY <1>1, <1>4, <1>6, <2>3, <2>4, UsesMore
  <2>6. ASSUME NEW k \in 1..Len(used')
        PROVE  used'[k].kind = "ad" /\ TkMark(used'[k].tweak) = AdMark
    <3>1. CASE k = Len(used) + 1
      BY <2>3, <2>5, <3>1
    <3>2. CASE k # Len(used) + 1
      <4>1. k \in 1..Len(used)
        BY <2>5, <3>2
      <4>2. PICK b \in 0..(i-1) : used[k].tweak = SumTkAt(job, b)
        BY <2>1, <4>1
      <4>3. PICK w : used[k].tweak = AdTweakOf(Wide, job.npub, w)
        BY <4>2 DEF SumTkAt, SumTk, WideOf, Wide
      <4>4. TkMark(used[k].tweak) = AdMark
        BY <1>4, <4>3, AdTweakFacts DEF TkMark, AdMark
      <4> QED BY <2>1, <2>5, <4>1, <4>4
    <3> QED BY <3>1, <3>2
  <2>7. /\ job' = job /\ side' = "enc" /\ pc' \in {"empty", "message"} /\ recv'.npub = job'.npub
        /\ EspeonTks' = EspeonTks /\ NoCollision' = NoCollision /\ NonceIsNoMark' = NonceIsNoMark
        /\ BlockMarks' = BlockMarks /\ AdMark' = AdMark /\ Wide' = Wide
    BY <1>1, <1>6, <2>1, SameUses
  <2>8. TkMark(tk)' \in BlockMarks'
    BY <1>1, <2>1, <2>7 DEF TkMark
  <2>9. \A k \in 1..Len(used') :
          used'[k].kind = "ad" /\ used'[k].tweak[TkLenOf(Wide') - 1] = AdMark'
    BY <2>6, <2>7 DEF TkMark
  <2> QED BY <2>5, <2>7, <2>8, <2>9 DEF EspeonUsed, TkMark
<1> QED BY <1>4, <1>5, <1>6

LEMMA EspeonEncBlockUses ==
  ASSUME EspeonUsedInv, EspeonShape', EspeonEncBlock
  PROVE  EspeonUsed'
<1>1. /\ side = "enc" /\ side' = side /\ pc = "message" /\ pc' = pc /\ job' = job
      /\ recv' = recv /\ i' = i + 1 /\ tk' = Chained(c', i)
      /\ used' = Append(used, [kind |-> "block", tweak |-> tk])
  BY DEF EspeonEncBlock, EspeonUse
<1>2. /\ EspeonUsed /\ job \in EspeonCalls /\ i \in Nat /\ tk \in Buffer(TkLenOf(Wide))
      /\ Wide \in BOOLEAN /\ job.npub \in Buffer(NonceLenOf(Wide))
  BY <1>1, EspeonJobFacts DEF EspeonUsedInv, EspeonShape, Shape, TkShape
<1>3. /\ recv.npub = job.npub /\ TkMark(tk) \in BlockMarks
      /\ \A k \in 1..Len(used) :
           \/ used[k].kind = "ad" /\ TkMark(used[k].tweak) = AdMark
           \/ used[k].kind = "block" /\ TkMark(used[k].tweak) \in BlockMarks
  BY <1>1, <1>2 DEF EspeonUsed
<1>4. ASSUME NonceIsNoMark, NEW k \in 1..Len(used), used[k].kind # "block"
      PROVE  used[k].tweak # tk
  <2>1. TkMark(used[k].tweak) = AdMark
    BY <1>3, <1>4
  <2>2. TkMark(tk) # AdMark
    BY <1>3, <1>4, MarksApart
  <2> QED BY <2>1, <2>2
<1>5. /\ used' \in Seq(EspeonTks) /\ Len(used') = Len(used) + 1 /\ Len(used) \in Nat
      /\ \A k \in 1..Len(used) : used'[k] = used[k]
      /\ used'[Len(used) + 1] = [kind |-> "block", tweak |-> tk]
      /\ NoCollision /\ NonceIsNoMark => UsedApart'
  BY <1>1, <1>2, <1>4, UsesMore
<1>6. ASSUME NEW k \in 1..Len(used')
      PROVE  \/ used'[k].kind = "ad" /\ TkMark(used'[k].tweak) = AdMark
             \/ used'[k].kind = "block" /\ TkMark(used'[k].tweak) \in BlockMarks
  <2>1. CASE k = Len(used) + 1
    BY <1>3, <1>5, <2>1
  <2>2. CASE k # Len(used) + 1
    <3>1. k \in 1..Len(used)
      BY <1>5, <2>2
    <3> QED BY <1>3, <1>5, <3>1
  <2> QED BY <2>1, <2>2
<1>7. /\ job' = job /\ side' = "enc" /\ pc' = "message" /\ recv'.npub = job'.npub
      /\ EspeonTks' = EspeonTks /\ NoCollision' = NoCollision /\ NonceIsNoMark' = NonceIsNoMark
      /\ BlockMarks' = BlockMarks /\ AdMark' = AdMark /\ Wide' = Wide
  BY <1>1, <1>3, SameUses
<1>8. TkMark(tk)' \in BlockMarks'
  <2>1. PICK out, t : out = c' /\ t = tk' /\ t = ChainOf(Wide, job.npub, out, i)
    BY <1>1, <1>3, EspeonTweaksAre
  <2>2. BytesTo(out, (i + 1) * 16)
    BY <1>1, <2>1 DEF EspeonShape, Shape
  <2>3. BlockAt(out, i) \in Block /\ (i > 0 => BlockAt(out, i - 1) \in Block)
    BY <1>2, <2>2, BytesBlock
  <2>4. t[TkLenOf(Wide) - 1] = One
    BY <1>2, <2>1, <2>3, ChainFacts
  <2>5. t[TkLenOf(Wide) - 1] \in BlockMarks
    BY <2>4 DEF BlockMarks
  <2> QED BY <1>7, <2>1, <2>5 DEF TkMark
<1>9. \A k \in 1..Len(used') :
        \/ used'[k].kind = "ad" /\ used'[k].tweak[TkLenOf(Wide') - 1] = AdMark'
        \/ used'[k].kind = "block" /\ used'[k].tweak[TkLenOf(Wide') - 1] \in BlockMarks'
  BY <1>6, <1>7 DEF TkMark
<1> QED BY <1>5, <1>7, <1>8, <1>9 DEF EspeonUsed, TkMark

LEMMA EspeonEncLastUses == ASSUME EspeonUsedInv, EspeonEncLast PROVE EspeonUsed'
<1>1. /\ side = "enc" /\ side' = side /\ pc = "message" /\ pc' = "transit" /\ job' = job
      /\ recv' = recv /\ used' = Append(used, [kind |-> "last", tweak |-> LastTweak])
  BY DEF EspeonEncLast, EspeonUse
<1>2. /\ EspeonUsed /\ tk \in Buffer(TkLenOf(Wide)) /\ Wide \in BOOLEAN
  BY <1>1, EspeonJobFacts DEF EspeonUsedInv, EspeonShape, TkShape
<1>3. /\ recv.npub = job.npub
      /\ \A k \in 1..Len(used) :
           \/ used[k].kind = "ad" /\ TkMark(used[k].tweak) = AdMark
           \/ used[k].kind = "block" /\ TkMark(used[k].tweak) \in BlockMarks
  BY <1>1, <1>2 DEF EspeonUsed
<1>4. LastTweak \in Buffer(TkLenOf(Wide)) /\ TkMark(LastTweak) \in Marks
  BY <1>2, EspeonTweaksAre, LastFacts, MarkFacts DEF TkMark
<1>5. ASSUME NonceIsNoMark, NEW k \in 1..Len(used)
      PROVE  used[k].tweak # LastTweak
  <2>1. TkMark(used[k].tweak) \notin Marks
    BY <1>3, <1>5, MarksApart
  <2> QED BY <1>4, <2>1
<1>6. used' \in Seq(EspeonTks) /\ (NoCollision /\ NonceIsNoMark => UsedApart')
  BY <1>1, <1>2, <1>4, <1>5, UsesMore
<1> QED BY <1>1, <1>3, <1>6, SameUses DEF EspeonUsed

LEMMA EspeonOtherUses ==
  ASSUME EspeonUsedInv,
         EspeonRefuse \/ EspeonEncEmpty \/ EspeonTransit \/ EspeonDecEmpty \/ EspeonDecBlock
           \/ EspeonDecLast
  PROVE  EspeonUsed'
<1>1. EspeonUsed
  BY DEF EspeonUsedInv
<1>2. CASE EspeonTransit
  BY <1>1, <1>2, EspeonQuiet DEF EspeonTransit
<1>3. CASE ~EspeonTransit
  <2>1. /\ job' = job /\ used' = used /\ side' = side /\ recv' = recv
        /\ side = "dec" \/ pc' \in {"done", "transit"}
    BY <1>3 DEF EspeonRefuse, EspeonEncEmpty, EspeonDecEmpty, EspeonDecBlock, EspeonDecLast
  <2>2. side' = "enc" => recv'.npub = job.npub
    BY <1>1, <2>1 DEF EspeonUsed
  <2> QED BY <1>1, <2>1, <2>2, EspeonQuiet
<1> QED BY <1>2, <1>3

LEMMA NextEspeonUsed ==
  ASSUME EspeonForks, EspeonUsedInv, [EspeonNext]_espeonVars
  PROVE  EspeonUsedInv'
<1>1. EspeonShape'
  BY StepEspeonShape DEF EspeonUsedInv
<1>2. CASE EspeonNext
  <2>1. EspeonUsed'
    BY <1>1, <1>2, EspeonBeginUses, EspeonAdBlockUses, EspeonAdLastUses, EspeonEncBlockUses,
       EspeonEncLastUses, EspeonOtherUses DEF EspeonNext
  <2> QED BY <1>1, <2>1 DEF EspeonUsedInv
<1>3. CASE UNCHANGED espeonVars
  <2>1. job' = job /\ used' = used /\ side' = side /\ pc' = pc /\ recv' = recv /\ tk' = tk /\ i' = i
    BY <1>3 DEF espeonVars
  <2>2. used' \in Seq(EspeonTks') /\ (NoCollision' /\ NonceIsNoMark' => UsedApart')
    BY <2>1, UsesKept DEF EspeonUsedInv
  <2>3. EspeonUsed'
    BY <2>1, <2>2, SameUses DEF EspeonUsedInv, EspeonUsed, TkMark
  <2> QED BY <1>1, <2>3 DEF EspeonUsedInv
<1> QED BY <1>2, <1>3

LEMMA InitEspeonUsed == EspeonInit => EspeonUsedInv
<1> SUFFICES ASSUME EspeonInit PROVE EspeonUsedInv
  OBVIOUS
<1>1. EspeonShape /\ used = << >> /\ pc = "begin" /\ recv.npub = job.npub
  BY InitEspeonShape DEF EspeonInit
<1>2. used \in Seq(EspeonTks) /\ \A k \in 1..Len(used) : FALSE
  BY <1>1
<1> QED BY <1>1, <1>2 DEF EspeonUsedInv, EspeonUsed, UsedApart

LEMMA EspeonUsedGives == EspeonUsedInv => EspeonTweaksDistinct
BY DEF EspeonUsedInv, EspeonUsed, UsedApart, EspeonTweaksDistinct

\* Whatever the number of counter values, and whatever the ciphertext: a tweak of
\* associated data and that of the last block are used once.
THEOREM EspeonTweaksAreDistinct ==
  ASSUME EspeonForks
  PROVE  EspeonSpec => []EspeonTweaksDistinct
BY InitEspeonUsed, NextEspeonUsed, EspeonUsedGives, PTL DEF EspeonSpec
=============================================================================
