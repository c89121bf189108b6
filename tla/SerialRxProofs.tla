--------------------------- MODULE SerialRxProofs ----------------------------
(***************************************************************************)
(* The serial thread of the PC application implements the lossy channel:   *)
(* for all messages, sizes and bounds, and as far as that promises anything*)
(* whatever bytes are lost and wherever a restart cuts: until the buffer is*)
(* overrun, for which a fault must have come since the last silence.       *)
(* What is needed is that after a silence the bytes of    *)
(* the message being read and of the line, one behind the other, are whole *)
(* messages: RxInv.                                                        *)
(***************************************************************************)
EXTENDS SerialRx, DataProofs

-----------------------------------------------------------------------------
(* Bytes and messages                                                      *)

Byte == {b \in [m : Messages, i : 1 .. LongSize] : b.i <= get_message_size(b.m.type)}

(* A message has between 2 and LongSize bytes, and its last is one of them.*)
LEMMA SizeFacts ==
  ASSUME NEW type
  PROVE  get_message_size(type) \in 2 .. LongSize
  BY RxAssumption DEF get_message_size

LEMMA BytesFacts ==
  ASSUME NEW m \in Messages
  PROVE  /\ Bytes(m) \in Seq(Byte)
         /\ Len(Bytes(m)) = get_message_size(m.type)
         /\ \A k \in 1 .. get_message_size(m.type) : Bytes(m)[k] = [m |-> m, i |-> k]
<1>1. PICK n \in 2 .. LongSize : n = get_message_size(m.type)
  BY SizeFacts
<1>2. Bytes(m) = [i \in 1 .. n |-> [m |-> m, i |-> i]]
  BY <1>1, Zenon DEF Bytes
<1>3. ASSUME NEW k \in 1 .. n PROVE [m |-> m, i |-> k] \in Byte
  <2>1. k \in 1 .. LongSize
    BY <1>1, RxAssumption
  <2>2. [m |-> m, i |-> k] \in [m : Messages, i : 1 .. LongSize]
    BY <2>1
  <2>3. k <= get_message_size(m.type)
    BY <1>1
  <2> QED
    BY <2>2, <2>3 DEF Byte
<1>4. Bytes(m) \in [1 .. n -> Byte]
  BY <1>2, <1>3
<1>5. n \in Nat
  BY RxAssumption
<1> QED
  BY <1>1, <1>2, <1>4, <1>5

-----------------------------------------------------------------------------
(* The messages that a sequence of bytes completes                         *)

Mark == [b \in Byte |-> Completed(b)]

LEMMA MarkFacts ==
  ASSUME NEW b \in Byte
  PROVE  /\ b.m \in Messages
         /\ Mark[b] = Completed(b)
         /\ Mark[b] = << >> \/ Mark[b] = <<b.m>>
<1>1. b.m \in Messages
  BY DEF Byte
<1>2. Mark[b] = Completed(b)
  BY Zenon DEF Mark
<1> QED
  BY <1>1, <1>2, Zenon DEF Completed

LEMMA MarkIsMark == IsMark(Mark, Byte, Messages)
<1>1. ASSUME NEW b \in Byte
      PROVE  Completed(b) \in Seq(Messages)
  <2>1. b.m \in Messages
    BY DEF Byte
  <2>2. << >> \in Seq(Messages) /\ <<b.m>> \in Seq(Messages)
    BY <2>1
  <2> QED
    BY <2>2, Zenon DEF Completed
<1> QED
  BY <1>1, Zenon DEF Mark, IsMark

LEMMA EndedCollected ==
  ASSUME NEW s \in Seq(Byte)
  PROVE  Ended(s) = Collected(Mark, s)
<1>1. \A k \in DOMAIN s : Completed(s[k]) = Mark[s[k]]
  BY MarkFacts
<1>2. [k \in DOMAIN s |-> Completed(s[k])] = [k \in DOMAIN s |-> Mark[s[k]]]
  BY <1>1, Zenon
<1> QED
  BY <1>2, Zenon DEF Ended, Collected, Marks

(* Bytes behind each other complete their messages behind each other.      *)
LEMMA EndedConcat ==
  ASSUME NEW s \in Seq(Byte), NEW t \in Seq(Byte)
  PROVE  /\ Ended(s) \in Seq(Messages)
         /\ Ended(s \o t) = Ended(s) \o Ended(t)
<1>1. s \o t \in Seq(Byte)
  OBVIOUS
<1>2. Collected(Mark, s \o t) = Collected(Mark, s) \o Collected(Mark, t)
  BY MarkIsMark, CollectedConcat
<1>3. Collected(Mark, s) \in Seq(Messages)
  BY MarkIsMark, CollectedType
<1> QED
  BY <1>1, <1>2, <1>3, EndedCollected, Zenon

LEMMA EndedEmpty == Ended(<< >>) = << >>
<1>1. << >> \in Seq(Byte)
  OBVIOUS
<1> QED
  BY <1>1, EndedCollected, CollectedEmpty, Zenon

LEMMA EndedOne ==
  ASSUME NEW b \in Byte
  PROVE  Ended(<<b>>) = Completed(b)
<1>1. <<b>> \in Seq(Byte)
  OBVIOUS
<1>2. Collected(Mark, <<b>>) = Mark[b]
  BY MarkIsMark, CollectedOne
<1> QED
  BY <1>1, <1>2, EndedCollected, MarkFacts, Zenon

(* Bytes none of which is the last of a message complete none.             *)
LEMMA NoneEnded ==
  ASSUME NEW s \in Seq(Byte), \A k \in 1 .. Len(s) : ~LastByte(s[k])
  PROVE  Ended(s) = << >>
<1>1. ASSUME NEW k \in 1 .. Len(s)
      PROVE  Mark[s[k]] = << >>
  <2>1. s[k] \in Byte
    OBVIOUS
  <2> QED
    BY <2>1, MarkFacts, Zenon DEF Completed
<1>2. Collected(Mark, s) = << >>
  BY <1>1, MarkIsMark, CollectedNone
<1> QED
  BY <1>2, EndedCollected, Zenon

(* The bytes of a message complete it, and nothing else.                   *)
LEMMA BytesEnd ==
  ASSUME NEW m \in Messages
  PROVE  Ended(Bytes(m)) = <<m>>
<1>1. PICK n \in 2 .. LongSize : n = get_message_size(m.type)
  BY SizeFacts
<1>2. /\ Bytes(m) \in Seq(Byte) /\ Len(Bytes(m)) = n
      /\ \A k \in 1 .. n : Bytes(m)[k] = [m |-> m, i |-> k]
  BY <1>1, BytesFacts
<1> DEFINE most == SubSeq(Bytes(m), 1, n - 1)
           last == [m |-> m, i |-> n]
<1>3. /\ most \in Seq(Byte) /\ Len(most) = n - 1 /\ n \in 1 .. Len(Bytes(m))
      /\ \A k \in 1 .. n - 1 : most[k] = [m |-> m, i |-> k]
  BY <1>1, <1>2, RxAssumption
<1>4. last \in Byte /\ Bytes(m)[n] = last
  BY <1>2, <1>3
<1>5. Bytes(m) = Append(most, last)
  <2>1. SubSeq(Bytes(m), 1, n) = Bytes(m)
    BY <1>2, SubSeqFull, Zenon
  <2> QED
    BY <1>2, <1>3, <1>4, <2>1, SubSeqAppend
<1>6. Bytes(m) = most \o <<last>> /\ <<last>> \in Seq(Byte)
  <2> HIDE DEF most, last
  <2> QED
    BY <1>3, <1>4, <1>5, AppendIsConcat
<1>7. Ended(most) = << >>
  <2>1. \A k \in 1 .. Len(most) : ~LastByte(most[k])
    <3> HIDE DEF most
    <3> QED
      BY <1>1, <1>3 DEF LastByte
  <2> QED
    BY <1>3, <2>1, NoneEnded, Zenon
<1>8. Ended(<<last>>) = <<m>>
  <2>1. Completed(last) = <<m>>
    BY <1>1 DEF Completed, LastByte
  <2> QED
    BY <1>4, <2>1, EndedOne, Zenon
<1> HIDE DEF most, last
<1>9. Ended(Bytes(m)) = << >> \o <<m>>
  BY <1>3, <1>6, <1>7, <1>8, EndedConcat, Zenon
<1> QED
  BY <1>9

(* A byte that goes takes its message along if it is the last one of it.   *)
LEMMA EndedTaken ==
  ASSUME NEW s \in Seq(Byte), s # << >>
  PROVE  /\ ~LastByte(Head(s)) => Ended(Tail(s)) = Ended(s)
         /\ LastByte(Head(s)) => /\ Ended(s) # << >>
                                 /\ Ended(Tail(s)) = Tail(Ended(s))
                                 /\ Head(Ended(s)) = Head(s).m
<1>1. Head(s) \in Byte /\ Tail(s) \in Seq(Byte)
  BY HeadTail
<1>2. Mark[Head(s)] = Completed(Head(s)) /\ Head(s).m \in Messages
  BY <1>1, MarkFacts, Zenon
<1>3. ~LastByte(Head(s)) => Mark[Head(s)] = << >>
  BY <1>2, Zenon DEF Completed
<1>4. LastByte(Head(s)) => Mark[Head(s)] = <<Head(s).m>>
  BY <1>2, Zenon DEF Completed
<1>5. Ended(s) = Collected(Mark, s) /\ Ended(Tail(s)) = Collected(Mark, Tail(s))
  BY <1>1, EndedCollected, Zenon
<1>6. Mark[Head(s)] = << >> => Collected(Mark, Tail(s)) = Collected(Mark, s)
  BY MarkIsMark, CollectedTail
<1> DEFINE m == Head(s).m
<1> HIDE DEF m
<1>7. m \in Messages
  BY <1>2, Zenon DEF m
<1>8. Mark[Head(s)] = <<m>> => /\ Collected(Mark, s) # << >>
                              /\ Collected(Mark, Tail(s)) = Tail(Collected(Mark, s))
                              /\ Head(Collected(Mark, s)) = m
  BY <1>7, MarkIsMark, CollectedTail
<1> QED
  BY <1>3, <1>4, <1>5, <1>6, <1>8, Zenon DEF m

(* A line cut off loses the last messages, a byte lost one at most.        *)
LEMMA EndedCut ==
  ASSUME NEW s \in Seq(Byte), NEW n \in 0 .. Len(s)
  PROVE  \E k \in 0 .. Len(Ended(s)) : Ended(SubSeq(s, 1, n)) = SubSeq(Ended(s), 1, k)
<1>1. SubSeq(s, 1, n) \in Seq(Byte)
  BY SplitAt
<1>2. \E k \in 0 .. Len(Collected(Mark, s)) :
         Collected(Mark, SubSeq(s, 1, n)) = SubSeq(Collected(Mark, s), 1, k)
  BY MarkIsMark, CollectedCut
<1> QED
  BY <1>1, <1>2, EndedCollected, Zenon

LEMMA EndedWithout ==
  ASSUME NEW s \in Seq(Byte), NEW i \in DOMAIN s
  PROVE  \/ Ended(RemoveAt(s, i)) = Ended(s)
         \/ \E k \in DOMAIN Ended(s) : Ended(RemoveAt(s, i)) = RemoveAt(Ended(s), k)
<1>1. RemoveAt(s, i) = SubSeq(s, 1, i - 1) \o SubSeq(s, i + 1, Len(s))
  BY Zenon DEF RemoveAt
<1>2. RemoveAt(s, i) \in Seq(Byte)
  BY <1>1
<1>3. ASSUME NEW b \in Byte
      PROVE  Mark[b] = << >> \/ \E m \in Messages : Mark[b] = <<m>>
  BY MarkFacts, Zenon
<1>4. \/ Collected(Mark, RemoveAt(s, i)) = Collected(Mark, s)
      \/ \E k \in DOMAIN Collected(Mark, s) :
            Collected(Mark, RemoveAt(s, i)) = RemoveAt(Collected(Mark, s), k)
  BY <1>3, MarkIsMark, CollectedWithout
<1> QED
  BY <1>2, <1>4, EndedCollected, Zenon

-----------------------------------------------------------------------------
(* The invariant                                                           *)

RxType == line \in Seq(Byte) /\ msg_buf \in Seq(Byte) /\ heard \in Seq(Messages)

(* One whole message after the other, from within the first.               *)
Follows(b, c) == IF LastByte(b) THEN c.i = 1 ELSE c = [m |-> b.m, i |-> b.i + 1]
Chained(bytes) ==
  /\ \A k \in 1 .. Len(bytes) - 1 : Follows(bytes[k], bytes[k + 1])
  /\ bytes # << >> => LastByte(bytes[Len(bytes)])

(* The message being read has its first bytes in msg_buf, the next one is  *)
(* the first of the line.                                                  *)
Begun ==
  /\ Len(msg_buf) \in 1 .. size - 1
  /\ size = get_message_size(msg_buf[1].m.type)
  /\ \A k \in 1 .. Len(msg_buf) : msg_buf[k] = [m |-> msg_buf[1].m, i |-> k]
  /\ line # << >>
  /\ line[1] = [m |-> msg_buf[1].m, i |-> Len(msg_buf) + 1]

InStep ==
  /\ Chained(line)
  /\ reading => Begun
  /\ ~reading /\ line # << >> => line[1].i = 1

RxInv ==
  /\ RxType
  /\ clean => started
  /\ reading \/ overrun \/ msg_buf = << >>
  /\ overrun => started /\ ~clean
  /\ clean => InStep

LEMMA ChainedTail ==
  ASSUME NEW s \in Seq(Byte), s # << >>, Chained(s)
  PROVE  /\ Chained(Tail(s))
         /\ Tail(s) # << >> => Follows(s[1], Tail(s)[1])
         /\ Tail(s) = << >> => LastByte(s[1])
<1> DEFINE t == Tail(s)
<1>1. /\ t \in Seq(Byte) /\ Len(s) >= 1 /\ Len(t) = Len(s) - 1
      /\ \A k \in 1 .. Len(s) - 1 : t[k] = s[k + 1]
  BY HeadTail
<1> HIDE DEF t
<1>2. \A k \in 1 .. Len(s) - 1 : Follows(s[k], s[k + 1])
  BY Zenon DEF Chained
<1>3. LastByte(s[Len(s)])
  BY Zenon DEF Chained
<1>4. ASSUME NEW k \in 1 .. Len(t) - 1
      PROVE  Follows(t[k], t[k + 1])
  <2>1. k + 1 \in 1 .. Len(s) - 1 /\ k \in 1 .. Len(s) - 1
    BY <1>1
  <2>2. t[k] = s[k + 1] /\ t[k + 1] = s[(k + 1) + 1]
    BY <1>1, <2>1
  <2> QED
    BY <1>2, <2>1, <2>2
<1>5. CASE t = << >>
  <2>1. Len(s) = 1
    BY <1>1, <1>5
  <2>2. \A k \in 1 .. Len(t) - 1 : FALSE
    BY <1>1, <2>1
  <2> QED
    BY <1>3, <1>5, <2>1, <2>2, Zenon DEF Chained, t
<1>6. CASE t # << >>
  <2>1. Len(t) >= 1
    BY <1>1, <1>6, EmptySeq
  <2>2. t[1] = s[2] /\ t[Len(t)] = s[Len(s)] /\ 1 \in 1 .. Len(s) - 1 /\ 1 + 1 = 2
    BY <1>1, <2>1
  <2>3. Follows(s[1], s[1 + 1])
    BY <1>2, <2>2
  <2>4. Follows(s[1], t[1])
    BY <2>2, <2>3
  <2>5. LastByte(t[Len(t)])
    BY <1>3, <2>2, Zenon
  <2> QED
    BY <1>4, <1>6, <2>4, <2>5, Zenon DEF Chained, t
<1> QED
  BY <1>5, <1>6

LEMMA ChainedAppend ==
  ASSUME NEW s \in Seq(Byte), Chained(s), NEW m \in Messages
  PROVE  /\ s \o Bytes(m) \in Seq(Byte) /\ s \o Bytes(m) # << >>
         /\ Chained(s \o Bytes(m))
         /\ s # << >> => (s \o Bytes(m))[1] = s[1]
         /\ s = << >> => (s \o Bytes(m))[1].i = 1
<1>1. PICK n \in 2 .. LongSize : n = get_message_size(m.type)
  BY SizeFacts
<1> DEFINE t == Bytes(m)
           u == s \o t
<1>2. t \in Seq(Byte) /\ Len(t) = n /\ n >= 2 /\ n \in Nat
      /\ \A k \in 1 .. n : t[k] = [m |-> m, i |-> k]
  BY <1>1, BytesFacts, RxAssumption
<1> HIDE DEF t
<1>3. /\ u \in Seq(Byte) /\ Len(u) = Len(s) + n
      /\ \A k \in 1 .. Len(s) : u[k] = s[k]
      /\ \A k \in 1 .. n : u[Len(s) + k] = [m |-> m, i |-> k]
  BY <1>2
<1>4. s # << >> => LastByte(s[Len(s)]) /\ Len(s) \in 1 .. Len(s)
  BY EmptySeq DEF Chained
<1> HIDE DEF u
<1>5. LastByte(u[Len(u)])
  <2>1. n \in 1 .. n /\ Len(u) = Len(s) + n
    BY <1>2, <1>3
  <2>2. u[Len(u)] = [m |-> m, i |-> n]
    BY <1>3, <2>1
  <2> QED
    BY <1>1, <2>2 DEF LastByte
<1>6. ASSUME NEW k \in 1 .. Len(u) - 1
      PROVE  Follows(u[k], u[k + 1])
  <2>1. CASE k < Len(s)
    <3>1. k \in 1 .. Len(s) - 1 /\ u[k] = s[k] /\ u[k + 1] = s[k + 1]
      BY <1>3, <2>1
    <3>2. Follows(s[k], s[k + 1])
      BY <3>1, Zenon DEF Chained
    <3> QED
      BY <3>1, <3>2, Zenon
  <2>2. CASE k = Len(s)
    <3>1. Len(s) \in 1 .. Len(s) /\ s # << >> /\ 1 \in 1 .. n
      BY <1>2, <2>2
    <3>2. u[k] = s[Len(s)] /\ u[k + 1] = [m |-> m, i |-> 1]
      BY <1>3, <2>2, <3>1
    <3> QED
      BY <1>4, <3>1, <3>2 DEF Follows
  <2>3. CASE k > Len(s)
    <3>1. PICK j \in 1 .. n - 1 : k = Len(s) + j
      <4>1. k - Len(s) \in 1 .. n - 1 /\ k = Len(s) + (k - Len(s))
        BY <1>2, <1>3, <2>3
      <4> QED
        BY <4>1
    <3>2. j \in 1 .. n /\ j + 1 \in 1 .. n /\ k + 1 = Len(s) + (j + 1)
      BY <1>2, <3>1
    <3>3. u[k] = [m |-> m, i |-> j] /\ u[k + 1] = [m |-> m, i |-> j + 1]
      BY <1>3, <3>1, <3>2
    <3>4. ~LastByte(u[k])
      BY <1>1, <3>1, <3>3 DEF LastByte
    <3> QED
      BY <3>3, <3>4 DEF Follows
  <2> QED
    BY <2>1, <2>2, <2>3
<1>7. u # << >>
  BY <1>2, <1>3
<1>8. Chained(u)
  BY <1>5, <1>6, Zenon DEF Chained
<1>9. s # << >> => u[1] = s[1]
  BY <1>3, EmptySeq
<1>10. s = << >> => u[1].i = 1
  <2>1. ASSUME s = << >> PROVE u[1] = [m |-> m, i |-> 1]
    BY <1>2, <1>3, <2>1
  <2> QED
    BY <2>1
<1> QED
  BY <1>3, <1>7, <1>8, <1>9, <1>10, Zenon DEF u, t

LEMMA InvInit == Init => RxInv
<1> SUFFICES ASSUME Init PROVE RxInv
  OBVIOUS
<1>1. PICK m \in Messages, n \in 1 .. LongSize : line = SubSeq(Bytes(m), n, Len(Bytes(m)))
  BY DEF Init
<1>2. line \in Seq(Byte)
  <2>1. PICK t \in Seq(Byte) : t = Bytes(m)
    BY BytesFacts, Zenon
  <2>2. n \in Nat /\ n >= 1
    BY RxAssumption
  <2> QED
    BY <1>1, <2>1, <2>2
<1>3. /\ msg_buf = << >> /\ heard = << >> /\ clean = FALSE /\ reading = FALSE
      /\ overrun = FALSE
  BY DEF Init
<1>4. RxType
  BY <1>2, <1>3 DEF RxType
<1> QED
  BY <1>3, <1>4, Zenon DEF RxInv

LEMMA InvDiscard ==
  ASSUME RxInv, DiscardGarbage
  PROVE  RxInv'
<1>1. /\ line \in Seq(Byte) /\ line # << >> /\ line' = Tail(line) /\ ~started /\ ~clean
      /\ msg_buf' = msg_buf /\ heard' = heard /\ clean' = clean /\ reading' = reading
      /\ started' = started /\ overrun' = overrun
  BY Zenon DEF RxInv, RxType, DiscardGarbage, rxVars, boardVars
<1>2. RxType'
  BY <1>1, HeadTail DEF RxInv, RxType
<1> QED
  BY <1>1, <1>2, Zenon DEF RxInv

LEMMA InvFirst ==
  ASSUME RxInv, FirstByte
  PROVE  RxInv'
<1>1. /\ line \in Seq(Byte) /\ msg_buf = << >> /\ heard \in Seq(Messages)
      /\ line # << >> /\ started /\ ~reading /\ line' = Tail(line) /\ reading' = TRUE
      /\ msg_buf' = Append(msg_buf, Head(line)) /\ clean' = clean /\ started' = started
      /\ heard' = heard /\ overrun' = overrun /\ ~overrun
      /\ size' = IF TypeByte(Head(line)) = "unknown" THEN size
                 ELSE get_message_size(TypeByte(Head(line)))
  BY Zenon DEF RxInv, RxType, FirstByte, boardVars
<1>2. PICK b \in Byte : b = Head(line) /\ b = line[1] /\ Tail(line) \in Seq(Byte)
  BY <1>1, HeadTail
<1>3. msg_buf' \in Seq(Byte) /\ Len(msg_buf') = 1 /\ msg_buf'[1] = b
  BY <1>1, <1>2
<1>4. RxType'
  BY <1>1, <1>2, <1>3, Zenon DEF RxType
<1>5. ASSUME clean
      PROVE  InStep'
  <2>1. Chained(line) /\ b.i = 1
    BY <1>1, <1>2, <1>5, Zenon DEF RxInv, InStep
  <2>2. b.m \in Messages /\ b = [m |-> b.m, i |-> 1]
    BY <2>1 DEF Byte
  <2>3. size' = get_message_size(b.m.type)
    BY <1>1, <1>2, <2>1, <2>2, RxAssumption, Zenon DEF TypeByte
  <2>4. size' \in 2 .. LongSize
    BY <2>3, SizeFacts
  <2>5. ~LastByte(b)
    BY <2>1, <2>3, <2>4 DEF LastByte
  <2>6. Chained(line') /\ line' # << >> /\ Follows(b, line'[1])
    BY <1>1, <1>2, <2>1, <2>5, ChainedTail
  <2>7. line'[1] = [m |-> b.m, i |-> 1 + 1]
    BY <2>1, <2>5, <2>6, Zenon DEF Follows
  <2>8. Begun'
    <3>1. Len(msg_buf') \in 1 .. size' - 1
      <4>1. PICK z \in 2 .. LongSize : z = size'
        BY <2>4
      <4>2. 1 \in 1 .. z - 1
        BY RxAssumption
      <4> QED
        BY <1>3, <4>1, <4>2, Zenon
    <3>2. size' = get_message_size(msg_buf'[1].m.type)
      BY <1>3, <2>3, Zenon
    <3>3. \A k \in 1 .. Len(msg_buf') : msg_buf'[k] = [m |-> msg_buf'[1].m, i |-> k]
      BY <1>3, <2>2
    <3>4. line'[1] = [m |-> msg_buf'[1].m, i |-> Len(msg_buf') + 1]
      BY <1>3, <2>7, Zenon
    <3> QED
      BY <2>6, <3>1, <3>2, <3>3, <3>4, Zenon DEF Begun
  <2> QED
    BY <1>1, <2>6, <2>8, Zenon DEF InStep
<1> QED
  BY <1>1, <1>4, <1>5, Zenon DEF RxInv

(* After a silence, a message that is not complete goes on, and one that is*)
(* complete parses.                                                        *)
LEMMA StepInMessage ==
  ASSUME RxInv, NextByte, clean
  PROVE  /\ LastByte(Head(line)) <=> Len(msg_buf) + 1 = size
         /\ Len(msg_buf) + 1 = size => Parses(Append(msg_buf, Head(line)))
<1>1. /\ line \in Seq(Byte) /\ msg_buf \in Seq(Byte) /\ line # << >> /\ Begun
  BY Zenon DEF RxInv, RxType, InStep, NextByte
<1> DEFINE b == Head(line)
           m == msg_buf[1].m
           n == Len(msg_buf)
<1>2. b \in Byte /\ b = line[1]
  BY <1>1, HeadTail
<1>3. /\ n \in 1 .. size - 1 /\ size = get_message_size(m.type)
      /\ \A k \in 1 .. n : msg_buf[k] = [m |-> m, i |-> k]
      /\ b = [m |-> m, i |-> n + 1]
  BY <1>1, <1>2 DEF Begun
<1>4. m \in Messages
  <2>1. b.m = m
    BY <1>3
  <2> QED
    BY <1>2, <2>1 DEF Byte
<1>5. size \in 2 .. LongSize
  BY <1>3, SizeFacts
<1>6. n \in Nat /\ Len(Append(msg_buf, b)) = n + 1
  BY <1>1
<1>7. LastByte(b) <=> n + 1 = size
  BY <1>3 DEF LastByte
<1>8. ASSUME n + 1 = size
      PROVE  Parses(Append(msg_buf, b))
  <2> DEFINE bytes == Append(msg_buf, b)
             whole == Bytes(m)
  <2>1. /\ bytes \in Seq(Byte) /\ Len(bytes) = n + 1
        /\ \A k \in 1 .. n : bytes[k] = msg_buf[k]
        /\ bytes[n + 1] = b
    BY <1>1, <1>2
  <2>2. whole \in Seq(Byte) /\ Len(whole) = size
        /\ \A k \in 1 .. size : whole[k] = [m |-> m, i |-> k]
    BY <1>3, <1>4, BytesFacts
  <2>3. bytes[1].m = m
    BY <1>3, <2>1
  <2> HIDE DEF bytes, whole
  <2>4. ASSUME NEW k \in 1 .. size
        PROVE  bytes[k] = whole[k]
    <3>1. CASE k \in 1 .. n
      BY <1>3, <2>1, <2>2, <3>1, Zenon
    <3>2. CASE k = n + 1
      BY <1>3, <2>1, <2>2, <3>2, Zenon
    <3> QED
      BY <1>6, <1>8, <3>1, <3>2
  <2>5. bytes = whole
    BY <1>8, <2>1, <2>2, <2>4, SeqEqual
  <2> QED
    BY <2>3, <2>5, Zenon DEF Parses, bytes, whole
<1> QED
  BY <1>3, <1>5, <1>6, <1>7, <1>8, RxAssumption

LEMMA InvNext ==
  ASSUME RxInv, NextByte
  PROVE  RxInv'
<1> DEFINE bytes == Append(msg_buf, Head(line))
           done == Len(bytes) = size /\ Parses(bytes)
<1>1. /\ line \in Seq(Byte) /\ msg_buf \in Seq(Byte) /\ heard \in Seq(Messages)
      /\ line # << >> /\ started /\ reading /\ line' = Tail(line)
      /\ clean' = clean /\ started' = started /\ size' = size
      /\ overrun' = overrun /\ ~overrun
  BY Zenon DEF RxInv, RxType, NextByte, boardVars
<1>2. done => heard' = Append(heard, bytes[1].m) /\ reading' = FALSE /\ msg_buf' = << >>
  BY Zenon DEF NextByte
<1>3. ~done => heard' = heard /\ reading' = reading /\ msg_buf' = bytes
  BY Zenon DEF NextByte
<1>4. PICK b \in Byte : b = Head(line) /\ b = line[1] /\ Tail(line) \in Seq(Byte)
  BY <1>1, HeadTail
<1>5. /\ bytes \in Seq(Byte) /\ Len(bytes) = Len(msg_buf) + 1
      /\ bytes[Len(msg_buf) + 1] = b
      /\ \A k \in 1 .. Len(msg_buf) : bytes[k] = msg_buf[k]
      /\ bytes[1] \in Byte
  BY <1>1, <1>4
<1>6. bytes[1].m \in Messages
  BY <1>5 DEF Byte
<1> HIDE DEF bytes
<1>7. RxType'
  <2>1. line' \in Seq(Byte)
    BY <1>1, <1>4
  <2>2. msg_buf' \in Seq(Byte)
    <3>1. << >> \in Seq(Byte)
      OBVIOUS
    <3> QED
      BY <1>1, <1>2, <1>3, <1>5, <3>1, Zenon
  <2>3. heard' \in Seq(Messages)
    <3>1. Append(heard, bytes[1].m) \in Seq(Messages)
      BY <1>1, <1>6
    <3> QED
      BY <1>1, <1>2, <1>3, <3>1, Zenon
  <2> QED
    BY <2>1, <2>2, <2>3, Zenon DEF RxType
<1>8. reading' \/ overrun' \/ msg_buf' = << >>
  BY <1>1, <1>2, <1>3, Zenon
<1>9. ASSUME clean
      PROVE  InStep'
  <2>1. /\ LastByte(b) <=> Len(msg_buf) + 1 = size
        /\ Len(msg_buf) + 1 = size => Parses(bytes)
    BY <1>4, <1>9, StepInMessage, Zenon DEF bytes
  <2>2. Chained(line) /\ Begun
    BY <1>1, <1>9, Zenon DEF RxInv, InStep
  <2>3. /\ Chained(line')
        /\ line' # << >> => Follows(b, line'[1])
        /\ line' = << >> => LastByte(b)
    BY <1>1, <1>4, <2>2, ChainedTail, Zenon
  <2>4. CASE LastByte(b)
    <3>1. done
      BY <1>5, <2>1, <2>4, Zenon
    <3>2. line' # << >> => line'[1].i = 1
      BY <2>3, <2>4, Zenon DEF Follows
    <3> QED
      BY <1>2, <2>3, <3>1, <3>2, Zenon DEF InStep
  <2>5. CASE ~LastByte(b)
    <3>1. ~done
      BY <1>5, <2>1, <2>5, Zenon
    <3>2. Len(msg_buf) \in Nat
      BY <1>1
    <3>3. msg_buf' = bytes /\ reading' = reading
      BY <1>3, <3>1, Zenon
    <3>4. line' # << >> /\ line'[1] = [m |-> b.m, i |-> b.i + 1]
      BY <2>3, <2>5, Zenon DEF Follows
    <3>5. /\ Len(msg_buf) \in 1 .. size - 1
          /\ size = get_message_size(msg_buf[1].m.type)
          /\ \A k \in 1 .. Len(msg_buf) : msg_buf[k] = [m |-> msg_buf[1].m, i |-> k]
          /\ b = [m |-> msg_buf[1].m, i |-> Len(msg_buf) + 1]
      BY <1>4, <2>2, Zenon DEF Begun
    <3>6. bytes[1] = msg_buf[1]
      BY <1>5, <3>2, <3>5
    <3>7. size = get_message_size(bytes[1].m.type)
      BY <3>5, <3>6, Zenon
    <3>8. size \in Nat
      BY <3>7, SizeFacts, RxAssumption
    <3>9. Len(bytes) \in 1 .. size - 1
      BY <1>5, <2>1, <2>5, <3>2, <3>5, <3>8
    <3>10. ASSUME NEW k \in 1 .. Len(bytes)
           PROVE  bytes[k] = [m |-> bytes[1].m, i |-> k]
      <4>1. CASE k \in 1 .. Len(msg_buf)
        BY <1>5, <3>5, <3>6, <4>1, Zenon
      <4>2. CASE k = Len(msg_buf) + 1
        BY <1>5, <3>5, <3>6, <4>2, Zenon
      <4> QED
        BY <1>5, <3>2, <4>1, <4>2
    <3>11. line'[1] = [m |-> bytes[1].m, i |-> Len(bytes) + 1]
      BY <1>5, <3>4, <3>5, <3>6
    <3>12. Begun'
      BY <1>1, <3>3, <3>4, <3>7, <3>9, <3>10, <3>11, Zenon DEF Begun
    <3> QED
      BY <1>1, <2>3, <3>3, <3>12, Zenon DEF InStep
  <2> QED
    BY <2>4, <2>5
<1> QED
  BY <1>1, <1>7, <1>8, <1>9, Zenon DEF RxInv

(* A byte behind the buffer comes only while the parser is out of step: a  *)
(* message that was begun in step is shorter than the buffer.              *)
LEMMA OverrunUnclean ==
  ASSUME RxInv, Overrun
  PROVE  ~clean
<1> SUFFICES ASSUME clean PROVE FALSE
  OBVIOUS
<1>1. reading /\ Len(msg_buf) = BufferSize /\ msg_buf \in Seq(Byte)
  BY Zenon DEF Overrun, RxInv, RxType
<1>2. Len(msg_buf) \in 1 .. size - 1 /\ size = get_message_size(msg_buf[1].m.type)
  BY <1>1, Zenon DEF RxInv, InStep, Begun
<1>3. size \in 2 .. LongSize
  BY <1>2, SizeFacts
<1> QED
  BY <1>1, <1>2, <1>3, RxAssumption

LEMMA InvOverrun ==
  ASSUME RxInv, Overrun \/ Damaged
  PROVE  RxInv'
<1>1. /\ line \in Seq(Byte) /\ line # << >> /\ line' = Tail(line)
      /\ msg_buf' = msg_buf /\ started /\ started' = started
      /\ overrun' = TRUE /\ ~clean /\ clean' = clean
  <2>1. CASE Overrun
    BY <2>1, OverrunUnclean, Zenon DEF Overrun, RxInv, RxType
  <2>2. CASE Damaged
    <3>1. overrun
      BY <2>2, Zenon DEF Damaged
    <3>2. overrun' = overrun
      BY <2>2, Zenon DEF Damaged
    <3>3. overrun' = TRUE
      BY <3>1, <3>2
    <3> QED
      BY <2>2, <3>1, <3>3, Zenon DEF Damaged, RxInv, RxType
  <2> QED
    BY <2>1, <2>2
<1>2. heard' \in Seq(Messages)
  <2>1. heard \in Seq(Messages)
    BY Zenon DEF RxInv, RxType
  <2>2. CASE Overrun
    BY <2>1, <2>2, Zenon DEF Overrun
  <2>3. CASE Damaged
    <3>1. PICK pushed \in {<< >>} \union {<<m>> : m \in Messages} : heard' = heard \o pushed
      BY <2>3, Zenon DEF Damaged
    <3>2. pushed \in Seq(Messages)
      <4>1. CASE pushed = << >>
        BY <4>1
      <4>2. CASE pushed \in {<<m>> : m \in Messages}
        <5>1. PICK m \in Messages : pushed = <<m>>
          BY <4>2
        <5> QED
          BY <5>1
      <4> QED
        BY <4>1, <4>2
    <3> QED
      BY <2>1, <3>1, <3>2
  <2> QED
    BY <2>2, <2>3
<1>3. RxType'
  <2>1. line' \in Seq(Byte)
    BY <1>1, HeadTail
  <2> QED
    BY <1>1, <1>2, <2>1, Zenon DEF RxInv, RxType
<1> QED
  BY <1>1, <1>3, Zenon DEF RxInv

LEMMA InvTimeout ==
  ASSUME RxInv, Timeout
  PROVE  RxInv'
<1>1. /\ line = << >> /\ line' = line /\ heard' = heard /\ started' = TRUE
      /\ reading' = FALSE /\ msg_buf' = IF reading THEN << >> ELSE msg_buf
      /\ ~overrun /\ overrun' = overrun
  BY Zenon DEF Timeout
<1>2. msg_buf' = << >>
  BY <1>1, Zenon DEF RxInv
<1>3. RxType'
  BY <1>1, <1>2 DEF RxInv, RxType
<1>4. Chained(line')
  BY <1>1 DEF Chained
<1> QED
  BY <1>1, <1>2, <1>3, <1>4, Zenon DEF RxInv, InStep

LEMMA InvSent ==
  ASSUME RxInv, NEW m \in Messages, line' = line \o Bytes(m), UNCHANGED <<rxVars, clean>>
  PROVE  RxInv'
<1>1. /\ msg_buf' = msg_buf /\ heard' = heard /\ reading' = reading /\ started' = started
      /\ clean' = clean /\ size' = size /\ overrun' = overrun
  BY Zenon DEF rxVars
<1>2. line \in Seq(Byte) /\ msg_buf \in Seq(Byte) /\ heard \in Seq(Messages)
  BY Zenon DEF RxInv, RxType
<1>3. RxType'
  <2>1. Bytes(m) \in Seq(Byte)
    BY BytesFacts
  <2>2. line' \in Seq(Byte)
    BY <1>2, <2>1
  <2> QED
    BY <1>1, <1>2, <2>2, Zenon DEF RxType
<1>4. ASSUME clean
      PROVE  InStep'
  <2>1. Chained(line) /\ (reading => Begun) /\ (~reading /\ line # << >> => line[1].i = 1)
    BY <1>4, Zenon DEF RxInv, InStep
  <2>2. /\ Chained(line') /\ line' # << >>
        /\ line # << >> => line'[1] = line[1]
        /\ line = << >> => line'[1].i = 1
    BY <1>2, <2>1, ChainedAppend, Zenon
  <2>3. reading => Begun'
    BY <1>1, <2>1, <2>2, Zenon DEF Begun
  <2> QED
    BY <1>1, <2>1, <2>2, <2>3, Zenon DEF InStep
<1> QED
  <2>1. clean => started
    BY Zenon DEF RxInv
  <2>2. (reading \/ overrun \/ msg_buf = << >>) /\ (overrun => started /\ ~clean)
    BY Zenon DEF RxInv
  <2>3. /\ clean' => started'
        /\ reading' \/ overrun' \/ msg_buf' = << >>
        /\ overrun' => started' /\ ~clean'
    BY <1>1, <2>1, <2>2
  <2>4. clean' => InStep'
    BY <1>1, <1>4
  <2> QED
    BY <1>3, <2>3, <2>4, Zenon DEF RxInv

LEMMA InvFault ==
  ASSUME RxInv, LoseByte \/ Reset
  PROVE  RxInv'
<1>1. /\ msg_buf' = msg_buf /\ heard' = heard /\ reading' = reading /\ clean' = FALSE
      /\ overrun' = overrun /\ started' = started
  BY Zenon DEF LoseByte, Reset, rxVars
<1>2. line \in Seq(Byte)
  BY Zenon DEF RxInv, RxType
<1>3. line' \in Seq(Byte)
  <2>1. CASE LoseByte
    <3>1. PICK i \in DOMAIN line : line' = RemoveAt(line, i)
      BY <2>1 DEF LoseByte
    <3>2. line' = SubSeq(line, 1, i - 1) \o SubSeq(line, i + 1, Len(line))
      BY <3>1, Zenon DEF RemoveAt
    <3> QED
      BY <1>2, <3>2
  <2>2. CASE Reset
    <3>1. PICK n \in 0 .. Len(line) : line' = SubSeq(line, 1, n)
      BY <2>2 DEF Reset
    <3> QED
      BY <1>2, <3>1, SplitAt
  <2> QED
    BY <2>1, <2>2
<1> QED
  BY <1>1, <1>3, Zenon DEF RxInv, RxType

LEMMA InvStep == RxInv /\ [Next]_vars => RxInv'
<1> SUFFICES ASSUME RxInv, [Next]_vars PROVE RxInv'
  OBVIOUS
<1>1. CASE Send
  <2>1. PICK m \in Messages : line' = line \o Bytes(m)
    BY <1>1 DEF Send
  <2>2. UNCHANGED <<rxVars, clean>>
    BY <1>1, Zenon DEF Send
  <2> QED
    BY <2>1, <2>2, InvSent
<1>2. CASE Announce
  <2>1. line' = line \o Bytes(Startup) /\ UNCHANGED <<rxVars, clean>>
    BY <1>2, Zenon DEF Announce
  <2> QED
    BY <2>1, InvSent, RxAssumption
<1>3. CASE UNCHANGED vars
  BY <1>3, Zenon DEF vars, rxVars, RxInv, RxType, InStep, Begun
<1> QED
  BY <1>1, <1>2, <1>3, InvDiscard, InvFirst, InvNext, InvOverrun, InvTimeout, InvFault, Zenon
     DEF Next, Thread

-----------------------------------------------------------------------------
(* The channel                                                             *)

LEMMA UnreadNext == Unread' = Ended(line')
  BY Zenon DEF Unread, Ended, Completed, LastByte

LEMMA SameRemoveAt ==
  ASSUME NEW s, NEW i
  PROVE  Channel!RemoveAt(s, i) = RemoveAt(s, i)
  BY Zenon DEF Channel!RemoveAt, RemoveAt

LEMMA ChannelInit == Init => Channel!Init
<1> SUFFICES ASSUME Init PROVE Channel!Init
  OBVIOUS
<1>1. line \in Seq(Byte) /\ heard = << >> /\ ~clean /\ ~overrun
  BY InvInit, Zenon DEF RxInv, RxType, Init
<1>2. Unread \in Seq(Messages)
  BY <1>1, EndedConcat, Zenon DEF Unread
<1> QED
  BY <1>1, <1>2, Zenon DEF Channel!Init

(* A byte that is read and is not the last of its message changes nothing; *)
(* the last one lets the message be missed.                                *)
LEMMA ByteMissed ==
  ASSUME RxInv, line # << >>, line' = Tail(line), UNCHANGED <<heard, clean, overrun>>,
         clean => ~LastByte(Head(line))
  PROVE  [Channel!Next]_(Channel!vars)
<1>1. line \in Seq(Byte)
  BY Zenon DEF RxInv, RxType
<1>2. CASE ~LastByte(Head(line))
  <2>1. Unread' = Unread
    BY <1>1, <1>2, EndedTaken, UnreadNext, Zenon DEF Unread
  <2> QED
    BY <2>1, Zenon DEF Channel!vars
<1>3. CASE LastByte(Head(line))
  <2>1. Unread # << >> /\ Unread' = Tail(Unread)
    BY <1>1, <1>3, EndedTaken, UnreadNext, Zenon DEF Unread
  <2>2. ~clean
    BY <1>3, Zenon
  <2> QED
    BY <2>1, <2>2, Zenon DEF Channel!Next, Channel!Miss
<1> QED
  BY <1>2, <1>3

LEMMA ChannelNextByte ==
  ASSUME RxInv, NextByte
  PROVE  [Channel!Next]_(Channel!vars)
<1> DEFINE bytes == Append(msg_buf, Head(line))
           done == Len(bytes) = size /\ Parses(bytes)
<1>1. /\ line \in Seq(Byte) /\ msg_buf \in Seq(Byte)
      /\ line # << >> /\ line' = Tail(line) /\ clean' = clean /\ overrun' = overrun
  BY Zenon DEF RxInv, RxType, NextByte, boardVars
<1>2. CASE done
  <2>1. heard' = Append(heard, bytes[1].m)
    BY <1>2, Zenon DEF NextByte
  <2>2. PICK b \in Byte : b = Head(line)
    BY <1>1, HeadTail
  <2> DEFINE m == bytes[1].m
             n == Len(bytes)
  <2>3. n = Len(msg_buf) + 1 /\ bytes[n] = b /\ bytes[1] \in Byte /\ n \in Nat \ {0}
    BY <1>1, <2>2
  <2>4. m \in Messages
    BY <2>3 DEF Byte
  <2>5. bytes = Bytes(m)
    BY <1>2, Zenon DEF Parses
  <2> HIDE DEF bytes
  <2>6. n = get_message_size(m.type)
    BY <2>4, <2>5, BytesFacts, Zenon
  <2>7. n \in 1 .. get_message_size(m.type)
    BY <2>3, <2>6
  <2>8. b = [m |-> m, i |-> n]
    <3>1. Bytes(m)[n] = [m |-> m, i |-> n]
      BY <2>4, <2>7, BytesFacts
    <3> HIDE DEF m, n
    <3> QED
      BY <2>3, <2>5, <3>1, Zenon
  <2>9. LastByte(b) /\ b.m = m
    BY <2>6, <2>8 DEF LastByte
  <2>10. Unread # << >> /\ Unread' = Tail(Unread) /\ Head(Unread) = m
    BY <1>1, <2>2, <2>9, EndedTaken, UnreadNext, Zenon DEF Unread
  <2> QED
    BY <1>1, <2>1, <2>10, Zenon DEF Channel!Next, Channel!Receive
<1>3. CASE ~done
  <2>1. heard' = heard
    BY <1>3, Zenon DEF NextByte
  <2>2. clean => ~LastByte(Head(line))
    <3>1. ASSUME clean, LastByte(Head(line)) PROVE FALSE
      <4>1. Len(msg_buf) + 1 = size /\ Parses(bytes)
        BY <3>1, StepInMessage, Zenon
      <4>2. Len(bytes) = Len(msg_buf) + 1
        <5>1. Head(line) \in Byte
          BY <1>1, HeadTail
        <5> QED
          BY <1>1, <5>1
      <4> QED
        BY <1>3, <4>1, <4>2, Zenon
    <3> QED
      BY <3>1
  <2> QED
    BY <1>1, <2>1, <2>2, ByteMissed, Zenon
<1> QED
  BY <1>2, <1>3

LEMMA ChannelFirstByte ==
  ASSUME RxInv, FirstByte
  PROVE  [Channel!Next]_(Channel!vars)
<1>1. /\ line \in Seq(Byte) /\ ~reading /\ line # << >> /\ line' = Tail(line)
      /\ clean' = clean /\ heard' = heard /\ overrun' = overrun
  BY Zenon DEF RxInv, RxType, FirstByte, boardVars
<1>2. PICK b \in Byte : b = Head(line) /\ b = line[1]
  BY <1>1, HeadTail
<1>3. ASSUME clean PROVE ~LastByte(b)
  <2>1. b.i = 1
    BY <1>1, <1>2, <1>3, Zenon DEF RxInv, InStep
  <2>2. get_message_size(b.m.type) \in 2 .. LongSize
    BY SizeFacts
  <2> QED
    BY <2>1, <2>2 DEF LastByte
<1> QED
  BY <1>1, <1>2, <1>3, ByteMissed, Zenon

LEMMA ChannelDiscard ==
  ASSUME RxInv, DiscardGarbage
  PROVE  [Channel!Next]_(Channel!vars)
<1>1. /\ line # << >> /\ line' = Tail(line) /\ clean' = clean /\ heard' = heard /\ ~clean
      /\ overrun' = overrun
  BY Zenon DEF RxInv, DiscardGarbage, rxVars, boardVars
<1> QED
  BY <1>1, ByteMissed, Zenon

LEMMA ChannelOverrun ==
  ASSUME RxInv, Overrun
  PROVE  [Channel!Next]_(Channel!vars)
<1>1. /\ line \in Seq(Byte) /\ line # << >> /\ line' = Tail(line) /\ ~clean
      /\ heard' = heard /\ clean' = clean /\ overrun' = TRUE
  BY OverrunUnclean, Zenon DEF Overrun, RxInv, RxType
<1>2. Unread' = Unread \/ (Unread # << >> /\ Unread' = Tail(Unread))
  BY <1>1, EndedTaken, UnreadNext, Zenon DEF Unread
<1> QED
  BY <1>1, <1>2, Zenon DEF Channel!Next, Channel!Overrun

LEMMA ChannelDamaged ==
  ASSUME Damaged
  PROVE  [Channel!Next]_(Channel!vars)
<1>1. overrun /\ overrun' = overrun
  BY Zenon DEF Damaged
<1>2. overrun'
  BY <1>1
<1> QED
  BY <1>1, <1>2, Zenon DEF Channel!Next, Channel!Damaged

LEMMA ChannelTimeout ==
  ASSUME Timeout
  PROVE  [Channel!Next]_(Channel!vars)
<1>1. /\ line = << >> /\ line' = << >> /\ clean' = TRUE /\ heard' = heard
      /\ overrun' = overrun
  BY Zenon DEF Timeout
<1>2. Unread = << >> /\ Unread' = << >>
  BY <1>1, EndedEmpty, UnreadNext, Zenon DEF Unread
<1> QED
  BY <1>1, <1>2, Zenon DEF Channel!Next, Channel!Silence

LEMMA ChannelSent ==
  ASSUME RxInv, NEW m \in Messages, line' = line \o Bytes(m), UNCHANGED <<heard, clean, overrun>>
  PROVE  [Channel!Next]_(Channel!vars)
<1>1. line \in Seq(Byte) /\ Bytes(m) \in Seq(Byte)
  BY BytesFacts, Zenon DEF RxInv, RxType
<1> DEFINE x == Ended(line)
<1>2. x \in Seq(Messages) /\ Ended(line') = x \o <<m>>
  <2>1. Ended(line) \in Seq(Messages) /\ Ended(line \o Bytes(m)) = Ended(line) \o Ended(Bytes(m))
    BY <1>1, EndedConcat
  <2> QED
    BY <2>1, BytesEnd, Zenon
<1> HIDE DEF x
<1>3. Append(x, m) = x \o <<m>>
  BY <1>2, AppendIsConcat
<1>4. Unread' = Append(Unread, m)
  BY <1>2, <1>3, UnreadNext, Zenon DEF Unread, x
<1> QED
  BY <1>4, Zenon DEF Channel!Next, Channel!Send

LEMMA ChannelFault ==
  ASSUME RxInv, LoseByte \/ Reset
  PROVE  [Channel!Next]_(Channel!vars)
<1>1. line \in Seq(Byte) /\ heard' = heard /\ ~clean' /\ overrun' = overrun
  BY Zenon DEF LoseByte, Reset, rxVars, RxInv, RxType
<1>2. \/ \E k \in DOMAIN Unread : Unread' = RemoveAt(Unread, k)
      \/ \E n \in 0 .. Len(Unread) : Unread' = SubSeq(Unread, 1, n)
  <2>1. CASE LoseByte
    <3>1. PICK i \in DOMAIN line : line' = RemoveAt(line, i)
      BY <2>1 DEF LoseByte
    <3>2. CASE Ended(line') = Ended(line)
      <4> DEFINE x == Ended(line)
      <4>1. x \in Seq(Messages)
        BY <1>1, EndedConcat
      <4> HIDE DEF x
      <4>2. Len(x) \in 0 .. Len(x) /\ SubSeq(x, 1, Len(x)) = x
        BY <4>1, SubSeqFull
      <4> QED
        BY <3>2, <4>2, UnreadNext, Zenon DEF Unread, x
    <3>3. CASE \E k \in DOMAIN Ended(line) : Ended(line') = RemoveAt(Ended(line), k)
      BY <3>3, UnreadNext, Zenon DEF Unread
    <3> QED
      BY <1>1, <3>1, <3>2, <3>3, EndedWithout, Zenon
  <2>2. CASE Reset
    <3>1. PICK n \in 0 .. Len(line) : line' = SubSeq(line, 1, n)
      BY <2>2 DEF Reset
    <3> QED
      BY <1>1, <3>1, EndedCut, UnreadNext, Zenon DEF Unread
  <2> QED
    BY <2>1, <2>2
<1> QED
  BY <1>1, <1>2, SameRemoveAt, Zenon DEF Channel!Next, Channel!Fault

LEMMA ChannelStep == RxInv /\ [Next]_vars => [Channel!Next]_(Channel!vars)
<1> SUFFICES ASSUME RxInv, [Next]_vars PROVE [Channel!Next]_(Channel!vars)
  OBVIOUS
<1>1. CASE Send
  <2>1. PICK m \in Messages : line' = line \o Bytes(m)
    BY <1>1 DEF Send
  <2>2. UNCHANGED <<heard, clean, overrun>>
    BY <1>1, Zenon DEF Send, rxVars
  <2> QED
    BY <2>1, <2>2, ChannelSent
<1>2. CASE Announce
  <2>1. line' = line \o Bytes(Startup) /\ UNCHANGED <<heard, clean, overrun>>
    BY <1>2, Zenon DEF Announce, rxVars
  <2> QED
    BY <2>1, ChannelSent, RxAssumption
<1>3. CASE UNCHANGED vars
  <2>1. line' = line /\ heard' = heard /\ clean' = clean /\ overrun' = overrun
    BY <1>3, Zenon DEF vars, rxVars
  <2> QED
    BY <2>1, UnreadNext, Zenon DEF Channel!vars, Unread
<1> QED
  BY <1>1, <1>2, <1>3, ChannelDiscard, ChannelFirstByte, ChannelNextByte, ChannelOverrun,
     ChannelDamaged, ChannelTimeout, ChannelFault, Zenon DEF Next, Thread

(* As long as its buffer is not overrun, the parser never invents, doubles *)
(* or reorders a message; and after a silence none is missed, and nothing  *)
(* is stored behind the buffer, until the next fault.                      *)
THEOREM ChannelIsImplemented == Spec => ImplementsChannel
<1>1. Spec => []RxInv
  BY InvInit, InvStep, PTL DEF Spec
<1> QED
  BY <1>1, ChannelInit, ChannelStep, PTL DEF Spec, ImplementsChannel, Channel!Spec
=============================================================================
