-------------------------- MODULE JuliaOrderProofs --------------------------
(***************************************************************************)
(* In which order requests, results and ends follow each other when nobody *)
(* aborts from the keyboard and nobody restarts the board, and what that   *)
(* order is good for: a request finds the board idle, and a result is      *)
(* painted where it belongs.                                               *)
(*                                                                         *)
(* Then: the exchange implements the chunk job, and the image is whole     *)
(* when the application says so, for a user who moreover neither resizes,  *)
(* refreshes nor paints the image himself.  At the end, what is painted by *)
(* late results for a user who aborts but keeps the size.                  *)
(***************************************************************************)
EXTENDS JuliaProofs

(* The user does not abort.  (He may press the button of the board.)       *)
NoAbortKey == \A k \in Keys : k.type # "EV_ABORT"
NoReset == MaxResets = 0

-----------------------------------------------------------------------------
(* What the main thread will still take: the events in its queue and then  *)
(* the messages on the line.                                               *)
Coming ==
  [i \in 1 .. Len(evq) + Len(toPc) |->
     IF i <= Len(evq) THEN evq[i] ELSE Serial(toPc[i - Len(evq)])]

(* t is s with e put in at place a.                                        *)
InsertedAt(s, t, e, n, a) ==
  /\ n \in Nat /\ a \in 1 .. n + 1
  /\ DOMAIN s = 1 .. n /\ DOMAIN t = 1 .. n + 1
  /\ t[a] = e
  /\ \A i \in 1 .. n : i < a => t[i] = s[i]
  /\ \A i \in 1 .. n : i >= a => t[i + 1] = s[i]

(* An event put in moves the later ones, and no event is lost.             *)
LEMMA InsertedEvents ==
  ASSUME NEW s, NEW t, NEW e, NEW n, NEW a, InsertedAt(s, t, e, n, a)
  PROVE  /\ a \in DOMAIN t /\ t[a] = e
         /\ \A i \in DOMAIN s : \E k \in DOMAIN t : t[k] = s[i]
         /\ \A k \in DOMAIN t : t[k] = e \/ \E i \in DOMAIN s : t[k] = s[i]
<1>1. ASSUME NEW i \in DOMAIN s PROVE \E k \in DOMAIN t : t[k] = s[i]
  <2>1. CASE i < a
    <3>1. i \in DOMAIN t /\ t[i] = s[i]
      BY <1>1, <2>1, SMT DEF InsertedAt
    <3> QED
      BY <3>1
  <2>2. CASE i >= a
    <3>1. i + 1 \in DOMAIN t /\ t[i + 1] = s[i]
      BY <1>1, <2>2, SMT DEF InsertedAt
    <3> QED
      BY <3>1
  <2> QED
    BY <1>1, <2>1, <2>2, SMT DEF InsertedAt
<1>2. ASSUME NEW k \in DOMAIN t, t[k] # e PROVE \E i \in DOMAIN s : t[k] = s[i]
  <2>1. CASE k < a
    <3>1. k \in DOMAIN s /\ t[k] = s[k]
      BY <1>2, <2>1, SMT DEF InsertedAt
    <3> QED
      BY <3>1
  <2>2. CASE k > a
    <3>1. k - 1 \in DOMAIN s /\ t[k] = s[k - 1]
      <4>1. k - 1 \in 1 .. n /\ k - 1 >= a /\ (k - 1) + 1 = k
        BY <1>2, <2>2, SMT DEF InsertedAt
      <4> QED
        BY <4>1 DEF InsertedAt
    <3> QED
      BY <3>1
  <2> QED
    BY <1>2, <2>1, <2>2, SMT DEF InsertedAt
<1> QED
  BY <1>1, <1>2, SMT DEF InsertedAt

(* The number of coming events and which they are.                         *)
LEMMA ComingEvents ==
  ASSUME QueueOK, LinkOK
  PROVE  /\ Len(evq) \in Nat /\ Len(toPc) \in Nat
         /\ DOMAIN Coming = 1 .. Len(evq) + Len(toPc)
         /\ \A i \in 1 .. Len(evq) : Coming[i] = evq[i]
         /\ \A i \in 1 .. Len(toPc) : Coming[Len(evq) + i] = Serial(toPc[i])
<1>1. Len(evq) \in Nat /\ Len(toPc) \in Nat
  BY LenProperties DEF QueueOK, LinkOK
<1> DEFINE m == Len(evq)
           n == Len(toPc)
<1>2. Coming = [i \in 1 .. m + n |-> IF i <= m THEN evq[i] ELSE Serial(toPc[i - m])]
  BY DEF Coming
<1>3. m \in Nat /\ n \in Nat
  BY <1>1
<1> HIDE DEF m, n
<1>4. DOMAIN Coming = 1 .. m + n
  BY <1>2
<1>5. ASSUME NEW i \in 1 .. m PROVE Coming[i] = evq[i]
  <2>1. i \in 1 .. m + n /\ i <= m
    BY <1>3, <1>5, SMT
  <2> QED
    BY <1>2, <2>1
<1>6. ASSUME NEW i \in 1 .. n PROVE Coming[m + i] = Serial(toPc[i])
  <2>1. m + i \in 1 .. m + n /\ ~ (m + i <= m) /\ (m + i) - m = i
    BY <1>3, <1>6, SMT
  <2> QED
    BY <1>2, <2>1
<1> QED
  BY <1>1, <1>4, <1>5, <1>6 DEF m, n

(* The same in the next state.                                             *)
LEMMA ComingEventsNext ==
  ASSUME QueueOK', LinkOK'
  PROVE  /\ DOMAIN Coming' = 1 .. Len(evq') + Len(toPc')
         /\ \A i \in 1 .. Len(evq') : Coming'[i] = evq'[i]
         /\ \A i \in 1 .. Len(toPc') : Coming'[Len(evq') + i] = Serial(toPc'[i])
<1>1. (QueueOK /\ LinkOK =>
         /\ DOMAIN Coming = 1 .. Len(evq) + Len(toPc)
         /\ \A i \in 1 .. Len(evq) : Coming[i] = evq[i]
         /\ \A i \in 1 .. Len(toPc) : Coming[Len(evq) + i] = Serial(toPc[i]))'
  BY ComingEvents, PTL
<1> QED
  BY <1>1 DEF Serial

(* The main thread takes the first of them.                                *)
LEMMA ComingPop ==
  ASSUME QueueOK, QueueOK', LinkOK, LinkOK',
         evq # << >>, evq' = Tail(evq), UNCHANGED toPc
  PROVE  \E n : InsertedAt(Coming', Coming, Head(evq), n, 1)
<1>1. /\ Head(evq) = evq[1] /\ Len(evq) \in Nat /\ Len(evq) >= 1
      /\ Len(evq') = Len(evq) - 1
      /\ \A i \in 1 .. Len(evq) - 1 : evq'[i] = evq[i + 1]
  BY TailFacts, LenProperties DEF QueueOK
<1>2. /\ Len(toPc) \in Nat
      /\ DOMAIN Coming = 1 .. Len(evq) + Len(toPc)
      /\ \A i \in 1 .. Len(evq) : Coming[i] = evq[i]
      /\ \A i \in 1 .. Len(toPc) : Coming[Len(evq) + i] = Serial(toPc[i])
  BY ComingEvents
<1>3. /\ DOMAIN Coming' = 1 .. Len(evq') + Len(toPc)
      /\ \A i \in 1 .. Len(evq') : Coming'[i] = evq'[i]
      /\ \A i \in 1 .. Len(toPc) : Coming'[Len(evq') + i] = Serial(toPc[i])
  BY ComingEventsNext
<1> DEFINE m == Len(evq) - 1
           k == Len(toPc)
<1>4. m \in Nat /\ k \in Nat /\ Len(evq') = m /\ Len(evq) = m + 1
  BY <1>1, <1>2, SMT
<1> HIDE DEF m, k
<1>5. /\ DOMAIN Coming = 1 .. (m + 1) + k /\ DOMAIN Coming' = 1 .. m + k
      /\ \A i \in 1 .. m + 1 : Coming[i] = evq[i]
      /\ \A i \in 1 .. k : Coming[(m + 1) + i] = Serial(toPc[i])
      /\ \A i \in 1 .. m : Coming'[i] = evq[i + 1]
      /\ \A i \in 1 .. k : Coming'[m + i] = Serial(toPc[i])
  BY <1>1, <1>2, <1>3, <1>4 DEF m, k
<1>11. ASSUME NEW i \in 1 .. m + k PROVE Coming[i + 1] = Coming'[i]
  <2>1. CASE i <= m
    <3>1. i \in 1 .. m /\ i + 1 \in 1 .. m + 1
      BY <1>4, <1>11, <2>1, SMT
    <3> QED
      BY <1>5, <3>1
  <2>2. CASE ~ (i <= m)
    <3> DEFINE j == i - m
    <3>1. j \in 1 .. k /\ m + j = i /\ (m + 1) + j = i + 1
      BY <1>4, <1>11, <2>2, SMT
    <3> HIDE DEF j
    <3>2. Coming[(m + 1) + j] = Coming'[m + j]
      BY <1>5, <3>1
    <3> QED
      BY <3>1, <3>2
  <2> QED
    BY <2>1, <2>2
<1>6. 1 \in 1 .. m + 1 /\ (m + 1) + k = (m + k) + 1 /\ m + k \in Nat
  BY <1>4, SMT
<1>7. DOMAIN Coming' = 1 .. m + k /\ DOMAIN Coming = 1 .. (m + k) + 1
  BY <1>5, <1>6
<1>8. Coming[1] = Head(evq)
  BY <1>1, <1>5, <1>6
<1> DEFINE n == m + k
<1>9. /\ n \in Nat /\ 1 \in 1 .. n + 1
      /\ \A i \in 1 .. n : ~ (i < 1)
  BY <1>6, SMT
<1>10. InsertedAt(Coming', Coming, Head(evq), n, 1)
  BY <1>11, <1>7, <1>8, <1>9 DEF InsertedAt
<1> QED
  BY <1>10

(* A key, or the event the main thread pushes, comes behind the queue and  *)
(* before what is on the line.                                             *)
LEMMA ComingPush ==
  ASSUME QueueOK, QueueOK', LinkOK, LinkOK',
         NEW e \in QueueEvents, evq' = Append(evq, e), UNCHANGED toPc
  PROVE  \E n, a : InsertedAt(Coming, Coming', e, n, a)
<1> DEFINE m == Len(evq)
           k == Len(toPc)
<1>1. /\ m \in Nat /\ k \in Nat /\ Len(evq') = m + 1
      /\ \A i \in 1 .. m : evq'[i] = evq[i]
      /\ evq'[m + 1] = e
  BY AppendFacts, LenProperties DEF QueueOK, LinkOK
<1>2. /\ DOMAIN Coming = 1 .. m + k
      /\ \A i \in 1 .. m : Coming[i] = evq[i]
      /\ \A i \in 1 .. k : Coming[m + i] = Serial(toPc[i])
  BY ComingEvents
<1>3. /\ DOMAIN Coming' = 1 .. (m + 1) + k
      /\ \A i \in 1 .. m + 1 : Coming'[i] = evq'[i]
      /\ \A i \in 1 .. k : Coming'[(m + 1) + i] = Serial(toPc[i])
  BY <1>1, ComingEventsNext
<1> HIDE DEF m, k
<1>4. ASSUME NEW i \in 1 .. m + k, i < m + 1 PROVE Coming'[i] = Coming[i]
  <2>1. i \in 1 .. m /\ i \in 1 .. m + 1
    BY <1>1, <1>4, SMT
  <2> QED
    BY <1>1, <1>2, <1>3, <2>1
<1>5. ASSUME NEW i \in 1 .. m + k, i >= m + 1 PROVE Coming'[i + 1] = Coming[i]
  <2> DEFINE j == i - m
  <2>1. j \in 1 .. k /\ m + j = i /\ (m + 1) + j = i + 1
    BY <1>1, <1>5, SMT
  <2> HIDE DEF j
  <2>2. Coming'[(m + 1) + j] = Coming[m + j]
    BY <1>2, <1>3, <2>1
  <2> QED
    BY <2>1, <2>2
<1> DEFINE n == m + k
           a == m + 1
<1>6. n \in Nat /\ a \in 1 .. n + 1 /\ (m + 1) + k = n + 1 /\ a \in 1 .. m + 1
  BY <1>1, SMT
<1>7. InsertedAt(Coming, Coming', e, n, a)
  BY <1>1, <1>2, <1>3, <1>4, <1>5, <1>6 DEF InsertedAt
<1> QED
  BY <1>7

(* What the board sends comes last.                                        *)
LEMMA ComingSend ==
  ASSUME QueueOK, QueueOK', LinkOK, LinkOK',
         NEW x \in NucleoMessages, Send(x), UNCHANGED evq
  PROVE  \E n : InsertedAt(Coming, Coming', Serial(x), n, n + 1)
<1> DEFINE m == Len(evq)
           k == Len(toPc)
<1>1. /\ m \in Nat /\ k \in Nat /\ Len(toPc') = k + 1
      /\ \A i \in 1 .. k : toPc'[i] = toPc[i]
      /\ toPc'[k + 1] = x
  BY AppendFacts, LenProperties DEF QueueOK, LinkOK, Send
<1>2. /\ DOMAIN Coming = 1 .. m + k
      /\ \A i \in 1 .. m : Coming[i] = evq[i]
      /\ \A i \in 1 .. k : Coming[m + i] = Serial(toPc[i])
  BY ComingEvents
<1>3. /\ DOMAIN Coming' = 1 .. m + (k + 1)
      /\ \A i \in 1 .. m : Coming'[i] = evq[i]
      /\ \A i \in 1 .. k + 1 : Coming'[m + i] = Serial(toPc'[i])
  BY <1>1, ComingEventsNext
<1> HIDE DEF m, k
<1>4. ASSUME NEW i \in 1 .. m + k PROVE Coming'[i] = Coming[i]
  <2>1. CASE i <= m
    <3>1. i \in 1 .. m
      BY <1>1, <1>4, <2>1, SMT
    <3> QED
      BY <1>2, <1>3, <3>1
  <2>2. CASE ~ (i <= m)
    <3> DEFINE j == i - m
    <3>1. j \in 1 .. k /\ j \in 1 .. k + 1 /\ m + j = i
      BY <1>1, <1>4, <2>2, SMT
    <3> HIDE DEF j
    <3>2. Coming'[m + j] = Coming[m + j]
      BY <1>1, <1>2, <1>3, <3>1
    <3> QED
      BY <3>1, <3>2
  <2> QED
    BY <2>1, <2>2
<1> DEFINE n == m + k
<1>5. /\ n \in Nat /\ n + 1 \in 1 .. n + 1 /\ m + (k + 1) = n + 1 /\ k + 1 \in 1 .. k + 1
      /\ \A i \in 1 .. n : ~ (i >= n + 1)
  BY <1>1, SMT
<1>6. Coming'[n + 1] = Serial(x)
  BY <1>1, <1>3, <1>5
<1>7. InsertedAt(Coming, Coming', Serial(x), n, n + 1)
  BY <1>2, <1>3, <1>4, <1>5, <1>6 DEF InsertedAt
<1> QED
  BY <1>7

(* The serial thread moves an event, and changes none.                     *)
LEMMA ComingReceive ==
  ASSUME QueueOK, QueueOK', LinkOK, LinkOK', ReceiveMessage
  PROVE  Coming' = Coming
<1> DEFINE m == Len(evq)
           k == Len(toPc) - 1
<1>1. toPc # << >> /\ evq' = Append(evq, Serial(Head(toPc))) /\ toPc' = Tail(toPc)
  BY DEF ReceiveMessage
<1>2. /\ Head(toPc) \in NucleoMessages /\ Head(toPc) = toPc[1] /\ k \in Nat
      /\ Len(toPc) = k + 1 /\ Len(toPc') = k
      /\ \A i \in 1 .. k : toPc'[i] = toPc[i + 1]
  BY <1>1, TailFacts, LenProperties, SMT DEF LinkOK
<1>3. Serial(Head(toPc)) \in QueueEvents
  BY <1>2, SerialIsEvent
<1>4. /\ m \in Nat /\ Len(evq') = m + 1
      /\ \A i \in 1 .. m : evq'[i] = evq[i]
      /\ evq'[m + 1] = Serial(toPc[1])
  BY <1>1, <1>2, <1>3, AppendFacts, LenProperties DEF QueueOK
<1>5. /\ DOMAIN Coming = 1 .. m + (k + 1)
      /\ \A i \in 1 .. m : Coming[i] = evq[i]
      /\ \A i \in 1 .. k + 1 : Coming[m + i] = Serial(toPc[i])
  BY <1>2, ComingEvents
<1>6. /\ DOMAIN Coming' = 1 .. (m + 1) + k
      /\ \A i \in 1 .. m + 1 : Coming'[i] = evq'[i]
      /\ \A i \in 1 .. k : Coming'[(m + 1) + i] = Serial(toPc'[i])
  BY <1>2, <1>4, ComingEventsNext
<1> HIDE DEF m, k
<1>7. ASSUME NEW i \in 1 .. m + (k + 1) PROVE Coming'[i] = Coming[i]
  <2>1. CASE i <= m
    <3>1. i \in 1 .. m /\ i \in 1 .. m + 1
      BY <1>2, <1>4, <1>7, <2>1, SMT
    <3> QED
      BY <1>4, <1>5, <1>6, <3>1
  <2>2. CASE i = m + 1
    <3>1. 1 \in 1 .. k + 1 /\ m + 1 \in 1 .. m + 1
      BY <1>2, <1>4, SMT
    <3> QED
      BY <1>4, <1>5, <1>6, <2>2, <3>1
  <2>3. CASE i > m + 1
    <3> DEFINE j == i - (m + 1)
    <3>1. j \in 1 .. k /\ j + 1 \in 1 .. k + 1 /\ m + (j + 1) = i /\ (m + 1) + j = i
      BY <1>2, <1>4, <1>7, <2>3, SMT
    <3> HIDE DEF j
    <3>2. Coming'[(m + 1) + j] = Coming[m + (j + 1)]
      BY <1>2, <1>5, <1>6, <3>1
    <3> QED
      BY <3>1, <3>2
  <2> QED
    BY <1>2, <1>4, <1>7, <2>1, <2>2, <2>3, SMT
<1>8. m + (k + 1) = (m + 1) + k
  BY <1>2, <1>4, SMT
<1>9. /\ Coming = [i \in DOMAIN Coming |-> Coming[i]]
      /\ Coming' = [i \in DOMAIN Coming' |-> Coming'[i]]
  BY DEF Coming
<1> QED
  BY <1>5, <1>6, <1>7, <1>8, <1>9

-----------------------------------------------------------------------------
(* Ends and results among the coming events.                               *)

IsReply(e, T) == e.type = "EV_SERIAL" /\ e.msg.type \in T
Closing == {"MSG_DONE", "MSG_ABORT"}
Result == {"MSG_COMPUTE_DATA"}
Restart == {"MSG_STARTUP"}
Ours == Closing \union Result \union Restart

Without(s, T) == \A i \in DOMAIN s : ~ IsReply(s[i], T)

(* One end, with all results before it.                                    *)
ClosesAt(s, i) ==
  /\ IsReply(s[i], Closing)
  /\ \A j \in DOMAIN s : j < i => ~ IsReply(s[j], Closing)
  /\ \A j \in DOMAIN s : j > i => ~ IsReply(s[j], Closing \union Result)
Closes(s) == \E i \in DOMAIN s : ClosesAt(s, i)

(* What an event put in changes: itself.                                   *)
LEMMA WithoutInserted ==
  ASSUME NEW s, NEW t, NEW e, NEW n, NEW a, InsertedAt(s, t, e, n, a), NEW T
  PROVE  Without(t, T) <=> Without(s, T) /\ ~ IsReply(e, T)
<1>1. /\ a \in DOMAIN t /\ t[a] = e
      /\ \A i \in DOMAIN s : \E k \in DOMAIN t : t[k] = s[i]
      /\ \A k \in DOMAIN t : t[k] = e \/ \E i \in DOMAIN s : t[k] = s[i]
  BY InsertedEvents
<1>2. ASSUME Without(t, T) PROVE Without(s, T) /\ ~ IsReply(e, T)
  BY <1>1, <1>2, Zenon DEF Without
<1>3. ASSUME Without(s, T), ~ IsReply(e, T) PROVE Without(t, T)
  BY <1>1, <1>3, Zenon DEF Without
<1> QED
  BY <1>2, <1>3

(* An event that is no end, and no result unless it is the first, changes  *)
(* nothing of the order.                                                   *)
LEMMA ClosesInserted ==
  ASSUME NEW s, NEW t, NEW e, NEW n, NEW a, InsertedAt(s, t, e, n, a),
         ~ IsReply(e, Closing), IsReply(e, Result) => a = 1
  PROVE  Closes(t) <=> Closes(s)
<1> DEFINE place(i) == IF i < a THEN i ELSE i + 1
<1>1. /\ n \in Nat /\ a \in 1 .. n + 1
      /\ DOMAIN s = 1 .. n /\ DOMAIN t = 1 .. n + 1 /\ t[a] = e
      /\ \A i \in 1 .. n : place(i) \in 1 .. n + 1 /\ place(i) # a /\ t[place(i)] = s[i]
  BY SMT DEF InsertedAt
<1>2. ASSUME NEW k \in 1 .. n + 1, k # a
      PROVE  \E i \in 1 .. n : k = place(i)
  <2>1. CASE k < a
    <3>1. k \in 1 .. n /\ k = place(k)
      BY <1>1, <1>2, <2>1, SMT
    <3> QED
      BY <3>1
  <2>2. CASE k > a
    <3>1. k - 1 \in 1 .. n /\ k = place(k - 1)
      BY <1>1, <1>2, <2>2, SMT
    <3> QED
      BY <3>1
  <2> QED
    BY <1>1, <1>2, <2>1, <2>2, SMT
<1>3. \A i, j \in 1 .. n : (i < j <=> place(i) < place(j)) /\ (i > j <=> place(i) > place(j))
  BY <1>1, SMT
<1>4. \A i \in 1 .. n : ~ (a = 1 /\ a > place(i))
  BY <1>1, SMT
<1> HIDE DEF place
<1>5. \A T : IsReply(e, Closing \union T) => IsReply(e, T)
  BY DEF IsReply
<1>6. ASSUME NEW i \in 1 .. n, ClosesAt(s, i) PROVE ClosesAt(t, place(i))
  <2>1. IsReply(t[place(i)], Closing)
    BY <1>1, <1>6 DEF ClosesAt
  <2>2. ASSUME NEW k \in 1 .. n + 1, k < place(i) PROVE ~ IsReply(t[k], Closing)
    <3>1. CASE k = a
      BY <1>1, <3>1
    <3>2. CASE k # a
      <4>1. PICK j \in 1 .. n : k = place(j)
        BY <1>2, <3>2
      <4> QED
        BY <1>1, <1>3, <1>6, <2>2, <4>1 DEF ClosesAt
    <3> QED
      BY <3>1, <3>2
  <2>3. ASSUME NEW k \in 1 .. n + 1, k > place(i)
        PROVE  ~ IsReply(t[k], Closing \union Result)
    <3>1. CASE k = a
      BY <1>1, <1>4, <1>5, <2>3, <3>1
    <3>2. CASE k # a
      <4>1. PICK j \in 1 .. n : k = place(j)
        BY <1>2, <3>2
      <4> QED
        BY <1>1, <1>3, <1>6, <2>3, <4>1 DEF ClosesAt
    <3> QED
      BY <3>1, <3>2
  <2> QED
    BY <1>1, <2>1, <2>2, <2>3 DEF ClosesAt
<1>7. ASSUME NEW i \in 1 .. n, ClosesAt(t, place(i)) PROVE ClosesAt(s, i)
  BY <1>1, <1>3, <1>7 DEF ClosesAt
<1>8. ~ ClosesAt(t, a)
  BY <1>1 DEF ClosesAt
<1>9. ASSUME Closes(s) PROVE Closes(t)
  BY <1>1, <1>6, <1>9 DEF Closes
<1>10. ASSUME Closes(t) PROVE Closes(s)
  BY <1>1, <1>2, <1>7, <1>8, <1>10 DEF Closes
<1> QED
  BY <1>9, <1>10

(* An end that comes last closes what was open.                            *)
LEMMA ClosesLast ==
  ASSUME NEW s, NEW t, NEW e, NEW n, InsertedAt(s, t, e, n, n + 1),
         Without(s, Closing), IsReply(e, Closing)
  PROVE  Closes(t)
<1>1. /\ n \in Nat /\ n + 1 \in DOMAIN t /\ t[n + 1] = e
      /\ \A j \in DOMAIN t : j < n + 1 => j \in DOMAIN s /\ t[j] = s[j]
      /\ \A j \in DOMAIN t : ~ (j > n + 1)
  BY SMT DEF InsertedAt
<1>2. ClosesAt(t, n + 1)
  BY <1>1 DEF ClosesAt, Without
<1> QED
  BY <1>1, <1>2 DEF Closes

(* After the end nothing comes.                                            *)
LEMMA ClosedFirst ==
  ASSUME NEW s, NEW t, NEW e, NEW n, InsertedAt(s, t, e, n, 1),
         Closes(t), IsReply(e, Closing)
  PROVE  Without(s, Closing \union Result)
<1>1. /\ n \in Nat /\ DOMAIN s = 1 .. n /\ DOMAIN t = 1 .. n + 1 /\ t[1] = e
      /\ \A i \in 1 .. n : t[i + 1] = s[i] /\ i + 1 \in 1 .. n + 1 /\ i + 1 > 1
      /\ \A i \in 1 .. n + 1 : i = 1 \/ 1 < i
      /\ 1 \in 1 .. n + 1
  BY SMT DEF InsertedAt
<1>2. PICK i \in DOMAIN t : ClosesAt(t, i)
  BY DEF Closes
<1>3. i = 1
  BY <1>1, <1>2 DEF ClosesAt
<1> QED
  BY <1>1, <1>2, <1>3 DEF ClosesAt, Without

-----------------------------------------------------------------------------
(* Requests among the messages to the board.                               *)

NoRequest == NoneAfter(0, "MSG_COMPUTE")
Settled == NoneAfter(0, "MSG_SET_COMPUTE")

(* One request, with all parameters before it.                             *)
RequestAt(i) ==
  /\ toNucleo[i].type = "MSG_COMPUTE"
  /\ \A j \in DOMAIN toNucleo : j < i => toNucleo[j].type # "MSG_COMPUTE"
  /\ NoneAfter(i, "MSG_COMPUTE") /\ NoneAfter(i, "MSG_SET_COMPUTE")
Asking == \E i \in DOMAIN toNucleo : RequestAt(i)

(* What the application sends.                                             *)
LEMMA SendAsks ==
  ASSUME LinkOK, NEW x \in PcMessages, SendPc(x)
  PROVE  /\ x.type # "MSG_ABORT" /\ NoneAfter(0, "MSG_ABORT") => NoneAfter(0, "MSG_ABORT")'
         /\ x.type # "MSG_COMPUTE" /\ NoRequest => NoRequest'
         /\ x.type # "MSG_SET_COMPUTE" /\ Settled => Settled'
         /\ x.type \notin {"MSG_COMPUTE", "MSG_SET_COMPUTE"} /\ Asking => Asking'
         /\ x.type = "MSG_COMPUTE" /\ NoRequest => Asking'
<1>1. /\ Len(toNucleo) \in Nat
      /\ DOMAIN toNucleo = 1 .. Len(toNucleo)
      /\ DOMAIN toNucleo' = 1 .. Len(toNucleo) + 1
      /\ \A j \in 1 .. Len(toNucleo) : toNucleo'[j] = toNucleo[j]
      /\ toNucleo'[Len(toNucleo) + 1] = x
  BY AppendFacts, LenProperties DEF LinkOK, SendPc
<1>2. /\ x.type # "MSG_ABORT" /\ NoneAfter(0, "MSG_ABORT") => NoneAfter(0, "MSG_ABORT")'
      /\ x.type # "MSG_COMPUTE" /\ NoRequest => NoRequest'
      /\ x.type # "MSG_SET_COMPUTE" /\ Settled => Settled'
  <2>1. 0 \in Nat
    OBVIOUS
  <2> QED
    BY <2>1, NoneAfterSend DEF NoRequest, Settled
<1> DEFINE n == Len(toNucleo)
<1>3. /\ n \in Nat /\ n + 1 \in DOMAIN toNucleo' /\ DOMAIN toNucleo \subseteq DOMAIN toNucleo'
      /\ \A j \in DOMAIN toNucleo' : j # n + 1 => j \in DOMAIN toNucleo /\ toNucleo'[j] = toNucleo[j]
      /\ \A j \in DOMAIN toNucleo : toNucleo'[j] = toNucleo[j] /\ j # n + 1 /\ j < n + 1
      /\ \A j \in DOMAIN toNucleo : j > 0 /\ j \in Nat
      /\ \A j \in DOMAIN toNucleo' : ~ (j > n + 1)
      /\ toNucleo'[n + 1] = x
  BY <1>1, SMT
<1> HIDE DEF n
<1>4. ASSUME x.type \notin {"MSG_COMPUTE", "MSG_SET_COMPUTE"},
             NEW i \in DOMAIN toNucleo, RequestAt(i)
      PROVE  Asking'
  <2>1. RequestAt(i)'
    BY <1>3, <1>4 DEF RequestAt, NoneAfter
  <2> QED
    BY <1>3, <2>1 DEF Asking
<1>5. ASSUME x.type = "MSG_COMPUTE", NoRequest PROVE Asking'
  <2>1. /\ \A j \in DOMAIN toNucleo' : j < n + 1 => toNucleo'[j].type # "MSG_COMPUTE"
        /\ toNucleo'[n + 1].type = "MSG_COMPUTE"
    <3>1. \A j \in DOMAIN toNucleo' : j < n + 1 => j # n + 1
      BY <1>3, SMT
    <3> QED
      BY <1>3, <1>5, <3>1 DEF NoRequest, NoneAfter
  <2> QED
    BY <1>3, <2>1 DEF Asking, RequestAt, NoneAfter
<1> QED
  BY <1>2, <1>4, <1>5 DEF Asking

(* What the board takes.                                                   *)
LEMMA ReceiveAsks ==
  ASSUME LinkOK, NEW type, Received(type)
  PROVE  /\ NoneAfter(0, "MSG_ABORT") => type # "MSG_ABORT" /\ NoneAfter(0, "MSG_ABORT")'
         /\ NoRequest => type # "MSG_COMPUTE" /\ NoRequest'
         /\ Settled => Settled'
         /\ type # "MSG_COMPUTE" /\ Asking => Asking'
         /\ type = "MSG_COMPUTE" /\ Asking => NoRequest' /\ Settled'
<1>1. /\ 1 \in DOMAIN toNucleo /\ toNucleo[1].type = type
      /\ \A i \in DOMAIN toNucleo' :
            i + 1 \in DOMAIN toNucleo /\ toNucleo'[i] = toNucleo[i + 1]
      /\ \A i \in DOMAIN toNucleo :
            i # 1 => i - 1 \in DOMAIN toNucleo' /\ toNucleo'[i - 1] = toNucleo[i]
      /\ \A i \in DOMAIN toNucleo : i \in Nat /\ i >= 1
      /\ \A i \in DOMAIN toNucleo' : i \in Nat /\ i >= 1
  BY ReceiveShifts
<1>2. 1 > 0
  OBVIOUS
<1>3. /\ NoneAfter(0, "MSG_ABORT") => type # "MSG_ABORT" /\ NoneAfter(0, "MSG_ABORT")'
      /\ NoRequest => type # "MSG_COMPUTE" /\ NoRequest'
      /\ Settled => Settled'
  BY <1>1, <1>2, NoneAfterReceive DEF NoRequest, Settled, NoneAfter
<1>4. ASSUME type # "MSG_COMPUTE", NEW i \in DOMAIN toNucleo, RequestAt(i) PROVE Asking'
  <2>1. i # 1
    BY <1>1, <1>4 DEF RequestAt
  <2>2. i - 1 \in DOMAIN toNucleo' /\ toNucleo'[i - 1] = toNucleo[i]
    BY <1>1, <2>1
  <2>3. /\ NoneAfter(i, "MSG_COMPUTE") /\ NoneAfter(i, "MSG_SET_COMPUTE")
    BY <1>4 DEF RequestAt
  <2>4. /\ \A j \in DOMAIN toNucleo' : j > i - 1 => toNucleo'[j].type # "MSG_COMPUTE"
        /\ \A j \in DOMAIN toNucleo' : j > i - 1 => toNucleo'[j].type # "MSG_SET_COMPUTE"
    BY <2>3, NoneAfterReceive
  <2>5. \A j \in DOMAIN toNucleo' : j < i - 1 => j + 1 < i
    BY <1>1, SMT
  <2>6. \A j \in DOMAIN toNucleo' : j < i - 1 => toNucleo'[j].type # "MSG_COMPUTE"
    BY <1>1, <1>4, <2>5 DEF RequestAt
  <2> QED
    BY <1>4, <2>2, <2>4, <2>6 DEF Asking, RequestAt, NoneAfter
<1>5. ASSUME type = "MSG_COMPUTE", NEW i \in DOMAIN toNucleo, RequestAt(i)
      PROVE  NoRequest' /\ Settled'
  <2>1. i = 1
    <3>1. i = 1 \/ 1 < i
      BY <1>1, SMT
    <3> QED
      BY <1>1, <1>5, <3>1 DEF RequestAt
  <2> QED
    BY <1>5, <2>1, NoneAfterReceive DEF RequestAt, NoRequest, Settled
<1> QED
  BY <1>3, <1>4, <1>5 DEF Asking

-----------------------------------------------------------------------------
(* ComputeFindsIdle: a belief that the board computes has one request, or  *)
(* the board that works on it, or the end of it, and nothing else is left  *)
(* of any request before.                                                  *)

Silent == Without(Coming, Closing \union Result)
Resting == NoRequest /\ ~ nucleo.computing /\ Silent
Asked == Asking /\ ~ nucleo.computing /\ Silent
Working == NoRequest /\ Settled /\ nucleo.computing /\ Without(Coming, Closing)
Closed == NoRequest /\ Settled /\ ~ nucleo.computing /\ Closes(Coming)

(* Nothing on the way that aborts or restarts.                             *)
Undisturbable ==
  /\ NoAbortKey /\ NoReset
  /\ NoneAfter(0, "MSG_ABORT")
  /\ \A i \in DOMAIN evq : evq[i].type # "EV_ABORT"
  /\ Without(Coming, Restart)

OneRequest ==
  /\ ~ parameters.computing => Resting
  /\ parameters.computing =>
        (main = "crashed" /\ Resting) \/ Asked \/ Working \/ Closed

(* Steps that neither ask nor answer.                                      *)
LEMMA NeutralStep ==
  ASSUME NoRequest => NoRequest', Settled => Settled', Asking => Asking',
         nucleo'.computing = nucleo.computing, Silent => Silent',
         Without(Coming, Closing) => Without(Coming, Closing)',
         Closes(Coming) => Closes(Coming)'
  PROVE  /\ (Resting => Resting') /\ (Asked => Asked')
         /\ (Working => Working') /\ (Closed => Closed')
  BY DEF Resting, Asked, Working, Closed

(* Steps that leave the messages to the board alone.                       *)
LEMMA SameRequests ==
  ASSUME UNCHANGED toNucleo
  PROVE  /\ NoRequest' = NoRequest /\ Settled' = Settled /\ Asking' = Asking
         /\ NoneAfter(0, "MSG_ABORT")' = NoneAfter(0, "MSG_ABORT")
  BY DEF NoRequest, Settled, Asking, RequestAt, NoneAfter

(* An event that neither ends nor restarts changes nothing of the order,   *)
(* be it put in or taken as the first.                                     *)
LEMMA NeutralEvent ==
  ASSUME NEW e, ~ IsReply(e, Ours),
         \/ \E n, a : InsertedAt(Coming, Coming', e, n, a)
         \/ \E n, a : InsertedAt(Coming', Coming, e, n, a)
  PROVE  /\ Silent' <=> Silent
         /\ Without(Coming, Closing)' <=> Without(Coming, Closing)
         /\ Without(Coming, Restart)' <=> Without(Coming, Restart)
         /\ Closes(Coming)' <=> Closes(Coming)
<1>1. /\ ~ IsReply(e, Closing) /\ ~ IsReply(e, Result) /\ ~ IsReply(e, Restart)
      /\ ~ IsReply(e, Closing \union Result)
  BY DEF IsReply, Ours
<1>2. CASE \E n, a : InsertedAt(Coming, Coming', e, n, a)
  <2>1. PICK n, a : InsertedAt(Coming, Coming', e, n, a)
    BY <1>2
  <2>2. \A T : Without(Coming', T) <=> Without(Coming, T) /\ ~ IsReply(e, T)
    BY <2>1, WithoutInserted
  <2>3. Closes(Coming') <=> Closes(Coming)
    BY <1>1, <2>1, ClosesInserted
  <2> QED
    BY <1>1, <2>2, <2>3 DEF Silent, Without, Closes, ClosesAt
<1>3. CASE \E n, a : InsertedAt(Coming', Coming, e, n, a)
  <2>1. PICK n, a : InsertedAt(Coming', Coming, e, n, a)
    BY <1>3
  <2>2. \A T : Without(Coming, T) <=> Without(Coming', T) /\ ~ IsReply(e, T)
    BY <2>1, WithoutInserted
  <2>3. Closes(Coming) <=> Closes(Coming')
    BY <1>1, <2>1, ClosesInserted
  <2> QED
    BY <1>1, <2>2, <2>3 DEF Silent, Without, Closes, ClosesAt
<1> QED
  BY <1>2, <1>3

(* What a key other than the abort does to the belief and sends.           *)
LEMMA KeyEventAsks ==
  ASSUME TypeOK, HandleKeyEvent, Head(evq).type # "EV_ABORT"
  PROVE  \/ /\ parameters'.computing = parameters.computing /\ UNCHANGED main
            /\ \/ UNCHANGED toNucleo
               \/ \E x : SendPc(x) /\ x.type = "MSG_GET_VERSION"
         \/ /\ ~ parameters.computing /\ ~ parameters'.computing
            /\ \E x : SendPc(x) /\ x.type = "MSG_SET_COMPUTE"
         \/ /\ ~ parameters.computing /\ parameters'.computing
            /\ \E x : SendPc(x) /\ x.type = "MSG_COMPUTE"
         \/ /\ ~ parameters.computing /\ parameters'.computing
            /\ main' = "crashed" /\ UNCHANGED toNucleo
<1>1. ParametersOK
  BY DEF TypeOK
<1> DEFINE Same == /\ parameters'.computing = parameters.computing /\ UNCHANGED main
                   /\ \/ UNCHANGED toNucleo
                      \/ \E x : SendPc(x) /\ x.type = "MSG_GET_VERSION"
           Sets == /\ ~ parameters.computing /\ ~ parameters'.computing
                   /\ \E x : SendPc(x) /\ x.type = "MSG_SET_COMPUTE"
           Asks == /\ ~ parameters.computing /\ parameters'.computing
                   /\ \E x : SendPc(x) /\ x.type = "MSG_COMPUTE"
           Dies == /\ ~ parameters.computing /\ parameters'.computing
                   /\ main' = "crashed" /\ UNCHANGED toNucleo
<1>2. SUFFICES Same \/ Sets \/ Asks \/ Dies
  OBVIOUS
<1>3. CASE HandleGetVersion
  <2>1. \A t : Plain(t).type = t
    BY DEF Plain
  <2>2. Same
    BY <1>3, <2>1 DEF HandleGetVersion
  <2> QED
    BY <2>2
<1>4. CASE HandleChangePar
  <2>1. Same
    BY <1>1, <1>4, SMT DEF HandleChangePar, ParametersOK
  <2> QED
    BY <2>1
<1>5. CASE HandleSetChange
  <2> DEFINE changed == [parameters EXCEPT !.computation_set = FALSE]
  <2>1. \/ \E c \in Cs : parameters' = [changed EXCEPT !.c = c]
        \/ parameters' = [changed EXCEPT !.n = ChangedN]
        \/ parameters' = changed
    BY <1>5, Zenon DEF HandleSetChange
  <2>2. parameters'.computing = parameters.computing
    <3>1. /\ changed.computing = parameters.computing
          /\ changed \in [c : Cs, n : minN .. maxN, d : Int \X Int,
                          computing : BOOLEAN, computation_set : BOOLEAN,
                          current_chunk : 0 .. BYTE - 1,
                          parameter_to_be_changed : Nat]
      BY <1>1, Zenon DEF ParametersOK
    <3> HIDE DEF changed
    <3> QED
      BY <2>1, <3>1, SMT
  <2>3. UNCHANGED <<main, toNucleo>>
    BY <1>5 DEF HandleSetChange
  <2> QED
    BY <2>2, <2>3
<1>6. CASE HandleSetCompute
  <2>1. CASE parameters.computing
    BY <1>6, <2>1 DEF HandleSetCompute
  <2>2. CASE ~ parameters.computing
    <3>1. parameters' = [parameters EXCEPT !.computation_set = TRUE,
                                           !.d = <<img.W, img.H>>]
      BY <1>6, <2>2 DEF HandleSetCompute
    <3>2. ~ parameters'.computing
      BY <1>1, <2>2, <3>1, SMT DEF ParametersOK
    <3>3. SendPc(SetCompute(parameters.c, <<img.W, img.H>>, parameters.n))
      BY <1>6, <2>2 DEF HandleSetCompute
    <3>4. SetCompute(parameters.c, <<img.W, img.H>>, parameters.n).type = "MSG_SET_COMPUTE"
      BY DEF SetCompute
    <3> QED
      BY <2>2, <3>2, <3>3, <3>4
  <2> QED
    BY <2>1, <2>2
<1>7. CASE HandleCompute
  <2> DEFINE cid == (parameters.current_chunk + 1) % BYTE
             next == [parameters EXCEPT !.current_chunk = cid, !.computing = TRUE]
             m == Compute(cid, ChunkX(cid, img.chunksinrow, img.chunksize),
                          ChunkY(cid, img.chunksinrow, img.chunksize), img.chunksize)
  <2>1. m.type = "MSG_COMPUTE"
    BY DEF Compute
  <2>2. next.computing
    BY <1>1, Zenon DEF ParametersOK
  <2>3. CASE ~ MayCompute
    BY <1>7, <2>3 DEF HandleCompute
  <2>4. CASE MayCompute /\ img.chunksinrow # 0
    <3>1. parameters' = next /\ SendPc(m) /\ ~ parameters.computing
      BY <1>7, <2>4 DEF HandleCompute, MayCompute
    <3> HIDE DEF m, next
    <3>2. Asks
      BY <2>1, <2>2, <3>1
    <3> QED
      BY <3>2
  <2>5. CASE MayCompute /\ img.chunksinrow = 0
    <3>1. /\ parameters' = next /\ ~ parameters.computing
          /\ main' = "crashed" /\ UNCHANGED toNucleo
      BY <1>7, <2>5 DEF HandleCompute, MayCompute
    <3> HIDE DEF next
    <3>2. Dies
      BY <2>2, <3>1
    <3> QED
      BY <3>2
  <2> QED
    BY <2>3, <2>4, <2>5
<1>8. CASE HandleResetChunk
  <2>1. Same
    BY <1>1, <1>8, SMT DEF HandleResetChunk, ParametersOK
  <2> QED
    BY <2>1
<1>9. CASE HandleAbort
  BY <1>9 DEF HandleAbort, Handles
<1>10. CASE HandleComputeCPU \/ HandleShow \/ HandleOther
  BY <1>10 DEF HandleComputeCPU, HandleShow, HandleOther
<1>11. CASE HandleClearBuffer \/ HandleRefresh
  <2>1. /\ UNCHANGED <<main, toNucleo>>
        /\ \/ UNCHANGED parameters
           \/ parameters' = [parameters EXCEPT !.current_chunk = NoChunk]
    BY <1>11 DEF HandleClearBuffer, HandleRefresh
  <2>2. Same
    BY <1>1, <2>1, SMT DEF ParametersOK
  <2> QED
    BY <2>2
<1> QED
  BY <1>3, <1>4, <1>5, <1>6, <1>7, <1>8, <1>9, <1>10, <1>11 DEF HandleKeyEvent

(* What a message of the board does to the belief.                         *)
LEMMA NucleoEventEnds ==
  ASSUME TypeOK, HandleNucleoEvent
  PROVE  /\ evq # << >> /\ evq' = Tail(evq) /\ Head(evq).type = "EV_SERIAL"
         /\ main = "pop" /\ UNCHANGED <<toPc, toNucleo>>
         /\ \/ IsReply(Head(evq), Restart)
            \/ IsReply(Head(evq), Closing) /\ ~ parameters'.computing
            \/ /\ IsReply(Head(evq), Result) /\ UNCHANGED parameters
            \/ /\ ~ IsReply(Head(evq), Ours) /\ UNCHANGED <<parameters, main>>
<1>1. /\ evq # << >> /\ evq' = Tail(evq) /\ Head(evq).type = "EV_SERIAL"
      /\ main = "pop" /\ UNCHANGED <<toPc, toNucleo>>
  BY DEF HandleNucleoEvent, HandleStartup, HandleAnswer, HandleMsgAbort,
         HandleComputeData, HandleDone, HandlesMsg, Handles
<1>2. ParametersOK
  BY DEF TypeOK
<1>3. CASE HandleStartup
  BY <1>1, <1>3 DEF HandleStartup, HandlesMsg, msg, IsReply, Restart
<1>4. CASE HandleMsgAbort \/ HandleDone
  <2>1. IsReply(Head(evq), Closing)
    BY <1>1, <1>4 DEF HandleMsgAbort, HandleDone, HandlesMsg, msg, IsReply, Closing
  <2>2. CASE parameters.computing
    <3>1. \/ parameters' = [parameters EXCEPT !.computing = FALSE]
          \/ parameters' = [parameters EXCEPT
               !.computing = FALSE,
               !.current_chunk = PreviousChunk(parameters.current_chunk)]
      BY <1>4, <2>2 DEF HandleMsgAbort, HandleDone
    <3>2. ~ parameters'.computing
      BY <1>2, <3>1, Zenon DEF ParametersOK
    <3> QED
      BY <1>1, <2>1, <3>2
  <2>3. CASE ~ parameters.computing
    BY <1>1, <1>4, <2>1, <2>3 DEF HandleMsgAbort, HandleDone
  <2> QED
    BY <2>2, <2>3
<1>5. CASE HandleComputeData
  BY <1>1, <1>5 DEF HandleComputeData, HandlesMsg, msg, IsReply, Result
<1>6. CASE HandleAnswer
  BY <1>1, <1>6 DEF HandleAnswer, HandlesMsg, msg, IsReply, Ours, Closing, Result, Restart
<1> QED
  BY <1>3, <1>4, <1>5, <1>6 DEF HandleNucleoEvent

(* No event of these types comes into the queue.                           *)
LEMMA NoSuchEvents ==
  ASSUME QueueOK, NEW T, \A i \in DOMAIN evq : evq[i].type \notin T,
         \/ evq # << >> /\ evq' = Tail(evq)
         \/ \E e \in QueueEvents : e.type \notin T /\ evq' = Append(evq, e)
  PROVE  \A i \in DOMAIN evq' : evq'[i].type \notin T
<1>1. CASE evq # << >> /\ evq' = Tail(evq)
  <2>1. /\ Len(evq) \in Nat /\ DOMAIN evq = 1 .. Len(evq)
        /\ DOMAIN evq' = 1 .. Len(evq) - 1
        /\ \A i \in 1 .. Len(evq) - 1 : evq'[i] = evq[i + 1]
    BY <1>1, TailFacts, LenProperties DEF QueueOK
  <2>2. \A n \in Nat : \A i \in 1 .. n - 1 : i + 1 \in 1 .. n
    BY SMT
  <2> QED
    BY <2>1, <2>2, Zenon
<1>2. ASSUME NEW e \in QueueEvents, e.type \notin T, evq' = Append(evq, e)
      PROVE  \A i \in DOMAIN evq' : evq'[i].type \notin T
  <2>1. /\ Len(evq) \in Nat /\ DOMAIN evq = 1 .. Len(evq)
        /\ DOMAIN evq' = 1 .. Len(evq) + 1
        /\ \A i \in 1 .. Len(evq) : evq'[i] = evq[i]
        /\ evq'[Len(evq) + 1] = e
    BY <1>2, AppendFacts, LenProperties DEF QueueOK
  <2>2. \A n \in Nat : \A i \in 1 .. n + 1 : i \in 1 .. n \/ i = n + 1
    BY SMT
  <2> QED
    BY <1>2, <2>1, <2>2, Zenon
<1> QED
  BY <1>1, <1>2

(* In particular no abort.                                                 *)
LEMMA NoAbortEvents ==
  ASSUME QueueOK, \A i \in DOMAIN evq : evq[i].type # "EV_ABORT",
         \/ evq # << >> /\ evq' = Tail(evq)
         \/ \E e \in QueueEvents : e.type # "EV_ABORT" /\ evq' = Append(evq, e)
  PROVE  \A i \in DOMAIN evq' : evq'[i].type # "EV_ABORT"
<1>1. \A t : t # "EV_ABORT" <=> t \notin {"EV_ABORT"}
  OBVIOUS
<1> QED
  BY <1>1, NoSuchEvents

(* The steps of the application.                                           *)
LEMMA PcKeepsOrder ==
  ASSUME TypeOK, TypeOK', Undisturbable, OneRequest, PcNext, UNCHANGED nucleoVars
  PROVE  Undisturbable' /\ OneRequest'
<1>1. /\ QueueOK /\ QueueOK' /\ LinkOK /\ LinkOK' /\ ParametersOK
      /\ UNCHANGED nucleo
  BY DEF TypeOK, nucleoVars
<1>2. /\ NoAbortKey /\ NoReset
      /\ \A i \in DOMAIN evq : evq[i].type # "EV_ABORT"
      /\ NoneAfter(0, "MSG_ABORT") /\ Without(Coming, Restart)
  BY DEF Undisturbable
<1>3. ASSUME evq # << >>, evq' = Tail(evq), UNCHANGED toPc
      PROVE  /\ \E n : InsertedAt(Coming', Coming, Head(evq), n, 1)
             /\ \A i \in DOMAIN evq' : evq'[i].type # "EV_ABORT"
             /\ Head(evq).type # "EV_ABORT"
  <2>1. Head(evq) = evq[1] /\ 1 \in DOMAIN evq
    BY <1>1, <1>3, TailFacts, LenProperties, SMT DEF QueueOK
  <2>2. \E n : InsertedAt(Coming', Coming, Head(evq), n, 1)
    BY <1>1, <1>3, ComingPop
  <2>3. \A i \in DOMAIN evq' : evq'[i].type # "EV_ABORT"
    BY <1>1, <1>2, <1>3, NoAbortEvents
  <2> QED
    BY <1>2, <2>1, <2>2, <2>3
<1>4. CASE HandleKeyEvent
  <2>1. /\ evq # << >> /\ evq' = Tail(evq) /\ Head(evq).type # "EV_SERIAL"
        /\ main = "pop" /\ UNCHANGED toPc
    BY <1>4, KeyEventComputing
  <2>2. ~ IsReply(Head(evq), Ours)
    BY <2>1 DEF IsReply
  <2>3. /\ Silent' <=> Silent
        /\ Without(Coming, Closing)' <=> Without(Coming, Closing)
        /\ Without(Coming, Restart)' <=> Without(Coming, Restart)
        /\ Closes(Coming)' <=> Closes(Coming)
    BY <1>3, <2>1, <2>2, NeutralEvent
  <2>4. \A i \in DOMAIN evq' : evq'[i].type # "EV_ABORT"
    BY <1>3, <2>1
  <2>5. CASE /\ parameters'.computing = parameters.computing /\ UNCHANGED main
             /\ \/ UNCHANGED toNucleo
                \/ \E x : SendPc(x) /\ x.type = "MSG_GET_VERSION"
    <3>1. /\ (NoRequest => NoRequest') /\ (Settled => Settled') /\ (Asking => Asking')
          /\ NoneAfter(0, "MSG_ABORT")'
      <4>1. CASE UNCHANGED toNucleo
        BY <1>2, <4>1, SameRequests
      <4>2. CASE \E x : SendPc(x) /\ x.type = "MSG_GET_VERSION"
        <5>1. PICK x : SendPc(x) /\ x.type = "MSG_GET_VERSION"
          BY <4>2
        <5>2. x \in PcMessages
          BY <1>1, <5>1, SentIsMessage
        <5> QED
          BY <1>1, <1>2, <5>1, <5>2, SendAsks
      <4> QED
        BY <2>5, <4>1, <4>2
    <3>2. /\ (Resting => Resting') /\ (Asked => Asked')
          /\ (Working => Working') /\ (Closed => Closed')
      BY <1>1, <2>3, <3>1, NeutralStep
    <3> QED
      BY <1>2, <2>3, <2>4, <2>5, <3>1, <3>2 DEF OneRequest, Undisturbable
  <2>6. CASE /\ ~ parameters.computing /\ ~ parameters'.computing
             /\ \E x : SendPc(x) /\ x.type = "MSG_SET_COMPUTE"
    <3>1. PICK x : SendPc(x) /\ x.type = "MSG_SET_COMPUTE"
      BY <2>6
    <3>2. x \in PcMessages
      BY <1>1, <3>1, SentIsMessage
    <3>3. NoneAfter(0, "MSG_ABORT")' /\ (NoRequest => NoRequest')
      BY <1>1, <1>2, <3>1, <3>2, SendAsks
    <3>4. Resting'
      BY <1>1, <2>3, <2>6, <3>3 DEF OneRequest, Resting
    <3> QED
      BY <1>2, <2>3, <2>4, <2>6, <3>3, <3>4 DEF OneRequest, Undisturbable
  <2>7. CASE /\ ~ parameters.computing /\ parameters'.computing
             /\ \E x : SendPc(x) /\ x.type = "MSG_COMPUTE"
    <3>1. PICK x : SendPc(x) /\ x.type = "MSG_COMPUTE"
      BY <2>7
    <3>2. x \in PcMessages
      BY <1>1, <3>1, SentIsMessage
    <3>3. NoneAfter(0, "MSG_ABORT")' /\ (NoRequest => Asking')
      BY <1>1, <1>2, <3>1, <3>2, SendAsks
    <3>4. Asked'
      BY <1>1, <2>3, <2>7, <3>3 DEF OneRequest, Resting, Asked
    <3> QED
      BY <1>2, <2>3, <2>4, <2>7, <3>3, <3>4 DEF OneRequest, Undisturbable
  <2>8. CASE /\ ~ parameters.computing /\ parameters'.computing
             /\ main' = "crashed" /\ UNCHANGED toNucleo
    <3>1. NoneAfter(0, "MSG_ABORT")' /\ NoRequest' = NoRequest
      BY <1>2, <2>8, SameRequests
    <3>2. Resting'
      BY <1>1, <2>3, <2>8, <3>1 DEF OneRequest, Resting
    <3> QED
      BY <1>2, <2>3, <2>4, <2>8, <3>1, <3>2 DEF OneRequest, Undisturbable
  <2> QED
    BY <1>3, <1>4, <2>1, <2>5, <2>6, <2>7, <2>8, KeyEventAsks
<1>5. CASE HandleNucleoEvent
  <2> DEFINE e == Head(evq)
  <2>1. /\ evq # << >> /\ evq' = Tail(evq)
        /\ main = "pop" /\ UNCHANGED <<toPc, toNucleo>>
        /\ \/ IsReply(e, Restart)
           \/ IsReply(e, Closing) /\ ~ parameters'.computing
           \/ /\ IsReply(e, Result) /\ UNCHANGED parameters
           \/ /\ ~ IsReply(e, Ours) /\ UNCHANGED <<parameters, main>>
    BY <1>5, NucleoEventEnds
  <2>2. PICK n : InsertedAt(Coming', Coming, e, n, 1)
    BY <1>3, <2>1
  <2>3. \A i \in DOMAIN evq' : evq'[i].type # "EV_ABORT"
    BY <1>3, <2>1
  <2>4. \A T : Without(Coming, T) <=> Without(Coming', T) /\ ~ IsReply(e, T)
    BY <2>2, WithoutInserted
  <2>5. Without(Coming, Restart)' /\ ~ IsReply(e, Restart)
    BY <1>2, <2>4 DEF Without
  <2>6. /\ NoRequest' = NoRequest /\ Settled' = Settled /\ Asking' = Asking
        /\ NoneAfter(0, "MSG_ABORT")'
    BY <1>2, <2>1, SameRequests
  <2>7. Undisturbable'
    BY <1>2, <2>3, <2>5, <2>6 DEF Undisturbable
  <2>8. \A T : IsReply(e, T) => IsReply(e, Closing \union T) /\ IsReply(e, T \union Result)
    BY DEF IsReply
  <2>9. CASE IsReply(e, Closing) /\ ~ parameters'.computing
    <3>1. ~ Silent /\ ~ Without(Coming, Closing)
      BY <2>4, <2>8, <2>9 DEF Silent
    <3>2. Closed
      BY <3>1, <2>1 DEF OneRequest, Resting, Asked, Working
    <3>3. Without(Coming', Closing \union Result)
      BY <2>2, <2>9, <3>2, ClosedFirst DEF Closed
    <3>4. Resting'
      BY <1>1, <2>6, <3>2, <3>3 DEF Resting, Closed, Silent, Without
    <3> QED
      BY <2>7, <2>9, <3>4 DEF OneRequest
  <2>10. CASE IsReply(e, Result) /\ UNCHANGED parameters
    <3>1. ~ Silent
      BY <2>4, <2>8, <2>10 DEF Silent
    <3>2. Working \/ Closed
      BY <3>1, <2>1 DEF OneRequest, Resting, Asked
    <3>3. parameters.computing
      BY <3>1 DEF OneRequest, Resting
    <3>4. ~ IsReply(e, Closing)
      BY <2>10 DEF IsReply, Result, Closing
    <3>5. Closes(Coming) <=> Closes(Coming')
      BY <2>2, <3>4, ClosesInserted
    <3>6. Working' \/ Closed'
      BY <1>1, <2>4, <2>6, <3>2, <3>5 DEF Working, Closed, Without, Closes, ClosesAt
    <3> QED
      BY <2>7, <2>10, <3>3, <3>6 DEF OneRequest
  <2>11. CASE ~ IsReply(e, Ours) /\ UNCHANGED <<parameters, main>>
    <3>1. /\ Silent' <=> Silent
          /\ Without(Coming, Closing)' <=> Without(Coming, Closing)
          /\ Closes(Coming)' <=> Closes(Coming)
      BY <2>2, <2>11, NeutralEvent
    <3>2. /\ (Resting => Resting') /\ (Asked => Asked')
          /\ (Working => Working') /\ (Closed => Closed')
      BY <1>1, <2>6, <3>1, NeutralStep
    <3> QED
      BY <2>7, <2>11, <3>2 DEF OneRequest
  <2> QED
    BY <2>1, <2>5, <2>9, <2>10, <2>11
<1>6. CASE PressKey \/ PushNextChunk
  <2>1. /\ UNCHANGED <<parameters, toNucleo, toPc>>
        /\ main' = main \/ main # "crashed"
        /\ \E e \in QueueEvents : /\ e.type \notin {"EV_SERIAL", "EV_ABORT"}
                                  /\ evq' = Append(evq, e)
    <3>1. NextChunk.type \notin {"EV_SERIAL", "EV_ABORT"}
      BY DEF NextChunk, KeyParam
    <3>2. CASE PressKey
      BY <1>2, <3>2, KeyIsEvent DEF PressKey, NoAbortKey
    <3>3. CASE PushNextChunk
      BY <3>1, <3>3, NextChunkIsEvent DEF PushNextChunk
    <3> QED
      BY <1>6, <3>2, <3>3
  <2>2. PICK e \in QueueEvents : /\ e.type \notin {"EV_SERIAL", "EV_ABORT"}
                                 /\ evq' = Append(evq, e)
    BY <2>1
  <2>3. \A i \in DOMAIN evq' : evq'[i].type # "EV_ABORT"
    BY <1>1, <1>2, <2>2, NoAbortEvents
  <2>4. ~ IsReply(e, Ours)
    BY <2>2 DEF IsReply
  <2>5. \E n, a : InsertedAt(Coming, Coming', e, n, a)
    BY <1>1, <2>1, <2>2, ComingPush
  <2>6. /\ Silent' <=> Silent
        /\ Without(Coming, Closing)' <=> Without(Coming, Closing)
        /\ Without(Coming, Restart)' <=> Without(Coming, Restart)
        /\ Closes(Coming)' <=> Closes(Coming)
    BY <2>4, <2>5, NeutralEvent
  <2>7. /\ NoRequest' = NoRequest /\ Settled' = Settled /\ Asking' = Asking
        /\ NoneAfter(0, "MSG_ABORT")'
    BY <1>2, <2>1, SameRequests
  <2>8. /\ (Resting => Resting') /\ (Asked => Asked')
        /\ (Working => Working') /\ (Closed => Closed')
    BY <1>1, <2>6, <2>7, NeutralStep
  <2> QED
    BY <1>2, <2>1, <2>3, <2>6, <2>7, <2>8 DEF OneRequest, Undisturbable
<1>7. CASE ReceiveMessage
  <2>1. UNCHANGED <<parameters, toNucleo, main>>
    BY <1>7 DEF ReceiveMessage
  <2>2. Coming' = Coming
    BY <1>1, <1>7, ComingReceive
  <2>3. \A i \in DOMAIN evq' : evq'[i].type # "EV_ABORT"
    <3>1. toPc # << >> /\ evq' = Append(evq, Serial(Head(toPc)))
      BY <1>7 DEF ReceiveMessage
    <3>2. Head(toPc) \in NucleoMessages
      BY <1>1, <3>1, TailFacts DEF LinkOK
    <3>3. Serial(Head(toPc)) \in QueueEvents /\ Serial(Head(toPc)).type # "EV_ABORT"
      BY <3>2, SerialIsEvent
    <3> QED
      BY <1>1, <1>2, <3>1, <3>3, NoAbortEvents
  <2>4. /\ Silent' <=> Silent
        /\ Without(Coming, Closing)' <=> Without(Coming, Closing)
        /\ Without(Coming, Restart)' <=> Without(Coming, Restart)
        /\ Closes(Coming)' <=> Closes(Coming)
    BY <2>2 DEF Silent, Without, Closes, ClosesAt
  <2>5. /\ NoRequest' = NoRequest /\ Settled' = Settled /\ Asking' = Asking
        /\ NoneAfter(0, "MSG_ABORT")'
    BY <1>2, <2>1, SameRequests
  <2>6. /\ (Resting => Resting') /\ (Asked => Asked')
        /\ (Working => Working') /\ (Closed => Closed')
    BY <1>1, <2>4, <2>5, NeutralStep
  <2> QED
    BY <1>2, <2>1, <2>3, <2>4, <2>5, <2>6 DEF OneRequest, Undisturbable
<1> QED
  BY <1>4, <1>5, <1>6, <1>7 DEF PcNext, MainLoop

(* The steps of the board.                                                 *)
LEMMA NucleoKeepsOrder ==
  ASSUME TypeOK, TypeOK', Undisturbable, OneRequest, NucleoNext, UNCHANGED pcVars
  PROVE  Undisturbable' /\ OneRequest'
<1>1. /\ QueueOK /\ QueueOK' /\ LinkOK /\ LinkOK' /\ BoardOK
      /\ UNCHANGED <<parameters, main, evq>>
  BY DEF TypeOK, pcVars
<1>2. /\ NoAbortKey /\ NoReset
      /\ \A i \in DOMAIN evq' : evq'[i].type # "EV_ABORT"
      /\ NoneAfter(0, "MSG_ABORT") /\ Without(Coming, Restart)
  BY <1>1 DEF Undisturbable
<1>3. ASSUME NEW x \in NucleoMessages, Send(x)
      PROVE  /\ \E n : InsertedAt(Coming, Coming', Serial(x), n, n + 1)
             /\ \A T : IsReply(Serial(x), T) <=> x.type \in T
  BY <1>1, <1>3, ComingSend, SerialIsEvent DEF IsReply
<1>4. ASSUME NEW t \in {"MSG_OK", "MSG_VERSION"}, Send(Plain(t))
      PROVE  /\ Silent' <=> Silent
             /\ Without(Coming, Closing)' <=> Without(Coming, Closing)
             /\ Without(Coming, Restart)' <=> Without(Coming, Restart)
             /\ Closes(Coming)' <=> Closes(Coming)
  <2>1. Plain(t) \in NucleoMessages /\ Plain(t).type = t
    BY PlainMessages DEF Plain
  <2>2. ~ IsReply(Serial(Plain(t)), Ours)
    BY <1>3, <1>4, <2>1 DEF Ours, Closing, Result, Restart
  <2>3. \E n, a : InsertedAt(Coming, Coming', Serial(Plain(t)), n, a)
    BY <1>3, <1>4, <2>1
  <2> QED
    BY <2>2, <2>3, NeutralEvent
<1>5. ASSUME UNCHANGED toPc
      PROVE  /\ Silent' <=> Silent
             /\ Without(Coming, Closing)' <=> Without(Coming, Closing)
             /\ Without(Coming, Restart)' <=> Without(Coming, Restart)
             /\ Closes(Coming)' <=> Closes(Coming)
  <2>1. Coming' = Coming
    BY <1>1, <1>5 DEF Coming, Serial
  <2> QED
    BY <2>1 DEF Silent, Without, Closes, ClosesAt
<1>6. ASSUME UNCHANGED toNucleo
      PROVE  /\ NoRequest' = NoRequest /\ Settled' = Settled /\ Asking' = Asking
             /\ NoneAfter(0, "MSG_ABORT")'
  BY <1>2, <1>6, SameRequests
<1>7. ASSUME NEW x \in NucleoMessages, Send(x), x.type \in Closing,
             nucleo.computing, ~ nucleo'.computing, UNCHANGED toNucleo
      PROVE  Undisturbable' /\ OneRequest'
  <2>1. Working /\ parameters.computing
    BY <1>7 DEF OneRequest, Resting, Asked, Closed
  <2>2. PICK n : InsertedAt(Coming, Coming', Serial(x), n, n + 1)
    BY <1>3, <1>7
  <2>3. IsReply(Serial(x), Closing) /\ ~ IsReply(Serial(x), Restart)
    BY <1>3, <1>7 DEF Closing, Restart
  <2>4. Closes(Coming')
    BY <2>1, <2>2, <2>3, ClosesLast DEF Working
  <2>5. Without(Coming', Restart)
    BY <1>2, <2>2, <2>3, WithoutInserted
  <2>6. Closed'
    BY <1>6, <1>7, <2>1, <2>4 DEF Working, Closed, Closes, ClosesAt
  <2> QED
    BY <1>1, <1>2, <1>6, <1>7, <2>1, <2>5, <2>6 DEF OneRequest, Undisturbable, Without
<1>8. CASE Arrive \/ Button
  <2>1. UNCHANGED <<nucleo, toNucleo, toPc>>
    BY <1>8 DEF Arrive, Button
  <2>2. /\ (Resting => Resting') /\ (Asked => Asked')
        /\ (Working => Working') /\ (Closed => Closed')
    BY <1>5, <1>6, <2>1, NeutralStep
  <2> QED
    BY <1>1, <1>2, <1>5, <1>6, <2>1, <2>2 DEF OneRequest, Undisturbable
<1>9. CASE HandleAbortRequest
  <2>1. CASE abort_request /\ nucleo.computing
    <3>1. /\ Send(Plain("MSG_ABORT")) /\ UNCHANGED toNucleo
          /\ nucleo' = [nucleo EXCEPT !.computing = FALSE]
      BY <1>9, <2>1 DEF HandleAbortRequest
    <3>2. ~ nucleo'.computing
      BY <1>1, <3>1, Zenon DEF BoardOK
    <3>3. Plain("MSG_ABORT") \in NucleoMessages /\ Plain("MSG_ABORT").type \in Closing
      BY PlainMessages DEF Plain, Closing
    <3> QED
      BY <1>7, <2>1, <3>1, <3>2, <3>3
  <2>2. CASE ~ (abort_request /\ nucleo.computing)
    <3>1. UNCHANGED <<nucleo, toNucleo, toPc>>
      BY <1>9, <2>2 DEF HandleAbortRequest
    <3>2. /\ (Resting => Resting') /\ (Asked => Asked')
          /\ (Working => Working') /\ (Closed => Closed')
      BY <1>5, <1>6, <3>1, NeutralStep
    <3> QED
      BY <1>1, <1>2, <1>5, <1>6, <3>1, <3>2 DEF OneRequest, Undisturbable
  <2> QED
    BY <2>1, <2>2
<1>10. CASE ReceiveGetVersion \/ ReceiveSetCompute
  <2>1. PICK type : Received(type) /\ type \in {"MSG_GET_VERSION", "MSG_SET_COMPUTE"}
    BY <1>10 DEF ReceiveGetVersion, ReceiveSetCompute
  <2>2. /\ NoneAfter(0, "MSG_ABORT")'
        /\ (NoRequest => NoRequest') /\ (Settled => Settled') /\ (Asking => Asking')
    BY <1>1, <1>2, <2>1, ReceiveAsks
  <2>3. nucleo'.computing = nucleo.computing
    <3>1. CASE ReceiveGetVersion
      BY <3>1 DEF ReceiveGetVersion
    <3>2. CASE ReceiveSetCompute
      BY <1>1, <3>2, SMT DEF ReceiveSetCompute, BoardOK
    <3> QED
      BY <1>10, <3>1, <3>2
  <2>4. \E t \in {"MSG_OK", "MSG_VERSION"} : Send(Plain(t))
    BY <1>10 DEF ReceiveGetVersion, ReceiveSetCompute
  <2>5. /\ (Resting => Resting') /\ (Asked => Asked')
        /\ (Working => Working') /\ (Closed => Closed')
    BY <1>4, <2>2, <2>3, <2>4, NeutralStep
  <2> QED
    BY <1>1, <1>2, <1>4, <2>2, <2>4, <2>5 DEF OneRequest, Undisturbable
<1>11. CASE ReceiveAbort
  BY <1>1, <1>2, <1>11, ReceiveAsks DEF ReceiveAbort
<1>12. CASE ReceiveCompute
  <2>1. Received("MSG_COMPUTE") /\ Send(Plain("MSG_OK"))
    BY <1>12 DEF ReceiveCompute
  <2>2. ~ NoRequest /\ NoneAfter(0, "MSG_ABORT")' /\ (Asking => NoRequest' /\ Settled')
    BY <1>1, <1>2, <2>1, ReceiveAsks
  <2>3. Asked /\ parameters.computing
    BY <2>2 DEF OneRequest, Resting, Working, Closed
  <2>4. nucleo'.computing
    BY <1>1, <1>12, Zenon DEF ReceiveCompute, BoardOK
  <2>5. Without(Coming, Closing)
    BY <2>3 DEF Asked, Silent, Without, IsReply
  <2>6. Working'
    BY <1>4, <2>1, <2>2, <2>3, <2>4, <2>5 DEF Asked, Working
  <2> QED
    BY <1>1, <1>2, <1>4, <2>1, <2>2, <2>3, <2>6 DEF OneRequest, Undisturbable
<1>13. CASE SendPixel
  <2>1. /\ UNCHANGED toNucleo /\ nucleo.computing
        /\ \/ nucleo' = [nucleo EXCEPT !.cx = nucleo.cx + 1, !.cy = 0]
           \/ nucleo' = [nucleo EXCEPT !.cy = nucleo.cy + 1]
    BY <1>13 DEF SendPixel, Computing, NextPixel
  <2>2. nucleo'.computing = nucleo.computing
    BY <1>1, <2>1, Zenon DEF BoardOK
  <2>3. Working /\ parameters.computing
    BY <2>1 DEF OneRequest, Resting, Asked, Closed
  <2>4. PICK x \in NucleoMessages : Send(x) /\ x.type = "MSG_COMPUTE_DATA"
    <3>1. /\ nucleo.cid \in Nat /\ nucleo.cx \in Nat /\ nucleo.cy \in Nat
          /\ nucleo.c \in Cs \union {Zero} /\ nucleo.d \in Int \X Int
          /\ nucleo.n \in Nat
          /\ nucleo.re + nucleo.cx \in Nat /\ nucleo.im + nucleo.cy \in Nat
      BY <1>1, SMT DEF BoardOK
    <3> DEFINE m == ComputeData(nucleo.cid, nucleo.cx, nucleo.cy,
                          Iterations(nucleo.c, nucleo.d, nucleo.n,
                                     nucleo.re + nucleo.cx, nucleo.im + nucleo.cy))
    <3>2. m \in NucleoMessages
      BY <3>1, IterationsType, ComputeDataMessage
    <3>3. m.type = "MSG_COMPUTE_DATA"
      BY DEF ComputeData
    <3> QED
      BY <1>13, <3>2, <3>3 DEF SendPixel
  <2>5. PICK n : InsertedAt(Coming, Coming', Serial(x), n, n + 1)
    BY <1>3, <2>4
  <2>6. ~ IsReply(Serial(x), Closing) /\ ~ IsReply(Serial(x), Restart)
    BY <1>3, <2>4 DEF Closing, Restart
  <2>7. Without(Coming', Closing) /\ Without(Coming', Restart)
    BY <1>2, <2>3, <2>5, <2>6, WithoutInserted DEF Working
  <2>8. Working'
    BY <1>6, <2>1, <2>2, <2>3, <2>7 DEF Working, Without
  <2> QED
    BY <1>1, <1>2, <1>6, <2>1, <2>3, <2>7, <2>8 DEF OneRequest, Undisturbable, Without
<1>14. CASE SendDone
  <2>1. /\ Send(Plain("MSG_DONE")) /\ UNCHANGED toNucleo /\ nucleo.computing
        /\ nucleo' = [nucleo EXCEPT !.computing = FALSE]
    BY <1>14 DEF SendDone, Computing
  <2>2. ~ nucleo'.computing
    BY <1>1, <2>1, Zenon DEF BoardOK
  <2>3. Plain("MSG_DONE") \in NucleoMessages /\ Plain("MSG_DONE").type \in Closing
    BY PlainMessages DEF Plain, Closing
  <2> QED
    BY <1>7, <2>1, <2>2, <2>3
<1>15. CASE Reset
  <2>1. resets < MaxResets /\ resets \in 0 .. MaxResets
    BY <1>1, <1>15 DEF Reset, BoardOK
  <2> QED
    BY <1>2, <2>1, SMT DEF NoReset
<1> QED
  BY <1>8, <1>9, <1>10, <1>11, <1>12, <1>13, <1>14, <1>15 DEF NucleoNext, Loop

(* Nothing is under way at the start.                                      *)
LEMMA OrderInit == Init /\ NoAbortKey /\ NoReset => Undisturbable /\ OneRequest
<1> SUFFICES ASSUME Init, NoAbortKey, NoReset PROVE Undisturbable /\ OneRequest
  OBVIOUS
<1>1. /\ evq = << >> /\ toPc = << >> /\ toNucleo = << >>
      /\ ~ nucleo.computing /\ ~ parameters.computing
  BY DEF Init, PcInit, NucleoInit, Idle
<1>2. DOMAIN evq = {} /\ DOMAIN toNucleo = {} /\ DOMAIN Coming = {}
  <2>1. Len(evq) = 0 /\ Len(toPc) = 0 /\ 1 .. 0 + 0 = {}
    BY <1>1, SMT
  <2> QED
    BY <1>1, <2>1, SMT DEF Coming
<1> QED
  BY <1>1, <1>2 DEF Undisturbable, OneRequest, Resting, NoRequest, Silent, NoneAfter, Without

(* One step keeps the order.                                               *)
LEMMA OrderStep ==
  TypeOK /\ TypeOK' /\ Undisturbable /\ OneRequest /\ [Next]_vars
    => Undisturbable' /\ OneRequest'
<1> SUFFICES ASSUME TypeOK, TypeOK', Undisturbable, OneRequest, [Next]_vars
             PROVE  Undisturbable' /\ OneRequest'
  OBVIOUS
<1>1. CASE PcNext /\ UNCHANGED nucleoVars
  BY <1>1, PcKeepsOrder
<1>2. CASE NucleoNext /\ UNCHANGED pcVars
  BY <1>2, NucleoKeepsOrder
<1>3. CASE UNCHANGED vars
  <2>1. UNCHANGED <<evq, toPc, toNucleo, nucleo, parameters, main>>
    BY <1>3 DEF vars, pcVars, nucleoVars
  <2>2. Coming' = Coming
    BY <2>1 DEF Coming, Serial
  <2> QED
    BY <2>1, <2>2, SameRequests
       DEF Undisturbable, OneRequest, Resting, Asked, Working, Closed, Silent, Without,
           Closes, ClosesAt
<1> QED
  BY <1>1, <1>2, <1>3 DEF Next

(* A user who never aborts from the keyboard and a board that is not       *)
(* restarted (the button may be pressed at any time) never make a request  *)
(* meet a computation: the assertion of the firmware holds for them.       *)
THEOREM RequestFindsIdle == NoAbortKey /\ NoReset /\ Spec => []ComputeFindsIdle
<1>1. TypeOK /\ OneRequest => ComputeFindsIdle
  <2> SUFFICES ASSUME TypeOK, OneRequest, step = "work", arrived > 0,
                      Head(toNucleo).type = "MSG_COMPUTE"
               PROVE  ~ nucleo.computing
    BY DEF ComputeFindsIdle
  <2>1. LinkOK /\ toNucleo # << >>
    BY SMT DEF TypeOK, LinkOK
  <2>2. Head(toNucleo) = toNucleo[1] /\ 1 \in DOMAIN toNucleo /\ 1 > 0
    BY <2>1, TailFacts, LenProperties, SMT DEF LinkOK
  <2>3. ~ NoRequest
    BY <2>2 DEF NoRequest, NoneAfter
  <2> QED
    BY <2>3 DEF OneRequest, Resting, Asked, Working, Closed
<1> QED
  BY <1>1, OrderInit, OrderStep, TypeInit, TypeStep, PTL DEF Spec

-----------------------------------------------------------------------------
(* PaintedInPlace: the increments of the image as it is are those of the   *)
(* parameters whenever a computation can begin or goes on, the board has   *)
(* them before any request, and what is under way belongs to the current   *)
(* chunk, unless a refresh has begun the image anew.                       *)

(* The artwork and the animation use the increments as they were set last, *)
(* for whatever size: this user does not look at them.                     *)
ArtEvents == {"EV_SHOW_ARTWORK", "EV_SHOW_ANIMATION"}
NoArtKey == \A k \in Keys : k.type \notin ArtEvents
NoArt == NoArtKey /\ \A i \in DOMAIN evq : evq[i].type \notin ArtEvents

Size == <<img.W, img.H>>

BoardSized == Settled /\ nucleo.d = Size
SizeSent ==
  \E i \in DOMAIN toNucleo :
     /\ toNucleo[i].type = "MSG_SET_COMPUTE" /\ toNucleo[i].d = Size
     /\ NoneAfter(i, "MSG_SET_COMPUTE")

(* If cid is the chunk whose results are painted, (re, im) is its corner.  *)
Corner(chunk, image, cid, re, im) ==
  cid = chunk /\ cid < image.nbr_chunks =>
     /\ re = ChunkX(cid, image.chunksinrow, image.chunksize)
     /\ im = ChunkY(cid, image.chunksinrow, image.chunksize)

ResultFits(chunk, image, m) ==
  /\ Corner(chunk, image, m.cid, m.iter.re - m.i_re, m.iter.im - m.i_im)
  /\ m.iter.d = <<image.W, image.H>>

SizeKnown ==
  parameters.computing \/ parameters.computation_set =>
     /\ parameters.d = Size
     /\ BoardSized \/ SizeSent

RequestsFit ==
  \A i \in DOMAIN toNucleo : toNucleo[i].type = "MSG_COMPUTE" =>
     Corner(parameters.current_chunk, img,
            toNucleo[i].cid, toNucleo[i].re, toNucleo[i].im)

BoardFits ==
  nucleo.computing =>
     Corner(parameters.current_chunk, img, nucleo.cid, nucleo.re, nucleo.im)

ResultsFit ==
  \A i \in DOMAIN Coming : IsReply(Coming[i], Result) =>
     ResultFits(parameters.current_chunk, img, Coming[i].msg)

InPlace == SizeKnown /\ RequestsFit /\ BoardFits /\ ResultsFit

(* The grid and the current chunk are as they were, or no id is painted.   *)
SameChunk ==
  \/ /\ parameters'.current_chunk = parameters.current_chunk
     /\ img'.nbr_chunks = img.nbr_chunks
     /\ img'.chunksinrow = img.chunksinrow
     /\ img'.chunksize = img.chunksize
  \/ ~ (parameters'.current_chunk < img'.nbr_chunks)

(* A step that begins no computation and changes no size.                  *)
Steady ==
  /\ parameters'.computing => parameters.computing
  /\ parameters'.computation_set => parameters.computation_set
  /\ parameters'.d = parameters.d
  /\ Size' = Size
  /\ parameters'.computing => SameChunk
  /\ \/ UNCHANGED toNucleo
     \/ \E x : SendPc(x) /\ x.type = "MSG_GET_VERSION"

(* What is at its corner stays there.                                      *)
LEMMA CornerStays ==
  ASSUME SameChunk, NEW cid, NEW re, NEW im,
         Corner(parameters.current_chunk, img, cid, re, im)
  PROVE  Corner(parameters'.current_chunk, img', cid, re, im)
  BY DEF Corner, SameChunk

(* No message of a type that none after the start has.                     *)
LEMMA NoneMeans ==
  (LinkOK => (NoneAfter(0, "MSG_COMPUTE") => 
                \A i \in DOMAIN toNucleo : toNucleo[i].type # "MSG_COMPUTE"))
<1> SUFFICES ASSUME LinkOK, NoneAfter(0, "MSG_COMPUTE"), NEW i \in DOMAIN toNucleo
             PROVE  toNucleo[i].type # "MSG_COMPUTE"
  OBVIOUS
<1>1. i > 0
  <2>1. DOMAIN toNucleo = 1 .. Len(toNucleo) /\ Len(toNucleo) \in Nat
    BY LenProperties DEF LinkOK
  <2> QED
    BY <2>1, SMT
<1> QED
  BY <1>1 DEF NoneAfter

(* Nothing is under way while the board rests.                             *)
LEMMA RestingFits ==
  ASSUME LinkOK', OneRequest', SizeKnown', ~ parameters'.computing
  PROVE  InPlace'
<1>1. Resting'
  BY DEF OneRequest
<1>2. \A i \in DOMAIN toNucleo' : toNucleo'[i].type # "MSG_COMPUTE"
  <2>1. (LinkOK => (NoneAfter(0, "MSG_COMPUTE") =>
                      \A i \in DOMAIN toNucleo : toNucleo[i].type # "MSG_COMPUTE"))'
    BY NoneMeans, PTL
  <2> QED
    BY <1>1, <2>1 DEF Resting, NoRequest
<1> QED
  BY <1>1, <1>2 DEF InPlace, RequestsFit, BoardFits, ResultsFit, Resting, Silent, Without,
                    IsReply

(* What a key other than the abort and the artwork does to the sizes.      *)
LEMMA KeyEventSize ==
  ASSUME TypeOK, HandleKeyEvent, Head(evq).type # "EV_ABORT"
  PROVE  \/ Steady
         \/ ~ parameters'.computing /\ ~ parameters'.computation_set
         \/ /\ ~ parameters'.computing /\ parameters'.d = Size'
            /\ \E x : SendPc(x) /\ x.type = "MSG_SET_COMPUTE" /\ x.d = Size'
         \/ /\ ~ parameters.computing /\ parameters.computation_set
            /\ parameters'.d = parameters.d /\ UNCHANGED img
            /\ \/ UNCHANGED toNucleo
               \/ \E x : /\ SendPc(x) /\ x.type = "MSG_COMPUTE"
                         /\ Corner(parameters'.current_chunk, img', x.cid, x.re, x.im)
<1>1. ParametersOK /\ ImageOK
  BY DEF TypeOK
<1> DEFINE Resized == ~ parameters'.computing /\ ~ parameters'.computation_set
           Sets == /\ ~ parameters'.computing /\ parameters'.d = Size'
                   /\ \E x : SendPc(x) /\ x.type = "MSG_SET_COMPUTE" /\ x.d = Size'
           Asks == /\ ~ parameters.computing /\ parameters.computation_set
                   /\ parameters'.d = parameters.d /\ UNCHANGED img
                   /\ \/ UNCHANGED toNucleo
                      \/ \E x : /\ SendPc(x) /\ x.type = "MSG_COMPUTE"
                                /\ Corner(parameters'.current_chunk, img', x.cid, x.re, x.im)
<1>2. SUFFICES Steady \/ Resized \/ Sets \/ Asks
  OBVIOUS
<1> HIDE DEF Resized, Sets, Asks
\* A step that keeps the parameters, but for fields that do not matter here.
<1>3. ASSUME UNCHANGED <<img, toNucleo>>,
             \/ UNCHANGED parameters
             \/ \E v \in Nat : parameters' = [parameters EXCEPT !.parameter_to_be_changed = v]
      PROVE  Steady
  <2>1. /\ parameters'.computing = parameters.computing
        /\ parameters'.computation_set = parameters.computation_set
        /\ parameters'.d = parameters.d
        /\ parameters'.current_chunk = parameters.current_chunk
    BY <1>1, <1>3, Zenon DEF ParametersOK
  <2> QED
    BY <1>3, <2>1 DEF Steady, SameChunk, Size
<1>4. CASE HandleGetVersion
  <2>1. \A t : Plain(t).type = t
    BY DEF Plain
  <2> QED
    BY <1>4, <2>1 DEF HandleGetVersion, Steady, SameChunk, Size
<1>5. CASE HandleChangePar
  <2>1. param \in Nat
    <3>1. Head(evq) \in QueueEvents /\ Head(evq).type = "EV_CHANGE_PAR"
      BY <1>5, HandlesType DEF HandleChangePar, TypeOK
    <3> QED
      BY <3>1, OtherEvents DEF param
  <2> QED
    BY <1>3, <1>5, <2>1 DEF HandleChangePar
<1>6. CASE HandleSetChange
  <2> DEFINE changed == [parameters EXCEPT !.computation_set = FALSE]
  <2>1. /\ changed.computing = parameters.computing /\ ~ changed.computation_set
        /\ changed.d = parameters.d /\ changed.current_chunk = parameters.current_chunk
        /\ changed \in [c : Cs, n : minN .. maxN, d : Int \X Int,
                        computing : BOOLEAN, computation_set : BOOLEAN,
                        current_chunk : 0 .. BYTE - 1,
                        parameter_to_be_changed : Nat]
    BY <1>1, Zenon DEF ParametersOK
  <2>2. UNCHANGED toNucleo
    BY <1>6 DEF HandleSetChange
  <2>3. \/ /\ UNCHANGED img
           /\ \/ \E c \in Cs : parameters' = [changed EXCEPT !.c = c]
              \/ parameters' = [changed EXCEPT !.n = ChangedN]
              \/ parameters' = changed
        \/ ~ parameters.computing /\ parameters' = changed
    BY <1>6, Zenon DEF HandleSetChange
  <2> HIDE DEF changed
  <2>4. CASE /\ UNCHANGED img
             /\ \/ \E c \in Cs : parameters' = [changed EXCEPT !.c = c]
                \/ parameters' = [changed EXCEPT !.n = ChangedN]
                \/ parameters' = changed
    <3>1. /\ parameters'.computing = changed.computing
          /\ parameters'.computation_set = changed.computation_set
          /\ parameters'.d = changed.d
          /\ parameters'.current_chunk = changed.current_chunk
      BY <2>1, <2>4, Zenon
    <3> QED
      BY <2>1, <2>2, <2>4, <3>1 DEF Steady, SameChunk, Size
  <2>5. CASE ~ parameters.computing /\ parameters' = changed
    BY <2>1, <2>5 DEF Resized
  <2> QED
    BY <2>3, <2>4, <2>5
<1>7. CASE HandleSetCompute
  <2>1. CASE parameters.computing
    BY <1>3, <1>7, <2>1 DEF HandleSetCompute
  <2>2. CASE ~ parameters.computing
    <3> DEFINE x == SetCompute(parameters.c, <<img.W, img.H>>, parameters.n)
    <3>1. /\ parameters' = [parameters EXCEPT !.computation_set = TRUE,
                                              !.d = <<img.W, img.H>>]
          /\ SendPc(x) /\ UNCHANGED img
      BY <1>7, <2>2 DEF HandleSetCompute
    <3>2. ~ parameters'.computing /\ parameters'.d = <<img.W, img.H>>
      BY <1>1, <2>2, <3>1, Zenon DEF ParametersOK
    <3>3. x.type = "MSG_SET_COMPUTE" /\ x.d = <<img.W, img.H>>
      BY DEF SetCompute
    <3> HIDE DEF x
    <3>4. Size' = <<img.W, img.H>>
      BY <3>1 DEF Size
    <3> QED
      BY <3>1, <3>2, <3>3, <3>4 DEF Sets
  <2> QED
    BY <2>1, <2>2
<1>8. CASE HandleCompute
  <2> DEFINE cid == (parameters.current_chunk + 1) % BYTE
             x == Compute(cid, ChunkX(cid, img.chunksinrow, img.chunksize),
                          ChunkY(cid, img.chunksinrow, img.chunksize), img.chunksize)
  <2>1. CASE ~ MayCompute
    BY <1>3, <1>8, <2>1 DEF HandleCompute
  <2>2. CASE MayCompute
    <3>1. /\ parameters' = [parameters EXCEPT !.current_chunk = cid, !.computing = TRUE]
          /\ UNCHANGED img
          /\ UNCHANGED toNucleo \/ SendPc(x)
          /\ ~ parameters.computing /\ parameters.computation_set
      BY <1>8, <2>2 DEF HandleCompute, MayCompute
    <3>2. /\ x.type = "MSG_COMPUTE" /\ x.cid = cid
          /\ x.re = ChunkX(cid, img.chunksinrow, img.chunksize)
          /\ x.im = ChunkY(cid, img.chunksinrow, img.chunksize)
      BY DEF Compute
    <3> HIDE DEF x, cid
    <3>3. parameters'.d = parameters.d
      BY <1>1, <3>1, Zenon DEF ParametersOK
    <3>4. Corner(parameters'.current_chunk, img', x.cid, x.re, x.im)
      BY <3>1, <3>2 DEF Corner
    <3> QED
      BY <3>1, <3>2, <3>3, <3>4 DEF Asks
  <2> QED
    BY <2>1, <2>2
<1>9. CASE HandleAbort
  BY <1>9 DEF HandleAbort, Handles
<1>10. CASE HandleResetChunk \/ HandleClearBuffer
  <2>1. /\ UNCHANGED toNucleo
        /\ \/ UNCHANGED <<parameters, img>>
           \/ /\ ~ parameters.computing
              /\ parameters' = [parameters EXCEPT !.current_chunk = NoChunk]
              /\ \/ UNCHANGED img
                 \/ img' = [img EXCEPT !.data = [p \in Pixels(img.W, img.H) |-> Black]]
    BY <1>10 DEF HandleResetChunk, HandleClearBuffer
  <2>2. CASE UNCHANGED <<parameters, img>>
    BY <1>3, <2>1, <2>2
  <2>3. CASE /\ ~ parameters.computing
             /\ parameters' = [parameters EXCEPT !.current_chunk = NoChunk]
             /\ \/ UNCHANGED img
                \/ img' = [img EXCEPT !.data = [p \in Pixels(img.W, img.H) |-> Black]]
    <3>1. /\ parameters'.computing = parameters.computing
          /\ parameters'.computation_set = parameters.computation_set
          /\ parameters'.d = parameters.d
      BY <1>1, <2>3, Zenon DEF ParametersOK
    <3>2. img'.W = img.W /\ img'.H = img.H
      BY <1>1, <2>3 DEF ImageOK
    <3> QED
      BY <2>1, <2>3, <3>1, <3>2 DEF Steady, Size
  <2> QED
    BY <2>1, <2>2, <2>3
<1>11. CASE HandleRefresh
  <2> DEFINE size == computeChunkSize(img.W, img.H)
  <2>1. /\ parameters' = [parameters EXCEPT !.current_chunk = NoChunk]
        /\ UNCHANGED toNucleo /\ img' = initImage(img.W, img.H, size)
    BY <1>11 DEF HandleRefresh
  <2>2. /\ parameters'.computing = parameters.computing
        /\ parameters'.computation_set = parameters.computation_set
        /\ parameters'.d = parameters.d
        /\ parameters'.current_chunk = BYTE - 1
    BY <1>1, <2>1, Zenon DEF ParametersOK, NoChunk
  <2>3. /\ img'.W = img.W /\ img'.H = img.H
        /\ img'.nbr_chunks = nbr_chunks(img.W, img.H, size)
    BY <2>1 DEF initImage
  <2>4. nbr_chunks(img.W, img.H, size) \in 0 .. BYTE - 1
    <3>1. img.W \in Nat /\ img.H \in Nat
      BY <1>1, PcAssumption, SMT DEF ImageOK
    <3> QED
      BY <3>1, ChunkSizeType, GridTypes
  <2>5. \A n \in 0 .. BYTE - 1 : ~ (BYTE - 1 < n)
    BY GridAssumption, SMT
  <2> QED
    BY <2>1, <2>2, <2>3, <2>4, <2>5 DEF Steady, SameChunk, Size
<1>12. CASE HandleComputeCPU \/ HandleShow
  <2>1. /\ UNCHANGED <<parameters, toNucleo>>
        /\ \/ UNCHANGED img
           \/ \E c : img' = [img EXCEPT !.data = ComputeCPU(c)]
    BY <1>12 DEF HandleComputeCPU, HandleShow
  <2>2. /\ img'.W = img.W /\ img'.H = img.H /\ img'.nbr_chunks = img.nbr_chunks
        /\ img'.chunksinrow = img.chunksinrow /\ img'.chunksize = img.chunksize
    BY <1>1, <2>1 DEF ImageOK
  <2> QED
    BY <2>1, <2>2 DEF Steady, SameChunk, Size
<1>13. CASE HandleOther
  BY <1>3, <1>13 DEF HandleOther
<1> QED
  BY <1>4, <1>5, <1>6, <1>7, <1>8, <1>9, <1>10, <1>11, <1>12, <1>13 DEF HandleKeyEvent

(* What a message of the board does to the sizes.                          *)
LEMMA NucleoEventSize ==
  ASSUME TypeOK, HandleNucleoEvent
  PROVE  Steady
<1>1. ParametersOK /\ ImageOK
  BY DEF TypeOK
<1>2. /\ UNCHANGED toNucleo
      /\ \/ UNCHANGED img
         \/ \E data : img' = [img EXCEPT !.data = data]
  BY Zenon DEF HandleNucleoEvent, HandleStartup, HandleAnswer, HandleMsgAbort,
               HandleComputeData, HandleDone, HandlesMsg
<1>3. /\ img'.W = img.W /\ img'.H = img.H /\ img'.nbr_chunks = img.nbr_chunks
      /\ img'.chunksinrow = img.chunksinrow /\ img'.chunksize = img.chunksize
  BY <1>1, <1>2 DEF ImageOK
<1>4. CASE UNCHANGED parameters
  BY <1>2, <1>3, <1>4 DEF Steady, SameChunk, Size
<1>5. CASE \/ parameters' = [parameters EXCEPT !.computing = FALSE]
           \/ \E k : parameters' = [parameters EXCEPT !.computing = FALSE,
                                                      !.current_chunk = k]
           \/ \E k : parameters' = [parameters EXCEPT !.computing = FALSE,
                                                      !.computation_set = FALSE,
                                                      !.current_chunk = k]
  <2>1. /\ ~ parameters'.computing /\ parameters'.d = parameters.d
        /\ parameters'.computation_set => parameters.computation_set
    BY <1>1, <1>5, Zenon DEF ParametersOK
  <2> QED
    BY <1>2, <1>3, <2>1 DEF Steady, Size
<1>6. \/ UNCHANGED parameters
      \/ parameters' = [parameters EXCEPT !.computing = FALSE]
      \/ \E k : parameters' = [parameters EXCEPT !.computing = FALSE,
                                                 !.current_chunk = k]
      \/ \E k : parameters' = [parameters EXCEPT !.computing = FALSE,
                                                 !.computation_set = FALSE,
                                                 !.current_chunk = k]
  BY Zenon DEF HandleNucleoEvent, HandleStartup, HandleAnswer, HandleMsgAbort,
               HandleComputeData, HandleDone
<1> QED
  BY <1>4, <1>5, <1>6

(* A message that sets nothing leaves the size the board has, or will      *)
(* have, alone, and parameters bring it.                                   *)
LEMMA SendKeepsSize ==
  ASSUME LinkOK, NEW x \in PcMessages, SendPc(x), UNCHANGED nucleo
  PROVE  /\ Size' = Size /\ x.type # "MSG_SET_COMPUTE" =>
              (BoardSized => BoardSized') /\ (SizeSent => SizeSent')
         /\ x.type = "MSG_SET_COMPUTE" /\ x.d = Size' => SizeSent'
<1>1. ASSUME Size' = Size, BoardSized, x.type # "MSG_SET_COMPUTE" PROVE BoardSized'
  <2>1. 0 \in Nat
    OBVIOUS
  <2> QED
    BY <1>1, <2>1, NoneAfterSend DEF BoardSized, Settled
<1>2. ASSUME Size' = Size, SizeSent, x.type # "MSG_SET_COMPUTE" PROVE SizeSent'
  <2>1. PICK i \in DOMAIN toNucleo :
           /\ toNucleo[i].type = "MSG_SET_COMPUTE" /\ toNucleo[i].d = Size
           /\ NoneAfter(i, "MSG_SET_COMPUTE")
    BY <1>2 DEF SizeSent
  <2>2. i \in DOMAIN toNucleo' /\ toNucleo'[i] = toNucleo[i] /\ i \in Nat
    BY SendKeeps
  <2>3. NoneAfter(i, "MSG_SET_COMPUTE")'
    BY <1>2, <2>1, <2>2, NoneAfterSend
  <2> QED
    BY <1>2, <2>1, <2>2, <2>3 DEF SizeSent, NoneAfter
<1>3. ASSUME x.type = "MSG_SET_COMPUTE", x.d = Size' PROVE SizeSent'
  <2> DEFINE i == Len(toNucleo) + 1
  <2>1. /\ i \in DOMAIN toNucleo' /\ toNucleo'[i] = x
        /\ \A j \in DOMAIN toNucleo' :
              j > i => toNucleo'[j].type # "MSG_SET_COMPUTE"
    BY NoneAfterLast
  <2> HIDE DEF i
  <2> QED
    BY <1>3, <2>1 DEF SizeSent, NoneAfter
<1> QED
  BY <1>1, <1>2, <1>3

(* A message is one that was there or the one sent.                        *)
LEMMA SentOrThere ==
  ASSUME LinkOK, NEW x \in PcMessages, SendPc(x), NEW i \in DOMAIN toNucleo'
  PROVE  toNucleo'[i] = x \/ (i \in DOMAIN toNucleo /\ toNucleo'[i] = toNucleo[i])
<1>1. /\ Len(toNucleo) \in Nat
      /\ DOMAIN toNucleo = 1 .. Len(toNucleo)
      /\ DOMAIN toNucleo' = 1 .. Len(toNucleo) + 1
      /\ \A j \in 1 .. Len(toNucleo) : toNucleo'[j] = toNucleo[j]
      /\ toNucleo'[Len(toNucleo) + 1] = x
  BY AppendFacts, LenProperties DEF LinkOK, SendPc
<1>2. \A n \in Nat : \A j \in 1 .. n + 1 : j \in 1 .. n \/ j = n + 1
  BY SMT
<1> QED
  BY <1>1, <1>2, Zenon

(* Steps that begin no computation keep everything in its place.           *)
LEMMA SteadyKeepsPlace ==
  ASSUME LinkOK, LinkOK', OneRequest', InPlace, Steady, UNCHANGED nucleo,
         \A i \in DOMAIN Coming' : IsReply(Coming'[i], Result) =>
            \E j \in DOMAIN Coming : Coming'[i] = Coming[j]
  PROVE  InPlace'
<1>1. Size' = Size /\ (BoardSized => BoardSized') /\ (SizeSent => SizeSent')
  <2>1. Size' = Size
    BY DEF Steady
  <2>2. CASE UNCHANGED toNucleo
    BY <2>1, <2>2 DEF BoardSized, SizeSent, Settled, NoneAfter
  <2>3. CASE \E x : SendPc(x) /\ x.type = "MSG_GET_VERSION"
    <3>1. PICK x : SendPc(x) /\ x.type = "MSG_GET_VERSION"
      BY <2>3
    <3>2. x \in PcMessages
      BY <3>1, SentIsMessage
    <3> QED
      BY <2>1, <3>1, <3>2, SendKeepsSize
  <2> QED
    BY <2>1, <2>2, <2>3 DEF Steady
<1>5. \A i \in DOMAIN toNucleo' : toNucleo'[i].type = "MSG_COMPUTE" =>
         i \in DOMAIN toNucleo /\ toNucleo'[i] = toNucleo[i]
  <2>1. CASE \E x : SendPc(x) /\ x.type = "MSG_GET_VERSION"
    <3>1. PICK x : SendPc(x) /\ x.type = "MSG_GET_VERSION"
      BY <2>1
    <3>2. x \in PcMessages
      BY <3>1, SentIsMessage
    <3>3. \A i \in DOMAIN toNucleo' :
             toNucleo'[i] = x \/ (i \in DOMAIN toNucleo /\ toNucleo'[i] = toNucleo[i])
      BY <3>1, <3>2, SentOrThere
    <3> QED
      BY <3>1, <3>3
  <2> QED
    BY <2>1 DEF Steady
<1>2. SizeKnown'
  BY <1>1 DEF InPlace, SizeKnown, Steady
<1>3. CASE ~ parameters'.computing
  BY <1>2, <1>3, RestingFits
<1>4. CASE parameters'.computing
  <2>1. SameChunk /\ Size' = Size
    BY <1>4 DEF Steady
  <2>2. RequestsFit'
    <3>1. ASSUME NEW i \in DOMAIN toNucleo', toNucleo'[i].type = "MSG_COMPUTE"
          PROVE  Corner(parameters'.current_chunk, img',
                        toNucleo'[i].cid, toNucleo'[i].re, toNucleo'[i].im)
      <4>1. i \in DOMAIN toNucleo /\ toNucleo'[i] = toNucleo[i]
        BY <1>5, <3>1
      <4>2. Corner(parameters.current_chunk, img,
                   toNucleo[i].cid, toNucleo[i].re, toNucleo[i].im)
        BY <3>1, <4>1 DEF InPlace, RequestsFit
      <4> QED
        BY <2>1, <4>1, <4>2, CornerStays
    <3> QED
      BY <3>1 DEF RequestsFit
  <2>3. BoardFits'
    BY <2>1, CornerStays DEF InPlace, BoardFits
  <2>4. ResultsFit'
    <3>1. ASSUME NEW i \in DOMAIN Coming', IsReply(Coming'[i], Result)
          PROVE  ResultFits(parameters'.current_chunk, img', Coming'[i].msg)
      <4>1. PICK j \in DOMAIN Coming : Coming'[i] = Coming[j]
        BY <3>1
      <4>2. ResultFits(parameters.current_chunk, img, Coming[j].msg)
        BY <3>1, <4>1 DEF InPlace, ResultsFit
      <4> QED
        BY <2>1, <4>1, <4>2, CornerStays DEF ResultFits, Size
    <3> QED
      BY <3>1 DEF ResultsFit
  <2> QED
    BY <1>2, <2>2, <2>3, <2>4 DEF InPlace
<1> QED
  BY <1>3, <1>4

(* A request begins at the corner of its chunk.                            *)
LEMMA AskKeepsPlace ==
  ASSUME LinkOK, LinkOK', OneRequest, InPlace, UNCHANGED <<nucleo, img>>,
         ~ parameters.computing, parameters.computation_set,
         parameters'.d = parameters.d,
         \/ UNCHANGED toNucleo
         \/ \E x : /\ SendPc(x) /\ x.type = "MSG_COMPUTE"
                   /\ Corner(parameters'.current_chunk, img', x.cid, x.re, x.im),
         Silent'
  PROVE  InPlace'
<1>1. Resting
  BY DEF OneRequest
<1>2. \A i \in DOMAIN toNucleo : toNucleo[i].type # "MSG_COMPUTE"
  BY <1>1, NoneMeans DEF Resting, NoRequest
<1>3. parameters.d = Size /\ (BoardSized \/ SizeSent) /\ Size' = Size
  BY DEF InPlace, SizeKnown, Size
<1>4. BoardFits' /\ ResultsFit'
  BY <1>1 DEF Resting, BoardFits, ResultsFit, Silent, Without, IsReply
<1>5. CASE UNCHANGED toNucleo
  <2>1. BoardSized' \/ SizeSent'
    BY <1>3, <1>5 DEF BoardSized, SizeSent, Settled, NoneAfter
  <2> QED
    BY <1>2, <1>3, <1>4, <1>5, <2>1 DEF InPlace, SizeKnown, RequestsFit
<1>6. CASE \E x : /\ SendPc(x) /\ x.type = "MSG_COMPUTE"
                  /\ Corner(parameters'.current_chunk, img', x.cid, x.re, x.im)
  <2>1. PICK x : /\ SendPc(x) /\ x.type = "MSG_COMPUTE"
                 /\ Corner(parameters'.current_chunk, img', x.cid, x.re, x.im)
    BY <1>6
  <2>2. x \in PcMessages
    BY <2>1, SentIsMessage
  <2>4. BoardSized' \/ SizeSent'
    BY <1>3, <2>1, <2>2, SendKeepsSize
  <2>5. \A i \in DOMAIN toNucleo' :
           toNucleo'[i] = x \/ (i \in DOMAIN toNucleo /\ toNucleo'[i] = toNucleo[i])
    BY <2>1, <2>2, SentOrThere
  <2>6. RequestsFit'
    BY <1>2, <2>1, <2>5 DEF RequestsFit
  <2> QED
    BY <1>3, <1>4, <2>4, <2>6 DEF InPlace, SizeKnown
<1> QED
  BY <1>5, <1>6

(* The steps of the application.                                           *)
LEMMA PcKeepsPlace ==
  ASSUME TypeOK, TypeOK', Undisturbable, OneRequest, OneRequest', InPlace,
         PcNext, UNCHANGED nucleoVars
  PROVE  InPlace'
<1>1. /\ QueueOK /\ QueueOK' /\ LinkOK /\ LinkOK' /\ ParametersOK
      /\ UNCHANGED nucleo
  BY DEF TypeOK, nucleoVars
<1> DEFINE Less == \A i \in DOMAIN Coming' : IsReply(Coming'[i], Result) =>
                      \E j \in DOMAIN Coming : Coming'[i] = Coming[j]
<1>2. ASSUME evq # << >>, evq' = Tail(evq), UNCHANGED toPc
      PROVE  Less /\ (Silent => Silent')
  <2>1. PICK n : InsertedAt(Coming', Coming, Head(evq), n, 1)
    BY <1>1, <1>2, ComingPop
  <2>2. \A i \in DOMAIN Coming' : \E j \in DOMAIN Coming : Coming[j] = Coming'[i]
    BY <2>1, InsertedEvents
  <2>3. Silent => Silent'
    BY <2>2 DEF Silent, Without
  <2> QED
    BY <2>2, <2>3
<1>3. ASSUME Steady, Less PROVE InPlace'
  BY <1>1, <1>3, SteadyKeepsPlace
<1> HIDE DEF Less
<1>4. CASE HandleKeyEvent
  <2>1. /\ evq # << >> /\ evq' = Tail(evq) /\ UNCHANGED toPc
    BY <1>4, KeyEventComputing
  <2>2. Head(evq).type # "EV_ABORT"
    <3>1. Head(evq) = evq[1] /\ 1 \in DOMAIN evq
      BY <1>1, <2>1, TailFacts, LenProperties, SMT DEF QueueOK
    <3> QED
      BY <3>1 DEF Undisturbable
  <2>3. CASE ~ parameters'.computing /\ ~ parameters'.computation_set
    <3>1. SizeKnown'
      BY <2>3 DEF SizeKnown
    <3> QED
      BY <1>1, <2>3, <3>1, RestingFits
  <2>4. CASE /\ ~ parameters'.computing /\ parameters'.d = Size'
             /\ \E x : SendPc(x) /\ x.type = "MSG_SET_COMPUTE" /\ x.d = Size'
    <3>1. PICK x : SendPc(x) /\ x.type = "MSG_SET_COMPUTE" /\ x.d = Size'
      BY <2>4
    <3>2. x \in PcMessages
      BY <1>1, <3>1, SentIsMessage
    <3>3. SizeSent'
      BY <1>1, <3>1, <3>2, SendKeepsSize
    <3>4. SizeKnown'
      BY <2>4, <3>3 DEF SizeKnown
    <3> QED
      BY <1>1, <2>4, <3>4, RestingFits
  <2>5. CASE /\ ~ parameters.computing /\ parameters.computation_set
             /\ parameters'.d = parameters.d /\ UNCHANGED img
             /\ \/ UNCHANGED toNucleo
                \/ \E x : /\ SendPc(x) /\ x.type = "MSG_COMPUTE"
                          /\ Corner(parameters'.current_chunk, img', x.cid, x.re, x.im)
    <3>1. Silent'
      BY <1>2, <2>1, <2>5 DEF OneRequest, Resting
    <3> QED
      BY <1>1, <2>5, <3>1, AskKeepsPlace
  <2>6. CASE Steady
    BY <1>2, <1>3, <2>1, <2>6
  <2> QED
    BY <1>4, <2>2, <2>3, <2>4, <2>5, <2>6, KeyEventSize
<1>5. CASE HandleNucleoEvent
  <2>1. /\ evq # << >> /\ evq' = Tail(evq) /\ UNCHANGED toPc
    BY <1>5, NucleoEventEnds
  <2> QED
    BY <1>2, <1>3, <1>5, <2>1, NucleoEventSize
<1>6. ASSUME UNCHANGED <<parameters, img, toNucleo>> PROVE Steady
  BY <1>6 DEF Steady, SameChunk, Size
<1>7. CASE PressKey \/ PushNextChunk
  <2>1. UNCHANGED <<parameters, img, toNucleo, toPc>>
    BY <1>7 DEF PressKey, PushNextChunk
  <2>2. PICK e \in QueueEvents : e.type # "EV_SERIAL" /\ evq' = Append(evq, e)
    <3>1. NextChunk.type # "EV_SERIAL"
      BY DEF NextChunk, KeyParam
    <3>2. CASE PressKey
      BY <3>2, KeyIsEvent DEF PressKey
    <3>3. CASE PushNextChunk
      BY <3>1, <3>3, NextChunkIsEvent DEF PushNextChunk
    <3> QED
      BY <1>7, <3>2, <3>3
  <2>3. PICK n, a : InsertedAt(Coming, Coming', e, n, a)
    BY <1>1, <2>1, <2>2, ComingPush
  <2>4. Less
    <3>1. \A k \in DOMAIN Coming' :
             Coming'[k] = e \/ \E i \in DOMAIN Coming : Coming'[k] = Coming[i]
      BY <2>3, InsertedEvents
    <3> QED
      BY <2>2, <3>1 DEF Less, IsReply
  <2> QED
    BY <1>3, <1>6, <2>1, <2>4
<1>8. CASE ReceiveMessage
  <2>1. UNCHANGED <<parameters, img, toNucleo>>
    BY <1>8 DEF ReceiveMessage
  <2>2. Coming' = Coming
    BY <1>1, <1>8, ComingReceive
  <2>3. Less
    BY <2>2 DEF Less
  <2> QED
    BY <1>3, <1>6, <2>1, <2>3
<1> QED
  BY <1>4, <1>5, <1>7, <1>8 DEF PcNext, MainLoop

(* A message the board takes was there, and later ones still are.          *)
LEMMA ReceiveKeepsSize ==
  ASSUME LinkOK, NEW type, Received(type), UNCHANGED img
  PROVE  /\ BoardSized /\ nucleo'.d = nucleo.d => BoardSized'
         /\ BoardSized => type # "MSG_SET_COMPUTE"
         /\ SizeSent /\ type # "MSG_SET_COMPUTE" => SizeSent'
         /\ SizeSent /\ nucleo'.d = Head(toNucleo).d => BoardSized' \/ SizeSent'
<1>1. /\ 1 \in DOMAIN toNucleo /\ Head(toNucleo) = toNucleo[1]
      /\ toNucleo[1].type = type
      /\ \A i \in DOMAIN toNucleo :
            i # 1 => i - 1 \in DOMAIN toNucleo' /\ toNucleo'[i - 1] = toNucleo[i]
  BY ReceiveShifts
<1>2. /\ Settled => Settled'
      /\ NoneAfter(1, "MSG_SET_COMPUTE") => Settled'
      /\ Size' = Size
  BY NoneAfterReceive DEF Settled, Size
<1>3. Settled => type # "MSG_SET_COMPUTE"
  <2>1. 1 > 0
    OBVIOUS
  <2> QED
    BY <1>1, <2>1 DEF Settled, NoneAfter
<1>4. ASSUME NEW i \in DOMAIN toNucleo, i # 1,
             toNucleo[i].type = "MSG_SET_COMPUTE", toNucleo[i].d = Size,
             NoneAfter(i, "MSG_SET_COMPUTE")
      PROVE  SizeSent'
  <2>1. /\ i - 1 \in DOMAIN toNucleo' /\ toNucleo'[i - 1] = toNucleo[i]
        /\ \A j \in DOMAIN toNucleo' :
              j > i - 1 => toNucleo'[j].type # "MSG_SET_COMPUTE"
    BY <1>1, <1>4, NoneAfterReceive
  <2> QED
    BY <1>2, <1>4, <2>1 DEF SizeSent, NoneAfter
<1> QED
  BY <1>1, <1>2, <1>3, <1>4 DEF SizeSent, BoardSized

(* The steps of the board.                                                 *)
LEMMA NucleoKeepsPlace ==
  ASSUME TypeOK, TypeOK', Undisturbable, OneRequest, OneRequest', InPlace,
         NucleoNext, UNCHANGED pcVars
  PROVE  InPlace'
<1>1. /\ QueueOK /\ QueueOK' /\ LinkOK /\ LinkOK' /\ BoardOK
      /\ UNCHANGED <<parameters, img, evq>> /\ Size' = Size
  BY DEF TypeOK, pcVars, Size
<1>2. NoReset /\ NoneAfter(0, "MSG_ABORT")
  BY DEF Undisturbable
<1>3. ASSUME NEW x \in NucleoMessages, Send(x),
             x.type = "MSG_COMPUTE_DATA" => ResultFits(parameters.current_chunk, img, x)
      PROVE  ResultsFit'
  <2>1. PICK n : InsertedAt(Coming, Coming', Serial(x), n, n + 1)
    BY <1>1, <1>3, ComingSend
  <2>2. \A k \in DOMAIN Coming' :
           Coming'[k] = Serial(x) \/ \E i \in DOMAIN Coming : Coming'[k] = Coming[i]
    BY <2>1, InsertedEvents
  <2>3. Serial(x).msg = x
    BY DEF Serial
  <2> QED
    BY <1>1, <1>3, <2>2, <2>3 DEF InPlace, ResultsFit, IsReply, Result
<1>4. ASSUME UNCHANGED toPc PROVE ResultsFit'
  <2>1. Coming' = Coming
    BY <1>1, <1>4 DEF Coming, Serial
  <2> QED
    BY <1>1, <2>1 DEF InPlace, ResultsFit
<1>5. ASSUME UNCHANGED toNucleo, nucleo'.d = nucleo.d PROVE SizeKnown' /\ RequestsFit'
  BY <1>1, <1>5 DEF InPlace, SizeKnown, RequestsFit, BoardSized, SizeSent, Settled, NoneAfter
<1>6. ASSUME nucleo'.computing =>
               /\ nucleo.computing /\ nucleo'.cid = nucleo.cid
               /\ nucleo'.re = nucleo.re /\ nucleo'.im = nucleo.im
      PROVE  BoardFits'
  BY <1>1, <1>6 DEF InPlace, BoardFits
<1>7. ASSUME NEW type, Received(type) PROVE RequestsFit'
  <2>1. \A i \in DOMAIN toNucleo' :
           i + 1 \in DOMAIN toNucleo /\ toNucleo'[i] = toNucleo[i + 1]
    BY <1>1, <1>7, ReceiveShifts
  <2> QED
    BY <1>1, <2>1 DEF InPlace, RequestsFit
<1>8. ASSUME NEW type, Received(type), type # "MSG_SET_COMPUTE", nucleo'.d = nucleo.d
      PROVE  SizeKnown'
  <2>1. (BoardSized => BoardSized') /\ (SizeSent => SizeSent')
    BY <1>1, <1>8, ReceiveKeepsSize
  <2> QED
    BY <1>1, <2>1 DEF InPlace, SizeKnown
<1>9. CASE Arrive \/ Button
  <2>1. UNCHANGED <<nucleo, toNucleo, toPc>>
    BY <1>9 DEF Arrive, Button
  <2> QED
    BY <1>4, <1>5, <1>6, <2>1 DEF InPlace
<1>10. CASE HandleAbortRequest
  <2>1. /\ UNCHANGED toNucleo
        /\ \/ UNCHANGED <<nucleo, toPc>>
           \/ /\ nucleo' = [nucleo EXCEPT !.computing = FALSE]
              /\ Send(Plain("MSG_ABORT"))
    BY <1>10 DEF HandleAbortRequest
  <2>2. /\ nucleo'.d = nucleo.d
        /\ nucleo'.computing => /\ nucleo.computing /\ nucleo'.cid = nucleo.cid
                                /\ nucleo'.re = nucleo.re /\ nucleo'.im = nucleo.im
    BY <1>1, <2>1, Zenon DEF BoardOK
  <2>3. ResultsFit'
    BY <1>3, <1>4, <2>1, PlainMessages DEF Plain
  <2> QED
    BY <1>5, <1>6, <2>1, <2>2, <2>3 DEF InPlace
<1>11. CASE ReceiveGetVersion
  <2>1. Received("MSG_GET_VERSION") /\ UNCHANGED nucleo /\ Send(Plain("MSG_VERSION"))
    BY <1>11 DEF ReceiveGetVersion
  <2>2. ResultsFit'
    BY <1>3, <2>1, PlainMessages DEF Plain
  <2> QED
    BY <1>6, <1>7, <1>8, <2>1, <2>2 DEF InPlace
<1>12. CASE ReceiveAbort
  BY <1>1, <1>2, <1>12, ReceiveAsks DEF ReceiveAbort
<1>13. CASE ReceiveSetCompute
  <2> DEFINE m == Head(toNucleo)
  <2>1. /\ Received("MSG_SET_COMPUTE") /\ Send(Plain("MSG_OK"))
        /\ nucleo' = [nucleo EXCEPT !.c = m.c, !.d = m.d, !.n = m.n]
    BY <1>13 DEF ReceiveSetCompute
  <2>2. nucleo'.d = m.d /\ nucleo'.computing = nucleo.computing /\ nucleo'.cid = nucleo.cid
        /\ nucleo'.re = nucleo.re /\ nucleo'.im = nucleo.im
    <3> HIDE DEF m
    <3> QED
      BY <1>1, <2>1, Zenon DEF BoardOK
  <2>3. ResultsFit'
    BY <1>3, <2>1, PlainMessages DEF Plain
  <2>4. BoardSized \/ SizeSent => BoardSized' \/ SizeSent'
    BY <1>1, <2>1, <2>2, ReceiveKeepsSize
  <2>5. SizeKnown'
    BY <1>1, <2>4 DEF InPlace, SizeKnown
  <2> QED
    BY <1>6, <1>7, <2>1, <2>2, <2>3, <2>5 DEF InPlace
<1>14. CASE ReceiveCompute
  <2> DEFINE m == Head(toNucleo)
  <2>1. /\ Received("MSG_COMPUTE") /\ Send(Plain("MSG_OK"))
        /\ nucleo' = IF nucleo.computing
                       THEN nucleo
                       ELSE [nucleo EXCEPT !.cid = m.cid, !.re = m.re, !.im = m.im,
                                           !.cx = 0, !.cy = 0,
                                           !.chunk_size = m.size,
                                           !.computing = TRUE]
    BY <1>14 DEF ReceiveCompute
  <2>2. Corner(parameters.current_chunk, img, m.cid, m.re, m.im)
    <3>1. m = toNucleo[1] /\ 1 \in DOMAIN toNucleo /\ toNucleo[1].type = "MSG_COMPUTE"
      BY <1>1, <2>1, ReceiveShifts
    <3> QED
      BY <3>1 DEF InPlace, RequestsFit
  <2> HIDE DEF m
  <2>3. /\ nucleo'.d = nucleo.d
        /\ \/ nucleo' = nucleo
           \/ nucleo'.cid = m.cid /\ nucleo'.re = m.re /\ nucleo'.im = m.im
    BY <1>1, <2>1, Zenon DEF BoardOK
  <2>4. BoardFits'
    BY <1>1, <2>2, <2>3 DEF InPlace, BoardFits
  <2>5. ResultsFit'
    BY <1>3, <2>1, PlainMessages DEF Plain
  <2> QED
    BY <1>7, <1>8, <2>1, <2>3, <2>4, <2>5 DEF InPlace
<1>15. CASE SendPixel
  <2>1. /\ UNCHANGED toNucleo /\ nucleo.computing
        /\ \/ nucleo' = [nucleo EXCEPT !.cx = nucleo.cx + 1, !.cy = 0]
           \/ nucleo' = [nucleo EXCEPT !.cy = nucleo.cy + 1]
    BY <1>15 DEF SendPixel, Computing, NextPixel
  <2>2. /\ nucleo'.d = nucleo.d /\ nucleo'.computing = nucleo.computing
        /\ nucleo'.cid = nucleo.cid /\ nucleo'.re = nucleo.re /\ nucleo'.im = nucleo.im
    BY <1>1, <2>1, Zenon DEF BoardOK
  <2> DEFINE iter == Iterations(nucleo.c, nucleo.d, nucleo.n,
                                nucleo.re + nucleo.cx, nucleo.im + nucleo.cy)
             m == ComputeData(nucleo.cid, nucleo.cx, nucleo.cy, iter)
  <2>3. /\ nucleo.cid \in Nat /\ nucleo.cx \in Nat /\ nucleo.cy \in Nat
        /\ nucleo.c \in Cs \union {Zero} /\ nucleo.d \in Int \X Int
        /\ nucleo.n \in Nat /\ nucleo.re \in Nat /\ nucleo.im \in Nat
        /\ nucleo.re + nucleo.cx \in Nat /\ nucleo.im + nucleo.cy \in Nat
        /\ (nucleo.re + nucleo.cx) - nucleo.cx = nucleo.re
        /\ (nucleo.im + nucleo.cy) - nucleo.cy = nucleo.im
    BY <1>1, SMT DEF BoardOK
  <2>4. m \in NucleoMessages
    BY <2>3, IterationsType, ComputeDataMessage
  <2>5. /\ m.cid = nucleo.cid /\ m.i_re = nucleo.cx /\ m.i_im = nucleo.cy
        /\ m.iter.re = nucleo.re + nucleo.cx /\ m.iter.im = nucleo.im + nucleo.cy
        /\ m.iter.d = nucleo.d
    BY DEF ComputeData, Iterations
  <2>6. nucleo.d = Size
    <3>1. Working /\ parameters.computing
      BY <2>1 DEF OneRequest, Resting, Asked, Closed
    <3>2. BoardSized \/ SizeSent
      BY <3>1 DEF InPlace, SizeKnown
    <3>3. ~ SizeSent
      <4>1. \A i \in DOMAIN toNucleo : i > 0
        <5>1. DOMAIN toNucleo = 1 .. Len(toNucleo) /\ Len(toNucleo) \in Nat
          BY <1>1, LenProperties DEF LinkOK
        <5> QED
          BY <5>1, SMT
      <4> QED
        BY <3>1, <4>1 DEF Working, Settled, NoneAfter, SizeSent
    <3> QED
      BY <3>2, <3>3 DEF BoardSized
  <2>7. Corner(parameters.current_chunk, img, nucleo.cid, nucleo.re, nucleo.im)
    BY <2>1 DEF InPlace, BoardFits
  <2>8. Send(m)
    BY <1>15 DEF SendPixel
  <2> HIDE DEF m
  <2>9. ResultFits(parameters.current_chunk, img, m)
    BY <2>3, <2>5, <2>6, <2>7 DEF ResultFits, Size
  <2>10. ResultsFit'
    BY <1>3, <2>4, <2>8, <2>9
  <2> QED
    BY <1>5, <1>6, <2>1, <2>2, <2>10 DEF InPlace
<1>16. CASE SendDone
  <2>1. /\ Send(Plain("MSG_DONE")) /\ UNCHANGED toNucleo
        /\ nucleo' = [nucleo EXCEPT !.computing = FALSE]
    BY <1>16 DEF SendDone, Computing
  <2>2. ~ nucleo'.computing /\ nucleo'.d = nucleo.d
    BY <1>1, <2>1, Zenon DEF BoardOK
  <2>3. ResultsFit'
    BY <1>3, <2>1, PlainMessages DEF Plain
  <2> QED
    BY <1>5, <1>6, <2>1, <2>2, <2>3 DEF InPlace
<1>17. CASE Reset
  <2>1. resets < MaxResets /\ resets \in 0 .. MaxResets
    BY <1>1, <1>17 DEF Reset, BoardOK
  <2> QED
    BY <1>2, <2>1, SMT DEF NoReset
<1> QED
  BY <1>9, <1>10, <1>11, <1>12, <1>13, <1>14, <1>15, <1>16, <1>17 DEF NucleoNext, Loop

-----------------------------------------------------------------------------
(* The artwork is not asked for.                                           *)
LEMMA NoArtStep ==
  ASSUME TypeOK, NoArt, Next
  PROVE  NoArt'
<1>1. QueueOK /\ LinkOK /\ NoArtKey /\ \A i \in DOMAIN evq : evq[i].type \notin ArtEvents
  BY DEF TypeOK, NoArt
<1>2. SUFFICES ASSUME \/ evq # << >> /\ evq' = Tail(evq)
                      \/ \E e \in QueueEvents : e.type \notin ArtEvents /\ evq' = Append(evq, e)
                      \/ evq' = evq
               PROVE  NoArt'
  <2>1. CASE HandleKeyEvent
    BY <2>1, <1>2, KeyEventComputing
  <2>2. CASE HandleNucleoEvent
    BY <2>2, <1>2, NucleoEventEnds
  <2>3. CASE PressKey
    BY <1>1, <2>3, <1>2, KeyIsEvent DEF PressKey, NoArtKey
  <2>4. CASE PushNextChunk
    <3>1. NextChunk.type \notin ArtEvents
      BY DEF NextChunk, KeyParam, ArtEvents
    <3> QED
      BY <2>4, <1>2, <3>1, NextChunkIsEvent DEF PushNextChunk
  <2>5. CASE ReceiveMessage
    <3>1. toPc # << >> /\ evq' = Append(evq, Serial(Head(toPc)))
      BY <2>5 DEF ReceiveMessage
    <3>2. Head(toPc) \in NucleoMessages
      BY <1>1, <3>1, TailFacts DEF LinkOK
    <3>3. Serial(Head(toPc)) \in QueueEvents /\ Serial(Head(toPc)).type \notin ArtEvents
      BY <3>2, SerialIsEvent DEF ArtEvents
    <3> QED
      BY <1>2, <3>1, <3>3
  <2>6. CASE UNCHANGED pcVars
    BY <2>6, <1>2 DEF pcVars
  <2> QED
    BY <2>1, <2>2, <2>3, <2>4, <2>5, <2>6 DEF Next, PcNext, MainLoop
<1>3. CASE evq' = evq
  BY <1>1, <1>3 DEF NoArt, NoArtKey
<1>4. CASE evq' # evq
  <2>1. \A i \in DOMAIN evq' : evq'[i].type \notin ArtEvents
    BY <1>1, <1>2, <1>4, NoSuchEvents
  <2> QED
    BY <1>1, <2>1 DEF NoArt, NoArtKey
<1> QED
  BY <1>3, <1>4

(* A black picture is in place.                                            *)
LEMMA BlackInPlace ==
  ASSUME NEW w, NEW h, img'.data = [p \in Pixels(w, h) |-> Black]
  PROVE  PaintedInPlace'
  BY DEF PaintedInPlace

(* What the handlers of keys paint.                                        *)
LEMMA KeyEventPaints ==
  ASSUME TypeOK, parameters.computation_set => parameters.d = Size, PaintedInPlace,
         HandleKeyEvent, Head(evq).type \notin ArtEvents
  PROVE  PaintedInPlace'
<1>1. ParametersOK /\ ImageOK
  BY DEF TypeOK
<1>2. CASE UNCHANGED img
  BY <1>2 DEF PaintedInPlace
<1>3. CASE HandleGetVersion \/ HandleChangePar \/ HandleSetCompute \/ HandleCompute
             \/ HandleResetChunk \/ HandleAbort \/ HandleOther
  BY <1>2, <1>3 DEF HandleGetVersion, HandleChangePar, HandleSetCompute, HandleCompute,
                    HandleResetChunk, HandleAbort, HandleOther
<1>4. CASE HandleSetChange
  <2>1. \/ UNCHANGED img
        \/ \E w : img' = [img EXCEPT !.W = w, !.refresh_require = TRUE]
        \/ \E h : img' = [img EXCEPT !.H = h, !.refresh_require = TRUE]
    BY <1>4 DEF HandleSetChange
  <2>2. UNCHANGED img \/ img'.refresh_require
    BY <1>1, <2>1, Zenon DEF ImageOK
  <2> QED
    BY <1>2, <2>2 DEF PaintedInPlace
<1>5. CASE HandleComputeCPU
  <2>1. CASE img.refresh_require \/ ~ parameters.computation_set
    BY <1>2, <1>5, <2>1 DEF HandleComputeCPU
  <2>2. CASE ~ (img.refresh_require \/ ~ parameters.computation_set)
    <3>1. img' = [img EXCEPT !.data = ComputeCPU(parameters.c)]
      BY <1>5, <2>2 DEF HandleComputeCPU
    <3>2. /\ img'.data = ComputeCPU(parameters.c)
          /\ img'.W = img.W /\ img'.H = img.H
      BY <1>1, <3>1 DEF ImageOK
    <3>3. parameters.d = <<img'.W, img'.H>>
      BY <2>2, <3>2 DEF Size
    <3>4. ASSUME NEW p \in DOMAIN img'.data
          PROVE  LET iter == img'.data[p].iter
                 IN  iter.re = p[1] /\ iter.im = p[2] /\ iter.d = <<img'.W, img'.H>>
      <4>1. img'.data[p] = Colour(Iterations(parameters.c, parameters.d, parameters.n,
                                             p[1], p[2]), parameters.n)
        BY <3>2, <3>4 DEF ComputeCPU
      <4> QED
        BY <3>3, <4>1 DEF Colour, Iterations
    <3> QED
      BY <3>4 DEF PaintedInPlace
  <2> QED
    BY <2>1, <2>2
<1>6. CASE HandleClearBuffer
  <2>1. \/ UNCHANGED img
        \/ img' = [img EXCEPT !.data = [p \in Pixels(img.W, img.H) |-> Black]]
    BY <1>6 DEF HandleClearBuffer
  <2>2. \/ UNCHANGED img
        \/ img'.data = [p \in Pixels(img.W, img.H) |-> Black]
    BY <1>1, <2>1 DEF ImageOK
  <2> QED
    BY <1>2, <2>2, BlackInPlace
<1>7. CASE HandleRefresh
  <2>1. img'.data = [p \in Pixels(img.W, img.H) |-> Black]
    BY <1>7 DEF HandleRefresh, initImage
  <2> QED
    BY <2>1, BlackInPlace
<1>8. CASE HandleShow
  BY <1>8 DEF HandleShow, Handles, ArtEvents
<1> QED
  BY <1>3, <1>4, <1>5, <1>6, <1>7, <1>8 DEF HandleKeyEvent

(* What the handlers of messages paint: a result that fits, in its place.  *)
LEMMA NucleoEventPaints ==
  ASSUME TypeOK, ResultsFit, PaintedInPlace, HandleNucleoEvent
  PROVE  PaintedInPlace'
<1>1. ParametersOK /\ ImageOK /\ QueueOK /\ LinkOK
  BY DEF TypeOK
<1>2. CASE UNCHANGED img
  BY <1>2 DEF PaintedInPlace
<1>3. CASE HandleStartup \/ HandleAnswer \/ HandleMsgAbort \/ HandleDone
  BY <1>2, <1>3 DEF HandleStartup, HandleAnswer, HandleMsgAbort, HandleDone
<1>4. CASE HandleComputeData
  <2> DEFINE cid == parameters.current_chunk
             m == Head(evq).msg
             x == ChunkX(cid, img.chunksinrow, img.chunksize) + m.i_re
             y == ChunkY(cid, img.chunksinrow, img.chunksize) + m.i_im
             colour == Colour(m.iter, parameters.n)
  <2>1. /\ Head(evq).type = "EV_SERIAL" /\ m.type = "MSG_COMPUTE_DATA" /\ evq # << >>
        /\ \/ UNCHANGED img
           \/ /\ cid = m.cid /\ ~ (cid >= img.nbr_chunks)
              /\ img' = [img EXCEPT !.data[<<x, y>>] = colour]
    BY <1>4, Zenon DEF HandleComputeData, HandlesMsg, Handles, msg
  <2>2. CASE UNCHANGED img
    BY <1>2, <2>2
  <2>3. CASE /\ cid = m.cid /\ ~ (cid >= img.nbr_chunks)
             /\ img' = [img EXCEPT !.data[<<x, y>>] = colour]
    <3>1. ResultFits(cid, img, m)
      <4>1. Head(evq) = evq[1] /\ 1 \in DOMAIN evq /\ Len(evq) \in Nat /\ Len(evq) >= 1
        BY <1>1, <2>1, TailFacts, LenProperties, SMT DEF QueueOK
      <4>2. 1 \in DOMAIN Coming /\ Coming[1] = Head(evq)
        <5>1. \A a, b \in Nat : a >= 1 => 1 \in 1 .. a /\ 1 \in 1 .. a + b
          BY SMT
        <5> QED
          BY <1>1, <4>1, <5>1, ComingEvents
      <4>3. IsReply(Coming[1], Result)
        BY <2>1, <4>2 DEF IsReply, Result
      <4> QED
        BY <4>2, <4>3 DEF ResultsFit
    <3>2. /\ m.i_re \in Nat /\ m.i_im \in Nat /\ m.iter \in Iters
          /\ cid \in Nat /\ img.nbr_chunks \in Nat
      <4>1. Head(evq) \in QueueEvents
        BY <1>1, <2>1, TailFacts DEF QueueOK
      <4>2. m \in NucleoMessages
        BY <2>1, <4>1, SerialEvents
      <4> QED
        BY <1>1, <2>1, <4>2, NucleoMessageFields, GridAssumption, SMT
           DEF ParametersOK, ImageOK
    <3>3. m.iter.re = x /\ m.iter.im = y /\ m.iter.d = <<img.W, img.H>>
      <4>1. cid < img.nbr_chunks
        BY <2>3, <3>2, SMT
      <4>2. /\ m.iter.re - m.i_re = ChunkX(cid, img.chunksinrow, img.chunksize)
            /\ m.iter.im - m.i_im = ChunkY(cid, img.chunksinrow, img.chunksize)
            /\ m.iter.d = <<img.W, img.H>>
        BY <2>3, <3>1, <4>1 DEF ResultFits, Corner
      <4>3. m.iter.re \in Nat /\ m.iter.im \in Nat
        BY <3>2 DEF Iters
      <4>4. \A a, b \in Nat : (a - b) + b = a
        BY SMT
      <4> QED
        BY <3>2, <4>2, <4>3, <4>4
    <3>4. /\ img'.W = img.W /\ img'.H = img.H
          /\ img'.refresh_require = img.refresh_require
          /\ DOMAIN img'.data = DOMAIN img.data
          /\ \A p \in DOMAIN img.data :
                img'.data[p] = IF p = <<x, y>> THEN colour ELSE img.data[p]
      <4> HIDE DEF x, y, colour
      <4> QED
        BY <1>1, <2>3 DEF ImageOK
    <3>5. colour.iter = m.iter /\ <<x, y>>[1] = x /\ <<x, y>>[2] = y
      BY DEF Colour
    <3> HIDE DEF x, y, colour, m, cid
    <3> QED
      BY <3>3, <3>4, <3>5 DEF PaintedInPlace
  <2> QED
    BY <2>1, <2>2, <2>3
<1> QED
  BY <1>3, <1>4 DEF HandleNucleoEvent

(* Nothing is under way and nothing is painted at the start.               *)
LEMMA PlaceInit == Init /\ NoArtKey => NoArt /\ InPlace /\ PaintedInPlace
<1> SUFFICES ASSUME Init, NoArtKey PROVE NoArt /\ InPlace /\ PaintedInPlace
  OBVIOUS
<1>1. /\ evq = << >> /\ toPc = << >> /\ toNucleo = << >> /\ ~ nucleo.computing
      /\ ~ parameters.computing /\ ~ parameters.computation_set
      /\ img = initImage(def_W, def_H, def_chunksize)
  BY DEF Init, PcInit, NucleoInit, Idle
<1>2. DOMAIN evq = {} /\ DOMAIN toNucleo = {} /\ DOMAIN Coming = {}
  <2>1. Len(evq) = 0 /\ Len(toPc) = 0 /\ 1 .. 0 + 0 = {}
    BY <1>1, SMT
  <2> QED
    BY <1>1, <2>1, SMT DEF Coming
<1>3. NoArt /\ InPlace
  BY <1>1, <1>2 DEF NoArt, InPlace, SizeKnown, RequestsFit, BoardFits, ResultsFit
<1>4. img.data = [p \in Pixels(def_W, def_H) |-> Black]
  BY <1>1 DEF initImage
<1> QED
  BY <1>3, <1>4 DEF PaintedInPlace

(* One step keeps everything in its place.                                 *)
LEMMA PlaceStep ==
  TypeOK /\ TypeOK' /\ Undisturbable /\ OneRequest /\ OneRequest' /\ NoArt
    /\ InPlace /\ PaintedInPlace /\ [Next]_vars
    => NoArt' /\ InPlace' /\ PaintedInPlace'
<1> SUFFICES ASSUME TypeOK, TypeOK', Undisturbable, OneRequest, OneRequest',
                    NoArt, InPlace, PaintedInPlace, [Next]_vars
             PROVE  NoArt' /\ InPlace' /\ PaintedInPlace'
  OBVIOUS
<1>1. CASE PcNext /\ UNCHANGED nucleoVars
  <2>1. NoArt' /\ InPlace'
    BY <1>1, NoArtStep, PcKeepsPlace DEF Next
  <2>2. CASE HandleKeyEvent
    <3>1. evq # << >> /\ QueueOK
      BY <2>2, KeyEventComputing DEF TypeOK
    <3>2. Head(evq) = evq[1] /\ 1 \in DOMAIN evq
      BY <3>1, TailFacts, LenProperties, SMT DEF QueueOK
    <3> QED
      BY <2>1, <2>2, <3>2, KeyEventPaints DEF NoArt, InPlace, SizeKnown
  <2>3. CASE HandleNucleoEvent
    BY <2>1, <2>3, NucleoEventPaints DEF InPlace
  <2>4. CASE PressKey \/ ReceiveMessage \/ PushNextChunk
    <3>1. UNCHANGED img
      BY <2>4 DEF PressKey, ReceiveMessage, PushNextChunk
    <3> QED
      BY <2>1, <3>1 DEF PaintedInPlace
  <2> QED
    BY <1>1, <2>2, <2>3, <2>4 DEF PcNext, MainLoop
<1>2. CASE NucleoNext /\ UNCHANGED pcVars
  <2>1. UNCHANGED img
    BY <1>2 DEF pcVars
  <2> QED
    BY <1>2, <2>1, NoArtStep, NucleoKeepsPlace DEF PaintedInPlace, Next
<1>3. CASE UNCHANGED vars
  <2>1. UNCHANGED <<evq, toPc, toNucleo, nucleo, parameters, img>>
    BY <1>3 DEF vars, pcVars, nucleoVars
  <2>2. Coming' = Coming
    BY <2>1 DEF Coming, Serial
  <2> QED
    BY <2>1, <2>2
       DEF NoArt, NoArtKey, InPlace, SizeKnown, RequestsFit, BoardFits, ResultsFit, Size,
           BoardSized, SizeSent, Settled, NoneAfter, PaintedInPlace
<1> QED
  BY <1>1, <1>2, <1>3 DEF Next

(* A user who neither aborts from the keyboard nor looks at the artwork,   *)
(* and a board that is not restarted, paint every result on its own point, *)
(* with the increments of the image as it is, however often the image is   *)
(* resized and refreshed, and whenever the button is pressed.              *)
THEOREM ResultsPaintedInPlace ==
  NoAbortKey /\ NoReset /\ NoArtKey /\ Spec => []PaintedInPlace
  BY OrderInit, OrderStep, PlaceInit, PlaceStep, TypeInit, TypeStep, PTL DEF Spec

-----------------------------------------------------------------------------
(* The chunk job                                                           *)

(* What this user does.  He may press the button of the board.             *)
JobEvent(e) ==
  /\ e.type \notin {"EV_ABORT", "EV_REFRESH", "EV_COMPUTE_CPU"} \union ArtEvents
  /\ e.type = "EV_CHANGE_PAR" => e.param \notin {WIDTH, HEIGHT}
JobUser == \A k \in Keys : JobEvent(k)

(* The number of chunks of the first image is a byte.                      *)
FirstFits ==
  Ceiling(def_W, def_chunksize) * Ceiling(def_H, def_chunksize) < BYTE

-----------------------------------------------------------------------------
(* The image keeps its size and its grid.                                  *)

FirstPixels == Pixels(def_W, def_H)
FirstRow == chunksinrow(def_W, def_chunksize)
FirstNumber == nbr_chunks(def_W, def_H, def_chunksize)

SameGrid ==
  /\ img.W = def_W /\ img.H = def_H /\ img.chunksize = def_chunksize
  /\ img.chunksinrow = FirstRow /\ img.nbr_chunks = FirstNumber
  /\ ~ img.refresh_require
  /\ DOMAIN img.data = FirstPixels

OnlyJobs ==
  /\ JobUser
  /\ \A i \in DOMAIN evq : JobEvent(evq[i])
  /\ parameters.parameter_to_be_changed \notin {WIDTH, HEIGHT}

(* Whatever is under way is for the current chunk, within its bounds.      *)
Offsets == 0 .. def_chunksize - 1

RequestsCurrent ==
  \A i \in DOMAIN toNucleo : toNucleo[i].type = "MSG_COMPUTE" =>
     /\ toNucleo[i].cid = parameters.current_chunk
     /\ toNucleo[i].size = def_chunksize

BoardCurrent ==
  nucleo.computing =>
     /\ nucleo.cid = parameters.current_chunk
     /\ nucleo.chunk_size = def_chunksize
     /\ nucleo.cx \in 0 .. def_chunksize /\ nucleo.cy \in Offsets
     /\ nucleo.cx = def_chunksize => nucleo.cy = 0

ResultsCurrent ==
  \A i \in DOMAIN Coming : IsReply(Coming[i], Result) =>
     /\ Coming[i].msg.cid = parameters.current_chunk
     /\ Coming[i].msg.i_re \in Offsets /\ Coming[i].msg.i_im \in Offsets

Current == RequestsCurrent /\ BoardCurrent /\ ResultsCurrent

(* No pixel of the current chunk is forgotten: it is painted, or the board *)
(* has not come to it yet, or its result is coming.                        *)
Column(p) == p[1] % def_chunksize
Line(p) == p[2] % def_chunksize

Pending(p) ==
  /\ nucleo.computing
  /\ \/ nucleo.cx < Column(p)
     \/ nucleo.cx = Column(p) /\ nucleo.cy <= Line(p)

ResultComes(p) ==
  \E i \in DOMAIN Coming :
     /\ IsReply(Coming[i], Result)
     /\ Coming[i].msg.i_re = Column(p) /\ Coming[i].msg.i_im = Line(p)

Remembered(p) == img.data[p] # Black \/ Pending(p) \/ ResultComes(p)

Aborting == ~ Without(Coming, {"MSG_ABORT"})

NoneForgotten ==
  parameters.computing =>
     \/ Asking \/ Aborting
     \/ \A p \in FirstPixels :
           FirstChunkOf(p) = parameters.current_chunk => Remembered(p)

JobInv ==
  /\ FirstFits
  /\ OnlyJobs /\ SameGrid /\ Current /\ NoneForgotten
  /\ main # "crashed"

(* The chunks before the current one are painted.                          *)
EarlierWhole ==
  \A p \in FirstPixels :
     (IF parameters.computing
        THEN FirstChunkOf(p) < parameters.current_chunk
        ELSE /\ parameters.current_chunk # NoChunk
             /\ FirstChunkOf(p) <= parameters.current_chunk)
       => img.data[p] # Black

-----------------------------------------------------------------------------
(* The grid of the first image                                             *)

(* The numbers are not zero.                                               *)
LEMMA FirstNumbers ==
  /\ def_W \in Nat \ {0} /\ def_H \in Nat \ {0} /\ def_chunksize \in Nat \ {0}
  /\ FirstImage.chunksize = def_chunksize /\ FirstImage.chunksinrow = FirstRow
  BY GridAssumption, PcAssumption, SMT DEF FirstImage, initImage, FirstRow

(* Every pixel has its chunk and its place in it.                          *)
LEMMA FirstGrid ==
  ASSUME FirstFits
  PROVE  /\ FirstRow \in Nat \ {0}
         /\ FirstNumber \in Nat
         /\ \A p \in FirstPixels :
               /\ FirstChunkOf(p) \in Nat /\ FirstChunkOf(p) < FirstNumber
               /\ Column(p) \in Offsets /\ Line(p) \in Offsets
               /\ p = <<ChunkX(FirstChunkOf(p), FirstRow, def_chunksize) + Column(p),
                        ChunkY(FirstChunkOf(p), FirstRow, def_chunksize) + Line(p)>>
<1>1. /\ Ceiling(def_W, def_chunksize) \in Nat \ {0}
      /\ Ceiling(def_H, def_chunksize) \in Nat \ {0}
      /\ FirstRow = Ceiling(def_W, def_chunksize)
      /\ FirstNumber = Ceiling(def_H, def_chunksize) * Ceiling(def_W, def_chunksize)
  BY FirstNumbers, CeilingFacts, FittingGrid DEF FirstFits, FirstRow, FirstNumber
<1>2. ASSUME NEW p \in FirstPixels
      PROVE  /\ FirstChunkOf(p) \in Nat /\ FirstChunkOf(p) < FirstNumber
             /\ Column(p) \in Offsets /\ Line(p) \in Offsets
             /\ p = <<ChunkX(FirstChunkOf(p), FirstRow, def_chunksize) + Column(p),
                      ChunkY(FirstChunkOf(p), FirstRow, def_chunksize) + Line(p)>>
  <2>1. p[1] \in 0 .. def_W - 1 /\ p[2] \in 0 .. def_H - 1 /\ p = <<p[1], p[2]>>
    BY DEF FirstPixels, Pixels
  <2>2. FirstChunkOf(p) = p[1] \div def_chunksize + (p[2] \div def_chunksize) * FirstRow
    BY FirstNumbers DEF FirstChunkOf
  <2>3. /\ FirstChunkOf(p) \in Nat
        /\ FirstChunkOf(p) < Ceiling(def_H, def_chunksize) * FirstRow
        /\ ChunkX(FirstChunkOf(p), FirstRow, def_chunksize) + (p[1] % def_chunksize) = p[1]
        /\ ChunkY(FirstChunkOf(p), FirstRow, def_chunksize) + (p[2] % def_chunksize) = p[2]
    BY <1>1, <2>1, <2>2, FirstNumbers, PixelInChunk
  <2>4. Column(p) \in Offsets /\ Line(p) \in Offsets
    <3>1. p[1] \in Nat /\ p[2] \in Nat
      BY <2>1
    <3> QED
      BY <3>1, FirstNumbers, Division DEF Column, Line, Offsets
  <2> QED
    BY <1>1, <2>1, <2>3, <2>4 DEF Column, Line
<1>3. FirstNumber \in Nat
  BY <1>1, SMT
<1> QED
  BY <1>1, <1>2, <1>3

(* A result of a chunk is for the pixel of that chunk at its place.        *)
LEMMA FirstPlace ==
  ASSUME FirstFits, NEW cid \in Nat, NEW i \in Offsets, NEW j \in Offsets,
         NEW x, x = ChunkX(cid, FirstRow, def_chunksize) + i,
         NEW y, y = ChunkY(cid, FirstRow, def_chunksize) + j
  PROVE  /\ FirstChunkOf(<<x, y>>) = cid
         /\ Column(<<x, y>>) = i /\ Line(<<x, y>>) = j
<1>1. FirstRow \in Nat \ {0}
  BY FirstGrid
<1>2. /\ x % def_chunksize = i /\ y % def_chunksize = j
      /\ x \div def_chunksize + (y \div def_chunksize) * FirstRow = cid
  BY <1>1, FirstNumbers, ChunkOfPixel DEF Offsets
<1> QED
  BY <1>2, FirstNumbers DEF FirstChunkOf, Column, Line

-----------------------------------------------------------------------------
(* What the handlers do, as far as the job is concerned.                   *)

Blank == [p \in FirstPixels |-> Black]

(* They leave the job alone,                                               *)
Keeps ==
  /\ parameters'.computing = parameters.computing
  /\ parameters'.current_chunk = parameters.current_chunk
  /\ UNCHANGED img
  /\ \/ UNCHANGED toNucleo
     \/ \E x : /\ SendPc(x) /\ x.type # "MSG_COMPUTE"
               /\ x.type = "MSG_SET_COMPUTE" => ~ parameters.computing

(* begin the next chunk,                                                   *)
Begins ==
  /\ ~ parameters.computing /\ parameters'.computing
  /\ parameters'.current_chunk = (parameters.current_chunk + 1) % BYTE
  /\ UNCHANGED img
  /\ \E x : /\ SendPc(x) /\ x.type = "MSG_COMPUTE"
            /\ x.cid = parameters'.current_chunk /\ x.size = def_chunksize

(* begin the image again,                                                  *)
Rewinds ==
  /\ ~ parameters.computing /\ ~ parameters'.computing
  /\ parameters'.current_chunk = NoChunk
  /\ UNCHANGED toNucleo
  /\ img' = img \/ img' = [img EXCEPT !.data = Blank]

(* paint one pixel of the current chunk,                                   *)
PaintsPixel ==
  /\ parameters.computing
  /\ \E q \in FirstPixels : \E colour :
        /\ FirstChunkOf(q) = parameters.current_chunk
        /\ colour # Black
        /\ img' = [img EXCEPT !.data[q] = colour]
Paints == PaintsPixel /\ UNCHANGED <<parameters, toNucleo>>

(* finish the chunk when it is painted,                                    *)
ChunkIsWhole ==
  \A p \in FirstPixels :
     FirstChunkOf(p) = parameters.current_chunk => img.data[p] # Black
Finishes ==
  /\ parameters.computing /\ ~ parameters'.computing
  /\ parameters'.current_chunk = parameters.current_chunk
  /\ UNCHANGED <<img, toNucleo>>
  /\ ChunkIsWhole

(* or give it up.                                                          *)
GivesUp ==
  /\ parameters.computing /\ ~ parameters'.computing
  /\ parameters'.current_chunk = PreviousChunk(parameters.current_chunk)
  /\ UNCHANGED <<img, toNucleo>>

(* Some fields of the parameters are changed.                              *)
LEMMA OtherFields ==
  ASSUME ParametersOK,
         \/ UNCHANGED parameters
         \/ \E v \in Nat : parameters' = [parameters EXCEPT !.parameter_to_be_changed = v]
         \/ \E d : parameters' = [parameters EXCEPT !.computation_set = TRUE, !.d = d]
         \/ \E c : parameters' = [parameters EXCEPT !.computation_set = FALSE, !.c = c]
         \/ \E n : parameters' = [parameters EXCEPT !.computation_set = FALSE, !.n = n]
         \/ parameters' = [parameters EXCEPT !.computation_set = FALSE]
  PROVE  /\ parameters'.computing = parameters.computing
         /\ parameters'.current_chunk = parameters.current_chunk
  BY Zenon DEF ParametersOK

(* The handlers of keys, for the user of the job.                          *)
LEMMA KeyEventJob ==
  ASSUME TypeOK, OnlyJobs, SameGrid, FirstFits, HandleKeyEvent, JobEvent(Head(evq))
  PROVE  (Keeps \/ Begins \/ Rewinds) /\ UNCHANGED main
<1>1. ParametersOK /\ ImageOK
  BY DEF TypeOK
<1>0. UNCHANGED main
  <2>1. img.chunksinrow # 0
    BY FirstGrid DEF SameGrid
  <2> QED
    BY <2>1, Zenon
       DEF HandleKeyEvent, HandleGetVersion, HandleChangePar, HandleSetChange,
           HandleSetCompute, HandleCompute, HandleResetChunk, HandleAbort,
           HandleComputeCPU, HandleClearBuffer, HandleRefresh, HandleShow, HandleOther
<1>2. CASE HandleGetVersion
  <2>1. Plain("MSG_GET_VERSION").type = "MSG_GET_VERSION"
    BY DEF Plain
  <2> QED
    BY <1>2, <2>1 DEF HandleGetVersion, Keeps
<1>3. ASSUME UNCHANGED <<img, main, toNucleo>>,
             \/ UNCHANGED parameters
             \/ \E v \in Nat : parameters' = [parameters EXCEPT !.parameter_to_be_changed = v]
             \/ \E c : parameters' = [parameters EXCEPT !.computation_set = FALSE, !.c = c]
             \/ \E n : parameters' = [parameters EXCEPT !.computation_set = FALSE, !.n = n]
             \/ parameters' = [parameters EXCEPT !.computation_set = FALSE]
      PROVE  Keeps
  BY <1>1, <1>3, OtherFields, Zenon DEF Keeps
<1>4. CASE HandleChangePar
  <2>1. param \in Nat
    <3>1. Head(evq) \in QueueEvents /\ Head(evq).type = "EV_CHANGE_PAR"
      BY <1>4, HandlesType DEF HandleChangePar, TypeOK
    <3> QED
      BY <3>1, OtherEvents DEF param
  <2> QED
    BY <1>3, <1>4, <2>1 DEF HandleChangePar
<1>5. CASE HandleSetChange
  <2> DEFINE changed == [parameters EXCEPT !.computation_set = FALSE]
  <2>1. /\ UNCHANGED <<main, toNucleo, img>>
        /\ \/ \E c \in Cs : parameters' = [changed EXCEPT !.c = c]
           \/ parameters' = [changed EXCEPT !.n = ChangedN]
           \/ parameters' = changed
    BY <1>5, Zenon DEF HandleSetChange, OnlyJobs
  <2>2. \/ \E c : parameters' = [parameters EXCEPT !.computation_set = FALSE, !.c = c]
        \/ \E n : parameters' = [parameters EXCEPT !.computation_set = FALSE, !.n = n]
        \/ parameters' = [parameters EXCEPT !.computation_set = FALSE]
    BY <2>1
  <2> QED
    BY <1>3, <2>1, <2>2
<1>6. CASE HandleSetCompute
  <2>1. CASE parameters.computing
    BY <1>3, <1>6, <2>1 DEF HandleSetCompute
  <2>2. CASE ~ parameters.computing
    <3> DEFINE x == SetCompute(parameters.c, <<img.W, img.H>>, parameters.n)
    <3>1. /\ parameters' = [parameters EXCEPT !.computation_set = TRUE,
                                              !.d = <<img.W, img.H>>]
          /\ SendPc(x) /\ UNCHANGED <<img, main>>
      BY <1>6, <2>2 DEF HandleSetCompute
    <3>2. x.type # "MSG_COMPUTE"
      BY DEF SetCompute
    <3>3. /\ parameters'.computing = parameters.computing
          /\ parameters'.current_chunk = parameters.current_chunk
      BY <1>1, <3>1, OtherFields
    <3> QED
      BY <2>2, <3>1, <3>2, <3>3 DEF Keeps
  <2> QED
    BY <2>1, <2>2
<1>7. CASE HandleCompute
  <2> DEFINE cid == (parameters.current_chunk + 1) % BYTE
             x == Compute(cid, ChunkX(cid, img.chunksinrow, img.chunksize),
                          ChunkY(cid, img.chunksinrow, img.chunksize), img.chunksize)
  <2>1. CASE ~ MayCompute
    BY <1>3, <1>7, <2>1 DEF HandleCompute
  <2>2. CASE MayCompute
    <3>1. img.chunksinrow # 0 /\ img.chunksize = def_chunksize
      BY FirstGrid DEF SameGrid
    <3>2. /\ parameters' = [parameters EXCEPT !.current_chunk = cid, !.computing = TRUE]
          /\ UNCHANGED <<img, main>> /\ SendPc(x) /\ ~ parameters.computing
      BY <1>7, <2>2, <3>1 DEF HandleCompute, MayCompute
    <3>3. x.type = "MSG_COMPUTE" /\ x.cid = cid /\ x.size = def_chunksize
      BY <3>1 DEF Compute
    <3> HIDE DEF x
    <3>4. parameters'.computing /\ parameters'.current_chunk = cid
      <4> HIDE DEF cid
      <4> QED
        BY <1>1, <3>2, Zenon DEF ParametersOK
    <3> QED
      BY <3>2, <3>3, <3>4 DEF Begins
  <2> QED
    BY <2>1, <2>2
<1>8. CASE HandleResetChunk \/ HandleClearBuffer
  <2>1. /\ UNCHANGED <<main, toNucleo>>
        /\ \/ UNCHANGED <<parameters, img>>
           \/ /\ ~ parameters.computing
              /\ parameters' = [parameters EXCEPT !.current_chunk = NoChunk]
              /\ \/ UNCHANGED img
                 \/ img' = [img EXCEPT !.data = [p \in Pixels(img.W, img.H) |-> Black]]
    BY <1>8 DEF HandleResetChunk, HandleClearBuffer
  <2>2. CASE UNCHANGED <<parameters, img>>
    BY <1>3, <2>1, <2>2
  <2>3. CASE /\ ~ parameters.computing
             /\ parameters' = [parameters EXCEPT !.current_chunk = NoChunk]
             /\ \/ UNCHANGED img
                \/ img' = [img EXCEPT !.data = [p \in Pixels(img.W, img.H) |-> Black]]
    <3>1. ~ parameters'.computing /\ parameters'.current_chunk = NoChunk
      BY <1>1, <2>3, Zenon DEF ParametersOK
    <3>2. [p \in Pixels(img.W, img.H) |-> Black] = Blank
      BY DEF SameGrid, Blank, FirstPixels
    <3> QED
      BY <2>1, <2>3, <3>1, <3>2 DEF Rewinds
  <2> QED
    BY <2>1, <2>2, <2>3
<1>9. CASE HandleAbort \/ HandleComputeCPU \/ HandleRefresh \/ HandleShow
  BY <1>9 DEF HandleAbort, HandleComputeCPU, HandleRefresh, HandleShow, Handles,
              JobEvent, ArtEvents
<1>10. CASE HandleOther
  BY <1>3, <1>10 DEF HandleOther
<1> QED
  BY <1>0, <1>2, <1>4, <1>5, <1>6, <1>7, <1>8, <1>9, <1>10 DEF HandleKeyEvent

(* The first of the coming events is the one the main thread takes.        *)
LEMMA HeadComes ==
  ASSUME QueueOK, LinkOK, evq # << >>
  PROVE  1 \in DOMAIN Coming /\ Coming[1] = Head(evq) /\ Head(evq) \in QueueEvents
<1>1. Head(evq) = evq[1] /\ Len(evq) \in Nat /\ Len(evq) >= 1 /\ Head(evq) \in QueueEvents
  BY TailFacts, LenProperties, SMT DEF QueueOK
<1>2. \A a, b \in Nat : a >= 1 => 1 \in 1 .. a /\ 1 \in 1 .. a + b
  BY SMT
<1> QED
  BY <1>1, <1>2, ComingEvents

(* A result paints the pixel it is for, if that is a pixel of the image.   *)
LEMMA ResultPaints ==
  ASSUME TypeOK, SameGrid, ResultsCurrent, FirstFits, HandleComputeData
  PROVE  /\ UNCHANGED <<parameters, main, toNucleo>>
         /\ UNCHANGED img \/ PaintsPixel
         /\ parameters.computing =>
               \A p \in FirstPixels :
                  /\ FirstChunkOf(p) = parameters.current_chunk
                  /\ Column(p) = Head(evq).msg.i_re /\ Line(p) = Head(evq).msg.i_im
                  => img'.data[p] # Black
<1> DEFINE cid == parameters.current_chunk
           m == Head(evq).msg
           x == ChunkX(cid, FirstRow, def_chunksize) + m.i_re
           y == ChunkY(cid, FirstRow, def_chunksize) + m.i_im
           colour == Colour(m.iter, parameters.n)
           Drawn == parameters.computing /\ cid = m.cid /\ x < def_W /\ y < def_H
<1>1. ParametersOK /\ ImageOK /\ QueueOK /\ LinkOK
  BY DEF TypeOK
<1>2. /\ evq # << >> /\ Head(evq).type = "EV_SERIAL" /\ m.type = "MSG_COMPUTE_DATA"
      /\ UNCHANGED toNucleo /\ UNCHANGED parameters
  BY DEF HandleComputeData, HandlesMsg, Handles, msg
<1>3. /\ ~ Drawn => UNCHANGED <<img, main>>
      /\ Drawn /\ cid >= FirstNumber => UNCHANGED img
      /\ Drawn /\ ~ (cid >= FirstNumber) =>
            img' = [img EXCEPT !.data[<<x, y>>] = colour] /\ UNCHANGED main
  BY DEF HandleComputeData, SameGrid, msg
<1>4. m.cid = cid /\ m.i_re \in Offsets /\ m.i_im \in Offsets
  <2>1. 1 \in DOMAIN Coming /\ Coming[1] = Head(evq)
    BY <1>1, <1>2, HeadComes
  <2>2. IsReply(Coming[1], Result)
    BY <1>2, <2>1 DEF IsReply, Result
  <2> QED
    BY <2>1, <2>2 DEF ResultsCurrent
<1>5. colour # Black
  <2>1. m \in NucleoMessages
    BY <1>1, <1>2, HeadComes, SerialEvents
  <2>2. m.iter \in Iters /\ parameters.n \in Nat
    BY <1>1, <1>2, <2>1, NucleoMessageFields, PcAssumption, SMT DEF ParametersOK
  <2> HIDE DEF m
  <2> QED
    BY <2>2, BlackAssumption DEF Colour
<1>6. cid \in Nat /\ FirstNumber \in Nat
  BY <1>1, FirstGrid, GridAssumption, SMT DEF ParametersOK
<1>7. FirstChunkOf(<<x, y>>) = cid
  <2> HIDE DEF m, cid
  <2> QED
    BY <1>4, <1>6, FirstPlace
<1>8. ASSUME Drawn PROVE <<x, y>> \in FirstPixels /\ cid < FirstNumber
  <2>1. x \in Nat /\ y \in Nat
    <3>1. m.i_re \in Nat /\ m.i_im \in Nat
      BY <1>4, SMT DEF Offsets
    <3>2. /\ ChunkX(cid, FirstRow, def_chunksize) \in Nat
          /\ ChunkY(cid, FirstRow, def_chunksize) \in Nat
      <4> HIDE DEF cid
      <4> QED
        BY <1>6, FirstGrid, FirstNumbers, ChunkCorner
    <3> HIDE DEF m, cid
    <3> QED
      BY <3>1, <3>2, SMT
  <2>2. x \in 0 .. def_W - 1 /\ y \in 0 .. def_H - 1
    <3>1. x < def_W /\ y < def_H
      BY <1>8
    <3> HIDE DEF x, y
    <3> QED
      BY <2>1, <3>1, FirstNumbers, SMT
  <2>3. <<x, y>> \in FirstPixels
    <3> HIDE DEF x, y
    <3> QED
      BY <2>2 DEF FirstPixels, Pixels
  <2> QED
    BY <1>7, <2>3, FirstGrid
<1> HIDE DEF x, y, colour
<1>9. ASSUME Drawn
      PROVE  PaintsPixel /\ UNCHANGED main /\ img'.data[<<x, y>>] # Black
  <2>1. cid < FirstNumber /\ ~ (cid >= FirstNumber) /\ <<x, y>> \in FirstPixels
    <3>1. cid < FirstNumber /\ <<x, y>> \in FirstPixels
      BY <1>8, <1>9
    <3> QED
      BY <1>6, <3>1, SMT
  <2>2. img' = [img EXCEPT !.data[<<x, y>>] = colour] /\ UNCHANGED main
    BY <1>3, <1>9, <2>1
  <2>3. img'.data[<<x, y>>] = colour
    BY <1>1, <2>1, <2>2 DEF ImageOK, SameGrid
  <2> QED
    BY <1>5, <1>7, <1>9, <2>1, <2>2, <2>3 DEF PaintsPixel
<1>10. ASSUME NEW p \in FirstPixels, parameters.computing, FirstChunkOf(p) = cid,
              Column(p) = m.i_re, Line(p) = m.i_im
       PROVE  img'.data[p] # Black
  <2>1. p = <<x, y>>
    BY <1>10, FirstGrid DEF x, y
  <2>2. x < def_W /\ y < def_H
    <3>1. x \in 0 .. def_W - 1 /\ y \in 0 .. def_H - 1
      BY <2>1 DEF FirstPixels, Pixels
    <3> QED
      BY <3>1, FirstNumbers, SMT
  <2> QED
    BY <1>4, <1>9, <1>10, <2>1, <2>2
<1> QED
  BY <1>2, <1>3, <1>9, <1>10

(* The other messages end the chunk, or mean nothing to the job.           *)
LEMMA AnswerEnds ==
  ASSUME TypeOK, HandleNucleoEvent, ~ HandleComputeData, ~ IsReply(Head(evq), Restart)
  PROVE  /\ UNCHANGED <<img, toNucleo>> /\ (main' # "crashed")
         /\ \/ UNCHANGED parameters /\ ~ IsReply(Head(evq), Closing)
            \/ ~ parameters.computing /\ UNCHANGED parameters
            \/ /\ HandleDone /\ IsReply(Head(evq), {"MSG_DONE"})
               /\ parameters.computing /\ ~ parameters'.computing
               /\ parameters'.current_chunk = parameters.current_chunk
            \/ /\ parameters.computing /\ ~ parameters'.computing
               /\ parameters'.current_chunk = PreviousChunk(parameters.current_chunk)
<1>1. ParametersOK
  BY DEF TypeOK
<1>2. Head(evq).type = "EV_SERIAL" /\ main = "pop" /\ UNCHANGED toNucleo
  BY NucleoEventEnds
<1>3. ~ HandleStartup
  BY <1>2 DEF HandleStartup, HandlesMsg, msg, IsReply, Restart
<1>4. CASE HandleAnswer
  BY <1>2, <1>4 DEF HandleAnswer, HandlesMsg, msg, IsReply, Closing
<1>5. CASE HandleMsgAbort
  <2>1. CASE parameters.computing
    <3>1. parameters' = [parameters EXCEPT
                           !.computing = FALSE,
                           !.current_chunk = PreviousChunk(parameters.current_chunk)]
      BY <1>5, <2>1 DEF HandleMsgAbort
    <3>2. /\ ~ parameters'.computing
          /\ parameters'.current_chunk = PreviousChunk(parameters.current_chunk)
      BY <1>1, <3>1, Zenon DEF ParametersOK
    <3> QED
      BY <1>2, <1>5, <2>1, <3>2 DEF HandleMsgAbort
  <2>2. CASE ~ parameters.computing
    BY <1>2, <1>5, <2>2 DEF HandleMsgAbort
  <2> QED
    BY <2>1, <2>2
<1>6. CASE HandleDone
  <2>1. CASE parameters.computing
    <3>1. parameters' = [parameters EXCEPT !.computing = FALSE]
      BY <1>6, <2>1 DEF HandleDone
    <3>2. /\ ~ parameters'.computing
          /\ parameters'.current_chunk = parameters.current_chunk
      BY <1>1, <3>1, Zenon DEF ParametersOK
    <3>3. IsReply(Head(evq), {"MSG_DONE"})
      BY <1>2, <1>6 DEF HandleDone, HandlesMsg, msg, IsReply
    <3> QED
      BY <1>2, <1>6, <2>1, <3>2, <3>3 DEF HandleDone
  <2>2. CASE ~ parameters.computing
    BY <1>2, <1>6, <2>2 DEF HandleDone
  <2> QED
    BY <2>1, <2>2
<1> QED
  BY <1>3, <1>4, <1>5, <1>6 DEF HandleNucleoEvent

-----------------------------------------------------------------------------
(* The user of the job remains one.                                        *)

(* Only a key chooses the parameter that + and - change.                   *)
LEMMA ChosenParameter ==
  ASSUME TypeOK, MainLoop
  PROVE  \/ parameters'.parameter_to_be_changed = parameters.parameter_to_be_changed
         \/ /\ Handles("EV_CHANGE_PAR")
            /\ parameters'.parameter_to_be_changed = Head(evq).param
<1>1. ParametersOK
  BY DEF TypeOK
<1>2. ASSUME \/ UNCHANGED parameters
             \/ \E c : parameters' = [parameters EXCEPT !.computation_set = FALSE, !.c = c]
             \/ \E n : parameters' = [parameters EXCEPT !.computation_set = FALSE, !.n = n]
             \/ parameters' = [parameters EXCEPT !.computation_set = FALSE]
             \/ \E d : parameters' = [parameters EXCEPT !.computation_set = TRUE, !.d = d]
             \/ \E k, b : parameters' = [parameters EXCEPT !.current_chunk = k,
                                                          !.computing = b]
             \/ \E k : parameters' = [parameters EXCEPT !.current_chunk = k]
             \/ parameters' = [parameters EXCEPT !.computing = FALSE]
             \/ \E k : parameters' = [parameters EXCEPT !.computing = FALSE,
                                                        !.current_chunk = k]
             \/ \E k : parameters' = [parameters EXCEPT !.computing = FALSE,
                                                        !.computation_set = FALSE,
                                                        !.current_chunk = k]
      PROVE  parameters'.parameter_to_be_changed = parameters.parameter_to_be_changed
  BY <1>1, <1>2, Zenon DEF ParametersOK
<1>3. CASE HandleChangePar
  <2>1. parameters' = [parameters EXCEPT !.parameter_to_be_changed = param]
    BY <1>3 DEF HandleChangePar
  <2>2. parameters'.parameter_to_be_changed = param
    BY <1>1, <2>1, Zenon DEF ParametersOK
  <2> QED
    BY <1>3, <2>2 DEF HandleChangePar, param
<1>4. CASE HandleSetChange
  <2> DEFINE changed == [parameters EXCEPT !.computation_set = FALSE]
  <2>1. \/ \E c \in Cs : parameters' = [changed EXCEPT !.c = c]
        \/ parameters' = [changed EXCEPT !.n = ChangedN]
        \/ parameters' = changed
    BY <1>4, Zenon DEF HandleSetChange
  <2>2. \/ \E c : parameters' = [parameters EXCEPT !.computation_set = FALSE, !.c = c]
        \/ \E n : parameters' = [parameters EXCEPT !.computation_set = FALSE, !.n = n]
        \/ parameters' = [parameters EXCEPT !.computation_set = FALSE]
    BY <2>1
  <2> QED
    BY <1>2, <2>2
<1>5. CASE HandleSetCompute \/ HandleCompute
  <2>1. \/ UNCHANGED parameters
        \/ \E d : parameters' = [parameters EXCEPT !.computation_set = TRUE, !.d = d]
        \/ \E k, b : parameters' = [parameters EXCEPT !.current_chunk = k, !.computing = b]
    BY <1>5, Zenon DEF HandleSetCompute, HandleCompute
  <2> QED
    BY <1>2, <2>1
<1>6. CASE HandleResetChunk \/ HandleClearBuffer \/ HandleRefresh \/ HandleAbort
  <2>1. \/ UNCHANGED parameters
        \/ \E k : parameters' = [parameters EXCEPT !.current_chunk = k]
        \/ \E k : parameters' = [parameters EXCEPT !.computing = FALSE, !.current_chunk = k]
    BY <1>6, Zenon DEF HandleResetChunk, HandleClearBuffer, HandleRefresh, HandleAbort
  <2> QED
    BY <1>2, <2>1
<1>7. CASE HandleNucleoEvent
  <2>1. \/ UNCHANGED parameters
        \/ parameters' = [parameters EXCEPT !.computing = FALSE]
        \/ \E k : parameters' = [parameters EXCEPT !.computing = FALSE, !.current_chunk = k]
        \/ \E k : parameters' = [parameters EXCEPT !.computing = FALSE,
                                                   !.computation_set = FALSE,
                                                   !.current_chunk = k]
    BY <1>7, Zenon DEF HandleNucleoEvent, HandleStartup, HandleAnswer, HandleMsgAbort,
                       HandleComputeData, HandleDone
  <2> QED
    BY <1>2, <2>1
<1>8. CASE HandleGetVersion \/ HandleComputeCPU \/ HandleShow \/ HandleOther \/ PushNextChunk
  BY <1>2, <1>8 DEF HandleGetVersion, HandleComputeCPU, HandleShow, HandleOther, PushNextChunk
<1> QED
  BY <1>3, <1>4, <1>5, <1>6, <1>7, <1>8 DEF MainLoop, HandleKeyEvent

(* What comes into the queue is no other event than those of a set.        *)
LEMMA EventsStay ==
  ASSUME QueueOK, NEW T, \A i \in DOMAIN evq : evq[i] \in T,
         \/ evq # << >> /\ evq' = Tail(evq)
         \/ \E e \in QueueEvents : e \in T /\ evq' = Append(evq, e)
  PROVE  \A i \in DOMAIN evq' : evq'[i] \in T
<1>1. CASE evq # << >> /\ evq' = Tail(evq)
  <2>1. /\ Len(evq) \in Nat /\ DOMAIN evq = 1 .. Len(evq)
        /\ DOMAIN evq' = 1 .. Len(evq) - 1
        /\ \A i \in 1 .. Len(evq) - 1 : evq'[i] = evq[i + 1]
    BY <1>1, TailFacts, LenProperties DEF QueueOK
  <2>2. \A n \in Nat : \A i \in 1 .. n - 1 : i + 1 \in 1 .. n
    BY SMT
  <2> QED
    BY <2>1, <2>2, Zenon
<1>2. ASSUME NEW e \in QueueEvents, e \in T, evq' = Append(evq, e)
      PROVE  \A i \in DOMAIN evq' : evq'[i] \in T
  <2>1. /\ Len(evq) \in Nat /\ DOMAIN evq = 1 .. Len(evq)
        /\ DOMAIN evq' = 1 .. Len(evq) + 1
        /\ \A i \in 1 .. Len(evq) : evq'[i] = evq[i]
        /\ evq'[Len(evq) + 1] = e
    BY <1>2, AppendFacts, LenProperties DEF QueueOK
  <2>2. \A n \in Nat : \A i \in 1 .. n + 1 : i \in 1 .. n \/ i = n + 1
    BY SMT
  <2> QED
    BY <1>2, <2>1, <2>2, Zenon
<1> QED
  BY <1>1, <1>2

(* In particular those of the job.                                         *)
LEMMA JobEventsStay ==
  ASSUME QueueOK, \A i \in DOMAIN evq : JobEvent(evq[i]),
         \/ evq # << >> /\ evq' = Tail(evq)
         \/ \E e \in QueueEvents : JobEvent(e) /\ evq' = Append(evq, e)
  PROVE  \A i \in DOMAIN evq' : JobEvent(evq'[i])
<1> DEFINE T == {e \in QueueEvents : JobEvent(e)}
<1>1. \A i \in DOMAIN evq : evq[i] \in T
  BY ElementOfSeq, LenProperties DEF QueueOK
<1>2. \/ evq # << >> /\ evq' = Tail(evq)
      \/ \E e \in QueueEvents : e \in T /\ evq' = Append(evq, e)
  OBVIOUS
<1>3. \A e \in T : JobEvent(e)
  OBVIOUS
<1> HIDE DEF T
<1> QED
  BY <1>1, <1>2, <1>3, EventsStay

(* One step.                                                               *)
LEMMA OnlyJobsStep ==
  ASSUME TypeOK, OnlyJobs, [Next]_vars
  PROVE  OnlyJobs'
<1>1. QueueOK /\ LinkOK /\ JobUser /\ \A i \in DOMAIN evq : JobEvent(evq[i])
  BY DEF TypeOK, OnlyJobs
<1>2. ASSUME evq # << >>, evq' = Tail(evq) PROVE \A i \in DOMAIN evq' : JobEvent(evq'[i])
  BY <1>1, <1>2, JobEventsStay
<1>3. ASSUME NEW e \in QueueEvents, JobEvent(e), evq' = Append(evq, e)
      PROVE  \A i \in DOMAIN evq' : JobEvent(evq'[i])
  BY <1>1, <1>3, JobEventsStay
<1>4. NextChunk.type = "EV_COMPUTE" /\ \A m : Serial(m).type = "EV_SERIAL"
  BY DEF NextChunk, KeyParam, Serial
<1>5. JobEvent(NextChunk) /\ \A m : JobEvent(Serial(m))
  BY <1>4 DEF JobEvent, ArtEvents
<1>6. CASE MainLoop
  <2>1. \A i \in DOMAIN evq' : JobEvent(evq'[i])
    <3>1. CASE HandleKeyEvent
      BY <1>2, <3>1, KeyEventComputing
    <3>2. CASE HandleNucleoEvent
      BY <1>2, <3>2, NucleoEventEnds
    <3>3. CASE PushNextChunk
      BY <1>3, <1>5, <3>3, NextChunkIsEvent DEF PushNextChunk
    <3> QED
      BY <1>6, <3>1, <3>2, <3>3 DEF MainLoop
  <2>2. parameters'.parameter_to_be_changed \notin {WIDTH, HEIGHT}
    <3>1. CASE Handles("EV_CHANGE_PAR")
      <4>1. Head(evq) = evq[1] /\ 1 \in DOMAIN evq
        BY <1>1, <3>1, TailFacts, LenProperties, SMT DEF QueueOK, Handles
      <4> QED
        BY <1>1, <1>6, <3>1, <4>1, ChosenParameter DEF OnlyJobs, JobEvent, Handles
    <3>2. CASE ~ Handles("EV_CHANGE_PAR")
      BY <1>6, <3>2, ChosenParameter DEF OnlyJobs
    <3> QED
      BY <3>1, <3>2
  <2> QED
    BY <1>1, <2>1, <2>2 DEF OnlyJobs, JobUser
<1>7. CASE PressKey
  <2>1. PICK k \in Keys : evq' = Append(evq, k) /\ UNCHANGED parameters
    BY <1>7 DEF PressKey
  <2>2. k \in QueueEvents /\ JobEvent(k)
    BY <1>1, <2>1, KeyIsEvent DEF JobUser
  <2> QED
    BY <1>1, <1>3, <2>1, <2>2 DEF OnlyJobs, JobUser
<1>8. CASE ReceiveMessage
  <2>1. toPc # << >> /\ evq' = Append(evq, Serial(Head(toPc))) /\ UNCHANGED parameters
    BY <1>8 DEF ReceiveMessage
  <2>2. Head(toPc) \in NucleoMessages
    BY <1>1, <2>1, TailFacts DEF LinkOK
  <2>3. Serial(Head(toPc)) \in QueueEvents /\ JobEvent(Serial(Head(toPc)))
    BY <1>5, <2>2, SerialIsEvent
  <2> QED
    BY <1>1, <1>3, <2>1, <2>3 DEF OnlyJobs, JobUser
<1>9. CASE UNCHANGED <<evq, parameters>>
  BY <1>1, <1>9 DEF OnlyJobs, JobUser
<1> QED
  BY <1>6, <1>7, <1>8, <1>9 DEF Next, PcNext, vars, pcVars

-----------------------------------------------------------------------------
(* The steps of the application, as far as the job is concerned.           *)

(* The one end of a chunk comes after all of its results.                  *)
LEMMA DoneIsWhole ==
  ASSUME TypeOK, TypeOK', OneRequest, NoneForgotten, SameGrid, main # "crashed",
         parameters.computing, HandleDone, IsReply(Head(evq), {"MSG_DONE"})
  PROVE  ChunkIsWhole
<1>1. QueueOK /\ QueueOK' /\ LinkOK /\ LinkOK'
  BY DEF TypeOK
<1>2. evq # << >> /\ evq' = Tail(evq) /\ UNCHANGED toPc
  BY DEF HandleDone, HandlesMsg, Handles
<1>3. 1 \in DOMAIN Coming /\ Coming[1] = Head(evq)
  BY <1>1, <1>2, HeadComes
<1>4. /\ IsReply(Head(evq), Closing) /\ IsReply(Head(evq), Closing \union Result)
      /\ ~ IsReply(Head(evq), {"MSG_ABORT"}) /\ ~ IsReply(Head(evq), Result)
  BY DEF IsReply, Closing, Result
<1>5. Closed
  BY <1>3, <1>4 DEF OneRequest, Resting, Asked, Working, Silent, Without
<1>6. PICK n : InsertedAt(Coming', Coming, Head(evq), n, 1)
  BY <1>1, <1>2, ComingPop
<1>7. Without(Coming', Closing \union Result)
  BY <1>4, <1>5, <1>6, ClosedFirst DEF Closed
<1>8. Without(Coming', {"MSG_ABORT"}) /\ Without(Coming', Result)
  BY <1>7 DEF Without, IsReply, Closing
<1>9. Without(Coming, {"MSG_ABORT"}) /\ Without(Coming, Result)
  BY <1>4, <1>6, <1>8, WithoutInserted
<1>10. ~ Asking
  <2>1. \A i \in DOMAIN toNucleo : toNucleo[i].type # "MSG_COMPUTE"
    BY <1>1, <1>5, NoneMeans DEF Closed, NoRequest
  <2> QED
    BY <2>1 DEF Asking, RequestAt
<1> QED
  BY <1>5, <1>9, <1>10
     DEF NoneForgotten, Aborting, Remembered, Pending, ResultComes, Closed, Without,
         ChunkIsWhole

(* The handlers of messages.                                               *)
LEMMA NucleoEventJob ==
  ASSUME TypeOK, TypeOK', Undisturbable, OneRequest, SameGrid, ResultsCurrent,
         NoneForgotten, FirstFits, HandleNucleoEvent, main # "crashed"
  PROVE  (Keeps \/ Paints \/ Finishes \/ GivesUp) /\ main' # "crashed"
<1>1. CASE HandleComputeData
  <2>1. main' # "crashed"
    BY <1>1, ResultPaints
  <2> QED
    BY <1>1, <2>1, ResultPaints DEF Keeps, Paints
<1>2. CASE ~ HandleComputeData
  <2>1. ~ IsReply(Head(evq), Restart)
    <3>1. QueueOK /\ LinkOK /\ evq # << >>
      BY NucleoEventEnds DEF TypeOK
    <3>2. 1 \in DOMAIN Coming /\ Coming[1] = Head(evq)
      BY <3>1, HeadComes
    <3> QED
      BY <3>2 DEF Undisturbable, Without
  <2>2. /\ UNCHANGED <<img, toNucleo>> /\ (main' # "crashed")
        /\ \/ UNCHANGED parameters
           \/ /\ HandleDone /\ IsReply(Head(evq), {"MSG_DONE"})
              /\ parameters.computing /\ ~ parameters'.computing
              /\ parameters'.current_chunk = parameters.current_chunk
           \/ /\ parameters.computing /\ ~ parameters'.computing
              /\ parameters'.current_chunk = PreviousChunk(parameters.current_chunk)
    BY <1>2, <2>1, AnswerEnds
  <2> QED
    BY <2>2, DoneIsWhole DEF Keeps, Finishes, GivesUp
<1> QED
  BY <1>1, <1>2

(* All steps.                                                              *)
LEMMA PcJob ==
  ASSUME TypeOK, TypeOK', Undisturbable, OneRequest, JobInv, FirstFits, PcNext
  PROVE  /\ Keeps \/ Begins \/ Rewinds \/ Paints \/ Finishes \/ GivesUp
         /\ main' # "crashed"
<1>1. QueueOK /\ LinkOK
  BY DEF TypeOK
<1>2. CASE HandleKeyEvent
  <2>1. evq # << >>
    BY <1>2, KeyEventComputing
  <2>2. Head(evq) = evq[1] /\ 1 \in DOMAIN evq
    BY <1>1, <2>1, TailFacts, LenProperties, SMT DEF QueueOK
  <2>3. JobEvent(Head(evq))
    BY <2>2 DEF JobInv, OnlyJobs
  <2> QED
    BY <1>2, <2>3, KeyEventJob DEF JobInv
<1>3. CASE HandleNucleoEvent
  BY <1>3, NucleoEventJob DEF JobInv, Current
<1>4. CASE PressKey \/ ReceiveMessage \/ PushNextChunk
  BY <1>4 DEF PressKey, ReceiveMessage, PushNextChunk, Keeps, JobInv
<1> QED
  BY <1>2, <1>3, <1>4 DEF PcNext, MainLoop

(* Which events are coming after it.                                       *)
LEMMA PcComing ==
  ASSUME TypeOK, TypeOK', PcNext
  PROVE  /\ \A k \in DOMAIN Coming' : Coming'[k].type = "EV_SERIAL" =>
               \E i \in DOMAIN Coming : Coming'[k] = Coming[i]
         /\ \A i \in DOMAIN Coming :
               \/ \E k \in DOMAIN Coming' : Coming'[k] = Coming[i]
               \/ (HandleKeyEvent \/ HandleNucleoEvent) /\ Coming[i] = Head(evq)
<1>1. QueueOK /\ QueueOK' /\ LinkOK /\ LinkOK'
  BY DEF TypeOK
<1>2. CASE HandleKeyEvent \/ HandleNucleoEvent
  <2>1. evq # << >> /\ evq' = Tail(evq) /\ UNCHANGED toPc
    BY <1>2, KeyEventComputing, NucleoEventEnds
  <2>2. PICK n : InsertedAt(Coming', Coming, Head(evq), n, 1)
    BY <1>1, <2>1, ComingPop
  <2>3. /\ \A i \in DOMAIN Coming' : \E k \in DOMAIN Coming : Coming[k] = Coming'[i]
        /\ \A k \in DOMAIN Coming :
              Coming[k] = Head(evq) \/ \E i \in DOMAIN Coming' : Coming[k] = Coming'[i]
    BY <2>2, InsertedEvents
  <2> QED
    BY <1>2, <2>3, Zenon
<1>3. CASE PressKey \/ PushNextChunk
  <2>1. UNCHANGED toPc
    BY <1>3 DEF PressKey, PushNextChunk
  <2>2. PICK e \in QueueEvents : e.type # "EV_SERIAL" /\ evq' = Append(evq, e)
    <3>1. NextChunk.type # "EV_SERIAL"
      BY DEF NextChunk, KeyParam
    <3>2. CASE PressKey
      BY <3>2, KeyIsEvent DEF PressKey
    <3>3. CASE PushNextChunk
      BY <3>1, <3>3, NextChunkIsEvent DEF PushNextChunk
    <3> QED
      BY <1>3, <3>2, <3>3
  <2>3. PICK n, a : InsertedAt(Coming, Coming', e, n, a)
    BY <1>1, <2>1, <2>2, ComingPush
  <2>4. /\ \A i \in DOMAIN Coming : \E k \in DOMAIN Coming' : Coming'[k] = Coming[i]
        /\ \A k \in DOMAIN Coming' :
              Coming'[k] = e \/ \E i \in DOMAIN Coming : Coming'[k] = Coming[i]
    BY <2>3, InsertedEvents
  <2> QED
    BY <2>2, <2>4, Zenon
<1>4. CASE ReceiveMessage
  <2>1. Coming' = Coming
    BY <1>1, <1>4, ComingReceive
  <2> QED
    BY <2>1
<1> QED
  BY <1>2, <1>3, <1>4 DEF PcNext, MainLoop

(* The image keeps its grid.                                               *)
LEMMA PcKeepsGrid ==
  ASSUME TypeOK, SameGrid,
         Keeps \/ Begins \/ Rewinds \/ Paints \/ Finishes \/ GivesUp
  PROVE  /\ SameGrid'
         /\ ~ Rewinds => \A p \in FirstPixels : img.data[p] # Black => img'.data[p] # Black
<1>1. ImageOK
  BY DEF TypeOK
<1>2. CASE UNCHANGED img
  BY <1>2 DEF SameGrid
<1>3. CASE Rewinds /\ img' = [img EXCEPT !.data = Blank]
  <2>1. /\ img'.data = Blank /\ img'.W = img.W /\ img'.H = img.H
        /\ img'.chunksize = img.chunksize /\ img'.chunksinrow = img.chunksinrow
        /\ img'.nbr_chunks = img.nbr_chunks /\ img'.refresh_require = img.refresh_require
    BY <1>1, <1>3, Zenon DEF ImageOK
  <2> QED
    BY <1>3, <2>1 DEF SameGrid, Blank
<1>4. CASE Paints
  <2>1. PICK q \in FirstPixels : \E colour :
           colour # Black /\ img' = [img EXCEPT !.data[q] = colour]
    BY <1>4 DEF Paints, PaintsPixel
  <2>2. PICK colour : colour # Black /\ img' = [img EXCEPT !.data[q] = colour]
    BY <2>1
  <2>3. /\ img'.W = img.W /\ img'.H = img.H
        /\ img'.chunksize = img.chunksize /\ img'.chunksinrow = img.chunksinrow
        /\ img'.nbr_chunks = img.nbr_chunks /\ img'.refresh_require = img.refresh_require
        /\ img'.data = [img.data EXCEPT ![q] = colour]
    BY <1>1, <2>2, Zenon DEF ImageOK
  <2>4. /\ DOMAIN img'.data = FirstPixels
        /\ \A p \in FirstPixels : img'.data[p] = IF p = q THEN colour ELSE img.data[p]
    BY <2>3, Zenon DEF SameGrid
  <2> QED
    BY <2>2, <2>3, <2>4 DEF SameGrid
<1> QED
  BY <1>2, <1>3, <1>4 DEF Keeps, Begins, Rewinds, Finishes, GivesUp

(* While the board rests, nothing is under way.                            *)
LEMMA RestingCurrent ==
  ASSUME LinkOK', OneRequest', ~ parameters'.computing
  PROVE  Current'
<1>1. Resting'
  BY DEF OneRequest
<1>2. \A i \in DOMAIN toNucleo' : toNucleo'[i].type # "MSG_COMPUTE"
  <2>1. (LinkOK => (NoneAfter(0, "MSG_COMPUTE") =>
                      \A i \in DOMAIN toNucleo : toNucleo[i].type # "MSG_COMPUTE"))'
    BY NoneMeans, PTL
  <2> QED
    BY <1>1, <2>1 DEF Resting, NoRequest
<1> QED
  BY <1>1, <1>2 DEF Current, RequestsCurrent, BoardCurrent, ResultsCurrent, Resting, Silent,
                    Without, IsReply

(* A message of the application that is no request.                        *)
LEMMA SendKeepsRequests ==
  ASSUME LinkOK, \/ UNCHANGED toNucleo
                 \/ \E x : SendPc(x) /\ x.type # "MSG_COMPUTE" /\ x \in PcMessages
  PROVE  \A i \in DOMAIN toNucleo' : toNucleo'[i].type = "MSG_COMPUTE" =>
            i \in DOMAIN toNucleo /\ toNucleo'[i] = toNucleo[i]
<1>1. CASE UNCHANGED toNucleo
  BY <1>1
<1>2. CASE \E x : SendPc(x) /\ x.type # "MSG_COMPUTE" /\ x \in PcMessages
  <2>1. PICK x \in PcMessages : SendPc(x) /\ x.type # "MSG_COMPUTE"
    BY <1>2
  <2> QED
    BY <2>1, SentOrThere
<1> QED
  BY <1>1, <1>2

(* What is under way is for the current chunk.                             *)
LEMMA PcKeepsCurrent ==
  ASSUME TypeOK, TypeOK', Undisturbable, OneRequest, OneRequest', JobInv, FirstFits,
         PcNext, UNCHANGED nucleo
  PROVE  Current'
<1>1. LinkOK /\ LinkOK'
  BY DEF TypeOK
<1>2. CASE ~ parameters'.computing
  BY <1>1, <1>2, RestingCurrent
<1>3. ASSUME parameters'.computing, Keeps \/ Paints PROVE Current'
  <2>1. /\ parameters'.current_chunk = parameters.current_chunk
        /\ UNCHANGED toNucleo \/ \E x : SendPc(x) /\ x.type # "MSG_COMPUTE"
    BY <1>3 DEF Keeps, Paints
  <2>2. \A i \in DOMAIN toNucleo' : toNucleo'[i].type = "MSG_COMPUTE" =>
           i \in DOMAIN toNucleo /\ toNucleo'[i] = toNucleo[i]
    BY <1>1, <2>1, SentIsMessage, SendKeepsRequests
  <2>3. RequestsCurrent' /\ BoardCurrent'
    BY <2>1, <2>2 DEF JobInv, Current, RequestsCurrent, BoardCurrent
  <2>4. ResultsCurrent'
    <3>1. \A k \in DOMAIN Coming' : Coming'[k].type = "EV_SERIAL" =>
             \E i \in DOMAIN Coming : Coming'[k] = Coming[i]
      BY PcComing
    <3> QED
      BY <2>1, <3>1 DEF JobInv, Current, ResultsCurrent, IsReply
  <2> QED
    BY <2>3, <2>4 DEF Current
<1>4. CASE Begins
  <2>1. Resting
    BY <1>4 DEF Begins, OneRequest
  <2>2. \A i \in DOMAIN toNucleo : toNucleo[i].type # "MSG_COMPUTE"
    BY <1>1, <2>1, NoneMeans DEF Resting, NoRequest
  <2>3. PICK x : /\ SendPc(x) /\ x.type = "MSG_COMPUTE"
                 /\ x.cid = parameters'.current_chunk /\ x.size = def_chunksize
    BY <1>4 DEF Begins
  <2>4. x \in PcMessages
    BY <1>1, <2>3, SentIsMessage
  <2>5. \A i \in DOMAIN toNucleo' :
           toNucleo'[i] = x \/ (i \in DOMAIN toNucleo /\ toNucleo'[i] = toNucleo[i])
    BY <1>1, <2>3, <2>4, SentOrThere
  <2>6. RequestsCurrent' /\ BoardCurrent'
    BY <2>1, <2>2, <2>3, <2>5 DEF RequestsCurrent, BoardCurrent, Resting
  <2>7. ResultsCurrent'
    <3>1. \A k \in DOMAIN Coming' : Coming'[k].type = "EV_SERIAL" =>
             \E i \in DOMAIN Coming : Coming'[k] = Coming[i]
      BY PcComing
    <3> QED
      BY <2>1, <3>1 DEF ResultsCurrent, Resting, Silent, Without, IsReply
  <2> QED
    BY <2>6, <2>7 DEF Current
<1> QED
  BY <1>2, <1>3, <1>4, PcJob DEF Rewinds, Finishes, GivesUp

(* No pixel is forgotten.                                                  *)
LEMMA PcForgetsNone ==
  ASSUME TypeOK, TypeOK', Undisturbable, OneRequest, JobInv, FirstFits,
         PcNext, UNCHANGED nucleo
  PROVE  NoneForgotten'
<1>1. LinkOK /\ LinkOK'
  BY DEF TypeOK
<1>2. CASE ~ parameters'.computing
  BY <1>2 DEF NoneForgotten
<1>3. CASE Begins
  <2>1. NoRequest
    BY <1>3 DEF Begins, OneRequest, Resting
  <2>2. PICK x : SendPc(x) /\ x.type = "MSG_COMPUTE"
    BY <1>3 DEF Begins
  <2>3. x \in PcMessages
    BY <1>1, <2>2, SentIsMessage
  <2>4. Asking'
    BY <1>1, <2>1, <2>2, <2>3, SendAsks
  <2> QED
    BY <2>4 DEF NoneForgotten
<1>4. ASSUME Keeps \/ Paints, parameters'.computing PROVE NoneForgotten'
  <2>1. /\ parameters.computing /\ parameters'.current_chunk = parameters.current_chunk
        /\ \/ UNCHANGED toNucleo
           \/ \E x : SendPc(x) /\ x.type # "MSG_COMPUTE" /\ x.type # "MSG_SET_COMPUTE"
    BY <1>4, Zenon DEF Keeps, Paints
  <2>2. CASE Asking
    <3>1. CASE UNCHANGED toNucleo
      BY <2>2, <3>1, SameRequests DEF NoneForgotten
    <3>2. CASE \E x : SendPc(x) /\ x.type # "MSG_COMPUTE" /\ x.type # "MSG_SET_COMPUTE"
      <4>1. PICK x : SendPc(x) /\ x.type # "MSG_COMPUTE" /\ x.type # "MSG_SET_COMPUTE"
        BY <3>2
      <4>2. x \in PcMessages
        BY <1>1, <4>1, SentIsMessage
      <4>3. Asking'
        BY <1>1, <2>2, <4>1, <4>2, SendAsks
      <4> QED
        BY <4>3 DEF NoneForgotten
    <3> QED
      BY <2>1, <3>1, <3>2
  <2>3. \A i \in DOMAIN Coming :
           \/ \E k \in DOMAIN Coming' : Coming'[k] = Coming[i]
           \/ (HandleKeyEvent \/ HandleNucleoEvent) /\ Coming[i] = Head(evq)
    BY PcComing
  <2>4. CASE Aborting
    <3>1. PICK i \in DOMAIN Coming : IsReply(Coming[i], {"MSG_ABORT"})
      BY <2>4 DEF Aborting, Without
    <3>2. ~ ((HandleKeyEvent \/ HandleNucleoEvent) /\ Coming[i] = Head(evq))
      <4>1. CASE HandleKeyEvent
        BY <3>1, <4>1, KeyEventComputing DEF IsReply
      <4>2. CASE HandleNucleoEvent /\ Coming[i] = Head(evq)
        <5>1. IsReply(Head(evq), Closing)
          BY <3>1, <4>2 DEF IsReply, Closing
        <5>2. ~ IsReply(Head(evq), Restart) /\ ~ IsReply(Head(evq), Result)
              /\ IsReply(Head(evq), Ours)
          BY <3>1, <4>2 DEF IsReply, Restart, Result, Closing, Ours
        <5> QED
          BY <1>4, <4>2, <5>1, <5>2, NucleoEventEnds
      <4> QED
        BY <4>1, <4>2
    <3>3. Aborting'
      BY <2>3, <3>1, <3>2 DEF Aborting, Without
    <3> QED
      BY <3>3 DEF NoneForgotten
  <2>5. CASE ~ Asking /\ ~ Aborting
    <3>1. ASSUME NEW p \in FirstPixels, FirstChunkOf(p) = parameters.current_chunk
          PROVE  Remembered(p)'
      <4>1. Remembered(p)
        BY <2>1, <2>5, <3>1 DEF JobInv, NoneForgotten
      <4>2. CASE img.data[p] # Black
        <5>1. img'.data[p] # Black
          BY <1>4, <4>2, PcKeepsGrid DEF JobInv, Rewinds, Keeps, Paints, PaintsPixel
        <5> QED
          BY <5>1 DEF Remembered
      <4>3. CASE Pending(p)
        BY <4>3 DEF Remembered, Pending, Column, Line
      <4>4. CASE ResultComes(p)
        <5>1. PICK i \in DOMAIN Coming :
                 /\ IsReply(Coming[i], Result)
                 /\ Coming[i].msg.i_re = Column(p) /\ Coming[i].msg.i_im = Line(p)
          BY <4>4 DEF ResultComes
        <5>2. CASE \E k \in DOMAIN Coming' : Coming'[k] = Coming[i]
          BY <5>1, <5>2 DEF Remembered, ResultComes, Column, Line
        <5>3. CASE (HandleKeyEvent \/ HandleNucleoEvent) /\ Coming[i] = Head(evq)
          <6>1. ~ HandleKeyEvent
            BY <5>1, <5>3, KeyEventComputing DEF IsReply
          <6>2. HandleComputeData
            BY <5>1, <5>3, <6>1
               DEF HandleNucleoEvent, HandleStartup, HandleAnswer, HandleMsgAbort, HandleDone,
                   HandlesMsg, msg, IsReply, Result
          <6>3. img'.data[p] # Black
            BY <2>1, <3>1, <5>1, <5>3, <6>2, ResultPaints DEF JobInv, Current
          <6> QED
            BY <6>3 DEF Remembered
        <5> QED
          BY <2>3, <5>2, <5>3
      <4> QED
        BY <4>1, <4>2, <4>3, <4>4 DEF Remembered
    <3>2. parameters'.current_chunk = parameters.current_chunk
      BY <2>1
    <3>3. \A p \in FirstPixels :
             FirstChunkOf(p) = parameters'.current_chunk => Remembered(p)'
      BY <3>1, <3>2
    <3> QED
      BY <3>3 DEF NoneForgotten, FirstPixels, Pixels, FirstChunkOf, FirstImage, initImage
  <2> QED
    BY <2>2, <2>4, <2>5
<1> QED
  BY <1>2, <1>3, <1>4, PcJob DEF Rewinds, Finishes, GivesUp

-----------------------------------------------------------------------------
(* The steps of the board                                                  *)

(* The next line of a column, or the first of the next column.             *)
LEMMA NextLine ==
  ASSUME NEW s \in Nat \ {0}, NEW y \in 0 .. s - 1
  PROVE  /\ (y + 1) % s = 0 <=> y + 1 = s
         /\ y + 1 # s => y + 1 \in 0 .. s - 1
<1>1. CASE y + 1 = s
  BY <1>1, SMT
<1>2. CASE y + 1 # s
  <2>1. y + 1 \in 0 .. s - 1 /\ 0 * s + (y + 1) = y + 1
    BY <1>2, SMT
  <2>2. (0 * s + (y + 1)) % s = y + 1
    <3>1. \A r \in 0 .. s - 1 : (0 * s + r) % s = r
      BY DivisionIsUnique
    <3> QED
      BY <2>1, <3>1
  <2> QED
    BY <1>2, <2>1, <2>2, SMT
<1> QED
  BY <1>1, <1>2

(* After a pixel the board comes to the next one, and none lies between.   *)
LEMMA PixelAfterPixel ==
  ASSUME BoardOK, BoardCurrent, nucleo.computing, ~ LastPixelSent, nucleo' = NextPixel
  PROVE  /\ nucleo.cx \in Offsets /\ nucleo.cy \in Offsets
         /\ nucleo'.computing /\ nucleo'.cid = nucleo.cid
         /\ nucleo'.chunk_size = def_chunksize
         /\ nucleo'.cx \in 0 .. def_chunksize /\ nucleo'.cy \in Offsets
         /\ nucleo'.cx = def_chunksize => nucleo'.cy = 0
         /\ \A i, j \in Offsets :
               \/ nucleo.cx < i
               \/ nucleo.cx = i /\ nucleo.cy <= j
               => \/ nucleo'.cx < i
                  \/ nucleo'.cx = i /\ nucleo'.cy <= j
                  \/ nucleo.cx = i /\ nucleo.cy = j
<1> DEFINE s == def_chunksize
           x == nucleo.cx
           y == nucleo.cy
<1>1. /\ s \in Nat \ {0} /\ nucleo.chunk_size = s
      /\ x \in 0 .. s /\ y \in 0 .. s - 1 /\ (x = s => y = 0)
      /\ ~ (x = s /\ y = 0)
  BY FirstNumbers DEF BoardCurrent, Offsets, LastPixelSent
<1>2. nucleo' = IF (y + 1) % s = 0 THEN [nucleo EXCEPT !.cx = x + 1, !.cy = 0]
                ELSE [nucleo EXCEPT !.cy = y + 1]
  BY <1>1 DEF NextPixel
<1>3. /\ nucleo'.computing /\ nucleo'.cid = nucleo.cid /\ nucleo'.chunk_size = s
      /\ (y + 1) % s = 0 => nucleo'.cx = x + 1 /\ nucleo'.cy = 0
      /\ (y + 1) % s # 0 => nucleo'.cx = x /\ nucleo'.cy = y + 1
  <2> DEFINE b == y + 1
             a == x + 1
  <2>1. CASE (y + 1) % s = 0
    <3>1. nucleo' = [nucleo EXCEPT !.cx = a, !.cy = 0]
      BY <1>2, <2>1
    <3> HIDE DEF a
    <3>2. /\ nucleo'.computing = nucleo.computing /\ nucleo'.cid = nucleo.cid
          /\ nucleo'.chunk_size = nucleo.chunk_size
          /\ nucleo'.cx = a /\ nucleo'.cy = 0
      BY <3>1, Zenon DEF BoardOK
    <3> QED
      BY <1>1, <2>1, <3>2 DEF a
  <2>2. CASE (y + 1) % s # 0
    <3>1. nucleo' = [nucleo EXCEPT !.cy = b]
      BY <1>2, <2>2
    <3> HIDE DEF b
    <3>2. /\ nucleo'.computing = nucleo.computing /\ nucleo'.cid = nucleo.cid
          /\ nucleo'.chunk_size = nucleo.chunk_size
          /\ nucleo'.cx = nucleo.cx /\ nucleo'.cy = b
      BY <3>1, Zenon DEF BoardOK
    <3> QED
      BY <1>1, <2>2, <3>2 DEF b
  <2> QED
    BY <2>1, <2>2
<1>4. ((y + 1) % s = 0 <=> y + 1 = s) /\ (y + 1 # s => y + 1 \in 0 .. s - 1)
  BY <1>1, NextLine
<1> DEFINE u == nucleo'.cx
           v == nucleo'.cy
<1>5. \/ y + 1 = s /\ u = x + 1 /\ v = 0
      \/ y + 1 # s /\ u = x /\ v = y + 1 /\ v \in 0 .. s - 1
  BY <1>3, <1>4
<1> HIDE DEF s, x, y, u, v
<1>6. /\ x \in 0 .. s - 1 /\ y \in 0 .. s - 1
      /\ u \in 0 .. s /\ v \in 0 .. s - 1 /\ (u = s => v = 0)
  BY <1>1, <1>5, SMT
<1>7. \A i, j \in 0 .. s - 1 :
         (x < i \/ (x = i /\ y <= j)) => (u < i \/ (u = i /\ v <= j) \/ (x = i /\ y = j))
  BY <1>1, <1>5, <1>6, SMT
<1> QED
  BY <1>3, <1>6, <1>7, Zenon DEF s, x, y, u, v, Offsets

(* The board keeps to the chunk, and sends every pixel before the end.     *)
LEMMA NucleoKeepsJob ==
  ASSUME TypeOK, TypeOK', Undisturbable, OneRequest, JobInv, FirstFits,
         NucleoNext, UNCHANGED pcVars
  PROVE  Current' /\ NoneForgotten'
<1>1. /\ QueueOK /\ QueueOK' /\ LinkOK /\ LinkOK' /\ BoardOK
      /\ UNCHANGED <<parameters, img, evq>>
  BY DEF TypeOK, pcVars
<1>2. NoReset /\ NoneAfter(0, "MSG_ABORT")
  BY DEF Undisturbable
<1>3. RequestsCurrent /\ BoardCurrent /\ ResultsCurrent /\ NoneForgotten
  BY DEF JobInv, Current
<1> DEFINE Growing == \A i \in DOMAIN Coming : \E k \in DOMAIN Coming' : Coming'[k] = Coming[i]
<1>4. ASSUME NEW x \in NucleoMessages, Send(x)
      PROVE  /\ Growing
             /\ \E k \in DOMAIN Coming' : Coming'[k] = Serial(x)
             /\ \/ x.type # "MSG_COMPUTE_DATA"
                \/ /\ x.cid = parameters.current_chunk
                   /\ x.i_re \in Offsets /\ x.i_im \in Offsets
                => ResultsCurrent'
  <2>1. PICK n : InsertedAt(Coming, Coming', Serial(x), n, n + 1)
    BY <1>1, <1>4, ComingSend
  <2>2. /\ n + 1 \in DOMAIN Coming' /\ Coming'[n + 1] = Serial(x)
        /\ Growing
        /\ \A k \in DOMAIN Coming' :
              Coming'[k] = Serial(x) \/ \E i \in DOMAIN Coming : Coming'[k] = Coming[i]
    BY <2>1, InsertedEvents
  <2>3. Serial(x).msg = x
    BY DEF Serial
  <2> QED
    BY <1>1, <1>3, <2>2, <2>3 DEF ResultsCurrent, IsReply, Result
<1>5. ASSUME UNCHANGED toPc PROVE Growing /\ ResultsCurrent'
  <2>1. Coming' = Coming
    BY <1>1, <1>5 DEF Coming, Serial
  <2> QED
    BY <1>1, <1>3, <2>1 DEF ResultsCurrent
<1> HIDE DEF Growing
<1>6. ASSUME Growing, Asking => Asking',
             nucleo'.computing = nucleo.computing,
             nucleo'.cx = nucleo.cx, nucleo'.cy = nucleo.cy
      PROVE  NoneForgotten'
  <2>1. Aborting => Aborting'
    BY <1>6 DEF Aborting, Without, Growing
  <2>2. \A p \in FirstPixels : Remembered(p) => Remembered(p)'
    BY <1>1, <1>6 DEF Remembered, Pending, ResultComes, Column, Line, Growing
  <2> QED
    BY <1>1, <1>3, <1>6, <2>1, <2>2
       DEF NoneForgotten, FirstPixels, Pixels, FirstChunkOf, FirstImage, initImage
<1>7. ASSUME UNCHANGED toNucleo PROVE RequestsCurrent' /\ Asking' = Asking
  BY <1>1, <1>3, <1>7, SameRequests DEF RequestsCurrent
<1>8. ASSUME NEW type, Received(type)
      PROVE  RequestsCurrent' /\ (type # "MSG_COMPUTE" /\ Asking => Asking')
  <2>1. \A i \in DOMAIN toNucleo' :
           i + 1 \in DOMAIN toNucleo /\ toNucleo'[i] = toNucleo[i + 1]
    BY <1>1, <1>8, ReceiveShifts
  <2>2. type # "MSG_COMPUTE" /\ Asking => Asking'
    BY <1>1, <1>8, ReceiveAsks
  <2> QED
    BY <1>1, <1>3, <2>1, <2>2 DEF RequestsCurrent
<1>9. ASSUME nucleo'.computing = nucleo.computing, nucleo'.cid = nucleo.cid,
             nucleo'.chunk_size = nucleo.chunk_size,
             nucleo'.cx = nucleo.cx, nucleo'.cy = nucleo.cy
      PROVE  BoardCurrent'
  BY <1>1, <1>3, <1>9 DEF BoardCurrent
<1>10. CASE Arrive \/ Button
  <2>1. UNCHANGED <<nucleo, toNucleo, toPc>>
    BY <1>10 DEF Arrive, Button
  <2> QED
    BY <1>5, <1>6, <1>7, <1>9, <2>1 DEF Current
<1>11. CASE HandleAbortRequest
  <2>1. UNCHANGED toNucleo
    BY <1>11 DEF HandleAbortRequest
  <2>2. CASE abort_request /\ nucleo.computing
    <3>1. nucleo' = [nucleo EXCEPT !.computing = FALSE] /\ Send(Plain("MSG_ABORT"))
      BY <1>11, <2>2 DEF HandleAbortRequest
    <3>2. ~ nucleo'.computing
      BY <1>1, <3>1, Zenon DEF BoardOK
    <3>3. Plain("MSG_ABORT") \in NucleoMessages /\ Plain("MSG_ABORT").type = "MSG_ABORT"
      BY PlainMessages DEF Plain
    <3>4. /\ \E k \in DOMAIN Coming' : Coming'[k] = Serial(Plain("MSG_ABORT"))
          /\ ResultsCurrent'
      BY <1>4, <3>1, <3>3
    <3>5. IsReply(Serial(Plain("MSG_ABORT")), {"MSG_ABORT"})
      BY DEF IsReply, Serial, Plain
    <3>6. Aborting'
      BY <3>4, <3>5 DEF Aborting, Without
    <3> QED
      BY <1>7, <2>1, <3>2, <3>4, <3>6 DEF Current, BoardCurrent, NoneForgotten
  <2>3. CASE ~ (abort_request /\ nucleo.computing)
    <3>1. UNCHANGED <<nucleo, toPc>>
      BY <1>11, <2>3 DEF HandleAbortRequest
    <3> QED
      BY <1>5, <1>6, <1>7, <1>9, <2>1, <3>1 DEF Current
  <2> QED
    BY <2>2, <2>3
<1>12. CASE ReceiveGetVersion
  <2>1. Received("MSG_GET_VERSION") /\ UNCHANGED nucleo /\ Send(Plain("MSG_VERSION"))
    BY <1>12 DEF ReceiveGetVersion
  <2>2. Growing /\ ResultsCurrent'
    BY <1>4, <2>1, PlainMessages DEF Plain
  <2> QED
    BY <1>6, <1>8, <1>9, <2>1, <2>2 DEF Current
<1>13. CASE ReceiveAbort
  BY <1>1, <1>2, <1>13, ReceiveAsks DEF ReceiveAbort
<1>14. CASE ReceiveSetCompute
  <2> DEFINE m == Head(toNucleo)
  <2>1. /\ Received("MSG_SET_COMPUTE") /\ Send(Plain("MSG_OK"))
        /\ nucleo' = [nucleo EXCEPT !.c = m.c, !.d = m.d, !.n = m.n]
    BY <1>14 DEF ReceiveSetCompute
  <2>2. /\ nucleo'.computing = nucleo.computing /\ nucleo'.cid = nucleo.cid
        /\ nucleo'.chunk_size = nucleo.chunk_size
        /\ nucleo'.cx = nucleo.cx /\ nucleo'.cy = nucleo.cy
    <3> HIDE DEF m
    <3> QED
      BY <1>1, <2>1, Zenon DEF BoardOK
  <2>3. Growing /\ ResultsCurrent'
    BY <1>4, <2>1, PlainMessages DEF Plain
  <2> QED
    BY <1>6, <1>8, <1>9, <2>1, <2>2, <2>3 DEF Current
<1>15. CASE ReceiveCompute
  <2> DEFINE m == Head(toNucleo)
  <2>1. /\ Received("MSG_COMPUTE") /\ Send(Plain("MSG_OK"))
        /\ nucleo' = IF nucleo.computing
                       THEN nucleo
                       ELSE [nucleo EXCEPT !.cid = m.cid, !.re = m.re, !.im = m.im,
                                           !.cx = 0, !.cy = 0,
                                           !.chunk_size = m.size,
                                           !.computing = TRUE]
    BY <1>15 DEF ReceiveCompute
  <2>2. /\ m = toNucleo[1] /\ 1 \in DOMAIN toNucleo /\ toNucleo[1].type = "MSG_COMPUTE"
    BY <1>1, <2>1, ReceiveShifts
  <2>3. m.cid = parameters.current_chunk /\ m.size = def_chunksize
    BY <1>3, <2>2 DEF RequestsCurrent
  <2>4. ~ nucleo.computing
    <3>1. ~ NoRequest
      BY <1>1, <2>2, NoneMeans DEF NoRequest
    <3> QED
      BY <3>1 DEF OneRequest, Resting, Asked, Working, Closed
  <2> HIDE DEF m
  <2>5. /\ nucleo'.computing /\ nucleo'.cid = m.cid /\ nucleo'.chunk_size = m.size
        /\ nucleo'.cx = 0 /\ nucleo'.cy = 0
    BY <1>1, <2>1, <2>4, Zenon DEF BoardOK
  <2>6. 0 \in 0 .. def_chunksize /\ 0 \in Offsets
    BY FirstNumbers, SMT DEF Offsets
  <2>7. BoardCurrent'
    BY <1>1, <2>3, <2>5, <2>6 DEF BoardCurrent
  <2>8. \A p \in FirstPixels : Remembered(p)'
    <3>1. ASSUME NEW p \in FirstPixels PROVE Remembered(p)'
      <4>1. Column(p) \in Offsets /\ Line(p) \in Offsets
        BY FirstGrid
      <4>2. \A i, j \in Offsets : 0 < i \/ (0 = i /\ 0 <= j)
        BY FirstNumbers, SMT DEF Offsets
      <4>3. 0 < Column(p) \/ (0 = Column(p) /\ 0 <= Line(p))
        BY <4>1, <4>2
      <4> QED
        BY <2>5, <4>3 DEF Remembered, Pending, Column, Line
    <3> QED
      BY <3>1
  <2>9. NoneForgotten'
    BY <2>8 DEF NoneForgotten, FirstPixels, Pixels
  <2>10. ResultsCurrent'
    BY <1>4, <2>1, PlainMessages DEF Plain
  <2> QED
    BY <1>8, <2>1, <2>7, <2>9, <2>10 DEF Current
<1>16. CASE SendPixel
  <2>1. /\ UNCHANGED toNucleo /\ nucleo.computing /\ ~ LastPixelSent
        /\ nucleo' = NextPixel
    BY <1>16 DEF SendPixel, Computing
  <2>2. /\ nucleo.cx \in Offsets /\ nucleo.cy \in Offsets
        /\ nucleo'.computing /\ nucleo'.cid = nucleo.cid
        /\ nucleo'.chunk_size = def_chunksize
        /\ nucleo'.cx \in 0 .. def_chunksize /\ nucleo'.cy \in Offsets
        /\ nucleo'.cx = def_chunksize => nucleo'.cy = 0
        /\ \A i, j \in Offsets :
              \/ nucleo.cx < i
              \/ nucleo.cx = i /\ nucleo.cy <= j
              => \/ nucleo'.cx < i
                 \/ nucleo'.cx = i /\ nucleo'.cy <= j
                 \/ nucleo.cx = i /\ nucleo.cy = j
    BY <1>1, <1>3, <2>1, PixelAfterPixel
  <2> DEFINE iter == Iterations(nucleo.c, nucleo.d, nucleo.n,
                                nucleo.re + nucleo.cx, nucleo.im + nucleo.cy)
             m == ComputeData(nucleo.cid, nucleo.cx, nucleo.cy, iter)
  <2>3. /\ nucleo.cid \in Nat /\ nucleo.cx \in Nat /\ nucleo.cy \in Nat
        /\ nucleo.c \in Cs \union {Zero} /\ nucleo.d \in Int \X Int
        /\ nucleo.n \in Nat /\ nucleo.re + nucleo.cx \in Nat /\ nucleo.im + nucleo.cy \in Nat
    BY <1>1, SMT DEF BoardOK
  <2>4. m \in NucleoMessages
    BY <2>3, IterationsType, ComputeDataMessage
  <2>5. /\ m.type = "MSG_COMPUTE_DATA" /\ m.cid = nucleo.cid
        /\ m.i_re = nucleo.cx /\ m.i_im = nucleo.cy
    BY DEF ComputeData
  <2>6. Send(m)
    BY <1>16 DEF SendPixel
  <2> HIDE DEF m
  <2>7. nucleo.cid = parameters.current_chunk
    BY <1>3, <2>1 DEF BoardCurrent
  <2>8. /\ Growing /\ ResultsCurrent'
        /\ \E k \in DOMAIN Coming' : Coming'[k] = Serial(m)
    BY <1>4, <2>2, <2>4, <2>5, <2>6, <2>7
  <2>9. BoardCurrent'
    BY <1>1, <2>2, <2>7 DEF BoardCurrent
  <2>10. Aborting => Aborting'
    BY <2>8 DEF Aborting, Without, Growing
  <2>11. ASSUME NEW p \in FirstPixels, Remembered(p) PROVE Remembered(p)'
    <3>1. CASE img.data[p] # Black \/ ResultComes(p)
      BY <1>1, <2>8, <3>1 DEF Remembered, ResultComes, Column, Line, Growing
    <3>2. CASE Pending(p)
      <4>1. Column(p) \in Offsets /\ Line(p) \in Offsets
        BY FirstGrid
      <4>2. \/ nucleo'.cx < Column(p)
            \/ nucleo'.cx = Column(p) /\ nucleo'.cy <= Line(p)
            \/ nucleo.cx = Column(p) /\ nucleo.cy = Line(p)
        BY <2>2, <3>2, <4>1 DEF Pending
      <4>3. CASE nucleo.cx = Column(p) /\ nucleo.cy = Line(p)
        <5>1. IsReply(Serial(m), Result) /\ Serial(m).msg = m
          BY <2>5 DEF IsReply, Serial, Result
        <5>2. \E k \in DOMAIN Coming' :
                 /\ IsReply(Coming'[k], Result)
                 /\ Coming'[k].msg.i_re = Column(p) /\ Coming'[k].msg.i_im = Line(p)
          BY <2>5, <2>8, <4>3, <5>1
        <5> QED
          BY <5>2 DEF Remembered, ResultComes, Column, Line
      <4>4. CASE \/ nucleo'.cx < Column(p)
                 \/ nucleo'.cx = Column(p) /\ nucleo'.cy <= Line(p)
        BY <2>2, <4>4 DEF Remembered, Pending, Column, Line
      <4> QED
        BY <4>2, <4>3, <4>4
    <3> QED
      BY <2>11, <3>1, <3>2 DEF Remembered
  <2>12. NoneForgotten'
    BY <1>1, <1>3, <1>7, <2>1, <2>10, <2>11
       DEF NoneForgotten, FirstPixels, Pixels, FirstChunkOf, FirstImage, initImage
  <2> QED
    BY <1>7, <2>1, <2>8, <2>9, <2>12 DEF Current
<1>17. CASE SendDone
  <2>1. /\ Send(Plain("MSG_DONE")) /\ UNCHANGED toNucleo /\ nucleo.computing
        /\ nucleo' = [nucleo EXCEPT !.computing = FALSE]
        /\ LastPixelSent
    BY <1>17 DEF SendDone, Computing
  <2>2. ~ nucleo'.computing
    BY <1>1, <2>1, Zenon DEF BoardOK
  <2>3. Growing /\ ResultsCurrent'
    BY <1>4, <2>1, PlainMessages DEF Plain
  <2>4. Aborting => Aborting'
    BY <2>3 DEF Aborting, Without, Growing
  <2>5. ASSUME NEW p \in FirstPixels, Remembered(p) PROVE Remembered(p)'
    <3>1. Column(p) \in Offsets /\ nucleo.cx = def_chunksize
      BY <1>3, <2>1, FirstGrid DEF BoardCurrent, LastPixelSent
    <3>2. \A i \in Offsets : ~ (def_chunksize < i) /\ def_chunksize # i
      BY FirstNumbers, SMT DEF Offsets
    <3>3. ~ Pending(p)
      BY <3>1, <3>2 DEF Pending
    <3> QED
      BY <1>1, <2>3, <2>5, <3>3 DEF Remembered, ResultComes, Column, Line, Growing
  <2>6. NoneForgotten'
    BY <1>1, <1>3, <1>7, <2>1, <2>4, <2>5
       DEF NoneForgotten, FirstPixels, Pixels, FirstChunkOf, FirstImage, initImage
  <2> QED
    BY <1>7, <2>1, <2>2, <2>3, <2>6 DEF Current, BoardCurrent
<1>18. CASE Reset
  <2>1. resets < MaxResets /\ resets \in 0 .. MaxResets
    BY <1>1, <1>18 DEF Reset, BoardOK
  <2> QED
    BY <1>2, <2>1, SMT DEF NoReset
<1> QED
  BY <1>10, <1>11, <1>12, <1>13, <1>14, <1>15, <1>16, <1>17, <1>18 DEF NucleoNext, Loop

-----------------------------------------------------------------------------
(* The chunk job                                                           *)

(* Nothing has begun at the start.                                         *)
LEMMA JobInit ==
  Init /\ JobUser /\ FirstFits => JobInv /\ EarlierWhole /\ Job!Init
<1> SUFFICES ASSUME Init, JobUser, FirstFits PROVE JobInv /\ EarlierWhole /\ Job!Init
  OBVIOUS
<1>1. /\ evq = << >> /\ toPc = << >> /\ toNucleo = << >> /\ ~ nucleo.computing
      /\ ~ parameters.computing /\ parameters.current_chunk = NoChunk
      /\ parameters.parameter_to_be_changed = NO_PAR
      /\ img = initImage(def_W, def_H, def_chunksize) /\ main = "pop"
  BY DEF Init, PcInit, NucleoInit, Idle
<1>2. DOMAIN evq = {} /\ DOMAIN toNucleo = {} /\ DOMAIN Coming = {}
  <2>1. Len(evq) = 0 /\ Len(toPc) = 0 /\ 1 .. 0 + 0 = {}
    BY <1>1, SMT
  <2> QED
    BY <1>1, <2>1, SMT DEF Coming
<1>3. OnlyJobs
  BY <1>1, <1>2 DEF OnlyJobs, NO_PAR, WIDTH, HEIGHT
<1>4. SameGrid
  BY <1>1 DEF initImage, SameGrid, FirstRow, FirstNumber, FirstPixels
<1>5. Current /\ NoneForgotten
  BY <1>1, <1>2 DEF Current, RequestsCurrent, BoardCurrent, ResultsCurrent, NoneForgotten
<1>6. EarlierWhole /\ Job!Init
  BY <1>1 DEF EarlierWhole, Job!Init, Job!Blank, initImage, NoChunk
<1> QED
  BY <1>1, <1>3, <1>4, <1>5, <1>6 DEF JobInv

(* One step keeps to the job.                                              *)
LEMMA JobStep ==
  TypeOK /\ TypeOK' /\ Undisturbable /\ OneRequest /\ OneRequest' /\ JobInv /\ [Next]_vars
    => JobInv'
<1> SUFFICES ASSUME TypeOK, TypeOK', Undisturbable, OneRequest, OneRequest', JobInv,
                    [Next]_vars
             PROVE  JobInv'
  OBVIOUS
<1>1. FirstFits' /\ OnlyJobs'
  BY OnlyJobsStep DEF JobInv, FirstFits, Ceiling
<1>2. CASE PcNext /\ UNCHANGED nucleoVars
  <2>1. UNCHANGED nucleo /\ FirstFits
    BY <1>2 DEF nucleoVars, JobInv
  <2>2. /\ Keeps \/ Begins \/ Rewinds \/ Paints \/ Finishes \/ GivesUp
        /\ main' # "crashed"
    BY <1>2, <2>1, PcJob
  <2>3. SameGrid'
    BY <2>2, PcKeepsGrid DEF JobInv
  <2> QED
    BY <1>1, <1>2, <2>1, <2>2, <2>3, PcKeepsCurrent, PcForgetsNone DEF JobInv
<1>3. CASE NucleoNext /\ UNCHANGED pcVars
  <2>1. UNCHANGED <<img, main>> /\ FirstFits
    BY <1>3 DEF pcVars, JobInv
  <2>2. SameGrid' /\ main' # "crashed"
    BY <2>1 DEF JobInv, SameGrid, FirstRow, FirstNumber, FirstPixels, Pixels, chunksinrow,
                nbr_chunks, Ceiling
  <2> QED
    BY <1>1, <1>3, <2>1, <2>2, NucleoKeepsJob DEF JobInv
<1>4. CASE UNCHANGED vars
  <2>1. UNCHANGED <<evq, toPc, toNucleo, nucleo, parameters, img, main>>
    BY <1>4 DEF vars, pcVars, nucleoVars
  <2>2. Coming' = Coming
    BY <2>1 DEF Coming, Serial
  <2>3. SameGrid' /\ main' # "crashed"
    BY <2>1 DEF JobInv, SameGrid, FirstRow, FirstNumber, FirstPixels, Pixels, chunksinrow,
                nbr_chunks, Ceiling
  <2>4. Current'
    BY <2>1, <2>2 DEF JobInv, Current, RequestsCurrent, BoardCurrent, ResultsCurrent
  <2>5. NoneForgotten'
    BY <2>1, <2>2, SameRequests
       DEF JobInv, NoneForgotten, Aborting, Without, Remembered, Pending, ResultComes,
           Column, Line, FirstPixels, Pixels, FirstChunkOf, FirstImage, initImage
  <2> QED
    BY <1>1, <2>3, <2>4, <2>5 DEF JobInv
<1> QED
  BY <1>2, <1>3, <1>4 DEF Next

(* A painted pixel of the image is painted from its own result.            *)
LEMMA PaintedWell ==
  (SameGrid /\ PaintedInPlace =>
     \A p \in FirstPixels : img.data[p] # Black => Job!Painted(p))
  BY DEF SameGrid, PaintedInPlace, Job!Painted, FirstInPlace, FirstPixels

(* Every step of the system is a step of the job, or none.                 *)
LEMMA JobRefined ==
  TypeOK /\ TypeOK' /\ Undisturbable /\ OneRequest /\ JobInv /\ JobInv'
    /\ PaintedInPlace /\ PaintedInPlace' /\ [Next]_vars
    => [Job!Next]_(Job!vars)
<1> SUFFICES ASSUME TypeOK, TypeOK', Undisturbable, OneRequest, JobInv, JobInv',
                    PaintedInPlace, PaintedInPlace', [Next]_vars
             PROVE  [Job!Next]_(Job!vars)
  OBVIOUS
<1>1. CASE UNCHANGED <<parameters, img>>
  BY <1>1 DEF Job!vars
<1>2. CASE PcNext
  <2>1. Keeps \/ Begins \/ Rewinds \/ Paints \/ Finishes \/ GivesUp
    BY <1>2, PcJob DEF JobInv
  <2>2. CASE Keeps
    BY <2>2 DEF Keeps, Job!vars
  <2>3. CASE Begins
    BY <2>3 DEF Begins, Job!Next, Job!Start
  <2>4. CASE Rewinds
    <3>1. img'.data \in {img.data, Blank}
      BY <2>4 DEF Rewinds, TypeOK, ImageOK
    <3>2. Blank = Job!Blank
      BY DEF Blank, Job!Blank, FirstPixels
    <3>3. parameters.computing \in BOOLEAN /\ parameters'.computing \in BOOLEAN
      BY DEF TypeOK, ParametersOK
    <3>4. ~ parameters.computing /\ parameters'.computing = parameters.computing
      BY <2>4, <3>3 DEF Rewinds
    <3>5. parameters'.current_chunk = BYTE - 1
      BY <2>4 DEF Rewinds, NoChunk
    <3>6. Job!Restart
      BY <3>1, <3>2, <3>4, <3>5 DEF Job!Restart
    <3> QED
      BY <3>6 DEF Job!Next
  <2>5. CASE Paints
    <3>1. PICK q \in FirstPixels :
             /\ FirstChunkOf(q) = parameters.current_chunk
             /\ \E colour : colour # Black /\ img' = [img EXCEPT !.data[q] = colour]
      BY <2>5 DEF Paints, PaintsPixel
    <3>2. PICK colour : colour # Black /\ img' = [img EXCEPT !.data[q] = colour]
      BY <3>1
    <3>3. img'.data = [img.data EXCEPT ![q] = colour] /\ img'.data[q] = colour
      BY <3>2 DEF TypeOK, ImageOK, JobInv, SameGrid
    <3>4. FirstInPlace(q, img'.data[q])
      <4>1. (SameGrid /\ PaintedInPlace =>
               \A p \in FirstPixels : img.data[p] # Black => Job!Painted(p))'
        BY PaintedWell, PTL
      <4>2. (SameGrid /\ PaintedInPlace)'
        BY DEF JobInv
      <4> QED
        BY <3>2, <3>3, <4>1, <4>2 DEF Job!Painted, FirstPixels, Pixels, FirstInPlace
    <3>5. img'.data = [img.data EXCEPT ![q] = img'.data[q]]
      BY <3>3
    <3>6. parameters.computing /\ UNCHANGED parameters
      BY <2>5 DEF Paints, PaintsPixel
    <3>7. Job!Paint
      BY <3>1, <3>2, <3>3, <3>4, <3>5, <3>6 DEF Job!Paint, FirstPixels
    <3> QED
      BY <3>7 DEF Job!Next
  <2>6. CASE Finishes
    <3>1. \A p \in Pixels(def_W, def_H) :
             FirstChunkOf(p) = parameters.current_chunk => Job!Painted(p)
      BY <2>6, PaintedWell DEF Finishes, ChunkIsWhole, JobInv, FirstPixels
    <3> QED
      BY <2>6, <3>1 DEF Finishes, Job!Next, Job!Finish
  <2>7. CASE GivesUp
    BY <2>7 DEF GivesUp, PreviousChunk, Job!Next, Job!Abort
  <2> QED
    BY <2>1, <2>2, <2>3, <2>4, <2>5, <2>6, <2>7
<1> QED
  BY <1>1, <1>2 DEF Next, vars, pcVars

(* The job paints its chunks in their order.                               *)
LEMMA WholeStep ==
  TypeOK /\ JobInv /\ EarlierWhole /\ [Job!Next]_(Job!vars) => EarlierWhole'
<1> SUFFICES ASSUME TypeOK, JobInv, EarlierWhole, [Job!Next]_(Job!vars)
             PROVE  EarlierWhole'
  OBVIOUS
<1> DEFINE cc == parameters.current_chunk
<1>1. cc \in 0 .. BYTE - 1 /\ BYTE \in Nat /\ BYTE >= 2
  BY GridAssumption DEF TypeOK, ParametersOK
<1>2. \A p \in FirstPixels : FirstChunkOf(p) \in Nat /\ FirstChunkOf(p)' = FirstChunkOf(p)
  BY FirstGrid DEF JobInv, FirstChunkOf, FirstImage, initImage
<1>3. SUFFICES ASSUME NEW p \in FirstPixels,
                      IF parameters'.computing
                        THEN FirstChunkOf(p) < cc'
                        ELSE cc' # NoChunk /\ FirstChunkOf(p) <= cc'
               PROVE  img'.data[p] # Black
  BY <1>2 DEF EarlierWhole, FirstPixels, Pixels, NoChunk
<1> DEFINE k == FirstChunkOf(p)
<1>4. /\ k \in Nat
      /\ parameters.computing /\ k < cc => img.data[p] # Black
      /\ ~ parameters.computing /\ cc # NoChunk /\ k <= cc => img.data[p] # Black
  BY <1>2, <1>3 DEF EarlierWhole
<1>5. CASE UNCHANGED Job!vars
  BY <1>3, <1>4, <1>5 DEF Job!vars
<1>6. CASE Job!Start
  <2>1. /\ ~ parameters.computing /\ parameters'.computing
        /\ cc' = (cc + 1) % BYTE /\ img'.data = img.data
    BY <1>6 DEF Job!Start
  <2>2. CASE cc = BYTE - 1
    <3>1. cc' = 0
      BY <1>1, <2>1, <2>2, SMT
    <3> QED
      BY <1>3, <1>4, <2>1, <3>1, SMT
  <2>3. CASE cc # BYTE - 1
    <3>1. cc + 1 \in Nat /\ cc + 1 < BYTE
      BY <1>1, <2>3, SMT
    <3>2. cc' = cc + 1
      BY <2>1, <3>1, ByteFacts
    <3>3. k <= cc
      BY <1>1, <1>3, <1>4, <2>1, <3>2, SMT
    <3> QED
      BY <1>4, <2>1, <2>3, <3>3 DEF NoChunk
  <2> QED
    BY <2>2, <2>3
<1>7. CASE Job!Paint
  <2>1. /\ parameters'.computing = parameters.computing /\ cc' = cc
        /\ \E q \in FirstPixels :
              /\ img'.data = [img.data EXCEPT ![q] = img'.data[q]]
              /\ img'.data[q] # Black
    BY <1>7 DEF Job!Paint, FirstPixels
  <2>2. img.data[p] # Black
    BY <1>3, <1>4, <2>1
  <2>3. PICK q \in FirstPixels : /\ img'.data = [img.data EXCEPT ![q] = img'.data[q]]
                                 /\ img'.data[q] # Black
    BY <2>1
  <2>4. CASE p = q
    BY <2>3, <2>4
  <2>5. CASE p # q
    <3> DEFINE colour == img'.data[q]
    <3>1. img'.data = [img.data EXCEPT ![q] = colour]
      BY <2>3
    <3> HIDE DEF colour
    <3>2. [img.data EXCEPT ![q] = colour][p] = img.data[p]
      BY <1>3, <2>5 DEF JobInv, SameGrid
    <3> QED
      BY <2>2, <3>1, <3>2
  <2> QED
    BY <2>4, <2>5
<1>8. CASE Job!Finish
  <2>1. /\ parameters.computing /\ ~ parameters'.computing /\ cc' = cc
        /\ img'.data = img.data
        /\ k = cc => img.data[p] # Black
    BY <1>3, <1>8 DEF Job!Finish, Job!Painted, FirstPixels
  <2>2. k < cc \/ k = cc
    BY <1>1, <1>3, <1>4, <2>1, SMT
  <2> QED
    BY <1>4, <2>1, <2>2
<1>9. CASE Job!Abort
  <2>1. /\ parameters.computing /\ ~ parameters'.computing
        /\ cc' = (cc + BYTE - 1) % BYTE /\ img'.data = img.data
    BY <1>9 DEF Job!Abort
  <2>2. CASE cc = 0
    <3>1. cc' = BYTE - 1
      <4>1. cc + BYTE - 1 = BYTE - 1 /\ BYTE - 1 \in Nat /\ BYTE - 1 < BYTE
        BY <1>1, <2>2, SMT
      <4> QED
        BY <2>1, <4>1, ByteFacts
    <3> QED
      BY <1>3, <2>1, <3>1 DEF NoChunk
  <2>3. CASE cc # 0
    <3>1. cc' = cc - 1
      <4>1. /\ cc - 1 \in Nat /\ cc - 1 \in 0 .. BYTE - 1
            /\ cc + BYTE - 1 = 1 * BYTE + (cc - 1)
        BY <1>1, <2>3, SMT
      <4>2. (1 * BYTE + (cc - 1)) % BYTE = cc - 1
        <5>1. \A r \in 0 .. BYTE - 1 : (1 * BYTE + r) % BYTE = r
          <6>1. BYTE \in Nat \ {0} /\ 1 \in Nat
            BY <1>1, SMT
          <6> QED
            BY <6>1, DivisionIsUnique
        <5> QED
          BY <4>1, <5>1
      <4> QED
        BY <2>1, <4>1, <4>2
    <3>2. k < cc
      BY <1>1, <1>3, <1>4, <2>1, <3>1, SMT
    <3> QED
      BY <1>4, <2>1, <3>2
  <2> QED
    BY <2>2, <2>3
<1>10. CASE Job!Restart
  BY <1>3, <1>10 DEF Job!Restart, NoChunk
<1> QED
  BY <1>5, <1>6, <1>7, <1>8, <1>9, <1>10 DEF Job!Next

(* The user of the job neither aborts nor looks at the artwork.            *)
LEMMA JobUserIsCalm == JobUser => NoAbortKey /\ NoArtKey
  BY DEF JobUser, JobEvent, NoAbortKey, NoArtKey

(* The whole image is announced after the last chunk.                      *)
LEMMA AnnouncedWhole ==
  JobInv /\ EarlierWhole /\ TypeOK => 
    (HandleDone /\ parameters.computing /\ AnnouncesWhole
       => \A p \in DOMAIN img.data : img.data[p] # Black)
<1> SUFFICES ASSUME JobInv, EarlierWhole, TypeOK, parameters.computing, AnnouncesWhole,
                    NEW p \in DOMAIN img.data
             PROVE  img.data[p] # Black
  OBVIOUS
<1>1. p \in FirstPixels /\ parameters.current_chunk = FirstNumber
  BY DEF JobInv, SameGrid, AnnouncesWhole
<1>2. FirstChunkOf(p) < parameters.current_chunk
  BY <1>1, FirstGrid DEF JobInv
<1> QED
  BY <1>1, <1>2 DEF EarlierWhole

(* For a user who neither aborts from the keyboard nor resizes, refreshes  *)
(* or paints the image himself, and a board that is not restarted, the     *)
(* application and the board do the chunk job: chunk by chunk, each over   *)
(* only when all of its pixels are painted from their own results or when  *)
(* the button aborts it.                                                   *)
THEOREM ChunkJobIsDone ==
  JobUser /\ NoReset /\ FirstFits /\ Spec => ImplementsChunkJob
  BY OrderInit, OrderStep, PlaceInit, PlaceStep, TypeInit, TypeStep, JobUserIsCalm,
     JobInit, JobStep, JobRefined, PTL DEF Spec, ImplementsChunkJob, Job!Spec

(* The image is whole when the application says so.                        *)
THEOREM AnnouncedIsWhole ==
  JobUser /\ NoReset /\ FirstFits /\ Spec => SuccessIsWhole
  BY OrderInit, OrderStep, PlaceInit, PlaceStep, TypeInit, TypeStep, JobUserIsCalm,
     JobInit, JobStep, JobRefined, WholeStep, AnnouncedWhole, PTL
     DEF Spec, SuccessIsWhole

-----------------------------------------------------------------------------
(* The other user: he may abort as often as he likes, and refresh, but he  *)
(* keeps the size of the image.  Results of an aborted chunk still come    *)
(* while the next one is computed, so that nothing of the order above      *)
(* holds.  What holds is that the grid is always the same, so that a chunk *)
(* id means the same pixels to everyone at any time.                       *)

KeepingEvent(e) == e.type = "EV_CHANGE_PAR" => e.param \notin {WIDTH, HEIGHT}
KeepsSize == \A k \in Keys : KeepingEvent(k)

(* A refresh cuts the first image as it was cut at the start.              *)
SizeIsChosen == computeChunkSize(def_W, def_H) = def_chunksize

OnlyKeeping ==
  /\ KeepsSize
  /\ \A i \in DOMAIN evq : KeepingEvent(evq[i])
  /\ parameters.parameter_to_be_changed \notin {WIDTH, HEIGHT}

OneGrid ==
  /\ img.W = def_W /\ img.H = def_H
  /\ img.chunksize = def_chunksize /\ img.chunksinrow = FirstRow

(* The board has the increments, or gets them before message n.            *)
FirstSize == <<def_W, def_H>>
SizedBefore(n) ==
  \/ nucleo.d = FirstSize
  \/ \E j \in DOMAIN toNucleo : j < n /\ toNucleo[j].type = "MSG_SET_COMPUTE"

Sized ==
  /\ parameters.computation_set =>
        parameters.d = FirstSize /\ SizedBefore(Len(toNucleo) + 1)
  /\ \A i \in DOMAIN toNucleo :
        /\ toNucleo[i].type = "MSG_SET_COMPUTE" => toNucleo[i].d = FirstSize
        /\ toNucleo[i].type = "MSG_COMPUTE" => SizedBefore(i)
  /\ nucleo.computing => nucleo.d = FirstSize

(* Requests, the board and results agree on where a chunk is.              *)
AtCorner(cid, re, im) ==
  /\ re = ChunkX(cid, FirstRow, def_chunksize)
  /\ im = ChunkY(cid, FirstRow, def_chunksize)

FirstResult(m) ==
  /\ AtCorner(m.cid, m.iter.re - m.i_re, m.iter.im - m.i_im)
  /\ m.iter.d = FirstSize

Cornered ==
  /\ \A i \in DOMAIN toNucleo : toNucleo[i].type = "MSG_COMPUTE" =>
        AtCorner(toNucleo[i].cid, toNucleo[i].re, toNucleo[i].im)
  /\ nucleo.computing => AtCorner(nucleo.cid, nucleo.re, nucleo.im)
  /\ \A i \in DOMAIN Coming : IsReply(Coming[i], Result) => FirstResult(Coming[i].msg)

Kept ==
  /\ SizeIsChosen /\ NoReset
  /\ OnlyKeeping /\ OneGrid /\ Sized /\ Cornered

(* One step.                                                               *)
LEMMA OnlyKeepingStep ==
  ASSUME TypeOK, OnlyKeeping, [Next]_vars
  PROVE  OnlyKeeping'
<1>1. QueueOK /\ LinkOK /\ KeepsSize /\ \A i \in DOMAIN evq : KeepingEvent(evq[i])
  BY DEF TypeOK, OnlyKeeping
<1> DEFINE T == {e \in QueueEvents : KeepingEvent(e)}
<1>2. \A i \in DOMAIN evq : evq[i] \in T
  BY <1>1, ElementOfSeq, LenProperties DEF QueueOK
<1>3. ASSUME \/ evq # << >> /\ evq' = Tail(evq)
             \/ \E e \in QueueEvents : KeepingEvent(e) /\ evq' = Append(evq, e)
      PROVE  \A i \in DOMAIN evq' : KeepingEvent(evq'[i])
  <2>1. \/ evq # << >> /\ evq' = Tail(evq)
        \/ \E e \in QueueEvents : e \in T /\ evq' = Append(evq, e)
    BY <1>3
  <2>2. T \subseteq QueueEvents /\ \A e \in T : KeepingEvent(e)
    OBVIOUS
  <2> HIDE DEF T
  <2> QED
    BY <1>1, <1>2, <2>1, <2>2, EventsStay
<1>4. NextChunk.type = "EV_COMPUTE" /\ \A m : Serial(m).type = "EV_SERIAL"
  BY DEF NextChunk, KeyParam, Serial
<1>5. KeepingEvent(NextChunk) /\ \A m : KeepingEvent(Serial(m))
  BY <1>4 DEF KeepingEvent
<1>6. CASE MainLoop
  <2>1. \A i \in DOMAIN evq' : KeepingEvent(evq'[i])
    <3>1. CASE HandleKeyEvent
      BY <1>3, <3>1, KeyEventComputing
    <3>2. CASE HandleNucleoEvent
      BY <1>3, <3>2, NucleoEventEnds
    <3>3. CASE PushNextChunk
      BY <1>3, <1>5, <3>3, NextChunkIsEvent DEF PushNextChunk
    <3> QED
      BY <1>6, <3>1, <3>2, <3>3 DEF MainLoop
  <2>2. parameters'.parameter_to_be_changed \notin {WIDTH, HEIGHT}
    <3>1. CASE Handles("EV_CHANGE_PAR")
      <4>1. Head(evq) = evq[1] /\ 1 \in DOMAIN evq
        BY <1>1, <3>1, TailFacts, LenProperties, SMT DEF QueueOK, Handles
      <4> QED
        BY <1>1, <1>6, <3>1, <4>1, ChosenParameter DEF OnlyKeeping, KeepingEvent, Handles
    <3>2. CASE ~ Handles("EV_CHANGE_PAR")
      BY <1>6, <3>2, ChosenParameter DEF OnlyKeeping
    <3> QED
      BY <3>1, <3>2
  <2> QED
    BY <1>1, <2>1, <2>2 DEF OnlyKeeping, KeepsSize
<1>7. CASE PressKey
  <2>1. PICK k \in Keys : evq' = Append(evq, k) /\ UNCHANGED parameters
    BY <1>7 DEF PressKey
  <2>2. k \in QueueEvents /\ KeepingEvent(k)
    BY <1>1, <2>1, KeyIsEvent DEF KeepsSize
  <2> QED
    BY <1>1, <1>3, <2>1, <2>2 DEF OnlyKeeping, KeepsSize
<1>8. CASE ReceiveMessage
  <2>1. toPc # << >> /\ evq' = Append(evq, Serial(Head(toPc))) /\ UNCHANGED parameters
    BY <1>8 DEF ReceiveMessage
  <2>2. Head(toPc) \in NucleoMessages
    BY <1>1, <2>1, TailFacts DEF LinkOK
  <2>3. Serial(Head(toPc)) \in QueueEvents /\ KeepingEvent(Serial(Head(toPc)))
    BY <1>5, <2>2, SerialIsEvent
  <2> QED
    BY <1>1, <1>3, <2>1, <2>3 DEF OnlyKeeping, KeepsSize
<1>9. CASE UNCHANGED <<evq, parameters>>
  BY <1>1, <1>9 DEF OnlyKeeping, KeepsSize
<1> QED
  BY <1>6, <1>7, <1>8, <1>9 DEF Next, PcNext, vars, pcVars

-----------------------------------------------------------------------------
(* What the application does to the grid and the increments.               *)

(* It sends nothing but requests it may send, at the corner of their chunk,*)
SendsInGrid ==
  /\ parameters'.computation_set => parameters.computation_set
  /\ parameters'.d = parameters.d
  /\ \/ UNCHANGED toNucleo
     \/ \E x : /\ SendPc(x) /\ x.type # "MSG_SET_COMPUTE"
               /\ x.type = "MSG_COMPUTE" =>
                    parameters.computation_set /\ AtCorner(x.cid, x.re, x.im)

(* or sets the increments of the first image.                              *)
SetsIncrements ==
  /\ parameters'.d = FirstSize
  /\ \E x : SendPc(x) /\ x.type = "MSG_SET_COMPUTE" /\ x.d = FirstSize

(* The handlers of keys.                                                   *)
LEMMA KeyEventInGrid ==
  ASSUME TypeOK, OnlyKeeping, OneGrid, SizeIsChosen, HandleKeyEvent
  PROVE  OneGrid' /\ (SendsInGrid \/ SetsIncrements)
<1>1. ParametersOK /\ ImageOK
  BY DEF TypeOK
\* A step that keeps the parameters, but for fields that do not matter here.
<1>2. ASSUME UNCHANGED toNucleo,
             \/ UNCHANGED parameters
             \/ \E v \in Nat : parameters' = [parameters EXCEPT !.parameter_to_be_changed = v]
             \/ parameters' = [parameters EXCEPT !.current_chunk = NoChunk]
      PROVE  SendsInGrid
  <2>1. /\ parameters'.computation_set = parameters.computation_set
        /\ parameters'.d = parameters.d
    BY <1>1, <1>2, Zenon DEF ParametersOK
  <2> QED
    BY <1>2, <2>1 DEF SendsInGrid
<1>3. ASSUME UNCHANGED img PROVE OneGrid'
  BY <1>3 DEF OneGrid
<1>4. ASSUME \E data : img' = [img EXCEPT !.data = data] PROVE OneGrid'
  <2>1. /\ img'.W = img.W /\ img'.H = img.H
        /\ img'.chunksinrow = img.chunksinrow /\ img'.chunksize = img.chunksize
    BY <1>1, <1>4 DEF ImageOK
  <2> QED
    BY <2>1 DEF OneGrid
<1>5. CASE HandleGetVersion
  <2>1. Plain("MSG_GET_VERSION").type = "MSG_GET_VERSION"
    BY DEF Plain
  <2> QED
    BY <1>3, <1>5, <2>1 DEF HandleGetVersion, SendsInGrid
<1>6. CASE HandleChangePar
  <2>1. param \in Nat
    <3>1. Head(evq) \in QueueEvents /\ Head(evq).type = "EV_CHANGE_PAR"
      BY <1>6, HandlesType DEF HandleChangePar, TypeOK
    <3> QED
      BY <3>1, OtherEvents DEF param
  <2> QED
    BY <1>2, <1>3, <1>6, <2>1 DEF HandleChangePar
<1>7. CASE HandleSetChange
  <2> DEFINE changed == [parameters EXCEPT !.computation_set = FALSE]
  <2>1. /\ ~ changed.computation_set /\ changed.d = parameters.d
        /\ changed \in [c : Cs, n : minN .. maxN, d : Int \X Int,
                        computing : BOOLEAN, computation_set : BOOLEAN,
                        current_chunk : 0 .. BYTE - 1,
                        parameter_to_be_changed : Nat]
    BY <1>1, Zenon DEF ParametersOK
  <2>2. UNCHANGED toNucleo
    BY <1>7 DEF HandleSetChange
  <2>3. /\ UNCHANGED img
        /\ \/ \E c \in Cs : parameters' = [changed EXCEPT !.c = c]
           \/ parameters' = [changed EXCEPT !.n = ChangedN]
           \/ parameters' = changed
    BY <1>7, Zenon DEF HandleSetChange, OnlyKeeping
  <2> HIDE DEF changed
  <2>4. parameters'.computation_set = changed.computation_set /\ parameters'.d = changed.d
    BY <2>1, <2>3, Zenon
  <2> QED
    BY <1>3, <2>1, <2>2, <2>3, <2>4 DEF SendsInGrid
<1>8. CASE HandleSetCompute
  <2>1. CASE parameters.computing
    BY <1>2, <1>3, <1>8, <2>1 DEF HandleSetCompute
  <2>2. CASE ~ parameters.computing
    <3> DEFINE x == SetCompute(parameters.c, <<img.W, img.H>>, parameters.n)
    <3>1. /\ parameters' = [parameters EXCEPT !.computation_set = TRUE,
                                              !.d = <<img.W, img.H>>]
          /\ SendPc(x) /\ UNCHANGED img
      BY <1>8, <2>2 DEF HandleSetCompute
    <3>2. parameters'.d = <<img.W, img.H>>
      BY <1>1, <3>1, Zenon DEF ParametersOK
    <3>3. x.type = "MSG_SET_COMPUTE" /\ x.d = <<img.W, img.H>>
      BY DEF SetCompute
    <3>4. <<img.W, img.H>> = FirstSize
      BY DEF OneGrid, FirstSize
    <3> HIDE DEF x
    <3> QED
      BY <1>3, <3>1, <3>2, <3>3, <3>4 DEF SetsIncrements
  <2> QED
    BY <2>1, <2>2
<1>9. CASE HandleCompute
  <2> DEFINE cid == (parameters.current_chunk + 1) % BYTE
             x == Compute(cid, ChunkX(cid, img.chunksinrow, img.chunksize),
                          ChunkY(cid, img.chunksinrow, img.chunksize), img.chunksize)
  <2>1. CASE ~ MayCompute
    BY <1>2, <1>3, <1>9, <2>1 DEF HandleCompute
  <2>2. CASE MayCompute
    <3>1. /\ parameters' = [parameters EXCEPT !.current_chunk = cid, !.computing = TRUE]
          /\ UNCHANGED img
          /\ UNCHANGED toNucleo \/ SendPc(x)
          /\ parameters.computation_set
      BY <1>9, <2>2 DEF HandleCompute, MayCompute
    <3>2. /\ x.type = "MSG_COMPUTE" /\ x.cid = cid
          /\ x.re = ChunkX(cid, img.chunksinrow, img.chunksize)
          /\ x.im = ChunkY(cid, img.chunksinrow, img.chunksize)
      BY DEF Compute
    <3> HIDE DEF x, cid
    <3>3. parameters'.d = parameters.d
      BY <1>1, <3>1, Zenon DEF ParametersOK
    <3>4. AtCorner(x.cid, x.re, x.im)
      BY <3>2 DEF AtCorner, OneGrid
    <3> QED
      BY <1>3, <3>1, <3>2, <3>3, <3>4 DEF SendsInGrid
  <2> QED
    BY <2>1, <2>2
<1>10. CASE HandleAbort
  <2>1. CASE ~ parameters.computing
    BY <1>2, <1>3, <1>10, <2>1 DEF HandleAbort
  <2>2. CASE parameters.computing
    <3> DEFINE k == PreviousChunk(parameters.current_chunk)
    <3>1. /\ parameters' = [parameters EXCEPT !.computing = FALSE, !.current_chunk = k]
          /\ SendPc(Plain("MSG_ABORT")) /\ UNCHANGED img
      BY <1>10, <2>2 DEF HandleAbort
    <3>2. Plain("MSG_ABORT").type = "MSG_ABORT"
      BY DEF Plain
    <3> HIDE DEF k
    <3>3. /\ parameters'.computation_set = parameters.computation_set
          /\ parameters'.d = parameters.d
      BY <1>1, <3>1, Zenon DEF ParametersOK
    <3> QED
      BY <1>3, <3>1, <3>2, <3>3 DEF SendsInGrid
  <2> QED
    BY <2>1, <2>2
<1>11. CASE HandleResetChunk \/ HandleClearBuffer
  <2>1. /\ UNCHANGED toNucleo
        /\ \/ UNCHANGED parameters
           \/ parameters' = [parameters EXCEPT !.current_chunk = NoChunk]
        /\ \/ UNCHANGED img
           \/ img' = [img EXCEPT !.data = [p \in Pixels(img.W, img.H) |-> Black]]
    BY <1>11 DEF HandleResetChunk, HandleClearBuffer
  <2> QED
    BY <1>2, <1>3, <1>4, <2>1
<1>12. CASE HandleRefresh
  <2>1. /\ parameters' = [parameters EXCEPT !.current_chunk = NoChunk]
        /\ UNCHANGED toNucleo
        /\ img' = initImage(img.W, img.H, computeChunkSize(img.W, img.H))
    BY <1>12 DEF HandleRefresh
  <2>2. img' = initImage(def_W, def_H, def_chunksize)
    BY <2>1 DEF OneGrid, SizeIsChosen
  <2>3. OneGrid'
    BY <2>2 DEF OneGrid, initImage, FirstRow
  <2> QED
    BY <1>2, <2>1, <2>3
<1>13. CASE HandleComputeCPU \/ HandleShow
  <2>1. /\ UNCHANGED <<parameters, toNucleo>>
        /\ \/ UNCHANGED img
           \/ \E c : img' = [img EXCEPT !.data = ComputeCPU(c)]
    BY <1>13 DEF HandleComputeCPU, HandleShow
  <2> QED
    BY <1>2, <1>3, <1>4, <2>1
<1>14. CASE HandleOther
  BY <1>2, <1>3, <1>14 DEF HandleOther
<1> QED
  BY <1>5, <1>6, <1>7, <1>8, <1>9, <1>10, <1>11, <1>12, <1>13, <1>14 DEF HandleKeyEvent

(* The handlers of messages.                                               *)
LEMMA NucleoEventInGrid ==
  ASSUME TypeOK, OneGrid, HandleNucleoEvent
  PROVE  OneGrid' /\ SendsInGrid
<1>1. ParametersOK /\ ImageOK
  BY DEF TypeOK
<1>2. Steady
  BY NucleoEventSize
<1>3. UNCHANGED toNucleo
  BY NucleoEventEnds
<1>4. UNCHANGED img \/ \E data : img' = [img EXCEPT !.data = data]
  BY Zenon DEF HandleNucleoEvent, HandleStartup, HandleAnswer, HandleMsgAbort,
               HandleComputeData, HandleDone, HandlesMsg
<1>5. /\ img'.W = img.W /\ img'.H = img.H
      /\ img'.chunksinrow = img.chunksinrow /\ img'.chunksize = img.chunksize
  BY <1>1, <1>4 DEF ImageOK
<1> QED
  BY <1>2, <1>3, <1>5 DEF OneGrid, SendsInGrid, Steady

(* What it sends keeps the requests within the grid.                       *)
LEMMA SendKeepsGrid ==
  ASSUME LinkOK, LinkOK', Sized, Cornered, SendsInGrid \/ SetsIncrements, UNCHANGED nucleo,
         \A i \in DOMAIN Coming' : IsReply(Coming'[i], Result) =>
            \E j \in DOMAIN Coming : Coming'[i] = Coming[j]
  PROVE  Sized' /\ Cornered'
<1>1. \A i \in DOMAIN Coming' : IsReply(Coming'[i], Result) => FirstResult(Coming'[i].msg)
  BY DEF Cornered
<1>2. CASE UNCHANGED toNucleo
  <2>1. SendsInGrid \/ \E x : SendPc(x)
    BY DEF SetsIncrements
  <2>2. ~ \E x : SendPc(x)
    <3>1. ASSUME NEW x, SendPc(x) PROVE FALSE
      <4>1. /\ Len(toNucleo) \in Nat /\ x \in PcMessages
        BY <3>1, SentIsMessage, LenProperties DEF LinkOK
      <4>2. Len(toNucleo') = Len(toNucleo) + 1
        BY <3>1, <4>1, AppendFacts DEF LinkOK, SendPc
      <4> QED
        BY <1>2, <4>1, <4>2, SMT
    <3> QED
      BY <3>1
  <2>3. SendsInGrid
    BY <2>1, <2>2
  <2> QED
    BY <1>1, <1>2, <2>3 DEF Sized, Cornered, SizedBefore, SendsInGrid
<1>3. CASE ~ UNCHANGED toNucleo
  <2>1. PICK x :
           /\ SendPc(x)
           /\ x.type = "MSG_COMPUTE" =>
                parameters.computation_set /\ AtCorner(x.cid, x.re, x.im)
           /\ \/ /\ x.type # "MSG_SET_COMPUTE" /\ parameters'.d = parameters.d
                 /\ parameters'.computation_set => parameters.computation_set
              \/ /\ x.type = "MSG_SET_COMPUTE" /\ x.d = FirstSize
                 /\ parameters'.d = FirstSize
    BY <1>3 DEF SendsInGrid, SetsIncrements
  <2>2. x \in PcMessages
    BY <2>1, SentIsMessage
  <2>3. PICK n \in Nat :
           /\ Len(toNucleo) = n /\ Len(toNucleo') = n + 1
           /\ DOMAIN toNucleo = 1 .. n /\ DOMAIN toNucleo' = 1 .. n + 1
           /\ \A j \in 1 .. n : toNucleo'[j] = toNucleo[j]
           /\ toNucleo'[n + 1] = x
    BY <2>1, <2>2, AppendFacts, LenProperties DEF LinkOK, SendPc
  <2>4. \A j \in 1 .. n : j \in 1 .. n + 1 /\ j < (n + 1) + 1
    BY <2>3, SMT
  <2>5. \A j \in 1 .. n + 1 : j \in 1 .. n \/ j = n + 1
    BY <2>3, SMT
  <2>6. n + 1 < (n + 1) + 1 /\ n + 1 \in 1 .. n + 1
    BY <2>3, SMT
  <2>7. ASSUME NEW i, SizedBefore(i) PROVE SizedBefore(i)'
    BY <2>3, <2>4, <2>7 DEF SizedBefore
  <2>8. SizedBefore(n + 1) => SizedBefore(n + 1)' /\ SizedBefore((n + 1) + 1)'
    BY <2>3, <2>4, <2>7 DEF SizedBefore
  <2>9. parameters'.computation_set => parameters'.d = FirstSize /\ SizedBefore((n + 1) + 1)'
    <3>1. CASE x.type = "MSG_SET_COMPUTE"
      BY <2>1, <2>3, <2>6, <3>1 DEF SizedBefore
    <3>2. CASE x.type # "MSG_SET_COMPUTE"
      BY <2>1, <2>3, <2>8, <3>2 DEF Sized
    <3> QED
      BY <3>1, <3>2
  <2>10. ASSUME NEW i \in DOMAIN toNucleo'
         PROVE  /\ toNucleo'[i].type = "MSG_SET_COMPUTE" => toNucleo'[i].d = FirstSize
                /\ toNucleo'[i].type = "MSG_COMPUTE" =>
                     /\ SizedBefore(i)'
                     /\ AtCorner(toNucleo'[i].cid, toNucleo'[i].re, toNucleo'[i].im)
    <3>1. CASE i \in 1 .. n
      <4>1. i \in DOMAIN toNucleo /\ toNucleo'[i] = toNucleo[i]
        BY <2>3, <3>1
      <4> QED
        BY <2>7, <4>1 DEF Sized, Cornered
    <3>2. CASE i = n + 1
      <4>1. toNucleo'[i] = x
        BY <2>3, <3>2
      <4>2. x.type = "MSG_COMPUTE" => SizedBefore(n + 1)
        BY <2>1, <2>3 DEF Sized
      <4> QED
        BY <2>1, <2>8, <3>2, <4>1, <4>2
    <3> QED
      BY <2>3, <2>5, <3>1, <3>2
  <2>11. Sized'
    <3>1. nucleo'.computing => nucleo'.d = FirstSize
      BY DEF Sized
    <3> QED
      BY <2>3, <2>9, <2>10, <3>1 DEF Sized
  <2>12. Cornered'
    <3>1. nucleo'.computing => AtCorner(nucleo'.cid, nucleo'.re, nucleo'.im)
      BY DEF Cornered
    <3> QED
      BY <1>1, <2>10, <3>1 DEF Cornered
  <2> QED
    BY <2>11, <2>12
<1> QED
  BY <1>2, <1>3

(* What the board takes leaves the rest sized.                             *)
LEMMA ReceiveKeepsSized ==
  ASSUME LinkOK, LinkOK', Sized, NEW type, Received(type), UNCHANGED parameters,
         IF type = "MSG_SET_COMPUTE" THEN nucleo'.d = Head(toNucleo).d
                                     ELSE nucleo'.d = nucleo.d,
         nucleo'.computing =>
            nucleo.computing \/ type = "MSG_COMPUTE"
  PROVE  Sized'
<1>1. /\ 1 \in DOMAIN toNucleo /\ Head(toNucleo) = toNucleo[1]
      /\ toNucleo[1].type = type
      /\ \A i \in DOMAIN toNucleo' :
            i + 1 \in DOMAIN toNucleo /\ toNucleo'[i] = toNucleo[i + 1]
      /\ \A i \in DOMAIN toNucleo :
            i # 1 => i - 1 \in DOMAIN toNucleo' /\ toNucleo'[i - 1] = toNucleo[i]
      /\ \A i \in DOMAIN toNucleo : i \in Nat /\ i >= 1
      /\ \A i \in DOMAIN toNucleo' : i \in Nat /\ i >= 1
  BY ReceiveShifts
<1>2. PICK n \in Nat : Len(toNucleo') = n /\ Len(toNucleo) = n + 1
  <2>1. toNucleo # << >> /\ toNucleo' = Tail(toNucleo) /\ toNucleo \in Seq(PcMessages)
    BY <1>1 DEF Received, LinkOK
  <2>2. Len(toNucleo') = Len(toNucleo) - 1 /\ Len(toNucleo) \in Nat /\ Len(toNucleo) >= 1
    BY <2>1, TailFacts, LenProperties
  <2>3. Len(toNucleo) - 1 \in Nat /\ Len(toNucleo) = (Len(toNucleo) - 1) + 1
    BY <2>2, SMT
  <2> QED
    BY <2>2, <2>3
<1>3. CASE type = "MSG_SET_COMPUTE"
  <2>1. nucleo'.d = FirstSize
    BY <1>1, <1>3 DEF Sized
  <2> QED
    BY <1>1, <1>3, <2>1 DEF Sized, SizedBefore
<1>4. CASE type # "MSG_SET_COMPUTE"
  <2>1. nucleo'.d = nucleo.d
    BY <1>4
  <2>2. ASSUME NEW i \in Nat, SizedBefore(i + 1) PROVE SizedBefore(i)'
    <3>1. CASE nucleo.d = FirstSize
      BY <2>1, <3>1 DEF SizedBefore
    <3>2. CASE nucleo.d # FirstSize
      <4>1. PICK j \in DOMAIN toNucleo : j < i + 1 /\ toNucleo[j].type = "MSG_SET_COMPUTE"
        BY <2>2, <3>2 DEF SizedBefore
      <4>2. j # 1 /\ j \in Nat
        BY <1>1, <1>4, <4>1
      <4>3. j - 1 \in DOMAIN toNucleo' /\ toNucleo'[j - 1] = toNucleo[j]
        BY <1>1, <4>2
      <4>4. j - 1 < i
        BY <4>1, <4>2, SMT
      <4> QED
        BY <4>1, <4>3, <4>4 DEF SizedBefore
    <3> QED
      BY <3>1, <3>2
  <2>3. SizedBefore(1) => nucleo.d = FirstSize
    <3>1. \A j \in Nat : j >= 1 => ~ (j < 1)
      BY SMT
    <3> QED
      BY <1>1, <3>1 DEF SizedBefore
  <2>4. parameters'.computation_set => parameters'.d = FirstSize /\ SizedBefore(Len(toNucleo) + 1)'
    <3>1. n + 1 \in Nat
      BY SMT
    <3>2. SizedBefore((n + 1) + 1) => SizedBefore(n + 1)'
      BY <2>2, <3>1
    <3> QED
      BY <1>2, <3>2 DEF Sized
  <2>5. ASSUME NEW i \in DOMAIN toNucleo'
        PROVE  /\ toNucleo'[i].type = "MSG_SET_COMPUTE" => toNucleo'[i].d = FirstSize
               /\ toNucleo'[i].type = "MSG_COMPUTE" => SizedBefore(i)'
    <3>1. i + 1 \in DOMAIN toNucleo /\ toNucleo'[i] = toNucleo[i + 1] /\ i \in Nat
      BY <1>1
    <3> QED
      BY <2>2, <3>1 DEF Sized
  <2>6. nucleo'.computing => nucleo'.d = FirstSize
    BY <1>1, <2>1, <2>3 DEF Sized
  <2> QED
    BY <2>4, <2>5, <2>6 DEF Sized
<1> QED
  BY <1>3, <1>4

(* The steps of the board.                                                 *)
LEMMA NucleoKeepsGrid ==
  ASSUME TypeOK, TypeOK', NoReset, Sized, Cornered, NucleoNext, UNCHANGED pcVars
  PROVE  Sized' /\ Cornered'
<1>1. /\ QueueOK /\ QueueOK' /\ LinkOK /\ LinkOK' /\ BoardOK
      /\ UNCHANGED <<parameters, evq>>
  BY DEF TypeOK, pcVars
<1> DEFINE Requests == \A i \in DOMAIN toNucleo : toNucleo[i].type = "MSG_COMPUTE" =>
                          AtCorner(toNucleo[i].cid, toNucleo[i].re, toNucleo[i].im)
           Board == nucleo.computing => AtCorner(nucleo.cid, nucleo.re, nucleo.im)
           Results == \A i \in DOMAIN Coming : IsReply(Coming[i], Result) =>
                         FirstResult(Coming[i].msg)
<1>2. /\ Requests /\ Board /\ Results
      /\ Requests' /\ Board' /\ Results' => Cornered'
  BY DEF Cornered
<1>3. ASSUME NEW x \in NucleoMessages, Send(x),
             x.type = "MSG_COMPUTE_DATA" => FirstResult(x)
      PROVE  Results'
  <2>1. PICK n : InsertedAt(Coming, Coming', Serial(x), n, n + 1)
    BY <1>1, <1>3, ComingSend
  <2>2. \A k \in DOMAIN Coming' :
           Coming'[k] = Serial(x) \/ \E i \in DOMAIN Coming : Coming'[k] = Coming[i]
    BY <2>1, InsertedEvents
  <2>3. Serial(x).msg = x
    BY DEF Serial
  <2> QED
    BY <1>2, <1>3, <2>2, <2>3 DEF IsReply, Result
<1>4. ASSUME UNCHANGED toPc PROVE Results'
  <2>1. Coming' = Coming
    BY <1>1, <1>4 DEF Coming, Serial
  <2> QED
    BY <1>2, <2>1
<1>5. ASSUME UNCHANGED toNucleo, nucleo'.d = nucleo.d, nucleo'.computing => nucleo.computing
      PROVE  Sized' /\ Requests'
  BY <1>1, <1>2, <1>5 DEF Sized, SizedBefore
<1>6. ASSUME nucleo'.computing =>
               /\ nucleo.computing /\ nucleo'.cid = nucleo.cid
               /\ nucleo'.re = nucleo.re /\ nucleo'.im = nucleo.im
      PROVE  Board'
  BY <1>2, <1>6
<1>7. ASSUME NEW type, Received(type) PROVE Requests'
  <2>1. \A i \in DOMAIN toNucleo' :
           i + 1 \in DOMAIN toNucleo /\ toNucleo'[i] = toNucleo[i + 1]
    BY <1>1, <1>7, ReceiveShifts
  <2> QED
    BY <1>2, <2>1
<1> HIDE DEF Requests, Board, Results
<1>8. CASE Arrive \/ Button
  <2>1. UNCHANGED <<nucleo, toNucleo, toPc>>
    BY <1>8 DEF Arrive, Button
  <2> QED
    BY <1>2, <1>4, <1>5, <1>6, <2>1
<1>9. CASE HandleAbortRequest
  <2>1. /\ UNCHANGED toNucleo
        /\ \/ UNCHANGED <<nucleo, toPc>>
           \/ /\ nucleo' = [nucleo EXCEPT !.computing = FALSE]
              /\ Send(Plain("MSG_ABORT"))
    BY <1>9 DEF HandleAbortRequest
  <2>2. /\ nucleo'.d = nucleo.d
        /\ nucleo'.computing => /\ nucleo.computing /\ nucleo'.cid = nucleo.cid
                                /\ nucleo'.re = nucleo.re /\ nucleo'.im = nucleo.im
    BY <1>1, <2>1, Zenon DEF BoardOK
  <2>3. Results'
    BY <1>3, <1>4, <2>1, PlainMessages DEF Plain
  <2> QED
    BY <1>2, <1>5, <1>6, <2>1, <2>2, <2>3
<1>10. CASE ReceiveGetVersion
  <2>1. Received("MSG_GET_VERSION") /\ UNCHANGED nucleo /\ Send(Plain("MSG_VERSION"))
    BY <1>10 DEF ReceiveGetVersion
  <2>2. Results'
    BY <1>3, <2>1, PlainMessages DEF Plain
  <2>3. Sized'
    BY <1>1, <2>1, ReceiveKeepsSized
  <2> QED
    BY <1>2, <1>6, <1>7, <2>1, <2>2, <2>3
<1>11. CASE ReceiveAbort
  <2>1. /\ Received("MSG_ABORT") /\ Send(Plain("MSG_OK"))
        /\ nucleo' = [nucleo EXCEPT !.computing = FALSE]
    BY <1>11 DEF ReceiveAbort
  <2>2. nucleo'.d = nucleo.d /\ ~ nucleo'.computing
    BY <1>1, <2>1, Zenon DEF BoardOK
  <2>3. Results'
    BY <1>3, <2>1, PlainMessages DEF Plain
  <2>4. Sized'
    BY <1>1, <2>1, <2>2, ReceiveKeepsSized
  <2> QED
    BY <1>2, <1>6, <1>7, <2>1, <2>2, <2>3, <2>4
<1>12. CASE ReceiveSetCompute
  <2> DEFINE m == Head(toNucleo)
  <2>1. /\ Received("MSG_SET_COMPUTE") /\ Send(Plain("MSG_OK"))
        /\ nucleo' = [nucleo EXCEPT !.c = m.c, !.d = m.d, !.n = m.n]
    BY <1>12 DEF ReceiveSetCompute
  <2>2. nucleo'.d = m.d /\ nucleo'.computing = nucleo.computing /\ nucleo'.cid = nucleo.cid
        /\ nucleo'.re = nucleo.re /\ nucleo'.im = nucleo.im
    <3> HIDE DEF m
    <3> QED
      BY <1>1, <2>1, Zenon DEF BoardOK
  <2>3. Results'
    BY <1>3, <2>1, PlainMessages DEF Plain
  <2>4. Sized'
    BY <1>1, <2>1, <2>2, ReceiveKeepsSized
  <2> QED
    BY <1>2, <1>6, <1>7, <2>1, <2>2, <2>3, <2>4
<1>13. CASE ReceiveCompute
  <2> DEFINE m == Head(toNucleo)
  <2>1. /\ Received("MSG_COMPUTE") /\ Send(Plain("MSG_OK"))
        /\ nucleo' = IF nucleo.computing
                       THEN nucleo
                       ELSE [nucleo EXCEPT !.cid = m.cid, !.re = m.re, !.im = m.im,
                                           !.cx = 0, !.cy = 0,
                                           !.chunk_size = m.size,
                                           !.computing = TRUE]
    BY <1>13 DEF ReceiveCompute
  <2>2. AtCorner(m.cid, m.re, m.im)
    <3>1. m = toNucleo[1] /\ 1 \in DOMAIN toNucleo /\ toNucleo[1].type = "MSG_COMPUTE"
      BY <1>1, <2>1, ReceiveShifts
    <3> QED
      BY <3>1 DEF Cornered
  <2> HIDE DEF m
  <2>3. /\ nucleo'.d = nucleo.d
        /\ \/ nucleo' = nucleo
           \/ nucleo'.cid = m.cid /\ nucleo'.re = m.re /\ nucleo'.im = m.im
    BY <1>1, <2>1, Zenon DEF BoardOK
  <2>4. Board'
    BY <1>2, <2>2, <2>3 DEF Board
  <2>5. Results'
    BY <1>3, <2>1, PlainMessages DEF Plain
  <2>6. Sized'
    BY <1>1, <2>1, <2>3, ReceiveKeepsSized
  <2> QED
    BY <1>2, <1>7, <2>1, <2>4, <2>5, <2>6
<1>14. CASE SendPixel
  <2>1. /\ UNCHANGED toNucleo /\ nucleo.computing
        /\ \/ nucleo' = [nucleo EXCEPT !.cx = nucleo.cx + 1, !.cy = 0]
           \/ nucleo' = [nucleo EXCEPT !.cy = nucleo.cy + 1]
    BY <1>14 DEF SendPixel, Computing, NextPixel
  <2>2. /\ nucleo'.d = nucleo.d /\ nucleo'.computing = nucleo.computing
        /\ nucleo'.cid = nucleo.cid /\ nucleo'.re = nucleo.re /\ nucleo'.im = nucleo.im
    BY <1>1, <2>1, Zenon DEF BoardOK
  <2> DEFINE iter == Iterations(nucleo.c, nucleo.d, nucleo.n,
                                nucleo.re + nucleo.cx, nucleo.im + nucleo.cy)
             m == ComputeData(nucleo.cid, nucleo.cx, nucleo.cy, iter)
  <2>3. /\ nucleo.cid \in Nat /\ nucleo.cx \in Nat /\ nucleo.cy \in Nat
        /\ nucleo.c \in Cs \union {Zero} /\ nucleo.d \in Int \X Int
        /\ nucleo.n \in Nat /\ nucleo.re \in Nat /\ nucleo.im \in Nat
        /\ nucleo.re + nucleo.cx \in Nat /\ nucleo.im + nucleo.cy \in Nat
        /\ (nucleo.re + nucleo.cx) - nucleo.cx = nucleo.re
        /\ (nucleo.im + nucleo.cy) - nucleo.cy = nucleo.im
    BY <1>1, SMT DEF BoardOK
  <2>4. m \in NucleoMessages
    BY <2>3, IterationsType, ComputeDataMessage
  <2>5. /\ m.cid = nucleo.cid /\ m.i_re = nucleo.cx /\ m.i_im = nucleo.cy
        /\ m.iter.re = nucleo.re + nucleo.cx /\ m.iter.im = nucleo.im + nucleo.cy
        /\ m.iter.d = nucleo.d
    BY DEF ComputeData, Iterations
  <2>6. nucleo.d = FirstSize /\ AtCorner(nucleo.cid, nucleo.re, nucleo.im)
    BY <2>1 DEF Sized, Cornered
  <2>7. Send(m)
    BY <1>14 DEF SendPixel
  <2> HIDE DEF m
  <2>8. FirstResult(m)
    BY <2>3, <2>5, <2>6 DEF FirstResult
  <2>9. Results'
    BY <1>3, <2>4, <2>7, <2>8
  <2> QED
    BY <1>2, <1>5, <1>6, <2>1, <2>2, <2>9
<1>15. CASE SendDone
  <2>1. /\ Send(Plain("MSG_DONE")) /\ UNCHANGED toNucleo
        /\ nucleo' = [nucleo EXCEPT !.computing = FALSE]
    BY <1>15 DEF SendDone, Computing
  <2>2. ~ nucleo'.computing /\ nucleo'.d = nucleo.d
    BY <1>1, <2>1, Zenon DEF BoardOK
  <2>3. Results'
    BY <1>3, <2>1, PlainMessages DEF Plain
  <2> QED
    BY <1>2, <1>5, <1>6, <2>1, <2>2, <2>3
<1>16. CASE Reset
  <2>1. resets < MaxResets /\ resets \in 0 .. MaxResets
    BY <1>1, <1>16 DEF Reset, BoardOK
  <2> QED
    BY <2>1, SMT DEF NoReset
<1> QED
  BY <1>8, <1>9, <1>10, <1>11, <1>12, <1>13, <1>14, <1>15, <1>16 DEF NucleoNext, Loop

(* What the main thread does.                                              *)
LEMMA PcKeepsInGrid ==
  ASSUME TypeOK, TypeOK', Kept, PcNext, UNCHANGED nucleoVars
  PROVE  OneGrid' /\ Sized' /\ Cornered'
<1>1. /\ QueueOK /\ QueueOK' /\ LinkOK /\ LinkOK' /\ UNCHANGED nucleo
      /\ SizeIsChosen /\ OnlyKeeping /\ OneGrid /\ Sized /\ Cornered
  BY DEF TypeOK, nucleoVars, Kept
<1> DEFINE Less == \A i \in DOMAIN Coming' : IsReply(Coming'[i], Result) =>
                      \E j \in DOMAIN Coming : Coming'[i] = Coming[j]
<1>2. ASSUME evq # << >>, evq' = Tail(evq), UNCHANGED toPc PROVE Less
  <2>1. PICK n : InsertedAt(Coming', Coming, Head(evq), n, 1)
    BY <1>1, <1>2, ComingPop
  <2> QED
    BY <2>1, InsertedEvents
<1>3. ASSUME Less, OneGrid', SendsInGrid \/ SetsIncrements PROVE OneGrid' /\ Sized' /\ Cornered'
  BY <1>1, <1>3, SendKeepsGrid
<1>4. ASSUME UNCHANGED <<parameters, img, toNucleo>> PROVE OneGrid' /\ SendsInGrid
  BY <1>1, <1>4 DEF OneGrid, SendsInGrid
<1> HIDE DEF Less
<1>5. CASE HandleKeyEvent
  BY <1>1, <1>2, <1>3, <1>5, KeyEventComputing, KeyEventInGrid
<1>6. CASE HandleNucleoEvent
  BY <1>1, <1>2, <1>3, <1>6, NucleoEventEnds, NucleoEventInGrid
<1>7. CASE PressKey \/ PushNextChunk
  <2>1. UNCHANGED <<parameters, img, toNucleo, toPc>>
    BY <1>7 DEF PressKey, PushNextChunk
  <2>2. PICK e \in QueueEvents : e.type # "EV_SERIAL" /\ evq' = Append(evq, e)
    <3>1. NextChunk.type # "EV_SERIAL"
      BY DEF NextChunk, KeyParam
    <3>2. CASE PressKey
      BY <3>2, KeyIsEvent DEF PressKey
    <3>3. CASE PushNextChunk
      BY <3>1, <3>3, NextChunkIsEvent DEF PushNextChunk
    <3> QED
      BY <1>7, <3>2, <3>3
  <2>3. PICK n, a : InsertedAt(Coming, Coming', e, n, a)
    BY <1>1, <2>1, <2>2, ComingPush
  <2>4. Less
    <3>1. \A k \in DOMAIN Coming' :
             Coming'[k] = e \/ \E i \in DOMAIN Coming : Coming'[k] = Coming[i]
      BY <2>3, InsertedEvents
    <3> QED
      BY <2>2, <3>1 DEF Less, IsReply
  <2> QED
    BY <1>3, <1>4, <2>1, <2>4
<1>8. CASE ReceiveMessage
  <2>1. UNCHANGED <<parameters, img, toNucleo>>
    BY <1>8 DEF ReceiveMessage
  <2>2. Coming' = Coming
    BY <1>1, <1>8, ComingReceive
  <2>3. Less
    BY <2>2 DEF Less
  <2> QED
    BY <1>3, <1>4, <2>1, <2>3
<1> QED
  BY <1>5, <1>6, <1>7, <1>8 DEF PcNext, MainLoop

(* What agrees with the grid of the first image fits the current chunk.    *)
LEMMA KeptFits ==
  ASSUME Kept
  PROVE  /\ parameters.computation_set => parameters.d = Size
         /\ ResultsFit
<1>1. ASSUME NEW i \in DOMAIN Coming, IsReply(Coming[i], Result)
      PROVE  ResultFits(parameters.current_chunk, img, Coming[i].msg)
  <2>1. FirstResult(Coming[i].msg)
    BY <1>1 DEF Kept, Cornered
  <2> QED
    BY <2>1 DEF Kept, OneGrid, ResultFits, Corner, FirstResult, AtCorner, FirstSize
<1>2. ResultsFit
  BY <1>1 DEF ResultsFit
<1> QED
  BY <1>2 DEF Kept, Sized, OneGrid, FirstSize, Size

(* The start.                                                              *)
LEMMA KeptInit == Init /\ KeepsSize /\ SizeIsChosen /\ NoReset => Kept
<1> SUFFICES ASSUME Init, KeepsSize, SizeIsChosen, NoReset PROVE Kept
  OBVIOUS
<1>1. /\ evq = << >> /\ toPc = << >> /\ toNucleo = << >> /\ ~ nucleo.computing
      /\ ~ parameters.computation_set /\ parameters.parameter_to_be_changed = NO_PAR
      /\ img = initImage(def_W, def_H, def_chunksize)
  BY DEF Init, PcInit, NucleoInit, Idle
<1>2. DOMAIN evq = {} /\ DOMAIN toNucleo = {} /\ DOMAIN Coming = {}
  <2>1. Len(evq) = 0 /\ Len(toPc) = 0 /\ 1 .. 0 + 0 = {}
    BY <1>1, SMT
  <2> QED
    BY <1>1, <2>1, SMT DEF Coming
<1>3. OneGrid
  BY <1>1 DEF OneGrid, initImage, FirstRow
<1>4. NO_PAR \notin {WIDTH, HEIGHT}
  BY DEF NO_PAR, WIDTH, HEIGHT
<1> QED
  BY <1>1, <1>2, <1>3, <1>4 DEF Kept, OnlyKeeping, Sized, Cornered

(* One step.                                                               *)
LEMMA KeptStep ==
  TypeOK /\ TypeOK' /\ NoArt /\ Kept /\ PaintedInPlace /\ [Next]_vars
    => Kept' /\ NoArt' /\ PaintedInPlace'
<1> SUFFICES ASSUME TypeOK, TypeOK', NoArt, Kept, PaintedInPlace, [Next]_vars
             PROVE  Kept' /\ NoArt' /\ PaintedInPlace'
  OBVIOUS
<1>1. OnlyKeeping' /\ SizeIsChosen' /\ NoReset'
  BY OnlyKeepingStep DEF Kept, SizeIsChosen, computeChunkSize, Candidates, NoReset
<1>2. CASE PcNext /\ UNCHANGED nucleoVars
  <2>1. Kept' /\ NoArt'
    BY <1>1, <1>2, PcKeepsInGrid, NoArtStep DEF Kept, Next
  <2>2. CASE HandleKeyEvent
    <3>1. evq # << >> /\ QueueOK
      BY <2>2, KeyEventComputing DEF TypeOK
    <3>2. Head(evq) = evq[1] /\ 1 \in DOMAIN evq
      BY <3>1, TailFacts, LenProperties, SMT DEF QueueOK
    <3> QED
      BY <2>1, <2>2, <3>2, KeptFits, KeyEventPaints DEF NoArt
  <2>3. CASE HandleNucleoEvent
    BY <2>1, <2>3, KeptFits, NucleoEventPaints
  <2>4. CASE PressKey \/ ReceiveMessage \/ PushNextChunk
    <3>1. UNCHANGED img
      BY <2>4 DEF PressKey, ReceiveMessage, PushNextChunk
    <3> QED
      BY <2>1, <3>1 DEF PaintedInPlace
  <2> QED
    BY <1>2, <2>2, <2>3, <2>4 DEF PcNext, MainLoop
<1>3. CASE NucleoNext /\ UNCHANGED pcVars
  <2>1. UNCHANGED img
    BY <1>3 DEF pcVars
  <2>2. Sized' /\ Cornered'
    BY <1>3, NucleoKeepsGrid DEF Kept
  <2> QED
    BY <1>1, <1>3, <2>1, <2>2, NoArtStep DEF Kept, OneGrid, PaintedInPlace, Next
<1>4. CASE UNCHANGED vars
  <2>1. UNCHANGED <<evq, toPc, toNucleo, nucleo, parameters, img>>
    BY <1>4 DEF vars, pcVars, nucleoVars
  <2>2. Coming' = Coming
    BY <2>1 DEF Coming, Serial
  <2>3. Sized' /\ Cornered'
    BY <2>1, <2>2 DEF Kept, Sized, SizedBefore, Cornered
  <2> QED
    BY <1>1, <2>1, <2>3 DEF Kept, OneGrid, NoArt, NoArtKey, PaintedInPlace
<1> QED
  BY <1>2, <1>3, <1>4 DEF Next

(* A user who keeps the size of the image and does not look at the artwork *)
(* may abort and refresh whenever he likes: the late results of an aborted *)
(* chunk are painted on their own points too, or not at all.               *)
THEOREM LateResultsPaintedInPlace ==
  KeepsSize /\ SizeIsChosen /\ NoArtKey /\ NoReset /\ Spec => []PaintedInPlace
<1>1. Init /\ NoArtKey => NoArt /\ PaintedInPlace
  BY PlaceInit
<1> QED
  BY <1>1, KeptInit, KeptStep, TypeInit, TypeStep, PTL DEF Spec
==============================================================================
