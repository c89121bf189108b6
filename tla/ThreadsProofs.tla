---------------------------- MODULE ThreadsProofs ----------------------------
(***************************************************************************)
(* Theorems about programs of several threads: the life of the threads of  *)
(* the PC application, for any length of the queue and any numbers of keys *)
(* and messages, and what the LED control knows about the LED, for any     *)
(* number of keys.                                                         *)
(***************************************************************************)
EXTENDS MCThreads, TLAPS

Kinds == {"key", "quit_key", "quit_serial", "done", "other", "next"}

(* queue_push of an event of one of the kinds keeps the queue a queue, and *)
(* adds that event only.                                                   *)
LEMMA PushFacts ==
  ASSUME evq \in Seq(Kinds), NEW e \in Kinds, Push(e)
  PROVE  /\ evq' \in Seq(Kinds)
         /\ Len(evq') <= EVENT_CAPACITY
         /\ \A i \in DOMAIN evq' : evq'[i] = e \/ \E j \in DOMAIN evq : evq'[i] = evq[j]
<1>1. evq' = Append(evq, e) /\ Len(evq) < EVENT_CAPACITY
  BY DEF Push, HasRoom
<1>2. /\ evq' \in Seq(Kinds)
      /\ Len(evq') = Len(evq) + 1
      /\ Len(evq) \in Nat
  BY <1>1, SMT
<1>3. Len(evq') <= EVENT_CAPACITY
  BY <1>1, <1>2, ThreadsAssumption, SMT
<1>4. ASSUME NEW i \in DOMAIN evq'
      PROVE  evq'[i] = e \/ \E j \in DOMAIN evq : evq'[i] = evq[j]
  BY <1>1, <1>2, SMT
<1> QED
  BY <1>2, <1>3, <1>4

(* So does taking the oldest event, which adds none.                       *)
LEMMA TailFacts ==
  ASSUME evq \in Seq(Kinds), evq # << >>, Len(evq) <= EVENT_CAPACITY,
         evq' = Tail(evq)
  PROVE  /\ evq' \in Seq(Kinds)
         /\ Len(evq') <= EVENT_CAPACITY
         /\ \A i \in DOMAIN evq' : \E j \in DOMAIN evq : evq'[i] = evq[j]
         /\ Head(evq) \in Kinds
         /\ \E j \in DOMAIN evq : Head(evq) = evq[j]
<1>1. /\ evq' \in Seq(Kinds)
      /\ Len(evq') = Len(evq) - 1
      /\ Len(evq) \in Nat
      /\ \A i \in DOMAIN evq' : i + 1 \in DOMAIN evq /\ evq'[i] = evq[i + 1]
      /\ 1 \in DOMAIN evq /\ Head(evq) = evq[1] /\ evq[1] \in Kinds
  BY SMT
<1> QED
  BY <1>1, ThreadsAssumption, SMT

-----------------------------------------------------------------------------
(* The three threads at their beginnings have their types.                 *)
LEMMA TypeInit == Init => TypeOK
<1> SUFFICES ASSUME Init PROVE TypeOK
  OBVIOUS
<1> USE DEF Init
<1>1. /\ evq \in Seq(Kinds) /\ Len(evq) <= EVENT_CAPACITY
      /\ pressed \in 0 .. MaxKeys /\ received \in 0 .. MaxMessages
  BY ThreadsAssumption, SMT
<1>2. /\ quit \in BOOLEAN /\ inputEnd \in BOOLEAN
      /\ serialEnd \in BOOLEAN /\ failed \in BOOLEAN
      /\ ~quit
  BY Zenon
<1>3. main = "pop" /\ input = "getchar" /\ serial = "read"
  BY Zenon
<1> QED
  BY <1>1, <1>2, <1>3, Zenon DEF TypeOK, Kinds

(* Every step of the three threads keeps the types.                        *)
LEMMA TypeStep == TypeOK /\ [Next]_vars => TypeOK'
<1> SUFFICES ASSUME TypeOK, [Next]_vars PROVE TypeOK'
  OBVIOUS
<1> USE ThreadsAssumption DEF TypeOK
<1>k. Kinds = {"key", "quit_key", "quit_serial", "done", "other", "next"}
  BY DEF Kinds
<1>1. CASE PressKey
  <2>0. /\ pressed < MaxKeys /\ pressed' = pressed + 1
        /\ input' = "push" \/ input' = "lock" \/ input' = "push_quit"
        /\ inputEnd' = inputEnd \/ inputEnd' = TRUE
    BY <1>1, Zenon DEF PressKey
  <2>1. pressed' \in 0 .. MaxKeys
    BY <2>0, SMT
  <2>2. inputEnd' \in BOOLEAN /\ (inputEnd => inputEnd')
    <3>1. CASE inputEnd' = inputEnd
      BY <3>1, Zenon
    <3>2. CASE inputEnd' = TRUE
      BY <3>2, Zenon
    <3> QED
      BY <2>0, <3>1, <3>2
  <2> QED
    BY <1>1, <2>0, <2>1, <2>2, Zenon DEF PressKey
<1>2. CASE PushKey
  BY <1>2, <1>k, PushFacts, SMT DEF PushKey
<1>3. CASE InputLock
  BY <1>3, SMT DEF InputLock
<1>4. CASE InputQuit
  BY <1>4, <1>k, PushFacts, SMT DEF InputQuit
<1>5. CASE Read
  <2>1. /\ received' \in 0 .. MaxMessages
        /\ \/ serial' = "lock"
           \/ serial' = "push" /\ message' \in {"done", "other"}
    BY <1>5, SMT DEF Read
  <2>2. serialEnd' \in BOOLEAN /\ failed' \in BOOLEAN
    BY <1>5, Zenon DEF Read
  <2>3. UNCHANGED <<quit, evq, main, input, inputEnd, pressed>>
    BY <1>5 DEF Read
  <2> QED
    BY <2>1, <2>2, <2>3
<1>6. CASE PushMessage
  BY <1>6, <1>k, PushFacts, SMT DEF PushMessage
<1>7. CASE SerialLock
  BY <1>7, SMT DEF SerialLock
<1>8. CASE SerialQuit
  BY <1>8, <1>k, PushFacts, SMT DEF SerialQuit
<1>9. CASE HandleEvent
  <2>1. main' \in {"pop", "push", "cleanup"}
    BY <1>9, SMT DEF HandleEvent, AfterEvent
  <2> QED
    BY <1>9, <2>1, <1>k, TailFacts, SMT DEF HandleEvent
<1>10. CASE PushNextChunk
  BY <1>10, <1>k, PushFacts, SMT DEF PushNextChunk
<1>11. CASE Cleanup
  BY <1>11, <1>k, TailFacts, SMT DEF Cleanup
<1>12. CASE Join
  BY <1>12, SMT DEF Join
<1>13. CASE UNCHANGED vars
  BY <1>13, SMT DEF vars
<1> QED
  BY <1>1, <1>2, <1>3, <1>4, <1>5, <1>6, <1>7, <1>8, <1>9, <1>10, <1>11, <1>12,
     <1>13 DEF Next, Main, Input, Serial

(* Types of the three threads: the queue never exceeds its capacity, and a *)
(* thread that pushes its EV_QUIT has its reason to.                       *)
THEOREM TypeCorrect == Spec => []TypeOK
<1>1. Init => TypeOK
  BY TypeInit
<1>2. TypeOK /\ [Next]_vars => TypeOK'
  BY TypeStep
<1> QED
  BY <1>1, <1>2, PTL DEF Spec

-----------------------------------------------------------------------------
(* What is inductive: the reason to end is there when the serial thread    *)
(* ends, hence when its EV_QUIT is in the queue, hence when the main thread*)
(* leaves its loop.                                                        *)
IInv ==
  /\ TypeOK
  /\ serialEnd => quit \/ failed
  /\ (\E i \in DOMAIN evq : evq[i] = "quit_serial") => quit \/ failed
  /\ LeavesOnRequest

(* No step takes the reason away.                                          *)
LEMMA ReasonStays ==
  ASSUME TypeOK, [Next]_vars
  PROVE  /\ quit => quit'
         /\ failed => failed'
<1> USE DEF TypeOK
<1>1. CASE InputLock
  BY <1>1, SMT DEF InputLock
<1>2. CASE Read
  BY <1>2, SMT DEF Read
<1>3. ASSUME UNCHANGED <<quit, failed>>
      PROVE  (quit => quit') /\ (failed => failed')
  BY <1>3
<1>4. ASSUME ~InputLock, ~Read
      PROVE  UNCHANGED <<quit, failed>>
  BY <1>4 DEF Next, Main, Input, Serial, vars, PressKey, PushKey, InputQuit,
              PushMessage, SerialLock, SerialQuit, HandleEvent, PushNextChunk,
              Cleanup, Join
<1> QED
  BY <1>1, <1>2, <1>3, <1>4

LEMMA ReasonInit == Init => IInv
<1> SUFFICES ASSUME Init PROVE IInv
  OBVIOUS
<1>1. DOMAIN evq = {}
  BY SMT DEF Init
<1> QED
  BY <1>1, TypeInit DEF Init, IInv, LeavesOnRequest

LEMMA ReasonStep == IInv /\ [Next]_vars => IInv'
<1> SUFFICES ASSUME IInv, [Next]_vars PROVE IInv'
  OBVIOUS
<1> DEFINE Asked == \E i \in DOMAIN evq : evq[i] = "quit_serial"
<1>1. TypeOK /\ TypeOK'
  BY TypeStep DEF IInv
<1>2. /\ serialEnd => quit \/ failed
      /\ Asked => quit \/ failed
      /\ main \notin {"pop", "push"} => quit \/ failed
  BY DEF IInv, LeavesOnRequest
<1>3. evq \in Seq(Kinds) /\ Len(evq) <= EVENT_CAPACITY
  BY <1>1 DEF TypeOK, Kinds
<1>4. (quit => quit') /\ (failed => failed')
  BY <1>1, ReasonStays
<1>5. serialEnd' => quit' \/ failed'
  <2>1. CASE SerialLock
    BY <2>1, <1>1, <1>2, <1>4 DEF SerialLock
  <2>2. CASE Read
    BY <2>2, <1>2, <1>4 DEF Read
  <2>3. ASSUME ~SerialLock, ~Read
        PROVE  UNCHANGED serialEnd
    BY <2>3 DEF Next, Main, Input, Serial, vars, PressKey, PushKey, InputLock,
                InputQuit, PushMessage, SerialQuit, HandleEvent, PushNextChunk,
                Cleanup, Join
  <2> QED
    BY <2>1, <2>2, <2>3, <1>2, <1>4
<1>6. Asked' => quit' \/ failed'
  <2>1. ASSUME NEW e \in Kinds \ {"quit_serial"}, Push(e)
        PROVE  Asked' => Asked
    BY <2>1, <1>3, PushFacts
  <2>2. ASSUME evq # << >>, evq' = Tail(evq)
        PROVE  Asked' => Asked
    BY <2>2, <1>3, TailFacts
  <2>3. CASE PushKey
    BY <2>3, <2>1, <1>2, <1>4 DEF PushKey, Kinds
  <2>4. CASE InputQuit
    BY <2>4, <2>1, <1>2, <1>4 DEF InputQuit, Kinds
  <2>5. CASE PushMessage
    <3>1. message \in Kinds \ {"quit_serial"}
      BY <2>5, <1>1 DEF PushMessage, TypeOK, Kinds
    <3> QED
      BY <2>5, <3>1, <2>1, <1>2, <1>4 DEF PushMessage
  <2>6. CASE SerialQuit
    BY <2>6, <1>1, <1>2, <1>4 DEF SerialQuit, TypeOK
  <2>7. CASE PushNextChunk
    BY <2>7, <2>1, <1>2, <1>4 DEF PushNextChunk, Kinds
  <2>8. CASE HandleEvent
    BY <2>8, <2>2, <1>2, <1>4 DEF HandleEvent
  <2>9. CASE Cleanup
    BY <2>9, <2>2, <1>2, <1>4 DEF Cleanup
  <2>10. CASE PressKey \/ InputLock \/ Read \/ SerialLock \/ Join \/ UNCHANGED vars
    <3>1. UNCHANGED evq
      BY <2>10 DEF PressKey, InputLock, Read, SerialLock, Join, vars
    <3> QED
      BY <3>1, <1>2, <1>4
  <2> QED
    BY <2>3, <2>4, <2>5, <2>6, <2>7, <2>8, <2>9, <2>10
    DEF Next, Main, Input, Serial
<1>7. LeavesOnRequest'
  <2>1. CASE HandleEvent
    <3>1. CASE Head(evq) = "quit_serial"
      <4>1. Asked
        BY <2>1, <3>1, <1>3, TailFacts DEF HandleEvent
      <4> QED
        BY <4>1, <1>2, <1>4 DEF LeavesOnRequest
    <3>2. CASE Head(evq) # "quit_serial"
      <4>1. main' \in {"pop", "push"}
        BY <2>1, <3>2 DEF HandleEvent, AfterEvent
      <4> QED
        BY <4>1 DEF LeavesOnRequest
    <3> QED
      BY <3>1, <3>2
  <2>2. CASE PushNextChunk
    BY <2>2 DEF PushNextChunk, LeavesOnRequest
  <2>3. CASE Cleanup \/ Join
    <3>1. main \notin {"pop", "push"}
      BY <2>3 DEF Cleanup, Join
    <3> QED
      BY <3>1, <1>2, <1>4 DEF LeavesOnRequest
  <2>4. CASE PressKey \/ Input \/ Serial \/ UNCHANGED vars
    <3>1. UNCHANGED main
      BY <2>4 DEF PressKey, Input, Serial, vars, PushKey, InputLock, InputQuit,
                  Read, PushMessage, SerialLock, SerialQuit
    <3> QED
      BY <3>1, <1>2, <1>4 DEF LeavesOnRequest
  <2> QED
    BY <2>1, <2>2, <2>3, <2>4 DEF Next, Main
<1> QED
  BY <1>1, <1>5, <1>6, <1>7 DEF IInv

(* The program never leaves its main loop unless the user asked for it or  *)
(* the port failed, whatever order the threads run in.                     *)
THEOREM LeavesOnlyOnRequest == Spec => []LeavesOnRequest
<1>1. Init => IInv
  BY ReasonInit
<1>2. IInv /\ [Next]_vars => IInv'
  BY ReasonStep
<1>3. IInv => LeavesOnRequest
  BY DEF IInv
<1> QED
  BY <1>1, <1>2, <1>3, PTL DEF Spec

-----------------------------------------------------------------------------
(* The LED control. What its user does not see is where the answer to his  *)
(* key is: not given yet, on the line among the reports of a blinking LED, *)
(* or read and not yet understood.                                         *)

Answers == {"h", "b", "a", "i", "blink"}

LedType ==
  /\ key \in LedKeys \union {Led!NoByte}
  /\ byte \in Answers \union {Led!NoByte}
  /\ toBoard \in Seq(LedKeys) /\ toPc \in Seq(Answers)
  /\ resets \in Nat
  /\ receiver = "read" => byte = Led!NoByte
  /\ resets = 0 => board # "boot"

Reports == \A i \in DOMAIN toPc : toPc[i] = "blink"
NothingRead == byte \in {Led!NoByte, "blink"}

Agrees == /\ ledstate = "on" => ledon
          /\ ledstate = "off" => ~ ledon

(* The LED is what the program will take it to be when it reads answer.    *)
Means(answer) ==
  /\ answer = "a" /\ lastsent = "s" => ledon
  /\ answer = "a" /\ lastsent = "e" => ~ ledon
  /\ ~(answer = "a" /\ lastsent \in {"s", "e"}) => Agrees

(* The answer is byte i of those on the line, all the others are reports.  *)
AnswerAt(i) ==
  /\ toPc[i] # "blink" /\ Means(toPc[i])
  /\ \A j \in DOMAIN toPc : j # i => toPc[j] = "blink"

NotSent == toBoard = << >> /\ Reports /\ NothingRead /\ Agrees
Sent == key = Led!NoByte /\ toBoard = <<lastsent>> /\ Reports /\ NothingRead /\ Agrees
Obeyed == key = Led!NoByte /\ toBoard = << >> /\ NothingRead
            /\ \E i \in DOMAIN toPc : AnswerAt(i)
Received == key = Led!NoByte /\ toBoard = << >> /\ Reports /\ Means(byte)

(* A key of a user who waits is in one of these places.                    *)
OneKey == ~hasty /\ resets = 0 => NotSent \/ Sent \/ Obeyed \/ Received

(* Nothing is sent at the start.                                           *)
LEMMA LedInit == ThreadsInit => LedType /\ OneKey
<1> SUFFICES ASSUME ThreadsInit PROVE LedType /\ OneKey
  OBVIOUS
<1> USE DEF ThreadsInit, Led!Init
<1>1. LedType
  BY SMT DEF LedType
<1>2. NotSent
  BY DEF NotSent, Reports, NothingRead, Agrees
<1> QED
  BY <1>1, <1>2 DEF OneKey

(* What passes between the program and the board keeps its type, and the    *)
(* board never boots without a restart.                                    *)
LEMMA LedTypeStep == LedType /\ [ThreadsNext]_allVars => LedType'
<1> SUFFICES ASSUME LedType, [ThreadsNext]_allVars PROVE LedType'
  OBVIOUS
<1> USE DEF LedType
<1>1. CASE UNCHANGED ledOnly
  BY <1>1 DEF ledOnly
<1>2. CASE Led!ReadKey
  BY <1>2 DEF Led!ReadKey, Led!shared, Led!boardVars, Led!link
<1>3. CASE Led!SendKey
  <2>1. /\ toBoard' \in Seq(LedKeys) /\ key' = Led!NoByte
        /\ UNCHANGED <<receiver, byte, toPc, resets, board>>
    BY <1>3, SMT DEF Led!SendKey, Led!shared, Led!boardVars
  <2> QED
    BY <2>1
<1>4. CASE Led!ReadByte
  <2>1. /\ toPc' \in Seq(Answers) /\ byte' \in Answers \union {Led!NoByte}
        /\ receiver' = "lock"
        /\ UNCHANGED <<key, toBoard, resets, board>>
    BY <1>4, SMT DEF Led!ReadByte, Led!shared, Led!boardVars
  <2> QED
    BY <2>1
<1>5. CASE Led!HandleByte
  BY <1>5 DEF Led!HandleByte, Led!boardVars, Led!link
<1>6. CASE Led!Output \/ Led!CountPeriod \/ Led!SpuriousWakeup
  BY <1>6 DEF Led!Output, Led!Wait, Led!PrintOutput, Led!CountPeriod,
     Led!SpuriousWakeup, Led!boardVars, Led!link
<1>7. CASE Led!Obey
  <2>1. /\ toPc' \in Seq(Answers) /\ toBoard' \in Seq(LedKeys)
        /\ UNCHANGED <<key, byte, receiver, resets>>
        /\ board = "on" /\ board' \in {"on", "stopped"}
    <3>1. Head(toBoard) \in LedKeys /\ Tail(toBoard) \in Seq(LedKeys)
      BY <1>7, SMT DEF Led!Obey
    <3>2. \E a \in Answers : toPc' = Append(toPc, a)
      <4>1. (IF Head(toBoard) \in {"h", "b"} THEN Head(toBoard) ELSE "a") \in Answers
        BY DEF Answers
      <4> QED
        BY <1>7, <4>1 DEF Led!Obey
    <3> QED
      BY <1>7, <3>1, <3>2, SMT DEF Led!Obey, Led!threads
  <2> QED
    BY <2>1
<1>8. CASE Led!Blink \/ Led!Boot
  <2>1. \E a \in Answers : toPc' = Append(toPc, a)
    BY <1>8 DEF Led!Blink, Led!Boot, Answers
  <2>2. toPc' \in Seq(Answers)
    BY <2>1, SMT
  <2>3. /\ UNCHANGED <<key, byte, receiver, resets, toBoard>>
        /\ board' \in {board, "on"}
    BY <1>8 DEF Led!Blink, Led!Boot, Led!threads, Led!boardVars
  <2> QED
    BY <2>2, <2>3
<1>9. CASE Led!Reset
  <2>1. resets' \in Nat /\ resets' # 0
    BY <1>9, SMT DEF Led!Reset
  <2>2. toBoard' = << >> /\ UNCHANGED <<key, byte, toPc, receiver>>
    BY <1>9 DEF Led!Reset, Led!threads
  <2> QED
    BY <2>1, <2>2
<1> QED
  BY <1>1, <1>2, <1>3, <1>4, <1>5, <1>6, <1>7, <1>8, <1>9
     DEF ThreadsNext, InPc, InLed, InAlarm, Led!Next, Led!Sender, Led!Receiver, allVars

(* A byte more on the line, the last one.                                  *)
LEMMA OneMore ==
  ASSUME LedType, NEW a, toPc' = Append(toPc, a)
  PROVE  /\ DOMAIN toPc \subseteq DOMAIN toPc'
         /\ \A i \in DOMAIN toPc : toPc'[i] = toPc[i]
         /\ Len(toPc) + 1 \in DOMAIN toPc' /\ toPc'[Len(toPc) + 1] = a
         /\ \A i \in DOMAIN toPc' : i \in DOMAIN toPc \/ i = Len(toPc) + 1
  BY SMT DEF LedType

(* A byte less.                                                            *)
LEMMA OneLess ==
  ASSUME LedType, toPc # << >>, toPc' = Tail(toPc)
  PROVE  /\ 1 \in DOMAIN toPc /\ Head(toPc) = toPc[1]
         /\ \A i \in DOMAIN toPc' : i + 1 \in DOMAIN toPc /\ toPc'[i] = toPc[i + 1]
                                      /\ i + 1 # 1
         /\ \A i \in DOMAIN toPc : i # 1 => i - 1 \in DOMAIN toPc' /\ toPc'[i - 1] = toPc[i]
         /\ \A i \in DOMAIN toPc : \A j \in DOMAIN toPc' : j # i - 1 => j + 1 # i
  BY SMT DEF LedType

(* Each step hands the key, or its answer, over to the next place.         *)
LEMMA OneKeyStep ==
  ASSUME InstancesAssumption, LedType, LedType', OneKey, [ThreadsNext]_allVars
  PROVE  OneKey'
<1> SUFFICES ASSUME ~hasty', resets' = 0
             PROVE  (NotSent \/ Sent \/ Obeyed \/ Received)'
  BY DEF OneKey
<1> DEFINE led == <<toBoard, toPc, byte, ledstate, ledon, lastsent>>
           Phase == NotSent \/ Sent \/ Obeyed \/ Received
<1>0. ASSUME ~hasty, resets = 0 PROVE Phase
  BY <1>0 DEF OneKey
<1>a. ASSUME UNCHANGED <<led, key, hasty, resets>> PROVE Phase'
  BY <1>0, <1>a, Zenon DEF NotSent, Sent, Obeyed, Received, Reports, NothingRead, Agrees,
     AnswerAt, Means
<1>1. CASE UNCHANGED ledOnly
  BY <1>1, <1>a DEF ledOnly
<1>2. CASE Led!ReadKey
  <2>1. CASE UNCHANGED <<key, keyCount, hasty>>
    BY <1>2, <2>1, <1>a DEF Led!ReadKey, Led!shared, Led!boardVars, Led!link
  <2>2. CASE hasty' = (hasty \/ ~ Led!Answered)
    <3>1. ~ hasty /\ Led!Answered /\ resets = 0
      BY <1>2, <2>2 DEF Led!ReadKey, Led!boardVars
    <3>2. NotSent
      <4>1. ~ Sent /\ ~ Obeyed
        BY <3>1 DEF Led!Answered, Sent, Obeyed, AnswerAt
      <4>2. Received => NotSent
        BY <3>1 DEF Led!Answered, Received, NotSent, NothingRead, Means, Led!NoByte
      <4> QED
        BY <3>1, <1>0, <4>1, <4>2
    <3>3. UNCHANGED led
      BY <1>2 DEF Led!ReadKey, Led!shared, Led!boardVars, Led!link
    <3> QED
      BY <3>2, <3>3 DEF NotSent, Reports, NothingRead, Agrees
  <2> QED
    BY <1>2, <2>1, <2>2 DEF Led!ReadKey
<1>3. CASE Led!SendKey
  <2>1. /\ UNCHANGED <<toPc, byte, ledstate, ledon, hasty, resets>>
        /\ key' = Led!NoByte
    BY <1>3 DEF Led!SendKey, Led!shared, Led!boardVars
  <2>2. CASE key \in {"x", Led!NoByte}
    <3>1. UNCHANGED <<toBoard, lastsent>>
      BY <1>3, <2>2 DEF Led!SendKey, Led!shared, Led!NoByte
    <3> QED
      BY <1>0, <2>1, <3>1, Zenon DEF NotSent, Sent, Obeyed, Received, Reports, NothingRead,
         Agrees, AnswerAt, Means
  <2>3. CASE key \notin {"x", Led!NoByte}
    <3>1. NotSent
      BY <1>0, <2>1, <2>3 DEF Sent, Obeyed, Received
    <3>2. toBoard' = Append(toBoard, key) /\ lastsent' = key
      BY <1>3, <2>3 DEF Led!SendKey
    <3>3. toBoard' = <<lastsent'>>
      BY <3>1, <3>2 DEF NotSent
    <3> QED
      BY <2>1, <3>1, <3>3 DEF NotSent, Sent, Reports, NothingRead, Agrees
  <2> QED
    BY <2>2, <2>3
<1>4. CASE Led!ReadByte
  <2>1. UNCHANGED <<key, toBoard, ledstate, ledon, lastsent, hasty, resets>>
    BY <1>4 DEF Led!ReadByte, Led!shared, Led!boardVars
  <2>2. CASE toPc = << >>
    BY <1>4, <2>1, <2>2, <1>a DEF Led!ReadByte
  <2>3. CASE toPc # << >>
    <3>1. byte' = Head(toPc) /\ toPc' = Tail(toPc) /\ byte = Led!NoByte
      BY <1>4, <2>3 DEF Led!ReadByte, LedType
    <3>2. ASSUME Reports PROVE Reports' /\ NothingRead'
      BY <2>3, <3>1, <3>2, OneLess DEF Reports, NothingRead
    <3>3. ASSUME Obeyed PROVE Obeyed' \/ Received'
      <4>1. PICK i \in DOMAIN toPc : AnswerAt(i)
        BY <3>3 DEF Obeyed
      <4>2. CASE i = 1
        <5>1. byte' = toPc[i] /\ Means(toPc[i])
          BY <3>1, <2>3, <4>1, <4>2, OneLess DEF AnswerAt
        <5>2. Means(byte)'
          BY <5>1, <2>1 DEF Means, Agrees
        <5>3. Reports'
          BY <3>1, <2>3, <4>1, <4>2, OneLess DEF AnswerAt, Reports
        <5> QED
          BY <2>1, <3>3, <5>2, <5>3 DEF Obeyed, Received
      <4>3. CASE i # 1
        <5>1. i - 1 \in DOMAIN toPc' /\ toPc'[i - 1] = toPc[i]
          BY <3>1, <2>3, <4>3, OneLess
        <5>2. \A j \in DOMAIN toPc' : j # i - 1 => toPc'[j] = "blink"
          BY <3>1, <2>3, <4>1, OneLess DEF AnswerAt
        <5>3. toPc'[i - 1] # "blink" /\ Means(toPc[i])
          BY <5>1, <4>1 DEF AnswerAt
        <5>4. Means(toPc[i - 1])'
          BY <5>1, <5>3, <2>1 DEF Means, Agrees
        <5>5. byte' = "blink"
          BY <3>1, <2>3, <4>1, <4>3, OneLess DEF AnswerAt
        <5> QED
          BY <2>1, <3>3, <5>1, <5>2, <5>3, <5>4, <5>5
             DEF Obeyed, AnswerAt, NothingRead
      <4> QED
        BY <4>2, <4>3
    <3>4. ASSUME Received PROVE NotSent'
      <4>1. Agrees
        BY <3>1, <3>4 DEF Received, Means, Led!NoByte
      <4>2. Reports' /\ NothingRead'
        BY <3>2, <3>4 DEF Received
      <4> QED
        BY <2>1, <3>4, <4>1, <4>2 DEF Received, NotSent, Agrees
    <3> QED
      BY <1>0, <2>1, <3>2, <3>3, <3>4 DEF NotSent, Sent, Agrees
  <2> QED
    BY <2>2, <2>3
<1>5. CASE Led!HandleByte
  <2>1. /\ UNCHANGED <<key, toBoard, toPc, ledon, lastsent, hasty, resets>>
        /\ byte' = Led!NoByte
    BY <1>5 DEF Led!HandleByte, Led!boardVars, Led!link
  <2>2. NothingRead' /\ (Reports => Reports')
    BY <2>1 DEF NothingRead, Reports
  <2>3. byte # "a" => ledstate' = ledstate
    BY <1>5 DEF Led!HandleByte, Led!Understood
  <2>4. ASSUME NothingRead, Agrees PROVE Agrees'
    BY <2>1, <2>3, <2>4 DEF NothingRead, Agrees, Led!NoByte
  <2>5. ASSUME NothingRead, NEW a, Means(a) PROVE Means(a)'
    BY <2>1, <2>3, <2>4, <2>5 DEF NothingRead, Means, Agrees, Led!NoByte
  <2>6. ASSUME Means(byte) PROVE Agrees'
    <3>1. CASE byte = "a" /\ lastsent \in {"s", "e"}
      BY <1>5, <2>1, <2>6, <3>1 DEF Led!HandleByte, Led!Understood, Agrees, Means, Led!NoByte
    <3>2. CASE ~(byte = "a" /\ lastsent \in {"s", "e"})
      <4>1. ledstate' = ledstate
        BY <1>5, <3>2 DEF Led!HandleByte, Led!Understood
      <4> QED
        BY <2>1, <2>6, <3>2, <4>1 DEF Means, Agrees
    <3> QED
      BY <3>1, <3>2
  <2>7. ASSUME Obeyed PROVE Obeyed'
    BY <2>1, <2>2, <2>5, <2>7, Zenon DEF Obeyed, AnswerAt, NothingRead
  <2> QED
    BY <1>0, <2>1, <2>2, <2>4, <2>6, <2>7, Zenon DEF NotSent, Sent, Received
<1>6. CASE Led!Output \/ Led!CountPeriod \/ Led!SpuriousWakeup
  BY <1>6, <1>a DEF Led!Output, Led!Wait, Led!PrintOutput, Led!CountPeriod,
     Led!SpuriousWakeup, Led!shared, Led!boardVars, Led!link
<1>7. CASE Led!Obey
  <2> DEFINE answer == IF Head(toBoard) \in {"h", "b"} THEN Head(toBoard) ELSE "a"
  <2>1. /\ UNCHANGED <<key, byte, ledstate, lastsent, hasty, resets>>
        /\ toBoard # << >> /\ toPc' = Append(toPc, answer)
    BY <1>7 DEF Led!Obey, Led!threads, Led!shared
  <2>2. Sent
    BY <1>0, <2>1 DEF NotSent, Obeyed, Received
  <2>3. toBoard' = << >> /\ Head(toBoard) = lastsent
    BY <1>7, <2>2 DEF Led!Obey, Sent
  <2>4. ASSUME NEW a, a = answer PROVE Means(a)'
    <3>1. a = IF lastsent \in {"h", "b"} THEN lastsent ELSE "a"
      BY <2>3, <2>4
    <3>2. Agrees /\ UNCHANGED <<lastsent, ledstate>>
      BY <2>1, <2>2 DEF Sent
    <3>3. CASE lastsent = "s"
      <4>1. ledon'
        BY <1>7, <2>3, <3>3 DEF Led!Obey
      <4> QED
        BY <3>1, <3>2, <3>3, <4>1 DEF Means
    <3>4. CASE lastsent = "e"
      <4>1. ~ ledon'
        BY <1>7, <2>3, <3>4 DEF Led!Obey
      <4> QED
        BY <3>1, <3>2, <3>4, <4>1 DEF Means
    <3>5. CASE lastsent \notin {"s", "e"}
      <4>1. ledon' = ledon
        BY <1>7, <2>3, <3>5 DEF Led!Obey
      <4> QED
        BY <3>1, <3>2, <3>5, <4>1 DEF Means, Agrees
    <3> QED
      BY <3>3, <3>4, <3>5
  <2>5. answer # "blink"
    OBVIOUS
  <2> HIDE DEF answer
  <2>6. \E i \in DOMAIN toPc' : AnswerAt(i)'
    <3> DEFINE k == Len(toPc) + 1
    <3>1. /\ k \in DOMAIN toPc' /\ toPc'[k] = answer
          /\ \A i \in DOMAIN toPc' : i # k => toPc'[i] = "blink"
      BY <2>1, <2>2, OneMore DEF Sent, Reports
    <3>2. \E i \in DOMAIN toPc' : i = k
      BY <3>1
    <3>3. PICK i \in DOMAIN toPc' : i = k
      BY <3>2
    <3>4. Means(toPc[i])'
      BY <2>4, <3>1, <3>3 DEF Means, Agrees
    <3> QED
      BY <2>5, <3>1, <3>3, <3>4 DEF AnswerAt
  <2> QED
    BY <2>1, <2>2, <2>3, <2>6, Zenon DEF Sent, Obeyed, NothingRead
<1>8. CASE Led!Blink
  <2>1. /\ UNCHANGED <<key, byte, ledstate, ledon, lastsent, toBoard, hasty, resets>>
        /\ toPc' = Append(toPc, "blink")
    BY <1>8 DEF Led!Blink, Led!threads, Led!shared, Led!boardVars
  <2>2. Reports => Reports'
    BY <2>1, OneMore DEF Reports
  <2>3. ASSUME NEW i \in DOMAIN toPc, AnswerAt(i) PROVE i \in DOMAIN toPc' /\ AnswerAt(i)'
    <3>1. i \in DOMAIN toPc' /\ toPc'[i] = toPc[i]
      BY <2>1, <2>3, OneMore
    <3>2. \A j \in DOMAIN toPc' : j # i => toPc'[j] = "blink"
      BY <2>1, <2>3, OneMore DEF AnswerAt
    <3> QED
      BY <2>1, <2>3, <3>1, <3>2 DEF AnswerAt, Means, Agrees
  <2> QED
    BY <1>0, <2>1, <2>2, <2>3, Zenon DEF NotSent, Sent, Obeyed, Received, NothingRead,
       Means, Agrees
<1>9. CASE Led!Boot \/ Led!Reset
  <2>1. resets' # 0
    <3>1. CASE Led!Boot
      BY <3>1 DEF Led!Boot, LedType
    <3>2. CASE Led!Reset
      BY <3>2, SMT DEF Led!Reset, LedType
    <3> QED
      BY <1>9, <3>1, <3>2
  <2> QED
    BY <2>1
<1> QED
  BY <1>1, <1>2, <1>3, <1>4, <1>5, <1>6, <1>7, <1>8, <1>9
     DEF ThreadsNext, InPc, InLed, InAlarm, Led!Next, Led!Sender, Led!Receiver, allVars

(* Once every key is answered, the LED is what the program says it is, for *)
(* any number of keys, of answers and of bytes on the line, as long as the *)
(* user waits for each answer and the board is not restarted.              *)
THEOREM LedIsAsStated == FairThreads => []LedstateAgrees
<1>1. ThreadsInit => LedType /\ OneKey
  BY LedInit
<1>2. LedType /\ OneKey /\ [ThreadsNext]_allVars => (LedType /\ OneKey)'
  BY LedTypeStep, OneKeyStep, InstancesAssumption
<1>3. LedType /\ OneKey => LedstateAgrees
  <2> SUFFICES ASSUME OneKey, Led!Answered, ~hasty, resets = 0 PROVE Agrees
    BY DEF LedstateAgrees, Led!LedstateAgrees, Agrees
  <2> QED
    BY DEF OneKey, NotSent, Sent, Obeyed, Received, AnswerAt, Led!Answered, Means,
       Led!NoByte
<1> QED
  BY <1>1, <1>2, <1>3, PTL DEF FairThreads
=============================================================================
