------------------------- MODULE NucleoSerialProofs -------------------------
(***************************************************************************)
(* Theorems about the bytes of the firmware: for any commands, any sizes of*)
(* messages and of the two rings that a message fits into, and any         *)
(* interleaving of send_buffer and receive_message with the interrupts.    *)
(* First the transmit side, then both, as the system model sees them.      *)
(***************************************************************************)
EXTENDS NucleoSerial, DataProofs

(* The loop is inside send_buffer.                                         *)
Sending == {"send", "tx_spin", "start"}

-----------------------------------------------------------------------------
(* The steps, as the transmit side sees them.                              *)

SendBegins(m) ==
  /\ pc \notin Sending /\ pc' = "send"
  /\ next' \in {"abort", "work"}
  /\ reply' = m /\ stored' = 0 /\ empty' = (tx = << >>)
  /\ UNCHANGED <<tx, tdr, tc, assembled>>

Elsewhere ==
  /\ pc' = pc \/ (pc \notin Sending /\ pc' \notin Sending)
  /\ UNCHANGED <<tx, tdr, tc, assembled, next, reply, stored, empty>>

(* An interrupt never moves the loop but out of its sleep.                 *)
LEMMA WokenElsewhere ==
  pc' = Woken => pc' = pc \/ (pc \notin Sending /\ pc' \notin Sending)
  BY DEF Woken, Sending

(* The last byte of a message leads to an answer.                          *)
LEMMA CompleteSends ==
  ASSUME NEW bytes, pc = "receive", Complete(bytes),
         UNCHANGED <<tx, tdr, tc, assembled>>
  PROVE  \E m : SendBegins(m)
<1>1. ASSUME NEW m, StartSend(m, "abort")
      PROVE  SendBegins(m)
  BY <1>1, Zenon DEF StartSend, SendBegins, Sending
<1>2. \E m : StartSend(m, "abort")
  BY Zenon DEF Complete
<1> QED
  BY <1>1, <1>2, Zenon

(* Every step of the system is one of these.                               *)
LEMMA StepKinds ==
  [Next]_vars => \/ \E m : SendBegins(m)
                 \/ Elsewhere
                 \/ Store \/ SpinForRoom \/ StartTransmission
                 \/ Tx_interrupt \/ ByteLeaves
<1>1. CASE UNCHANGED vars
  BY <1>1, Zenon DEF vars, loopVars, portVars, envVars, Elsewhere
<1>2. CASE HandleAbortRequest
  <2>1. CASE abort_request /\ nucleo.computing
    <3>1. StartSend(N!Plain("MSG_ABORT"), "work") /\ pc = "abort"
      BY <1>2, <2>1, Zenon DEF HandleAbortRequest
    <3>2. UNCHANGED <<tx, tdr, tc, assembled>>
      BY <1>2, Zenon DEF HandleAbortRequest, portVars, envVars
    <3>3. SendBegins(N!Plain("MSG_ABORT"))
      BY <3>1, <3>2, Zenon DEF StartSend, SendBegins, Sending
    <3> QED
      BY <3>3
  <2>2. CASE ~(abort_request /\ nucleo.computing)
    BY <1>2, <2>2, Zenon DEF HandleAbortRequest, portVars, envVars, Elsewhere, Sending
  <2> QED
    BY <2>1, <2>2
<1>3. CASE StartReceive
  BY <1>3, Zenon DEF StartReceive, portVars, envVars, Elsewhere, Sending
<1>4. CASE ReceiveByte
  <2> DEFINE bytes == Append(msg_buf, Head(rx))
             type == TypeByte(bytes[1])
  <2>1. UNCHANGED <<tx, tdr, tc, assembled>> /\ pc = "receive"
    BY <1>4, Zenon DEF ReceiveByte, envVars
  <2>2. \/ pc' = "abort" /\ UNCHANGED <<reply, stored, empty, next>>
        \/ Complete(bytes)
        \/ UNCHANGED <<reply, stored, empty, pc, next>>
    BY <1>4, Zenon DEF ReceiveByte
  <2> QED
    BY <2>1, <2>2, CompleteSends, Zenon DEF Elsewhere, Sending
<1>5. CASE SpinForByte
  BY <1>5, Zenon DEF SpinForByte, portVars, envVars, Elsewhere, Sending
<1>6. CASE SendPixel \/ SendDone
  <2>1. /\ pc = "work" /\ UNCHANGED <<tx, tdr, tc, assembled>>
        /\ \E m : StartSend(m, "abort")
    BY <1>6, Zenon DEF SendPixel, SendDone, Computing, portVars, envVars
  <2> QED
    BY <2>1, Zenon DEF StartSend, SendBegins, Sending
<1>7. CASE Sleep
  BY <1>7, Zenon DEF Sleep, portVars, envVars, Elsewhere, Sending
<1>8. CASE Rx_interrupt \/ Button
  BY <1>8, WokenElsewhere, Zenon
     DEF Rx_interrupt, Button, portVars, envVars, Elsewhere
<1>9. CASE PcSend \/ ByteArrives \/ LoseByte
  BY <1>9, Zenon DEF PcSend, ByteArrives, LoseByte, loopVars, portVars, Elsewhere
<1> QED
  BY <1>1, <1>2, <1>3, <1>4, <1>5, <1>6, <1>7, <1>8, <1>9, Zenon DEF Next, Loop

-----------------------------------------------------------------------------
(* Bytes. Which messages the board sends does not matter, so that the type *)
(* of a sequence of bytes leaves the set M of messages open.               *)
BytesOf(M) == {b \in [m : M, i : Nat] : b.i \in 1 .. get_message_size(b.m.type)}

(* A message has at least one byte and fits into the transmit ring.        *)
LEMMA MessageFits ==
  ASSUME NEW type
  PROVE  /\ get_message_size(type) \in Nat \ {0}
         /\ get_message_size(type) <= TX_SIZE
  BY SerialAssumption, SMT DEF get_message_size

(* What a message consists of.                                             *)
LEMMA BytesFacts ==
  ASSUME NEW M, NEW m \in M
  PROVE  /\ Bytes(m) \in Seq(BytesOf(M))
         /\ Len(Bytes(m)) = get_message_size(m.type)
         /\ \A i \in 1 .. get_message_size(m.type) : Bytes(m)[i] = [m |-> m, i |-> i]
<1> DEFINE size == get_message_size(m.type)
<1>1. size \in Nat
  BY MessageFits
<1>2. \A i \in 1 .. size : [m |-> m, i |-> i] \in BytesOf(M)
  BY <1>1, SMT DEF BytesOf
<1> QED
  BY <1>1, <1>2, SMT DEF Bytes

LEMMA MessageLength ==
  ASSUME NEW m
  PROVE  Len(Bytes(m)) \in Nat \ {0} /\ Len(Bytes(m)) <= TX_SIZE
<1>1. m \in {m}
  OBVIOUS
<1>2. Len(Bytes(m)) = get_message_size(m.type)
  BY <1>1, BytesFacts
<1> QED
  BY <1>2, MessageFits

(* More messages, more bytes.                                              *)
LEMMA BytesMonotonic ==
  ASSUME NEW M, NEW L, M \subseteq L, NEW s \in Seq(BytesOf(M))
  PROVE  s \in Seq(BytesOf(L))
<1>1. BytesOf(M) \subseteq BytesOf(L)
  BY DEF BytesOf
<1> QED
  BY <1>1, SeqMonotonic

(* The ring, the port and what the PC has received of a message.           *)
TxTyped(M) ==
  /\ reply \in M
  /\ tx \in Seq(BytesOf(M))
  /\ tdr \in Seq(BytesOf(M)) /\ Len(tdr) <= 1
  /\ assembled \in Seq(BytesOf(M))

TxType == \E M : TxTyped(M)

LEMMA TxTypeInit == Init => TxType
<1>1. Init => TxTyped({reply})
  BY EmptySeq, SMT DEF Init, TxTyped
<1> QED
  BY <1>1 DEF TxType

(* The first byte of the ring moves into the free port.                    *)
Moves == tdr = << >> /\ tx # << >> /\ tdr' = <<Head(tx)>> /\ tx' = Tail(tx)

LEMMA MovesTyped ==
  ASSUME NEW M, TxTyped(M), Moves, UNCHANGED <<reply, assembled>>
  PROVE  TxTyped(M)'
<1>1. Head(tx) \in BytesOf(M) /\ Tail(tx) \in Seq(BytesOf(M))
  BY HeadTailProperties DEF TxTyped, Moves
<1>2. <<Head(tx)>> \in Seq(BytesOf(M)) /\ Len(<<Head(tx)>>) = 1
  BY <1>1, SMT
<1> QED
  BY <1>1, <1>2 DEF TxTyped, Moves

(* Every step keeps the types, as long as StartTransmission finds a byte.  *)
LEMMA TxTypeStep ==
  ASSUME TxType, [Next]_vars,
         pc \in {"send", "tx_spin"} => stored \in Nat /\ stored < Len(Bytes(reply)),
         pc = "start" /\ empty => tx # << >>
  PROVE  TxType'
<1>1. PICK M : TxTyped(M)
  BY DEF TxType
<1>2. SUFFICES \E L : TxTyped(L)'
  BY DEF TxType
<1>3. ASSUME NEW m, SendBegins(m)
      PROVE  \E L : TxTyped(L)'
  <2>1. M \subseteq M \union {m} /\ m \in M \union {m}
    OBVIOUS
  <2>2. TxTyped(M \union {m})'
    BY <1>1, <1>3, <2>1, BytesMonotonic, Zenon DEF TxTyped, SendBegins
  <2> QED
    BY <2>2
<1>4. CASE Elsewhere \/ SpinForRoom
  BY <1>1, <1>4 DEF Elsewhere, SpinForRoom, portVars, envVars, TxTyped
<1>5. CASE Store
  <2> DEFINE b == Bytes(reply)[stored + 1]
  <2>1. b \in BytesOf(M)
    <3>1. Bytes(reply) \in Seq(BytesOf(M)) /\ stored + 1 \in 1 .. Len(Bytes(reply))
      BY <1>1, <1>5, BytesFacts, SMT DEF TxTyped, Store
    <3> QED
      BY <3>1, ElementOfSeq
  <2>2. Append(tx, b) \in Seq(BytesOf(M))
    BY <1>1, <2>1, AppendProperties DEF TxTyped
  <2> QED
    BY <1>1, <1>5, <2>2 DEF Store, envVars, TxTyped
<1>6. CASE StartTransmission
  <2>1. Moves \/ UNCHANGED <<tdr, tx>>
    BY <1>6, Zenon DEF StartTransmission, Moves
  <2>2. UNCHANGED <<reply, assembled>>
    BY <1>6 DEF StartTransmission, envVars
  <2> QED
    BY <1>1, <2>1, <2>2, MovesTyped DEF TxTyped
<1>7. CASE Tx_interrupt
  <2>1. Moves \/ UNCHANGED <<tdr, tx>>
    BY <1>7, Zenon DEF Tx_interrupt, Moves
  <2>2. UNCHANGED <<reply, assembled>>
    BY <1>7 DEF Tx_interrupt, envVars
  <2> QED
    BY <1>1, <2>1, <2>2, MovesTyped DEF TxTyped
<1>8. CASE ByteLeaves
  <2>1. /\ << >> \in Seq(BytesOf(M)) /\ Len(<< >>) <= 1
        /\ assembled \o tdr \in Seq(BytesOf(M))
    BY <1>1, EmptySeq, ConcatProperties DEF TxTyped
  <2>2. assembled' = << >> \/ assembled' = assembled \o tdr
    BY <1>8 DEF ByteLeaves
  <2>3. tdr' = << >> /\ UNCHANGED <<reply, tx>>
    BY <1>8 DEF ByteLeaves, loopVars
  <2>4. TxTyped(M)'
    BY <1>1, <2>1, <2>2, <2>3, Zenon DEF TxTyped
  <2> QED
    BY <2>4
<1> QED
  BY <1>3, <1>4, <1>5, <1>6, <1>7, <1>8, StepKinds

-----------------------------------------------------------------------------
(* TransmitterRuns                                                         *)

Running == tdr # << >> \/ tc

(* Where send_buffer is and what is in the ring.  If the ring was empty    *)
(* when it began, what is in the ring is what it stored, and there is      *)
(* always room for the rest; if it was not, the transmission was running   *)
(* and still is; and while it waits for room, there is none or a byte has  *)
(* gone into the port to make some.                                        *)
SendInv ==
  /\ next \in {"abort", "work"}
  /\ Len(tx) <= TX_SIZE
  /\ pc \in {"send", "tx_spin"} => stored \in Nat /\ stored < Len(Bytes(reply))
  /\ pc \in Sending /\ empty => pc # "tx_spin" /\ Len(tx) = stored
  /\ pc = "start" /\ empty => tx # << >>
  /\ pc = "tx_spin" => TxFull \/ tdr # << >>

RunsInv ==
  /\ pc \notin Sending /\ tx # << >> => Running
  /\ pc \in Sending /\ ~empty => Running

(* MSG_STARTUP goes into an empty ring.                                    *)
LEMMA SendInit == Init => SendInv /\ RunsInv
<1> SUFFICES ASSUME Init PROVE SendInv /\ RunsInv
  OBVIOUS
<1>1. Len(Bytes(reply)) \in Nat \ {0}
  BY MessageLength
<1>2. SendInv
  BY <1>1, SerialAssumption, SMT DEF Init, SendInv, Sending
<1>3. RunsInv
  BY Zenon DEF Init, RunsInv, Sending
<1> QED
  BY <1>2, <1>3

(* The place of send_buffer and the ring stay consistent.                  *)
LEMMA SendStep ==
  ASSUME TxType, TxType', SendInv, [Next]_vars
  PROVE  SendInv'
<1> USE DEF Sending
<1>0. PICK M : TxTyped(M)
  BY DEF TxType
<1>1. /\ Len(tx) \in Nat /\ (tx = << >> <=> Len(tx) = 0)
      /\ tx # << >> => Len(Tail(tx)) = Len(tx) - 1
      /\ \A b : Len(Append(tx, b)) = Len(tx) + 1 /\ Append(tx, b) # << >>
  <2>1. tx \in Seq(BytesOf(M))
    BY <1>0 DEF TxTyped
  <2> QED
    BY <2>1, SMT
<1>2. \A m : Len(Bytes(m)) \in Nat \ {0} /\ Len(Bytes(m)) <= TX_SIZE
  BY MessageLength
<1>3. ASSUME NEW m, SendBegins(m)
      PROVE  SendInv'
  <2>1. /\ pc' = "send" /\ stored' = 0 /\ tx' = tx /\ reply' = m
        /\ next' \in {"abort", "work"} /\ (empty' => tx = << >>)
    BY <1>3, Zenon DEF SendBegins
  <2> QED
    BY <1>1, <1>2, <2>1, SMT DEF SendInv
<1>4. CASE Elsewhere
  BY <1>4, Zenon DEF Elsewhere, SendInv, TxFull
<1>5. CASE Store
  <2>1. /\ pc = "send" /\ ~TxFull /\ stored' = stored + 1
        /\ pc' = IF stored' = Len(Bytes(reply)) THEN "start" ELSE "send"
        /\ Len(tx') = Len(tx) + 1 /\ tx' # << >>
        /\ UNCHANGED <<next, reply>> /\ empty' = empty
    BY <1>1, <1>5, Zenon DEF Store
  <2>2. CASE empty
    <3>1. Len(tx) = stored
      BY <2>1, <2>2 DEF SendInv
    <3> QED
      BY <1>1, <1>2, <2>1, <3>1, SerialAssumption, SMT DEF SendInv, TxFull
  <2>3. CASE ~empty
    <3>1. ~empty'
      BY <2>1, <2>3
    <3> QED
      BY <1>1, <1>2, <2>1, <3>1, SerialAssumption, SMT DEF SendInv, TxFull
  <2> QED
    BY <2>2, <2>3
<1>6. CASE SpinForRoom
  <2>1. UNCHANGED <<next, tx, tdr, reply, stored, empty>>
    BY <1>6 DEF SpinForRoom, portVars
  <2>2. CASE pc = "send" /\ TxFull /\ pc' = "tx_spin"
    <3>1. ~empty
      BY <1>1, <1>2, <2>2, SerialAssumption, SMT DEF SendInv, TxFull
    <3> QED
      BY <2>1, <2>2, <3>1, Zenon DEF SendInv, TxFull
  <2>3. CASE pc = "tx_spin" /\ ~TxFull /\ pc' = "send"
    BY <2>1, <2>3, Zenon DEF SendInv, TxFull
  <2> QED
    BY <1>6, <2>2, <2>3 DEF SpinForRoom
<1>7. CASE StartTransmission
  <2>1. /\ Len(tx') <= Len(tx) /\ Len(tx') \in Nat
    <3>1. (tx # << >> /\ tx' = Tail(tx)) \/ tx' = tx
      BY <1>7, Zenon DEF StartTransmission, SendInv
    <3> QED
      BY <1>1, <3>1, SMT
  <2>2. pc' \in {"abort", "work"} /\ next' = next
    BY <1>7, Zenon DEF StartTransmission, SendInv
  <2> QED
    BY <1>1, <2>1, <2>2, SerialAssumption, SMT DEF SendInv
<1>8. CASE Tx_interrupt
  <2>1. /\ pc' = pc \/ (pc \notin Sending /\ pc' \notin Sending)
        /\ pc \notin {"send", "start"}
        /\ UNCHANGED <<next, reply, stored, empty>>
    BY <1>8, WokenElsewhere, Zenon DEF Tx_interrupt, IrqEnabled
  <2>2. Moves \/ (UNCHANGED <<tdr, tx>> /\ (tdr # << >> \/ tx = << >>))
    BY <1>8, Zenon DEF Tx_interrupt, Moves
  <2>3. Len(tx') <= Len(tx) /\ Len(tx') \in Nat
    BY <1>1, <2>2, SMT DEF Moves
  <2>4. Len(tx') <= TX_SIZE
    BY <1>1, <2>3, SerialAssumption, SMT DEF SendInv
  <2>5. Moves => tdr' # << >>
    BY SMT DEF Moves
  <2>6. TxFull => tx # << >>
    BY <1>1, SerialAssumption, SMT DEF TxFull
  <2>7. pc = "tx_spin" => tdr' # << >>
    BY <2>2, <2>5, <2>6, Zenon DEF SendInv
  <2> QED
    BY <2>1, <2>4, <2>7, Zenon DEF SendInv
<1>9. CASE ByteLeaves
  <2>1. /\ UNCHANGED <<pc, next, reply, stored, empty, tx>>
        /\ pc = "tx_spin" => TxFull
    BY <1>9 DEF ByteLeaves, loopVars
  <2> QED
    BY <2>1, Zenon DEF SendInv, TxFull
<1> QED
  BY <1>3, <1>4, <1>5, <1>6, <1>7, <1>8, <1>9, StepKinds, Zenon

(* The transmission goes on.                                               *)
LEMMA RunsStep ==
  ASSUME SendInv, RunsInv, [Next]_vars
  PROVE  RunsInv'
<1> USE DEF Sending
<1>1. ASSUME NEW m, SendBegins(m)
      PROVE  RunsInv'
  BY <1>1, Zenon DEF SendBegins, RunsInv, Running
<1>2. CASE Elsewhere
  BY <1>2, Zenon DEF Elsewhere, RunsInv, Running
<1>3. CASE Store
  <2>1. pc' \in {"send", "start"} /\ pc = "send"
    BY <1>3 DEF Store
  <2> QED
    BY <1>3, <2>1, Zenon DEF Store, RunsInv, Running
<1>4. CASE SpinForRoom
  BY <1>4, Zenon DEF SpinForRoom, portVars, RunsInv, Running
<1>5. CASE StartTransmission
  <2>1. pc = "start" /\ pc' \in {"abort", "work"} /\ tc' = tc
    BY <1>5, Zenon DEF StartTransmission, SendInv
  <2>2. CASE empty /\ tdr = << >>
    <3>1. tdr' = <<Head(tx)>>
      BY <1>5, <2>2, Zenon DEF StartTransmission
    <3>2. tdr' # << >>
      BY <3>1, SMT
    <3> QED
      BY <2>1, <3>2, Zenon DEF RunsInv, Running
  <2>3. CASE ~(empty /\ tdr = << >>)
    <3>1. UNCHANGED <<tdr, tx>>
      BY <1>5, <2>3, Zenon DEF StartTransmission
    <3>2. Running
      BY <2>1, <2>3, Zenon DEF RunsInv, Running
    <3>3. Running'
      BY <2>1, <3>1, <3>2, Zenon DEF Running
    <3> QED
      BY <2>1, <3>3, Zenon DEF RunsInv
  <2> QED
    BY <2>2, <2>3
<1>6. CASE Tx_interrupt
  <2>1. /\ pc' = pc \/ (pc \notin Sending /\ pc' \notin Sending)
        /\ pc \notin {"send", "start"} /\ empty' = empty
    BY <1>6, WokenElsewhere, Zenon DEF Tx_interrupt, IrqEnabled
  <2>2. Moves \/ (UNCHANGED <<tdr, tx>> /\ (tdr # << >> \/ tx = << >>))
    BY <1>6, Zenon DEF Tx_interrupt, Moves
  <2>3. Moves => tdr' # << >>
    BY SMT DEF Moves
  <2>4. tx' # << >> => tdr' # << >>
    BY <2>2, <2>3, Zenon DEF Moves
  <2>5. pc = "tx_spin" => tdr' # << >>
    <3>1. pc = "tx_spin" => TxFull \/ tdr # << >>
      BY DEF SendInv
    <3>2. TxFull => tx # << >>
      BY SerialAssumption, SMT DEF TxFull
    <3> QED
      BY <2>2, <2>3, <3>1, <3>2, Zenon
  <2> QED
    BY <2>1, <2>4, <2>5, Zenon DEF RunsInv, Running
<1>7. CASE ByteLeaves
  <2>1. Running'
    BY <1>7, Zenon DEF ByteLeaves, Running
  <2> QED
    BY <2>1, Zenon DEF RunsInv
<1> QED
  BY <1>1, <1>2, <1>3, <1>4, <1>5, <1>6, <1>7, StepKinds, Zenon

(* The types and the place of send_buffer, invariant together.             *)
LEMMA SendCorrect == Spec => [](TxType /\ SendInv /\ RunsInv)
<1>1. TxType /\ SendInv /\ [Next]_vars => TxType'
  <2> SUFFICES ASSUME TxType, SendInv, [Next]_vars PROVE TxType'
    OBVIOUS
  <2>1. /\ pc \in {"send", "tx_spin"} => stored \in Nat /\ stored < Len(Bytes(reply))
        /\ pc = "start" /\ empty => tx # << >>
    BY DEF SendInv
  <2> QED
    BY <2>1, TxTypeStep
<1>2. TxType /\ SendInv /\ RunsInv /\ [Next]_vars
        => TxType' /\ SendInv' /\ RunsInv'
  BY <1>1, SendStep, RunsStep
<1> QED
  BY <1>2, TxTypeInit, SendInit, PTL DEF Spec

(* The transmission never stops with bytes left in the ring, for any sizes *)
(* of ring and message, although send_buffer decides on the strength of a  *)
(* test it made before it stored, and waits for room with the interrupts   *)
(* enabled in the middle of it.                                            *)
THEOREM TransmitterKeepsRunning == Spec => []TransmitterRuns
<1>1. SendInv /\ RunsInv => TransmitterRuns
  BY Zenon DEF SendInv, RunsInv, TransmitterRuns, IrqEnabled, Sending, Running
<1> QED
  BY <1>1, SendCorrect, PTL

-----------------------------------------------------------------------------
(* AnswersInFrame                                                          *)

(* The bytes between the last message the PC has received and the last one *)
(* the board has decided on.                                               *)
Stream == assembled \o tdr \o tx \o Unstored

Follows(a, b) == \/ b.i = 1 /\ IsLast(a)
                 \/ b.i > 1 /\ a = [b EXCEPT !.i = @ - 1]

InFrame(s) == \A k \in 1 .. Len(s) :
                IF k = 1 THEN s[1].i = 1 ELSE Follows(s[k - 1], s[k])

EndsWhole(s) == s # << >> => IsLast(s[Len(s)])

(* A whole message may follow whole messages.                              *)
LEMMA WholeMessage ==
  ASSUME NEW M, NEW m \in M, NEW s \in Seq(BytesOf(M)),
         InFrame(s), EndsWhole(s)
  PROVE  InFrame(s \o Bytes(m)) /\ EndsWhole(s \o Bytes(m))
<1> DEFINE size == get_message_size(m.type)
           t == s \o Bytes(m)
<1>1. /\ Len(s) \in Nat /\ size \in Nat \ {0}
      /\ s = << >> <=> Len(s) = 0
  BY MessageFits, SMT
<1>2. /\ t \in Seq(BytesOf(M)) /\ Len(t) = Len(s) + size
      /\ \A k \in 1 .. Len(s) : t[k] = s[k]
      /\ \A i \in 1 .. size : t[Len(s) + i] = [m |-> m, i |-> i]
  <2>1. /\ Bytes(m) \in Seq(BytesOf(M)) /\ Len(Bytes(m)) = size
        /\ \A i \in 1 .. size : Bytes(m)[i] = [m |-> m, i |-> i]
    BY BytesFacts
  <2>2. /\ t \in Seq(BytesOf(M)) /\ Len(t) = Len(s) + Len(Bytes(m))
        /\ \A k \in 1 .. Len(s) + Len(Bytes(m)) :
             t[k] = IF k <= Len(s) THEN s[k] ELSE Bytes(m)[k - Len(s)]
    BY <2>1, ConcatProperties
  <2> HIDE DEF t, size
  <2> QED
    BY <1>1, <2>1, <2>2, SMT
<1>3. Len(t) \in 1 .. Len(t) /\ t # << >> /\ t[Len(t)] = [m |-> m, i |-> size]
  <2> HIDE DEF t, size
  <2> QED
    BY <1>1, <1>2, SMT
<1>4. EndsWhole(t)
  <2>1. IsLast([m |-> m, i |-> size])
    BY DEF IsLast
  <2> QED
    BY <1>3, <2>1 DEF EndsWhole
<1>5. InFrame(t)
  <2> SUFFICES ASSUME NEW k \in 1 .. Len(t)
               PROVE  IF k = 1 THEN t[1].i = 1 ELSE Follows(t[k - 1], t[k])
    BY DEF InFrame
  <2> HIDE DEF t
  <2>1. CASE k <= Len(s)
    <3>1. k \in 1 .. Len(s) /\ (k # 1 => k - 1 \in 1 .. Len(s))
      BY <1>1, <1>2, <2>1, SMT
    <3>2. t[k] = s[k] /\ (k # 1 => t[k - 1] = s[k - 1])
      BY <1>2, <3>1
    <3> QED
      BY <3>1, <3>2 DEF InFrame
  <2>2. CASE k = Len(s) + 1
    <3>1. t[k] = [m |-> m, i |-> 1]
      <4> HIDE DEF size
      <4> QED
        BY <1>1, <1>2, <2>2, SMT
    <3>2. k # 1 => s # << >> /\ t[k - 1] = s[Len(s)]
      <4> HIDE DEF size
      <4> QED
        BY <1>1, <1>2, <2>2, SMT
    <3>3. k # 1 => IsLast(t[k - 1])
      BY <3>2 DEF EndsWhole
    <3> QED
      BY <3>1, <3>3 DEF Follows
  <2>3. CASE k > Len(s) + 1
    <3> DEFINE j == k - Len(s)
    <3>1. j \in 1 .. size /\ j - 1 \in 1 .. size /\ k # 1 /\ j > 1 /\ j \in Int
      <4> HIDE DEF size
      <4> QED
        BY <1>1, <1>2, <2>3, SMT
    <3>2. t[Len(s) + j] = [m |-> m, i |-> j]
          /\ t[Len(s) + (j - 1)] = [m |-> m, i |-> j - 1]
      <4> HIDE DEF j, size
      <4> QED
        BY <1>2, <3>1
    <3>3. Len(s) + j = k /\ Len(s) + (j - 1) = k - 1
      BY <1>1, SMT
    <3>4. [[m |-> m, i |-> j] EXCEPT !.i = @ - 1] = [m |-> m, i |-> j - 1]
      OBVIOUS
    <3>5. Follows([m |-> m, i |-> j - 1], [m |-> m, i |-> j])
      <4> HIDE DEF j
      <4> QED
        BY <3>1, <3>4 DEF Follows
    <3>6. Follows(t[k - 1], t[k])
      BY <3>2, <3>3, <3>5
    <3> QED
      BY <3>1, <3>6
  <2> QED
    BY <1>1, <1>2, <2>1, <2>2, <2>3, SMT
<1> QED
  BY <1>4, <1>5

(* What follows a last byte is in frame by itself.                         *)
LEMMA WholeDropped ==
  ASSUME NEW M, NEW s \in Seq(BytesOf(M)), NEW t \in Seq(BytesOf(M)),
         InFrame(s \o t), EndsWhole(s \o t), s # << >>, IsLast(s[Len(s)])
  PROVE  InFrame(t) /\ EndsWhole(t)
<1> DEFINE u == s \o t
<1>1. /\ Len(s) \in Nat \ {0} /\ Len(t) \in Nat /\ Len(u) = Len(s) + Len(t)
      /\ u[Len(s)] = s[Len(s)]
      /\ \A k \in 1 .. Len(t) : u[Len(s) + k] = t[k]
      /\ u # << >>
  <2>1. Len(s) \in Nat \ {0} /\ Len(t) \in Nat
    BY SMT
  <2>2. /\ u \in Seq(BytesOf(M)) /\ Len(u) = Len(s) + Len(t)
        /\ \A k \in 1 .. Len(s) + Len(t) :
             u[k] = IF k <= Len(s) THEN s[k] ELSE t[k - Len(s)]
    BY ConcatProperties
  <2> HIDE DEF u
  <2> QED
    BY <2>1, <2>2, SMT
<1> HIDE DEF u
<1>2. EndsWhole(t)
  <2> SUFFICES ASSUME t # << >> PROVE IsLast(t[Len(t)])
    BY DEF EndsWhole
  <2>1. Len(t) \in 1 .. Len(t)
    BY SMT
  <2>2. u[Len(u)] = t[Len(t)]
    BY <1>1, <2>1
  <2> QED
    BY <1>1, <2>2 DEF EndsWhole, u
<1>3. InFrame(t)
  <2> SUFFICES ASSUME NEW k \in 1 .. Len(t)
               PROVE  IF k = 1 THEN t[1].i = 1 ELSE Follows(t[k - 1], t[k])
    BY DEF InFrame
  <2>1. /\ Len(s) + k \in 1 .. Len(u) /\ Len(s) + k # 1
        /\ k = 1 => (Len(s) + k) - 1 = Len(s)
        /\ k # 1 => k - 1 \in 1 .. Len(t) /\ (Len(s) + k) - 1 = Len(s) + (k - 1)
    BY <1>1, SMT
  <2>2. Follows(u[(Len(s) + k) - 1], u[Len(s) + k])
    BY <2>1 DEF InFrame, u
  <2>3. u[Len(s) + k] = t[k]
    BY <1>1
  <2>4. CASE k = 1
    <3>1. Follows(s[Len(s)], t[1])
      BY <1>1, <2>1, <2>2, <2>3, <2>4
    <3>2. s[Len(s)].i = get_message_size(s[Len(s)].m.type)
      BY DEF IsLast
    <3>3. /\ t[1] \in BytesOf(M) /\ s[Len(s)] \in BytesOf(M)
      BY <2>4, <1>1, ElementOfSeq, SMT
    <3>4. ASSUME t[1].i > 1, s[Len(s)] = [t[1] EXCEPT !.i = @ - 1]
          PROVE  FALSE
      <4>1. s[Len(s)].i = t[1].i - 1 /\ s[Len(s)].m = t[1].m
        BY <3>3, <3>4 DEF BytesOf
      <4>2. t[1].i \in 1 .. get_message_size(t[1].m.type)
        BY <3>3 DEF BytesOf
      <4>3. s[Len(s)].i = get_message_size(t[1].m.type)
        BY <3>2, <4>1
      <4> QED
        BY <4>1, <4>2, <4>3, MessageFits, SMT
    <3> QED
      BY <2>4, <3>1, <3>4 DEF Follows
  <2>5. CASE k # 1
    <3>1. u[(Len(s) + k) - 1] = t[k - 1]
      BY <1>1, <2>1, <2>5
    <3> QED
      BY <2>2, <2>3, <2>5, <3>1
  <2> QED
    BY <2>4, <2>5
<1> QED
  BY <1>2, <1>3

(* What send_buffer has not stored yet is a sequence of bytes.             *)
LEMMA UnstoredTyped ==
  ASSUME NEW M, TxTyped(M), SendInv
  PROVE  Unstored \in Seq(BytesOf(M))
<1>1. CASE pc \in {"send", "tx_spin"}
  <2>1. /\ Bytes(reply) \in Seq(BytesOf(M))
        /\ stored + 1 \in 1 .. Len(Bytes(reply))
        /\ Len(Bytes(reply)) \in Nat
    BY <1>1, BytesFacts, MessageLength, SMT DEF TxTyped, SendInv
  <2>2. \A i \in stored + 1 .. Len(Bytes(reply)) : Bytes(reply)[i] \in BytesOf(M)
    <3> DEFINE r == Bytes(reply)
    <3> HIDE DEF r
    <3>1. r \in Seq(BytesOf(M)) /\ stored + 1 \in 1 .. Len(r) /\ Len(r) \in Nat
      BY <2>1 DEF r
    <3>2. \A i \in stored + 1 .. Len(r) : i \in 1 .. Len(r)
      BY <3>1, SMT
    <3>3. \A i \in stored + 1 .. Len(r) : r[i] \in BytesOf(M)
      BY <3>1, <3>2, ElementOfSeq
    <3> QED
      BY <3>3 DEF r
  <2>3. SubSeq(Bytes(reply), stored + 1, Len(Bytes(reply))) \in Seq(BytesOf(M))
    <3>1. stored + 1 \in Int /\ Len(Bytes(reply)) \in Int
      BY <2>1, SMT
    <3> QED
      BY <2>2, <3>1, SubSeqProperties
  <2> QED
    BY <1>1, <2>3 DEF Unstored
<1>2. CASE pc \notin {"send", "tx_spin"}
  BY <1>2, EmptySeq DEF Unstored
<1> QED
  BY <1>1, <1>2

(* A byte that moves from the message into the ring keeps its place behind *)
(* whatever is in front of the ring.                                       *)
LEMMA StoreKeepsPlace ==
  ASSUME NEW M, TxTyped(M), SendInv, Store, NEW front \in Seq(BytesOf(M))
  PROVE  front \o tx' \o Unstored' = front \o tx \o Unstored
<1> DEFINE r == Bytes(reply)
           b == r[stored + 1]
           rest == SubSeq(r, stored + 2, Len(r))
<1>1. /\ r \in Seq(BytesOf(M)) /\ stored \in Nat /\ Len(r) \in Nat
      /\ stored < Len(r) /\ pc = "send"
  BY BytesFacts, MessageLength DEF TxTyped, SendInv, Store
<1>2. /\ UNCHANGED <<reply, tdr, assembled>>
      /\ tx' = Append(tx, b) /\ stored' = stored + 1
      /\ pc' = IF stored' = Len(r) THEN "start" ELSE "send"
  BY DEF Store, envVars
<1>3. stored + 1 \in 1 .. Len(r) /\ Len(r) \in stored + 1 .. Len(r)
  <2> HIDE DEF r
  <2> QED
    BY <1>1, SMT
<1>4. (stored + 1) + 1 = stored + 2
  BY <1>1, SMT
<1>5. Unstored = <<b>> \o rest
  <2>1. Unstored = SubSeq(r, stored + 1, Len(r))
    BY <1>1 DEF Unstored
  <2> HIDE DEF r
  <2> QED
    BY <1>1, <1>3, <1>4, <2>1, SubSeqRecursiveFirst
<1>6. Unstored' = rest
  <2>1. CASE stored + 1 = Len(r)
    <3>1. Unstored' = << >>
      BY <1>2, <2>1 DEF Unstored
    <3>2. rest = << >>
      <4> HIDE DEF r
      <4>1. stored + 2 \in Int /\ Len(r) \in Int /\ Len(r) < stored + 2
        BY <1>1, <2>1, SMT
      <4> QED
        BY <4>1, SubSeqEmpty
    <3> QED
      BY <3>1, <3>2
  <2>2. CASE stored + 1 # Len(r)
    <3>1. Unstored' = SubSeq(r, (stored + 1) + 1, Len(r))
      BY <1>2, <2>2 DEF Unstored
    <3> QED
      BY <1>4, <3>1
  <2> QED
    BY <2>1, <2>2
<1>7. b \in BytesOf(M) /\ rest \in Seq(BytesOf(M))
  <2> HIDE DEF r
  <2>1. r[stored + 1] \in BytesOf(M)
    BY <1>1, <1>3, ElementOfSeq
  <2>2. \A i \in stored + 2 .. Len(r) : i \in 1 .. Len(r)
    BY <1>1, SMT
  <2>3. \A i \in stored + 2 .. Len(r) : r[i] \in BytesOf(M)
    BY <1>1, <2>2, ElementOfSeq
  <2>4. stored + 2 \in Int /\ Len(r) \in Int
    BY <1>1, SMT
  <2> QED
    BY <2>1, <2>3, <2>4, SubSeqProperties
<1> HIDE DEF b, rest
<1>8. <<b>> \in Seq(BytesOf(M))
  BY <1>7, SMT
<1>9. tx' = tx \o <<b>>
  BY <1>2, <1>7, AppendIsConcat DEF TxTyped, b
<1>10. front \o tx \in Seq(BytesOf(M))
  BY ConcatProperties DEF TxTyped
<1>11. front \o tx' \o Unstored' = front \o (tx \o <<b>>) \o rest
  BY <1>6, <1>9
<1>12. front \o tx \o Unstored = front \o tx \o (<<b>> \o rest)
  BY <1>5
<1>13. front \o (tx \o <<b>>) = (front \o tx) \o <<b>>
  BY <1>8, ConcatAssociative DEF TxTyped
<1>14. ((front \o tx) \o <<b>>) \o rest = (front \o tx) \o (<<b>> \o rest)
  BY <1>7, <1>8, <1>10, ConcatAssociative
<1> QED
  BY <1>11, <1>12, <1>13, <1>14

(* So does a byte that moves from the ring into the port.                  *)
LEMMA MoveKeepsPlace ==
  ASSUME NEW M, TxTyped(M), Moves, NEW front \in Seq(BytesOf(M))
  PROVE  front \o tdr' \o tx' = front \o tdr \o tx
<1> DEFINE b == Head(tx)
<1>1. /\ b \in BytesOf(M) /\ Tail(tx) \in Seq(BytesOf(M))
      /\ tx \in Seq(BytesOf(M)) /\ tx = <<b>> \o Tail(tx)
      /\ <<b>> \in Seq(BytesOf(M))
  <2>1. tx \in Seq(BytesOf(M)) /\ tx # << >>
    BY DEF TxTyped, Moves
  <2> QED
    BY <2>1, SMT
<1>2. tdr = << >> /\ tdr' = <<b>> /\ tx' = Tail(tx)
  BY DEF Moves
<1>3. front \o tdr \o tx = front \o tx
  BY <1>2, ConcatEmptySeq
<1>4. front \o tdr' \o tx' = front \o <<b>> \o Tail(tx)
  BY <1>2
<1> HIDE DEF b
<1>5. (front \o <<b>>) \o Tail(tx) = front \o tx
  BY <1>1, ConcatAssociative
<1> QED
  BY <1>3, <1>4, <1>5

(* Neither changes the stream.                                             *)
LEMMA StoreKeepsStream ==
  ASSUME NEW M, TxTyped(M), SendInv, Store
  PROVE  Stream' = Stream
<1>1. assembled \o tdr \in Seq(BytesOf(M))
  BY ConcatProperties DEF TxTyped
<1>2. UNCHANGED <<assembled, tdr>>
  BY DEF Store, envVars
<1>3. (assembled \o tdr) \o tx' \o Unstored' = (assembled \o tdr) \o tx \o Unstored
  BY <1>1, StoreKeepsPlace
<1> QED
  BY <1>2, <1>3 DEF Stream

LEMMA MoveKeepsStream ==
  ASSUME NEW M, TxTyped(M), Moves, UNCHANGED <<assembled, Unstored>>
  PROVE  Stream' = Stream
<1>1. assembled \in Seq(BytesOf(M))
  BY DEF TxTyped
<1>2. assembled \o tdr' \o tx' = assembled \o tdr \o tx
  BY <1>1, MoveKeepsPlace
<1> QED
  BY <1>2 DEF Stream

(* What the stream is made of: with its type, all the laws of \o apply.    *)
LEMMA StreamParts ==
  ASSUME NEW M, TxTyped(M), SendInv
  PROVE  /\ Stream \in Seq(BytesOf(M))
         /\ tx \o Unstored \in Seq(BytesOf(M))
         /\ Stream = (assembled \o tdr) \o (tx \o Unstored)
         /\ assembled \o tdr \in Seq(BytesOf(M))
<1>1. Unstored \in Seq(BytesOf(M))
  BY UnstoredTyped
<1>2. /\ assembled \o tdr \in Seq(BytesOf(M)) /\ tx \in Seq(BytesOf(M))
      /\ tx \o Unstored \in Seq(BytesOf(M))
  BY <1>1, ConcatProperties DEF TxTyped
<1>3. (assembled \o tdr) \o tx \in Seq(BytesOf(M))
  BY <1>2, ConcatProperties
<1> QED
  BY <1>1, <1>2, <1>3, ConcatProperties, ConcatAssociative DEF Stream

FrameInv == InFrame(Stream) /\ EndsWhole(Stream)

(* Before its first byte is stored, all of a message is still to be.       *)
LEMMA AllUnstored ==
  ASSUME NEW m
  PROVE  SubSeq(Bytes(m), 0 + 1, Len(Bytes(m))) = Bytes(m)
<1>1. Bytes(m) \in Seq(BytesOf({m}))
  BY BytesFacts
<1> QED
  BY <1>1, SubSeqFull, SMT

LEMMA FrameInit == Init => FrameInv
<1> SUFFICES ASSUME Init PROVE FrameInv
  OBVIOUS
<1> DEFINE M == {reply}
<1>1. /\ reply \in M /\ << >> \in Seq(BytesOf(M)) /\ Bytes(reply) \in Seq(BytesOf(M))
  BY BytesFacts, EmptySeq
<1>2. Unstored = Bytes(reply)
  BY AllUnstored DEF Init, Unstored
<1>3. Stream = << >> \o Bytes(reply)
  <2>1. << >> \o << >> = << >>
    BY <1>1, ConcatEmptySeq
  <2> QED
    BY <1>2, <2>1 DEF Init, Stream
<1>4. InFrame(<< >>) /\ EndsWhole(<< >>)
  BY SMT DEF InFrame, EndsWhole
<1> QED
  BY <1>1, <1>3, <1>4, WholeMessage DEF FrameInv

(* Every step keeps the stream, appends a whole message to it, or takes    *)
(* from it the bytes of the message the PC has just received.              *)
LEMMA FrameStep ==
  ASSUME TxType, SendInv, FrameInv, [Next]_vars
  PROVE  FrameInv'
<1>0. PICK M : TxTyped(M)
  BY DEF TxType
<1>1. ASSUME Stream' = Stream
      PROVE  FrameInv'
  BY <1>1 DEF FrameInv, InFrame, EndsWhole
<1>2. ASSUME NEW m, SendBegins(m)
      PROVE  FrameInv'
  <2> DEFINE L == M \union {m}
  <2>1. m \in L /\ M \subseteq L
    OBVIOUS
  <2>2. Stream \in Seq(BytesOf(L))
    BY <1>0, <2>1, StreamParts, BytesMonotonic
  <2>3. Stream = assembled \o tdr \o tx
    <3>1. Unstored = << >>
      BY <1>2 DEF SendBegins, Sending, Unstored
    <3>2. (assembled \o tdr) \o tx \in Seq(BytesOf(M))
      BY <1>0, ConcatProperties DEF TxTyped
    <3> QED
      BY <3>1, <3>2, ConcatEmptySeq DEF Stream
  <2>4. Unstored' = Bytes(m)
    BY <1>2, AllUnstored DEF SendBegins, Unstored
  <2>5. Stream' = Stream \o Bytes(m)
    BY <1>2, <2>3, <2>4 DEF SendBegins, Stream
  <2>6. InFrame(Stream \o Bytes(m)) /\ EndsWhole(Stream \o Bytes(m))
    BY <2>1, <2>2, WholeMessage DEF FrameInv
  <2> QED
    BY <2>5, <2>6 DEF FrameInv
<1>3. CASE Elsewhere
  <2>1. Unstored' = Unstored
    BY <1>3, Zenon DEF Elsewhere, Unstored, Sending
  <2>2. Stream' = Stream
    BY <1>3, <2>1 DEF Elsewhere, Stream
  <2> QED
    BY <1>1, <2>2
<1>4. CASE Store
  BY <1>0, <1>1, <1>4, StoreKeepsStream
<1>5. CASE SpinForRoom
  <2>1. Unstored' = Unstored
    BY <1>5, Zenon DEF SpinForRoom, Unstored
  <2>2. Stream' = Stream
    BY <1>5, <2>1 DEF SpinForRoom, portVars, envVars, Stream
  <2> QED
    BY <1>1, <2>2
<1>6. CASE StartTransmission
  <2>1. Unstored' = Unstored /\ assembled' = assembled
    BY <1>6, Zenon DEF StartTransmission, SendInv, Unstored, envVars
  <2>2. Moves \/ UNCHANGED <<tdr, tx>>
    <3>1. pc = "start" /\ empty => tx # << >>
      BY DEF SendInv
    <3> QED
      BY <1>6, <3>1, Zenon DEF StartTransmission, Moves
  <2>3. Stream' = Stream
    BY <1>0, <2>1, <2>2, MoveKeepsStream DEF Stream
  <2> QED
    BY <1>1, <2>3
<1>7. CASE Tx_interrupt
  <2>1. Unstored' = Unstored /\ assembled' = assembled
    <3>1. pc' = pc \/ (pc \notin Sending /\ pc' \notin Sending)
      BY <1>7, WokenElsewhere DEF Tx_interrupt
    <3> QED
      BY <1>7, <3>1, Zenon DEF Tx_interrupt, Unstored, envVars, Sending
  <2>2. Moves \/ UNCHANGED <<tdr, tx>>
    BY <1>7, Zenon DEF Tx_interrupt, Moves
  <2>3. Stream' = Stream
    BY <1>0, <2>1, <2>2, MoveKeepsStream DEF Stream
  <2> QED
    BY <1>1, <2>3
<1>8. CASE ByteLeaves
  <2> DEFINE old == assembled \o tdr
             kept == tx \o Unstored
  <2>1. /\ old \in Seq(BytesOf(M)) /\ kept \in Seq(BytesOf(M))
        /\ Stream = old \o kept /\ Stream \in Seq(BytesOf(M))
    BY <1>0, StreamParts
  <2>2. /\ tdr' = << >> /\ tx' = tx /\ Unstored' = Unstored /\ tdr # << >>
        /\ assembled' = IF IsLast(tdr[1]) THEN << >> ELSE old
    BY <1>8 DEF ByteLeaves, loopVars, Unstored
  <2>3. << >> \in Seq(BytesOf(M)) /\ tx \in Seq(BytesOf(M))
    BY <1>0, EmptySeq DEF TxTyped
  <2>4. Unstored \in Seq(BytesOf(M))
    BY <1>0, UnstoredTyped
  <2>5. CASE ~IsLast(tdr[1])
    <3>1. Stream' = ((old \o << >>) \o tx) \o Unstored
      BY <2>2, <2>5 DEF Stream
    <3>2. old \o << >> = old
      BY <2>1, ConcatEmptySeq
    <3>3. Stream' = Stream
      BY <3>1, <3>2 DEF Stream
    <3> QED
      BY <1>1, <3>3
  <2>6. CASE IsLast(tdr[1])
    <3>1. Stream' = ((<< >> \o << >>) \o tx) \o Unstored
      BY <2>2, <2>6 DEF Stream
    <3>2. << >> \o << >> = << >> /\ << >> \o tx = tx
      BY <2>3, ConcatEmptySeq
    <3>3. Stream' = kept
      BY <3>1, <3>2
    <3>4. old # << >> /\ old[Len(old)] = tdr[1]
      <4>0. /\ assembled \in Seq(BytesOf(M)) /\ tdr \in Seq(BytesOf(M))
            /\ Len(tdr) <= 1 /\ tdr # << >>
        BY <1>0, <2>2, Zenon DEF TxTyped
      <4>1. /\ assembled \in Seq(BytesOf(M)) /\ tdr \in Seq(BytesOf(M))
            /\ Len(tdr) = 1 /\ Len(assembled) \in Nat
        <5>1. Len(tdr) \in Nat \ {0} /\ Len(assembled) \in Nat
          BY <4>0, EmptySeq, LenProperties
        <5>2. \A n \in Nat \ {0} : n <= 1 => n = 1
          BY SMT
        <5> QED
          BY <4>0, <5>1, <5>2, Zenon
      <4>2. /\ Len(old) = Len(assembled) + 1
            /\ \A i \in 1 .. Len(assembled) + 1 :
                  old[i] = IF i <= Len(assembled) THEN assembled[i]
                                                  ELSE tdr[i - Len(assembled)]
        BY <4>1, ConcatProperties
      <4> HIDE DEF old
      <4> QED
        BY <2>1, <4>1, <4>2, SMT
    <3> HIDE DEF old, kept
    <3>5. InFrame(kept) /\ EndsWhole(kept)
      BY <2>1, <2>6, <3>4, WholeDropped DEF FrameInv
    <3> QED
      BY <3>3, <3>5 DEF FrameInv
  <2> QED
    BY <2>5, <2>6
<1> QED
  BY <1>2, <1>3, <1>4, <1>5, <1>6, <1>7, <1>8, StepKinds, Zenon

(* What the PC receives is whole messages, whatever the sizes of the ring  *)
(* and of the messages and however send_buffer and the interrupts take     *)
(* turns on the ring: no byte is lost, doubled or out of place.            *)
THEOREM AnswersStayInFrame == Spec => []AnswersInFrame
<1>1. TxType /\ SendInv /\ FrameInv => AnswersInFrame
  <2> SUFFICES ASSUME TxType, SendInv, FrameInv PROVE AnswersInFrame
    OBVIOUS
  <2>1. PICK M : TxTyped(M)
    BY DEF TxType
  <2>2. Stream \in Seq(BytesOf(M))
    BY <2>1, StreamParts
  <2>3. DOMAIN Stream = 1 .. Len(Stream)
    BY <2>2, LenProperties
  <2> SUFFICES ASSUME NEW k \in DOMAIN Stream
               PROVE  \/ Stream[k].i = 1 /\ (k = 1 \/ IsLast(Stream[k - 1]))
                      \/ /\ k > 1 /\ Stream[k].i > 1
                         /\ Stream[k - 1] = [Stream[k] EXCEPT !.i = @ - 1]
    BY DEF AnswersInFrame, Stream
  <2>4. k \in 1 .. Len(Stream) /\ (k # 1 => k > 1)
    BY <2>3, SMT
  <2>5. IF k = 1 THEN Stream[1].i = 1 ELSE Follows(Stream[k - 1], Stream[k])
    BY <2>4 DEF FrameInv, InFrame
  <2> QED
    BY <2>4, <2>5, Zenon DEF Follows
<1>2. TxType /\ SendInv /\ FrameInv /\ [Next]_vars => FrameInv'
  BY FrameStep
<1> QED
  BY <1>1, <1>2, SendCorrect, FrameInit, PTL DEF Spec

-----------------------------------------------------------------------------
(* The messages in a sequence of bytes                                     *)

Mark(M) == [b \in BytesOf(M) |-> Completed(b)]

LEMMA MarkFacts ==
  ASSUME NEW M, NEW b \in BytesOf(M)
  PROVE  /\ b.m \in M
         /\ Mark(M)[b] = Completed(b)
         /\ Completed(b) = << >> \/ Completed(b) = <<b.m>>
<1>1. b.m \in M
  BY DEF BytesOf
<1>2. Mark(M)[b] = Completed(b)
  BY Zenon DEF Mark
<1> QED
  BY <1>1, <1>2, Zenon DEF Completed

LEMMA MarkIsMark ==
  ASSUME NEW M
  PROVE  IsMark(Mark(M), BytesOf(M), M)
<1>1. ASSUME NEW b \in BytesOf(M)
      PROVE  Completed(b) \in Seq(M)
  <2>1. b.m \in M
    BY MarkFacts
  <2>2. << >> \in Seq(M) /\ <<b.m>> \in Seq(M)
    BY <2>1
  <2> QED
    BY <2>2, Zenon DEF Completed
<1> QED
  BY <1>1, Zenon DEF Mark, IsMark

LEMMA MessagesCollected ==
  ASSUME NEW M, NEW s \in Seq(BytesOf(M))
  PROVE  Messages(s) = Collected(Mark(M), s)
<1>1. \A k \in DOMAIN s : Completed(s[k]) = Mark(M)[s[k]]
  BY MarkFacts
<1>2. [k \in DOMAIN s |-> Completed(s[k])] = [k \in DOMAIN s |-> Mark(M)[s[k]]]
  BY <1>1, Zenon
<1> QED
  BY <1>2, Zenon DEF Messages, Collected, Marks

LEMMA MessagesType ==
  ASSUME NEW M, NEW s \in Seq(BytesOf(M))
  PROVE  Messages(s) \in Seq(M)
<1> DEFINE f == Mark(M)
           B == BytesOf(M)
<1>1. IsMark(f, B, M)
  BY MarkIsMark
<1>2. s \in Seq(B) /\ Messages(s) = Collected(f, s)
  BY MessagesCollected
<1> HIDE DEF f, B
<1> QED
  BY <1>1, <1>2, CollectedType

(* Bytes behind each other carry their messages behind each other.         *)
LEMMA MessagesConcat ==
  ASSUME NEW M, NEW s \in Seq(BytesOf(M)), NEW t \in Seq(BytesOf(M))
  PROVE  Messages(s \o t) = Messages(s) \o Messages(t)
<1> DEFINE f == Mark(M)
           B == BytesOf(M)
<1>1. IsMark(f, B, M)
  BY MarkIsMark
<1>2. s \o t \in Seq(B)
  OBVIOUS
<1>3. /\ s \in Seq(B) /\ Messages(s) = Collected(f, s)
      /\ t \in Seq(B) /\ Messages(t) = Collected(f, t)
      /\ Messages(s \o t) = Collected(f, s \o t)
  BY <1>2, MessagesCollected, Zenon
<1> HIDE DEF f, B
<1>4. Collected(f, s \o t) = Collected(f, s) \o Collected(f, t)
  BY <1>1, <1>3, CollectedConcat
<1> QED
  BY <1>3, <1>4, Zenon

LEMMA MessagesEmpty == Messages(<< >>) = << >>
<1>1. << >> \in Seq(BytesOf({}))
  OBVIOUS
<1> QED
  BY <1>1, MessagesCollected, CollectedEmpty, Zenon

LEMMA MessagesOne ==
  ASSUME NEW M, NEW b \in BytesOf(M)
  PROVE  Messages(<<b>>) = Completed(b)
<1> DEFINE f == Mark(M)
           B == BytesOf(M)
           s == <<b>>
<1>1. IsMark(f, B, M)
  BY MarkIsMark
<1>2. s \in Seq(B) /\ b \in B
  OBVIOUS
<1>3. Messages(s) = Collected(f, s) /\ f[b] = Completed(b)
  <2> HIDE DEF s
  <2> QED
    BY <1>2, MessagesCollected, MarkFacts, Zenon
<1> HIDE DEF f, B
<1>4. Collected(f, <<b>>) = f[b]
  BY <1>1, <1>2, CollectedOne
<1> QED
  BY <1>3, <1>4, Zenon

(* Bytes none of which is the last of a message carry none.                *)
LEMMA NoneCompleted ==
  ASSUME NEW M, NEW s \in Seq(BytesOf(M)), \A k \in 1 .. Len(s) : ~IsLast(s[k])
  PROVE  Messages(s) = << >>
<1> DEFINE f == Mark(M)
           B == BytesOf(M)
<1>1. ASSUME NEW k \in 1 .. Len(s)
      PROVE  f[s[k]] = << >>
  <2>1. s[k] \in B
    OBVIOUS
  <2> QED
    BY <2>1, MarkFacts, Zenon DEF Completed
<1>2. IsMark(f, B, M) /\ s \in Seq(B) /\ Messages(s) = Collected(f, s)
  BY MarkIsMark, MessagesCollected
<1> HIDE DEF f, B
<1>3. Collected(f, s) = << >>
  BY <1>1, <1>2, CollectedNone
<1> QED
  BY <1>2, <1>3, Zenon

(* The bytes of a message carry it, and nothing else.                      *)
LEMMA MessagesWhole ==
  ASSUME NEW M, NEW m \in M
  PROVE  Messages(Bytes(m)) = <<m>>
<1>1. PICK n \in Nat \ {0} : n = get_message_size(m.type)
  BY MessageFits
<1>2. /\ Bytes(m) \in Seq(BytesOf(M)) /\ Len(Bytes(m)) = n
      /\ \A k \in 1 .. n : Bytes(m)[k] = [m |-> m, i |-> k]
  BY <1>1, BytesFacts
<1> DEFINE most == SubSeq(Bytes(m), 1, n - 1)
           last == [m |-> m, i |-> n]
<1>3. /\ most \in Seq(BytesOf(M)) /\ Len(most) = n - 1 /\ n \in 1 .. Len(Bytes(m))
      /\ \A k \in 1 .. n - 1 : most[k] = [m |-> m, i |-> k]
  BY <1>1, <1>2
<1>4. last \in BytesOf(M) /\ Bytes(m)[n] = last
  BY <1>1, <1>2, <1>3
<1>5. Bytes(m) = Append(most, last)
  <2>1. SubSeq(Bytes(m), 1, n) = Bytes(m)
    BY <1>2, SubSeqFull, Zenon
  <2> QED
    BY <1>2, <1>3, <1>4, <2>1, SubSeqAppend
<1>6. Bytes(m) = most \o <<last>> /\ <<last>> \in Seq(BytesOf(M))
  <2> HIDE DEF most, last
  <2> QED
    BY <1>3, <1>4, <1>5, AppendIsConcat
<1>7. Messages(most) = << >>
  <2>1. \A k \in 1 .. Len(most) : ~IsLast(most[k])
    <3> HIDE DEF most
    <3> QED
      BY <1>1, <1>3 DEF IsLast
  <2> QED
    BY <1>3, <2>1, NoneCompleted, Zenon
<1>8. Messages(<<last>>) = <<m>>
  <2>1. Completed(last) = <<m>>
    BY <1>1 DEF Completed, IsLast
  <2> QED
    BY <1>4, <2>1, MessagesOne, Zenon
<1> HIDE DEF most, last
<1>9. Messages(most \o <<last>>) = Messages(most) \o Messages(<<last>>)
  BY <1>3, <1>6, MessagesConcat, Zenon
<1>10. Messages(Bytes(m)) = << >> \o <<m>>
  BY <1>6, <1>7, <1>8, <1>9, Zenon
<1> QED
  BY <1>10

(* A byte that goes takes its message along if it is the last one of it.   *)
LEMMA MessagesTaken ==
  ASSUME NEW M, NEW s \in Seq(BytesOf(M)), s # << >>
  PROVE  /\ ~IsLast(Head(s)) => Messages(Tail(s)) = Messages(s)
         /\ IsLast(Head(s)) => /\ Messages(s) # << >>
                               /\ Messages(Tail(s)) = Tail(Messages(s))
                               /\ Head(Messages(s)) = Head(s).m
<1> DEFINE f == Mark(M)
           B == BytesOf(M)
           m == Head(s).m
<1>1. Head(s) \in B /\ Tail(s) \in Seq(B)
  BY HeadTail
<1>2. f[Head(s)] = Completed(Head(s)) /\ m \in M
  BY <1>1, MarkFacts, Zenon
<1>3. ~IsLast(Head(s)) => f[Head(s)] = << >>
  BY <1>2, Zenon DEF Completed
<1>4. IsLast(Head(s)) => f[Head(s)] = <<m>>
  BY <1>2, Zenon DEF Completed
<1>5. Messages(s) = Collected(f, s) /\ Messages(Tail(s)) = Collected(f, Tail(s))
  BY <1>1, MessagesCollected, Zenon
<1>6. IsMark(f, B, M) /\ s \in Seq(B)
  BY MarkIsMark
<1> HIDE DEF f, B, m
<1>7. f[Head(s)] = << >> => Collected(f, Tail(s)) = Collected(f, s)
  BY <1>6, CollectedTail
<1>8. f[Head(s)] = <<m>> => /\ Collected(f, s) # << >>
                           /\ Collected(f, Tail(s)) = Tail(Collected(f, s))
                           /\ Head(Collected(f, s)) = m
  BY <1>2, <1>6, CollectedTail
<1> QED
  BY <1>3, <1>4, <1>5, <1>7, <1>8, Zenon DEF m

(* There are no more messages than bytes.                                  *)
LEMMA MessagesLength ==
  ASSUME NEW M, NEW s \in Seq(BytesOf(M))
  PROVE  Len(Messages(s)) <= Len(s)
<1> DEFINE f == Mark(M)
           B == BytesOf(M)
<1>1. IsMark(f, B, M) /\ s \in Seq(B) /\ Messages(s) = Collected(f, s)
  BY MarkIsMark, MessagesCollected
<1>2. ASSUME NEW b \in B
      PROVE  f[b] = << >> \/ \E e \in M : f[b] = <<e>>
  BY MarkFacts, Zenon
<1> HIDE DEF f, B
<1>3. Len(Collected(f, s)) <= Len(s)
  BY <1>1, <1>2, CollectedLength
<1> QED
  BY <1>1, <1>3

-----------------------------------------------------------------------------
(* ImplementsNucleo, the way to the PC                                     *)

(* The bytes on their way to the PC.                                       *)
Back == tdr \o tx \o Unstored

LEMMA BackTyped ==
  ASSUME NEW M, TxTyped(M), SendInv
  PROVE  /\ Back \in Seq(BytesOf(M)) /\ tx \o Unstored \in Seq(BytesOf(M))
         /\ Back = tdr \o (tx \o Unstored)
<1>1. Unstored \in Seq(BytesOf(M))
  BY UnstoredTyped
<1> QED
  BY <1>1 DEF TxTyped, Back

(* send_buffer, as a whole, is the Send of the system model.               *)
LEMMA SendsToPc ==
  ASSUME TxType, SendInv, NEW m, SendBegins(m)
  PROVE  N!Send(m)
<1>0. PICK M : TxTyped(M)
  BY DEF TxType
<1> DEFINE L == M \union {m}
           b == Bytes(m)
<1>1. m \in L /\ M \subseteq L
  OBVIOUS
<1>2. tdr \in Seq(BytesOf(L)) /\ tx \in Seq(BytesOf(L)) /\ b \in Seq(BytesOf(L))
  BY <1>0, <1>1, BytesMonotonic, BytesFacts DEF TxTyped
<1>3. Unstored = << >>
  BY DEF SendBegins, Sending, Unstored
<1>4. Unstored' = b
  BY AllUnstored DEF SendBegins, Unstored
<1>5. UNCHANGED <<tdr, tx>>
  BY DEF SendBegins
<1>6. Messages(b) = <<m>>
  BY <1>1, MessagesWhole
<1>7. Len(tdr) <= 1 /\ Len(tx) <= TX_SIZE
  BY <1>0 DEF TxTyped, SendInv
<1> HIDE DEF b, L
<1>8. tdr \o tx \in Seq(BytesOf(L)) /\ Len(tdr \o tx) <= TX_SIZE + 1
  BY <1>2, <1>7, SerialAssumption
<1>9. ToPc = Messages(tdr \o tx)
  <2>1. (tdr \o tx) \o << >> = tdr \o tx
    BY <1>8, ConcatEmptySeq
  <2> QED
    BY <1>3, <2>1, Zenon DEF ToPc
<1>10. ToPc' = Messages((tdr \o tx) \o b)
  BY <1>4, <1>5, Zenon DEF ToPc
<1>11. Messages((tdr \o tx) \o b) = Messages(tdr \o tx) \o Messages(b)
  BY <1>2, <1>8, MessagesConcat, Zenon
<1>12. ToPc \in Seq(L) /\ Len(ToPc) <= Len(tdr \o tx)
  BY <1>8, <1>9, MessagesType, MessagesLength, Zenon
<1>13. Len(ToPc) < TX_SIZE + 2
  BY <1>8, <1>12, SerialAssumption
<1>14. ToPc' = Append(ToPc, m)
  <2>1. ToPc' = ToPc \o <<m>>
    BY <1>6, <1>9, <1>10, <1>11, Zenon
  <2> QED
    BY <1>1, <1>12, <2>1, AppendIsConcat, Zenon
<1> QED
  BY <1>13, <1>14, Zenon DEF N!Send

(* What send_buffer and the transmit interrupt do to the ring goes         *)
(* unnoticed.                                                              *)
LEMMA ElsewhereKeepsBack ==
  ASSUME Elsewhere
  PROVE  ToPc' = ToPc
<1>1. Unstored' = Unstored
  BY Zenon DEF Elsewhere, Unstored, Sending
<1> QED
  BY <1>1, Zenon DEF Elsewhere, ToPc

LEMMA TransmitKeepsBack ==
  ASSUME TxType, SendInv, Store \/ SpinForRoom \/ StartTransmission \/ Tx_interrupt
  PROVE  ToPc' = ToPc
<1>0. PICK M : TxTyped(M)
  BY DEF TxType
<1>1. CASE Store
  <2>1. tdr \in Seq(BytesOf(M)) /\ tdr' = tdr
    BY <1>0, <1>1 DEF TxTyped, Store
  <2>2. tdr \o tx' \o Unstored' = tdr \o tx \o Unstored
    BY <1>0, <1>1, <2>1, StoreKeepsPlace
  <2> QED
    BY <2>1, <2>2, Zenon DEF ToPc
<1>2. CASE SpinForRoom
  <2>1. Unstored' = Unstored
    BY <1>2, Zenon DEF SpinForRoom, Unstored
  <2> QED
    BY <1>2, <2>1, Zenon DEF SpinForRoom, portVars, ToPc
<1>3. ASSUME Moves
      PROVE  tdr' \o tx' = tdr \o tx
  <2>1. << >> \in Seq(BytesOf(M))
    OBVIOUS
  <2>2. << >> \o tdr' \o tx' = << >> \o tdr \o tx
    BY <1>0, <1>3, <2>1, MoveKeepsPlace
  <2>3. tdr \in Seq(BytesOf(M))
    BY <1>0 DEF TxTyped
  <2>4. tdr' = <<Head(tx)>> /\ tx \in Seq(BytesOf(M)) /\ tx # << >>
    BY <1>0, <1>3 DEF Moves, TxTyped
  <2>5. tdr' \in Seq(BytesOf(M))
    BY <2>4
  <2>6. << >> \o tdr' = tdr' /\ << >> \o tdr = tdr
    BY <2>3, <2>5, ConcatEmptySeq
  <2> QED
    BY <2>2, <2>6, Zenon
<1>4. CASE StartTransmission
  <2>1. Unstored' = Unstored
    BY <1>4, Zenon DEF StartTransmission, SendInv, Unstored, envVars
  <2>2. Moves \/ UNCHANGED <<tdr, tx>>
    <3>1. pc = "start" /\ empty => tx # << >>
      BY DEF SendInv
    <3> QED
      BY <1>4, <3>1, Zenon DEF StartTransmission, Moves
  <2> QED
    BY <1>3, <2>1, <2>2, Zenon DEF ToPc
<1>5. CASE Tx_interrupt
  <2>1. Unstored' = Unstored
    <3>1. pc' = pc \/ (pc \notin Sending /\ pc' \notin Sending)
      BY <1>5, WokenElsewhere DEF Tx_interrupt
    <3> QED
      BY <1>5, <3>1, Zenon DEF Tx_interrupt, Unstored, envVars, Sending
  <2>2. Moves \/ UNCHANGED <<tdr, tx>>
    BY <1>5, Zenon DEF Tx_interrupt, Moves
  <2> QED
    BY <1>3, <2>1, <2>2, Zenon DEF ToPc
<1> QED
  BY <1>1, <1>2, <1>4, <1>5

(* A byte that leaves brings the PC a message, or nothing yet.             *)
LEMMA ByteLeavesBack ==
  ASSUME TxType, SendInv, ByteLeaves
  PROVE  ToPc' = ToPc \/ (ToPc # << >> /\ ToPc' = Tail(ToPc))
<1>0. PICK M : TxTyped(M)
  BY DEF TxType
<1> DEFINE kept == tx \o Unstored
<1>1. Back \in Seq(BytesOf(M)) /\ kept \in Seq(BytesOf(M)) /\ Back = tdr \o kept
  BY <1>0, BackTyped
<1>2. /\ tdr' = << >> /\ tx' = tx /\ Unstored' = Unstored /\ tdr # << >>
  BY DEF ByteLeaves, loopVars, Unstored
<1>3. ToPc = Messages(Back)
  BY Zenon DEF ToPc, Back
<1>4. ToPc' = Messages(kept)
  <2>1. << >> \o tx = tx
    BY <1>0, ConcatEmptySeq DEF TxTyped
  <2> QED
    BY <1>2, <2>1, Zenon DEF ToPc
<1>5. Back # << >> /\ Tail(Back) = kept
  <2>0. tdr \in Seq(BytesOf(M)) /\ Len(tdr) <= 1 /\ tdr # << >>
    BY <1>0, <1>2, Zenon DEF TxTyped
  <2> HIDE DEF kept
  <2>1. tdr \in Seq(BytesOf(M)) /\ Len(tdr) = 1
    <3>1. Len(tdr) \in Nat \ {0}
      BY <2>0, EmptySeq, LenProperties
    <3>2. \A n \in Nat \ {0} : n <= 1 => n = 1
      OBVIOUS
    <3> QED
      BY <2>0, <3>1, <3>2, Zenon
  <2>2. PICK b \in BytesOf(M) : tdr = <<b>>
    BY <2>1
  <2> QED
    BY <1>1, <2>2
<1> HIDE DEF kept
<1>6. \/ Messages(Tail(Back)) = Messages(Back)
      \/ Messages(Back) # << >> /\ Messages(Tail(Back)) = Tail(Messages(Back))
  BY <1>1, <1>5, MessagesTaken
<1> QED
  BY <1>3, <1>4, <1>5, <1>6, Zenon

-----------------------------------------------------------------------------
(* ImplementsNucleo, the way from the PC                                   *)

(* The bytes on their way to receive_message, and those of the message it  *)
(* is reading.                                                             *)
Ahead == rx \o rdr \o line
Begun == IF pc \in {"receive", "rx_spin"} THEN msg_buf ELSE << >>
Incoming == Begun \o Ahead

NoLast(s) == \A k \in 1 .. Len(s) : ~IsLast(s[k])

RecvType ==
  /\ rx \in Seq(BytesOf(Commands)) /\ line \in Seq(BytesOf(Commands))
  /\ rdr \in Seq(BytesOf(Commands)) /\ Len(rdr) <= 1
  /\ msg_buf \in Seq(BytesOf(Commands))
  /\ lost \in Nat
  /\ abort_request \in BOOLEAN

(* As long as none is lost, the bytes are whole messages, the first of     *)
(* which has been read in part.                                            *)
RecvInv == lost = 0 => InFrame(Incoming) /\ EndsWhole(Incoming) /\ NoLast(Begun)

(* Bytes in frame with no last one before their end are of one message.    *)
LEMMA OneMessage ==
  ASSUME NEW M, NEW s \in Seq(BytesOf(M)), NEW n \in Nat \ {0}, n = Len(s),
         InFrame(s), \A k \in 1 .. n - 1 : ~IsLast(s[k])
  PROVE  s[1].m \in M /\ \A k \in 1 .. n : s[k] = [m |-> s[1].m, i |-> k]
<1>1. ASSUME NEW k \in 1 .. n
      PROVE  s[k] \in [m : M, i : Nat]
  BY DEF BytesOf
<1> DEFINE w == s[1].m
           P == {k \in 0 .. n : k > 0 => s[k] = [m |-> w, i |-> k]}
<1>2. 0 \in P /\ 1 \in 1 .. n
  OBVIOUS
<1>3. w \in M
  BY <1>1, <1>2
<1>4. ASSUME NEW k \in 1 .. n, k - 1 \in P
      PROVE  k \in P
  <2>1. IF k = 1 THEN s[1].i = 1 ELSE Follows(s[k - 1], s[k])
    BY DEF InFrame
  <2>2. CASE k = 1
    BY <1>1, <1>2, <2>1, <2>2
  <2>3. CASE k # 1
    <3>1. k - 1 \in 1 .. n - 1 /\ s[k - 1] = [m |-> w, i |-> k - 1]
      BY <1>4, <2>3
    <3>2. ~IsLast(s[k - 1])
      BY <3>1
    <3>3. s[k - 1] = [s[k] EXCEPT !.i = @ - 1]
      BY <2>1, <2>3, <3>2 DEF Follows
    <3>4. s[k] \in [m : M, i : Nat]
      BY <1>1
    <3> HIDE DEF w
    <3>5. PICK b \in [m : M, i : Nat] : b = s[k]
      BY <3>4
    <3>6. [m |-> w, i |-> k - 1] = [b EXCEPT !.i = @ - 1]
      BY <3>1, <3>3, <3>5, Zenon
    <3>7. w = b.m /\ k - 1 = b.i - 1
      BY <3>6
    <3>8. b = [m |-> w, i |-> k]
      BY <3>7
    <3>9. s[k] = [m |-> w, i |-> k] /\ k \in 0 .. n
      BY <3>5, <3>8
    <3> QED
      BY <3>9, Zenon
  <2> QED
    BY <2>2, <2>3
<1>5. \A k \in 0 .. n : k \in P
  <2> HIDE DEF P
  <2> QED
    BY <1>2, <1>4, Induction, Zenon
<1> QED
  BY <1>3, <1>5

(* What begins bytes in frame is in frame.                                 *)
LEMMA FramePrefix ==
  ASSUME NEW M, NEW s \in Seq(BytesOf(M)), NEW t \in Seq(BytesOf(M)), InFrame(s \o t)
  PROVE  InFrame(s)
<1> DEFINE u == s \o t
<1>1. Len(s) <= Len(u) /\ Len(s) \in Nat /\ Len(u) \in Nat
  OBVIOUS
<1>2. \A k \in 1 .. Len(s) : u[k] = s[k]
  OBVIOUS
<1>3. InFrame(u)
  OBVIOUS
<1> HIDE DEF u
<1>4. ASSUME NEW k \in 1 .. Len(s)
      PROVE  IF k = 1 THEN s[1].i = 1 ELSE Follows(s[k - 1], s[k])
  <2>1. k \in 1 .. Len(u) /\ u[k] = s[k]
    BY <1>1, <1>2
  <2>2. k # 1 => u[k - 1] = s[k - 1]
    BY <1>1, <1>2
  <2>3. IF k = 1 THEN u[1].i = 1 ELSE Follows(u[k - 1], u[k])
    BY <1>3, <2>1, Zenon DEF InFrame
  <2> QED
    BY <2>1, <2>2, <2>3, Zenon
<1> QED
  BY <1>4, Zenon DEF InFrame

(* receive_message knows a message by its length: it has all of it with    *)
(* its last byte and not before.                                           *)
LEMMA KnownByLength ==
  ASSUME NEW M, NEW s \in Seq(BytesOf(M)), s # << >>, InFrame(s),
         \A k \in 1 .. Len(s) - 1 : ~IsLast(s[k])
  PROVE  /\ s[1].m \in M /\ TypeByte(s[1]) = s[1].m.type /\ s[Len(s)].m = s[1].m
         /\ Len(s) = get_message_size(s[1].m.type) <=> IsLast(s[Len(s)])
         /\ IsLast(s[Len(s)]) => s = Bytes(s[1].m)
<1>1. PICK n \in Nat \ {0} : n = Len(s)
  OBVIOUS
<1> DEFINE w == s[1].m
<1>2. w \in M /\ \A k \in 1 .. n : s[k] = [m |-> w, i |-> k]
  BY <1>1, OneMessage
<1>3. 1 \in 1 .. n /\ n \in 1 .. n
  OBVIOUS
<1> HIDE DEF w
<1>4. s[1].i = 1 /\ s[n].m = w /\ s[n].i = n
  <2>1. [m |-> w, i |-> 1].i = 1 /\ [m |-> w, i |-> n].m = w /\ [m |-> w, i |-> n].i = n
    OBVIOUS
  <2> QED
    BY <1>2, <1>3, <2>1, Zenon
<1>5. TypeByte(s[1]) = w.type
  BY <1>4, Zenon DEF TypeByte, w
<1>6. n = get_message_size(w.type) <=> IsLast(s[n])
  BY <1>4, Zenon DEF IsLast
<1>7. ASSUME IsLast(s[n])
      PROVE  s = Bytes(w)
  <2>1. /\ Bytes(w) \in Seq(BytesOf(M)) /\ Len(Bytes(w)) = n
        /\ \A k \in 1 .. n : Bytes(w)[k] = [m |-> w, i |-> k]
    BY <1>2, <1>6, <1>7, BytesFacts
  <2> DEFINE B == BytesOf(M)
             y == Bytes(w)
  <2>2. /\ y \in Seq(B) /\ Len(y) = n /\ s \in Seq(B)
        /\ \A k \in 1 .. n : s[k] = y[k]
    BY <1>2, <2>1, Zenon
  <2> HIDE DEF B, y
  <2>3. s = y
    BY <1>1, <2>2
  <2> QED
    BY <2>3 DEF y
<1> QED
  BY <1>1, <1>2, <1>4, <1>5, <1>6, <1>7, Zenon DEF w

(* The oldest byte of the ring is the next one of the message.             *)
LEMMA NextByteTaken ==
  ASSUME RecvType, pc = "receive", rx # << >>,
         NEW bytes, bytes = Append(msg_buf, Head(rx)),
         NEW left, left = Tail(rx) \o rdr \o line
  PROVE  /\ bytes \in Seq(BytesOf(Commands)) /\ left \in Seq(BytesOf(Commands))
         /\ Tail(rx) \in Seq(BytesOf(Commands)) /\ Head(rx) \in BytesOf(Commands)
         /\ Incoming = bytes \o left
         /\ Ahead \in Seq(BytesOf(Commands)) /\ Ahead # << >>
         /\ Head(Ahead) = Head(rx) /\ Tail(Ahead) = left
         /\ Len(bytes) = Len(msg_buf) + 1 /\ bytes # << >>
         /\ bytes[Len(bytes)] = Head(rx)
         /\ \A k \in 1 .. Len(msg_buf) : bytes[k] = msg_buf[k]
<1> DEFINE B == BytesOf(Commands)
           b == Head(rx)
           t == Tail(rx)
<1>1. /\ rx \in Seq(B) /\ msg_buf \in Seq(B) /\ rdr \in Seq(B) /\ line \in Seq(B)
  BY DEF RecvType
<1>2. b \in B /\ t \in Seq(B) /\ rx = <<b>> \o t
  BY <1>1, HeadTail
<1>3. Begun = msg_buf
  BY DEF Begun
<1> HIDE DEF B, b, t
<1>4. <<b>> \in Seq(B)
  BY <1>2
<1>5. left \in Seq(B) /\ bytes \in Seq(B) /\ left = t \o rdr \o line
  BY <1>1, <1>2 DEF b, t
<1>6. Ahead = <<b>> \o left
  BY <1>1, <1>2, <1>4, <1>5 DEF Ahead
<1>7. bytes = msg_buf \o <<b>>
  BY <1>1, <1>2, AppendIsConcat DEF b
<1>8. Incoming = bytes \o left
  <2>1. msg_buf \o (<<b>> \o left) = (msg_buf \o <<b>>) \o left
    <3> DEFINE h == <<b>>
    <3>1. msg_buf \in Seq(B) /\ h \in Seq(B) /\ left \in Seq(B)
      BY <1>1, <1>4, <1>5
    <3> HIDE DEF h
    <3>2. \A x, y, z \in Seq(B) : x \o (y \o z) = (x \o y) \o z
      BY ConcatRegroup
    <3>3. msg_buf \o (h \o left) = (msg_buf \o h) \o left
      BY <3>1, <3>2, Zenon
    <3> QED
      BY <3>3 DEF h
  <2> QED
    BY <1>3, <1>6, <1>7, <2>1, Zenon DEF Incoming
<1>9. Ahead \in Seq(B) /\ Ahead # << >> /\ Head(Ahead) = b /\ Tail(Ahead) = left
  BY <1>2, <1>4, <1>5, <1>6
<1>10. /\ Len(bytes) = Len(msg_buf) + 1 /\ bytes # << >>
       /\ bytes[Len(bytes)] = b
       /\ \A k \in 1 .. Len(msg_buf) : bytes[k] = msg_buf[k]
  <2>1. bytes = Append(msg_buf, b) /\ msg_buf \in Seq(B) /\ b \in B
    BY <1>1, <1>2 DEF b
  <2>2. PICK z \in Seq(B) : z = msg_buf
    BY <2>1
  <2>3. /\ Len(Append(z, b)) = Len(z) + 1 /\ Append(z, b) # << >>
        /\ Append(z, b)[Len(z) + 1] = b
        /\ \A k \in 1 .. Len(z) : Append(z, b)[k] = z[k]
    BY <2>1, <2>2
  <2> QED
    BY <2>1, <2>2, <2>3, Zenon
<1> QED
  BY <1>2, <1>5, <1>8, <1>9, <1>10 DEF B, b, t

(* With every byte there, a turn of receive_message either takes one more  *)
(* byte, or the last one, and then it has the message.                     *)
LEMMA ByteReceived ==
  ASSUME RecvType, RecvInv, lost = 0, ReceiveByte,
         NEW bytes, bytes = Append(msg_buf, Head(rx))
  PROVE  /\ bytes[1].m \in Commands /\ Head(rx).m = bytes[1].m
         /\ msg_buf' = bytes /\ rx' = Tail(rx)
         /\ IF IsLast(Head(rx))
              THEN bytes = Bytes(bytes[1].m) /\ Complete(bytes)
              ELSE UNCHANGED <<nucleo, abort_request, reply, stored, empty, pc, next>>
<1> DEFINE left == Tail(rx) \o rdr \o line
           w == bytes[1].m
<1>1. pc = "receive" /\ rx # << >>
  BY DEF ReceiveByte
<1>2. /\ bytes \in Seq(BytesOf(Commands)) /\ left \in Seq(BytesOf(Commands))
      /\ Incoming = bytes \o left
      /\ Len(bytes) = Len(msg_buf) + 1 /\ bytes # << >>
      /\ bytes[Len(bytes)] = Head(rx)
      /\ \A k \in 1 .. Len(msg_buf) : bytes[k] = msg_buf[k]
  BY <1>1, NextByteTaken
<1>3. InFrame(bytes \o left) /\ NoLast(msg_buf)
  BY <1>1, <1>2, Zenon DEF RecvInv, Begun
<1> HIDE DEF left
<1>4. InFrame(bytes)
  BY <1>2, <1>3, FramePrefix
<1>5. \A k \in 1 .. Len(bytes) - 1 : ~IsLast(bytes[k])
  <2>1. Len(bytes) - 1 = Len(msg_buf)
    BY <1>2 DEF RecvType
  <2> QED
    BY <1>2, <1>3, <2>1, Zenon DEF NoLast
<1>6. /\ w \in Commands /\ TypeByte(bytes[1]) = w.type /\ Head(rx).m = w
      /\ Len(bytes) = get_message_size(w.type) <=> IsLast(Head(rx))
      /\ IsLast(Head(rx)) => bytes = Bytes(w)
  <2> HIDE DEF w
  <2> QED
    BY <1>2, <1>4, <1>5, KnownByLength, Zenon DEF w
<1>7. w.type # "unknown"
  <2>1. w.type \in {"MSG_GET_VERSION", "MSG_ABORT", "MSG_SET_COMPUTE", "MSG_COMPUTE"}
    BY <1>6, SerialAssumption, Zenon
  <2> QED
    BY <2>1
<1>8. /\ msg_buf' = bytes /\ rx' = Tail(rx)
      /\ IF Len(bytes) = get_message_size(TypeByte(bytes[1]))
           THEN Complete(bytes)
           ELSE UNCHANGED <<nucleo, abort_request, reply, stored, empty, pc, next>>
  <2>1. TypeByte(bytes[1]) # "unknown"
    BY <1>6, <1>7, Zenon
  <2> QED
    BY <2>1, Zenon DEF ReceiveByte
<1> QED
  BY <1>6, <1>8, Zenon

(* The steps, as the receive side sees them.                               *)
Quiet ==
  /\ UNCHANGED <<rx, rdr, line, lost>> /\ Begun' = Begun
  /\ msg_buf' = msg_buf \/ msg_buf' = << >>
  /\ abort_request' = abort_request \/ abort_request' \in BOOLEAN

LEMMA QuietSteps ==
  ASSUME SendInv, [Next]_vars
  PROVE  Quiet \/ ReceiveByte \/ Rx_interrupt \/ PcSend \/ ByteArrives \/ LoseByte
<1>1. CASE UNCHANGED vars
  BY <1>1, Zenon DEF vars, loopVars, portVars, envVars, Quiet, Begun
<1>2. CASE HandleAbortRequest
  <2>1. /\ UNCHANGED <<rx, rdr, line, lost, msg_buf>> /\ pc = "abort"
    BY <1>2, Zenon DEF HandleAbortRequest, portVars, envVars
  <2>2. pc' \in {"send", "work"} /\ (abort_request' = abort_request \/ abort_request' = FALSE)
    BY <1>2, Zenon DEF HandleAbortRequest, StartSend
  <2> QED
    BY <2>1, <2>2, Zenon DEF Quiet, Begun
<1>3. CASE StartReceive
  BY <1>3, Zenon DEF StartReceive, portVars, envVars, Quiet, Begun
<1>4. CASE SpinForByte
  BY <1>4, Zenon DEF SpinForByte, portVars, envVars, Quiet, Begun
<1>5. CASE SendPixel \/ SendDone
  <2>1. /\ UNCHANGED <<rx, rdr, line, lost, msg_buf, abort_request>>
        /\ pc = "work" /\ pc' = "send"
    BY <1>5, Zenon DEF SendPixel, SendDone, Computing, StartSend, portVars, envVars
  <2> QED
    BY <2>1, Zenon DEF Quiet, Begun
<1>6. CASE Store \/ SpinForRoom
  <2>1. /\ UNCHANGED <<rx, rdr, line, lost, msg_buf, abort_request>>
        /\ pc \in {"send", "tx_spin"} /\ pc' \in {"send", "tx_spin", "start"}
    BY <1>6, Zenon DEF Store, SpinForRoom, portVars, envVars
  <2> QED
    BY <2>1, Zenon DEF Quiet, Begun
<1>7. CASE StartTransmission
  <2>1. /\ UNCHANGED <<rx, rdr, line, lost, msg_buf, abort_request>>
        /\ pc = "start" /\ pc' \in {"abort", "work"}
    BY <1>7, Zenon DEF StartTransmission, SendInv, envVars
  <2> QED
    BY <2>1, Zenon DEF Quiet, Begun
<1>8. CASE Sleep
  BY <1>8, Zenon DEF Sleep, portVars, envVars, Quiet, Begun
<1>9. CASE Tx_interrupt \/ Button
  <2>1. /\ UNCHANGED <<rx, rdr, line, lost, msg_buf>> /\ pc' = Woken
        /\ abort_request' = abort_request \/ abort_request' = (abort_request \/ nucleo.computing)
    BY <1>9, Zenon DEF Tx_interrupt, Button, portVars, envVars
  <2> QED
    BY <2>1, Zenon DEF Quiet, Begun, Woken
<1>10. CASE ByteLeaves
  BY <1>10, Zenon DEF ByteLeaves, loopVars, Quiet, Begun
<1> QED
  BY <1>1, <1>2, <1>3, <1>4, <1>5, <1>6, <1>7, <1>8, <1>9, <1>10, Zenon DEF Next, Loop

LEMMA RecvInit == Init => RecvType /\ RecvInv
<1> SUFFICES ASSUME Init PROVE RecvType /\ RecvInv
  OBVIOUS
<1>1. /\ rx = << >> /\ rdr = << >> /\ line = << >> /\ msg_buf = << >>
      /\ lost = 0 /\ abort_request = FALSE /\ pc = "send"
  BY Zenon DEF Init
<1>2. << >> \in Seq(BytesOf(Commands)) /\ Len(<< >>) <= 1 /\ 0 \in Nat
  BY EmptySeq
<1>3. Incoming = << >> /\ Begun = << >>
  <2>1. << >> \o << >> = << >>
    BY <1>2, ConcatEmptySeq
  <2> QED
    BY <1>1, <2>1, Zenon DEF Incoming, Ahead, Begun
<1>4. InFrame(<< >>) /\ EndsWhole(<< >>) /\ NoLast(<< >>)
  BY SMT DEF InFrame, EndsWhole, NoLast
<1> QED
  BY <1>1, <1>2, <1>3, <1>4, Zenon DEF RecvType, RecvInv

LEMMA RecvTypeStep ==
  ASSUME SendInv, RecvType, [Next]_vars
  PROVE  RecvType'
<1> DEFINE B == BytesOf(Commands)
<1>0. /\ rx \in Seq(B) /\ line \in Seq(B) /\ rdr \in Seq(B) /\ Len(rdr) <= 1
      /\ msg_buf \in Seq(B) /\ lost \in Nat /\ abort_request \in BOOLEAN
  BY DEF RecvType
<1>1. CASE Quiet
  <2>1. << >> \in Seq(B)
    BY EmptySeq
  <2> QED
    BY <1>0, <1>1, <2>1, Zenon DEF Quiet, RecvType
<1>2. CASE ReceiveByte
  <2> DEFINE bytes == Append(msg_buf, Head(rx))
  <2>1. rx # << >> /\ UNCHANGED <<line, rdr, lost>>
    BY <1>2, Zenon DEF ReceiveByte, envVars
  <2>2. Tail(rx) \in Seq(B) /\ Head(rx) \in B
    BY <1>0, <2>1, HeadTail
  <2>3. bytes \in Seq(B)
    BY <1>0, <2>2, AppendProperties
  <2>4. (msg_buf' = msg_buf /\ rx' = rx) \/ (msg_buf' = bytes /\ rx' = Tail(rx))
    BY <1>2, Zenon DEF ReceiveByte
  <2>5. abort_request' = abort_request \/ Complete(bytes)
    BY <1>2, Zenon DEF ReceiveByte
  <2>6. Complete(bytes) => abort_request' = abort_request \/ abort_request' \in BOOLEAN
    BY Zenon DEF Complete
  <2> QED
    BY <1>0, <2>1, <2>2, <2>3, <2>4, <2>5, <2>6, Zenon DEF RecvType
<1>3. CASE Rx_interrupt
  <2>1. /\ rx' = rx \o rdr /\ rdr' = << >>
        /\ UNCHANGED <<line, lost, msg_buf, abort_request>>
    BY <1>3, Zenon DEF Rx_interrupt, envVars
  <2>2. rx \o rdr \in Seq(B) /\ << >> \in Seq(B) /\ Len(<< >>) <= 1
    BY <1>0, ConcatProperties, EmptySeq
  <2> QED
    BY <1>0, <2>1, <2>2, Zenon DEF RecvType
<1>4. CASE PcSend
  <2>1. /\ \E m \in Commands : line' = line \o Bytes(m)
        /\ UNCHANGED <<rx, rdr, lost, msg_buf, abort_request>>
    BY <1>4, Zenon DEF PcSend, loopVars, portVars
  <2>2. PICK m \in Commands : line' = line \o Bytes(m)
    BY <2>1
  <2>3. line \o Bytes(m) \in Seq(B)
    BY <1>0, BytesFacts, ConcatProperties
  <2> QED
    BY <1>0, <2>1, <2>2, <2>3, Zenon DEF RecvType
<1>5. CASE ByteArrives
  <2>1. /\ line # << >> /\ line' = Tail(line) /\ rdr' = <<Head(line)>>
        /\ UNCHANGED <<rx, lost, msg_buf, abort_request>>
    BY <1>5, Zenon DEF ByteArrives, loopVars
  <2>2. Head(line) \in B /\ Tail(line) \in Seq(B)
    BY <1>0, <2>1, HeadTail
  <2>3. <<Head(line)>> \in Seq(B) /\ Len(<<Head(line)>>) <= 1
    BY <2>2
  <2> QED
    BY <1>0, <2>1, <2>2, <2>3, Zenon DEF RecvType
<1>6. CASE LoseByte
  <2>1. /\ lost' = lost + 1
        /\ UNCHANGED <<rx, rdr, msg_buf, abort_request>>
    BY <1>6, Zenon DEF LoseByte, loopVars, portVars
  <2>2. PICK i \in DOMAIN line : line' = RemoveAt(line, i)
    BY <1>6, Zenon DEF LoseByte
  <2>3. line' = SubSeq(line, 1, i - 1) \o SubSeq(line, i + 1, Len(line))
    BY <2>2, Zenon DEF RemoveAt
  <2>4. /\ SubSeq(line, 1, i - 1) \in Seq(B)
        /\ SubSeq(line, i + 1, Len(line)) \in Seq(B)
    BY <1>0
  <2>5. line' \in Seq(B)
    BY <2>3, <2>4, ConcatProperties
  <2>6. lost + 1 \in Nat
    BY <1>0
  <2> QED
    BY <1>0, <2>1, <2>5, <2>6, Zenon DEF RecvType
<1> QED
  BY <1>1, <1>2, <1>3, <1>4, <1>5, <1>6, QuietSteps

(* The bytes stay whole messages.                                          *)
LEMMA RecvStep ==
  ASSUME SendInv, RecvType, RecvInv, [Next]_vars
  PROVE  RecvInv'
<1> DEFINE B == BytesOf(Commands)
<1>0. /\ rx \in Seq(B) /\ line \in Seq(B) /\ rdr \in Seq(B)
      /\ msg_buf \in Seq(B) /\ lost \in Nat
  BY DEF RecvType
<1>00. Begun \in Seq(B)
  <2>1. << >> \in Seq(B)
    BY EmptySeq
  <2> QED
    BY <1>0, <2>1, Zenon DEF Begun
<1> SUFFICES ASSUME lost' = 0
             PROVE  InFrame(Incoming') /\ EndsWhole(Incoming') /\ NoLast(Begun')
  BY Zenon DEF RecvInv, InFrame, EndsWhole, NoLast, Follows, IsLast
<1>1. ASSUME lost = 0, Ahead' = Ahead, Begun' = Begun
      PROVE  InFrame(Incoming') /\ EndsWhole(Incoming') /\ NoLast(Begun')
  BY <1>1, Zenon DEF RecvInv, Incoming
<1>2. CASE Quiet
  BY <1>1, <1>2, Zenon DEF Quiet, Ahead
<1>3. CASE ReceiveByte
  <2> DEFINE bytes == Append(msg_buf, Head(rx))
             left == Tail(rx) \o rdr \o line
  <2>1. pc = "receive" /\ rx # << >> /\ lost = 0
    BY <1>3, Zenon DEF ReceiveByte, envVars
  <2>2. /\ bytes \in Seq(B) /\ left \in Seq(B) /\ Incoming = bytes \o left
        /\ bytes # << >> /\ bytes[Len(bytes)] = Head(rx)
        /\ Len(bytes) = Len(msg_buf) + 1
        /\ \A k \in 1 .. Len(msg_buf) : bytes[k] = msg_buf[k]
    BY <2>1, NextByteTaken
  <2>3. /\ msg_buf' = bytes /\ rx' = Tail(rx)
        /\ IF IsLast(Head(rx))
             THEN bytes = Bytes(bytes[1].m) /\ Complete(bytes)
             ELSE UNCHANGED <<nucleo, abort_request, reply, stored, empty, pc, next>>
    BY <1>3, <2>1, ByteReceived
  <2>4. Ahead' = left
    BY <1>3, <2>3, Zenon DEF ReceiveByte, envVars, Ahead
  <2> HIDE DEF bytes, left
  <2>5. InFrame(bytes \o left) /\ EndsWhole(bytes \o left) /\ NoLast(msg_buf)
    BY <2>1, <2>2, Zenon DEF RecvInv, Begun
  <2>6. CASE IsLast(Head(rx))
    <3>1. pc' = "send"
      BY <2>3, <2>6, Zenon DEF Complete, StartSend
    <3>2. Incoming' = left /\ Begun' = << >>
      <4>1. Begun' = << >>
        BY <3>1, Zenon DEF Begun
      <4>2. << >> \o left = left
        BY <2>2, ConcatEmptySeq
      <4> QED
        BY <2>4, <4>1, <4>2, Zenon DEF Incoming
    <3>3. InFrame(left) /\ EndsWhole(left)
      BY <2>2, <2>5, <2>6, WholeDropped
    <3>4. NoLast(<< >>)
      BY SMT DEF NoLast
    <3> QED
      BY <3>2, <3>3, <3>4, Zenon
  <2>7. CASE ~IsLast(Head(rx))
    <3>1. Begun' = bytes
      BY <2>1, <2>3, <2>7, Zenon DEF Begun
    <3>2. Incoming' = Incoming
      BY <2>2, <2>4, <3>1, Zenon DEF Incoming
    <3>3. NoLast(bytes)
      <4>1. ASSUME NEW k \in 1 .. Len(bytes)
            PROVE  k \in 1 .. Len(msg_buf) \/ k = Len(bytes)
        BY <1>0, <2>2
      <4> QED
        BY <2>2, <2>5, <2>7, <4>1, Zenon DEF NoLast
    <3> QED
      BY <2>1, <3>1, <3>2, <3>3, Zenon DEF RecvInv
  <2> QED
    BY <2>6, <2>7
<1>4. CASE Rx_interrupt
  <2>1. /\ rx' = rx \o rdr /\ rdr' = << >> /\ pc' = Woken
        /\ UNCHANGED <<line, lost, msg_buf>>
    BY <1>4, Zenon DEF Rx_interrupt, envVars
  <2>2. Begun' = Begun
    BY <2>1, Zenon DEF Begun, Woken
  <2>3. Ahead' = Ahead
    <3>1. (rx \o rdr) \o << >> = rx \o rdr
      BY <1>0
    <3> QED
      BY <2>1, <3>1, Zenon DEF Ahead
  <2> QED
    BY <1>1, <2>1, <2>2, <2>3, Zenon
<1>5. CASE PcSend
  <2>1. /\ \E m \in Commands : line' = line \o Bytes(m)
        /\ UNCHANGED <<rx, rdr, lost, msg_buf, pc>>
    BY <1>5, Zenon DEF PcSend, loopVars, portVars
  <2>2. PICK m \in Commands : line' = line \o Bytes(m)
    BY <2>1
  <2> DEFINE b == Bytes(m)
  <2>3. b \in Seq(B) /\ InFrame(Incoming) /\ EndsWhole(Incoming) /\ NoLast(Begun)
    BY <2>1, BytesFacts, Zenon DEF RecvInv
  <2>4. Begun' = Begun
    BY <2>1, Zenon DEF Begun
  <2>5. /\ Incoming \in Seq(B) /\ Incoming' = Incoming \o b
    <3> HIDE DEF b, B
    <3>1. Ahead \in Seq(B) /\ (rx \o rdr) \o (line \o b) = ((rx \o rdr) \o line) \o b
      BY <1>0, <2>3 DEF Ahead
    <3>2. Ahead' = Ahead \o b
      BY <2>1, <2>2, <3>1, Zenon DEF Ahead, b
    <3>3. Begun \o (Ahead \o b) = (Begun \o Ahead) \o b
      BY <1>00, <2>3, <3>1, ConcatRegroup
    <3>4. Begun \o Ahead \in Seq(B)
      BY <1>00, <3>1, ConcatProperties
    <3> QED
      BY <2>4, <3>2, <3>3, <3>4, Zenon DEF Incoming
  <2>6. InFrame(Incoming \o b) /\ EndsWhole(Incoming \o b)
    BY <2>3, <2>5, WholeMessage
  <2> QED
    BY <2>3, <2>4, <2>5, <2>6, Zenon
<1>6. CASE ByteArrives
  <2>1. /\ line # << >> /\ rdr = << >> /\ line' = Tail(line) /\ rdr' = <<Head(line)>>
        /\ UNCHANGED <<rx, lost, msg_buf, pc>>
    BY <1>6, Zenon DEF ByteArrives, loopVars
  <2>2. Ahead' = Ahead
    <3> DEFINE h == <<Head(line)>>
               t == Tail(line)
    <3>1. h \in Seq(B) /\ t \in Seq(B) /\ line = h \o t
      BY <1>0, <2>1, HeadTail
    <3> HIDE DEF h, t, B
    <3>2. (rx \o << >>) \o (h \o t) = (rx \o h) \o t
      BY <1>0, <3>1
    <3> QED
      BY <2>1, <3>1, <3>2, Zenon DEF Ahead, h, t
  <2>3. Begun' = Begun
    BY <2>1, Zenon DEF Begun
  <2> QED
    BY <1>1, <2>1, <2>2, <2>3, Zenon
<1>7. CASE LoseByte
  <2>1. lost' = lost + 1
    BY <1>7, Zenon DEF LoseByte
  <2> QED
    BY <1>0, <2>1
<1> QED
  BY <1>2, <1>3, <1>4, <1>5, <1>6, <1>7, QuietSteps

(* The receive side of the firmware, with the places of send_buffer.       *)
LEMMA ReceiveCorrect == Spec => [](TxType /\ SendInv /\ RecvType /\ RecvInv)
<1>1. TxType /\ SendInv /\ RunsInv /\ RecvType /\ RecvInv /\ [Next]_vars
        => RecvType' /\ RecvInv'
  BY RecvTypeStep, RecvStep
<1> QED
  BY <1>1, RecvInit, SendCorrect, PTL DEF Spec

-----------------------------------------------------------------------------
(* ImplementsNucleo, step by step                                          *)

(* Where the loop of the system model is.                                  *)
LEMMA StepFacts ==
  /\ pc = "abort" => Step = "abort"
  /\ pc \in Sending => Step = next
  /\ pc \notin Sending /\ pc # "abort" => Step = "work"
<1>1. pc = "abort" => pc \notin {"send", "tx_spin", "start"}
  OBVIOUS
<1> QED
  BY <1>1 DEF Step, Sending

Arrived == Len(Messages(rx))

Stutters == UNCHANGED <<N!nucleoVars, ToNucleo, ToPc>>

LEMMA StutterFacts ==
  ASSUME UNCHANGED <<nucleo, abort_request, presses>>,
         Step' = Step, Arrived' = Arrived, ToNucleo' = ToNucleo, ToPc' = ToPc
  PROVE  Stutters
  BY Zenon DEF Stutters, N!nucleoVars, Arrived

LEMMA SameReceived ==
  ASSUME UNCHANGED <<rx, rdr, line>>
  PROVE  ToNucleo' = ToNucleo /\ Arrived' = Arrived
  BY Zenon DEF ToNucleo, Arrived

LEMMA SameBack ==
  ASSUME UNCHANGED <<tx, tdr>>, pc \notin Sending, pc' \notin Sending
  PROVE  ToPc' = ToPc
<1>1. Unstored' = Unstored
  BY Zenon DEF Unstored, Sending
<1> QED
  BY <1>1, Zenon DEF ToPc

LEMMA SameBackAt ==
  ASSUME UNCHANGED <<tx, tdr, pc, reply, stored>>
  PROVE  ToPc' = ToPc
<1>1. Unstored' = Unstored
  BY Zenon DEF Unstored
<1> QED
  BY <1>1, Zenon DEF ToPc

(* The steps of the loop that the system model does not have.              *)
LEMMA LoopStutters ==
  ASSUME TxType, SendInv,
         \/ StartReceive \/ SpinForByte \/ Sleep
         \/ Store \/ SpinForRoom \/ StartTransmission
  PROVE  Stutters
<1>1. CASE StartReceive \/ SpinForByte \/ Sleep
  <2>1. /\ UNCHANGED <<nucleo, abort_request, presses, rx, rdr, line, tx, tdr>>
        /\ pc \in {"work", "receive", "rx_spin", "doze"}
        /\ pc' \in {"receive", "rx_spin", "doze", "sleep"}
    BY <1>1, Zenon DEF StartReceive, SpinForByte, Sleep, portVars, envVars
  <2>2. /\ pc \notin Sending /\ pc # "abort" /\ pc' \notin Sending /\ pc' # "abort"
    BY <2>1, Zenon DEF Sending
  <2>3. Step' = Step
    BY <2>2, Zenon DEF Step, Sending
  <2> QED
    BY <2>1, <2>2, <2>3, StutterFacts, SameReceived, SameBack, Zenon
<1>2. CASE Store \/ SpinForRoom \/ StartTransmission
  <2>1. /\ UNCHANGED <<nucleo, abort_request, presses, rx, rdr, line, next>>
        /\ pc \in Sending /\ (pc' \in Sending \/ pc' = next)
    BY <1>2, Zenon DEF Store, SpinForRoom, StartTransmission, portVars, envVars, Sending
  <2>2. next \in {"abort", "work"}
    BY DEF SendInv
  <2>3. Step' = Step
    <3>1. Step = next
      BY <2>1, StepFacts, Zenon
    <3>2. pc' \in Sending => Step' = next
      BY <2>1, Zenon DEF Step, Sending
    <3>3. pc' = next => Step' = next
      BY <2>2, Zenon DEF Step
    <3> QED
      BY <2>1, <3>1, <3>2, <3>3, Zenon
  <2>4. ToPc' = ToPc
    BY <1>2, TransmitKeepsBack
  <2> QED
    BY <2>1, <2>3, <2>4, StutterFacts, SameReceived, Zenon
<1> QED
  BY <1>1, <1>2

(* The beginning of send_buffer is where the answer is sent.               *)
LEMMA LoopSends ==
  ASSUME NEW m, NEW then \in {"abort", "work"}, StartSend(m, then),
         pc \notin Sending, UNCHANGED <<tx, tdr, tc, assembled>>
  PROVE  SendBegins(m) /\ Step' = then
<1>1. pc' = "send" /\ next' = then
  BY Zenon DEF StartSend
<1>2. SendBegins(m)
  BY <1>1, Zenon DEF StartSend, SendBegins, Sending
<1>3. Step' = then
  BY <1>1, Zenon DEF Step
<1> QED
  BY <1>2, <1>3

LEMMA AbortImplemented ==
  ASSUME TxType, SendInv, HandleAbortRequest
  PROVE  N!HandleAbortRequest
<1>1. /\ pc = "abort"
      /\ UNCHANGED <<presses, rx, rdr, line, tx, tdr, tc, assembled>>
  BY Zenon DEF HandleAbortRequest, portVars, envVars
<1>2. Step = "abort" /\ pc \notin Sending
  BY <1>1, StepFacts, Zenon DEF Sending
<1>3. ToNucleo' = ToNucleo /\ Arrived' = Arrived
  BY <1>1, SameReceived, Zenon
<1>4. CASE abort_request /\ nucleo.computing
  <2>1. /\ nucleo' = [nucleo EXCEPT !.computing = FALSE] /\ abort_request' = FALSE
        /\ StartSend(N!Plain("MSG_ABORT"), "work")
    BY <1>4, Zenon DEF HandleAbortRequest
  <2>2. SendBegins(N!Plain("MSG_ABORT")) /\ Step' = "work"
    BY <1>1, <1>2, <2>1, LoopSends, Zenon
  <2>3. N!Send(N!Plain("MSG_ABORT"))
    BY <2>2, SendsToPc, Zenon
  <2> QED
    BY <1>1, <1>2, <1>3, <1>4, <2>1, <2>2, <2>3, Zenon DEF N!HandleAbortRequest, Arrived
<1>5. CASE ~(abort_request /\ nucleo.computing)
  <2>1. pc' = "work" /\ UNCHANGED <<nucleo, abort_request>>
    BY <1>5, Zenon DEF HandleAbortRequest
  <2>2. Step' = "work" /\ pc' \notin Sending
    BY <2>1, Zenon DEF Step, Sending
  <2>3. ToPc' = ToPc
    BY <1>1, <1>2, <2>2, SameBack, Zenon
  <2> QED
    BY <1>1, <1>2, <1>3, <1>5, <2>1, <2>2, <2>3, Zenon DEF N!HandleAbortRequest, Arrived
<1> QED
  BY <1>4, <1>5

LEMMA ComputationImplemented ==
  ASSUME TxType, SendInv, SendPixel \/ SendDone
  PROVE  N!SendPixel \/ N!SendDone
<1>1. /\ pc = "work" /\ rx = << >> /\ nucleo.computing
      /\ UNCHANGED <<abort_request, presses, rx, rdr, line, tx, tdr, tc, assembled>>
  BY Zenon DEF SendPixel, SendDone, Computing, portVars, envVars
<1>2. Step = "work" /\ pc \notin Sending
  BY <1>1, StepFacts, Zenon DEF Sending
<1>3. ToNucleo' = ToNucleo /\ Arrived' = Arrived
  BY <1>1, SameReceived, Zenon
<1>4. Arrived = 0
  <2>1. Len(<< >>) = 0
    OBVIOUS
  <2> QED
    BY <1>1, <2>1, MessagesEmpty, Zenon DEF Arrived
<1>5. Step' = "abort" => N!Computing
  BY <1>1, <1>2, <1>3, <1>4, Zenon DEF N!Computing, Arrived
<1>6. CASE SendPixel
  <2> DEFINE m == N!ComputeData(nucleo.cid, nucleo.cx, nucleo.cy,
                    N!Iterations(nucleo.c, nucleo.d, nucleo.n,
                                 nucleo.re + nucleo.cx, nucleo.im + nucleo.cy))
  <2>1. StartSend(m, "abort") /\ nucleo' = N!NextPixel /\ ~N!LastPixelSent
    BY <1>6, Zenon DEF SendPixel
  <2>2. N!Send(m) /\ Step' = "abort"
    <3> HIDE DEF m
    <3> QED
      BY <1>1, <1>2, <2>1, LoopSends, SendsToPc, Zenon
  <2> QED
    BY <1>5, <2>1, <2>2, Zenon DEF N!SendPixel
<1>7. CASE SendDone
  <2> DEFINE m == N!Plain("MSG_DONE")
  <2>1. /\ StartSend(m, "abort") /\ nucleo' = [nucleo EXCEPT !.computing = FALSE]
        /\ N!LastPixelSent
    BY <1>7, Zenon DEF SendDone
  <2>2. N!Send(m) /\ Step' = "abort"
    <3> HIDE DEF m
    <3> QED
      BY <1>1, <1>2, <2>1, LoopSends, SendsToPc, Zenon
  <2> QED
    BY <1>5, <2>1, <2>2, Zenon DEF N!SendDone
<1> QED
  BY <1>6, <1>7

(* A byte of receive_message is nothing to the system model, or it is the  *)
(* message.                                                                *)
LEMMA ReceiveImplemented ==
  ASSUME TxType, SendInv, RecvType, RecvInv, lost = 0, ReceiveByte
  PROVE  \/ N!ReceiveGetVersion \/ N!ReceiveAbort
         \/ N!ReceiveSetCompute \/ N!ReceiveCompute
         \/ Stutters
<1> DEFINE bytes == Append(msg_buf, Head(rx))
           left == Tail(rx) \o rdr \o line
           w == bytes[1].m
           B == BytesOf(Commands)
<1>1. /\ pc = "receive" /\ rx # << >>
      /\ UNCHANGED <<presses, rdr, line, tx, tdr, tc, assembled>>
  BY Zenon DEF ReceiveByte, envVars
<1>2. /\ w \in Commands /\ Head(rx).m = w /\ rx' = Tail(rx)
      /\ IF IsLast(Head(rx))
           THEN bytes = Bytes(w) /\ Complete(bytes)
           ELSE UNCHANGED <<nucleo, abort_request, reply, stored, empty, pc, next>>
  BY ByteReceived
<1>3. /\ Ahead \in Seq(B) /\ Ahead # << >> /\ Head(Ahead) = Head(rx)
      /\ Tail(Ahead) = left /\ rx \in Seq(B)
  BY <1>1, NextByteTaken DEF RecvType
<1>4. ToNucleo = Messages(Ahead) /\ ToNucleo' = Messages(left)
  BY <1>1, <1>2, Zenon DEF ToNucleo, Ahead
<1>5. Step = "work" /\ pc \notin Sending
  BY <1>1, StepFacts, Zenon DEF Sending
<1>6. CASE ~IsLast(Head(rx))
  <2>1. UNCHANGED <<nucleo, abort_request, reply, stored, pc, next>>
    BY <1>2, <1>6, Zenon
  <2>2. ToNucleo' = ToNucleo
    <3> HIDE DEF left
    <3> QED
      BY <1>3, <1>4, <1>6, MessagesTaken
  <2>3. Arrived' = Arrived
    <3>1. Messages(Tail(rx)) = Messages(rx)
      BY <1>1, <1>3, <1>6, MessagesTaken
    <3> QED
      BY <1>2, <3>1, Zenon DEF Arrived
  <2>4. Step' = Step /\ ToPc' = ToPc
    BY <1>1, <2>1, SameBackAt, Zenon DEF Step
  <2> QED
    BY <1>1, <2>1, <2>2, <2>3, <2>4, StutterFacts, Zenon
<1>7. CASE IsLast(Head(rx))
  <2>1. bytes = Bytes(w) /\ Complete(bytes)
    BY <1>2, <1>7, Zenon
  <2>2. /\ ToNucleo' = Tail(ToNucleo) /\ Head(ToNucleo) = w
    <3> HIDE DEF left, w
    <3> QED
      BY <1>2, <1>3, <1>4, <1>7, MessagesTaken
  <2>3. Arrived > 0 /\ Arrived' = Arrived - 1
    <3> DEFINE x == Messages(rx)
    <3>1. x # << >> /\ Messages(Tail(rx)) = Tail(x) /\ x \in Seq(Commands)
      BY <1>1, <1>3, <1>7, MessagesTaken, MessagesType
    <3> HIDE DEF x
    <3>2. Len(x) > 0 /\ Len(Tail(x)) = Len(x) - 1
      BY <3>1
    <3> QED
      BY <1>2, <3>1, <3>2, Zenon DEF Arrived, x
  <2>4. /\ nucleo' = Obey(w) /\ abort_request' = (abort_request /\ w.type # "MSG_ABORT")
        /\ StartSend(Answer(w), "abort")
    BY <2>1, Zenon DEF Complete
  <2> HIDE DEF bytes, w, left
  <2>5. N!Send(Answer(w)) /\ Step' = "abort"
    BY <1>1, <1>5, <2>4, LoopSends, SendsToPc, Zenon
  <2>6. ASSUME NEW type, w.type = type
        PROVE  N!Received(type)
    BY <1>1, <1>5, <2>2, <2>3, <2>5, <2>6, Zenon DEF N!Received, Arrived
  <2>7. abort_request \in BOOLEAN
    BY DEF RecvType
  <2>8. CASE w.type = "MSG_GET_VERSION"
    <3>1. Obey(w) = nucleo /\ Answer(w) = N!Plain("MSG_VERSION")
      BY <2>8 DEF Obey, Answer
    <3>2. abort_request' = abort_request
      BY <2>4, <2>7, <2>8
    <3> QED
      BY <2>4, <2>5, <2>6, <2>8, <3>1, <3>2, Zenon DEF N!ReceiveGetVersion
  <2>9. CASE w.type = "MSG_ABORT"
    <3>1. /\ Obey(w) = [nucleo EXCEPT !.computing = FALSE]
          /\ Answer(w) = N!Plain("MSG_OK")
      BY <2>9 DEF Obey, Answer
    <3>2. abort_request' = FALSE
      BY <2>4, <2>9
    <3> QED
      BY <2>4, <2>5, <2>6, <2>9, <3>1, <3>2, Zenon DEF N!ReceiveAbort
  <2>10. CASE w.type = "MSG_SET_COMPUTE"
    <3>1. /\ Obey(w) = [nucleo EXCEPT !.c = w.c, !.d = w.d, !.n = w.n]
          /\ Answer(w) = N!Plain("MSG_OK")
      BY <2>10 DEF Obey, Answer
    <3>2. abort_request' = abort_request
      BY <2>4, <2>7, <2>10
    <3> QED
      BY <2>2, <2>4, <2>5, <2>6, <2>10, <3>1, <3>2, Zenon DEF N!ReceiveSetCompute
  <2>11. CASE w.type = "MSG_COMPUTE"
    <3>1. Answer(w) = N!Plain("MSG_OK")
      BY <2>11 DEF Answer
    <3>2. Obey(w) = IF nucleo.computing
                      THEN nucleo
                      ELSE [nucleo EXCEPT !.cid = w.cid, !.re = w.re, !.im = w.im,
                                          !.cx = 0, !.cy = 0,
                                          !.chunk_size = w.size,
                                          !.computing = TRUE]
      BY <2>11 DEF Obey
    <3>3. abort_request' = abort_request
      BY <2>4, <2>7, <2>11
    <3> QED
      BY <2>2, <2>4, <2>5, <2>6, <2>11, <3>1, <3>2, <3>3, Zenon DEF N!ReceiveCompute
  <2> QED
    BY <1>2, <2>8, <2>9, <2>10, <2>11, SerialAssumption DEF w
<1> QED
  BY <1>6, <1>7

(* The receive interrupt completes a message or not.                       *)
LEMMA ArrivalImplemented ==
  ASSUME RecvType, Rx_interrupt
  PROVE  N!Arrive \/ Stutters
<1> DEFINE B == BytesOf(Commands)
<1>0. /\ rx \in Seq(B) /\ line \in Seq(B) /\ rdr \in Seq(B) /\ Len(rdr) <= 1
  BY DEF RecvType
<1>1. /\ rdr # << >> /\ rx' = rx \o rdr /\ rdr' = << >> /\ pc' = Woken /\ IrqEnabled
      /\ UNCHANGED <<nucleo, abort_request, presses, next, line, tx, tdr, reply, stored>>
  BY Zenon DEF Rx_interrupt, envVars
<1>2. PICK b \in B : rdr = <<b>>
  <2>1. Len(rdr) \in Nat \ {0}
    BY <1>0, <1>1, EmptySeq, LenProperties
  <2>2. \A n \in Nat \ {0} : n <= 1 => n = 1
    OBVIOUS
  <2>3. Len(rdr) = 1 /\ rdr \in Seq(B)
    BY <1>0, <2>1, <2>2, Zenon
  <2> QED
    BY <2>3
<1>3. Step' = Step
  BY <1>1, Zenon DEF Woken, Step
<1>4. ToPc' = ToPc
  <2>1. Unstored' = Unstored
    BY <1>1, Zenon DEF Woken, Unstored
  <2> QED
    BY <1>1, <2>1, Zenon DEF ToPc
<1>5. ToNucleo' = ToNucleo
  <2>1. rx \o rdr \in Seq(B)
    BY <1>0, ConcatProperties
  <2>2. (rx \o rdr) \o << >> = rx \o rdr
    BY <2>1, ConcatEmptySeq
  <2> QED
    BY <1>1, <2>2, Zenon DEF ToNucleo
<1> DEFINE x == Messages(rx)
           y == Messages(rdr)
           z == Messages(line)
<1>6. x \in Seq(Commands) /\ y \in Seq(Commands) /\ z \in Seq(Commands)
  BY <1>0, MessagesType
<1>7. y = Completed(b)
  BY <1>2, MessagesOne, Zenon
<1>8. ToNucleo = (x \o y) \o z /\ Messages(rx \o rdr) = x \o y
  <2>1. rx \o rdr \in Seq(B)
    BY <1>0, ConcatProperties
  <2>2. Messages(rx \o rdr) = x \o y
    BY <1>0, MessagesConcat
  <2>3. Messages((rx \o rdr) \o line) = Messages(rx \o rdr) \o z
    BY <1>0, <2>1, MessagesConcat
  <2> QED
    BY <2>2, <2>3, Zenon DEF ToNucleo
<1>9. Arrived = Len(x) /\ Arrived' = Len(x \o y)
  BY <1>1, <1>8, Zenon DEF Arrived
<1> HIDE DEF x, y, z
<1>10. CASE IsLast(b)
  <2>1. y = <<b.m>>
    BY <1>7, <1>10, Zenon DEF Completed
  <2>2. Len(y) = 1
    BY <2>1
  <2>3. /\ Len(x \o y) = Len(x) + 1 /\ Len((x \o y) \o z) = Len(x) + 1 + Len(z)
        /\ Len(x) \in Nat /\ Len(z) \in Nat
    <3>1. \A r, s \in Seq(Commands) : /\ r \o s \in Seq(Commands)
                                      /\ Len(r \o s) = Len(r) + Len(s)
                                      /\ Len(r) \in Nat
      BY ConcatProperties, LenProperties
    <3>2. x \o y \in Seq(Commands)
      BY <1>6, <3>1, Zenon
    <3>3. Len(x \o y) = Len(x) + Len(y) /\ Len((x \o y) \o z) = Len(x \o y) + Len(z)
      BY <1>6, <3>1, <3>2, Zenon
    <3>4. Len(x) \in Nat /\ Len(z) \in Nat
      BY <1>6, <3>1, Zenon
    <3> QED
      BY <2>2, <3>3, <3>4, Zenon
  <2>4. Len(x) < Len((x \o y) \o z)
    BY <2>3
  <2>5. Arrived < Len(ToNucleo) /\ Arrived' = Arrived + 1
    BY <1>8, <1>9, <2>3, <2>4, Zenon
  <2> QED
    BY <1>1, <1>3, <1>4, <1>5, <2>5, Zenon DEF N!Arrive, Arrived
<1>11. CASE ~IsLast(b)
  <2>1. y = << >>
    BY <1>7, <1>11, Zenon DEF Completed
  <2>2. x \o y = x
    BY <1>6, <2>1
  <2>3. Arrived' = Arrived
    BY <1>9, <2>2, Zenon
  <2> QED
    BY <1>1, <1>3, <1>4, <1>5, <2>3, StutterFacts, Zenon
<1> QED
  BY <1>10, <1>11

LEMMA ButtonImplemented ==
  ASSUME Button
  PROVE  N!Button
<1>1. /\ presses < MaxPresses /\ presses' = presses + 1
      /\ abort_request' = (abort_request \/ nucleo.computing) /\ pc' = Woken
      /\ UNCHANGED <<nucleo, next, reply, stored, rx, rdr, line, tx, tdr>>
  BY Zenon DEF Button, portVars
<1>2. Step' = Step
  BY <1>1, Zenon DEF Woken, Step
<1>3. Unstored' = Unstored
  BY <1>1, Zenon DEF Woken, Unstored
<1>4. ToPc' = ToPc
  BY <1>1, <1>3, Zenon DEF ToPc
<1>5. ToNucleo' = ToNucleo /\ Arrived' = Arrived
  BY <1>1, SameReceived, Zenon
<1> QED
  BY <1>1, <1>2, <1>4, <1>5, Zenon DEF N!Button, Arrived

LEMMA TransmissionImplemented ==
  ASSUME TxType, SendInv, Tx_interrupt
  PROVE  Stutters
<1>1. /\ pc' = Woken
      /\ UNCHANGED <<nucleo, abort_request, presses, next, rx, rdr, line>>
  BY Zenon DEF Tx_interrupt, envVars
<1>2. Step' = Step
  BY <1>1, Zenon DEF Woken, Step
<1>3. ToPc' = ToPc
  BY TransmitKeepsBack
<1> QED
  BY <1>1, <1>2, <1>3, StutterFacts, SameReceived, Zenon

LEMMA PcSendImplemented ==
  ASSUME RecvType, PcSend
  PROVE  PcSends
<1> DEFINE B == BytesOf(Commands)
<1>1. /\ \E m \in Commands : line' = line \o Bytes(m)
      /\ UNCHANGED <<nucleo, abort_request, presses, pc, next, reply, stored,
                     rx, rdr, tx, tdr>>
  BY Zenon DEF PcSend, loopVars, portVars
<1>2. PICK m \in Commands : line' = line \o Bytes(m)
  BY <1>1
<1> DEFINE b == Bytes(m)
           c == rx \o rdr
<1>3. /\ b \in Seq(B) /\ Messages(b) = <<m>> /\ c \in Seq(B) /\ line \in Seq(B)
  BY BytesFacts, MessagesWhole, ConcatProperties DEF RecvType
<1>4. ToNucleo = Messages(c \o line) /\ ToNucleo' = Messages(c \o (line \o b))
  BY <1>1, <1>2, Zenon DEF ToNucleo
<1> HIDE DEF b, c
<1>5. c \o (line \o b) = (c \o line) \o b /\ c \o line \in Seq(B)
  BY <1>3, ConcatRegroup, ConcatProperties
<1>6. Messages((c \o line) \o b) = Messages(c \o line) \o Messages(b)
  BY <1>3, <1>5, MessagesConcat, Zenon
<1>7. ToNucleo \in Seq(Commands)
  BY <1>4, <1>5, MessagesType, Zenon
<1>8. ToNucleo' = ToNucleo \o <<m>>
  BY <1>3, <1>4, <1>5, <1>6, Zenon
<1>9. ToNucleo' = Append(ToNucleo, m)
  BY <1>7, <1>8, AppendIsConcat, Zenon
<1>10. Step' = Step /\ ToPc' = ToPc
  BY <1>1, SameBackAt, Zenon DEF Step
<1> QED
  BY <1>1, <1>9, <1>10, Zenon DEF PcSends, N!nucleoVars

LEMMA ByteArrivesImplemented ==
  ASSUME RecvType, ByteArrives
  PROVE  Stutters
<1> DEFINE B == BytesOf(Commands)
           h == <<Head(line)>>
           t == Tail(line)
<1>1. /\ line # << >> /\ rdr = << >> /\ line' = t /\ rdr' = h
      /\ UNCHANGED <<nucleo, abort_request, presses, pc, next, reply, stored, rx, tx, tdr>>
  BY Zenon DEF ByteArrives, loopVars
<1>2. rx \in Seq(B) /\ line \in Seq(B)
  BY DEF RecvType
<1>3. h \in Seq(B) /\ t \in Seq(B) /\ line = h \o t
  BY <1>1, <1>2, HeadTail
<1> HIDE DEF B, h, t
<1>4. (rx \o << >>) \o (h \o t) = (rx \o h) \o t
  BY <1>2, <1>3
<1>5. ToNucleo' = ToNucleo
  BY <1>1, <1>3, <1>4, Zenon DEF ToNucleo
<1>6. Arrived' = Arrived /\ Step' = Step /\ ToPc' = ToPc
  BY <1>1, SameBackAt, Zenon DEF Arrived, Step
<1> QED
  BY <1>1, <1>5, <1>6, StutterFacts, Zenon

LEMMA ByteLeavesImplemented ==
  ASSUME TxType, SendInv, ByteLeaves
  PROVE  PcReads \/ Stutters
<1>1. UNCHANGED <<nucleo, abort_request, presses, pc, next, rx, rdr, line>>
  BY Zenon DEF ByteLeaves, loopVars
<1>2. Step' = Step /\ ToNucleo' = ToNucleo /\ Arrived' = Arrived
  BY <1>1, SameReceived, Zenon DEF Step
<1>3. ToPc' = ToPc \/ (ToPc # << >> /\ ToPc' = Tail(ToPc))
  BY ByteLeavesBack
<1>4. UNCHANGED N!nucleoVars
  BY <1>1, <1>2, Zenon DEF N!nucleoVars, Arrived
<1> QED
  BY <1>1, <1>2, <1>3, <1>4, StutterFacts, Zenon DEF PcReads

Implemented == lost' > 0 \/ N!NucleoNext \/ PcSends \/ PcReads \/ Stutters

LEMMA StepImplemented ==
  ASSUME TxType, SendInv, RecvType, RecvInv, [Next]_vars
  PROVE  Implemented
<1>1. CASE UNCHANGED vars
  <2>1. UNCHANGED <<nucleo, abort_request, presses, pc, next, reply, stored,
                    rx, rdr, line, tx, tdr>>
    BY <1>1, Zenon DEF vars, loopVars, portVars, envVars
  <2>2. Step' = Step
    BY <2>1, Zenon DEF Step
  <2> QED
    BY <2>1, <2>2, StutterFacts, SameReceived, SameBackAt, Zenon DEF Implemented
<1>2. CASE HandleAbortRequest
  BY <1>2, AbortImplemented, Zenon DEF Implemented, N!NucleoNext, N!Loop
<1>3. CASE SendPixel \/ SendDone
  BY <1>3, ComputationImplemented, Zenon DEF Implemented, N!NucleoNext, N!Loop
<1>4. CASE ReceiveByte
  <2>1. lost' = lost /\ lost \in Nat
    BY <1>4, Zenon DEF ReceiveByte, envVars, RecvType
  <2>2. lost = 0 \/ lost' > 0
    BY <2>1
  <2> QED
    BY <1>4, <2>2, ReceiveImplemented, Zenon DEF Implemented, N!NucleoNext, N!Loop
<1>5. CASE \/ StartReceive \/ SpinForByte \/ Sleep
           \/ Store \/ SpinForRoom \/ StartTransmission
  BY <1>5, LoopStutters, Zenon DEF Implemented
<1>6. CASE Rx_interrupt
  BY <1>6, ArrivalImplemented, Zenon DEF Implemented, N!NucleoNext
<1>7. CASE Tx_interrupt
  BY <1>7, TransmissionImplemented, Zenon DEF Implemented
<1>8. CASE Button
  BY <1>8, ButtonImplemented, Zenon DEF Implemented, N!NucleoNext
<1>9. CASE PcSend
  BY <1>9, PcSendImplemented, Zenon DEF Implemented
<1>10. CASE ByteArrives
  BY <1>10, ByteArrivesImplemented, Zenon DEF Implemented
<1>11. CASE ByteLeaves
  BY <1>11, ByteLeavesImplemented, Zenon DEF Implemented
<1>12. CASE LoseByte
  <2>1. lost' = lost + 1 /\ lost \in Nat
    BY <1>12, Zenon DEF LoseByte, RecvType
  <2> QED
    BY <2>1 DEF Implemented
<1> QED
  BY <1>1, <1>2, <1>3, <1>4, <1>5, <1>6, <1>7, <1>8, <1>9, <1>10, <1>11, <1>12, Zenon
     DEF Next, Loop

(* The firmware with its bytes, rings and interrupts implements the        *)
(* firmware of the system model, as long as no byte is lost: for any       *)
(* commands, any sizes of rings and messages, any number of bytes on the   *)
(* line.                                                                   *)
THEOREM NucleoIsImplemented == Spec => ImplementsNucleo
<1>1. Init => N!NucleoInit
  <2> SUFFICES ASSUME Init PROVE N!NucleoInit
    OBVIOUS
  <2>1. /\ nucleo = N!Idle /\ abort_request = FALSE /\ pc = "send" /\ next = "abort"
        /\ rx = << >> /\ presses = 0
    BY Zenon DEF Init
  <2>2. Step = "abort"
    BY <2>1, Zenon DEF Step
  <2>3. Len(Messages(rx)) = 0
    <3>1. Len(<< >>) = 0
      OBVIOUS
    <3> QED
      BY <2>1, <3>1, MessagesEmpty, Zenon
  <2> QED
    BY <2>1, <2>2, <2>3, Zenon DEF N!NucleoInit
<1>2. TxType /\ SendInv /\ RecvType /\ RecvInv /\ [Next]_vars
        => [lost' > 0 \/ N!NucleoNext \/ PcSends \/ PcReads]_<<N!nucleoVars, ToNucleo, ToPc>>
  BY StepImplemented, Zenon DEF Implemented, Stutters
<1> QED
  BY <1>1, <1>2, ReceiveCorrect, PTL DEF Spec, ImplementsNucleo
=============================================================================
