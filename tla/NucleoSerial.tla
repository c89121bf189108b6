---------------------------- MODULE NucleoSerial ----------------------------
(***************************************************************************)
(* The firmware of the board byte by byte (main.cpp): the two ring buffers,*)
(* the interrupts of the serial port, send_buffer and receive_message,     *)
(* under the same main loop as in Nucleo.                                  *)
(*                                                                         *)
(* A byte is [m, i]: byte i of message m.  A message has 2 bytes or        *)
(* LongSize of them, which is all the code tells apart.  A mixture of two  *)
(* messages never has a right checksum.  The port (external: mbed's Serial)*)
(* holds one byte per direction and interrupts when one has arrived and    *)
(* when one has left.                                                      *)
(***************************************************************************)
EXTENDS Integers, Sequences, SequencesExt

CONSTANTS
  Cs, Zero,        \* as in Link
  Commands,        \* the messages the PC may send
  LongSize,        \* bytes of the messages that carry data
  TX_SIZE, RX_SIZE,\* bytes the rings hold (254 in the code)
  PayloadTypes,    \* what a byte inside a message looks like as a type
  MaxCommands,     \* bound: commands of the PC
  MaxPresses,      \* bound: presses of the user button
  MaxLost          \* bound: bytes lost on the line to the board

ASSUME SerialAssumption ==
  /\ \A m \in Commands :
       m.type \in {"MSG_GET_VERSION", "MSG_ABORT", "MSG_SET_COMPUTE", "MSG_COMPUTE"}
  /\ LongSize \in Nat /\ LongSize >= 2
  /\ TX_SIZE \in Nat /\ TX_SIZE >= LongSize
  /\ RX_SIZE \in Nat \ {0}
  /\ MaxCommands \in Nat /\ MaxPresses \in Nat /\ MaxLost \in Nat

VARIABLES
  nucleo, abort_request,  \* as in Nucleo
  pc,              \* where the loop is
  next,            \* where it goes on after a message is stored
  msg_buf,         \* receive_message: the bytes read so far
  reply,           \* send_buffer: the message
  stored,          \* send_buffer: how many of its bytes are in the ring
  empty,           \* send_buffer: was the ring empty at the start?
  rx, tx,          \* the rings, oldest byte first
  rdr, tdr,        \* the byte in the port, if any
  tc,              \* pending: "transmission complete"
  line,            \* bytes on the way to the board
  assembled,       \* bytes of the message the PC is receiving
  commands, presses, lost,  \* how many of each there were
  payload          \* what a byte inside a message looks like as a type

loopVars == <<nucleo, pc, next, msg_buf, reply, stored, empty>>
portVars == <<rx, tx, rdr, tdr, tc>>
envVars == <<line, assembled, commands, presses, lost, payload>>
vars == <<loopVars, abort_request, portVars, envVars>>

-----------------------------------------------------------------------------
(* Messages and bytes                                                      *)

Short == {"MSG_OK", "MSG_ERROR", "MSG_ABORT", "MSG_DONE", "MSG_GET_VERSION"}
get_message_size(type) == IF type \in Short THEN 2 ELSE LongSize

Bytes(m) == [i \in 1 .. get_message_size(m.type) |-> [m |-> m, i |-> i]]
IsLast(b) == b.i = get_message_size(b.m.type)
TypeByte(b) == IF b.i = 1 THEN b.m.type ELSE payload

(* The messages whose last byte is in a sequence of bytes.                 *)
Completed(b) == IF IsLast(b) THEN <<b.m>> ELSE << >>
Messages(bytes) == FlattenSeq([k \in DOMAIN bytes |-> Completed(bytes[k])])

(* A plausible slip: receive_message waits with the interrupt disabled.    *)
IrqEnabledTooLate == pc \notin {"receive", "send", "start", "rx_spin"}

(* Inside send_buffer and receive_message the interrupt of the port is     *)
(* disabled, except while they spin.                                       *)
IrqEnabled == pc \notin {"receive", "send", "start"}

(* What is left of the message that send_buffer stores.                    *)
Unstored == IF pc \in {"send", "tx_spin"}
              THEN SubSeq(Bytes(reply), stored + 1, Len(Bytes(reply)))
              ELSE << >>

-----------------------------------------------------------------------------
(* The firmware as the model of the whole system has it: a message is on   *)
(* the link until its last byte is read; an answer is on it from the       *)
(* moment it is decided on.  There are never more answers on it than the   *)
(* ring and the port hold bytes, and the one that is decided on.           *)
ToNucleo == Messages(rx \o rdr \o line)
ToPc == Messages(tdr \o tx \o Unstored)

Step ==
  CASE pc = "abort" -> "abort"
    [] pc \in {"send", "tx_spin", "start"} -> next
    [] OTHER -> "work"

N == INSTANCE Nucleo WITH
       LINK_CAPACITY <- TX_SIZE + 2,
       MaxResets <- 0,
       resets <- 0,
       step <- Step,
       arrived <- Len(Messages(rx)),
       toNucleo <- ToNucleo,
       toPc <- ToPc

(* The interrupts are attached, and the first message is MSG_STARTUP.      *)
Init ==
  /\ nucleo = N!Idle
  /\ abort_request = FALSE
  /\ pc = "send"
  /\ next = "abort"
  /\ msg_buf = << >>
  /\ reply = N!Plain("MSG_STARTUP")
  /\ stored = 0
  /\ empty = TRUE
  /\ rx = << >> /\ tx = << >> /\ rdr = << >> /\ tdr = << >>
  /\ tc = FALSE
  /\ line = << >> /\ assembled = << >>
  /\ commands = 0 /\ presses = 0 /\ lost = 0
  /\ payload \in PayloadTypes

-----------------------------------------------------------------------------
(* Interrupts.  One that runs between the test of the rings and sleep()    *)
(* (pc = "doze") does not wake the processor, the next one does.  The test *)
(* at the top of the loop then finds no computation.                       *)

Woken == IF pc = "sleep" THEN "work" ELSE pc

Rx_interrupt ==
  /\ IrqEnabled
  /\ rdr # << >>
  /\ Len(rx) < RX_SIZE
  /\ rx' = rx \o rdr
  /\ rdr' = << >>
  /\ pc' = Woken
  /\ UNCHANGED <<nucleo, next, msg_buf, reply, stored, empty, abort_request,
                 tx, tdr, tc, envVars>>

Tx_interrupt ==
  /\ IrqEnabled
  /\ tc
  /\ tc' = FALSE
  /\ IF tdr = << >> /\ tx # << >>
       THEN tdr' = <<Head(tx)>> /\ tx' = Tail(tx)
       ELSE UNCHANGED <<tdr, tx>>
  /\ pc' = Woken
  /\ UNCHANGED <<nucleo, next, msg_buf, reply, stored, empty, abort_request,
                 rx, rdr, envVars>>

Button ==
  /\ presses < MaxPresses
  /\ presses' = presses + 1
  /\ abort_request' = (abort_request \/ nucleo.computing)
  /\ pc' = Woken
  /\ UNCHANGED <<nucleo, next, msg_buf, reply, stored, empty, portVars,
                 line, assembled, commands, lost, payload>>

-----------------------------------------------------------------------------
(* send_buffer: store every byte, waiting for room with the interrupt      *)
(* enabled, and put the first byte into the port if nothing was going on.  *)

StartSend(m, then) ==
  /\ reply' = m
  /\ stored' = 0
  /\ empty' = (tx = << >>)
  /\ pc' = "send"
  /\ next' = then

TxFull == Len(tx) = TX_SIZE

(* A plausible slip: no test for room.  tx_in runs into tx_out, and a ring *)
(* with tx_in = tx_out is empty.                                           *)
StoreUntested ==
  /\ pc = "send"
  /\ tx' = IF TxFull THEN << >> ELSE Append(tx, Bytes(reply)[stored + 1])
  /\ stored' = stored + 1
  /\ pc' = IF stored' = Len(Bytes(reply)) THEN "start" ELSE "send"
  /\ UNCHANGED <<nucleo, next, msg_buf, reply, empty, abort_request,
                 rx, rdr, tdr, tc, envVars>>

Store ==
  /\ pc = "send"
  /\ ~TxFull
  /\ tx' = Append(tx, Bytes(reply)[stored + 1])
  /\ stored' = stored + 1
  /\ pc' = IF stored' = Len(Bytes(reply)) THEN "start" ELSE "send"
  /\ UNCHANGED <<nucleo, next, msg_buf, reply, empty, abort_request,
                 rx, rdr, tdr, tc, envVars>>

SpinForRoom ==
  /\ \/ pc = "send" /\ TxFull /\ pc' = "tx_spin"
     \/ pc = "tx_spin" /\ ~TxFull /\ pc' = "send"
  /\ UNCHANGED <<nucleo, next, msg_buf, reply, stored, empty, abort_request,
                 portVars, envVars>>

(* A plausible slip: the first byte is never put into the port by hand.    *)
StartLeftOut ==
  /\ pc = "start"
  /\ pc' = next
  /\ UNCHANGED <<nucleo, next, msg_buf, reply, stored, empty, abort_request,
                 portVars, envVars>>

StartTransmission ==
  /\ pc = "start"
  /\ pc' = next
  /\ IF empty /\ tdr = << >>
       THEN tdr' = <<Head(tx)>> /\ tx' = Tail(tx)
       ELSE UNCHANGED <<tdr, tx>>
  /\ UNCHANGED <<nucleo, next, msg_buf, reply, stored, empty, abort_request,
                 rx, rdr, tc, envVars>>

-----------------------------------------------------------------------------
(* The loop                                                                *)

HandleAbortRequest ==
  /\ pc = "abort"
  /\ IF abort_request /\ nucleo.computing
       THEN /\ nucleo' = [nucleo EXCEPT !.computing = FALSE]
            /\ abort_request' = FALSE
            /\ StartSend(N!Plain("MSG_ABORT"), "work")
       ELSE /\ pc' = "work"
            /\ UNCHANGED <<nucleo, abort_request, reply, stored, empty, next>>
  /\ UNCHANGED <<msg_buf, portVars, envVars>>

StartReceive ==
  /\ pc = "work"
  /\ rx # << >>
  /\ pc' = "receive"
  /\ msg_buf' = << >>
  /\ UNCHANGED <<nucleo, next, reply, stored, empty, abort_request, portVars,
                 envVars>>

(* What a message does to the parameters, and its answer.                  *)
Obey(m) ==
  CASE m.type = "MSG_ABORT" -> [nucleo EXCEPT !.computing = FALSE]
    [] m.type = "MSG_SET_COMPUTE" -> [nucleo EXCEPT !.c = m.c, !.d = m.d, !.n = m.n]
    [] m.type = "MSG_COMPUTE" /\ ~nucleo.computing ->
         [nucleo EXCEPT !.cid = m.cid, !.re = m.re, !.im = m.im, !.cx = 0,
                        !.cy = 0, !.chunk_size = m.size, !.computing = TRUE]
    [] OTHER -> nucleo

Answer(m) ==
  N!Plain(IF m.type = "MSG_GET_VERSION" THEN "MSG_VERSION" ELSE "MSG_OK")

(* The last byte of a message: parse_message, and the handler.             *)
Complete(bytes) ==
  LET m == bytes[1].m
  IN  IF bytes = Bytes(m)
        THEN /\ nucleo' = Obey(m)
             /\ abort_request' = (abort_request /\ m.type # "MSG_ABORT")
             /\ StartSend(Answer(m), "abort")
        ELSE /\ UNCHANGED <<nucleo, abort_request>>
             /\ StartSend(N!Plain("MSG_ERROR"), "abort")

(* A plausible slip: the last byte, the checksum, stays in the ring.       *)
ReceiveByteShort ==
  /\ pc = "receive"
  /\ rx # << >>
  /\ LET bytes == Append(msg_buf, Head(rx))
         type == TypeByte(bytes[1])
     IN  /\ msg_buf' = bytes
         /\ IF Len(bytes) = get_message_size(type)
              THEN Complete(bytes) /\ rx' = rx
              ELSE /\ rx' = Tail(rx)
                   /\ UNCHANGED <<nucleo, abort_request, reply, stored, empty,
                                  pc, next>>
  /\ UNCHANGED <<tx, rdr, tdr, tc, envVars>>

(* One turn of the loop in receive_message.  An unknown type ends it       *)
(* without an answer, and without taking the byte from the ring.           *)
ReceiveByte ==
  /\ pc = "receive"
  /\ rx # << >>
  /\ LET bytes == Append(msg_buf, Head(rx))
         type == TypeByte(bytes[1])
     IN  IF type = "unknown"
           THEN /\ pc' = "abort"
                /\ UNCHANGED <<nucleo, abort_request, reply, stored, empty, next,
                               msg_buf, rx>>
           ELSE /\ msg_buf' = bytes
                /\ rx' = Tail(rx)
                /\ IF Len(bytes) = get_message_size(type)
                     THEN Complete(bytes)
                     ELSE UNCHANGED <<nucleo, abort_request, reply, stored,
                                      empty, pc, next>>
  /\ UNCHANGED <<tx, rdr, tdr, tc, envVars>>

SpinForByte ==
  /\ \/ pc = "receive" /\ rx = << >> /\ pc' = "rx_spin"
     \/ pc = "rx_spin" /\ rx # << >> /\ pc' = "receive"
  /\ UNCHANGED <<nucleo, next, msg_buf, reply, stored, empty, abort_request,
                 portVars, envVars>>

Computing ==
  /\ pc = "work"
  /\ rx = << >>
  /\ nucleo.computing
  /\ UNCHANGED <<msg_buf, abort_request, portVars, envVars>>

SendPixel ==
  /\ Computing
  /\ ~N!LastPixelSent
  /\ StartSend(N!ComputeData(nucleo.cid, nucleo.cx, nucleo.cy,
                 N!Iterations(nucleo.c, nucleo.d, nucleo.n,
                              nucleo.re + nucleo.cx, nucleo.im + nucleo.cy)),
               "abort")
  /\ nucleo' = N!NextPixel

SendDone ==
  /\ Computing
  /\ N!LastPixelSent
  /\ StartSend(N!Plain("MSG_DONE"), "abort")
  /\ nucleo' = [nucleo EXCEPT !.computing = FALSE]

(* Between the tests and sleep() an interrupt may run.                     *)
Sleep ==
  /\ \/ pc = "work" /\ rx = << >> /\ ~nucleo.computing /\ pc' = "doze"
     \/ pc = "doze" /\ pc' = "sleep"
  /\ UNCHANGED <<nucleo, next, msg_buf, reply, stored, empty, abort_request,
                 portVars, envVars>>

Loop ==
  \/ HandleAbortRequest
  \/ StartReceive \/ ReceiveByte \/ SpinForByte
  \/ SendPixel \/ SendDone
  \/ Store \/ SpinForRoom \/ StartTransmission
  \/ Sleep

-----------------------------------------------------------------------------
(* The port and the other end of the line.                                 *)

PcSend ==
  /\ commands < MaxCommands
  /\ commands' = commands + 1
  /\ \E m \in Commands : line' = line \o Bytes(m)
  /\ UNCHANGED <<loopVars, abort_request, portVars, assembled, presses, lost,
                 payload>>

(* The interrupt is served before the next byte comes, and between the     *)
(* tests of the loop and sleep() there is time for one byte at most.       *)
ByteArrives ==
  /\ line # << >>
  /\ rdr = << >>
  /\ pc = "doze" => rx = << >>
  /\ rdr' = <<Head(line)>>
  /\ line' = Tail(line)
  /\ UNCHANGED <<loopVars, abort_request, rx, tx, tdr, tc, assembled, commands,
                 presses, lost, payload>>

(* A spinning loop sees room before another byte has left: the loop is a   *)
(* few instructions, a byte takes ten bits of the line.                    *)
ByteLeaves ==
  /\ tdr # << >>
  /\ pc = "tx_spin" => TxFull
  /\ tdr' = << >>
  /\ tc' = TRUE
  /\ assembled' = IF IsLast(tdr[1]) THEN << >> ELSE assembled \o tdr
  /\ UNCHANGED <<loopVars, abort_request, rx, tx, rdr, line, commands, presses,
                 lost, payload>>

LoseByte ==
  /\ lost < MaxLost
  /\ lost' = lost + 1
  /\ \E i \in DOMAIN line : line' = RemoveAt(line, i)
  /\ UNCHANGED <<loopVars, abort_request, portVars, assembled, commands, presses,
                 payload>>

Next ==
  \/ Loop
  \/ Rx_interrupt \/ Tx_interrupt \/ Button
  \/ PcSend \/ ByteArrives \/ ByteLeaves \/ LoseByte

Spec == Init /\ [][Next]_vars

(* The loop runs, the line moves, and a pending interrupt is taken as soon *)
(* as it is enabled, even if it is enabled only for moments.               *)
FairSpec ==
  /\ Spec
  /\ WF_vars(Loop) /\ WF_vars(ByteArrives) /\ WF_vars(ByteLeaves)
  /\ SF_vars(Rx_interrupt) /\ SF_vars(Tx_interrupt)

-----------------------------------------------------------------------------
(* Properties                                                              *)

(* The transmission never stops with bytes left in the ring: whenever      *)
(* send_buffer is not inside its critical section, a byte is in the port   *)
(* or the interrupt that fetches the next one is pending.                  *)
TransmitterRuns == IrqEnabled /\ tx # << >> => tdr # << >> \/ tc

(* What the PC gets is whole messages, no byte missing, doubled or out of  *)
(* place, whatever the loop and the interrupts do at the same time.        *)
AnswersInFrame ==
  LET stream == assembled \o tdr \o tx \o Unstored
  IN  \A k \in DOMAIN stream :
        \/ stream[k].i = 1 /\ (k = 1 \/ IsLast(stream[k - 1]))
        \/ /\ k > 1 /\ stream[k].i > 1
           /\ stream[k - 1] = [stream[k] EXCEPT !.i = @ - 1]

(* As long as no byte is lost, the firmware with its bytes, rings and      *)
(* interrupts implements the firmware of the system model, where messages  *)
(* are sent and received in one step.  The PC may send at any time and     *)
(* takes messages when their last byte arrives.                            *)
PcSends ==
  /\ \E m \in Commands : ToNucleo' = Append(ToNucleo, m)
  /\ UNCHANGED <<N!nucleoVars, ToPc>>

PcReads ==
  /\ ToPc # << >>
  /\ ToPc' = Tail(ToPc)
  /\ UNCHANGED <<N!nucleoVars, ToNucleo>>

ImplementsNucleo ==
  /\ N!NucleoInit
  /\ [][lost' > 0 \/ N!NucleoNext \/ PcSends \/ PcReads]_<<N!nucleoVars, ToNucleo, ToPc>>

(* The board comes to rest: every command answered, the computation done,  *)
(* the last byte sent, and the processor asleep.  If a byte was lost it    *)
(* may also end up waiting for the rest of a message, looking forever at a *)
(* byte that is no message type, or asleep over a single byte that came    *)
(* between the test of the ring and sleep(); there is no other way to get  *)
(* stuck.                                                                  *)
Asleep == pc = "sleep" /\ rx = << >>
WaitsForRest == pc = "rx_spin" /\ rx = << >>
Overslept == pc = "sleep" /\ Len(rx) = 1
Deaf ==
  /\ rx # << >> /\ TypeByte(rx[1]) = "unknown"
  /\ pc \in {"abort", "work", "receive"}

ComesToRest ==
  <>[](/\ tx = << >> /\ tdr = << >>
       /\ \/ Asleep /\ line = << >>
          \/ lost > 0 /\ (WaitsForRest \/ Overslept) /\ line = << >>
          \/ lost > 0 /\ Deaf)
=============================================================================
