------------------------------ MODULE SerialRx ------------------------------
(***************************************************************************)
(* The serial thread of the PC application (serial_rx_thread): how the     *)
(* bytes of the board become messages, what a lost byte or a restart of    *)
(* the board in the middle of a message does to it, and how silence of     *)
(* SERIAL_READ_TIMOUT_MS mends it.  A message that does not parse is never *)
(* finished, and its bytes are stored behind each other without a bound:   *)
(* if no silence comes first they run over the end of the buffer, and from *)
(* there on the behaviour of the thread is not defined.                    *)
(*                                                                         *)
(* As in NucleoSerial a byte is [m, i] and a message has 2 or LongSize     *)
(* bytes.  A mixture of two messages never has a right checksum.           *)
(***************************************************************************)
EXTENDS Integers, Sequences, SequencesExt

CONSTANTS
  Messages,        \* the messages of the board; MSG_STARTUP among them
  Startup,         \* MSG_STARTUP
  LongSize,        \* bytes of the messages that carry data
  BufferSize,      \* sizeof(message), the bytes that msg_buf has room for
  PayloadTypes,    \* what a byte inside a message looks like as a type
  MaxMessages,     \* bound: messages sent, besides MSG_STARTUP
  MaxLost,         \* bound: bytes lost on the line
  MaxResets        \* bound: restarts of the board

ASSUME RxAssumption ==
  /\ Startup \in Messages
  /\ \A m \in Messages : m.type # "unknown"
  /\ LongSize \in Nat /\ LongSize >= 2
  /\ BufferSize \in Nat /\ BufferSize >= LongSize
  /\ MaxMessages \in Nat /\ MaxLost \in Nat /\ MaxResets \in Nat

VARIABLES
  line,            \* bytes on the way to the application
  started,         \* is the loop that discards garbage over?
  reading,         \* inside a message?
  size,            \* the size of the message, or of an earlier one
  msg_buf,         \* its bytes so far; counter is their number
  heard,           \* the messages pushed into the event queue
  overrun,         \* has a byte been stored behind the end of msg_buf?
  clean,           \* no fault since the line was last silent
  booting,         \* has the board restarted, and not yet said so?
  sent, lost, resets,  \* how many of each there were
  payload          \* what a byte inside a message looks like as a type

rxVars == <<started, reading, size, msg_buf, heard, overrun>>
boardVars == <<booting, sent, lost, resets, payload>>
vars == <<line, rxVars, clean, boardVars>>

Short == {"MSG_OK", "MSG_ERROR", "MSG_ABORT", "MSG_DONE"}
get_message_size(type) == IF type \in Short THEN 2 ELSE LongSize

Bytes(m) == [i \in 1 .. get_message_size(m.type) |-> [m |-> m, i |-> i]]
TypeByte(b) == IF b.i = 1 THEN b.m.type ELSE payload

(* The application starts at any moment of the life of the board.  size is *)
(* not initialised.                                                        *)
Init ==
  /\ \E m \in Messages, n \in 1 .. LongSize :
        line = SubSeq(Bytes(m), n, Len(Bytes(m)))
  /\ started = FALSE
  /\ reading = FALSE
  /\ size \in {0, 2, LongSize}
  /\ msg_buf = << >>
  /\ heard = << >>
  /\ overrun = FALSE
  /\ clean = FALSE
  /\ booting = FALSE
  /\ sent = 0 /\ lost = 0 /\ resets = 0
  /\ payload \in PayloadTypes

-----------------------------------------------------------------------------
(* The thread                                                              *)

DiscardGarbage ==
  /\ ~started
  /\ line # << >>
  /\ line' = Tail(line)
  /\ UNCHANGED <<rxVars, clean, boardVars>>

(* r > 0, and a message begins.  An unknown type is reported and begins a  *)
(* message all the same.                                                   *)
FirstByte ==
  /\ started /\ ~reading /\ ~overrun
  /\ line # << >>
  /\ line' = Tail(line)
  /\ LET type == TypeByte(Head(line))
     IN  size' = IF type = "unknown" THEN size ELSE get_message_size(type)
  /\ reading' = TRUE
  /\ msg_buf' = Append(msg_buf, Head(line))
  /\ UNCHANGED <<started, heard, overrun, clean, boardVars>>

(* parse_message_buf: checksum, type, and the size of the type.            *)
Parses(bytes) == bytes = Bytes(bytes[1].m)

(* A plausible slip: the end of a message does not clear the counter.      *)
NextByteKeepingCounter ==
  /\ started /\ reading /\ ~overrun
  /\ Len(msg_buf) < BufferSize
  /\ line # << >>
  /\ line' = Tail(line)
  /\ LET bytes == Append(msg_buf, Head(line))
     IN  IF Len(bytes) = size /\ Parses(bytes)
           THEN /\ heard' = Append(heard, bytes[1].m)
                /\ reading' = FALSE
                /\ msg_buf' = bytes
           ELSE /\ msg_buf' = bytes
                /\ UNCHANGED <<heard, reading>>
  /\ UNCHANGED <<started, size, overrun, clean, boardVars>>

(* r > 0 inside a message, and there is room for the byte.  One that does  *)
(* not parse stays unfinished: the counter has passed its size.            *)
NextByte ==
  /\ started /\ reading /\ ~overrun
  /\ Len(msg_buf) < BufferSize
  /\ line # << >>
  /\ line' = Tail(line)
  /\ LET bytes == Append(msg_buf, Head(line))
     IN  IF Len(bytes) = size /\ Parses(bytes)
           THEN /\ heard' = Append(heard, bytes[1].m)
                /\ reading' = FALSE
                /\ msg_buf' = << >>
           ELSE /\ msg_buf' = bytes
                /\ UNCHANGED <<heard, reading>>
  /\ UNCHANGED <<started, size, overrun, clean, boardVars>>

(* r > 0 inside a message, and msg_buf is full: the same store, not bounded*)
(* by anything, changes what lies behind it on the stack.                  *)
Overrun ==
  /\ started /\ reading /\ ~overrun
  /\ Len(msg_buf) = BufferSize
  /\ line # << >>
  /\ line' = Tail(line)
  /\ overrun' = TRUE
  /\ UNCHANGED <<started, reading, size, msg_buf, heard, clean, boardVars>>

(* What the thread does then is not defined: it stops, or reads on, takes  *)
(* itself to be inside of a message or not, and pushes what was never sent.*)
Damaged ==
  /\ overrun
  /\ line # << >>
  /\ line' = Tail(line)
  /\ reading' \in BOOLEAN
  /\ \E pushed \in {<< >>} \union {<<m>> : m \in Messages} : heard' = heard \o pushed
  /\ UNCHANGED <<started, size, msg_buf, overrun, clean, boardVars>>

(* A plausible slip: silence does not end the message.                     *)
TimeoutIgnored ==
  /\ ~overrun
  /\ line = << >>
  /\ clean' = TRUE
  /\ started' = TRUE
  /\ UNCHANGED <<line, reading, size, msg_buf, heard, overrun, boardVars>>

(* r = 0: nothing for SERIAL_READ_TIMOUT_MS.                               *)
Timeout ==
  /\ ~overrun
  /\ line = << >>
  /\ clean' = TRUE
  /\ started' = TRUE
  /\ reading' = FALSE
  /\ msg_buf' = IF reading THEN << >> ELSE msg_buf
  /\ UNCHANGED <<line, size, heard, overrun, boardVars>>

Thread == DiscardGarbage \/ FirstByte \/ NextByte \/ Overrun \/ Timeout

-----------------------------------------------------------------------------
(* The board, and the line                                                 *)

Send ==
  /\ ~booting
  /\ sent < MaxMessages
  /\ sent' = sent + 1
  /\ \E m \in Messages \ {Startup} : line' = line \o Bytes(m)
  /\ UNCHANGED <<rxVars, clean, booting, lost, resets, payload>>

LoseByte ==
  /\ lost < MaxLost
  /\ lost' = lost + 1
  /\ \E i \in DOMAIN line : line' = RemoveAt(line, i)
  /\ clean' = FALSE
  /\ UNCHANGED <<rxVars, booting, sent, resets, payload>>

(* The transmit ring is lost: the line ends anywhere, also in a message.   *)
Reset ==
  /\ resets < MaxResets
  /\ resets' = resets + 1
  /\ \E n \in 0 .. Len(line) : line' = SubSeq(line, 1, n)
  /\ booting' = TRUE
  /\ clean' = FALSE
  /\ UNCHANGED <<rxVars, sent, lost, payload>>

(* The firmware blinks for 10 * 50 ms before MSG_STARTUP, the application  *)
(* waits for 500 ms of silence: either may be first.                       *)
Announce ==
  /\ booting
  /\ booting' = FALSE
  /\ line' = line \o Bytes(Startup)
  /\ UNCHANGED <<rxVars, clean, sent, lost, resets, payload>>

Next == Thread \/ Damaged \/ Send \/ LoseByte \/ Reset \/ Announce

Spec == Init /\ [][Next]_vars

(* The thread runs, as long as it is sound, poll() returns, and a restarted*)
(* board starts.                                                           *)
FairSpec == Spec /\ WF_vars(Thread) /\ WF_vars(Announce)

-----------------------------------------------------------------------------
(* Properties                                                              *)

(* The messages whose last byte is still to be read.                       *)
LastByte(b) == b.i = get_message_size(b.m.type)
Completed(b) == IF LastByte(b) THEN <<b.m>> ELSE << >>
Ended(bytes) == FlattenSeq([k \in DOMAIN bytes |-> Completed(bytes[k])])
Unread == Ended(line)

Channel == INSTANCE LossyChannel WITH inFlight <- Unread

(* As long as the buffer is not overrun, which takes a fault that no       *)
(* silence has mended yet, the parser never invents, doubles or reorders a *)
(* message, wherever bytes are lost or a restart cuts; and after a silence *)
(* it is in step with the board again: nothing is missed, and nothing      *)
(* stored behind the buffer, until the next fault.                         *)
ImplementsChannel == Channel!Spec

(* The parser does not stay in the middle of a message forever: every      *)
(* message ends, or is dropped, or more bytes follow than the buffer has   *)
(* room for before the line is silent.  And a restart is heard of if the   *)
(* cut message was dropped before MSG_STARTUP came (else the cut message   *)
(* swallows it), and nothing was lost since.                               *)
HearsAgain ==
  /\ reading ~> ~reading \/ overrun
  /\ booting /\ clean ~> ~clean \/ Startup \in Range(heard)
=============================================================================
