------------------------------ MODULE PcThreads ------------------------------
(***************************************************************************)
(* The life of the three threads of the PC application                     *)
(* (semestral_project.c): how the quit flag, the two EV_QUIT events, a     *)
(* failing port and the joins at the end bring them to a stop.             *)
(*                                                                         *)
(* The queue is the bounded FIFO that EventQueue implements.  An event is  *)
(* the name of what matters here: "done" is a MSG_DONE, whose handler may  *)
(* push the request for the next chunk.                                    *)
(***************************************************************************)
EXTENDS Naturals, Sequences

CONSTANTS
  EVENT_CAPACITY,  \* events the queue holds (15 in the code)
  MaxKeys,         \* bound: keys pressed
  MaxMessages      \* bound: messages of the board

ASSUME ThreadsAssumption ==
  /\ EVENT_CAPACITY \in Nat \ {0}
  /\ MaxKeys \in Nat /\ MaxMessages \in Nat

VARIABLES
  quit,            \* data->quit
  evq,             \* the event queue, oldest first
  main, input, serial,     \* where the threads are
  inputEnd, serialEnd,     \* their local variables "end"
  message,         \* the message the serial thread pushes
  failed,          \* has the port failed?
  pressed, received        \* how many keys and messages there were

vars == <<quit, evq, main, input, serial, inputEnd, serialEnd, message, failed,
          pressed, received>>

Init ==
  /\ quit = FALSE
  /\ evq = << >>
  /\ main = "pop" /\ input = "getchar" /\ serial = "read"
  /\ inputEnd = FALSE /\ serialEnd = FALSE
  /\ message = "none"
  /\ failed = FALSE
  /\ pressed = 0 /\ received = 0

(* A plausible slip: the cell that tells full from empty is filled too.    *)
HasOneMore == Len(evq) <= EVENT_CAPACITY

HasRoom == Len(evq) < EVENT_CAPACITY

(* queue_push waits for room.                                              *)
Push(event) == HasRoom /\ evq' = Append(evq, event)

-----------------------------------------------------------------------------
(* input_thread                                                            *)

(* A key with an event, a key without one, 'q', or the character NUL, which*)
(* ends the loop as the end of input would in another program.             *)
PressKey ==
  /\ input = "getchar"
  /\ pressed < MaxKeys
  /\ pressed' = pressed + 1
  /\ \/ input' = "push" /\ UNCHANGED inputEnd
     \/ input' = "lock" /\ inputEnd' \in {inputEnd, TRUE}
     \/ input' = "push_quit" /\ UNCHANGED inputEnd
  /\ UNCHANGED <<quit, evq, main, serial, serialEnd, message, failed, received>>

PushKey ==
  /\ input = "push"
  /\ Push("key")
  /\ input' = "lock"
  /\ UNCHANGED <<quit, main, serial, inputEnd, serialEnd, message, failed,
                 pressed, received>>

InputLock ==
  /\ input = "lock"
  /\ inputEnd' = (inputEnd \/ quit)
  /\ quit' = inputEnd'
  /\ input' = IF inputEnd' THEN "push_quit" ELSE "getchar"
  /\ UNCHANGED <<evq, main, serial, serialEnd, message, failed, pressed, received>>

(* EV_QUIT of the keyboard                                                 *)
InputQuit ==
  /\ input = "push_quit"
  /\ Push("quit_key")
  /\ input' = "ended"
  /\ UNCHANGED <<quit, main, serial, inputEnd, serialEnd, message, failed,
                 pressed, received>>

-----------------------------------------------------------------------------
(* serial_rx_thread                                                        *)

(* A message, nothing for SERIAL_READ_TIMOUT_MS, or an error of the port.  *)
Read ==
  /\ serial = "read"
  /\ \/ /\ received < MaxMessages
        /\ received' = received + 1
        /\ message' \in {"done", "other"}
        /\ serial' = "push"
        /\ UNCHANGED <<serialEnd, failed>>
     \/ /\ serial' = "lock"
        /\ UNCHANGED <<received, message, serialEnd, failed>>
     \/ /\ serial' = "lock"
        /\ serialEnd' = TRUE
        /\ failed' = TRUE
        /\ UNCHANGED <<received, message>>
  /\ UNCHANGED <<quit, evq, main, input, inputEnd, pressed>>

PushMessage ==
  /\ serial = "push"
  /\ Push(message)
  /\ serial' = "lock"
  /\ UNCHANGED <<quit, main, input, inputEnd, serialEnd, message, failed,
                 pressed, received>>

(* A plausible slip: the flag is not looked at.                            *)
SerialLockDeaf ==
  /\ serial = "lock"
  /\ serial' = IF serialEnd THEN "push_quit" ELSE "read"
  /\ UNCHANGED <<quit, evq, main, input, inputEnd, serialEnd, message, failed,
                 pressed, received>>

(* Unlike the input thread it does not write data->quit.                   *)
SerialLock ==
  /\ serial = "lock"
  /\ serialEnd' = (serialEnd \/ quit)
  /\ serial' = IF serialEnd' THEN "push_quit" ELSE "read"
  /\ UNCHANGED <<quit, evq, main, input, inputEnd, message, failed, pressed,
                 received>>

(* EV_QUIT of the board: the only one the main thread obeys.               *)
SerialQuit ==
  /\ serial = "push_quit"
  /\ Push("quit_serial")
  /\ serial' = "ended"
  /\ UNCHANGED <<quit, main, input, inputEnd, serialEnd, message, failed,
                 pressed, received>>

-----------------------------------------------------------------------------
(* The main thread                                                         *)

(* A plausible slip: EV_QUIT is obeyed whatever its source.                *)
AfterEventOfAnySource(event) ==
  CASE event \in {"quit_key", "quit_serial"} -> {"cleanup"}
    [] event = "done" -> {"pop", "push"}
    [] OTHER -> {"pop"}

(* What the loop goes on to do.  A MSG_DONE causes a push if computing is  *)
(* set and the image is not whole.                                         *)
AfterEvent(event) ==
  CASE event = "quit_serial" -> {"cleanup"}
    [] event = "done" -> {"pop", "push"}
    [] OTHER -> {"pop"}

HandleEvent ==
  /\ main = "pop"
  /\ evq # << >>
  /\ evq' = Tail(evq)
  /\ main' \in AfterEvent(Head(evq))
  /\ UNCHANGED <<quit, input, serial, inputEnd, serialEnd, message, failed,
                 pressed, received>>

PushNextChunk ==
  /\ main = "push"
  /\ Push("next")
  /\ main' = "pop"
  /\ UNCHANGED <<quit, input, serial, inputEnd, serialEnd, message, failed,
                 pressed, received>>

Cleanup ==
  /\ main = "cleanup"
  /\ IF evq = << >> THEN main' = "join_input" /\ UNCHANGED evq
                    ELSE evq' = Tail(evq) /\ UNCHANGED main
  /\ UNCHANGED <<quit, input, serial, inputEnd, serialEnd, message, failed,
                 pressed, received>>

Join ==
  /\ \/ main = "join_input" /\ input = "ended" /\ main' = "join_serial"
     \/ main = "join_serial" /\ serial = "ended" /\ main' = "ended"
  /\ UNCHANGED <<quit, evq, input, serial, inputEnd, serialEnd, message, failed,
                 pressed, received>>

Main == HandleEvent \/ PushNextChunk \/ Cleanup \/ Join
Input == PushKey \/ InputLock \/ InputQuit
Serial == Read \/ PushMessage \/ SerialLock \/ SerialQuit

Next == Main \/ Input \/ Serial \/ PressKey

Spec == Init /\ [][Next]_vars

(* Threads run, and a read returns within 500 ms.  Keys are free.          *)
FairSpec == Spec /\ WF_vars(Main) /\ WF_vars(Input) /\ WF_vars(Serial)

-----------------------------------------------------------------------------
(* Properties                                                              *)

(* Types; a thread that has left its loop has its local "end" set, but for *)
(* an input thread that read NUL.                                          *)
TypeOK ==
  /\ quit \in BOOLEAN /\ inputEnd \in BOOLEAN
  /\ serialEnd \in BOOLEAN /\ failed \in BOOLEAN
  /\ evq \in Seq({"key", "quit_key", "quit_serial", "done", "other", "next"})
  /\ Len(evq) <= EVENT_CAPACITY
  /\ main \in {"pop", "push", "cleanup", "join_input", "join_serial", "ended"}
  /\ input \in {"getchar", "push", "lock", "push_quit", "ended"}
  /\ serial \in {"read", "push", "lock", "push_quit", "ended"}
  /\ serial = "push" => message \in {"done", "other"}
  /\ serial \in {"push_quit", "ended"} => serialEnd
  /\ quit => inputEnd
  /\ pressed \in 0 .. MaxKeys /\ received \in 0 .. MaxMessages

(* The main thread leaves its loop only because the user pressed 'q' or    *)
(* the port failed; a stray end of the input thread does not end the       *)
(* program under the other two.                                            *)
LeavesOnRequest == main \notin {"pop", "push"} => quit \/ failed

(* The one way for the main thread to block itself: it waits for room in   *)
(* the queue that nobody else empties.                                     *)
SelfBlocked == main = "push" /\ ~HasRoom

(* 'q' ends the program: every thread gets out of its calls, the last      *)
(* events find room, and the joins return.  Two things stand in the way:   *)
(* the main thread has blocked itself, or the port failed before, nobody   *)
(* empties the queue any more, and the input thread waits for room in it.  *)
(* A port that fails makes the main thread leave its loop, but not end:    *)
(* the flag is not set, so it waits for an input thread that goes on.      *)
QuitEnds ==
  /\ quit ~> main = "ended" \/ SelfBlocked \/ (failed /\ input = "push_quit" /\ ~HasRoom)
  /\ failed ~> \/ main = "ended"
               \/ SelfBlocked
               \/ main = "join_input" /\ input # "ended"
=============================================================================
