----------------------------- MODULE LedControl -----------------------------
(***************************************************************************)
(* Homework 9: four threads of the PC share one struct, one mutex and one  *)
(* condition variable (hw09-main.c), and a board switches a LED on their   *)
(* command (main.cpp).  Every critical section is one step.  The output    *)
(* thread is the only one that waits on the condition variable, and it     *)
(* does so without testing anything before.                                *)
(*                                                                         *)
(* The numbers shown (counter and period) are left out.                    *)
(***************************************************************************)
EXTENDS Naturals, Sequences, SequencesExt

CONSTANTS
  Keys,            \* keys the user has, of those the sender knows
  MaxKeys,         \* bound: keys pressed
  MaxResets,       \* bound: restarts of the board
  LINK_CAPACITY    \* bound: bytes on the way to the PC

(* What the constants must be; assumed where there is an instance.         *)
LedAssumption ==
  /\ Keys \subseteq {"s", "e", "h", "1", "b", "x"}
  /\ MaxKeys \in Nat /\ MaxResets \in Nat /\ LINK_CAPACITY \in Nat \ {0}

VARIABLES
  quit, ledstate, lastsent, lastreceived,   \* the shared struct
  sender, receiver, counter, output,        \* where the threads are
  key, byte,       \* what sender and receiver have read, before they lock
  shown,           \* the state of the LED on the screen
  exited,          \* has exit(0) ended the process?
  toBoard, toPc,   \* bytes on the way
  board,           \* "on": main loop, "stopped": exit(0), "boot"
  ledon, blinking, \* the LED is to be on or to blink; the ticker is attached
  pressed, resets, \* how many of each there were
  hasty            \* was a key pressed before the last one was answered?

shared == <<quit, ledstate, lastsent, lastreceived>>
threads == <<sender, receiver, counter, output, key, byte, shown, exited>>
boardVars == <<board, ledon, blinking, resets>>
link == <<toBoard, toPc>>
vars == <<shared, threads, boardVars, link, pressed, hasty>>

NoByte == "none"

Init ==
  /\ quit = FALSE /\ ledstate = "--"
  /\ lastsent = "?" /\ lastreceived = "?"
  /\ sender = "read" /\ receiver = "read" /\ counter = "run"
  /\ output = "outside"
  /\ key = NoByte /\ byte = NoByte
  /\ shown = "--"
  /\ exited = FALSE
  /\ toBoard = << >> /\ toPc = << >>
  /\ board = "on" /\ ledon = FALSE /\ blinking = FALSE
  /\ pressed = 0 /\ resets = 0
  /\ hasty = FALSE

(* pthread_cond_signal: lost if the output thread does not wait.           *)
Signalled == IF output = "waiting" THEN "woken" ELSE output

-----------------------------------------------------------------------------
(* sender                                                                  *)

Answered == toBoard = << >> /\ byte = NoByte /\ key = NoByte
              /\ \A i \in DOMAIN toPc : toPc[i] = "blink"

(* serial_getc_timeout on the keyboard: a key, or nothing for a second.    *)
ReadKey ==
  /\ sender = "read" /\ ~exited
  /\ sender' = "lock"
  /\ \/ /\ pressed < MaxKeys
        /\ key' \in Keys
        /\ pressed' = pressed + 1
        /\ hasty' = (hasty \/ ~Answered)
     \/ UNCHANGED <<key, pressed, hasty>>
  /\ UNCHANGED <<shared, receiver, counter, output, byte, shown, exited,
                 boardVars, link>>

SendKey ==
  /\ sender = "lock" /\ ~exited
  /\ key' = NoByte
  /\ sender' = IF quit THEN "ended" ELSE "read"
  /\ CASE key = "x" -> exited' = TRUE /\ UNCHANGED <<shared, toBoard, output>>
       [] key = NoByte -> UNCHANGED <<shared, toBoard, output, exited>>
       [] OTHER -> /\ lastsent' = key
                   /\ lastreceived' = "?"
                   /\ toBoard' = Append(toBoard, key)
                   /\ output' = Signalled
                   /\ UNCHANGED <<quit, ledstate, exited>>
  /\ UNCHANGED <<receiver, counter, byte, shown, boardVars, toPc, pressed, hasty>>

-----------------------------------------------------------------------------
(* receiver                                                                *)

ReadByte ==
  /\ receiver = "read" /\ ~exited
  /\ receiver' = "lock"
  /\ IF toPc = << >> THEN UNCHANGED <<byte, toPc>>
     ELSE byte' = Head(toPc) /\ toPc' = Tail(toPc)
  /\ UNCHANGED <<shared, sender, counter, output, key, shown, exited, boardVars,
                 toBoard, pressed, hasty>>

(* A plausible slip: any acknowledgement but that of 'e' is one of 's'.    *)
UnderstoodLoosely ==
  IF byte # "a" THEN ledstate ELSE IF lastsent = "e" THEN "off" ELSE "on"

(* What an answer means depends on the key that was sent last.             *)
Understood ==
  CASE byte = "a" /\ lastsent = "s" -> "on"
    [] byte = "a" /\ lastsent = "e" -> "off"
    [] OTHER -> ledstate

HandleByte ==
  /\ receiver = "lock" /\ ~exited
  /\ byte' = NoByte
  /\ quit' = (quit \/ byte = "b")
  /\ receiver' = IF quit' THEN "ended" ELSE "read"
  /\ IF byte = NoByte
       THEN UNCHANGED <<ledstate, lastreceived, output>>
       ELSE /\ ledstate' = Understood
            /\ lastreceived' = byte
            /\ output' = Signalled
  /\ UNCHANGED <<lastsent, sender, counter, key, shown, exited, boardVars, link,
                 pressed, hasty>>

-----------------------------------------------------------------------------
(* printingoutput and periodcounter                                        *)

(* Lock and wait, whatever the state is by now.                            *)
Wait ==
  /\ output = "outside" /\ ~exited
  /\ output' = "waiting"
  /\ UNCHANGED <<shared, sender, receiver, counter, key, byte, shown, exited,
                 boardVars, link, pressed, hasty>>

PrintOutput ==
  /\ output = "woken" /\ ~exited
  /\ output' = IF quit THEN "ended" ELSE "outside"
  /\ shown' = IF quit THEN shown ELSE ledstate
  /\ UNCHANGED <<shared, sender, receiver, counter, key, byte, exited, boardVars,
                 link, pressed, hasty>>

(* A plausible slip: the period is counted, but nobody is told.            *)
CountPeriodSilently ==
  /\ counter = "run" /\ ~exited
  /\ counter' = IF quit THEN "ended" ELSE "run"
  /\ UNCHANGED <<shared, sender, receiver, output, key, byte, shown, exited,
                 boardVars, link, pressed, hasty>>

(* A plausible slip: the flag is read, but does not end the loop.          *)
CountPeriodOn ==
  /\ counter = "run" /\ ~exited
  /\ output' = IF quit THEN output ELSE Signalled
  /\ UNCHANGED <<shared, sender, receiver, counter, key, byte, shown, exited,
                 boardVars, link, pressed, hasty>>

CountPeriod ==
  /\ counter = "run" /\ ~exited
  /\ counter' = IF quit THEN "ended" ELSE "run"
  /\ output' = IF quit THEN output ELSE Signalled
  /\ UNCHANGED <<shared, sender, receiver, key, byte, shown, exited, boardVars,
                 link, pressed, hasty>>

(* POSIX lets a wait end on its own.                                       *)
SpuriousWakeup ==
  /\ output = "waiting" /\ ~exited
  /\ output' = "woken"
  /\ UNCHANGED <<shared, sender, receiver, counter, key, byte, shown, exited,
                 boardVars, link, pressed, hasty>>

-----------------------------------------------------------------------------
(* The board: one byte in, one byte out.                                   *)

Obey ==
  /\ board = "on"
  /\ toBoard # << >> /\ Len(toPc) < LINK_CAPACITY
  /\ toBoard' = Tail(toBoard)
  /\ LET c == Head(toBoard)
     IN  /\ toPc' = Append(toPc, IF c \in {"h", "b"} THEN c ELSE "a")
         /\ board' = IF c = "b" THEN "stopped" ELSE board
         /\ ledon' = CASE c = "s" -> TRUE [] c = "e" -> FALSE [] OTHER -> ledon
         /\ blinking' = CASE c = "1" -> TRUE
                          [] c \in {"s", "e", "b"} -> FALSE
                          [] OTHER -> blinking
  /\ UNCHANGED <<shared, threads, resets, pressed, hasty>>

(* The ticker reports every change of a blinking LED ('x' or 'o').         *)
Blink ==
  /\ board = "on" /\ blinking /\ ledon
  /\ Len(toPc) < LINK_CAPACITY
  /\ toPc' = Append(toPc, "blink")
  /\ UNCHANGED <<shared, threads, boardVars, toBoard, pressed, hasty>>

(* A restart loses what the board has not read, and is reported by 'i'.    *)
Reset ==
  /\ resets < MaxResets
  /\ resets' = resets + 1
  /\ board' = "boot"
  /\ ledon' = FALSE /\ blinking' = FALSE
  /\ toBoard' = << >>
  /\ UNCHANGED <<shared, threads, toPc, pressed, hasty>>

Boot ==
  /\ board = "boot" /\ Len(toPc) < LINK_CAPACITY
  /\ board' = "on"
  /\ toPc' = Append(toPc, "i")
  /\ UNCHANGED <<shared, threads, ledon, blinking, resets, toBoard, pressed, hasty>>

Sender == ReadKey \/ SendKey
Receiver == ReadByte \/ HandleByte
Output == Wait \/ PrintOutput

Next ==
  \/ Sender \/ Receiver \/ Output \/ CountPeriod \/ SpuriousWakeup
  \/ Obey \/ Blink \/ Reset \/ Boot

Spec == Init /\ [][Next]_vars

(* Every thread runs; their calls return within a second (sender and       *)
(* receiver) or initialperiod (periodcounter).  Nothing is assumed of the  *)
(* user, of the board or of spurious wakeups.                              *)
FairSpec ==
  /\ Spec
  /\ WF_vars(Sender) /\ WF_vars(Receiver) /\ WF_vars(Output)
  /\ WF_vars(CountPeriod)

-----------------------------------------------------------------------------
(* Properties                                                              *)

(* The LED is what the program says it is, once every key is answered, for *)
(* a user who waits for the answer to one key before he presses the next,  *)
(* and as long as the board is not restarted or sent away.  (The answer    *)
(* does not say what it is an answer to.)                                  *)
LedstateAgrees ==
  Answered /\ ~hasty /\ resets = 0 =>
    /\ ledstate = "on" => ledon
    /\ ledstate = "off" => ~ledon

(* Once the board has said goodbye, every thread ends, with one exception: *)
(* an output thread that began to wait after the last signal sleeps for    *)
(* good, and main waits for it in pthread_join.                            *)
OnlyOutputCanHang ==
  quit ~> exited \/ ({sender, receiver, counter} = {"ended"}
                     /\ output \in {"ended", "waiting"})

(* A signal that finds nobody waiting is made good by the next one: what   *)
(* is on the screen catches up with the state, unless the program ends.    *)
ScreenCatchesUp == []<>(shown = ledstate \/ quit \/ exited)
=============================================================================
