-------------------------------- MODULE Hw10 --------------------------------
(***************************************************************************)
(* Homework 10, from which the semestral project grew: the PC (hw10-main.c)*)
(* asks the board (hw10-mbed.cpp) for batches of tasks.  Here the board    *)
(* takes a new batch whatever it does, and the PC reuses the number of an  *)
(* aborted one.                                                            *)
(*                                                                         *)
(* toPc holds what is on the line or in the event queue of the PC.  What is*)
(* in toBoard may not have arrived yet, so the board may go on computing.  *)
(***************************************************************************)
EXTENDS Integers, Sequences

CONSTANTS
  nbr_tasks,       \* tasks of a batch (10 to 50 in the code)
  CHUNK_IDS,       \* values of a chunk_id (65536 in the code)
  MaxKeys, MaxPresses, MaxResets,    \* bounds: keys, button, restarts
  LINK_CAPACITY    \* bound: messages in either direction

(* What the constants must be; assumed where there is an instance.         *)
Hw10Assumption ==
  /\ nbr_tasks \in Nat \ {0} /\ CHUNK_IDS \in Nat \ {0}
  /\ LINK_CAPACITY \in Nat \ {0}
  /\ MaxKeys \in Nat /\ MaxPresses \in Nat /\ MaxResets \in Nat

VARIABLES
  computation,     \* of the PC: chunk_id, computing
  computing, task_id, abort_request,    \* of the board
  step,            \* its loop: "abort" is the test at the top, "work" the rest
  toBoard, toPc,
  keys, presses, resets

board == <<computing, task_id, abort_request, step>>
counts == <<keys, presses, resets>>
vars == <<computation, board, toBoard, toPc, counts>>

Init ==
  /\ computation = [chunk_id |-> 0, computing |-> FALSE]
  /\ computing = FALSE /\ task_id = 0 /\ abort_request = FALSE
  /\ step = "abort"
  /\ toBoard = << >> /\ toPc = <<"MSG_STARTUP">>
  /\ keys = 0 /\ presses = 0 /\ resets = 0

-----------------------------------------------------------------------------
(* The PC                                                                  *)

Key ==
  /\ keys < MaxKeys /\ Len(toBoard) < LINK_CAPACITY
  /\ keys' = keys + 1
  /\ UNCHANGED <<board, toPc, presses, resets>>

(* '1' to '5': the next number, which begins again at 0.                   *)
EvCompute ==
  /\ Key
  /\ ~computation.computing
  /\ computation' = [chunk_id |-> (computation.chunk_id + 1) % CHUNK_IDS,
                     computing |-> TRUE]
  /\ toBoard' = Append(toBoard, "MSG_COMPUTE")

(* 'r', and any key that is discarded                                      *)
EvResetChunk ==
  /\ Key
  /\ computation' = IF computation.computing THEN computation
                    ELSE [computation EXCEPT !.chunk_id = 0]
  /\ UNCHANGED toBoard

(* The number of a batch that was aborted will be used again.              *)
GivenBack == [chunk_id |-> (computation.chunk_id - 1) % CHUNK_IDS, computing |-> FALSE]

(* 'a'                                                                     *)
EvAbort ==
  /\ Key
  /\ computation.computing
  /\ computation' = GivenBack
  /\ toBoard' = Append(toBoard, "MSG_ABORT")

(* A plausible slip: the end of a batch is not noted.                      *)
AfterMessageDone(type) ==
  CASE type = "MSG_STARTUP" -> [chunk_id |-> 0, computing |-> FALSE]
    [] type = "MSG_ABORT" /\ computation.computing -> GivenBack
    [] OTHER -> computation

AfterMessage(type) ==
  CASE type = "MSG_STARTUP" -> [chunk_id |-> 0, computing |-> FALSE]
    [] type = "MSG_ABORT" /\ computation.computing -> GivenBack
    [] type = "MSG_DONE" -> [computation EXCEPT !.computing = FALSE]
    [] OTHER -> computation

HandleMessage ==
  /\ toPc # << >>
  /\ toPc' = Tail(toPc)
  /\ computation' = AfterMessage(Head(toPc))
  /\ UNCHANGED <<board, toBoard, counts>>

-----------------------------------------------------------------------------
(* The board                                                               *)

Send(type) == Len(toPc) < LINK_CAPACITY /\ toPc' = Append(toPc, type)

(* The interrupt of the button                                             *)
Button ==
  /\ presses < MaxPresses
  /\ presses' = presses + 1
  /\ abort_request' = (abort_request \/ computing)
  /\ UNCHANGED <<computation, computing, task_id, step, toBoard, toPc, keys, resets>>

HandleAbort ==
  /\ step = "abort"
  /\ step' = "work"
  /\ IF abort_request /\ computing
       THEN /\ Send("MSG_ABORT")
            /\ computing' = FALSE /\ abort_request' = FALSE
       ELSE UNCHANGED <<computing, abort_request, toPc>>
  /\ UNCHANGED <<computation, task_id, toBoard, counts>>

(* A new batch replaces the one under way; abort_request stays.            *)
Receive ==
  /\ step = "work" /\ toBoard # << >>
  /\ step' = "abort"
  /\ toBoard' = Tail(toBoard)
  /\ Send("MSG_OK")
  /\ IF Head(toBoard) = "MSG_COMPUTE"
       THEN computing' = TRUE /\ task_id' = 0 /\ UNCHANGED abort_request
       ELSE computing' = FALSE /\ abort_request' = FALSE /\ UNCHANGED task_id
  /\ UNCHANGED <<computation, counts>>

Work ==
  /\ step = "work" /\ computing
  /\ step' = "abort"
  /\ IF task_id < nbr_tasks
       THEN /\ Send("MSG_COMPUTE_DATA")
            /\ task_id' = task_id + 1
            /\ UNCHANGED computing
       ELSE /\ Send("MSG_DONE")
            /\ computing' = FALSE
            /\ UNCHANGED task_id
  /\ UNCHANGED <<computation, abort_request, toBoard, counts>>

(* Messages the board has not read are lost, and so are those it has not   *)
(* sent.                                                                   *)
Reset ==
  /\ resets < MaxResets
  /\ resets' = resets + 1
  /\ \E i \in 0 .. Len(toBoard) : toBoard' = SubSeq(toBoard, i + 1, Len(toBoard))
  /\ \E j \in 0 .. Len(toPc) : toPc' = Append(SubSeq(toPc, 1, j), "MSG_STARTUP")
  /\ computing' = FALSE /\ abort_request' = FALSE /\ task_id' = 0
  /\ step' = "abort"
  /\ UNCHANGED <<computation, keys, presses>>

Next ==
  \/ EvCompute \/ EvResetChunk \/ EvAbort \/ HandleMessage
  \/ Button \/ HandleAbort \/ Receive \/ Work \/ Reset

Spec == Init /\ [][Next]_vars

-----------------------------------------------------------------------------
(* Properties                                                              *)

NoAbortAfter(i) == \A j \in i + 1 .. Len(toBoard) : toBoard[j] # "MSG_ABORT"

(* While the PC believes that the board computes, something is there to end*)
(* that belief, however keys, button and restarts cross each other; and the*)
(* batch is counted: its number is 0 only if there were so many keys that  *)
(* the numbers began again, and none is given back before.                 *)
BeliefEnds ==
  computation.computing =>
    /\ computation.chunk_id = 0 => keys >= CHUNK_IDS
    /\ \/ \E i \in DOMAIN toPc : toPc[i] \in {"MSG_DONE", "MSG_ABORT", "MSG_STARTUP"}
       \/ computing /\ NoAbortAfter(0)
       \/ \E i \in DOMAIN toBoard : toBoard[i] = "MSG_COMPUTE" /\ NoAbortAfter(i)
=============================================================================
