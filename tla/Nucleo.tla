------------------------------- MODULE Nucleo -------------------------------
(***************************************************************************)
(* The firmware of the board (main.cpp): the loop of main() and the button *)
(* interrupt, which may run between any two steps of the loop.             *)
(*                                                                         *)
(* One turn of the loop is two steps, because the interrupt can set        *)
(* abort_request after the loop has looked at it: step "abort" is the test *)
(* at the top, step "work" the rest.  With nothing to do the loop sleeps   *)
(* until an interrupt, that is, it stays at "work".                        *)
(***************************************************************************)
EXTENDS Link

CONSTANTS
  LINK_CAPACITY,   \* messages on the way to the PC before a send must wait
  MaxPresses,      \* bound: presses of the user button
  MaxResets        \* bound: presses of the reset button

ASSUME NucleoAssumption ==
  /\ LINK_CAPACITY \in Nat \ {0}
  /\ MaxPresses \in Nat
  /\ MaxResets \in Nat

VARIABLES
  nucleo,          \* the global "parameters" of the firmware
  abort_request,   \* set by the button interrupt, cleared by the loop
  step,            \* where the loop is: "abort" or "work"
  arrived,         \* how many messages of toNucleo are in the receive ring
  presses, resets  \* how often the two buttons were pressed

nucleoVars == <<nucleo, abort_request, step, arrived, presses, resets>>

Idle == [c |-> Zero, d |-> <<0, 0>>, n |-> 0, cid |-> 0, re |-> 0, im |-> 0,
         chunk_size |-> 0, computing |-> FALSE, cx |-> 0, cy |-> 0]

NucleoInit ==
  /\ nucleo = Idle
  /\ abort_request = FALSE
  /\ step = "abort"
  /\ arrived = 0
  /\ presses = 0
  /\ resets = 0

(* send_buffer spins while the transmit ring is full.                      *)
Send(m) ==
  /\ Len(toPc) < LINK_CAPACITY
  /\ toPc' = Append(toPc, m)

-----------------------------------------------------------------------------
(* The receive interrupt: the next message is complete in the ring.        *)
Arrive ==
  /\ arrived < Len(toNucleo)
  /\ arrived' = arrived + 1
  /\ UNCHANGED <<nucleo, abort_request, step, presses, resets, toNucleo, toPc>>

(* The button interrupt                                                    *)
Button ==
  /\ presses < MaxPresses
  /\ presses' = presses + 1
  /\ abort_request' = (abort_request \/ nucleo.computing)
  /\ UNCHANGED <<nucleo, step, arrived, resets, toNucleo, toPc>>

(* The test at the top of the loop.  A request that finds no computation   *)
(* stays set.                                                              *)
HandleAbortRequest ==
  /\ step = "abort"
  /\ step' = "work"
  /\ IF abort_request /\ nucleo.computing
       THEN /\ Send(Plain("MSG_ABORT"))
            /\ nucleo' = [nucleo EXCEPT !.computing = FALSE]
            /\ abort_request' = FALSE
       ELSE UNCHANGED <<nucleo, abort_request, toPc>>
  /\ UNCHANGED <<arrived, presses, resets, toNucleo>>

-----------------------------------------------------------------------------
(* A received message comes before the computation.                        *)

Received(type) ==
  /\ step = "work"
  /\ arrived > 0
  /\ Head(toNucleo).type = type
  /\ toNucleo' = Tail(toNucleo)
  /\ arrived' = arrived - 1
  /\ step' = "abort"
  /\ UNCHANGED <<presses, resets>>

ReceiveGetVersion ==
  /\ Received("MSG_GET_VERSION")
  /\ Send(Plain("MSG_VERSION"))
  /\ UNCHANGED <<nucleo, abort_request>>

ReceiveAbort ==
  /\ Received("MSG_ABORT")
  /\ nucleo' = [nucleo EXCEPT !.computing = FALSE]
  /\ abort_request' = FALSE
  /\ Send(Plain("MSG_OK"))

ReceiveSetCompute ==
  /\ Received("MSG_SET_COMPUTE")
  /\ LET m == Head(toNucleo)
     IN  nucleo' = [nucleo EXCEPT !.c = m.c, !.d = m.d, !.n = m.n]
  /\ Send(Plain("MSG_OK"))
  /\ UNCHANGED abort_request

ReceiveCompute ==
  /\ Received("MSG_COMPUTE")
  /\ LET m == Head(toNucleo)
     IN  nucleo' = IF nucleo.computing
                     THEN nucleo
                     ELSE [nucleo EXCEPT !.cid = m.cid, !.re = m.re, !.im = m.im,
                                         !.cx = 0, !.cy = 0,
                                         !.chunk_size = m.size,
                                         !.computing = TRUE]
  /\ Send(Plain("MSG_OK"))
  /\ UNCHANGED abort_request

-----------------------------------------------------------------------------
(* The computation, one pixel per turn, column by column.                  *)

Computing ==
  /\ step = "work"
  /\ arrived = 0
  /\ nucleo.computing
  /\ step' = "abort"
  /\ UNCHANGED <<abort_request, arrived, presses, resets, toNucleo>>

(* A plausible slip: done when the last pixel is reached, not sent.        *)
LastPixelReached ==
  nucleo.cx = nucleo.chunk_size - 1 /\ nucleo.cy = nucleo.chunk_size - 1

LastPixelSent == nucleo.cx = nucleo.chunk_size /\ nucleo.cy = 0

NextPixel ==
  IF (nucleo.cy + 1) % nucleo.chunk_size = 0
    THEN [nucleo EXCEPT !.cx = @ + 1, !.cy = 0]
    ELSE [nucleo EXCEPT !.cy = @ + 1]

SendPixel ==
  /\ Computing
  /\ ~LastPixelSent
  /\ Send(ComputeData(nucleo.cid, nucleo.cx, nucleo.cy,
                      Iterations(nucleo.c, nucleo.d, nucleo.n,
                                 nucleo.re + nucleo.cx, nucleo.im + nucleo.cy)))
  /\ nucleo' = NextPixel

SendDone ==
  /\ Computing
  /\ LastPixelSent
  /\ Send(Plain("MSG_DONE"))
  /\ nucleo' = [nucleo EXCEPT !.computing = FALSE]

-----------------------------------------------------------------------------
(* A plausible slip: the firmware does not announce its restart.           *)
ResetUnannounced ==
  /\ resets < MaxResets
  /\ resets' = resets + 1
  /\ \E i \in arrived .. Len(toNucleo) :
        toNucleo' = SubSeq(toNucleo, i + 1, Len(toNucleo))
  /\ \E j \in 0 .. Len(toPc) : toPc' = SubSeq(toPc, 1, j)
  /\ nucleo' = Idle
  /\ abort_request' = FALSE
  /\ step' = "abort"
  /\ arrived' = 0
  /\ UNCHANGED presses

(* The reset button restarts the firmware.  What is in its receive ring or *)
(* comes before the interrupts are attached (a prefix of toNucleo) and     *)
(* what is in its transmit ring (a suffix of toPc) is lost.                *)
Reset ==
  /\ resets < MaxResets
  /\ resets' = resets + 1
  /\ \E i \in arrived .. Len(toNucleo) :
        toNucleo' = SubSeq(toNucleo, i + 1, Len(toNucleo))
  /\ \E j \in 0 .. Len(toPc) :
        toPc' = Append(SubSeq(toPc, 1, j), Plain("MSG_STARTUP"))
  /\ nucleo' = Idle
  /\ abort_request' = FALSE
  /\ step' = "abort"
  /\ arrived' = 0
  /\ UNCHANGED presses

Loop ==
  \/ HandleAbortRequest
  \/ ReceiveGetVersion
  \/ ReceiveAbort
  \/ ReceiveSetCompute
  \/ ReceiveCompute
  \/ SendPixel
  \/ SendDone

NucleoNext == Loop \/ Arrive \/ Button \/ Reset
=============================================================================
