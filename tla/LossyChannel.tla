---------------------------- MODULE LossyChannel ----------------------------
(***************************************************************************)
(* What the application may rely on when it listens to the board: messages *)
(* come whole, in order and at most once, and once the line has been       *)
(* silent, every message that is sent is received until the next fault.    *)
(* A fault that no silence has mended yet may lead further, to an overrun  *)
(* of the listener's buffer, behind which nothing is promised any more.    *)
(***************************************************************************)
EXTENDS Sequences, SequencesExt

CONSTANT Messages

VARIABLES inFlight,   \* messages on the way, oldest first
          heard,      \* messages received, oldest first
          clean,      \* no fault since the line was last silent
          overrun     \* is nothing promised any more?

vars == <<inFlight, heard, clean, overrun>>

Init == inFlight \in Seq(Messages) /\ heard = << >> /\ ~clean /\ ~overrun

Send ==
  /\ \E m \in Messages : inFlight' = Append(inFlight, m)
  /\ UNCHANGED <<heard, clean, overrun>>

Receive ==
  /\ inFlight # << >>
  /\ heard' = Append(heard, Head(inFlight))
  /\ inFlight' = Tail(inFlight)
  /\ UNCHANGED <<clean, overrun>>

Miss ==
  /\ ~clean
  /\ inFlight # << >>
  /\ inFlight' = Tail(inFlight)
  /\ UNCHANGED <<heard, clean, overrun>>

Fault ==
  /\ \/ \E i \in DOMAIN inFlight : inFlight' = RemoveAt(inFlight, i)
     \/ \E n \in 0 .. Len(inFlight) : inFlight' = SubSeq(inFlight, 1, n)
  /\ ~clean'
  /\ UNCHANGED <<heard, overrun>>

Silence ==
  /\ inFlight = << >>
  /\ clean'
  /\ UNCHANGED <<inFlight, heard, overrun>>

Overrun ==
  /\ ~clean
  /\ inFlight' = inFlight \/ (inFlight # << >> /\ inFlight' = Tail(inFlight))
  /\ overrun'
  /\ UNCHANGED <<heard, clean>>

(* Anything but a way back.                                                *)
Damaged == overrun /\ overrun'

Next == Send \/ Receive \/ Miss \/ Fault \/ Silence \/ Overrun \/ Damaged

Spec == Init /\ [][Next]_vars
=============================================================================
