----------------------------- MODULE ButtonTimer -----------------------------
(***************************************************************************)
(* Homework 8 (hw08-mbed.cpp): every 50 ms the timer looks at the button.  *)
(* A press of less than LongPress looks makes the LED blink faster, down to*)
(* no pause at all, and a longer one makes it as slow as at the start.     *)
(***************************************************************************)
EXTENDS Integers

CONSTANTS
  LongPress,     \* 20 in the code
  NumPeriods,    \* 8 in the code
  MaxPresses     \* bound: presses since the last long one

(* What the constants must be; assumed where there is an instance.         *)
ButtonAssumption ==
  LongPress \in Nat \ {0} /\ NumPeriods \in Nat \ {0} /\ MaxPresses \in Nat

VARIABLES
  bcounter, periodcounter,
  down,          \* is the button held down?
  presses        \* presses since the period was last set to the slowest

vars == <<bcounter, periodcounter, down, presses>>

Init ==
  /\ bcounter = 0 /\ periodcounter = 0
  /\ down = FALSE
  /\ presses = 0

(* A plausible slip: the count of looks goes on from press to press.       *)
ReleasedNotReset == UNCHANGED bcounter

Released == bcounter' = 0

(* The user presses the button or lets go of it, as fast as he likes.      *)
Button ==
  /\ down' = ~down
  /\ ~down => presses < MaxPresses
  /\ presses' = IF down THEN presses ELSE presses + 1
  /\ UNCHANGED <<bcounter, periodcounter>>

(* Bound: one look more than a long press is as good as many.              *)
timer50ms ==
  /\ UNCHANGED down
  /\ \/ /\ down /\ bcounter <= LongPress
        /\ bcounter' = bcounter + 1
        /\ UNCHANGED <<periodcounter, presses>>
     \/ /\ ~down /\ bcounter # 0 /\ bcounter < LongPress
        /\ periodcounter' = IF periodcounter + 1 >= NumPeriods THEN NumPeriods - 1
                                                               ELSE periodcounter + 1
        /\ Released
        /\ UNCHANGED presses
     \/ /\ ~down /\ bcounter >= LongPress
        /\ periodcounter' = 0
        /\ Released
        /\ presses' = 0
     \/ /\ ~down /\ bcounter = 0
        /\ UNCHANGED <<bcounter, periodcounter, presses>>

Next == Button \/ timer50ms

Spec == Init /\ [][Next]_vars

-----------------------------------------------------------------------------
(* A press counts once at most, however long it is and whenever the timer  *)
(* looks, and the period stays in the table.                               *)
PressCountsOnce == periodcounter <= presses /\ periodcounter \in 0 .. NumPeriods - 1
=============================================================================
