------------------------------ MODULE AlarmDemo ------------------------------
(***************************************************************************)
(* The alarm demonstration of lecture 9 (lab09/main.c): the alarm counts   *)
(* and signals, the output prints, the input changes the period or quits.  *)
(* Every critical section is one step.  As in LedControl the output waits  *)
(* without testing anything before.                                        *)
(***************************************************************************)
EXTENDS Integers

CONSTANTS
  FirstPeriod,     \* the argument of the program, in ms
  Step,            \* 10 in the code
  MinPeriod, MaxPeriod,    \* 10 and 2000 in the code
  MaxKeys          \* bound: keys pressed

(* What the constants must be; assumed where there is an instance.         *)
AlarmAssumption ==
  /\ FirstPeriod \in Int /\ Step \in Nat
  /\ MinPeriod \in Nat /\ MaxPeriod \in Nat /\ MinPeriod <= MaxPeriod
  /\ MaxKeys \in Nat

VARIABLES
  quit, period,            \* the shared struct; the counter is only printed
  alarm, input, output,    \* where the threads are
  pressed                  \* how many keys were pressed

vars == <<quit, period, alarm, input, output, pressed>>

Init ==
  /\ quit = FALSE /\ period = FirstPeriod
  /\ alarm = "sleep" /\ input = "getchar" /\ output = "outside"
  /\ pressed = 0

(* A plausible slip: the flag is looked at once, before the loop.          *)
RingForever ==
  /\ alarm = "sleep"
  /\ output' = IF output = "waiting" THEN "woken" ELSE output
  /\ UNCHANGED <<alarm, quit, period, input, pressed>>

(* usleep, then count, signal and look at the flag.                        *)
Ring ==
  /\ alarm = "sleep"
  /\ alarm' = IF quit THEN "ended" ELSE "sleep"
  /\ output' = IF output = "waiting" THEN "woken" ELSE output
  /\ UNCHANGED <<quit, period, input, pressed>>

(* 'r' makes the period shorter, 'p' longer.                               *)
Shorter == IF period - Step >= MinPeriod THEN period - Step ELSE MinPeriod
Longer == IF period + Step <= MaxPeriod THEN period + Step ELSE MaxPeriod

PressKey ==
  /\ input = "getchar"
  /\ pressed < MaxKeys
  /\ pressed' = pressed + 1
  /\ \/ /\ quit' = TRUE /\ input' = "ended"
        /\ UNCHANGED period
     \/ /\ period' \in {period, Shorter, Longer}
        /\ UNCHANGED <<quit, input>>
  /\ UNCHANGED <<alarm, output>>

Wait ==
  /\ output = "outside"
  /\ output' = "waiting"
  /\ UNCHANGED <<quit, period, alarm, input, pressed>>

PrintCounter ==
  /\ output = "woken"
  /\ output' = IF quit THEN "ended" ELSE "outside"
  /\ UNCHANGED <<quit, period, alarm, input, pressed>>

SpuriousWakeup ==
  /\ output = "waiting"
  /\ output' = "woken"
  /\ UNCHANGED <<quit, period, alarm, input, pressed>>

Output == Wait \/ PrintCounter
Next == Ring \/ PressKey \/ Output \/ SpuriousWakeup

Spec == Init /\ [][Next]_vars
FairSpec == Spec /\ WF_vars(Ring) /\ WF_vars(Output)

-----------------------------------------------------------------------------
(* After 'q' the alarm rings once more, and ends; the output ends with it, *)
(* or sleeps for good if that last signal came before it waited.           *)
OutputMayOversleep ==
  quit ~> alarm = "ended" /\ output \in {"ended", "waiting"}
=============================================================================
