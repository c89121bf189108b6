----------------------------- MODULE MCThreads ------------------------------
(***************************************************************************)
(* Three programs whose threads share one mutex, one after the other: the  *)
(* PC application, the LED control and the alarm.  A behaviour is one of   *)
(* the program chosen at the start; the variables of the others stay as    *)
(* they are.  The application is extended, the other two are instances.    *)
(***************************************************************************)
EXTENDS PcThreads

CONSTANTS
  LedKeys, MaxResets, LINK_CAPACITY,
  FirstPeriod, Step, MinPeriod, MaxPeriod,
  MaxLedKeys, MaxAlarmKeys

VARIABLES
  program,
  ledQuit, ledstate, lastsent, lastreceived, sender, receiver, counter, output,
  key, byte, shown, exited, toBoard, toPc, board, ledon, blinking, resets, hasty,
  period, alarm, alarmInput,
  keyCount         \* pressed, of the LED control and of the alarm

ledOnly == <<ledstate, lastsent, lastreceived, sender, receiver, counter, key,
             byte, shown, exited, toBoard, toPc, board, ledon, blinking, resets,
             hasty>>
alarmOnly == <<period, alarm, alarmInput>>
ledOrAlarm == <<ledQuit, output, keyCount>>
allVars == <<program, vars, ledOrAlarm, ledOnly, alarmOnly>>

Led == INSTANCE LedControl WITH
  Keys <- LedKeys, MaxKeys <- MaxLedKeys, quit <- ledQuit, pressed <- keyCount
Alarm == INSTANCE AlarmDemo WITH
  MaxKeys <- MaxAlarmKeys, quit <- ledQuit, input <- alarmInput, pressed <- keyCount

ASSUME InstancesAssumption == Led!LedAssumption /\ Alarm!AlarmAssumption

ThreadsInit == program \in {"pc", "led", "alarm"} /\ Init /\ Led!Init /\ Alarm!Init

InPc(A) == program = "pc" /\ A /\ UNCHANGED <<program, ledOrAlarm, ledOnly, alarmOnly>>
InLed(A) == program = "led" /\ A /\ UNCHANGED <<program, vars, alarmOnly>>
InAlarm(A) == program = "alarm" /\ A /\ UNCHANGED <<program, vars, ledOnly>>

ThreadsNext == InPc(Next) \/ InLed(Led!Next) \/ InAlarm(Alarm!Next)

FairThreads ==
  /\ ThreadsInit /\ [][ThreadsNext]_allVars
  /\ WF_allVars(InPc(Main)) /\ WF_allVars(InPc(Input)) /\ WF_allVars(InPc(Serial))
  /\ WF_allVars(InLed(Led!Sender)) /\ WF_allVars(InLed(Led!Receiver))
  /\ WF_allVars(InLed(Led!Output)) /\ WF_allVars(InLed(Led!CountPeriod))
  /\ WF_allVars(InAlarm(Alarm!Ring)) /\ WF_allVars(InAlarm(Alarm!Output))

-----------------------------------------------------------------------------
(* The LED is what the LED control says it is.                             *)
LedstateAgrees == program = "led" => Led!LedstateAgrees
(* Only the output thread of the LED control can hang after 'b'.           *)
OnlyOutputCanHang == program = "led" => Led!OnlyOutputCanHang
(* What the LED control shows catches up with what it knows.               *)
ScreenCatchesUp == program = "led" => Led!ScreenCatchesUp

(* Only the output thread of the alarm can hang after 'q'.                 *)
OutputMayOversleep == program = "alarm" => Alarm!OutputMayOversleep
=============================================================================
