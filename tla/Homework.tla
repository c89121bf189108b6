------------------------------- MODULE Homework -------------------------------
(***************************************************************************)
(* The programs of the homework and what is asked of them: the linked      *)
(* queue, the growable queue, the timer of the button, the batches, the    *)
(* search for a pattern, the cipher, the factors, the expressions of       *)
(* matrices, the bytes of the messages, and the chunks of an image of any  *)
(* size.  Nothing is declared RECURSIVE, so that theorems can be proved.   *)
(*                                                                         *)
(* The circular queue and the grid are extended, so that what is proved of *)
(* them is what is checked; the others are instances.  MCHomework runs     *)
(* these programs, one of them at a time.                                  *)
(***************************************************************************)
EXTENDS CircularQueue, Grid

CONSTANTS
  LinkedEntries, Nodes, None,                            \* LinkedQueue
  LongPress, NumPeriods, MaxTimerPresses,                \* ButtonTimer
  nbr_tasks, CHUNK_IDS, MaxKeys, MaxPresses, MaxResets, LINK_CAPACITY,    \* Hw10
  SMALL_BYTE, DOUBLE, STARTUP_MSG_LEN,                   \* Messages
  range, sqrt                                            \* Factors

VARIABLES
  program, problem,      \* which program runs, and on what
  heap, first, tail, mysize, answer,
  bcounter, periodcounter, down, timerPresses,
  computation, computing, task_id, abort_request, step, toBoard, toPc,
  keys, presses, resets

linkedVars == <<heap, first, tail, mysize, answer>>
circularVars == vars
timerVars == <<bcounter, periodcounter, down, timerPresses>>
hw10Vars == <<computation, computing, task_id, abort_request, step, toBoard, toPc,
              keys, presses, resets>>

Linked == INSTANCE LinkedQueue WITH
  Entries <- LinkedEntries, head <- first, result <- answer
Timer == INSTANCE ButtonTimer WITH presses <- timerPresses, MaxPresses <- MaxTimerPresses
Batch == INSTANCE Hw10
Number == INSTANCE Factors
Search == INSTANCE Grep
Cipher == INSTANCE Caesar
Matrix == INSTANCE MatrixExpression
Code == INSTANCE Messages WITH BYTE <- SMALL_BYTE

ASSUME ProgramsAssumption ==
  /\ Linked!LinkedAssumption /\ Timer!ButtonAssumption /\ Batch!Hw10Assumption
  /\ Code!MessagesAssumption /\ Number!FactorsAssumption

-----------------------------------------------------------------------------
(* The pointers of the linked queue agree with its counter and heap.       *)
WellLinked == Linked!WellLinked
(* The linked queue does what its header promises.                         *)
ImplementsOrderedQueue == Linked!ImplementsOrderedQueue

(* A press of the button counts once at most.                              *)
PressCountsOnce == Timer!PressCountsOnce

(* The PC of homework 10 is not left believing that the board computes.    *)
BeliefEnds == Batch!BeliefEnds

(* A number is the product of its factors, and they are primes; long       *)
(* division gives the digits of the quotient.                              *)
FactorsRight ==
  /\ program = "number" => Number!FactorsRight(problem)
  /\ program = "quotient" => Number!QuotientRight(problem[1], problem[2])

(* Products come before sums, and misfits are reported.                    *)
ValueRight ==
  program \in {"expression2", "expression4"} =>
    Matrix!ValueRight(problem[1], problem[2])

(* The edit distance is the least number of edits.                         *)
DistanceIsLeast ==
  program = "distance" => Cipher!DistanceIsLeast(problem[1], problem[2])
(* The text printed is the best fit.                                       *)
BestIsPrinted == program = "text" => Cipher!BestIsPrinted(problem[1], problem[2])

(* A line is printed if and only if the pattern is found in it.            *)
PrintedIfFound == program = "line" => Search!PrintedIfFound(problem[1], problem[2])

(* A message is read as it was sent, and no wrong byte passes for one.     *)
ReadAsSentOrRefused == program = "message" => Code!ReadAsSentOrRefused(problem)

(* The chunks cover the image if their number is a byte.                   *)
ChunksCover == program = "grid" => GridCovers(problem[1], problem[2])
=============================================================================
