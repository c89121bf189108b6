---------------------------- MODULE HomeworkProofs ----------------------------
(***************************************************************************)
(* Theorems about programs of the homework: the growable circular queue of *)
(* homework 7, for any capacities the program may ask for, any entries and *)
(* any bound on the array; the batches of homework 10, for any number of   *)
(* tasks, keys, presses and restarts and any length of the line; the timer *)
(* of homework 8, for any table of periods and any length of a long press; *)
(* the chunks of an image of any size; the linked queue of homework 6, for *)
(* any integers, any positions asked for and any number of nodes; the      *)
(* search of homework 4, for any line and any pattern; the bytes of the    *)
(* messages, for every type and all that their fields can hold; the edit   *)
(* distance and the cipher of homework 3, for any words and texts; the     *)
(* factors and quotients of homework 2, for any numbers; and the           *)
(* expressions of homework 5, for any matrices and any operators.          *)
(***************************************************************************)
EXTENDS Homework, DataProofs, FiniteSetTheorems

-----------------------------------------------------------------------------
(* The circular queue                                                      *)

(* The elements of a queue no longer than its array lie in cells of it, and*)
(* none lies in another's.                                                 *)
LEMMA CellFacts ==
  ASSUME NEW n \in Nat \ {0}, head \in Cells(n),
         NEW i \in 0 .. n - 1, NEW j \in 0 .. n - 1
  PROVE  /\ Cell(i, n) \in Cells(n)
         /\ Cell(i, n) = Cell(j, n) => i = j
  BY SMT DEF Cell, Cells

(* The created queue has its type.                                         *)
LEMMA TypeInit == Init => TypeOK
  BY CircularAssumption, SMT DEF Init, TypeOK, Cells

(* A pushed element finds a cell, in the old array or in the longer one.   *)
LEMMA TypePush ==
  ASSUME TypeOK, NEW entry \in Entries, Push(entry)
  PROVE  TypeOK'
<1> USE DEF TypeOK
<1>1. /\ Grown \in Nat \ {0}
      /\ allocated <= Grown
      /\ size + 1 <= Grown
  BY SMT DEF Grown, Grows
<1>2. data' \in [Cells(Grown) -> Entries \union {Garbage}]
  BY <1>1, SMT DEF Push, Cells
<1>3. /\ allocated' \in Nat \ {0}
      /\ data' \in [Cells(allocated') -> Entries \union {Garbage}]
  BY <1>1, <1>2 DEF Push
<1>4. /\ head' \in Cells(allocated')
      /\ size' \in 0 .. allocated'
  BY <1>1, SMT DEF Push, Cells
<1> QED
  BY <1>3, <1>4

(* After a pop the head is a cell, and a smaller array holds the rest.     *)
LEMMA TypePop ==
  ASSUME TypeOK, Pop
  PROVE  TypeOK'
<1> USE DEF TypeOK
<1>1. size \in Nat /\ size # 0 /\ size - 1 \in Nat
  BY SMT DEF Pop
<1>2. CASE size - 1 < allocated \div 3 /\ size - 1 # 0
  <2>1. /\ allocated' = size - 1 /\ head' = 0 /\ size' = size - 1
        /\ data' = [c \in Cells(size - 1) |-> Stored(c + 1)]
    BY <1>2 DEF Pop
  <2>2. \A c \in Cells(size - 1) : Stored(c + 1) \in Entries \union {Garbage}
    <3> TAKE c \in Cells(size - 1)
    <3>1. c + 1 \in 0 .. allocated - 1
      BY SMT DEF Cells
    <3>2. Cell(c + 1, allocated) \in Cells(allocated)
      BY <3>1, CellFacts
    <3> QED
      BY <3>2 DEF Stored
  <2>3. /\ allocated' \in Nat \ {0}
        /\ head' \in Cells(allocated')
        /\ size' \in 0 .. allocated'
    BY <1>1, <1>2, <2>1, SMT DEF Cells
  <2>4. data' \in [Cells(size - 1) -> Entries \union {Garbage}]
    BY <2>1, <2>2
  <2>5. Cells(allocated') = Cells(size - 1)
    BY <2>1
  <2> QED
    BY <2>1, <2>3, <2>4, <2>5 DEF Cells
<1>3. CASE ~(size - 1 < allocated \div 3 /\ size - 1 # 0)
  <2>1. /\ UNCHANGED <<data, allocated>> /\ size' = size - 1
        /\ head' = IF head + 1 # allocated THEN head + 1 ELSE 0
    BY <1>3 DEF Pop
  <2>2. /\ head' \in Cells(allocated')
        /\ size' \in 0 .. allocated'
    BY <2>1, <1>1, SMT DEF Cells
  <2> QED
    BY <2>1, <2>2, SMT DEF Cells
<1> QED
  BY <1>2, <1>3

LEMMA TypeStep == TypeOK /\ [Next]_vars => TypeOK'
<1> SUFFICES ASSUME TypeOK, [Next]_vars PROVE TypeOK'
  OBVIOUS
<1>1. ASSUME NEW entry \in Entries, Push(entry) PROVE TypeOK'
  BY <1>1, TypePush
<1>2. CASE Pop
  BY <1>2, TypePop
<1>3. CASE PopEmpty
  BY <1>3 DEF PopEmpty, TypeOK, Cells
<1>4. ASSUME NEW idx \in Indices, Get(idx) PROVE TypeOK'
  BY <1>4 DEF Get, TypeOK, Cells
<1>5. CASE UNCHANGED vars
  BY <1>5 DEF vars, TypeOK, Cells
<1> QED
  BY <1>1, <1>2, <1>3, <1>4, <1>5 DEF Next

(* Growing and shrinking keep head inside of the array and the elements    *)
(* within its length.                                                      *)
THEOREM TypeCorrect == Spec => []TypeOK
<1>1. Init => TypeOK
  BY TypeInit
<1>2. TypeOK /\ [Next]_vars => TypeOK'
  BY TypeStep
<1> QED
  BY <1>1, <1>2, PTL DEF Spec

(* No element is ever stored outside of the array or over another.         *)
THEOREM CellsAreDistinct == Spec => []CellsDistinct
<1>1. TypeOK => CellsDistinct
  <2> SUFFICES ASSUME TypeOK PROVE CellsDistinct
    OBVIOUS
  <2>1. /\ allocated \in Nat \ {0}
        /\ head \in Cells(allocated)
        /\ \A i \in 0 .. size - 1 : i \in 0 .. allocated - 1
    BY SMT DEF TypeOK
  <2> QED
    BY <2>1, CellFacts DEF CellsDistinct
<1> QED
  BY <1>1, TypeCorrect, PTL

-----------------------------------------------------------------------------
(* What is inductive: the order, with types, and fifo a sequence.          *)
QueueInv == TypeOK /\ OnlyWrappedAreLost /\ fifo \in Seq(Entries)

(* A push moves no cell that an element in place is read from: what had    *)
(* wrapped when the array grew is counted as moved.                        *)
LEMMA OrderPush ==
  ASSUME QueueInv, NEW entry \in Entries, Push(entry)
  PROVE  OnlyWrappedAreLost' /\ (fifo \in Seq(Entries))'
<1> USE DEF QueueInv, TypeOK
<1>1. /\ allocated' = Grown /\ head' = head /\ size' = size + 1
      /\ fifo' = Append(fifo, entry)
      /\ size \in Nat /\ allocated \in Nat \ {0}
      /\ fifo \in Seq(Entries)
  BY SMT DEF Push
<1>2. /\ Len(fifo) = size
      /\ \A i \in 0 .. size - 1 : i \notin moved => Stored(i) = fifo[i + 1]
  BY DEF OnlyWrappedAreLost
<1>3. /\ fifo' \in Seq(Entries)
      /\ Len(fifo') = size'
      /\ \A i \in 0 .. size - 1 : fifo'[i + 1] = fifo[i + 1]
      /\ fifo'[size + 1] = entry
  BY <1>1, <1>2, SMT
<1>4. /\ Grown \in Nat \ {0}
      /\ allocated <= Grown
      /\ size <= Grown - 1
      /\ head \in Cells(Grown)
  BY SMT DEF Grown, Grows, Cells
<1>5. ASSUME NEW i \in 0 .. size, i \notin moved'
      PROVE  Stored(i)' = fifo'[i + 1]
  <2>1. Stored(i)' = data'[Cell(i, Grown)]
    BY <1>1 DEF Stored, Cell
  <2>2. i \in 0 .. Grown - 1 /\ size \in 0 .. Grown - 1
    BY <1>1, <1>4, SMT
  <2>3. Cell(i, Grown) \in Cells(Grown)
    BY <2>2, <1>4, CellFacts
  <2>4. data'[Cell(i, Grown)] =
          IF Cell(i, Grown) = Cell(size, Grown) THEN entry
          ELSE IF Cell(i, Grown) < allocated THEN data[Cell(i, Grown)]
          ELSE Garbage
    BY <2>3 DEF Push
  <2>5. CASE i = size
    BY <2>1, <2>4, <2>5, <1>3
  <2>6. CASE i # size
    <3>1. i \in 0 .. size - 1
      BY <2>6, <1>1, SMT
    <3>2. Cell(i, Grown) # Cell(size, Grown)
      BY <2>2, <2>6, <1>4, CellFacts
    <3>3. i \notin moved
      BY <1>5 DEF Push
    <3>4. Cell(i, Grown) = Cell(i, allocated) /\ Cell(i, Grown) < allocated
      <4>1. CASE Grows
        <5>1. moved' = moved \union (allocated - head) .. (size - 1)
          BY <4>1 DEF Push
        <5>2. i \notin (allocated - head) .. (size - 1)
          BY <5>1, <1>5
        <5>3. head + i < allocated
          BY <5>2, <3>1, <1>1, SMT DEF Cells
        <5> QED
          BY <5>3, <1>4, <3>1, <1>1, SMT DEF Cell, Cells
      <4>2. CASE ~Grows
        <5>1. Grown = allocated
          BY <4>2 DEF Grown
        <5> QED
          BY <5>1, <2>3, <1>1, SMT DEF Cells
      <4> QED
        BY <4>1, <4>2
    <3>5. data[Cell(i, allocated)] = fifo[i + 1]
      BY <1>2, <3>1, <3>3 DEF Stored
    <3> QED
      BY <2>1, <2>4, <3>1, <3>2, <3>4, <3>5, <1>3
  <2> QED
    BY <2>5, <2>6
<1>6. 0 .. size' - 1 = 0 .. size
  BY <1>1, SMT
<1> QED
  BY <1>3, <1>5, <1>6 DEF OnlyWrappedAreLost

(* A pop, with or without a smaller array, leaves every element its value  *)
(* one position further to the front.                                      *)
LEMMA OrderPop ==
  ASSUME QueueInv, Pop
  PROVE  OnlyWrappedAreLost' /\ (fifo \in Seq(Entries))'
<1> USE DEF QueueInv, TypeOK
<1>1. /\ size' = size - 1 /\ fifo' = Tail(fifo)
      /\ size \in Nat \ {0} /\ allocated \in Nat \ {0}
      /\ fifo \in Seq(Entries)
  BY SMT DEF Pop
<1>2. /\ Len(fifo) = size
      /\ \A i \in 0 .. size - 1 : i \notin moved => Stored(i) = fifo[i + 1]
  BY DEF OnlyWrappedAreLost
<1>3. /\ fifo' \in Seq(Entries)
      /\ Len(fifo') = size'
      /\ \A i \in 0 .. size - 2 : fifo'[i + 1] = fifo[i + 2]
  BY <1>1, <1>2, SMT
<1>4. ASSUME NEW i \in 0 .. size - 2, i \notin moved'
      PROVE  Stored(i)' = fifo'[i + 1]
  <2>1. i + 1 \in 0 .. size - 1 /\ i + 1 # 0 /\ (i + 1) - 1 = i
    BY <1>1, SMT
  <2>2. moved' = {idx - 1 : idx \in moved \ {0}}
    BY DEF Pop
  <2>3. i + 1 \notin moved
    BY <2>1, <2>2, <1>4
  <2>4. Stored(i + 1) = fifo[i + 2]
    <3>1. (i + 1) + 1 = i + 2
      BY <1>1, SMT
    <3> QED
      BY <1>2, <2>1, <2>3, <3>1
  <2>5. Stored(i)' = Stored(i + 1)
    <3>1. CASE size - 1 < allocated \div 3 /\ size - 1 # 0
      <4>1. /\ allocated' = size - 1 /\ head' = 0
            /\ data' = [c \in Cells(size - 1) |-> Stored(c + 1)]
        BY <3>1 DEF Pop
      <4>2. Cell(i, allocated)' = i
        BY <4>1, <1>1, SMT DEF Cell
      <4>3. i \in Cells(size - 1)
        BY <1>1, SMT DEF Cells
      <4> QED
        BY <4>1, <4>2, <4>3 DEF Stored
    <3>2. CASE ~(size - 1 < allocated \div 3 /\ size - 1 # 0)
      <4>1. /\ UNCHANGED <<data, allocated>>
            /\ head' = IF head + 1 # allocated THEN head + 1 ELSE 0
        BY <3>2 DEF Pop
      <4>2. Cell(i, allocated)' = Cell(i + 1, allocated)
        BY <4>1, <1>1, SMT DEF Cell, Cells
      <4> QED
        BY <4>1, <4>2 DEF Stored
    <3> QED
      BY <3>1, <3>2
  <2> QED
    BY <2>4, <2>5, <1>3
<1>5. 0 .. size' - 1 = 0 .. size - 2
  BY <1>1, SMT
<1> QED
  BY <1>3, <1>4, <1>5 DEF OnlyWrappedAreLost

LEMMA OrderInit == Init => QueueInv
<1> SUFFICES ASSUME Init PROVE QueueInv
  OBVIOUS
<1>1. fifo \in Seq(Entries) /\ Len(fifo) = 0 /\ size = 0
  BY SMT DEF Init
<1>2. OnlyWrappedAreLost
  BY <1>1, SMT DEF OnlyWrappedAreLost
<1> QED
  BY <1>1, <1>2, TypeInit DEF QueueInv

LEMMA OrderStep == QueueInv /\ [Next]_vars => QueueInv'
<1> SUFFICES ASSUME QueueInv, [Next]_vars PROVE QueueInv'
  OBVIOUS
<1>1. TypeOK'
  BY TypeStep DEF QueueInv
<1>2. ASSUME NEW entry \in Entries, Push(entry)
      PROVE  OnlyWrappedAreLost' /\ (fifo \in Seq(Entries))'
  BY <1>2, OrderPush
<1>3. ASSUME Pop
      PROVE  OnlyWrappedAreLost' /\ (fifo \in Seq(Entries))'
  BY <1>3, OrderPop
<1>4. ASSUME UNCHANGED <<data, allocated, head, size, fifo, moved>>
      PROVE  OnlyWrappedAreLost' /\ (fifo \in Seq(Entries))'
  BY <1>4 DEF QueueInv, OnlyWrappedAreLost, Stored, Cell
<1>5. ASSUME PopEmpty \/ (\E idx \in Indices : Get(idx)) \/ UNCHANGED vars
      PROVE  UNCHANGED <<data, allocated, head, size, fifo, moved>>
  BY <1>5 DEF PopEmpty, Get, vars
<1> QED
  BY <1>1, <1>2, <1>3, <1>4, <1>5 DEF Next, QueueInv

(* Growing harms only what had wrapped to the front at that moment: any    *)
(* other element keeps its value and its turn through all later calls.     *)
THEOREM OnlyWrappedLost == Spec => []OnlyWrappedAreLost
<1>1. Init => QueueInv
  BY OrderInit
<1>2. QueueInv /\ [Next]_vars => QueueInv'
  BY OrderStep
<1>3. QueueInv => OnlyWrappedAreLost
  BY DEF QueueInv
<1> QED
  BY <1>1, <1>2, <1>3, PTL DEF Spec

-----------------------------------------------------------------------------
(* The batches                                                             *)

Requests == {"MSG_COMPUTE", "MSG_ABORT"}
Answers == {"MSG_STARTUP", "MSG_OK", "MSG_ABORT", "MSG_COMPUTE_DATA", "MSG_DONE"}
Ends == {"MSG_DONE", "MSG_ABORT", "MSG_STARTUP"}

(* The three reasons why the PC may believe that the board computes.       *)
EndComes == \E i \in DOMAIN toPc : toPc[i] \in Ends
Computes == computing /\ Batch!NoAbortAfter(0)
RequestComes == \E i \in DOMAIN toBoard : toBoard[i] = "MSG_COMPUTE" /\ Batch!NoAbortAfter(i)

(* The numbers of the batches begin again only after as many keys.         *)
Counts ==
  /\ computation \in [chunk_id : 0 .. CHUNK_IDS - 1, computing : BOOLEAN]
  /\ keys \in Nat /\ computation.chunk_id <= keys
  /\ computation.computing /\ computation.chunk_id = 0 => keys >= CHUNK_IDS

(* What is inductive: the reasons, with the types of what is on the line.  *)
BatchInv ==
  /\ toBoard \in Seq(Requests) /\ toPc \in Seq(Answers)
  /\ Counts
  /\ computation.computing => EndComes \/ Computes \/ RequestComes

-----------------------------------------------------------------------------
(* The neighbours of a number, as it begins again at 0.                    *)
LEMMA NeighbourIds ==
  ASSUME NEW c \in 0 .. CHUNK_IDS - 1
  PROVE  /\ (c + 1) % CHUNK_IDS = IF c = CHUNK_IDS - 1 THEN 0 ELSE c + 1
         /\ (c - 1) % CHUNK_IDS = IF c = 0 THEN CHUNK_IDS - 1 ELSE c - 1
<1> CHUNK_IDS \in Nat \ {0}
  BY ProgramsAssumption DEF Batch!Hw10Assumption
<1> QED
  BY SMT

(* A number that is given back is one below, or the last if there were so  *)
(* many keys.                                                              *)
LEMMA GivenBackCounts ==
  ASSUME Counts, computation.computing, computation' = Batch!GivenBack, keys' \in Nat,
         keys <= keys'
  PROVE  Counts' /\ ~computation'.computing
<1>1. CHUNK_IDS \in Nat \ {0}
  BY ProgramsAssumption DEF Batch!Hw10Assumption
<1>2. computation' = [chunk_id |-> (computation.chunk_id - 1) % CHUNK_IDS, computing |-> FALSE]
  BY DEF Batch!GivenBack
<1>3. computation.chunk_id \in 0 .. CHUNK_IDS - 1
  BY DEF Counts
<1>4. (computation.chunk_id - 1) % CHUNK_IDS =
        IF computation.chunk_id = 0 THEN CHUNK_IDS - 1 ELSE computation.chunk_id - 1
  BY <1>3, NeighbourIds
<1>5. /\ computation'.chunk_id \in 0 .. CHUNK_IDS - 1
      /\ computation'.chunk_id <= keys'
  BY <1>1, <1>2, <1>3, <1>4, SMT DEF Counts
<1>6. computation' \in [chunk_id : 0 .. CHUNK_IDS - 1, computing : BOOLEAN] /\ ~computation'.computing
  BY <1>2, <1>5
<1> QED
  BY <1>5, <1>6 DEF Counts

(* An answer that is sent leaves those before it on the line.              *)
LEMMA SendFacts ==
  ASSUME toPc \in Seq(Answers), NEW type \in Answers, toPc' = Append(toPc, type)
  PROVE  /\ toPc' \in Seq(Answers)
         /\ EndComes => EndComes'
         /\ type \in Ends => EndComes'
<1>1. /\ toPc' \in Seq(Answers)
      /\ \A i \in DOMAIN toPc : i \in DOMAIN toPc' /\ toPc'[i] = toPc[i]
      /\ Len(toPc) + 1 \in DOMAIN toPc' /\ toPc'[Len(toPc) + 1] = type
  BY SMT
<1> QED
  BY <1>1 DEF EndComes

(* A request that is sent follows the others.                              *)
LEMMA RequestFacts ==
  ASSUME toBoard \in Seq(Requests), NEW type \in Requests,
         toBoard' = Append(toBoard, type)
  PROVE  /\ toBoard' \in Seq(Requests)
         /\ type = "MSG_COMPUTE" => RequestComes'
<1>1. /\ toBoard' \in Seq(Requests)
      /\ Len(toBoard') \in DOMAIN toBoard' /\ toBoard'[Len(toBoard')] = type
      /\ Len(toBoard') + 1 .. Len(toBoard') = {}
  BY SMT
<1> QED
  BY <1>1 DEF RequestComes, Batch!NoAbortAfter

(* The end of the line without its first request has no abort that the line*)
(* did not have.                                                           *)
LEMMA NoAbortBehind ==
  ASSUME toBoard \in Seq(Requests), toBoard # << >>, toBoard' = Tail(toBoard),
         NEW i \in 0 .. Len(toBoard) - 1, Batch!NoAbortAfter(i + 1)
  PROVE  Batch!NoAbortAfter(i)'
<1>1. \A j \in i + 1 .. Len(toBoard) - 1 :
        j + 1 \in (i + 1) + 1 .. Len(toBoard) /\ toBoard'[j] = toBoard[j + 1]
  BY SMT
<1>2. Len(toBoard') = Len(toBoard) - 1
  BY SMT
<1> QED
  BY <1>1, <1>2 DEF Batch!NoAbortAfter

-----------------------------------------------------------------------------
LEMMA BatchInvInit == Batch!Init => BatchInv
<1> SUFFICES ASSUME Batch!Init PROVE BatchInv
  OBVIOUS
<1>1. toBoard \in Seq(Requests) /\ toPc \in Seq(Answers)
  BY SMT DEF Batch!Init, Requests, Answers
<1>2. computation = [chunk_id |-> 0, computing |-> FALSE]
  BY DEF Batch!Init
<1>3. ~computation.computing /\ Counts
  <2>1. 0 \in 0 .. CHUNK_IDS - 1
    BY ProgramsAssumption, SMT DEF Batch!Hw10Assumption
  <2>2. keys = 0
    BY DEF Batch!Init
  <2> QED
    BY <1>2, <2>1, <2>2 DEF Counts
<1> QED
  BY <1>1, <1>3 DEF BatchInv

(* The keys of the user: a request is on the line as soon as it is counted,*)
(* and the key that aborts gives up the belief.                            *)
LEMMA KeyStep ==
  ASSUME BatchInv, Batch!EvCompute \/ Batch!EvResetChunk \/ Batch!EvAbort
  PROVE  BatchInv'
<1> USE DEF BatchInv
<1>1. CASE Batch!EvCompute
  <2>1. /\ toBoard' = Append(toBoard, "MSG_COMPUTE") /\ UNCHANGED toPc
        /\ computation' = [chunk_id |-> (computation.chunk_id + 1) % CHUNK_IDS,
                           computing |-> TRUE]
        /\ keys' = keys + 1
    BY <1>1 DEF Batch!EvCompute, Batch!Key
  <2>2. Counts'
    <3>1. CHUNK_IDS \in Nat \ {0}
      BY ProgramsAssumption DEF Batch!Hw10Assumption
    <3>2. computation.chunk_id \in 0 .. CHUNK_IDS - 1
      BY DEF Counts
    <3>3. computation'.chunk_id = IF computation.chunk_id = CHUNK_IDS - 1
                                    THEN 0 ELSE computation.chunk_id + 1
      BY <2>1, <3>2, NeighbourIds
    <3>4. computation'.chunk_id \in 0 .. CHUNK_IDS - 1
      BY <3>1, <3>2, <3>3, SMT
    <3>5. /\ keys' \in Nat /\ computation'.chunk_id <= keys'
          /\ computation'.chunk_id = 0 => keys' >= CHUNK_IDS
      BY <2>1, <3>1, <3>2, <3>3, SMT DEF Counts
    <3>6. computation' \in [chunk_id : 0 .. CHUNK_IDS - 1, computing : BOOLEAN]
      BY <2>1, <3>4
    <3> QED
      BY <3>5, <3>6 DEF Counts
  <2>3. toBoard' \in Seq(Requests) /\ RequestComes'
    BY <2>1, RequestFacts DEF Requests
  <2> QED
    BY <2>1, <2>2, <2>3
<1>2. CASE Batch!EvResetChunk
  <2>1. UNCHANGED <<Batch!board, toBoard, toPc>> /\ keys' = keys + 1
    BY <1>2 DEF Batch!EvResetChunk, Batch!Key
  <2>2. CASE computation.computing
    <3>1. UNCHANGED computation
      BY <1>2, <2>2 DEF Batch!EvResetChunk
    <3> QED
      <4>1. Counts'
        <5>1. keys' \in Nat /\ keys <= keys'
          BY <2>1 DEF Counts
        <5>2. CHUNK_IDS \in Nat
          BY ProgramsAssumption DEF Batch!Hw10Assumption
        <5> QED
          BY <3>1, <5>1, <5>2, SMT DEF Counts
      <4> QED
        BY <2>1, <3>1, <4>1 DEF EndComes, Computes, RequestComes, Batch!NoAbortAfter, Batch!board
  <2>3. CASE ~computation.computing
    <3>1. computation' = [computation EXCEPT !.chunk_id = 0]
      BY <1>2, <2>3 DEF Batch!EvResetChunk
    <3>2. 0 \in 0 .. CHUNK_IDS - 1
      BY ProgramsAssumption, SMT DEF Batch!Hw10Assumption
    <3>3. keys' \in Nat /\ 0 <= keys'
      BY <2>1, SMT DEF Counts
    <3>4. computation' = [chunk_id |-> 0, computing |-> FALSE]
      BY <2>3, <3>1 DEF Counts
    <3>5. ~computation'.computing /\ Counts'
      BY <3>2, <3>3, <3>4 DEF Counts
    <3> QED
      BY <2>1, <3>5
  <2> QED
    BY <2>2, <2>3
<1>3. CASE Batch!EvAbort
  <2>1. /\ toBoard' = Append(toBoard, "MSG_ABORT") /\ UNCHANGED toPc
        /\ computation.computing
        /\ computation' = Batch!GivenBack /\ keys' = keys + 1
    BY <1>3 DEF Batch!EvAbort, Batch!Key
  <2>2. Counts' /\ ~computation'.computing
    <3>1. keys' \in Nat /\ keys <= keys'
      BY <2>1 DEF Counts
    <3> QED
      BY <2>1, <3>1, GivenBackCounts
  <2>3. toBoard' \in Seq(Requests)
    BY <2>1, RequestFacts DEF Requests
  <2> QED
    BY <2>1, <2>2, <2>3
<1> QED
  BY <1>1, <1>2, <1>3

(* The PC takes a message: an end ends the belief, and what is no end is   *)
(* not the reason for it.                                                  *)
LEMMA MessageStep ==
  ASSUME BatchInv, Batch!HandleMessage
  PROVE  BatchInv'
<1> USE DEF BatchInv
<1>1. /\ toPc # << >> /\ toPc' = Tail(toPc)
      /\ computation' = Batch!AfterMessage(Head(toPc))
      /\ UNCHANGED <<Batch!board, toBoard, keys>>
  BY DEF Batch!HandleMessage, Batch!counts
<1>2. /\ toPc' \in Seq(Answers)
      /\ Head(toPc) \in Answers
      /\ Head(toPc) = toPc[1]
      /\ \A i \in DOMAIN toPc \ {1} : i - 1 \in DOMAIN toPc' /\ toPc'[i - 1] = toPc[i]
  BY <1>1, SMT
<1>3. CASE Head(toPc) \in Ends
  <2>1. CASE Head(toPc) = "MSG_ABORT" /\ computation.computing
    <3>1. computation' = Batch!GivenBack
      BY <1>1, <2>1 DEF Batch!AfterMessage
    <3>2. Counts' /\ ~computation'.computing
      BY <1>1, <2>1, <3>1, GivenBackCounts DEF Counts
    <3> QED
      BY <1>1, <1>2, <3>2
  <2>2. CASE ~(Head(toPc) = "MSG_ABORT" /\ computation.computing)
    <3>1. CASE Head(toPc) = "MSG_STARTUP"
      <4>1. /\ 0 \in 0 .. CHUNK_IDS - 1 /\ keys' \in Nat /\ 0 <= keys'
        BY <1>1, ProgramsAssumption, SMT DEF Counts, Batch!Hw10Assumption
      <4>2. computation' = [chunk_id |-> 0, computing |-> FALSE]
        BY <1>1, <3>1 DEF Batch!AfterMessage
      <4>3. Counts' /\ ~computation'.computing
        BY <4>1, <4>2 DEF Counts
      <4> QED
        BY <1>1, <1>2, <4>3
    <3>2. CASE Head(toPc) = "MSG_DONE"
      <4>1. computation' = [computation EXCEPT !.computing = FALSE]
        BY <1>1, <3>2 DEF Batch!AfterMessage
      <4>2. Counts' /\ ~computation'.computing
        BY <1>1, <4>1 DEF Counts
      <4> QED
        BY <1>1, <1>2, <4>2
    <3>3. CASE Head(toPc) = "MSG_ABORT"
      <4>1. UNCHANGED computation /\ ~computation.computing
        BY <1>1, <2>2, <3>3 DEF Batch!AfterMessage
      <4> QED
        BY <1>1, <1>2, <4>1 DEF Counts
    <3> QED
      BY <1>3, <3>1, <3>2, <3>3 DEF Ends
  <2> QED
    BY <2>1, <2>2
<1>4. CASE Head(toPc) \notin Ends
  <2>1. UNCHANGED computation
    BY <1>1, <1>4 DEF Batch!AfterMessage, Ends
  <2>2. EndComes => EndComes'
    BY <1>2, <1>4 DEF EndComes
  <2> QED
    BY <1>1, <1>2, <2>1, <2>2 DEF Counts, Computes, RequestComes, Batch!NoAbortAfter, Batch!board
<1> QED
  BY <1>3, <1>4

(* The board takes a request: from then on it computes, if no abort is     *)
(* behind it; an abort was no reason.                                      *)
LEMMA ReceiveStep ==
  ASSUME BatchInv, Batch!Receive
  PROVE  BatchInv'
<1> USE DEF BatchInv
<1>1. /\ toBoard # << >> /\ toBoard' = Tail(toBoard)
      /\ toPc' = Append(toPc, "MSG_OK")
      /\ UNCHANGED <<computation, keys>>
      /\ Head(toBoard) = "MSG_COMPUTE" => computing'
  BY DEF Batch!Receive, Batch!Send, Batch!counts
<1>2. /\ toBoard' \in Seq(Requests)
      /\ Head(toBoard) = toBoard[1] /\ toBoard[1] \in Requests
      /\ Len(toBoard) \in Nat \ {0}
      /\ \A i \in DOMAIN toBoard \ {1} :
           /\ i - 1 \in DOMAIN toBoard' /\ toBoard'[i - 1] = toBoard[i]
           /\ i - 1 \in 0 .. Len(toBoard) - 1 /\ (i - 1) + 1 = i
      /\ 0 \in 0 .. Len(toBoard) - 1 /\ 0 + 1 = 1
  BY <1>1, SMT
<1>3. toPc' \in Seq(Answers) /\ (EndComes => EndComes')
  BY <1>1, SendFacts DEF Answers
<1>4. Computes => Computes'
  <2> SUFFICES ASSUME Computes PROVE Computes'
    OBVIOUS
  <2>1. \A j \in 1 .. Len(toBoard) : toBoard[j] # "MSG_ABORT"
    BY SMT DEF Computes, Batch!NoAbortAfter
  <2>2. toBoard[1] = "MSG_COMPUTE"
    BY <1>2, <2>1, SMT DEF Requests
  <2>3. Batch!NoAbortAfter(0 + 1)
    BY <2>1, SMT DEF Batch!NoAbortAfter
  <2>4. Batch!NoAbortAfter(0)'
    BY <1>1, <1>2, <2>3, NoAbortBehind
  <2> QED
    BY <1>1, <1>2, <2>2, <2>4 DEF Computes
<1>5. RequestComes => Computes' \/ RequestComes'
  <2> SUFFICES ASSUME NEW i \in DOMAIN toBoard,
                      toBoard[i] = "MSG_COMPUTE", Batch!NoAbortAfter(i)
               PROVE  Computes' \/ RequestComes'
    BY DEF RequestComes
  <2>1. CASE i = 1
    <3>1. Batch!NoAbortAfter(0)'
      BY <1>1, <1>2, <2>1, NoAbortBehind
    <3> QED
      BY <1>1, <1>2, <2>1, <3>1 DEF Computes
  <2>2. CASE i # 1
    <3>1. Batch!NoAbortAfter(i - 1)'
      BY <1>1, <1>2, <2>2, NoAbortBehind
    <3> QED
      BY <1>2, <2>2, <3>1 DEF RequestComes
  <2> QED
    BY <2>1, <2>2
<1> QED
  BY <1>1, <1>2, <1>3, <1>4, <1>5 DEF Counts

(* The board works, is aborted by its button or restarted: whenever it     *)
(* stops it has sent the end, whatever was lost.                           *)
LEMMA BoardStep ==
  ASSUME BatchInv, Batch!Button \/ Batch!HandleAbort \/ Batch!Work \/ Batch!Reset
  PROVE  BatchInv'
<1> USE DEF BatchInv
<1>1. UNCHANGED <<computation, keys>>
  BY DEF Batch!Button, Batch!HandleAbort, Batch!Work, Batch!Reset, Batch!counts
<1>2. Counts'
  BY <1>1 DEF Counts
<1>3. ASSUME UNCHANGED toBoard, NEW type \in Answers, toPc' = Append(toPc, type),
             type \in Ends \/ UNCHANGED computing
      PROVE  BatchInv'
  BY <1>1, <1>2, <1>3, SendFacts DEF Computes, RequestComes, Batch!NoAbortAfter
<1>4. ASSUME UNCHANGED <<computing, toBoard, toPc>>
      PROVE  BatchInv'
  BY <1>1, <1>2, <1>4 DEF EndComes, Computes, RequestComes, Batch!NoAbortAfter
<1>5. CASE Batch!Button
  BY <1>5, <1>4 DEF Batch!Button
<1>6. CASE Batch!HandleAbort
  BY <1>6, <1>3, <1>4 DEF Batch!HandleAbort, Batch!Send, Answers, Ends
<1>7. CASE Batch!Work
  BY <1>7, <1>3 DEF Batch!Work, Batch!Send, Answers, Ends
<1>8. CASE Batch!Reset
  <2>1. PICK k \in 0 .. Len(toBoard) : toBoard' = SubSeq(toBoard, k + 1, Len(toBoard))
    BY <1>8 DEF Batch!Reset
  <2>2. PICK j \in 0 .. Len(toPc) : toPc' = Append(SubSeq(toPc, 1, j), "MSG_STARTUP")
    BY <1>8 DEF Batch!Reset
  <2>3. toBoard' \in Seq(Requests)
    BY <2>1, SMT
  <2>4. /\ toPc' \in Seq(Answers)
        /\ Len(toPc') \in DOMAIN toPc' /\ toPc'[Len(toPc')] = "MSG_STARTUP"
    BY <2>2, SMT DEF Answers
  <2>5. EndComes'
    BY <2>4 DEF EndComes, Ends
  <2> QED
    BY <1>2, <2>3, <2>4, <2>5
<1> QED
  BY <1>5, <1>6, <1>7, <1>8

LEMMA BatchInvStep == BatchInv /\ [Batch!Next]_Batch!vars => BatchInv'
<1> SUFFICES ASSUME BatchInv, [Batch!Next]_Batch!vars PROVE BatchInv'
  OBVIOUS
<1>1. CASE UNCHANGED Batch!vars
  BY <1>1 DEF Batch!vars, Batch!board, Batch!counts, BatchInv, Counts, EndComes, Computes, RequestComes, Batch!NoAbortAfter
<1> QED
  BY <1>1, KeyStep, MessageStep, ReceiveStep, BoardStep DEF Batch!Next

(* However keys, button, answers and restarts cross each other, a PC that  *)
(* believes the board computes has the end of that belief ahead of it; and  *)
(* its number is 0 only if the numbers have begun again.                   *)
THEOREM BeliefDoesEnd == Batch!Spec => []BeliefEnds
<1>1. Batch!Init => BatchInv
  BY BatchInvInit
<1>2. BatchInv /\ [Batch!Next]_Batch!vars => BatchInv'
  BY BatchInvStep
<1>3. BatchInv => BeliefEnds
  BY DEF BatchInv, Counts, BeliefEnds, Batch!BeliefEnds, EndComes, Ends, Computes, RequestComes
<1> QED
  BY <1>1, <1>2, <1>3, PTL DEF Batch!Spec

-----------------------------------------------------------------------------
(* The timer                                                               *)

(* A press that is down, or that the timer has looked at, is not counted   *)
(* yet: the period leaves room for it.                                     *)
TimerInv ==
  /\ bcounter \in Nat /\ timerPresses \in Nat
  /\ periodcounter \in 0 .. NumPeriods - 1
  /\ periodcounter <= timerPresses
  /\ down \/ bcounter # 0 => periodcounter + 1 <= timerPresses

LEMMA TimerInvInit == Timer!Init => TimerInv
  BY ProgramsAssumption, SMT DEF Timer!Init, Timer!ButtonAssumption, TimerInv

(* The user presses the button, which is a press more, or lets go of it.   *)
LEMMA ButtonStep ==
  ASSUME TimerInv, Timer!Button
  PROVE  TimerInv'
<1> USE DEF TimerInv
<1>1. UNCHANGED <<bcounter, periodcounter>>
  BY DEF Timer!Button
<1>2. CASE down
  <2>1. timerPresses' = timerPresses
    BY <1>2 DEF Timer!Button
  <2> QED
    BY <1>1, <1>2, <2>1
<1>3. CASE ~down
  <2>1. timerPresses' = timerPresses + 1
    BY <1>3 DEF Timer!Button
  <2> QED
    BY <1>1, <2>1, SMT
<1> QED
  BY <1>2, <1>3

(* A look of the timer: the press that ends is the one there was room for. *)
LEMMA LookStep ==
  ASSUME TimerInv, Timer!timer50ms
  PROVE  TimerInv'
<1> USE DEF TimerInv
<1>0. NumPeriods \in Nat \ {0}
  BY ProgramsAssumption DEF Timer!ButtonAssumption
<1>1. UNCHANGED down
  BY DEF Timer!timer50ms
<1>2. CASE down /\ bcounter' = bcounter + 1 /\ UNCHANGED <<periodcounter, timerPresses>>
  <2>1. bcounter + 1 \in Nat
    BY SMT
  <2> QED
    BY <1>2, <2>1
<1>3. CASE /\ ~down /\ bcounter # 0
           /\ periodcounter' = IF periodcounter + 1 >= NumPeriods THEN NumPeriods - 1
                                                                  ELSE periodcounter + 1
           /\ bcounter' = 0 /\ UNCHANGED timerPresses
  <2>1. /\ periodcounter' \in 0 .. NumPeriods - 1
        /\ periodcounter' <= timerPresses
    BY <1>0, <1>3, SMT
  <2> QED
    BY <1>1, <1>3, <2>1
<1>4. CASE ~down /\ periodcounter' = 0 /\ bcounter' = 0 /\ timerPresses' = 0
  <2>1. 0 \in 0 .. NumPeriods - 1 /\ 0 \in Nat /\ 0 <= 0
    BY <1>0, SMT
  <2> QED
    BY <1>1, <1>4, <2>1
<1>5. CASE UNCHANGED <<bcounter, periodcounter, timerPresses>>
  BY <1>1, <1>5
<1> QED
  BY <1>2, <1>3, <1>4, <1>5 DEF Timer!timer50ms, Timer!Released

LEMMA TimerInvStep == TimerInv /\ [Timer!Next]_(Timer!vars) => TimerInv'
<1> SUFFICES ASSUME TimerInv, [Timer!Next]_(Timer!vars) PROVE TimerInv'
  OBVIOUS
<1>1. CASE UNCHANGED Timer!vars
  BY <1>1 DEF Timer!vars, TimerInv
<1> QED
  BY <1>1, ButtonStep, LookStep DEF Timer!Next

(* However long the button is pressed and whenever the timer looks, there  *)
(* were as many presses as the period has become shorter, and the period   *)
(* is one of the table.                                                    *)
THEOREM PressIsCountedOnce == Timer!Spec => []PressCountsOnce
<1>1. Timer!Init => TimerInv
  BY TimerInvInit
<1>2. TimerInv /\ [Timer!Next]_(Timer!vars) => TimerInv'
  BY TimerInvStep
<1>3. TimerInv => PressCountsOnce
  BY DEF TimerInv, PressCountsOnce, Timer!PressCountsOnce
<1> QED
  BY <1>1, <1>2, <1>3, PTL DEF Timer!Spec

-----------------------------------------------------------------------------
(* The chunks                                                              *)

(* computeChunkSize finds a edge that is a positive byte.                  *)
LEMMA ChunkSizeType ==
  ASSUME NEW w \in Nat, NEW h \in Nat
  PROVE  computeChunkSize(w, h) \in 1 .. BYTE - 1
<1> DEFINE Fits == {i \in Candidates : i * i * (BYTE - 1) >= w * h}
<1>1. Candidates \subseteq 1 .. BYTE - 1
  BY GridAssumption DEF Candidates
<1>2. CASE Fits = {}
  BY <1>2, GridAssumption DEF computeChunkSize
<1>3. CASE Fits # {}
  <2>0. Fits \subseteq Candidates /\ 1 .. BYTE - 1 \subseteq Nat
    BY GridAssumption
  <2>1. Fits \subseteq Nat
    BY <1>1, <2>0
  <2>2. \E i \in Fits : \A j \in Fits : i <= j
    BY <2>1, <1>3, SmallestCandidate
  <2>3. (CHOOSE i \in Fits : \A j \in Fits : i <= j) \in Fits
    BY <2>2
  <2> QED
    BY <2>3, <1>3, <1>1 DEF computeChunkSize
<1> QED
  BY <1>2, <1>3

(* Ceiling is the number of pieces of b that a takes.                      *)
LEMMA CeilingFacts ==
  ASSUME NEW a \in Nat \ {0}, NEW b \in Nat \ {0}
  PROVE  /\ Ceiling(a, b) \in Nat \ {0}
         /\ (Ceiling(a, b) - 1) * b < a
         /\ a <= Ceiling(a, b) * b
<1> DEFINE c == Ceiling(a, b)
<1>1. c = IF a % b = 0 THEN a \div b ELSE a \div b + 1
  BY Zenon DEF Ceiling
<1> HIDE DEF c
<1>2. c \in Nat \ {0} /\ (c - 1) * b < a /\ a <= c * b
  BY <1>1, RoundedUp, Zenon
<1> QED
  BY <1>2, Zenon DEF c

(* No other number is.                                                     *)
LEMMA CeilingIsUnique ==
  ASSUME NEW a \in Nat \ {0}, NEW b \in Nat \ {0}, NEW n \in Nat \ {0},
         (n - 1) * b < a, a <= n * b
  PROVE  n = Ceiling(a, b)
<1> DEFINE c == Ceiling(a, b)
<1>1. c \in Nat \ {0} /\ (c - 1) * b < a /\ a <= c * b
  BY CeilingFacts
<1> HIDE DEF c
<1>2. CASE n < c
  <2>1. n * b <= (c - 1) * b
    BY <1>1, <1>2, SMT
  <2> QED
    BY <1>1, <2>1, SMT
<1>3. CASE n > c
  <2>1. c * b <= (n - 1) * b
    BY <1>1, <1>3, SMT
  <2> QED
    BY <1>1, <2>1, SMT
<1> QED
  BY <1>1, <1>2, <1>3, SMT DEF c

(* The usual way to round up.                                              *)
LEMMA CeilingRounds ==
  ASSUME NEW a \in Nat \ {0}, NEW b \in Nat \ {0}
  PROVE  (a + b - 1) \div b = Ceiling(a, b)
<1> DEFINE n == (a + b - 1) \div b
<1> DEFINE r == (a + b - 1) % b
<1>0. a + b - 1 \in Nat
  BY SMT
<1>1. n \in Nat /\ r \in 0 .. b - 1 /\ a + b - 1 = n * b + r
  BY <1>0, Division
<1> HIDE DEF n, r
<1>2. n # 0
  BY <1>1, SMT
<1>3. (n - 1) * b = n * b - b
  BY <1>1, SMT
<1>4. n * b \in Int
  BY <1>1, SMT
<1>5. (n - 1) * b < a /\ a <= n * b
  BY <1>1, <1>3, <1>4, SMT
<1> QED
  BY <1>1, <1>2, <1>5, CeilingIsUnique DEF n

(* Small numbers are bytes, and a byte is a small number.                  *)
LEMMA ByteFacts ==
  ASSUME NEW a \in Nat
  PROVE  /\ a % BYTE \in 0 .. BYTE - 1
         /\ a < BYTE => a % BYTE = a
  BY GridAssumption, SMT

(* The chunk at the end of a row of all rows, counted from 0.              *)
LEMMA LastOfRow ==
  ASSUME NEW row \in Nat \ {0}
  PROVE  (row - 1) % row = row - 1
<1>1. row - 1 \in 0 .. row - 1 /\ 0 * row + (row - 1) = row - 1
  BY SMT
<1> QED
  BY <1>1, DivisionIsUnique

(* edge is chosen, and although the bytes may wrap.                        *)
THEOREM GridIsCovered ==
  ASSUME NEW w \in Nat \ {0}, NEW h \in Nat \ {0}
  PROVE  GridCovers(w, h)
<1> DEFINE edge == computeChunkSize(w, h)
<1> DEFINE row == chunksinrow(w, edge)
<1> DEFINE nbr == nbr_chunks(w, h, edge)
<1> DEFINE c == Ceiling(w, edge)
<1> DEFINE l == Ceiling(h, edge)
<1> DEFINE Covered ==
      /\ row > 0 /\ nbr > 0
      /\ ChunkX(row - 1, row, edge) < w /\ w <= ChunkX(row - 1, row, edge) + edge
      /\ ChunkX(nbr - 1, row, edge) = ChunkX(row - 1, row, edge)
      /\ ChunkY(nbr - 1, row, edge) < h /\ h <= ChunkY(nbr - 1, row, edge) + edge
<1>1. edge \in Nat \ {0}
  <2>1. edge \in 1 .. BYTE - 1
    BY ChunkSizeType
  <2> QED
    BY <2>1, GridAssumption, SMT
<1>2. row = c % BYTE /\ nbr = (l * row) % BYTE
  BY DEF chunksinrow, nbr_chunks
<1>3. /\ c \in Nat \ {0} /\ (c - 1) * edge < w /\ w <= c * edge
      /\ l \in Nat \ {0} /\ (l - 1) * edge < h /\ h <= l * edge
  BY <1>1, CeilingFacts
<1>4. (w + edge - 1) \div edge = c /\ (h + edge - 1) \div edge = l
  BY <1>1, CeilingRounds
<1>5. ASSUME NEW n \in Nat \ {0}
      PROVE  (n - 1) * edge + edge = n * edge
  BY <1>1, <1>5, SMT
<1> HIDE DEF edge, c, l
<1>6. row \in 0 .. BYTE - 1 /\ nbr \in 0 .. BYTE - 1
  <2>1. c % BYTE \in 0 .. BYTE - 1
    BY <1>3, ByteFacts
  <2>2. l * row \in Nat
    BY <1>2, <1>3, <2>1, SMT
  <2>3. (l * row) % BYTE \in 0 .. BYTE - 1
    BY <2>2, ByteFacts
  <2> QED
    BY <1>2, <2>1, <2>3
<1> HIDE DEF row, nbr
<1>7. ASSUME row > 0
      PROVE  ChunkX(row - 1, row, edge) = (row - 1) * edge
  <2>1. row \in Nat \ {0}
    BY <1>6, <1>7, SMT
  <2> QED
    BY <2>1, LastOfRow DEF ChunkX
<1>8. ASSUME c * l < BYTE
      PROVE  Covered
  <2>1. c < BYTE /\ l * c = c * l /\ l * c \in Nat \ {0}
    <3>1. c * 1 <= c * l
      BY <1>3, SMT
    <3>2. c * l \in Nat \ {0} /\ l * c = c * l
      BY <1>3, SMT
    <3> QED
      BY <1>3, <1>8, <3>1, <3>2, GridAssumption, SMT
  <2>2. row = c
    BY <1>2, <1>3, <2>1, ByteFacts
  <2>3. nbr = l * c
    BY <1>2, <1>8, <2>1, <2>2, ByteFacts
  <2>4. l * c - 1 = (l - 1) * c + (c - 1)
    BY <1>3, SMT
  <2>5. (l * c - 1) % c = c - 1 /\ (l * c - 1) \div c = l - 1
    <3>1. l - 1 \in Nat /\ c - 1 \in 0 .. c - 1
      BY <1>3, SMT
    <3> QED
      BY <1>3, <2>4, <3>1, DivisionIsUnique
  <2>6. /\ ChunkX(nbr - 1, row, edge) = (c - 1) * edge
        /\ ChunkY(nbr - 1, row, edge) = (l - 1) * edge
    BY <2>2, <2>3, <2>5 DEF ChunkX, ChunkY
  <2>7. ChunkX(row - 1, row, edge) = (c - 1) * edge
    BY <1>3, <1>7, <2>2, SMT
  <2>8. (c - 1) * edge + edge = c * edge /\ (l - 1) * edge + edge = l * edge
    BY <1>3, <1>5
  <2>9. row > 0 /\ nbr > 0
    BY <1>3, <2>1, <2>2, <2>3, SMT
  <2> QED
    BY <1>3, <2>6, <2>7, <2>8, <2>9
<1>9. ASSUME Covered
      PROVE  c * l < BYTE
  <2> DEFINE q == (nbr - 1) \div row
  <2> DEFINE r == (nbr - 1) % row
  <2>1. row \in Nat \ {0} /\ nbr \in Nat \ {0} /\ nbr - 1 \in Nat
    BY <1>6, <1>9, SMT
  <2>2. (row - 1) * edge < w /\ w <= row * edge
    BY <1>5, <1>7, <1>9, <2>1
  <2>3. row = c
    BY <1>1, <2>1, <2>2, CeilingIsUnique DEF c
  <2>4. q \in Nat /\ r \in 0 .. row - 1 /\ nbr - 1 = q * row + r
    BY <2>1, Division
  <2>5. r * edge = (row - 1) * edge /\ q * edge < h /\ h <= q * edge + edge
    BY <1>7, <1>9 DEF ChunkX, ChunkY
  <2> HIDE DEF q, r
  <2>6. r = row - 1
    <3>1. CASE r < row - 1
      <4>1. (r + 1) * edge <= (row - 1) * edge /\ (r + 1) * edge = r * edge + edge
        BY <1>1, <2>1, <2>4, <3>1, SMT
      <4>2. r * edge \in Int
        BY <1>1, <2>4, SMT
      <4> QED
        BY <1>1, <2>5, <4>1, <4>2, SMT
    <3> QED
      BY <2>1, <2>4, <3>1, SMT
  <2>7. q + 1 = l
    <3>1. q + 1 \in Nat \ {0} /\ (q + 1) - 1 = q /\ (q + 1) * edge = q * edge + edge
      BY <1>1, <2>4, SMT
    <3> QED
      BY <1>1, <2>5, <3>1, CeilingIsUnique DEF l
  <2>8. nbr = (q + 1) * row
    <3>1. (q + 1) * row = q * row + row /\ q * row \in Int
      BY <2>1, <2>4, SMT
    <3> QED
      BY <2>1, <2>4, <2>6, <3>1, SMT
  <2>9. nbr = c * l
    BY <1>3, <2>3, <2>7, <2>8, SMT
  <2> QED
    BY <1>6, <2>9, GridAssumption, SMT
<1>10. Covered <=> c * l < BYTE
  BY <1>8, <1>9
<1> QED
  BY <1>4, <1>10 DEF GridCovers, edge, row, nbr

(* The problem of a grid is an image with a width and a height: the chunks *)
(* cover every one of them, if and only if their number is a byte.         *)
THEOREM ChunksDoCover == problem \in (Nat \ {0}) \X (Nat \ {0}) => ChunksCover
<1> SUFFICES ASSUME problem \in (Nat \ {0}) \X (Nat \ {0})
             PROVE  GridCovers(problem[1], problem[2])
  BY DEF ChunksCover
<1>1. problem[1] \in Nat \ {0} /\ problem[2] \in Nat \ {0}
  OBVIOUS
<1> QED
  BY <1>1, GridIsCovered

-----------------------------------------------------------------------------
(* The linked queue                                                        *)

(* A chain of l nodes that starts at n: each node is allocated and points  *)
(* to the next.                                                            *)
ChainOf(h, n, l, c) ==
  /\ c \in [1 .. l -> DOMAIN h]
  /\ n = IF l = 0 THEN NULL ELSE c[1]
  /\ \A i \in 1 .. l : h[c[i]].next = IF i = l THEN NULL ELSE c[i + 1]

(* A chain is what one meets from its start.                               *)
Walk(h, n, f) ==
  f = [k \in Nat |-> IF k <= 1 THEN n ELSE Linked!Following(h, f[k - 1])]

(* A chain, and NULL behind it, is such a walk.                            *)
LEMMA WalkExists ==
  ASSUME NEW h, NULL \notin DOMAIN h, NEW n, NEW l \in Nat, NEW c, ChainOf(h, n, l, c)
  PROVE  Walk(h, n, [k \in Nat |-> IF k = 0 THEN n ELSE IF k <= l THEN c[k] ELSE NULL])
<1> DEFINE g == [k \in Nat |-> IF k = 0 THEN n ELSE IF k <= l THEN c[k] ELSE NULL]
           w == [k \in Nat |-> IF k <= 1 THEN n ELSE Linked!Following(h, g[k - 1])]
<1>1. ASSUME NEW k \in Nat
      PROVE  g[k] = w[k]
  <2>1. CASE k <= 1
    <3>1. k = 0 \/ k = 1
      BY <2>1
    <3>2. w[k] = n
      BY <2>1
    <3>3. k = 1 => g[k] = n
      BY SMT DEF ChainOf
    <3> QED
      BY <3>1, <3>2, <3>3
  <2>2. CASE ~(k <= 1)
    <3>1. k - 1 \in Nat /\ k - 1 # 0 /\ k # 0 /\ (k <= l => k - 1 \in 1 .. l /\ k - 1 # l)
          /\ (k - 1 <= l => k - 1 \in 1 .. l) /\ (k - 1) + 1 = k
          /\ (~(k <= l) /\ k - 1 <= l => k - 1 = l)
          /\ (k <= l => k - 1 <= l)
      BY <2>2, SMT
    <3>2. w[k] = Linked!Following(h, g[k - 1])
      BY <2>2
    <3>3. g[k - 1] = IF k - 1 <= l THEN c[k - 1] ELSE NULL
      BY <3>1
    <3>4. g[k] = IF k <= l THEN c[k] ELSE NULL
      BY <3>1
    <3>5. k - 1 <= l => c[k - 1] # NULL
                        /\ h[c[k - 1]].next = IF k - 1 = l THEN NULL ELSE c[k]
      BY <3>1 DEF ChainOf
    <3> HIDE DEF g, w
    <3>6. CASE k <= l
      <4>1. h[c[k - 1]].next = c[k]
        BY <3>1, <3>5, <3>6
      <4>2. g[k - 1] = c[k - 1] /\ c[k - 1] # NULL
        BY <3>1, <3>3, <3>5, <3>6
      <4> QED
        BY <3>2, <3>4, <3>6, <4>1, <4>2, Zenon DEF Linked!Following
    <3>7. CASE ~(k <= l) /\ k - 1 <= l
      <4>1. h[c[k - 1]].next = NULL
        BY <3>1, <3>5, <3>7
      <4>2. g[k - 1] = c[k - 1] /\ c[k - 1] # NULL
        BY <3>3, <3>5, <3>7
      <4> QED
        BY <3>2, <3>4, <3>7, <4>1, <4>2, Zenon DEF Linked!Following
    <3>8. CASE ~(k - 1 <= l)
      BY <3>1, <3>2, <3>3, <3>4, <3>8, Zenon DEF Linked!Following
    <3> QED
      BY <3>6, <3>7, <3>8
  <2> QED
    BY <2>1, <2>2
<1>2. g = [k \in Nat |-> g[k]] /\ w = [k \in Nat |-> w[k]]
  OBVIOUS
<1>3. g = w
  <2> HIDE DEF g, w
  <2> QED
    BY <1>1, <1>2, Zenon
<1> QED
  BY <1>3, Zenon DEF Walk

(* What is met at a place of a walk.                                       *)
LEMMA WalkAt ==
  ASSUME NEW h, NEW n, NEW f, Walk(h, n, f), NEW k \in Nat
  PROVE  f[k] = IF k <= 1 THEN n ELSE Linked!Following(h, f[k - 1])
<1> DEFINE g == [i \in Nat |-> IF i <= 1 THEN n ELSE Linked!Following(h, f[i - 1])]
<1>1. f = g
  BY Zenon DEF Walk
<1>2. g[k] = IF k <= 1 THEN n ELSE Linked!Following(h, f[k - 1])
  BY Zenon
<1> HIDE DEF g
<1> QED
  BY <1>1, <1>2, Zenon

(* There is one walk from a node.                                          *)
LEMMA WalkUnique ==
  ASSUME NEW h, NEW n, NEW f, NEW g, Walk(h, n, f), Walk(h, n, g), NEW m \in Nat
  PROVE  \A k \in 0 .. m : f[k] = g[k]
<1> DEFINE P == {k \in 0 .. m : f[k] = g[k]}
<1>1. 0 \in P
  <2>1. 0 \in 0 .. m /\ 0 \in Nat /\ 0 <= 1
    OBVIOUS
  <2>2. f[0] = n
    BY <2>1, WalkAt
  <2>3. g[0] = n
    BY <2>1, WalkAt
  <2> QED
    BY <2>1, <2>2, <2>3
<1>2. ASSUME NEW k \in 1 .. m, k - 1 \in P
      PROVE  k \in P
  <2>1. k \in 0 .. m /\ k \in Nat
    OBVIOUS
  <2>2. f[k - 1] = g[k - 1]
    BY <1>2
  <2>3. f[k] = IF k <= 1 THEN n ELSE Linked!Following(h, f[k - 1])
    BY <2>1, WalkAt, Zenon
  <2>4. g[k] = IF k <= 1 THEN n ELSE Linked!Following(h, g[k - 1])
    BY <2>1, WalkAt, Zenon
  <2> QED
    BY <2>1, <2>2, <2>3, <2>4, Zenon
<1>3. \A k \in 0 .. m : k \in P
  <2> HIDE DEF P
  <2> QED
    BY <1>1, <1>2, Induction, Zenon
<1> QED
  BY <1>3

(* What one meets from the start of a chain is the chain, if the heap has  *)
(* at least as many nodes.                                                 *)
LEMMA ChainIsMet ==
  ASSUME NEW h, NULL \notin DOMAIN h, NEW m \in Nat, Cardinality(DOMAIN h) = m,
         NEW n, NEW l \in Nat, l <= m, NEW c, ChainOf(h, n, l, c)
  PROVE  Linked!From(h, n) = c
<1> DEFINE f == CHOOSE x : Walk(h, n, x)
           g == [k \in Nat |-> IF k = 0 THEN n ELSE IF k <= l THEN c[k] ELSE NULL]
           D == {i \in 1 .. m : f[i] # NULL}
           d == [k \in D |-> f[k]]
<1>1. Walk(h, n, g)
  BY WalkExists
<1>2. Walk(h, n, f)
  BY <1>1, Zenon
<1>3. Linked!From(h, n) = d
  <2> HIDE DEF g
  <2>1. Linked!From(h, n) = [k \in {i \in 1 .. Cardinality(DOMAIN h) : f[i] # NULL} |-> f[k]]
    <3> HIDE DEF D, d
    <3> QED BY Zenon DEF Linked!From, Walk, Linked!Cardinality, Cardinality
  <2> QED
    BY <2>1
<1>4. ASSUME NEW k \in 1 .. m
      PROVE  f[k] = IF k <= l THEN c[k] ELSE NULL
  <2>1. \A i \in 0 .. m : f[i] = g[i]
    <3> HIDE DEF f, g
    <3> QED
      BY <1>1, <1>2, WalkUnique
  <2>2. k \in 0 .. m /\ k # 0 /\ k \in Nat
    OBVIOUS
  <2>3. g[k] = IF k <= l THEN c[k] ELSE NULL
    BY <2>2
  <2> HIDE DEF f, g
  <2> QED
    BY <2>1, <2>2, <2>3
<1> HIDE DEF f
<1>5. \A k \in 1 .. l : c[k] # NULL /\ k \in 1 .. m
  BY DEF ChainOf
<1>6. D = 1 .. l
  <2>1. ASSUME NEW i \in 1 .. m
        PROVE  i \in 1 .. l <=> f[i] # NULL
    BY <1>4, <1>5
  <2>2. 1 .. l \subseteq 1 .. m
    OBVIOUS
  <2> QED
    BY <2>1, <2>2, Zenon
<1>7. c = [k \in 1 .. l |-> c[k]]
  BY DEF ChainOf
<1>8. ASSUME NEW k \in 1 .. l
      PROVE  f[k] = c[k]
  BY <1>4, <1>5
<1> HIDE DEF D
<1> QED
  BY <1>3, <1>6, <1>7, <1>8, Zenon

(* What the linked queue keeps: its chain from the head meets every node   *)
(* that is allocated, once, and ends at the tail.                          *)
NodeRecords == [value : Int, next : Nodes \union {NULL}]

Holds(h, f, t, s, l, c) ==
  /\ \A m \in DOMAIN h : m \in Nodes /\ h[m] \in NodeRecords
  /\ ChainOf(h, f, l, c)
  /\ \A i, j \in 1 .. l : c[i] = c[j] => i = j
  /\ \A m \in DOMAIN h : \E i \in 1 .. l : c[i] = m
  /\ s = l
  /\ t = IF l = 0 THEN NULL ELSE c[l]

LinkedInv == \E l \in Nat : \E c : Holds(heap, first, tail, mysize, l, c)

(* What the queue stands for.                                              *)
Values(h, l, c) == [k \in 1 .. l |-> h[c[k]].value]

(* A set that a sequence of l enumerates has l elements.                   *)
LEMMA Enumerated ==
  ASSUME NEW S, NEW l \in Nat, NEW c \in [1 .. l -> S],
         \A i, j \in 1 .. l : c[i] = c[j] => i = j,
         \A m \in S : \E i \in 1 .. l : c[i] = m
  PROVE  IsFiniteSet(S) /\ Cardinality(S) = l
<1>1. IsFiniteSet(1 .. l) /\ Cardinality(1 .. l) = l
  BY FS_Interval, SMT
<1>2. c \in Bijection(1 .. l, S)
  BY DEF Bijection, Injection, Surjection, IsInjective
<1>3. ExistsBijection(1 .. l, S)
  BY <1>2, Zenon DEF ExistsBijection
<1> QED
  BY <1>1, <1>3, FS_Bijection

(* The heap has as many nodes as the chain.                                *)
LEMMA HeapSize ==
  ASSUME NEW h, NEW f, NEW t, NEW s, NEW l \in Nat, NEW c, Holds(h, f, t, s, l, c)
  PROVE  /\ NULL \notin DOMAIN h
         /\ IsFiniteSet(DOMAIN h) /\ Cardinality(DOMAIN h) = l
<1>1. NULL \notin Nodes
  BY ProgramsAssumption DEF Linked!LinkedAssumption
<1>2. c \in [1 .. l -> DOMAIN h]
  BY DEF Holds, ChainOf
<1>3. IsFiniteSet(DOMAIN h) /\ Cardinality(DOMAIN h) = l
  <2> DEFINE S == DOMAIN h
  <2>1. c \in [1 .. l -> S] /\ (\A i, j \in 1 .. l : c[i] = c[j] => i = j)
        /\ (\A m \in S : \E i \in 1 .. l : c[i] = m)
    BY <1>2 DEF Holds
  <2> HIDE DEF S
  <2>2. IsFiniteSet(S) /\ Cardinality(S) = l
    BY <2>1, Enumerated
  <2> QED
    BY <2>2 DEF S
<1> QED
  BY <1>1, <1>3 DEF Holds

(* The chain is what one meets from the head.                              *)
LEMMA HeadIsMet ==
  ASSUME NEW h, NEW f, NEW t, NEW s, NEW l \in Nat, NEW c, Holds(h, f, t, s, l, c)
  PROVE  Linked!From(h, f) = c
<1>1. ChainOf(h, f, l, c) /\ l <= l
  BY DEF Holds
<1> QED
  BY <1>1, HeapSize, ChainIsMet

(* What follows the node at j is what one meets from there.                *)
After(c, l, j) == IF j = l THEN NULL ELSE c[j + 1]

(* What one meets behind the first j nodes is the rest of the chain.       *)
LEMMA RestIsMet ==
  ASSUME NEW h, NEW f, NEW t, NEW s, NEW l \in Nat, NEW c, Holds(h, f, t, s, l, c),
         NEW j \in 0 .. l
  PROVE  Linked!From(h, After(c, l, j)) = [k \in 1 .. l - j |-> c[j + k]]
<1> DEFINE d == [k \in 1 .. l - j |-> c[j + k]]
           n == After(c, l, j)
<1>1. l - j \in Nat /\ l - j <= l /\ (l - j = 0 <=> j = l)
  OBVIOUS
<1>2. c \in [1 .. l -> DOMAIN h]
      /\ \A i \in 1 .. l : h[c[i]].next = IF i = l THEN NULL ELSE c[i + 1]
  BY DEF Holds, ChainOf
<1>3. d \in [1 .. l - j -> DOMAIN h]
  <2>1. \A k \in 1 .. l - j : j + k \in 1 .. l
    OBVIOUS
  <2> QED
    BY <1>2, <2>1
<1>4. n = IF l - j = 0 THEN NULL ELSE d[1]
  <2>1. j # l => 1 \in 1 .. l - j
    BY <1>1
  <2> QED
    BY <1>1, <2>1 DEF After
<1>5. ASSUME NEW i \in 1 .. l - j
      PROVE  h[d[i]].next = IF i = l - j THEN NULL ELSE d[i + 1]
  <2>1. j + i \in 1 .. l /\ (j + i = l <=> i = l - j) /\ (j + i) + 1 = j + (i + 1)
        /\ (i # l - j => i + 1 \in 1 .. l - j)
    OBVIOUS
  <2>2. d[i] = c[j + i] /\ (i # l - j => d[i + 1] = c[j + (i + 1)])
    BY <2>1
  <2>3. h[c[j + i]].next = IF j + i = l THEN NULL ELSE c[(j + i) + 1]
    BY <1>2, <2>1
  <2> HIDE DEF d
  <2> QED
    BY <2>1, <2>2, <2>3, Zenon
<1> HIDE DEF d, n
<1>6. ChainOf(h, n, l - j, d)
  BY <1>3, <1>4, <1>5 DEF ChainOf
<1>7. Linked!From(h, n) = d
  BY <1>1, <1>6, HeapSize, ChainIsMet
<1> QED
  BY <1>7, Zenon DEF d, n

(* The invariant has what WellLinked says.                                 *)
LEMMA HoldsLinked ==
  ASSUME NEW l \in Nat, NEW c, Holds(heap, first, tail, mysize, l, c)
  PROVE  WellLinked
<1>1. Linked!From(heap, first) = c
  BY HeadIsMet
<1>2. Linked!Cardinality(DOMAIN heap) = l
  BY HeapSize, Zenon DEF Linked!Cardinality, Cardinality
<1>3. c \in [1 .. l -> DOMAIN heap] /\ Len(c) = l
  BY DEF Holds, ChainOf
<1>4. Linked!Range(c) = DOMAIN heap
  <2>1. \A m \in DOMAIN heap : \E i \in 1 .. l : c[i] = m
    BY DEF Holds
  <2>2. DOMAIN c = 1 .. l /\ \A i \in 1 .. l : c[i] \in DOMAIN heap
    BY <1>3
  <2> QED
    BY <2>1, <2>2, Zenon DEF Linked!Range
<1>5. c = << >> <=> l = 0
  BY <1>3
<1>6. tail = IF c = << >> THEN NULL ELSE c[Len(c)]
  BY <1>3, <1>5 DEF Holds
<1>7. mysize = Len(c)
  BY <1>3 DEF Holds
<1>8. Linked!WellLinked
  BY <1>1, <1>2, <1>3, <1>4, <1>6, <1>7, Zenon DEF Linked!WellLinked
<1> QED
  BY <1>8 DEF WellLinked

HoldsFacts(h, f, t, s, l, c) ==
  /\ \A m \in DOMAIN h : m \in Nodes /\ h[m] \in NodeRecords
  /\ c \in [1 .. l -> DOMAIN h]
  /\ f = IF l = 0 THEN NULL ELSE c[1]
  /\ \A i \in 1 .. l : h[c[i]].next = IF i = l THEN NULL ELSE c[i + 1]
  /\ \A i, j \in 1 .. l : c[i] = c[j] => i = j
  /\ \A m \in DOMAIN h : \E i \in 1 .. l : c[i] = m
  /\ s = l
  /\ t = IF l = 0 THEN NULL ELSE c[l]

(* The same, with the facts about each place spelled out.                  *)
LEMMA HoldsParts ==
  ASSUME NEW h, NEW f, NEW t, NEW s, NEW l, NEW c
  PROVE  Holds(h, f, t, s, l, c) <=> HoldsFacts(h, f, t, s, l, c)
  BY Zenon DEF Holds, ChainOf, HoldsFacts

(* One node more, behind k of the l that are there.                        *)
WithNode(l, c, k, n) ==
  [i \in 1 .. l + 1 |-> IF i <= k THEN c[i] ELSE IF i = k + 1 THEN n ELSE c[i - 1]]

Added(h, f, t, s, l, c, k, n, v, h1, f1, t1, s1) ==
  /\ DOMAIN h1 = DOMAIN h \union {n}
  /\ h1[n] = [value |-> v, next |-> IF k = l THEN NULL ELSE c[k + 1]]
  /\ \A i \in 1 .. l : h1[c[i]] = [value |-> h[c[i]].value,
                                   next |-> IF i = k THEN n ELSE h[c[i]].next]
  /\ f1 = IF k = 0 THEN n ELSE f
  /\ t1 = IF k = l THEN n ELSE t
  /\ s1 = s + 1

(* A node put in after the first k keeps the queue well linked.            *)
LEMMA AddedHolds ==
  ASSUME NEW h, NEW f, NEW t, NEW s, NEW l \in Nat, NEW c, Holds(h, f, t, s, l, c),
         NEW n \in Nodes, n \notin DOMAIN h, NEW v \in Int, NEW k \in 0 .. l,
         NEW h1, NEW f1, NEW t1, NEW s1, Added(h, f, t, s, l, c, k, n, v, h1, f1, t1, s1)
  PROVE  /\ Holds(h1, f1, t1, s1, l + 1, WithNode(l, c, k, n))
         /\ Values(h1, l + 1, WithNode(l, c, k, n)) = WithNode(l, Values(h, l, c), k, v)
<1> DEFINE c1 == WithNode(l, c, k, n)
<1>1. HoldsFacts(h, f, t, s, l, c)
  BY HoldsParts
<1> USE <1>1 DEF HoldsFacts
<1>2. /\ l + 1 # 0 /\ l + 1 \in 1 .. l + 1 /\ k + 1 \in 1 .. l + 1
      /\ \A i \in 1 .. l : (i <= k => i \in 1 .. l + 1) /\ (~(i <= k) => i + 1 \in 1 .. l + 1)
      /\ \A i \in 1 .. l + 1 : \/ i <= k /\ i \in 1 .. l
                               \/ i = k + 1
                               \/ i > k + 1 /\ i - 1 \in 1 .. l
      /\ \A i \in 1 .. l + 1 : i > k + 1 /\ i # l + 1 => i \in 1 .. l /\ ~(i <= k)
  OBVIOUS
<1>3. /\ \A i \in 1 .. l : i <= k => c1[i] = c[i]
      /\ c1[k + 1] = n
      /\ \A i \in 1 .. l : ~(i <= k) => c1[i + 1] = c[i]
  BY <1>2, SMT DEF WithNode
<1>4. \A i \in 1 .. l : c[i] \in DOMAIN h /\ c[i] # n
  OBVIOUS
<1>5. /\ DOMAIN h1 = DOMAIN h \union {n}
      /\ h1[n].value = v /\ h1[n].next = IF k = l THEN NULL ELSE c[k + 1]
      /\ \A i \in 1 .. l : h1[c[i]].value = h[c[i]].value
      /\ \A i \in 1 .. l : h1[c[i]].next = IF i = k THEN n ELSE h[c[i]].next
  <2>1. DOMAIN h1 = DOMAIN h \union {n}
    BY Zenon DEF Added
  <2>2. h1[n].value = v /\ h1[n].next = IF k = l THEN NULL ELSE c[k + 1]
    <3> DEFINE x == IF k = l THEN NULL ELSE c[k + 1]
    <3>1. h1[n] = [value |-> v, next |-> x]
      BY Zenon DEF Added
    <3> HIDE DEF x
    <3>2. h1[n].value = v /\ h1[n].next = x
      BY <3>1
    <3> QED
      BY <3>2, Zenon DEF x
  <2>3. ASSUME NEW i \in 1 .. l
        PROVE  /\ h1[c[i]].value = h[c[i]].value
               /\ h1[c[i]].next = IF i = k THEN n ELSE h[c[i]].next
    <3> DEFINE x == IF i = k THEN n ELSE h[c[i]].next
               w == h[c[i]].value
    <3>1. h1[c[i]] = [value |-> w, next |-> x]
      BY Zenon DEF Added
    <3> HIDE DEF x, w
    <3>2. h1[c[i]].value = w /\ h1[c[i]].next = x
      BY <3>1
    <3> QED
      BY <3>2, Zenon DEF x, w
  <2> QED
    BY <2>1, <2>2, <2>3, Zenon
<1>6. \A m \in DOMAIN h1 : m \in Nodes /\ h1[m] \in NodeRecords
  <2>1. h1[n] \in NodeRecords
    <3>1. k # l => c[k + 1] \in Nodes
      <4>1. k # l => k + 1 \in 1 .. l
        OBVIOUS
      <4> QED
        BY <1>4, <4>1
    <3>2. (IF k = l THEN NULL ELSE c[k + 1]) \in Nodes \union {NULL}
      BY <3>1
    <3> QED
      BY <3>2 DEF Added, NodeRecords
  <2>2. ASSUME NEW i \in 1 .. l
        PROVE  h1[c[i]] \in NodeRecords
    <3>1. h[c[i]] \in NodeRecords
      BY <1>4
    <3>2. h[c[i]].value \in Int /\ h[c[i]].next \in Nodes \union {NULL}
      BY <3>1 DEF NodeRecords
    <3>3. h1[c[i]] = [value |-> h[c[i]].value, next |-> IF i = k THEN n ELSE h[c[i]].next]
      BY DEF Added
    <3> QED
      BY <3>2, <3>3 DEF NodeRecords
  <2> QED
    BY <1>5, <2>1, <2>2
<1>7. c1 \in [1 .. l + 1 -> DOMAIN h1]
  <2>1. \A i \in 1 .. l + 1 :
          (IF i <= k THEN c[i] ELSE IF i = k + 1 THEN n ELSE c[i - 1]) \in DOMAIN h1
    BY <1>2, <1>4, <1>5
  <2> QED
    BY <2>1 DEF WithNode
<1> HIDE DEF c1
<1>8. f1 = c1[1]
  <2>1. k # 0 => l # 0 /\ 1 \in 1 .. l /\ 1 <= k
    OBVIOUS
  <2>2. k = 0 => k + 1 = 1
    OBVIOUS
  <2> QED
    BY <1>3, <2>1, <2>2 DEF Added
<1>9. ASSUME NEW i \in 1 .. l + 1
      PROVE  h1[c1[i]].next = IF i = l + 1 THEN NULL ELSE c1[i + 1]
  <2>1. CASE i <= k /\ i \in 1 .. l
    <3>1. c1[i] = c[i] /\ i # l + 1
      BY <1>3, <2>1
    <3>2. CASE i = k
      BY <1>3, <1>5, <2>1, <3>1, <3>2
    <3>3. CASE i # k
      <4>1. i + 1 \in 1 .. l /\ i + 1 <= k /\ i # l
        BY <2>1, <3>3
      <4>2. h1[c[i]].next = c[i + 1]
        BY <1>5, <2>1, <3>3, <4>1
      <4>3. c1[i + 1] = c[i + 1]
        BY <1>3, <4>1
      <4> QED
        BY <3>1, <4>2, <4>3
    <3> QED
      BY <3>2, <3>3
  <2>2. CASE i = k + 1
    <3>1. k # l => k + 1 \in 1 .. l /\ ~(k + 1 <= k)
      OBVIOUS
    <3>2. k # l => c1[(k + 1) + 1] = c[k + 1]
      BY <1>3, <3>1
    <3>3. i = l + 1 <=> k = l
      BY <2>2
    <3> QED
      BY <1>3, <1>5, <2>2, <3>2, <3>3
  <2>3. CASE i > k + 1 /\ i - 1 \in 1 .. l
    <3>1. ~(i - 1 <= k) /\ i - 1 # k /\ (i - 1) + 1 = i /\ (i - 1 = l <=> i = l + 1)
      BY <2>3
    <3>2. c1[i] = c[i - 1]
      BY <1>3, <2>3, <3>1
    <3>3. h1[c[i - 1]].next = IF i = l + 1 THEN NULL ELSE c[i]
      BY <1>5, <2>3, <3>1
    <3>4. i # l + 1 => i \in 1 .. l /\ ~(i <= k)
      BY <1>2, <2>3, Zenon
    <3>5. i # l + 1 => c1[i + 1] = c[i]
      BY <1>3, <3>4
    <3> QED
      BY <3>2, <3>3, <3>5
  <2> QED
    BY <1>2, <2>1, <2>2, <2>3
<1>10. ASSUME NEW i \in 1 .. l + 1, NEW j \in 1 .. l + 1, c1[i] = c1[j]
       PROVE  i = j
  <2> DEFINE Place(x) == IF x <= k THEN x ELSE x - 1
  <2>1. ASSUME NEW x \in 1 .. l + 1
        PROVE  \/ x = k + 1 /\ c1[x] = n
               \/ x # k + 1 /\ Place(x) \in 1 .. l /\ c1[x] = c[Place(x)]
    <3>1. CASE x <= k /\ x \in 1 .. l
      BY <1>3, <3>1
    <3>2. CASE x = k + 1
      BY <1>3, <3>2
    <3>3. CASE x > k + 1 /\ x - 1 \in 1 .. l
      <4>1. ~(x - 1 <= k) /\ (x - 1) + 1 = x /\ ~(x <= k) /\ x # k + 1
        BY <3>3
      <4>2. c1[x] = c[x - 1]
        BY <1>3, <3>3, <4>1
      <4> QED
        BY <3>3, <4>1, <4>2
    <3> QED
      BY <1>2, <3>1, <3>2, <3>3
  <2>2. CASE i = k + 1 \/ j = k + 1
    BY <1>4, <1>10, <2>1, <2>2
  <2>3. CASE i # k + 1 /\ j # k + 1
    <3>1. /\ Place(i) \in 1 .. l /\ c1[i] = c[Place(i)]
          /\ Place(j) \in 1 .. l /\ c1[j] = c[Place(j)]
      BY <2>1, <2>3
    <3>2. Place(i) = Place(j)
      <4> HIDE DEF Place
      <4> QED
        BY <1>10, <3>1
    <3> QED
      BY <2>3, <3>2
  <2> QED
    BY <2>2, <2>3
<1>11. ASSUME NEW m \in DOMAIN h1
       PROVE  \E i \in 1 .. l + 1 : c1[i] = m
  <2>1. CASE m = n
    BY <1>2, <1>3, <2>1
  <2>2. CASE m \in DOMAIN h
    <3>1. PICK i \in 1 .. l : c[i] = m
      BY <2>2
    <3> QED
      BY <1>2, <1>3, <3>1
  <2> QED
    BY <1>5, <2>1, <2>2
<1>12. s1 = l + 1 /\ t1 = c1[l + 1]
  <2>1. k # l => l \in 1 .. l /\ ~(l <= k) /\ l # 0
    OBVIOUS
  <2>2. k # l => c1[l + 1] = c[l]
    BY <1>3, <2>1
  <2>3. k = l => c1[l + 1] = n
    BY <1>3
  <2> QED
    BY <2>1, <2>2, <2>3 DEF Added
<1>13. Holds(h1, f1, t1, s1, l + 1, c1)
  BY <1>2, <1>6, <1>7, <1>8, <1>9, <1>10, <1>11, <1>12 DEF Holds, ChainOf
<1>14. Values(h1, l + 1, c1) = WithNode(l, Values(h, l, c), k, v)
  <2> DEFINE e == Values(h, l, c)
  <2>1. \A i \in 1 .. l : e[i] = h[c[i]].value
    BY DEF Values
  <2>2. ASSUME NEW i \in 1 .. l + 1
        PROVE  h1[c1[i]].value = IF i <= k THEN e[i] ELSE IF i = k + 1 THEN v ELSE e[i - 1]
    <3>1. CASE i <= k /\ i \in 1 .. l
      BY <1>3, <1>5, <2>1, <3>1
    <3>2. CASE i = k + 1
      BY <1>3, <1>5, <3>2
    <3>3. CASE i > k + 1 /\ i - 1 \in 1 .. l
      <4>1. ~(i - 1 <= k) /\ (i - 1) + 1 = i /\ ~(i <= k) /\ i # k + 1
        BY <3>3
      <4>2. c1[i] = c[i - 1]
        BY <1>3, <3>3, <4>1
      <4> QED
        BY <1>5, <2>1, <3>3, <4>1, <4>2
    <3> QED
      BY <1>2, <3>1, <3>2, <3>3
  <2> HIDE DEF e
  <2>3. [i \in 1 .. l + 1 |-> h1[c1[i]].value]
          = [i \in 1 .. l + 1 |-> IF i <= k THEN e[i] ELSE IF i = k + 1 THEN v ELSE e[i - 1]]
    BY <2>2, Zenon
  <2> QED
    BY <2>3, Zenon DEF Values, WithNode, e
<1> QED
  BY <1>13, <1>14 DEF c1

(* Some of the nodes stay, those at the places ix.                         *)
Remains(h, c, m, ix, h1, f1, t1, s1) ==
  /\ DOMAIN h1 = {c[ix[j]] : j \in 1 .. m}
  /\ \A j \in 1 .. m :
       h1[c[ix[j]]] = [value |-> h[c[ix[j]]].value,
                       next |-> IF j = m THEN NULL ELSE c[ix[j + 1]]]
  /\ f1 = IF m = 0 THEN NULL ELSE c[ix[1]]
  /\ t1 = IF m = 0 THEN NULL ELSE c[ix[m]]
  /\ s1 = m

(* So do the nodes that stay, each linked to the next that stays.          *)
LEMMA RemainingHolds ==
  ASSUME NEW h, NEW f, NEW t, NEW s, NEW l \in Nat, NEW c, Holds(h, f, t, s, l, c),
         NEW m \in Nat, NEW ix, Places(m, ix, l),
         NEW h1, NEW f1, NEW t1, NEW s1, Remains(h, c, m, ix, h1, f1, t1, s1)
  PROVE  /\ Holds(h1, f1, t1, s1, m, Selected(c, m, ix))
         /\ Values(h1, m, Selected(c, m, ix)) = Selected(Values(h, l, c), m, ix)
<1> DEFINE c1 == Selected(c, m, ix)
<1>1. HoldsFacts(h, f, t, s, l, c)
  BY HoldsParts
<1>2. \A j \in 1 .. m : ix[j] \in 1 .. l
  BY DEF Places
<1>3. \A j \in 1 .. m : c1[j] = c[ix[j]] /\ c[ix[j]] \in DOMAIN h
  BY <1>1, <1>2 DEF Selected, HoldsFacts
<1>4. \A j \in 1 .. m : c1[j] \in DOMAIN h1
  BY <1>3, Zenon DEF Remains
<1>5. c1 \in [1 .. m -> DOMAIN h1]
  BY <1>4 DEF Selected
<1> HIDE DEF c1
<1>6. ASSUME NEW j \in 1 .. m
      PROVE  /\ h1[c1[j]].value = h[c[ix[j]]].value
             /\ h1[c1[j]].next = IF j = m THEN NULL ELSE c1[j + 1]
             /\ h1[c1[j]] \in NodeRecords
             /\ c1[j] \in Nodes
  <2> DEFINE x == IF j = m THEN NULL ELSE c[ix[j + 1]]
             w == h[c[ix[j]]].value
  <2>1. h1[c1[j]] = [value |-> w, next |-> x]
    BY <1>3, Zenon DEF Remains
  <2>2. h[c[ix[j]]] \in NodeRecords /\ c[ix[j]] \in Nodes
    BY <1>1, <1>3, Zenon DEF HoldsFacts
  <2>3. w \in Int
    BY <2>2 DEF NodeRecords
  <2>4. x = IF j = m THEN NULL ELSE c1[j + 1]
    <3>1. j # m => j + 1 \in 1 .. m
      OBVIOUS
    <3> QED
      BY <1>3, <3>1
  <2>5. x \in Nodes \union {NULL}
    <3>1. j # m => j + 1 \in 1 .. m
      OBVIOUS
    <3>2. j # m => c[ix[j + 1]] \in Nodes
      BY <1>1, <1>3, <3>1, Zenon DEF HoldsFacts
    <3> QED
      BY <3>2
  <2> HIDE DEF x, w
  <2>6. h1[c1[j]].value = w /\ h1[c1[j]].next = x /\ h1[c1[j]] \in NodeRecords
    BY <2>1, <2>3, <2>5 DEF NodeRecords
  <2> QED
    BY <1>3, <2>2, <2>4, <2>6, Zenon DEF w
<1>7. ASSUME NEW n \in DOMAIN h1
      PROVE  \E j \in 1 .. m : c1[j] = n
  <2>1. DOMAIN h1 = {c[ix[j]] : j \in 1 .. m}
    BY Zenon DEF Remains
  <2>2. PICK j \in 1 .. m : n = c[ix[j]]
    BY <2>1, Zenon
  <2> QED
    BY <1>3, <2>2, Zenon
<1>8. \A n \in DOMAIN h1 : n \in Nodes /\ h1[n] \in NodeRecords
  BY <1>6, <1>7, Zenon
<1>9. ASSUME NEW i \in 1 .. m, NEW j \in 1 .. m, c1[i] = c1[j]
      PROVE  i = j
  <2>1. ix[i] = ix[j]
    <3>1. c[ix[i]] = c[ix[j]] /\ ix[i] \in 1 .. l /\ ix[j] \in 1 .. l
      BY <1>2, <1>3, <1>9
    <3>2. \A p, q \in 1 .. l : c[p] = c[q] => p = q
      BY <1>1, Zenon DEF HoldsFacts
    <3> QED
      BY <3>1, <3>2
  <2>2. (i < j => ix[i] < ix[j]) /\ (j < i => ix[j] < ix[i])
    BY DEF Places
  <2> QED
    BY <1>2, <2>1, <2>2
<1>10. f1 = IF m = 0 THEN NULL ELSE c1[1]
  <2>1. m # 0 => 1 \in 1 .. m
    OBVIOUS
  <2> QED
    BY <1>3, <2>1 DEF Remains
<1>11. s1 = m /\ t1 = IF m = 0 THEN NULL ELSE c1[m]
  <2>1. m # 0 => m \in 1 .. m
    OBVIOUS
  <2> QED
    BY <1>3, <2>1 DEF Remains
<1>12. Holds(h1, f1, t1, s1, m, c1)
  BY <1>5, <1>6, <1>7, <1>8, <1>9, <1>10, <1>11, Zenon DEF Holds, ChainOf
<1>13. Values(h1, m, c1) = Selected(Values(h, l, c), m, ix)
  <2> DEFINE e == Values(h, l, c)
  <2>1. \A i \in 1 .. l : e[i] = h[c[i]].value
    BY DEF Values
  <2>2. \A j \in 1 .. m : h1[c1[j]].value = e[ix[j]]
    BY <1>2, <1>6, <2>1
  <2> HIDE DEF e
  <2> QED
    BY <2>2, Zenon DEF Values, Selected, e
<1> QED
  BY <1>12, <1>13 DEF c1

(* The fields of a node.                                                   *)
LEMMA RecordFacts ==
  ASSUME NEW r \in NodeRecords, NEW n
  PROVE  /\ r.value \in Int /\ r.next \in Nodes \union {NULL}
         /\ r = [value |-> r.value, next |-> r.next]
         /\ [r EXCEPT !.next = n] = [value |-> r.value, next |-> n]
  BY DEF NodeRecords

(* What the header promises of a call, with what the queue stands for      *)
(* before and after it.                                                    *)
Without(e, v) ==
  FlattenSeq([i \in DOMAIN e |-> IF e[i] = v THEN << >> ELSE <<e[i]>>])

PushPromised(e, e1, v) ==
  \/ answer' = 0 /\ e1 = e
  \/ v >= 0 /\ e1 = Append(e, v) /\ answer' = 1
InsertPromised(e, e1, v) ==
  \/ answer' = 0 /\ e1 = e
  \/ \E k \in 0 .. Len(e) :
       /\ \A i \in 1 .. k : e[i] > v
       /\ k < Len(e) => e[k + 1] <= v
       /\ e1 = InsertAt(e, k + 1, v)
       /\ answer' = 1
ErasePromised(e, e1, v) ==
  e1 = Without(e, v) /\ answer' = IF v \in Range(e) THEN 1 ELSE 0
PopPromised(e, e1) ==
  IF e = << >> THEN answer' = -1 /\ e1 = e ELSE answer' = Head(e) /\ e1 = Tail(e)
GetPromised(e, e1, idx) ==
  answer' = (IF idx \in 0 .. Len(e) - 1 THEN e[idx + 1] ELSE -1) /\ e1 = e
ClearPromised(e1) == e1 = << >> /\ answer' = None

Keeps(e, l1, c1, e1) ==
  Holds(heap', first', tail', mysize', l1, c1) /\ e1 = Values(heap', l1, c1)

(* A sequence of integers that has the values of the nodes of a chain.     *)
ValuesOf(e, h, l, c) ==
  /\ e \in Seq(Int) /\ Len(e) = l
  /\ \A i \in 1 .. l : e[i] = h[c[i]].value

(* The entries of the queue are integers, one of each node.                *)
LEMMA ValuesFacts ==
  ASSUME NEW h, NEW f, NEW t, NEW s, NEW l \in Nat, NEW c, Holds(h, f, t, s, l, c)
  PROVE  ValuesOf(Values(h, l, c), h, l, c)
<1>1. ASSUME NEW i \in 1 .. l
      PROVE  h[c[i]].value \in Int
  <2>1. h[c[i]] \in NodeRecords
    BY HoldsParts DEF HoldsFacts
  <2> QED
    BY <2>1 DEF NodeRecords
<1>2. Values(h, l, c) \in [1 .. l -> Int]
  BY <1>1 DEF Values
<1> QED
  BY <1>2 DEF Values, ValuesOf

(* A call that is refused keeps the queue and its entries.                 *)
LEMMA UnchangedKeeps ==
  ASSUME NEW l \in Nat, NEW c, Holds(heap, first, tail, mysize, l, c),
         UNCHANGED <<heap, first, tail, mysize>>
  PROVE  Keeps(Values(heap, l, c), l, c, Values(heap, l, c))
<1>1. heap' = heap /\ first' = first /\ tail' = tail /\ mysize' = mysize
  OBVIOUS
<1> QED
  BY <1>1, Zenon DEF Keeps

(* One element more, in the middle or at the end.                          *)
LEMMA WithNodeSequence ==
  ASSUME NEW e \in Seq(Int), NEW l \in Nat, Len(e) = l, NEW k \in 0 .. l, NEW v \in Int
  PROVE  /\ WithNode(l, e, k, v) = InsertAt(e, k + 1, v)
         /\ WithNode(l, e, l, v) = Append(e, v)
<1> DEFINE a == SubSeq(e, 1, k)
           b == SubSeq(e, k + 1, l)
           w == WithNode(l, e, k, v)
           x == WithNode(l, e, l, v)
<1>1. a \in Seq(Int) /\ Len(a) = k /\ \A i \in 1 .. k : a[i] = e[i]
  OBVIOUS
<1>2. b \in Seq(Int) /\ Len(b) = l - k /\ \A i \in 1 .. l - k : b[i] = e[k + i]
  BY SMT
<1>3. w \in Seq(Int) /\ Len(w) = l + 1 /\ w[k + 1] = v
      /\ (\A i \in 1 .. k : w[i] = e[i])
      /\ (\A i \in 1 .. l - k : w[k + 1 + i] = e[k + i])
  <2>1. w = [i \in 1 .. l + 1 |-> IF i <= k THEN e[i] ELSE IF i = k + 1 THEN v ELSE e[i - 1]]
    BY Zenon DEF WithNode
  <2> HIDE DEF w
  <2>2. w \in [1 .. l + 1 -> Int]
    <3>1. \A i \in 1 .. l + 1 :
            (IF i <= k THEN e[i] ELSE IF i = k + 1 THEN v ELSE e[i - 1]) \in Int
      OBVIOUS
    <3> QED
      BY <2>1, <3>1, Zenon
  <2>3. w[k + 1] = v
    <3>1. k + 1 \in 1 .. l + 1 /\ ~(k + 1 <= k)
      OBVIOUS
    <3> QED
      BY <2>1, <3>1
  <2>4. ASSUME NEW i \in 1 .. k
        PROVE  w[i] = e[i]
    <3>1. i \in 1 .. l + 1 /\ i <= k
      OBVIOUS
    <3> QED
      BY <2>1, <3>1
  <2>5. ASSUME NEW i \in 1 .. l - k
        PROVE  w[k + 1 + i] = e[k + i]
    <3>1. k + 1 + i \in 1 .. l + 1 /\ ~(k + 1 + i <= k) /\ k + 1 + i # k + 1
          /\ (k + 1 + i) - 1 = k + i
      OBVIOUS
    <3> QED
      BY <2>1, <3>1
  <2>6. w \in Seq(Int) /\ Len(w) = l + 1
    BY <2>2
  <2> QED
    BY <2>3, <2>4, <2>5, <2>6
<1>4. InsertAt(e, k + 1, v) = a \o <<v>> \o b
  <2>1. (k + 1) - 1 = k
    OBVIOUS
  <2> QED
    BY <2>1 DEF InsertAt
<1>5. x = Append(e, v)
  <2>1. x = [i \in 1 .. l + 1 |-> IF i <= l THEN e[i] ELSE IF i = l + 1 THEN v ELSE e[i - 1]]
    BY Zenon DEF WithNode
  <2> HIDE DEF x
  <2>2. \A i \in 1 .. l + 1 :
            (IF i <= l THEN e[i] ELSE IF i = l + 1 THEN v ELSE e[i - 1]) \in Int
    OBVIOUS
  <2>3. x \in [1 .. l + 1 -> Int]
    BY <2>1, <2>2, Zenon
  <2>4. x \in Seq(Int) /\ Len(x) = l + 1
    BY <2>3
  <2>5. \A i \in 1 .. l : x[i] = e[i]
    BY <2>1
  <2>6. x[l + 1] = v
    BY <2>1
  <2> QED
    BY <2>4, <2>5, <2>6
<1> HIDE DEF a, b, w, x
<1>6. w = a \o <<v>> \o b
  <2> DEFINE y == a \o <<v>>
  <2>1. y \in Seq(Int) /\ Len(y) = k + 1 /\ y[k + 1] = v /\ \A i \in 1 .. k : y[i] = a[i]
    BY <1>1
  <2> HIDE DEF y
  <2>2. ASSUME NEW i \in 1 .. k + 1
        PROVE  w[i] = y[i]
    <3>1. CASE i \in 1 .. k
      BY <1>1, <1>3, <2>1, <3>1
    <3>2. CASE i = k + 1
      BY <1>3, <2>1, <3>2
    <3> QED
      BY <3>1, <3>2
  <2>3. /\ y \in Seq(Int) /\ b \in Seq(Int) /\ w \in Seq(Int)
        /\ Len(w) = Len(y) + Len(b)
        /\ \A i \in 1 .. Len(y) : w[i] = y[i]
        /\ \A i \in 1 .. Len(b) : w[Len(y) + i] = b[i]
    <3>1. Len(y) = k + 1 /\ Len(b) = l - k
      BY <1>2, <2>1
    <3>2. ASSUME NEW i \in 1 .. Len(b)
          PROVE  w[Len(y) + i] = b[i]
      <4>1. i \in 1 .. l - k /\ Len(y) + i = k + 1 + i
        BY <3>1
      <4> QED
        BY <1>2, <1>3, <4>1
    <3>3. Len(w) = Len(y) + Len(b)
      BY <1>3, <3>1
    <3> QED
      BY <1>2, <1>3, <2>1, <2>2, <3>1, <3>2, <3>3, Zenon
  <2>4. w = y \o b
    BY <2>3, ConcatAt
  <2> QED
    BY <2>4, Zenon DEF y
<1> QED
  BY <1>4, <1>5, <1>6, Zenon DEF w, x

(* What each call does to the chain and to the entries.                    *)
LEMMA PushKeeps ==
  ASSUME NEW l \in Nat, NEW c, Holds(heap, first, tail, mysize, l, c),
         NEW v \in LinkedEntries, Linked!Push(v)
  PROVE  \E l1 \in Nat : \E c1, e1 :
           Keeps(Values(heap, l, c), l1, c1, e1) /\ PushPromised(Values(heap, l, c), e1, v)
<1> DEFINE e == Values(heap, l, c)
<1>0. e \in Seq(Int) /\ Len(e) = l
  <2>1. ValuesOf(e, heap, l, c)
    BY ValuesFacts, Zenon
  <2> HIDE DEF e
  <2> QED
    BY <2>1 DEF ValuesOf
<1>1. v \in Int
  BY ProgramsAssumption DEF Linked!LinkedAssumption
<1>2. CASE answer' = 0 /\ UNCHANGED <<heap, first, tail, mysize>>
  BY <1>2, UnchangedKeeps, Zenon DEF PushPromised
<1>3. ASSUME NEW n \in Linked!Free, v >= 0, answer' = 1,
             heap' = [m \in DOMAIN heap \union {n} |->
                        CASE m = n -> Linked!Node(v, NULL)
                          [] m = tail /\ m # n -> [heap[m] EXCEPT !.next = n]
                          [] OTHER -> heap[m]],
             tail' = n, first' = IF first = NULL THEN n ELSE first, mysize' = mysize + 1
      PROVE  \E l1 \in Nat : \E c1, e1 : Keeps(e, l1, c1, e1) /\ PushPromised(e, e1, v)
  <2>1. HoldsFacts(heap, first, tail, mysize, l, c)
    BY HoldsParts
  <2> USE <2>1 DEF HoldsFacts
  <2>2. n \in Nodes /\ n \notin DOMAIN heap
    BY DEF Linked!Free
  <2>3. NULL \notin DOMAIN heap
    BY HeapSize
  <2>4. ASSUME NEW i \in 1 .. l
        PROVE  heap'[c[i]] = [value |-> heap[c[i]].value,
                              next |-> IF i = l THEN n ELSE heap[c[i]].next]
    <3>1. c[i] \in DOMAIN heap /\ c[i] # n /\ l \in 1 .. l /\ (c[i] = tail <=> i = l)
      BY <2>2
    <3>2. heap'[c[i]] = IF c[i] = tail THEN [heap[c[i]] EXCEPT !.next = n] ELSE heap[c[i]]
      BY <1>3, <3>1
    <3>3. heap[c[i]] \in NodeRecords
      BY <3>1
    <3> DEFINE r == heap[c[i]]
    <3>4. r = [value |-> r.value, next |-> r.next]
          /\ [r EXCEPT !.next = n] = [value |-> r.value, next |-> n]
      <4> HIDE DEF r
      <4>1. r \in NodeRecords
        BY <3>3 DEF r
      <4> QED
        BY <4>1, RecordFacts
    <3> QED
      BY <3>1, <3>2, <3>4, Zenon
  <2>5. heap'[n] = [value |-> v, next |-> NULL] /\ DOMAIN heap' = DOMAIN heap \union {n}
    BY <1>3 DEF Linked!Node
  <2>6. first' = IF l = 0 THEN n ELSE first
    <3>1. l # 0 => 1 \in 1 .. l
      OBVIOUS
    <3> QED
      BY <1>3, <2>3, <3>1
  <2>7. Added(heap, first, tail, mysize, l, c, l, n, v, heap', first', tail', mysize')
    BY <1>3, <2>4, <2>5, <2>6, Zenon DEF Added
  <2>8. l \in 0 .. l
    OBVIOUS
  <2>9. /\ Holds(heap', first', tail', mysize', l + 1, WithNode(l, c, l, n))
        /\ Values(heap', l + 1, WithNode(l, c, l, n)) = WithNode(l, e, l, v)
    BY <1>1, <2>2, <2>7, <2>8, AddedHolds
  <2>10. WithNode(l, e, l, v) = Append(e, v)
    <3> HIDE DEF e
    <3> QED
      BY <1>1, <1>0, <2>8, WithNodeSequence
  <2>11. l + 1 \in Nat
    OBVIOUS
  <2> QED
    BY <1>3, <2>9, <2>10, <2>11, Zenon DEF Keeps, PushPromised
<1> QED
  BY <1>2, <1>3 DEF Linked!Push, Linked!OutOfMemory

LEMMA PopKeeps ==
  ASSUME NEW l \in Nat, NEW c, Holds(heap, first, tail, mysize, l, c), Linked!Pop
  PROVE  \E l1 \in Nat : \E c1, e1 :
           Keeps(Values(heap, l, c), l1, c1, e1) /\ PopPromised(Values(heap, l, c), e1)
<1> DEFINE e == Values(heap, l, c)
<1>1. HoldsFacts(heap, first, tail, mysize, l, c)
  BY HoldsParts
<1>2. e \in Seq(Int) /\ Len(e) = l /\ \A i \in 1 .. l : e[i] = heap[c[i]].value
  <2>1. ValuesOf(e, heap, l, c)
    BY ValuesFacts, Zenon
  <2> HIDE DEF e
  <2> QED
    BY <2>1 DEF ValuesOf
<1>3. CASE l = 0
  <2>1. answer' = -1 /\ UNCHANGED <<heap, first, tail, mysize>>
    BY <1>1, <1>3 DEF Linked!Pop, HoldsFacts
  <2>2. e = << >>
    BY <1>2, <1>3
  <2> HIDE DEF e
  <2> QED
    BY <2>1, <2>2, UnchangedKeeps, Zenon DEF PopPromised, e
<1>4. CASE l # 0
  <2> DEFINE ix == [j \in 1 .. l - 1 |-> j + 1]
  <2>1. /\ first' = heap[first].next
        /\ answer' = heap[first].value
        /\ heap' = [m \in DOMAIN heap \ {first} |-> heap[m]]
        /\ mysize' = mysize - 1
        /\ tail' = IF mysize' = 0 THEN NULL ELSE tail
    BY <1>1, <1>4 DEF Linked!Pop, HoldsFacts
  <2>2. /\ l - 1 \in Nat /\ 1 \in 1 .. l /\ l \in 1 .. l
        /\ \A j \in 1 .. l - 1 : j + 1 \in 1 .. l /\ j + 1 # 1 /\ (j + 1 = l <=> j = l - 1)
        /\ \A i \in 1 .. l : i = 1 \/ (i - 1 \in 1 .. l - 1 /\ (i - 1) + 1 = i)
        /\ (l - 1 = 0 <=> l = 1)
        /\ (l - 1 # 0 => 1 \in 1 .. l - 1 /\ l - 1 \in 1 .. l - 1 /\ (l - 1) + 1 = l)
    BY <1>4
  <2>3. Places(l - 1, ix, l)
    <3>1. \A i, j \in 1 .. l - 1 : i < j => ix[i] < ix[j]
      OBVIOUS
    <3>2. ix \in [1 .. l - 1 -> 1 .. l]
      BY <2>2
    <3> QED
      BY <3>1, <3>2 DEF Places
  <2>4. \A j \in 1 .. l - 1 : ix[j] = j + 1
    OBVIOUS
  <2> HIDE DEF ix
  <2>5. first = c[1]
    BY <1>1, <1>4 DEF HoldsFacts
  <2>6. \A j \in 1 .. l - 1 : c[j + 1] \in DOMAIN heap /\ c[j + 1] # c[1]
    BY <1>1, <2>2 DEF HoldsFacts
  <2>7. DOMAIN heap' = {c[ix[j]] : j \in 1 .. l - 1}
    <3>1. DOMAIN heap' = DOMAIN heap \ {c[1]}
      BY <2>1, <2>5
    <3>2. ASSUME NEW m \in DOMAIN heap, m # c[1]
          PROVE  \E j \in 1 .. l - 1 : m = c[j + 1]
      <4>1. PICK i \in 1 .. l : c[i] = m
        BY <1>1, Zenon DEF HoldsFacts
      <4> QED
        BY <2>2, <3>2, <4>1
    <3> QED
      BY <2>4, <2>6, <3>1, <3>2
  <2>8. ASSUME NEW j \in 1 .. l - 1
        PROVE  heap'[c[ix[j]]] = [value |-> heap[c[ix[j]]].value,
                                  next |-> IF j = l - 1 THEN NULL ELSE c[ix[j + 1]]]
    <3> DEFINE r == heap[c[j + 1]]
    <3>1. heap'[c[j + 1]] = r
      BY <2>1, <2>5, <2>6
    <3>2. r.next = IF j = l - 1 THEN NULL ELSE c[(j + 1) + 1]
      BY <1>1, <2>2 DEF HoldsFacts
    <3>3. j # l - 1 => ix[j + 1] = (j + 1) + 1
      <4>1. j # l - 1 => j + 1 \in 1 .. l - 1
        OBVIOUS
      <4> QED
        BY <2>4, <4>1
    <3>4. r = [value |-> r.value, next |-> r.next]
      <4>1. r \in NodeRecords
        BY <1>1, <2>6 DEF HoldsFacts
      <4> HIDE DEF r
      <4> QED
        BY <4>1, RecordFacts
    <3>5. ix[j] = j + 1
      BY <2>4
    <3> DEFINE x == IF j = l - 1 THEN NULL ELSE c[ix[j + 1]]
    <3>6. r.next = x
      BY <3>2, <3>3
    <3> HIDE DEF x
    <3> QED
      BY <3>1, <3>4, <3>5, <3>6, Zenon DEF x
  <2>9. first' = IF l - 1 = 0 THEN NULL ELSE c[ix[1]]
    <3>1. first' = IF 1 = l THEN NULL ELSE c[1 + 1]
      BY <1>1, <2>1, <2>2, <2>5 DEF HoldsFacts
    <3> QED
      BY <2>2, <2>4, <3>1
  <2>10. mysize' = l - 1
    BY <1>1, <2>1 DEF HoldsFacts
  <2>11. tail' = IF l - 1 = 0 THEN NULL ELSE c[ix[l - 1]]
    <3>1. tail = c[l]
      BY <1>1, <1>4 DEF HoldsFacts
    <3> QED
      BY <2>1, <2>2, <2>4, <2>10, <3>1
  <2>12. Remains(heap, c, l - 1, ix, heap', first', tail', mysize')
    BY <2>7, <2>8, <2>9, <2>10, <2>11, Zenon DEF Remains
  <2>13. /\ Holds(heap', first', tail', mysize', l - 1, Selected(c, l - 1, ix))
         /\ Values(heap', l - 1, Selected(c, l - 1, ix)) = Selected(e, l - 1, ix)
    BY <2>2, <2>3, <2>12, RemainingHolds
  <2>14. e # << >> /\ answer' = Head(e)
    <3>1. answer' = e[1]
      BY <1>2, <2>1, <2>2, <2>5
    <3> HIDE DEF e
    <3> QED
      BY <1>2, <1>4, <3>1
  <2>15. Selected(e, l - 1, ix) = Tail(e)
    <3> HIDE DEF e
    <3>1. Tail(e) \in Seq(Int) /\ Len(Tail(e)) = l - 1
          /\ \A j \in 1 .. l - 1 : Tail(e)[j] = e[j + 1]
      BY <1>2, <1>4
    <3>2. Tail(e) = [j \in 1 .. l - 1 |-> Tail(e)[j]]
      <4> DEFINE t == Tail(e)
      <4>1. t \in Seq(Int) /\ Len(t) = l - 1
        BY <3>1
      <4> HIDE DEF t
      <4>2. t = [j \in 1 .. l - 1 |-> t[j]]
        BY <4>1
      <4> QED
        BY <4>2 DEF t
    <3> QED
      BY <2>4, <3>1, <3>2, Zenon DEF Selected
  <2> HIDE DEF e
  <2> QED
    BY <2>2, <2>13, <2>14, <2>15, Zenon DEF Keeps, PopPromised, e
<1> QED
  BY <1>3, <1>4

(* The least of a set of places, and the greatest.                         *)
LEMMA MinFacts ==
  ASSUME NEW T \in SUBSET Nat, T # {}
  PROVE  Linked!Min(T) \in T /\ \A j \in T : Linked!Min(T) <= j
<1>1. \E i \in T : \A j \in T : i <= j
  BY SmallestCandidate
<1> QED
  BY <1>1, Zenon DEF Linked!Min

LEMMA MaxFacts ==
  ASSUME NEW l \in Nat, NEW T \in SUBSET (1 .. l), T # {}
  PROVE  Linked!Max(T) \in T /\ \A j \in T : Linked!Max(T) >= j
<1> DEFINE U == {l - i : i \in T}
<1>1. U \subseteq Nat /\ U # {}
  <2>1. \A i \in T : l - i \in Nat
    OBVIOUS
  <2> QED
    BY <2>1, Zenon
<1>2. PICK u \in U : \A x \in U : u <= x
  <2> HIDE DEF U
  <2> QED
    BY <1>1, SmallestCandidate
<1>3. PICK i \in T : u = l - i
  OBVIOUS
<1>4. ASSUME NEW j \in T
      PROVE  i >= j
  <2>1. u <= l - j
    BY <1>2, Zenon
  <2>2. i \in 1 .. l /\ j \in 1 .. l
    OBVIOUS
  <2> QED
    BY <1>3, <2>1, <2>2
<1> QED
  BY <1>4, Zenon DEF Linked!Max

(* The search for the place of an entry below the head stops at the first  *)
(* node that is the last, or before one that is not above the entry.       *)
LEMMA LastAboveFacts ==
  ASSUME NEW l \in Nat, NEW c, Holds(heap, first, tail, mysize, l, c), l # 0,
         NEW v \in Int
  PROVE  \E k \in 1 .. l :
           /\ Linked!LastAbove(heap, first, v) = c[k]
           /\ k = l \/ heap[c[k + 1]].value <= v
           /\ \A i \in 1 .. k - 1 : heap[c[i + 1]].value > v
<1> DEFINE stops == {k \in 1 .. l : k = l \/ heap[c[k + 1]].value <= v}
           k == Linked!Min(stops)
<1>1. Linked!From(heap, first) = c
  BY HeadIsMet
<1>2. DOMAIN c = 1 .. l /\ Len(c) = l
  BY HoldsParts DEF HoldsFacts
<1>3. Linked!LastAbove(heap, first, v) = c[k]
  BY <1>1, <1>2, Zenon DEF Linked!LastAbove
<1>4. stops \in SUBSET Nat /\ stops # {}
  OBVIOUS
<1>5. k \in stops /\ \A j \in stops : k <= j
  <2> HIDE DEF stops
  <2> QED
    BY <1>4, MinFacts
<1> HIDE DEF k
<1>6. ASSUME NEW i \in 1 .. k - 1
      PROVE  heap[c[i + 1]].value > v
  <2>1. i \in 1 .. l /\ i # l /\ ~(k <= i) /\ i + 1 \in 1 .. l
    BY <1>5
  <2>2. heap[c[i + 1]].value \in Int
    BY <2>1, HoldsParts, RecordFacts DEF HoldsFacts
  <2>3. ~(heap[c[i + 1]].value <= v)
    BY <1>5, <2>1
  <2> QED
    BY <2>2, <2>3
<1> QED
  BY <1>3, <1>5, <1>6

(* Whatever is added behind k nodes, if all before are above it and the    *)
(* next one is not.                                                        *)
LEMMA InsertedKeeps ==
  ASSUME NEW l \in Nat, NEW c, Holds(heap, first, tail, mysize, l, c),
         NEW v \in Int, NEW n \in Nodes, n \notin DOMAIN heap, NEW k \in 0 .. l,
         Added(heap, first, tail, mysize, l, c, k, n, v, heap', first', tail', mysize'),
         \A i \in 1 .. k : heap[c[i]].value > v,
         k < l => heap[c[k + 1]].value <= v,
         answer' = 1
  PROVE  \E l1 \in Nat : \E c1, e1 :
           Keeps(Values(heap, l, c), l1, c1, e1) /\ InsertPromised(Values(heap, l, c), e1, v)
<1> DEFINE e == Values(heap, l, c)
<1>1. e \in Seq(Int) /\ Len(e) = l /\ \A i \in 1 .. l : e[i] = heap[c[i]].value
  <2>1. e \in Seq(Int) /\ Len(e) = l
    <3>1. HoldsFacts(heap, first, tail, mysize, l, c)
      BY HoldsParts
    <3>2. \A i \in 1 .. l : heap[c[i]].value \in Int
      BY <3>1, RecordFacts DEF HoldsFacts
    <3>3. e \in [1 .. l -> Int]
      BY <3>2 DEF Values
    <3> HIDE DEF e
    <3> QED
      BY <3>3
  <2>2. \A i \in 1 .. l : e[i] = heap[c[i]].value
    BY DEF Values
  <2> QED
    BY <2>1, <2>2
<1>2. /\ Holds(heap', first', tail', mysize', l + 1, WithNode(l, c, k, n))
      /\ Values(heap', l + 1, WithNode(l, c, k, n)) = WithNode(l, e, k, v)
  BY AddedHolds
<1>3. WithNode(l, e, k, v) = InsertAt(e, k + 1, v)
  <2> HIDE DEF e
  <2> QED
    BY <1>1, WithNodeSequence
<1>4. (\A i \in 1 .. k : e[i] > v) /\ (k < l => e[k + 1] <= v) /\ l + 1 \in Nat
  <2>1. (\A i \in 1 .. k : i \in 1 .. l) /\ (k < l => k + 1 \in 1 .. l)
    OBVIOUS
  <2> QED
    BY <1>1, <2>1
<1> HIDE DEF e
<1>5. InsertPromised(e, InsertAt(e, k + 1, v), v)
  BY <1>1, <1>4, Zenon DEF InsertPromised
<1> QED
  BY <1>2, <1>3, <1>4, <1>5, Zenon DEF Keeps, e

LEMMA InsertKeeps ==
  ASSUME NEW l \in Nat, NEW c, Holds(heap, first, tail, mysize, l, c),
         NEW v \in LinkedEntries, Linked!Insert(v)
  PROVE  \E l1 \in Nat : \E c1, e1 :
           Keeps(Values(heap, l, c), l1, c1, e1) /\ InsertPromised(Values(heap, l, c), e1, v)
<1> DEFINE Goal == \E l1 \in Nat : \E c1, e1 :
                     Keeps(Values(heap, l, c), l1, c1, e1)
                       /\ InsertPromised(Values(heap, l, c), e1, v)
<1>1. v \in Int
  BY ProgramsAssumption DEF Linked!LinkedAssumption
<1>2. CASE Linked!OutOfMemory
  <2>1. answer' = 0 /\ UNCHANGED <<heap, first, tail, mysize>>
    BY <1>2 DEF Linked!OutOfMemory
  <2> QED
    BY <2>1, UnchangedKeeps, Zenon DEF InsertPromised
<1>3. HoldsFacts(heap, first, tail, mysize, l, c)
  BY HoldsParts
<1>4. NULL \notin DOMAIN heap
  BY HeapSize
<1>5. first = NULL <=> l = 0
  <2>1. l # 0 => 1 \in 1 .. l
    OBVIOUS
  <2> QED
    BY <1>3, <1>4, <2>1 DEF HoldsFacts
<1>6. ASSUME NEW n \in Linked!Free, NEW x, mysize' = mysize + 1, answer' = 1,
             first = NULL \/ heap[first].value <= v, x = first,
             heap' = Linked!With(n, Linked!Node(v, x)),
             first' = n, tail' = IF first = NULL THEN n ELSE tail
      PROVE  Goal
  <2>1. n \in Nodes /\ n \notin DOMAIN heap
    BY DEF Linked!Free
  <2>2. x = IF 0 = l THEN NULL ELSE c[0 + 1]
    BY <1>3, <1>6 DEF HoldsFacts
  <2>3. heap' = [m \in DOMAIN heap \union {n} |-> IF m = n THEN [value |-> v, next |-> x]
                                                          ELSE heap[m]]
    BY <1>6 DEF Linked!With, Linked!Node
  <2>4. DOMAIN heap' = DOMAIN heap \union {n} /\ heap'[n] = [value |-> v, next |-> x]
    BY <2>3
  <2>5. ASSUME NEW i \in 1 .. l
        PROVE  heap'[c[i]] = [value |-> heap[c[i]].value,
                              next |-> IF i = 0 THEN n ELSE heap[c[i]].next]
    <3> DEFINE r == heap[c[i]]
    <3>1. c[i] \in DOMAIN heap /\ c[i] # n /\ i # 0
      BY <1>3, <2>1 DEF HoldsFacts
    <3>2. heap'[c[i]] = r /\ r \in NodeRecords
      BY <1>3, <2>3, <3>1 DEF HoldsFacts
    <3> HIDE DEF r
    <3>3. r = [value |-> r.value, next |-> r.next]
      BY <3>2, RecordFacts
    <3> QED
      BY <3>1, <3>2, <3>3, Zenon DEF r
  <2>6. 0 \in 0 .. l /\ (\A i \in 1 .. 0 : FALSE) /\ (0 = l <=> first = NULL) /\ 0 + 1 = 1
    BY <1>5
  <2>7. first' = IF 0 = 0 THEN n ELSE first
    BY <1>6
  <2>8. tail' = IF 0 = l THEN n ELSE tail
    BY <1>6, <2>6
  <2>9. Added(heap, first, tail, mysize, l, c, 0, n, v, heap', first', tail', mysize')
    BY <1>6, <2>2, <2>4, <2>5, <2>7, <2>8, Zenon DEF Added
  <2>10. 0 < l => heap[c[0 + 1]].value <= v
    BY <1>3, <1>5, <1>6 DEF HoldsFacts
  <2> QED
    BY <1>1, <1>6, <2>1, <2>6, <2>9, <2>10, InsertedKeeps
<1>7. ASSUME NEW n \in Linked!Free, mysize' = mysize + 1, answer' = 1,
             first # NULL, heap[first].value > v, NEW temp,
             temp = Linked!LastAbove(heap, first, v),
             heap' = [Linked!With(n, Linked!Node(v, heap[temp].next)) EXCEPT ![temp].next = n],
             tail' = IF heap[temp].next = NULL THEN n ELSE tail,
             first' = first
      PROVE  Goal
  <2>1. n \in Nodes /\ n \notin DOMAIN heap
    BY DEF Linked!Free
  <2>2. PICK k \in 1 .. l :
          /\ temp = c[k]
          /\ k = l \/ heap[c[k + 1]].value <= v
          /\ \A i \in 1 .. k - 1 : heap[c[i + 1]].value > v
    BY <1>1, <1>5, <1>7, LastAboveFacts
  <2>3. temp \in DOMAIN heap /\ temp # n /\ k \in 0 .. l /\ k # 0
    BY <1>3, <2>1, <2>2 DEF HoldsFacts
  <2> DEFINE x == heap[temp].next
  <2>4. x = IF k = l THEN NULL ELSE c[k + 1]
    BY <1>3, <2>2 DEF HoldsFacts
  <2> DEFINE w == [m \in DOMAIN heap \union {n} |-> IF m = n THEN [value |-> v, next |-> x]
                                                            ELSE heap[m]]
  <2>5. heap' = [w EXCEPT ![temp].next = n]
    BY <1>7, Zenon DEF Linked!With, Linked!Node
  <2>6. DOMAIN w = DOMAIN heap \union {n} /\ w[n] = [value |-> v, next |-> x]
        /\ \A m \in DOMAIN heap : w[m] = heap[m]
    BY <2>1
  <2> HIDE DEF w, x
  <2>7. DOMAIN heap' = DOMAIN heap \union {n} /\ heap'[n] = [value |-> v, next |-> x]
    BY <2>3, <2>5, <2>6
  <2>8. ASSUME NEW i \in 1 .. l
        PROVE  heap'[c[i]] = [value |-> heap[c[i]].value,
                              next |-> IF i = k THEN n ELSE heap[c[i]].next]
    <3> DEFINE r == heap[c[i]]
    <3>1. c[i] \in DOMAIN heap /\ (c[i] = temp <=> i = k)
      BY <1>3, <2>2 DEF HoldsFacts
    <3>2. w[c[i]] = r /\ r \in NodeRecords /\ c[i] \in DOMAIN w
      BY <1>3, <2>6, <3>1 DEF HoldsFacts
    <3>3. i # k => heap'[c[i]] = w[c[i]]
      BY <2>5, <3>1, <3>2
    <3>4. i = k => heap'[c[i]] = [w[c[i]] EXCEPT !.next = n]
      BY <2>5, <3>1, <3>2
    <3> HIDE DEF r
    <3>5. r = [value |-> r.value, next |-> r.next]
          /\ [r EXCEPT !.next = n] = [value |-> r.value, next |-> n]
      BY <3>2, RecordFacts
    <3> QED
      BY <3>2, <3>3, <3>4, <3>5, Zenon DEF r
  <2>9. tail' = IF k = l THEN n ELSE tail
    <3>1. k # l => c[k + 1] # NULL
      <4>1. k # l => k + 1 \in 1 .. l
        OBVIOUS
      <4> QED
        BY <1>3, <1>4, <4>1 DEF HoldsFacts
    <3> QED
      BY <1>7, <2>4, <3>1 DEF x
  <2>10. first' = IF k = 0 THEN n ELSE first
    BY <1>7, <2>3
  <2>11. Added(heap, first, tail, mysize, l, c, k, n, v, heap', first', tail', mysize')
    BY <1>7, <2>4, <2>7, <2>8, <2>9, <2>10, Zenon DEF Added
  <2>12. ASSUME NEW i \in 1 .. k
         PROVE  heap[c[i]].value > v
    <3>1. CASE i = 1
      <4>1. first = c[1]
        BY <1>3, <1>5, <1>7 DEF HoldsFacts
      <4> QED
        BY <1>7, <3>1, <4>1
    <3>2. CASE i # 1
      <4>1. i - 1 \in 1 .. k - 1 /\ (i - 1) + 1 = i
        BY <3>2
      <4> QED
        BY <2>2, <4>1
    <3> QED
      BY <3>1, <3>2
  <2>13. k < l => heap[c[k + 1]].value <= v
    BY <2>2
  <2> QED
    BY <1>1, <1>7, <2>1, <2>3, <2>11, <2>12, <2>13, InsertedKeeps
<1> HIDE DEF Goal
<1>8. Goal
  <2>1. CASE \E n \in Linked!Free :
               /\ mysize' = mysize + 1 /\ answer' = 1
               /\ first = NULL
               /\ heap' = Linked!With(n, Linked!Node(v, NULL))
               /\ first' = n /\ tail' = n
    <3>1. PICK n \in Linked!Free :
               /\ mysize' = mysize + 1 /\ answer' = 1
               /\ first = NULL
               /\ heap' = Linked!With(n, Linked!Node(v, first))
               /\ first' = n /\ tail' = n
      BY <2>1
    <3> QED
      BY <1>6, <3>1
  <2>2. CASE \E n \in Linked!Free :
               /\ mysize' = mysize + 1 /\ answer' = 1
               /\ first # NULL
               /\ heap[first].value <= v
               /\ heap' = Linked!With(n, Linked!Node(v, first))
               /\ first' = n
               /\ UNCHANGED tail
    BY <1>6, <2>2
  <2>3. CASE \E n \in Linked!Free :
               /\ mysize' = mysize + 1 /\ answer' = 1
               /\ first # NULL
               /\ heap[first].value > v
               /\ LET temp == Linked!LastAbove(heap, first, v)
                  IN  /\ heap' = [Linked!With(n, Linked!Node(v, heap[temp].next))
                                    EXCEPT ![temp].next = n]
                      /\ tail' = IF heap[temp].next = NULL THEN n ELSE tail
               /\ UNCHANGED first
    BY <1>7, <2>3
  <2> QED
    BY <1>2, <2>1, <2>2, <2>3, Zenon DEF Linked!Insert, Goal
<1> QED
  BY <1>8 DEF Goal

(* The nodes that stay when v is erased, and the first of them behind p.   *)
Staying(h, l, c, v) == {i \in 1 .. l : h[c[i]].value # v}

SkipsTo(n, p, c, K) ==
  /\ (\A i \in K : ~(p < i)) => n = NULL
  /\ \A q \in K : p < q /\ (\A i \in K : p < i => q <= i) => n = c[q]

(* A skip from a place stops at the first place behind it that stays.      *)
LEMMA SkipFacts ==
  ASSUME NEW h, NEW f, NEW t, NEW s, NEW l \in Nat, NEW c, Holds(h, f, t, s, l, c),
         NEW v, NEW p \in 0 .. l
  PROVE  SkipsTo(Linked!Skip(h, After(c, l, p), v), p, c, Staying(h, l, c, v))
<1> DEFINE d == [k \in 1 .. l - p |-> c[p + k]]
           n == After(c, l, p)
           K == {i \in 1 .. l : h[c[i]].value # v}
           others == {k \in 1 .. l - p : h[c[p + k]].value # v}
           u == Linked!Min(others)
<1>1. Linked!From(h, n) = d
  BY RestIsMet
<1>2. DOMAIN d = 1 .. l - p /\ \A k \in 1 .. l - p : d[k] = c[p + k]
  OBVIOUS
<1>3. Linked!Skip(h, n, v) = IF others = {} THEN NULL ELSE d[u]
  <2>1. {k \in DOMAIN d : h[d[k]].value # v} = others
    BY <1>2, Zenon
  <2> HIDE DEF d, others, n
  <2> QED
    BY <1>1, <2>1, Zenon DEF Linked!Skip
<1>4. ASSUME NEW k \in others
      PROVE  k \in 1 .. l - p /\ p + k \in K /\ p < p + k
  BY SMT
<1>5. ASSUME NEW q \in K, p < q
      PROVE  q - p \in others /\ p + (q - p) = q
  <2>1. q \in 1 .. l /\ h[c[q]].value # v
    OBVIOUS
  <2>2. q - p \in 1 .. l - p /\ p + (q - p) = q
    BY <1>5, <2>1
  <2> QED
    BY <2>1, <2>2
<1>6. others # {} => u \in others /\ \A k \in others : u <= k
  <2>1. others \in SUBSET Nat
    BY SMT
  <2> HIDE DEF others
  <2> QED
    BY <2>1, MinFacts
<1> HIDE DEF d, others, u, n
<1>7. ASSUME \A i \in K : ~(p < i)
      PROVE  Linked!Skip(h, n, v) = NULL
  <2>1. others = {}
    BY <1>4, <1>7
  <2> QED
    BY <1>3, <2>1
<1>8. ASSUME NEW q \in K, p < q, \A i \in K : p < i => q <= i
      PROVE  Linked!Skip(h, n, v) = c[q]
  <2>1. others # {} /\ q - p \in others
    BY <1>5, <1>8
  <2>2. u \in others /\ u <= q - p
    BY <1>6, <2>1
  <2>3. u \in 1 .. l - p /\ q <= p + u
    BY <1>4, <1>8, <2>2
  <2>4. p + u = q
    <3>1. q \in 1 .. l
      OBVIOUS
    <3> QED
      BY <2>2, <2>3, <3>1
  <2> QED
    BY <1>2, <1>3, <2>1, <2>3, <2>4
<1> HIDE DEF K
<1>9. SkipsTo(Linked!Skip(h, n, v), p, c, K)
  BY <1>7, <1>8, Zenon DEF SkipsTo
<1> QED
  BY <1>9, Zenon DEF n, K, Staying

(* The places of the entries that stay follow each other.                  *)
Successive(m, ix, K) ==
  /\ \A j \in 1 .. m - 1 : ix[j] < ix[j + 1] /\ \A i \in K : ix[j] < i => ix[j + 1] <= i
  /\ m # 0 => \A i \in K : ~(ix[m] < i)
  /\ m # 0 => \A i \in K : ix[1] <= i
  /\ m = 0 => K = {}

(* Between two places of an enumeration there is none of the set.          *)
LEMMA NextPlace ==
  ASSUME NEW l \in Nat, NEW m \in Nat, NEW ix, NEW K, Enumerates(m, ix, l, K)
  PROVE  Successive(m, ix, K)
<1>1. /\ \A j \in 1 .. m : ix[j] \in 1 .. l
      /\ \A i, j \in 1 .. m : i < j => ix[i] < ix[j]
      /\ \A i \in K : \E j \in 1 .. m : ix[j] = i
  BY DEF Places, Enumerates
<1>2. \A i, j \in 1 .. m : i <= j => ix[i] <= ix[j]
  BY <1>1
<1>3. ASSUME NEW j \in 1 .. m - 1
      PROVE  ix[j] < ix[j + 1] /\ \A i \in K : ix[j] < i => ix[j + 1] <= i
  <2>1. j \in 1 .. m /\ j + 1 \in 1 .. m /\ j < j + 1
    OBVIOUS
  <2>2. ASSUME NEW i \in K, ix[j] < i
        PROVE  ix[j + 1] <= i
    <3>1. PICK k \in 1 .. m : ix[k] = i
      BY <1>1
    <3>2. ~(k <= j)
      BY <1>1, <1>2, <2>1, <2>2, <3>1
    <3>3. j + 1 <= k
      BY <3>2
    <3> QED
      BY <1>2, <2>1, <3>1, <3>3
  <2> QED
    BY <1>1, <2>1, <2>2
<1>4. ASSUME m # 0, NEW i \in K
      PROVE  ~(ix[m] < i) /\ ix[1] <= i
  <2>1. PICK k \in 1 .. m : ix[k] = i
    BY <1>1
  <2>2. 1 \in 1 .. m /\ m \in 1 .. m /\ 1 <= k /\ k <= m
    BY <1>4
  <2>3. ix[k] <= ix[m] /\ ix[1] <= ix[k]
    BY <1>2, <2>2
  <2> QED
    BY <1>1, <2>1, <2>2, <2>3
<1>5. m = 0 => K = {}
  BY <1>1
<1> QED
  BY <1>3, <1>4, <1>5, Zenon DEF Successive

LEMMA EraseKeeps ==
  ASSUME NEW l \in Nat, NEW c, Holds(heap, first, tail, mysize, l, c),
         NEW v \in LinkedEntries, Linked!Erase(v)
  PROVE  \E l1 \in Nat : \E c1, e1 :
           Keeps(Values(heap, l, c), l1, c1, e1) /\ ErasePromised(Values(heap, l, c), e1, v)
<1> DEFINE e == Values(heap, l, c)
           K == Staying(heap, l, c, v)
           gone == {n \in DOMAIN heap : heap[n].value = v}
           kept == {k \in DOMAIN c : c[k] \notin gone}
<1>1. HoldsFacts(heap, first, tail, mysize, l, c)
  BY HoldsParts
<1>2. /\ c \in [1 .. l -> DOMAIN heap] /\ DOMAIN c = 1 .. l
      /\ first = IF l = 0 THEN NULL ELSE c[1]
      /\ \A i \in 1 .. l : heap[c[i]].next = IF i = l THEN NULL ELSE c[i + 1]
      /\ \A i, j \in 1 .. l : c[i] = c[j] => i = j
      /\ \A m \in DOMAIN heap : \E i \in 1 .. l : c[i] = m
      /\ mysize = l
  BY <1>1 DEF HoldsFacts
<1>3. e \in Seq(Int) /\ Len(e) = l /\ \A i \in 1 .. l : e[i] = heap[c[i]].value
  <2>1. ValuesOf(e, heap, l, c)
    BY ValuesFacts, Zenon
  <2> HIDE DEF e
  <2> QED
    BY <2>1 DEF ValuesOf
<1>4. Linked!From(heap, first) = c
  BY HeadIsMet
<1>5. /\ heap' = [n \in DOMAIN heap \ gone |->
                    Linked!Node(heap[n].value, Linked!Skip(heap, heap[n].next, v))]
      /\ first' = Linked!Skip(heap, first, v)
      /\ tail' = IF kept = {} THEN NULL ELSE c[Linked!Max(kept)]
      /\ mysize' = mysize - Linked!Cardinality(gone)
      /\ answer' = IF gone = {} THEN 0 ELSE 1
  BY <1>4, Zenon DEF Linked!Erase
<1>6. \A i : i \in K <=> i \in 1 .. l /\ heap[c[i]].value # v
  BY DEF Staying
<1>7. K \in SUBSET (1 .. l)
  BY <1>6
<1> HIDE DEF K
<1>8. kept = K
  BY <1>2, <1>6
<1>9. PICK m \in Nat : \E ix : Enumerates(m, ix, l, K) /\ Picked(e, l, K) = Selected(e, m, ix)
  <2> HIDE DEF e
  <2> QED
    BY <1>3, <1>7, PlacesExist
<1>10. PICK ix : Enumerates(m, ix, l, K) /\ Picked(e, l, K) = Selected(e, m, ix)
  BY <1>9, Zenon
<1>11. /\ Places(m, ix, l)
       /\ \A j \in 1 .. m : ix[j] \in K
       /\ \A i \in K : \E j \in 1 .. m : ix[j] = i
  BY <1>10, Zenon DEF Enumerates
<1>12. Successive(m, ix, K)
  BY <1>10, NextPlace
<1>13. \A p \in 0 .. l : SkipsTo(Linked!Skip(heap, After(c, l, p), v), p, c, K)
  BY SkipFacts, Zenon DEF K
<1>14. \A j \in 1 .. m : ix[j] \in 1 .. l /\ c[ix[j]] \in DOMAIN heap \ gone
  BY <1>2, <1>6, <1>11
<1>15. ASSUME NEW n \in DOMAIN heap \ gone
       PROVE  \E j \in 1 .. m : n = c[ix[j]]
  <2>1. PICK i \in 1 .. l : c[i] = n
    BY <1>2
  <2>2. i \in K
    BY <1>6, <2>1
  <2> QED
    BY <1>11, <2>1, <2>2
<1>16. DOMAIN heap' = {c[ix[j]] : j \in 1 .. m}
  <2>1. DOMAIN heap' = DOMAIN heap \ gone
    BY <1>5
  <2> HIDE DEF gone
  <2> QED
    BY <1>14, <1>15, <2>1
<1>17. ASSUME NEW j \in 1 .. m
       PROVE  heap'[c[ix[j]]] = [value |-> heap[c[ix[j]]].value,
                                 next |-> IF j = m THEN NULL ELSE c[ix[j + 1]]]
  <2> DEFINE n == heap[c[ix[j]]].next
             x == IF j = m THEN NULL ELSE c[ix[j + 1]]
  <2>1. heap'[c[ix[j]]] = Linked!Node(heap[c[ix[j]]].value, Linked!Skip(heap, n, v))
    BY <1>5, <1>14
  <2>2. n = After(c, l, ix[j]) /\ ix[j] \in 0 .. l
    BY <1>2, <1>14 DEF After
  <2> HIDE DEF n
  <2>4. SkipsTo(Linked!Skip(heap, n, v), ix[j], c, K)
    BY <1>13, <2>2, Zenon
  <2>3. Linked!Skip(heap, n, v) = x
    <3>1. CASE j = m
      <4>1. m # 0
        BY <3>1
      <4>2. \A i \in K : ~(ix[j] < i)
        BY <1>12, <3>1, <4>1 DEF Successive
      <4> QED
        BY <2>4, <3>1, <4>2 DEF SkipsTo
    <3>2. CASE j # m
      <4>1. j \in 1 .. m - 1 /\ j + 1 \in 1 .. m
        BY <3>2
      <4>2. ix[j + 1] \in K /\ ix[j] < ix[j + 1] /\ \A i \in K : ix[j] < i => ix[j + 1] <= i
        BY <1>11, <1>12, <4>1 DEF Successive
      <4> QED
        BY <2>4, <3>2, <4>2 DEF SkipsTo
    <3> QED
      BY <3>1, <3>2
  <2> QED
    BY <2>1, <2>3, Zenon DEF Linked!Node
<1>18. first' = IF m = 0 THEN NULL ELSE c[ix[1]]
  <2>1. first = After(c, l, 0) /\ 0 \in 0 .. l
    BY <1>2 DEF After
  <2>2. \A i \in K : 0 < i
    BY <1>6
  <2>5. SkipsTo(Linked!Skip(heap, first, v), 0, c, K)
    BY <1>13, <2>1, Zenon
  <2>3. CASE m = 0
    <3>1. \A i \in K : ~(0 < i)
      BY <1>12, <2>3 DEF Successive
    <3>2. Linked!Skip(heap, first, v) = NULL
      BY <2>5, <3>1 DEF SkipsTo
    <3> QED
      BY <1>5, <2>3, <3>2
  <2>4. CASE m # 0
    <3>1. 1 \in 1 .. m
      BY <2>4
    <3>2. ix[1] \in K /\ 0 < ix[1] /\ \A i \in K : 0 < i => ix[1] <= i
      BY <1>11, <1>12, <2>2, <2>4, <3>1 DEF Successive
    <3>3. Linked!Skip(heap, first, v) = c[ix[1]]
      BY <2>5, <3>2 DEF SkipsTo
    <3> QED
      BY <1>5, <2>4, <3>3
  <2> QED
    BY <2>3, <2>4
<1>19. tail' = IF m = 0 THEN NULL ELSE c[ix[m]]
  <2>1. tail' = IF K = {} THEN NULL ELSE c[Linked!Max(K)]
    BY <1>5, <1>8, Zenon
  <2>2. CASE m = 0
    BY <1>12, <2>1, <2>2, Zenon DEF Successive
  <2>3. CASE m # 0
    <3>1. m \in 1 .. m
      BY <2>3
    <3>2. ix[m] \in K /\ K # {}
      BY <1>11, <3>1
    <3>3. Linked!Max(K) \in K /\ Linked!Max(K) >= ix[m]
      BY <1>7, <3>2, MaxFacts
    <3>4. ~(ix[m] < Linked!Max(K))
      BY <1>12, <2>3, <3>3 DEF Successive
    <3>5. Linked!Max(K) \in 1 .. l /\ ix[m] \in 1 .. l
      BY <1>7, <3>2, <3>3
    <3>6. Linked!Max(K) = ix[m]
      BY <3>3, <3>4, <3>5
    <3> QED
      BY <2>1, <2>3, <3>2, <3>6
  <2> QED
    BY <2>2, <2>3
<1>20. mysize' = m
  <2> DEFINE D == DOMAIN heap
             c1 == Selected(c, m, ix)
  <2>1. IsFiniteSet(D) /\ Cardinality(D) = l
    BY HeapSize
  <2>2. c1 \in [1 .. m -> D \ gone] /\ \A j \in 1 .. m : c1[j] = c[ix[j]]
    BY <1>14 DEF Selected
  <2>3. ASSUME NEW n \in D \ gone
        PROVE  \E j \in 1 .. m : c1[j] = n
    <3> HIDE DEF c1
    <3>1. PICK j \in 1 .. m : n = c[ix[j]]
      BY <1>15, Zenon
    <3>2. c1[j] = n
      BY <2>2, <3>1, Zenon
    <3> QED
      BY <3>2, Zenon
  <2>4. \A i, j \in 1 .. m : c1[i] = c1[j] => i = j
    <3>1. ASSUME NEW i \in 1 .. m, NEW j \in 1 .. m, c1[i] = c1[j]
          PROVE  i = j
      <4>1. ix[i] = ix[j]
        BY <1>2, <1>14, <2>2, <3>1
      <4>2. (i < j => ix[i] < ix[j]) /\ (j < i => ix[j] < ix[i])
        BY <1>11 DEF Places
      <4> QED
        BY <1>14, <4>1, <4>2
    <3> QED
      BY <3>1
  <2>5. D \intersect gone = gone
    OBVIOUS
  <2> DEFINE E == D \ gone
  <2> HIDE DEF D, gone, c1
  <2>6. Cardinality(E) = m
    <3>1. c1 \in [1 .. m -> E] /\ \A n \in E : \E j \in 1 .. m : c1[j] = n
      BY <2>2, <2>3
    <3> HIDE DEF E
    <3> QED
      BY <2>4, <3>1, Enumerated
  <2>7. Cardinality(D \ gone) = Cardinality(D) - Cardinality(D \intersect gone)
    BY <2>1, FS_Difference
  <2>8. IsFiniteSet(gone)
    BY <2>1, <2>5, FS_Intersection
  <2>9. Cardinality(gone) \in Nat
    BY <2>8, FS_CardinalityType
  <2>10. Linked!Cardinality(gone) = Cardinality(gone)
    BY Zenon DEF Linked!Cardinality, Cardinality
  <2> QED
    BY <1>2, <1>5, <2>1, <2>5, <2>6, <2>7, <2>9, <2>10
<1>21. Remains(heap, c, m, ix, heap', first', tail', mysize')
  <2> HIDE DEF gone, kept
  <2> QED
    BY <1>16, <1>17, <1>18, <1>19, <1>20, Zenon DEF Remains
<1>22. /\ Holds(heap', first', tail', mysize', m, Selected(c, m, ix))
       /\ Values(heap', m, Selected(c, m, ix)) = Selected(e, m, ix)
  BY <1>21, <1>11, RemainingHolds
<1>23. answer' = IF v \in Range(e) THEN 1 ELSE 0
  <2>1. DOMAIN e = 1 .. l
    BY <1>3
  <2>2. gone = {} <=> v \notin Range(e)
    <3>1. ASSUME NEW n \in gone
          PROVE  v \in Range(e)
      <4>1. PICK i \in 1 .. l : c[i] = n
        BY <1>2
      <4>2. e[i] = v
        BY <1>3, <4>1
      <4> HIDE DEF e
      <4> QED
        BY <2>1, <4>2, Zenon DEF Range
    <3>2. ASSUME v \in Range(e)
          PROVE  \E n : n \in gone
      <4> HIDE DEF e
      <4>1. PICK i \in 1 .. l : e[i] = v
        BY <2>1, <3>2, Zenon DEF Range
      <4>2. c[i] \in DOMAIN heap
        BY <1>2, Zenon
      <4>3. heap[c[i]].value = v
        BY <1>3, <4>1, Zenon
      <4>4. c[i] \in gone
        BY <4>2, <4>3, Zenon
      <4> QED
        BY <4>4, Zenon
    <3> QED
      BY <3>1, <3>2
  <2> HIDE DEF e, gone
  <2> QED
    BY <1>5, <2>2
<1>24. Without(e, v) = Selected(e, m, ix)
  <2>1. DOMAIN e = 1 .. l
    BY <1>3
  <2>2. ASSUME NEW i \in 1 .. l
        PROVE  MarkAt(e, K, i) = IF e[i] = v THEN << >> ELSE <<e[i]>>
    <3>1. i \in K <=> e[i] # v
      BY <1>3, <1>6
    <3> HIDE DEF e
    <3> QED
      BY <3>1, Zenon DEF MarkAt
  <2> HIDE DEF e
  <2>3. [i \in DOMAIN e |-> IF e[i] = v THEN << >> ELSE <<e[i]>>]
          = [i \in 1 .. l |-> MarkAt(e, K, i)]
    BY <2>1, <2>2, Zenon
  <2> QED
    BY <1>10, <2>3, Zenon DEF Without, Picked
<1> HIDE DEF e, gone, kept
<1> QED
  BY <1>22, <1>23, <1>24, Zenon DEF Keeps, ErasePromised, e

LEMMA GetKeeps ==
  ASSUME NEW l \in Nat, NEW c, Holds(heap, first, tail, mysize, l, c),
         NEW idx \in Indices, Linked!GetEntry(idx)
  PROVE  \E l1 \in Nat : \E c1, e1 :
           Keeps(Values(heap, l, c), l1, c1, e1) /\ GetPromised(Values(heap, l, c), e1, idx)
<1> DEFINE e == Values(heap, l, c)
<1>1. e \in Seq(Int) /\ Len(e) = l /\ \A i \in 1 .. l : e[i] = heap[c[i]].value
  <2>1. ValuesOf(e, heap, l, c)
    BY ValuesFacts, Zenon
  <2> HIDE DEF e
  <2> QED
    BY <2>1 DEF ValuesOf
<1>2. Linked!From(heap, first) = c /\ mysize = l
  BY HeadIsMet, HoldsParts DEF HoldsFacts
<1>3. idx \in Int
  BY ProgramsAssumption DEF Linked!LinkedAssumption
<1>4. /\ answer' = IF idx < 0 \/ idx >= l THEN -1 ELSE heap[c[idx + 1]].value
      /\ UNCHANGED <<heap, first, tail, mysize>>
  BY <1>2 DEF Linked!GetEntry
<1>5. answer' = IF idx \in 0 .. Len(e) - 1 THEN e[idx + 1] ELSE -1
  <2>1. CASE idx < 0 \/ idx >= l
    <3>1. ~(idx \in 0 .. Len(e) - 1)
      BY <1>1, <1>3, <2>1
    <3> QED
      BY <1>4, <2>1, <3>1
  <2>2. CASE ~(idx < 0 \/ idx >= l)
    <3>1. idx \in 0 .. Len(e) - 1 /\ idx + 1 \in 1 .. l
      BY <1>1, <1>3, <2>2
    <3> QED
      BY <1>1, <1>4, <2>2, <3>1
  <2> QED
    BY <2>1, <2>2
<1>6. GetPromised(e, e, idx)
  BY <1>5, Zenon DEF GetPromised
<1> QED
  BY <1>4, <1>6, UnchangedKeeps, Zenon

LEMMA ClearKeeps ==
  ASSUME NEW l \in Nat, NEW c, Holds(heap, first, tail, mysize, l, c), Linked!Clear
  PROVE  \E l1 \in Nat : \E c1, e1 :
           Keeps(Values(heap, l, c), l1, c1, e1) /\ ClearPromised(e1)
<1> DEFINE ix == [j \in 1 .. 0 |-> 1]
           e == Values(heap, l, c)
<1>1. Linked!From(heap, first) = c
  BY HeadIsMet
<1>2. /\ heap' = [n \in DOMAIN heap \ Linked!Range(c) |-> heap[n]]
      /\ first' = NULL /\ tail' = NULL /\ mysize' = 0 /\ answer' = None
  BY <1>1 DEF Linked!Clear
<1>3. DOMAIN heap \ Linked!Range(c) = {}
  <2>1. DOMAIN c = 1 .. l /\ \A n \in DOMAIN heap : \E i \in 1 .. l : c[i] = n
    BY HoldsParts DEF HoldsFacts
  <2> QED
    BY <2>1, Zenon DEF Linked!Range
<1>4. DOMAIN heap' = {}
  BY <1>2, <1>3
<1>5. Places(0, ix, l) /\ 1 .. 0 = {}
  BY DEF Places
<1>6. Selected(e, 0, ix) = << >>
  BY DEF Selected
<1> HIDE DEF ix
<1>7. DOMAIN heap' = {c[ix[j]] : j \in 1 .. 0}
  BY <1>4, <1>5, Zenon
<1>8. Remains(heap, c, 0, ix, heap', first', tail', mysize')
  BY <1>2, <1>5, <1>7, Zenon DEF Remains
<1>9. /\ Holds(heap', first', tail', mysize', 0, Selected(c, 0, ix))
      /\ Values(heap', 0, Selected(c, 0, ix)) = Selected(e, 0, ix)
  BY <1>5, <1>8, RemainingHolds, 0 \in Nat
<1> QED
  BY <1>2, <1>6, <1>9, 0 \in Nat, Zenon DEF Keeps, ClearPromised

(* What a call does is promised, whichever call it is.                     *)
Promises(e, e1) ==
  \/ \E v \in LinkedEntries :
       PushPromised(e, e1, v) \/ InsertPromised(e, e1, v) \/ ErasePromised(e, e1, v)
  \/ PopPromised(e, e1) \/ ClearPromised(e1)
  \/ \E idx \in Indices : GetPromised(e, e1, idx)

(* Every call keeps a chain and is promised.                               *)
LEMMA CallKeeps ==
  ASSUME NEW l \in Nat, NEW c, Holds(heap, first, tail, mysize, l, c), Linked!Next
  PROVE  \E l1 \in Nat : \E c1, e1 :
           Keeps(Values(heap, l, c), l1, c1, e1) /\ Promises(Values(heap, l, c), e1)
<1> DEFINE e == Values(heap, l, c)
           Goal == \E l1 \in Nat : \E c1, e1 : Keeps(e, l1, c1, e1) /\ Promises(e, e1)
<1>1. ASSUME NEW v \in LinkedEntries, Linked!Push(v)
      PROVE  Goal
  <2>1. \E l1 \in Nat : \E c1, e1 : Keeps(e, l1, c1, e1) /\ PushPromised(e, e1, v)
    BY <1>1, PushKeeps
  <2> QED
    BY <2>1, Zenon DEF Promises
<1>2. ASSUME NEW v \in LinkedEntries, Linked!Insert(v)
      PROVE  Goal
  <2>1. \E l1 \in Nat : \E c1, e1 : Keeps(e, l1, c1, e1) /\ InsertPromised(e, e1, v)
    BY <1>2, InsertKeeps
  <2> QED
    BY <2>1, Zenon DEF Promises
<1>3. ASSUME NEW v \in LinkedEntries, Linked!Erase(v)
      PROVE  Goal
  <2>1. \E l1 \in Nat : \E c1, e1 : Keeps(e, l1, c1, e1) /\ ErasePromised(e, e1, v)
    BY <1>3, EraseKeeps
  <2> QED
    BY <2>1, Zenon DEF Promises
<1>4. ASSUME Linked!Pop
      PROVE  Goal
  <2>1. \E l1 \in Nat : \E c1, e1 : Keeps(e, l1, c1, e1) /\ PopPromised(e, e1)
    BY <1>4, PopKeeps
  <2> QED
    BY <2>1, Zenon DEF Promises
<1>5. ASSUME Linked!Clear
      PROVE  Goal
  <2>1. \E l1 \in Nat : \E c1, e1 : Keeps(e, l1, c1, e1) /\ ClearPromised(e1)
    BY <1>5, ClearKeeps
  <2> QED
    BY <2>1, Zenon DEF Promises
<1>6. ASSUME NEW idx \in Indices, Linked!GetEntry(idx)
      PROVE  Goal
  <2>1. \E l1 \in Nat : \E c1, e1 : Keeps(e, l1, c1, e1) /\ GetPromised(e, e1, idx)
    BY <1>6, GetKeeps
  <2> QED
    BY <2>1, Zenon DEF Promises
<1>7. \/ \E v \in LinkedEntries : Linked!Push(v) \/ Linked!Insert(v) \/ Linked!Erase(v)
      \/ Linked!Pop \/ Linked!Clear
      \/ \E idx \in Indices : Linked!GetEntry(idx)
  BY DEF Linked!Next
<1> HIDE DEF Goal
<1>8. Goal
  BY <1>1, <1>2, <1>3, <1>4, <1>5, <1>6, <1>7, Zenon
<1> QED
  BY <1>8 DEF Goal

(* The entries of the abstract queue, as the refinement names them.        *)
Standing(h, f) ==
  [k \in DOMAIN Linked!From(h, f) |-> h[Linked!From(h, f)[k]].value]

(* They are the entries of the chain.                                      *)
LEMMA StandingFacts ==
  ASSUME NEW h, NEW f, NEW t, NEW s, NEW l \in Nat, NEW c, Holds(h, f, t, s, l, c)
  PROVE  Standing(h, f) = Values(h, l, c)
<1>1. Linked!From(h, f) = c
  BY HeadIsMet
<1>2. DOMAIN c = 1 .. l
  BY HoldsParts DEF HoldsFacts
<1> QED
  BY <1>1, <1>2, Zenon DEF Standing, Values

(* The empty queue holds the empty chain.                                  *)
LEMMA LinkedInvInit == Linked!Init => LinkedInv
<1> SUFFICES ASSUME Linked!Init PROVE LinkedInv
  OBVIOUS
<1> DEFINE c == [i \in 1 .. 0 |-> NULL]
<1>1. heap = << >> /\ first = NULL /\ tail = NULL /\ mysize = 0
  BY DEF Linked!Init
<1>2. DOMAIN heap = {} /\ 1 .. 0 = {} /\ c \in [1 .. 0 -> DOMAIN heap]
  BY <1>1
<1> HIDE DEF c
<1>3. Holds(heap, first, tail, mysize, 0, c)
  BY <1>1, <1>2, Zenon DEF Holds, ChainOf
<1> QED
  BY <1>3, 0 \in Nat, Zenon DEF LinkedInv

(* A call keeps the invariant, and is a call of the abstract queue.        *)
LEMMA LinkedStep ==
  ASSUME LinkedInv, Linked!Next
  PROVE  LinkedInv' /\ Promises(Standing(heap, first), Standing(heap', first'))
<1>1. PICK l \in Nat : \E c : Holds(heap, first, tail, mysize, l, c)
  BY Zenon DEF LinkedInv
<1>2. PICK c : Holds(heap, first, tail, mysize, l, c)
  BY <1>1, Zenon
<1>3. PICK l1 \in Nat : \E c1, e1 :
        Keeps(Values(heap, l, c), l1, c1, e1) /\ Promises(Values(heap, l, c), e1)
  BY <1>2, CallKeeps
<1>4. PICK c1, e1 :
        Keeps(Values(heap, l, c), l1, c1, e1) /\ Promises(Values(heap, l, c), e1)
  BY <1>3, Zenon
<1>5. Holds(heap', first', tail', mysize', l1, c1) /\ e1 = Values(heap', l1, c1)
  BY <1>4, Zenon DEF Keeps
<1>6. LinkedInv'
  BY <1>5, Zenon DEF LinkedInv
<1>7. Standing(heap, first) = Values(heap, l, c)
  BY <1>2, StandingFacts
<1>8. Standing(heap', first') = e1
  BY <1>5, StandingFacts
<1> QED
  BY <1>4, <1>6, <1>7, <1>8, Zenon

(* The invariant is inductive.                                             *)
LEMMA LinkedInvStep == LinkedInv /\ [Linked!Next]_(Linked!vars) => LinkedInv'
<1>1. LinkedInv /\ Linked!Next => LinkedInv'
  BY LinkedStep
<1>2. LinkedInv /\ UNCHANGED Linked!vars => LinkedInv'
  <2> SUFFICES ASSUME LinkedInv, UNCHANGED Linked!vars PROVE LinkedInv'
    OBVIOUS
  <2>1. heap' = heap /\ first' = first /\ tail' = tail /\ mysize' = mysize
    BY DEF Linked!vars
  <2> QED
    BY <2>1, Zenon DEF LinkedInv
<1> QED
  BY <1>1, <1>2

(* The head, the tail, the counter and the heap of the linked queue agree  *)
(* after every call: the chain from the head has as many nodes as the      *)
(* counter says, ends at the tail and holds all that is allocated, for any *)
(* integers, any positions asked for and any number of nodes.              *)
THEOREM LinkedIsWell == Linked!Spec => []WellLinked
<1>1. LinkedInv => WellLinked
  <2> SUFFICES ASSUME LinkedInv PROVE WellLinked
    OBVIOUS
  <2>1. PICK l \in Nat : \E c : Holds(heap, first, tail, mysize, l, c)
    BY Zenon DEF LinkedInv
  <2>2. PICK c : Holds(heap, first, tail, mysize, l, c)
    BY <2>1, Zenon
  <2> QED
    BY <2>2, HoldsLinked
<1> QED
  BY <1>1, LinkedInvInit, LinkedInvStep, PTL DEF Linked!Spec

(* A promised call is a step of the abstract queue.                        *)
LEMMA PromisedStep ==
  Promises(Standing(heap, first), Standing(heap', first')) => Linked!Promised!Next
<1> DEFINE e == Standing(heap, first)
           e1 == Standing(heap', first')
<1>1. ASSUME NEW v \in LinkedEntries, PushPromised(e, e1, v)
      PROVE  Linked!Promised!Push(v)
  <2> USE <1>1 DEF PushPromised
  <2> QED
    BY Zenon DEF Linked!Promised!Push, Linked!Promised!Refused, Standing
<1>2. ASSUME NEW v \in LinkedEntries, InsertPromised(e, e1, v)
      PROVE  Linked!Promised!Insert(v)
  <2>1. \A s, i, x : Linked!Promised!InsertAt(s, i, x) = InsertAt(s, i, x)
    BY Zenon DEF Linked!Promised!InsertAt, InsertAt
  <2> QED
    BY <1>2, <2>1, Zenon
       DEF InsertPromised, Linked!Promised!Insert, Linked!Promised!Refused, Standing
<1>3. ASSUME NEW v \in LinkedEntries, ErasePromised(e, e1, v)
      PROVE  Linked!Promised!Erase(v)
  <2>1. \A s : Linked!Promised!FlattenSeq(s) = FlattenSeq(s)
    BY Zenon DEF Linked!Promised!FlattenSeq, FlattenSeq
  <2>2. \A s : Linked!Promised!Range(s) = Range(s)
    BY Zenon DEF Linked!Promised!Range, Range
  <2> QED
    BY <1>3, <2>1, <2>2, Zenon DEF ErasePromised, Without, Linked!Promised!Erase, Standing
<1>4. ASSUME PopPromised(e, e1)
      PROVE  Linked!Promised!Pop
  BY <1>4, Zenon DEF PopPromised, Linked!Promised!Pop, Standing
<1>5. ASSUME ClearPromised(e1)
      PROVE  Linked!Promised!Clear
  BY <1>5, Zenon DEF ClearPromised, Linked!Promised!Clear, Standing
<1>6. ASSUME NEW idx \in Indices, GetPromised(e, e1, idx)
      PROVE  Linked!Promised!GetEntry(idx)
  BY <1>6, Zenon DEF GetPromised, Linked!Promised!GetEntry, Standing
<1> HIDE DEF e, e1
<1>7. Promises(e, e1) => Linked!Promised!Next
  BY <1>1, <1>2, <1>3, <1>4, <1>5, <1>6, Zenon DEF Promises, Linked!Promised!Next
<1> QED
  BY <1>7 DEF e, e1

(* Call by call the linked queue does what its header promises.            *)
THEOREM LinkedIsImplemented == Linked!Spec => ImplementsOrderedQueue
<1> DEFINE e == [k \in DOMAIN Linked!From(heap, first) |->
                   heap[Linked!From(heap, first)[k]].value]
<1>1. Linked!Init => Linked!Promised!Init
  <2> SUFFICES ASSUME Linked!Init PROVE e = << >> /\ answer = None
    BY DEF Linked!Promised!Init
  <2>1. heap = << >> /\ answer = None
    BY DEF Linked!Init
  <2>2. PICK l \in Nat : \E c : Holds(heap, first, tail, mysize, l, c)
    BY LinkedInvInit, Zenon DEF LinkedInv
  <2>3. PICK c : Holds(heap, first, tail, mysize, l, c)
    BY <2>2, Zenon
  <2>4. Linked!From(heap, first) = c /\ c \in [1 .. l -> DOMAIN heap]
    BY <2>3, HeadIsMet, HoldsParts DEF HoldsFacts
  <2>5. DOMAIN heap = {}
    BY <2>1
  <2>6. l = 0
    <3>1. 1 \in 1 .. l => c[1] \in DOMAIN heap
      BY <2>4
    <3> QED
      BY <2>5, <3>1
  <2> QED
    BY <2>1, <2>4, <2>6
<1>2. LinkedInv /\ [Linked!Next]_(Linked!vars)
        => [Linked!Promised!Next]_(Linked!Promised!vars)
  <2>1. ASSUME LinkedInv, Linked!Next
        PROVE  Linked!Promised!Next
    BY <2>1, LinkedStep, PromisedStep
  <2>2. ASSUME UNCHANGED Linked!vars
        PROVE  UNCHANGED Linked!Promised!vars
    BY <2>2 DEF Linked!vars, Linked!Promised!vars
  <2> QED
    BY <2>1, <2>2
<1> QED
  BY <1>1, <1>2, LinkedInvInit, LinkedInvStep, PTL
     DEF Linked!Spec, ImplementsOrderedQueue, Linked!ImplementsOrderedQueue, Linked!Promised!Spec

-----------------------------------------------------------------------------
(* The search for a pattern                                                *)

(* A state of the search.                                                  *)
SearchStates ==
  [reading : BOOLEAN, patterncounter : Nat, print : BOOLEAN, counter : Nat,
   remember : Seq(Nat)]

(* What a character does to it.                                            *)
Fits(s, rchr, pattern) ==
  s.patterncounter + 1 \in DOMAIN pattern /\ rchr = pattern[s.patterncounter + 1]
LastFits(s, rchr, pattern) ==
  s.reading /\ Fits(s, rchr, pattern) /\ s.patterncounter + 1 = Len(pattern)
Remembers(s, rchr, pattern) ==
  /\ s.reading /\ Fits(s, rchr, pattern)
  /\ s.patterncounter + 1 # Len(pattern) /\ rchr = pattern[1]
GoesOn(s, rchr, pattern) ==
  IF s.reading THEN Fits(s, rchr, pattern) /\ s.patterncounter + 1 # Len(pattern)
               ELSE rchr = pattern[1]
BeginsAgain(s, rchr, pattern) ==
  s.reading /\ ~Fits(s, rchr, pattern) /\ rchr = pattern[1]

ReadDoes(s, s1, rchr, pattern) ==
  /\ s1 \in SearchStates
  /\ s1.counter = s.counter + 1
  /\ s1.print <=> s.print \/ LastFits(s, rchr, pattern)
  /\ s1.remember = IF Remembers(s, rchr, pattern) THEN Append(s.remember, s.counter)
                                                  ELSE s.remember
  /\ s1.reading <=> GoesOn(s, rchr, pattern) \/ BeginsAgain(s, rchr, pattern)
  /\ GoesOn(s, rchr, pattern) => s1.patterncounter = s.patterncounter + 1
  /\ BeginsAgain(s, rchr, pattern) => s1.patterncounter = 1
  /\ s1.reading \/ s1.patterncounter = 0
     \/ (~s.reading /\ s1.patterncounter = s.patterncounter)

(* A state by its parts.                                                   *)
SearchState(r, k, p, c, m) ==
  [reading |-> r, patterncounter |-> k, print |-> p, counter |-> c, remember |-> m]

(* A character does this.                                                  *)
LEMMA ReadFacts ==
  ASSUME NEW s \in SearchStates, NEW rchr, NEW pattern
  PROVE  ReadDoes(s, Search!Read(s, rchr, pattern), rchr, pattern)
<1> DEFINE s1 == Search!Read(s, rchr, pattern)
<1>1. /\ s.reading \in BOOLEAN /\ s.patterncounter \in Nat /\ s.print \in BOOLEAN
      /\ s.counter \in Nat /\ s.remember \in Seq(Nat)
      /\ s = [reading |-> s.reading, patterncounter |-> s.patterncounter,
              print |-> s.print, counter |-> s.counter, remember |-> s.remember]
  BY DEF SearchStates
<1>2. Append(s.remember, s.counter) \in Seq(Nat)
  BY <1>1
<1>3. s.patterncounter + 1 \in Nat /\ s.counter + 1 \in Nat /\ 0 \in Nat /\ 1 \in Nat
  BY <1>1
<1>4. CASE ~s.reading /\ rchr = pattern[1]
  <2> DEFINE t == SearchState(TRUE, s.patterncounter + 1, s.print, s.counter + 1, s.remember)
  <2>1. s1 = t
    BY <1>1, <1>4 DEF SearchState, Search!Read
  <2>2. /\ t \in SearchStates /\ t.reading = TRUE /\ t.patterncounter = s.patterncounter + 1
        /\ t.print = s.print /\ t.counter = s.counter + 1 /\ t.remember = s.remember
    BY <1>1, <1>2, <1>3 DEF SearchState, SearchStates
  <2> HIDE DEF t, s1
  <2>3. ReadDoes(s, t, rchr, pattern)
    BY <1>1, <1>4, <2>2 DEF ReadDoes, LastFits, Remembers, GoesOn, BeginsAgain
  <2>4. ReadDoes(s, s1, rchr, pattern)
    BY <2>1, <2>3, Zenon
  <2> QED
    BY <2>4, Zenon DEF s1
<1>5. CASE ~s.reading /\ rchr # pattern[1]
  <2> DEFINE t == SearchState(FALSE, s.patterncounter, s.print, s.counter + 1, s.remember)
  <2>1. s1 = t
    BY <1>1, <1>5 DEF SearchState, Search!Read
  <2>2. /\ t \in SearchStates /\ t.reading = FALSE /\ t.patterncounter = s.patterncounter
        /\ t.print = s.print /\ t.counter = s.counter + 1 /\ t.remember = s.remember
    BY <1>1, <1>2, <1>3 DEF SearchState, SearchStates
  <2> HIDE DEF t, s1
  <2>3. ReadDoes(s, t, rchr, pattern)
    BY <1>1, <1>5, <2>2 DEF ReadDoes, LastFits, Remembers, GoesOn, BeginsAgain
  <2>4. ReadDoes(s, s1, rchr, pattern)
    BY <2>1, <2>3, Zenon
  <2> QED
    BY <2>4, Zenon DEF s1
<1>6. CASE s.reading /\ ~Fits(s, rchr, pattern) /\ rchr = pattern[1]
  <2> DEFINE t == SearchState(TRUE, 1, s.print, s.counter + 1, s.remember)
  <2>1. s1 = t
    BY <1>1, <1>6 DEF SearchState, Search!Read, Fits
  <2>2. /\ t \in SearchStates /\ t.reading = TRUE /\ t.patterncounter = 1
        /\ t.print = s.print /\ t.counter = s.counter + 1 /\ t.remember = s.remember
    BY <1>1, <1>2, <1>3 DEF SearchState, SearchStates
  <2> HIDE DEF t, s1
  <2>3. ReadDoes(s, t, rchr, pattern)
    BY <1>1, <1>6, <2>2 DEF ReadDoes, LastFits, Remembers, GoesOn, BeginsAgain
  <2>4. ReadDoes(s, s1, rchr, pattern)
    BY <2>1, <2>3, Zenon
  <2> QED
    BY <2>4, Zenon DEF s1
<1>7. CASE s.reading /\ ~Fits(s, rchr, pattern) /\ rchr # pattern[1]
  <2> DEFINE t == SearchState(FALSE, 0, s.print, s.counter + 1, s.remember)
  <2>1. s1 = t
    BY <1>1, <1>7 DEF SearchState, Search!Read, Fits
  <2>2. /\ t \in SearchStates /\ t.reading = FALSE /\ t.patterncounter = 0
        /\ t.print = s.print /\ t.counter = s.counter + 1 /\ t.remember = s.remember
    BY <1>1, <1>2, <1>3 DEF SearchState, SearchStates
  <2> HIDE DEF t, s1
  <2>3. /\ ~LastFits(s, rchr, pattern) /\ ~Remembers(s, rchr, pattern)
        /\ ~GoesOn(s, rchr, pattern) /\ ~BeginsAgain(s, rchr, pattern)
    BY <1>7, Zenon DEF LastFits, Remembers, GoesOn, BeginsAgain
  <2>4. ReadDoes(s, t, rchr, pattern)
    BY <1>1, <2>2, <2>3 DEF ReadDoes
  <2>5. ReadDoes(s, s1, rchr, pattern)
    BY <2>1, <2>4, Zenon
  <2> QED
    BY <2>5, Zenon DEF s1
<1>8. CASE LastFits(s, rchr, pattern)
  <2> DEFINE t == SearchState(FALSE, 0, TRUE, s.counter + 1, s.remember)
  <2>1. s1 = t
    BY <1>1, <1>8 DEF SearchState, Search!Read, Fits, LastFits
  <2>2. /\ t \in SearchStates /\ t.reading = FALSE /\ t.patterncounter = 0
        /\ t.print = TRUE /\ t.counter = s.counter + 1 /\ t.remember = s.remember
    BY <1>1, <1>2, <1>3 DEF SearchState, SearchStates
  <2> HIDE DEF t, s1
  <2>3. /\ LastFits(s, rchr, pattern) /\ ~Remembers(s, rchr, pattern)
        /\ ~GoesOn(s, rchr, pattern) /\ ~BeginsAgain(s, rchr, pattern)
    BY <1>8, Zenon DEF LastFits, Remembers, GoesOn, BeginsAgain
  <2>4. ReadDoes(s, t, rchr, pattern)
    BY <1>1, <2>2, <2>3 DEF ReadDoes
  <2>5. ReadDoes(s, s1, rchr, pattern)
    BY <2>1, <2>4, Zenon
  <2> QED
    BY <2>5, Zenon DEF s1
<1>9. CASE Remembers(s, rchr, pattern)
  <2> DEFINE t == SearchState(TRUE, s.patterncounter + 1, s.print, s.counter + 1, Append(s.remember, s.counter))
  <2>1. s1 = t
    BY <1>1, <1>9 DEF SearchState, Search!Read, Fits, Remembers
  <2>2. /\ t \in SearchStates /\ t.reading = TRUE /\ t.patterncounter = s.patterncounter + 1
        /\ t.print = s.print /\ t.counter = s.counter + 1 /\ t.remember = Append(s.remember, s.counter)
    BY <1>1, <1>2, <1>3 DEF SearchState, SearchStates
  <2> HIDE DEF t, s1
  <2>3. ReadDoes(s, t, rchr, pattern)
    BY <1>1, <1>9, <2>2 DEF ReadDoes, LastFits, Remembers, GoesOn, BeginsAgain
  <2>4. ReadDoes(s, s1, rchr, pattern)
    BY <2>1, <2>3, Zenon
  <2> QED
    BY <2>4, Zenon DEF s1
<1>10. CASE /\ s.reading /\ Fits(s, rchr, pattern)
           /\ s.patterncounter + 1 # Len(pattern) /\ rchr # pattern[1]
  <2> DEFINE t == SearchState(TRUE, s.patterncounter + 1, s.print, s.counter + 1, s.remember)
  <2>1. s1 = t
    BY <1>1, <1>10 DEF SearchState, Search!Read, Fits
  <2>2. /\ t \in SearchStates /\ t.reading = TRUE /\ t.patterncounter = s.patterncounter + 1
        /\ t.print = s.print /\ t.counter = s.counter + 1 /\ t.remember = s.remember
    BY <1>1, <1>2, <1>3 DEF SearchState, SearchStates
  <2> HIDE DEF t, s1
  <2>3. ReadDoes(s, t, rchr, pattern)
    BY <1>1, <1>10, <2>2 DEF ReadDoes, LastFits, Remembers, GoesOn, BeginsAgain
  <2>4. ReadDoes(s, s1, rchr, pattern)
    BY <2>1, <2>3, Zenon
  <2> QED
    BY <2>4, Zenon DEF s1
<1> QED
  BY <1>4, <1>5, <1>6, <1>7, <1>8, <1>9, <1>10 DEF LastFits, Remembers

(* The states of the search, one behind each character.                    *)
Searching(line, pattern, n, f) ==
  f = [i \in 0 .. n |-> IF i = 0 THEN Search!Start
                        ELSE Search!Read(f[i - 1], line[i], pattern)]

(* There are such states, one after the other.                             *)
LEMMA SearchingExists ==
  ASSUME NEW line, NEW pattern, NEW n \in Nat
  PROVE  \E f : Searching(line, pattern, n, f)
<1> DEFINE P == {k \in 0 .. n : \E f : Searching(line, pattern, k, f)}
<1>1. 0 \in P
  <2> DEFINE e == [i \in 0 .. 0 |-> Search!Start]
  <2>1. \A i \in 0 .. 0 : i = 0
    BY SMT
  <2>2. e = [i \in 0 .. 0 |-> IF i = 0 THEN Search!Start
                              ELSE Search!Read(e[i - 1], line[i], pattern)]
    BY <2>1, Zenon
  <2>3. Searching(line, pattern, 0, e)
    BY <2>2, Zenon DEF Searching
  <2>4. 0 \in 0 .. n
    OBVIOUS
  <2> QED
    BY <2>3, <2>4, Zenon
<1>2. \A k \in 1 .. n : k - 1 \in P => k \in P
  <2> TAKE k \in 1 .. n
  <2> HAVE k - 1 \in P
  <2>1. PICK f : Searching(line, pattern, k - 1, f)
    OBVIOUS
  <2> DEFINE g == [i \in 0 .. k |-> IF i = k THEN Search!Read(f[k - 1], line[k], pattern)
                                    ELSE f[i]]
             h == [i \in 0 .. k |-> IF i = 0 THEN Search!Start
                                    ELSE Search!Read(g[i - 1], line[i], pattern)]
  <2>2. ASSUME NEW i \in 0 .. k
        PROVE  g[i] = h[i]
    <3>1. i # 0 => i - 1 \in 0 .. k /\ i - 1 # k
      OBVIOUS
    <3>2. i # 0 => g[i - 1] = f[i - 1]
      BY <3>1, Zenon
    <3>3. i # k => i \in 0 .. k - 1
      OBVIOUS
    <3>4. i # k => f[i] = IF i = 0 THEN Search!Start
                          ELSE Search!Read(f[i - 1], line[i], pattern)
      BY <2>1, <3>3, Zenon DEF Searching
    <3>5. h[i] = IF i = 0 THEN Search!Start ELSE Search!Read(g[i - 1], line[i], pattern)
      BY Zenon
    <3>6. g[i] = IF i = k THEN Search!Read(f[k - 1], line[k], pattern) ELSE f[i]
      BY Zenon
    <3>7. k # 0
      OBVIOUS
    <3> HIDE DEF g, h
    <3> QED
      BY <3>2, <3>4, <3>5, <3>6, <3>7, Zenon
  <2>3. g = h
    BY <2>2, Zenon
  <2>4. Searching(line, pattern, k, g)
    BY <2>3, Zenon DEF Searching
  <2>5. k \in 0 .. n
    OBVIOUS
  <2> HIDE DEF g
  <2> QED
    BY <2>4, <2>5, Zenon
<1>3. n \in P
  <2> HIDE DEF P
  <2> QED
    BY <1>1, <1>2, Induction, Zenon
<1> QED
  BY <1>3, Zenon

(* They are those of the model.                                            *)
LEMMA StatesUnfold ==
  ASSUME NEW line, NEW pattern, Len(line) \in Nat
  PROVE  /\ Search!States(line, pattern)[0] = Search!Start
         /\ \A i \in 1 .. Len(line) : Search!States(line, pattern)[i] =
              Search!Read(Search!States(line, pattern)[i - 1], line[i], pattern)
<1> DEFINE f == Search!States(line, pattern)
<1>1. f = CHOOSE g : g = [i \in 0 .. Len(line) |-> IF i = 0 THEN Search!Start
                            ELSE Search!Read(g[i - 1], line[i], pattern)]
  BY Zenon DEF Search!States
<1>2. \E g : g = [i \in 0 .. Len(line) |-> IF i = 0 THEN Search!Start
                    ELSE Search!Read(g[i - 1], line[i], pattern)]
  <2>1. \E g : Searching(line, pattern, Len(line), g)
    BY SearchingExists
  <2> QED
    BY <2>1, Zenon DEF Searching
<1> HIDE DEF f
<1>3. f = [i \in 0 .. Len(line) |-> IF i = 0 THEN Search!Start
             ELSE Search!Read(f[i - 1], line[i], pattern)]
  BY <1>1, <1>2, Zenon
<1>4. 0 \in 0 .. Len(line) /\ \A i \in 1 .. Len(line) : i \in 0 .. Len(line) /\ i # 0
  OBVIOUS
<1>5. f[0] = Search!Start /\ \A i \in 1 .. Len(line) :
        f[i] = Search!Read(f[i - 1], line[i], pattern)
  BY <1>3, <1>4, Zenon
<1> QED
  BY <1>5 DEF f

(* Behind n characters: the try that is going on has found as many         *)
(* characters of the pattern as its counter says, the last ones read;      *)
TryGoesOn(line, pattern, n, s) ==
  /\ s.patterncounter \in 1 .. n /\ s.patterncounter <= Len(pattern)
  /\ Len(pattern) > 1 => s.patterncounter < Len(pattern)
  /\ \A c \in 1 .. s.patterncounter : line[n - s.patterncounter + c] = pattern[c]
Tried(line, pattern, n, s) ==
  /\ s \in SearchStates /\ s.counter = n
  /\ ~s.reading => s.patterncounter = 0
  /\ s.reading => TryGoesOn(line, pattern, n, s)
(* what is to be printed is in the line;                                   *)
Occurs(line, pattern) == \E place \in 0 .. Len(line) : Search!OccursAt(line, pattern, place)
NoneInvented(line, pattern, s) ==
  /\ s.print => Len(pattern) > 1 /\ Occurs(line, pattern)
  /\ s.remember # << >> => Len(pattern) > 1
(* and a place where the pattern is has been found, or is remembered, or is*)
(* where the try began.                                                    *)
Caught(place, n, s) ==
  \/ s.print \/ \E i \in DOMAIN s.remember : s.remember[i] = place
  \/ (s.reading /\ place = n - s.patterncounter)
NoneMissed(line, pattern, n, s) ==
  Len(pattern) > 1 =>
    \A place \in 0 .. n - 1 : Search!OccursAt(line, pattern, place) => Caught(place, n, s)

(* A character keeps the first two,                                        *)
LEMMA TriedStep ==
  ASSUME NEW S, NEW line \in Seq(S), NEW pattern \in Seq(S), pattern # << >>,
         NEW n \in 0 .. Len(line) - 1, NEW s, NEW s1,
         Tried(line, pattern, n, s), NoneInvented(line, pattern, s),
         ReadDoes(s, s1, line[n + 1], pattern)
  PROVE  Tried(line, pattern, n + 1, s1) /\ NoneInvented(line, pattern, s1)
<1> DEFINE rchr == line[n + 1]
           k == s.patterncounter + 1
           L == Len(pattern)
<1>1. /\ s.reading \in BOOLEAN /\ s.patterncounter \in Nat /\ s.print \in BOOLEAN
      /\ s.counter \in Nat /\ s.remember \in Seq(Nat)
  BY DEF Tried, SearchStates
<1>2. /\ s1 \in SearchStates
      /\ s1.reading \in BOOLEAN /\ s1.patterncounter \in Nat /\ s1.print \in BOOLEAN
      /\ s1.counter \in Nat /\ s1.remember \in Seq(Nat)
  BY DEF ReadDoes, SearchStates
<1>3. L \in Nat \ {0} /\ DOMAIN pattern = 1 .. L /\ Len(line) \in Nat /\ n \in Nat
  OBVIOUS
<1>4. s1.counter = n + 1
  BY DEF ReadDoes, Tried
<1>5. /\ ~s.reading => s.patterncounter = 0
      /\ s.reading => TryGoesOn(line, pattern, n, s)
  BY DEF Tried
<1>6. ASSUME GoesOn(s, rchr, pattern)
      PROVE  s1.reading /\ TryGoesOn(line, pattern, n + 1, s1)
  <2>1. s1.patterncounter = k /\ s1.reading
    BY <1>6 DEF ReadDoes
  <2>2. CASE s.reading
    <3>1. Fits(s, rchr, pattern) /\ k # L /\ TryGoesOn(line, pattern, n, s)
      BY <1>5, <1>6, <2>2 DEF GoesOn
    <3>2. k \in 1 .. L /\ rchr = pattern[k]
      BY <1>3, <3>1 DEF Fits
    <3>3. /\ s.patterncounter \in 1 .. n
          /\ \A c \in 1 .. s.patterncounter : line[n - s.patterncounter + c] = pattern[c]
      BY <3>1 DEF TryGoesOn
    <3>4. ASSUME NEW c \in 1 .. k
          PROVE  line[(n + 1) - k + c] = pattern[c]
      <4>1. (n + 1) - k + c = n - s.patterncounter + c
        <5>1. s.patterncounter \in Nat /\ n \in Nat /\ c \in Int
          BY <1>1, <1>3
        <5> QED
          BY ONLY <5>1
      <4>2. CASE c = k
        <5>1. (n + 1) - k + c = n + 1
          BY <1>1, <1>3, <4>2
        <5> QED
          BY <3>2, <4>2, <5>1
      <4>3. CASE c # k
        <5>1. c \in 1 .. s.patterncounter
          BY <1>1, <4>3
        <5> QED
          BY <3>3, <4>1, <5>1
      <4> QED
        BY <4>2, <4>3
    <3>5. k \in 1 .. n + 1 /\ k <= L /\ k < L
      BY <1>1, <1>3, <3>1, <3>2, <3>3
    <3> HIDE DEF k, L
    <3> QED
      BY <2>1, <3>4, <3>5 DEF TryGoesOn, L
  <2>3. CASE ~s.reading
    <3>1. rchr = pattern[1] /\ k = 1
      BY <1>5, <1>6, <2>3 DEF GoesOn
    <3>2. \A c \in 1 .. 1 : line[(n + 1) - 1 + c] = pattern[c]
      <4>1. \A c \in 1 .. 1 : c = 1 /\ (n + 1) - 1 + c = n + 1
        BY <1>3
      <4> QED
        BY <3>1, <4>1
    <3> QED
      BY <1>3, <2>1, <3>1, <3>2 DEF TryGoesOn
  <2> QED
    BY <1>1, <2>2, <2>3
<1>7. ASSUME BeginsAgain(s, rchr, pattern)
      PROVE  s1.reading /\ TryGoesOn(line, pattern, n + 1, s1)
  <2>1. s1.patterncounter = 1 /\ s1.reading /\ rchr = pattern[1]
    BY <1>7 DEF ReadDoes, BeginsAgain
  <2>2. \A c \in 1 .. 1 : line[(n + 1) - 1 + c] = pattern[c]
    <3>1. \A c \in 1 .. 1 : c = 1 /\ (n + 1) - 1 + c = n + 1
      BY <1>3
    <3> QED
      BY <2>1, <3>1
  <2> QED
    BY <1>3, <2>1, <2>2 DEF TryGoesOn
<1>8. s1.reading => TryGoesOn(line, pattern, n + 1, s1)
  BY <1>6, <1>7 DEF ReadDoes
<1>9. ~s1.reading => s1.patterncounter = 0
  BY <1>1, <1>5 DEF ReadDoes
<1>10. ASSUME LastFits(s, rchr, pattern)
       PROVE  L > 1 /\ Occurs(line, pattern)
  <2>1. k = L /\ rchr = pattern[k] /\ TryGoesOn(line, pattern, n, s)
    BY <1>5, <1>10 DEF LastFits, Fits
  <2>2. /\ s.patterncounter \in 1 .. n
        /\ \A c \in 1 .. s.patterncounter : line[n - s.patterncounter + c] = pattern[c]
    BY <2>1 DEF TryGoesOn
  <2> DEFINE place == n - s.patterncounter
  <2>3. place \in 0 .. Len(line) /\ place + L <= Len(line) /\ L > 1
    BY <1>1, <1>3, <2>1, <2>2
  <2>4. ASSUME NEW c \in 1 .. L
        PROVE  line[place + c] = pattern[c]
    <3>1. CASE c = L
      <4>1. place + c = n + 1
        BY <1>1, <1>3, <2>1, <3>1
      <4> QED
        BY <2>1, <3>1, <4>1
    <3>2. CASE c # L
      <4>1. s.patterncounter + 1 = L /\ s.patterncounter \in Nat
        BY <1>1, <2>1
      <4>2. c \in 1 .. s.patterncounter
        <5> HIDE DEF L
        <5> QED
          BY <3>2, <4>1
      <4> QED
        BY <2>2, <4>2
    <3> QED
      BY <3>1, <3>2
  <2>5. Search!OccursAt(line, pattern, place)
    BY <1>3, <2>3, <2>4 DEF Search!OccursAt
  <2> HIDE DEF place
  <2> QED
    BY <2>3, <2>5, Zenon DEF Occurs
<1>11. Remembers(s, rchr, pattern) => L > 1
  <2> SUFFICES ASSUME Remembers(s, rchr, pattern) PROVE L > 1
    OBVIOUS
  <2>1. k # L /\ k \in 1 .. L /\ TryGoesOn(line, pattern, n, s)
    BY <1>3, <1>5 DEF Remembers, Fits
  <2> QED
    BY <1>1, <1>3, <2>1
<1>12. s1.remember # << >> => s.remember # << >> \/ Remembers(s, rchr, pattern)
  BY Zenon DEF ReadDoes
<1>13. s1.print => s.print \/ LastFits(s, rchr, pattern)
  BY Zenon DEF ReadDoes
<1> HIDE DEF rchr, L
<1>14. NoneInvented(line, pattern, s1)
  BY <1>10, <1>11, <1>12, <1>13, Zenon DEF NoneInvented, L
<1> QED
  BY <1>2, <1>4, <1>8, <1>9, <1>14, Zenon DEF Tried

(* and the third.                                                          *)
LEMMA MissedStep ==
  ASSUME NEW S, NEW line \in Seq(S), NEW pattern \in Seq(S), Len(pattern) > 1,
         NEW n \in 0 .. Len(line) - 1, NEW s, NEW s1,
         Tried(line, pattern, n, s), NoneMissed(line, pattern, n, s),
         ReadDoes(s, s1, line[n + 1], pattern)
  PROVE  NoneMissed(line, pattern, n + 1, s1)
<1> DEFINE rchr == line[n + 1]
           k == s.patterncounter + 1
           L == Len(pattern)
<1>1. /\ s.reading \in BOOLEAN /\ s.patterncounter \in Nat /\ s.print \in BOOLEAN
      /\ s.counter = n /\ s.remember \in Seq(Nat)
  BY DEF Tried, SearchStates
<1>2. /\ s1.reading \in BOOLEAN /\ s1.patterncounter \in Nat /\ s1.print \in BOOLEAN
      /\ s1.counter \in Nat /\ s1.remember \in Seq(Nat)
  BY DEF ReadDoes, SearchStates
<1>3. L \in Nat \ {0} /\ DOMAIN pattern = 1 .. L /\ Len(line) \in Nat /\ n \in Nat
  OBVIOUS
<1>4. /\ ~s.reading => s.patterncounter = 0
      /\ s.reading => TryGoesOn(line, pattern, n, s)
  BY DEF Tried
<1> SUFFICES ASSUME NEW place \in 0 .. n, Search!OccursAt(line, pattern, place)
             PROVE  Caught(place, n + 1, s1)
  BY <1>3 DEF NoneMissed
<1>5. s.print => s1.print
  BY Zenon DEF ReadDoes
<1>6. ASSUME NEW i \in DOMAIN s.remember
      PROVE  i \in DOMAIN s1.remember /\ s1.remember[i] = s.remember[i]
  <2>1. CASE Remembers(s, rchr, pattern)
    <3>1. s1.remember = Append(s.remember, n)
      BY <1>1, <2>1 DEF ReadDoes
    <3> QED
      BY <1>1, <1>3, <3>1
  <2>2. CASE ~Remembers(s, rchr, pattern)
    BY <2>2, Zenon DEF ReadDoes
  <2> QED
    BY <2>1, <2>2
<1>7. \A c \in 1 .. L : line[place + c] = pattern[c]
  BY <1>3 DEF Search!OccursAt
<1>8. CASE place = n
  <2>1. rchr = pattern[1]
    <3>1. 1 \in 1 .. L
      BY <1>3
    <3> QED
      BY <1>7, <1>8, <3>1
  <2>2. CASE Remembers(s, rchr, pattern)
    <3>1. s1.remember = Append(s.remember, n)
      BY <1>1, <2>2 DEF ReadDoes
    <3>2. Len(s.remember) + 1 \in DOMAIN s1.remember /\ s1.remember[Len(s.remember) + 1] = n
      BY <1>1, <1>3, <3>1
    <3> QED
      BY <1>8, <3>2, Zenon DEF Caught
  <2>3. CASE LastFits(s, rchr, pattern)
    BY <2>3, Zenon DEF ReadDoes, Caught
  <2>4. CASE BeginsAgain(s, rchr, pattern)
    <3>1. s1.reading /\ s1.patterncounter = 1 /\ place = (n + 1) - 1
      BY <1>3, <1>8, <2>4 DEF ReadDoes
    <3> QED
      BY <3>1 DEF Caught
  <2>5. CASE ~s.reading
    <3>1. GoesOn(s, rchr, pattern)
      BY <2>1, <2>5 DEF GoesOn
    <3>2. s1.reading /\ s1.patterncounter = 1 /\ place = (n + 1) - 1
      BY <1>3, <1>4, <1>8, <2>5, <3>1 DEF ReadDoes
    <3> QED
      BY <3>2 DEF Caught
  <2> QED
    BY <2>1, <2>2, <2>3, <2>4, <2>5 DEF Remembers, LastFits, BeginsAgain
<1>9. CASE place # n
  <2>1. Caught(place, n, s)
    <3>1. place \in 0 .. n - 1
      BY <1>3, <1>9
    <3> QED
      BY <3>1, <1>3 DEF NoneMissed
  <2>2. CASE s.print \/ \E i \in DOMAIN s.remember : s.remember[i] = place
    BY <1>5, <1>6, <2>2, Zenon DEF Caught
  <2>3. CASE s.reading /\ place = n - s.patterncounter
    <3>1. s.patterncounter \in 1 .. n /\ s.patterncounter < L
      BY <1>3, <1>4, <2>3 DEF TryGoesOn
    <3>2. k \in 1 .. L /\ place + k = n + 1
      BY <1>1, <1>3, <2>3, <3>1
    <3>3. rchr = pattern[k]
      BY <1>7, <3>2
    <3>4. Fits(s, rchr, pattern)
      BY <1>3, <3>2, <3>3 DEF Fits
    <3>5. CASE k = L
      <4>1. LastFits(s, rchr, pattern)
        BY <2>3, <3>4, <3>5 DEF LastFits
      <4> QED
        BY <4>1, Zenon DEF ReadDoes, Caught
    <3>6. CASE k # L
      <4>1. GoesOn(s, rchr, pattern)
        BY <2>3, <3>4, <3>6 DEF GoesOn
      <4>2. s1.reading /\ s1.patterncounter = k
        BY <4>1 DEF ReadDoes
      <4>3. place = (n + 1) - s1.patterncounter
        <5> DEFINE q == s.patterncounter
                   q1 == s1.patterncounter
        <5>1. q1 = q + 1 /\ place = n - q /\ q \in Nat /\ n \in Nat
          BY <1>1, <1>3, <2>3, <4>2
        <5> HIDE DEF q, q1
        <5>2. place = (n + 1) - q1
          BY <5>1
        <5> QED
          BY <5>2 DEF q1
      <4> QED
        BY <4>2, <4>3 DEF Caught
    <3> QED
      BY <3>5, <3>6
  <2> QED
    BY <2>1, <2>2, <2>3 DEF Caught
<1> QED
  BY <1>8, <1>9

(* The search finds a pattern of more than one character in a line if and  *)
(* only if it is there, for any line and any pattern: what is remembered   *)
(* makes up for never going back.                                          *)
LEMMA SearchIsRight ==
  ASSUME NEW S, NEW line \in Seq(S), NEW pattern \in Seq(S), pattern # << >>
  PROVE  Search!PrintedIfFound(line, pattern)
<1> DEFINE f == Search!States(line, pattern)
           Good(i, s) == /\ Tried(line, pattern, i, s) /\ NoneInvented(line, pattern, s)
                         /\ NoneMissed(line, pattern, i, s)
           P == {i \in 0 .. Len(line) : Good(i, f[i])}
           end == f[Len(line)]
<1>1. Len(line) \in Nat /\ Len(pattern) \in Nat \ {0}
  OBVIOUS
<1>2. f[0] = Search!Start /\ \A i \in 1 .. Len(line) :
        f[i] = Search!Read(f[i - 1], line[i], pattern)
  BY <1>1, StatesUnfold
<1> HIDE DEF f
<1>3. 0 \in P
  <2>1. /\ Search!Start \in SearchStates /\ Search!Start.counter = 0
        /\ ~Search!Start.reading /\ Search!Start.patterncounter = 0
        /\ ~Search!Start.print /\ Search!Start.remember = << >>
    BY DEF SearchStates, Search!Start
  <2>2. Tried(line, pattern, 0, Search!Start) /\ NoneInvented(line, pattern, Search!Start)
    BY <2>1, Zenon DEF Tried, NoneInvented
  <2>3. NoneMissed(line, pattern, 0, Search!Start)
    BY DEF NoneMissed
  <2>4. 0 \in 0 .. Len(line)
    BY <1>1
  <2> QED
    BY <1>2, <2>2, <2>3, <2>4, Zenon
<1>4. \A i \in 1 .. Len(line) : i - 1 \in P => i \in P
  <2> TAKE i \in 1 .. Len(line)
  <2> HAVE i - 1 \in P
  <2> DEFINE n == i - 1
  <2>1. n \in 0 .. Len(line) - 1 /\ n + 1 = i /\ i \in 0 .. Len(line)
    BY <1>1
  <2>2. Good(n, f[n])
    OBVIOUS
  <2>3. f[i] = Search!Read(f[n], line[i], pattern)
    BY <1>2
  <2> HIDE DEF n
  <2>4. f[n] \in SearchStates
    BY <2>2, Zenon DEF Tried
  <2>5. ReadDoes(f[n], f[i], line[n + 1], pattern)
    BY <2>1, <2>3, <2>4, ReadFacts
  <2>6. Tried(line, pattern, n + 1, f[i]) /\ NoneInvented(line, pattern, f[i])
    BY <2>1, <2>2, <2>5, TriedStep
  <2>7. NoneMissed(line, pattern, n + 1, f[i])
    <3>1. CASE Len(pattern) > 1
      BY <2>1, <2>2, <2>5, <3>1, MissedStep
    <3>2. CASE ~(Len(pattern) > 1)
      BY <3>2, Zenon DEF NoneMissed
    <3> QED
      BY <3>1, <3>2
  <2>8. Good(i, f[i])
    BY <2>1, <2>6, <2>7, Zenon
  <2> QED
    BY <2>1, <2>8, Zenon
<1>5. Len(line) \in P
  <2> HIDE DEF P
  <2> QED
    BY <1>1, <1>3, <1>4, Induction, Zenon
<1>6. Good(Len(line), end)
  BY <1>5, Zenon
<1>7. /\ end.remember \in Seq(Nat) /\ end.patterncounter \in Nat
      /\ end.reading \in BOOLEAN /\ end.print \in BOOLEAN
  BY <1>6 DEF Tried, SearchStates
<1>8. Search!Printed(line, pattern) <=>
        end.print \/ \E i \in DOMAIN end.remember :
                       Search!OccursAt(line, pattern, end.remember[i])
  BY Zenon DEF Search!Printed, f
<1> HIDE DEF end
<1>9. ASSUME NEW i \in DOMAIN end.remember, Search!OccursAt(line, pattern, end.remember[i])
      PROVE  Len(pattern) > 1 /\ Occurs(line, pattern)
  <2>1. Len(pattern) > 1
    <3>1. end.remember # << >>
      BY <1>7
    <3> QED
      BY <1>6, <3>1, Zenon DEF NoneInvented
  <2>2. end.remember[i] \in 0 .. Len(line)
    BY <1>1, <1>7, <1>9 DEF Search!OccursAt
  <2> QED
    BY <1>9, <2>1, <2>2, Zenon DEF Occurs
<1>10. end.print => Len(pattern) > 1 /\ Occurs(line, pattern)
  BY <1>6, Zenon DEF NoneInvented
<1>11. ASSUME Len(pattern) > 1, NEW place \in 0 .. Len(line),
              Search!OccursAt(line, pattern, place)
       PROVE  end.print \/ \E i \in DOMAIN end.remember :
                             Search!OccursAt(line, pattern, end.remember[i])
  <2>1. place \in 0 .. Len(line) - 1 /\ place + Len(pattern) <= Len(line)
    BY <1>1, <1>11 DEF Search!OccursAt
  <2>2. Caught(place, Len(line), end)
    BY <1>6, <1>11, <2>1, Zenon DEF NoneMissed
  <2>3. ~(end.reading /\ place = Len(line) - end.patterncounter)
    <3> SUFFICES ASSUME end.reading, place = Len(line) - end.patterncounter PROVE FALSE
      OBVIOUS
    <3>1. TryGoesOn(line, pattern, Len(line), end)
      BY <1>6, Zenon DEF Tried
    <3>2. end.patterncounter < Len(pattern)
      BY <1>11, <3>1 DEF TryGoesOn
    <3> QED
      BY <1>1, <1>7, <2>1, <3>2
  <2> QED
    BY <1>11, <2>2, <2>3, Zenon DEF Caught
<1> QED
  BY <1>8, <1>9, <1>10, <1>11, Zenon DEF Search!PrintedIfFound, Occurs

(* Every line in which the pattern is, and no other, is printed: for any   *)
(* line and any pattern, not only the short ones of the run.               *)
THEOREM PrintedAsFound ==
  ASSUME NEW S, problem \in Seq(S) \X (Seq(S) \ {<< >>})
  PROVE  PrintedIfFound
<1>1. problem[1] \in Seq(S) /\ problem[2] \in Seq(S) /\ problem[2] # << >>
  OBVIOUS
<1>2. Search!PrintedIfFound(problem[1], problem[2])
  BY <1>1, SearchIsRight
<1> QED
  BY <1>2, Zenon DEF PrintedIfFound

-----------------------------------------------------------------------------
(* The bytes of the messages: sums                                         *)

(* Partial sums.                                                           *)
SumsTo(s, f) ==
  /\ f \in [0 .. Len(s) -> Int] /\ f[0] = 0
  /\ \A i \in 1 .. Len(s) : f[i] = f[i - 1] + s[i]

(* Partial sums give the sum.                                              *)
LEMMA TotalBy ==
  ASSUME NEW s \in Seq(Int), NEW f, SumsTo(s, f)
  PROVE  Code!Total(s) = f[Len(s)]
<1> DEFINE Sums(h) == h = [i \in 0 .. Len(s) |-> IF i = 0 THEN 0 ELSE h[i - 1] + s[i]]
           h == CHOOSE h : Sums(h)
           P == {i \in 0 .. Len(s) : h[i] = f[i]}
<1>1. Len(s) \in Nat
  OBVIOUS
<1>2. Sums(f)
  <2> DEFINE g == [i \in 0 .. Len(s) |-> IF i = 0 THEN 0 ELSE f[i - 1] + s[i]]
  <2>1. \A i \in 0 .. Len(s) : f[i] = g[i]
    BY <1>1 DEF SumsTo
  <2>2. f = [i \in 0 .. Len(s) |-> f[i]]
    BY Zenon DEF SumsTo
  <2>3. f = g
    BY <2>1, <2>2, Zenon
  <2> QED
    BY <2>3, Zenon
<1>3. Sums(h)
  BY <1>2, Zenon
<1> HIDE DEF h
<1>4. h[0] = 0 /\ \A i \in 1 .. Len(s) : h[i] = h[i - 1] + s[i]
  <2>1. 0 \in 0 .. Len(s) /\ \A i \in 1 .. Len(s) : i \in 0 .. Len(s) /\ i # 0
    BY <1>1
  <2> QED
    BY <1>3, <2>1, Zenon
<1>5. 0 \in P
  BY <1>1, <1>4 DEF SumsTo
<1>6. \A i \in 1 .. Len(s) : i - 1 \in P => i \in P
  <2> TAKE i \in 1 .. Len(s)
  <2> HAVE i - 1 \in P
  <2>1. h[i - 1] = f[i - 1] /\ i \in 0 .. Len(s)
    BY <1>1
  <2>2. h[i] = f[i]
    BY <1>4, <2>1, Zenon DEF SumsTo
  <2> QED
    BY <2>1, <2>2, Zenon
<1>7. Len(s) \in P
  <2> HIDE DEF P
  <2> QED
    BY <1>1, <1>5, <1>6, Induction, Zenon
<1>8. Code!Total(s) = h[Len(s)]
  BY Zenon DEF Code!Total, h
<1> QED
  BY <1>7, <1>8, Zenon

(* They exist.                                                             *)
LEMMA TotalIs ==
  ASSUME NEW s \in Seq(Int)
  PROVE  \E f : SumsTo(s, f) /\ Code!Total(s) = f[Len(s)]
<1> DEFINE g == [k \in 1 .. Len(s) |-> [x \in Int |-> x + s[k]]]
<1>1. Len(s) \in Nat /\ \A k \in 1 .. Len(s) : s[k] \in Int
  OBVIOUS
<1>2. g \in [1 .. Len(s) -> [Int -> Int]]
  BY <1>1
<1>3. \A k \in 1 .. Len(s) : \A x \in Int : g[k][x] = x + s[k]
  BY <1>1
<1> HIDE DEF g
<1>4. PICK f \in [0 .. Len(s) -> Int] : Iterates(0, g, Len(s), f)
  BY <1>1, <1>2, 0 \in Int, IterationExists, Zenon
<1>5. ASSUME NEW i \in 1 .. Len(s)
      PROVE  f[i] = f[i - 1] + s[i]
  <2>1. i \in 0 .. Len(s) /\ i # 0 /\ i - 1 \in 0 .. Len(s)
    BY <1>1
  <2>2. f[i] = g[i][f[i - 1]]
    BY <1>4, <2>1, Zenon DEF Iterates
  <2>3. f[i - 1] \in Int
    BY <2>1
  <2> QED
    BY <1>3, <2>2, <2>3, Zenon
<1>6. f[0] = 0
  <2>1. 0 \in 0 .. Len(s)
    BY <1>1
  <2> QED
    BY <1>4, <2>1, Zenon DEF Iterates
<1>7. SumsTo(s, f)
  BY <1>5, <1>6, Zenon DEF SumsTo
<1> QED
  BY <1>7, TotalBy, Zenon

(* The sum of nothing.                                                     *)
LEMMA TotalEmpty == Code!Total(<< >>) = 0
<1> DEFINE f == [i \in 0 .. 0 |-> 0]
<1>1. << >> \in Seq(Int) /\ Len(<< >>) = 0
  OBVIOUS
<1>2. SumsTo(<< >>, f)
  BY <1>1 DEF SumsTo
<1> HIDE DEF f
<1>3. Code!Total(<< >>) = f[Len(<< >>)]
  BY <1>1, <1>2, TotalBy, Zenon
<1> QED
  BY <1>1, <1>3 DEF f

(* A number behind is added.                                               *)
LEMMA TotalAppend ==
  ASSUME NEW s \in Seq(Int), NEW x \in Int
  PROVE  Code!Total(Append(s, x)) = Code!Total(s) + x /\ Code!Total(s) \in Int
<1>1. PICK f : SumsTo(s, f) /\ Code!Total(s) = f[Len(s)]
  BY TotalIs
<1> DEFINE n == Len(s)
           t == Append(s, x)
           g == [i \in 0 .. n + 1 |-> IF i = n + 1 THEN f[n] + x ELSE f[i]]
<1>2. /\ n \in Nat /\ t \in Seq(Int) /\ Len(t) = n + 1 /\ t[n + 1] = x
      /\ \A i \in 1 .. n : t[i] = s[i] /\ s[i] \in Int
  OBVIOUS
<1>3. f \in [0 .. n -> Int] /\ f[0] = 0 /\ \A i \in 1 .. n : f[i] = f[i - 1] + s[i]
  BY <1>1 DEF SumsTo
<1> HIDE DEF n, t
<1>4. f[n] \in Int
  BY <1>2, <1>3
<1>5. /\ g \in [0 .. n + 1 -> Int] /\ g[0] = 0
      /\ g[n + 1] = f[n] + x /\ \A i \in 0 .. n : g[i] = f[i]
  BY <1>2, <1>3, <1>4
<1> HIDE DEF g
<1>6. ASSUME NEW i \in 1 .. n + 1
      PROVE  g[i] = g[i - 1] + t[i]
  <2>1. CASE i = n + 1
    <3>1. i - 1 = n /\ n \in 0 .. n
      BY <1>2, <2>1
    <3> QED
      BY <1>2, <1>5, <2>1, <3>1
  <2>2. CASE i # n + 1
    <3>1. i \in 1 .. n /\ i \in 0 .. n /\ i - 1 \in 0 .. n
      BY <1>2, <2>2
    <3> QED
      BY <1>2, <1>3, <1>5, <3>1
  <2> QED
    BY <2>1, <2>2
<1>7. SumsTo(t, g)
  BY <1>2, <1>5, <1>6 DEF SumsTo
<1>8. Code!Total(t) = g[Len(t)]
  BY <1>2, <1>7, TotalBy
<1>9. Code!Total(t) = f[n] + x
  BY <1>2, <1>5, <1>8
<1> QED
  BY <1>1, <1>4, <1>9 DEF n, t

(* A number that changes changes the sum by as much.                       *)
LEMMA TotalChanged ==
  ASSUME NEW s \in Seq(Int), NEW j \in 1 .. Len(s), NEW x \in Int
  PROVE  Code!Total([s EXCEPT ![j] = x]) = Code!Total(s) - s[j] + x
<1>1. PICK f : SumsTo(s, f) /\ Code!Total(s) = f[Len(s)]
  BY TotalIs
<1> DEFINE n == Len(s)
           t == [s EXCEPT ![j] = x]
           d == x - s[j]
           g == [i \in 0 .. n |-> IF i < j THEN f[i] ELSE f[i] + d]
<1>2. /\ n \in Nat /\ t \in Seq(Int) /\ Len(t) = n /\ t[j] = x /\ s[j] \in Int /\ d \in Int
      /\ \A i \in 1 .. n : s[i] \in Int /\ (i # j => t[i] = s[i])
  OBVIOUS
<1>3. f \in [0 .. n -> Int] /\ f[0] = 0 /\ \A i \in 1 .. n : f[i] = f[i - 1] + s[i]
  BY <1>1 DEF SumsTo
<1>4. \A i \in 0 .. n : f[i] \in Int
  BY <1>3
<1>5. x = s[j] + d
  BY <1>2
<1> HIDE DEF n, t, d
<1>6. /\ g \in [0 .. n -> Int] /\ g[0] = 0
      /\ \A i \in 0 .. n : g[i] = IF i < j THEN f[i] ELSE f[i] + d
  BY <1>2, <1>3, <1>4 DEF n
<1> HIDE DEF g
<1>7. ASSUME NEW i \in 1 .. n
      PROVE  g[i] = g[i - 1] + t[i]
  <2>1. i \in 0 .. n /\ i - 1 \in 0 .. n /\ j \in 1 .. n
    BY <1>2 DEF n
  <2>2. /\ g[i] = IF i < j THEN f[i] ELSE f[i] + d
        /\ g[i - 1] = IF i - 1 < j THEN f[i - 1] ELSE f[i - 1] + d
        /\ f[i] = f[i - 1] + s[i] /\ f[i - 1] \in Int /\ f[i] \in Int
    BY <1>3, <1>4, <1>6, <2>1
  <2>3. CASE i = j
    BY <1>2, <1>5, <2>1, <2>2, <2>3
  <2>4. CASE i # j
    <3>1. t[i] = s[i] /\ s[i] \in Int
      BY <1>2, <2>4
    <3>2. (i < j) <=> (i - 1 < j)
      BY <2>1, <2>4, <1>2
    <3>3. /\ g[i] = IF i < j THEN f[i - 1] + s[i] ELSE f[i - 1] + s[i] + d
          /\ g[i - 1] = IF i < j THEN f[i - 1] ELSE f[i - 1] + d
      BY <2>2, <3>2, Zenon
    <3> DEFINE u == f[i - 1]
               v == s[i]
               w == g[i]
               z == g[i - 1]
    <3>4. /\ u \in Int /\ v \in Int /\ d \in Int
          /\ w = IF i < j THEN u + v ELSE u + v + d
          /\ z = IF i < j THEN u ELSE u + d
      BY <1>2, <2>2, <3>1, <3>3, Zenon
    <3> HIDE DEF u, v, w, z
    <3>5. w = z + v
      BY <3>4
    <3> QED
      BY <3>1, <3>5 DEF v, w, z
  <2> QED
    BY <2>3, <2>4
<1>8. SumsTo(t, g)
  BY <1>2, <1>6, <1>7 DEF SumsTo
<1>9. Code!Total(t) = g[n]
  BY <1>2, <1>8, TotalBy
<1>10. g[n] = f[n] + d
  <2>1. n \in 0 .. n /\ ~(n < j)
    BY <1>2 DEF n
  <2> QED
    BY <1>6, <2>1
<1>11. f[n] \in Int
  BY <1>2, <1>4
<1>12. Code!Total(t) = f[n] - s[j] + x
  BY <1>2, <1>5, <1>9, <1>10, <1>11
<1> QED
  BY <1>1, <1>12 DEF n, t

(* The sum of so many ones.                                                *)
LEMMA TotalOnes ==
  ASSUME NEW n \in Nat
  PROVE  Code!Total([i \in 1 .. n |-> 1]) = n
<1> DEFINE s == [i \in 1 .. n |-> 1]
           f == [i \in 0 .. n |-> i]
<1>1. s \in Seq(Int) /\ Len(s) = n
  OBVIOUS
<1>2. SumsTo(s, f)
  BY <1>1 DEF SumsTo
<1>3. f[n] = n
  OBVIOUS
<1> HIDE DEF s, f
<1>4. Code!Total(s) = f[Len(s)]
  BY <1>1, <1>2, TotalBy
<1> QED
  BY <1>1, <1>3, <1>4 DEF s

-----------------------------------------------------------------------------
(* The bytes of a number                                                   *)

(* What is assumed of the constants.                                       *)
LEMMA CodeFacts ==
  /\ SMALL_BYTE \in Nat \ {0} /\ SMALL_BYTE >= 13
  /\ DOUBLE \in Nat /\ STARTUP_MSG_LEN \in Nat
<1>1. Code!MessagesAssumption
  BY ProgramsAssumption
<1>2. Len(Code!TypeNames) = 13
  BY DEF Code!TypeNames
<1> QED
  BY <1>1, <1>2 DEF Code!MessagesAssumption

(* What is left of a value, byte by byte.                                  *)
ShiftsTo(value, width, f) ==
  /\ f \in [0 .. width -> Nat] /\ f[0] = value
  /\ \A i \in 1 .. width : f[i] = f[i - 1] \div SMALL_BYTE

(* It is what the model shifts.                                            *)
LEMMA ShiftedIs ==
  ASSUME NEW value \in Nat, NEW width \in Nat
  PROVE  ShiftsTo(value, width, Code!Shifted(value, width))
<1> DEFINE Shifts(h) ==
             h = [i \in 0 .. width |-> IF i = 0 THEN value ELSE h[i - 1] \div SMALL_BYTE]
           g == [k \in 1 .. width |-> [x \in Nat |-> x \div SMALL_BYTE]]
           h == CHOOSE h : Shifts(h)
           P == {i \in 0 .. width : h[i] \in Nat}
<1>1. g \in [1 .. width -> [Nat -> Nat]]
  <2>1. \A x \in Nat : x \div SMALL_BYTE \in Nat
    BY CodeFacts, Division
  <2> QED
    BY <2>1
<1>2. \A k \in 1 .. width : \A x \in Nat : g[k][x] = x \div SMALL_BYTE
  OBVIOUS
<1> HIDE DEF g
<1>3. PICK f \in [0 .. width -> Nat] : Iterates(value, g, width, f)
  BY <1>1, IterationExists, Zenon
<1>4. Shifts(f)
  <2> DEFINE e == [i \in 0 .. width |-> IF i = 0 THEN value ELSE f[i - 1] \div SMALL_BYTE]
  <2>1. ASSUME NEW i \in 0 .. width
        PROVE  f[i] = e[i]
    <3>1. f[i] = IF i = 0 THEN value ELSE g[i][f[i - 1]]
      BY <1>3, Zenon DEF Iterates
    <3>2. i # 0 => i \in 1 .. width /\ f[i - 1] \in Nat
      OBVIOUS
    <3>3. i # 0 => g[i][f[i - 1]] = f[i - 1] \div SMALL_BYTE
      BY <1>2, <3>2, Zenon
    <3> QED
      BY <3>1, <3>3, Zenon
  <2>2. f = [i \in 0 .. width |-> f[i]]
    OBVIOUS
  <2>3. f = e
    BY <2>1, <2>2, Zenon
  <2> QED
    BY <2>3, Zenon
<1>5. Shifts(h)
  BY <1>4, Zenon
<1> HIDE DEF h
<1>6. h[0] = value /\ \A i \in 1 .. width : h[i] = h[i - 1] \div SMALL_BYTE
  <2>1. 0 \in 0 .. width /\ \A i \in 1 .. width : i \in 0 .. width /\ i # 0
    OBVIOUS
  <2> QED
    BY <1>5, <2>1, Zenon
<1>7. 0 \in P
  BY <1>6
<1>8. \A i \in 1 .. width : i - 1 \in P => i \in P
  <2> TAKE i \in 1 .. width
  <2> HAVE i - 1 \in P
  <2>1. h[i - 1] \in Nat /\ i \in 0 .. width
    OBVIOUS
  <2>2. h[i - 1] \div SMALL_BYTE \in Nat
    BY <2>1, CodeFacts, Division
  <2>3. h[i] \in Nat
    BY <1>6, <2>2, Zenon
  <2> QED
    BY <2>1, <2>3, Zenon
<1>9. \A i \in 0 .. width : i \in P
  <2> HIDE DEF P
  <2> QED
    BY <1>7, <1>8, Induction, Zenon
<1>10. h \in [0 .. width -> Nat]
  <2>1. \A i \in 0 .. width : h[i] \in Nat
    BY <1>9, Zenon
  <2>2. h = [i \in 0 .. width |-> h[i]]
    <3> DEFINE e == [i \in 0 .. width |-> IF i = 0 THEN value ELSE h[i - 1] \div SMALL_BYTE]
    <3>1. h = e
      BY <1>5, Zenon
    <3>2. e = [i \in 0 .. width |-> e[i]]
      BY Zenon
    <3> QED
      BY <3>1, <3>2, Zenon
  <2> QED
    BY <2>1, <2>2
<1>11. Code!Shifted(value, width) = h
  BY Zenon DEF Code!Shifted, h
<1> QED
  BY <1>6, <1>10, <1>11, Zenon DEF ShiftsTo

(* A number that has no more than width bytes: nothing is left when they   *)
(* are shifted out.                                                        *)
FieldFits(value, width) == value \in Nat /\ Code!Shifted(value, width)[width] = 0

(* The values of a byte.                                                   *)
Bytes == 0 .. SMALL_BYTE - 1

(* The bytes of a value, the low one first.                                *)
LowBytes(value, width) ==
  [i \in 1 .. width |-> Code!Shifted(value, width)[i - 1] % SMALL_BYTE]

(* They are bytes, as many as the width says.                              *)
LEMMA LowBytesFacts ==
  ASSUME NEW value \in Nat, NEW width \in Nat
  PROVE  /\ LowBytes(value, width) \in Seq(Bytes)
         /\ Len(LowBytes(value, width)) = width
<1> DEFINE r == Code!Shifted(value, width)
<1>1. r \in [0 .. width -> Nat]
  BY ShiftedIs DEF ShiftsTo
<1> HIDE DEF r
<1>2. \A i \in 1 .. width : r[i - 1] \in Nat
  BY <1>1
<1>3. \A i \in 1 .. width : r[i - 1] % SMALL_BYTE \in Bytes
  BY <1>2, CodeFacts, Division DEF Bytes
<1>4. LowBytes(value, width) = [i \in 1 .. width |-> r[i - 1] % SMALL_BYTE]
  BY Zenon DEF LowBytes, r
<1> QED
  BY <1>3, <1>4

(* Twice the other way round is as it was.                                 *)
LEMMA ReverseFacts ==
  ASSUME NEW S, NEW s \in Seq(S)
  PROVE  /\ Code!Reverse(s) \in Seq(S) /\ Len(Code!Reverse(s)) = Len(s)
         /\ \A i \in 1 .. Len(s) : Code!Reverse(s)[i] = s[Len(s) - i + 1]
         /\ Code!Reverse(Code!Reverse(s)) = s
<1> DEFINE r == [i \in 1 .. Len(s) |-> s[(Len(s) - i) + 1]]
           q == [i \in 1 .. Len(r) |-> r[(Len(r) - i) + 1]]
<1>1. Code!Reverse(s) = r
  BY Zenon DEF Code!Reverse, Reverse
<1>2. Len(s) \in Nat /\ \A i \in 1 .. Len(s) : s[i] \in S /\ (Len(s) - i) + 1 \in 1 .. Len(s)
  OBVIOUS
<1>3. r \in Seq(S) /\ Len(r) = Len(s) /\ \A i \in 1 .. Len(s) : r[i] = s[(Len(s) - i) + 1]
  BY <1>2
<1>4. Code!Reverse(r) = q
  BY Zenon DEF Code!Reverse, Reverse
<1> HIDE DEF r
<1>5. q = s
  <2>1. q \in Seq(S) /\ Len(q) = Len(s)
    BY <1>2, <1>3
  <2>2. ASSUME NEW i \in 1 .. Len(s)
        PROVE  q[i] = s[i]
    <3>1. (Len(s) - i) + 1 \in 1 .. Len(s) /\ (Len(s) - ((Len(s) - i) + 1)) + 1 = i
      BY <1>2
    <3>2. r[(Len(s) - i) + 1] = s[i]
      BY <1>3, <3>1
    <3>3. q[i] = r[(Len(s) - i) + 1]
      BY <1>3
    <3> QED
      BY <3>2, <3>3, Zenon
  <2> HIDE DEF q
  <2> QED
    BY <2>1, <2>2
<1> QED
  BY <1>1, <1>3, <1>4, <1>5

(* A number is written as its bytes, in either order.                      *)
LEMMA ToBytesFacts ==
  ASSUME NEW value \in Nat, NEW width \in Nat, NEW type
  PROVE  /\ Code!ToBytes(value, width, type) \in Seq(Bytes)
         /\ Len(Code!ToBytes(value, width, type)) = width
         /\ Code!ToBytes(value, width, type) =
              IF Code!HighFirst(type) THEN Code!Reverse(LowBytes(value, width))
                                      ELSE LowBytes(value, width)
<1>1. Code!ToBytes(value, width, type) =
        IF Code!HighFirst(type) THEN Code!Reverse(LowBytes(value, width))
                                ELSE LowBytes(value, width)
  BY Zenon DEF Code!ToBytes, LowBytes
<1>2. /\ LowBytes(value, width) \in Seq(Bytes)
      /\ Len(LowBytes(value, width)) = width
  BY LowBytesFacts
<1>3. /\ Code!Reverse(LowBytes(value, width)) \in Seq(Bytes)
      /\ Len(Code!Reverse(LowBytes(value, width))) = width
  BY <1>2, ReverseFacts
<1> QED
  BY <1>1, <1>2, <1>3, Zenon

(* A number that is read byte by byte, the high one first.                 *)
ReadsTo(high, n, f) ==
  /\ f \in [0 .. n -> Int] /\ f[0] = 0
  /\ \A i \in 1 .. n : f[i] = f[i - 1] * SMALL_BYTE + high[i]

(* The bytes of a field, the high one first.                               *)
HighBytes(bytes, type) == IF Code!HighFirst(type) THEN bytes ELSE Code!Reverse(bytes)

(* Bytes are read as the number that is carried on from the high one.      *)
LEMMA FromBytesBy ==
  ASSUME NEW bytes, NEW type, NEW n \in Nat, Len(bytes) = n, NEW f,
         ReadsTo(HighBytes(bytes, type), n, f)
  PROVE  Code!FromBytes(bytes, type) = f[n]
<1> DEFINE high == HighBytes(bytes, type)
           Reads(h) ==
             h = [i \in 0 .. n |-> IF i = 0 THEN 0 ELSE h[i - 1] * SMALL_BYTE + high[i]]
           h == CHOOSE h : Reads(h)
           P == {i \in 0 .. n : h[i] = f[i]}
<1>1. Reads(f)
  <2> DEFINE g == [i \in 0 .. n |-> IF i = 0 THEN 0 ELSE f[i - 1] * SMALL_BYTE + high[i]]
  <2>1. ASSUME NEW i \in 0 .. n
        PROVE  f[i] = g[i]
    <3>1. i # 0 => i \in 1 .. n
      OBVIOUS
    <3>2. f[i] = IF i = 0 THEN 0 ELSE f[i - 1] * SMALL_BYTE + high[i]
      BY <3>1, Zenon DEF ReadsTo
    <3> QED
      BY <3>2, Zenon
  <2>2. f = [i \in 0 .. n |-> f[i]]
    BY Zenon DEF ReadsTo
  <2>3. f = g
    BY <2>1, <2>2, Zenon
  <2> QED
    BY <2>3, Zenon
<1>2. Reads(h)
  BY <1>1, Zenon
<1>3. Code!FromBytes(bytes, type) = h[n]
  BY Zenon DEF Code!FromBytes, h, HighBytes
<1> HIDE DEF h
<1>4. h[0] = 0 /\ \A i \in 1 .. n : h[i] = h[i - 1] * SMALL_BYTE + high[i]
  <2>1. 0 \in 0 .. n /\ \A i \in 1 .. n : i \in 0 .. n /\ i # 0
    OBVIOUS
  <2> QED
    BY <1>2, <2>1, Zenon
<1>5. 0 \in P
  BY <1>4 DEF ReadsTo
<1>6. \A i \in 1 .. n : i - 1 \in P => i \in P
  <2> TAKE i \in 1 .. n
  <2> HAVE i - 1 \in P
  <2>1. h[i - 1] = f[i - 1] /\ i \in 0 .. n
    OBVIOUS
  <2>2. h[i] = f[i]
    BY <1>4, <2>1, Zenon DEF ReadsTo
  <2> QED
    BY <2>1, <2>2, Zenon
<1>7. n \in P
  <2> HIDE DEF P
  <2> QED
    BY <1>5, <1>6, Induction, Zenon
<1> QED
  BY <1>3, <1>7, Zenon

(* A number that fits is read from its bytes, whichever comes first.       *)
LEMMA ReadsAsWritten ==
  ASSUME NEW value, NEW width \in Nat, FieldFits(value, width), NEW type
  PROVE  Code!FromBytes(Code!ToBytes(value, width, type), type) = value
<1> DEFINE r == Code!Shifted(value, width)
           low == LowBytes(value, width)
           bytes == Code!ToBytes(value, width, type)
           high == HighBytes(bytes, type)
           f == [i \in 0 .. width |-> r[width - i]]
<1>1. value \in Nat /\ r[width] = 0
  BY DEF FieldFits
<1>2. r \in [0 .. width -> Nat] /\ r[0] = value
      /\ \A i \in 1 .. width : r[i] = r[i - 1] \div SMALL_BYTE
  BY <1>1, ShiftedIs DEF ShiftsTo
<1>3. low \in Seq(Bytes) /\ Len(low) = width
  BY <1>1, LowBytesFacts
<1>4. high = Code!Reverse(low)
  <2>1. bytes = IF Code!HighFirst(type) THEN Code!Reverse(low) ELSE low
    BY <1>1, ToBytesFacts
  <2> QED
    BY <2>1, Zenon DEF HighBytes
<1>5. \A i \in 1 .. width : high[i] = low[width - i + 1]
  BY <1>3, <1>4, ReverseFacts
<1>6. \A i \in 1 .. width : low[i] = r[i - 1] % SMALL_BYTE
  BY Zenon DEF LowBytes
<1>7. Len(bytes) = width
  BY <1>1, ToBytesFacts
<1> HIDE DEF r, low, high, bytes
<1>8. /\ f \in [0 .. width -> Int]
      /\ \A i \in 0 .. width : f[i] = r[width - i]
  BY <1>2
<1> HIDE DEF f
<1>9. ASSUME NEW i \in 1 .. width
      PROVE  f[i] = f[i - 1] * SMALL_BYTE + high[i]
  <2> DEFINE j == width - i + 1
             a == r[j - 1]
  <2>1. /\ j \in 1 .. width /\ i \in 0 .. width /\ i - 1 \in 0 .. width
        /\ width - i = j - 1 /\ width - (i - 1) = j /\ j - 1 \in 0 .. width
    OBVIOUS
  <2> HIDE DEF j
  <2>2. f[i] = a /\ f[i - 1] = r[j] /\ r[j] = a \div SMALL_BYTE
    BY <1>2, <1>8, <2>1
  <2>3. high[i] = a % SMALL_BYTE
    BY <1>5, <1>6, <2>1 DEF j
  <2>4. a \in Nat
    BY <1>2, <2>1
  <2> HIDE DEF a
  <2>5. a = (a \div SMALL_BYTE) * SMALL_BYTE + (a % SMALL_BYTE)
    BY <2>4, CodeFacts, Division
  <2> QED
    BY <2>2, <2>3, <2>5, Zenon
<1>10. f[0] = 0 /\ f[width] = value
  <2>1. 0 \in 0 .. width /\ width \in 0 .. width /\ width - 0 = width /\ width - width = 0
    OBVIOUS
  <2> QED
    BY <1>1, <1>2, <1>8, <2>1 DEF r
<1>11. ReadsTo(high, width, f)
  BY <1>8, <1>9, <1>10, Zenon DEF ReadsTo
<1>12. Code!FromBytes(bytes, type) = f[width]
  BY <1>7, <1>11, FromBytesBy DEF high
<1> QED
  BY <1>10, <1>12, Zenon DEF bytes

-----------------------------------------------------------------------------
(* Places in a buffer                                                      *)

(* The instance flattens as the community module does.                     *)
LEMMA CodeFlatten ==
  ASSUME NEW ss
  PROVE  Code!FlattenSeq(ss) = FlattenSeq(ss)
BY Zenon DEF Code!FlattenSeq, FlattenSeq

(* Sequences of the lengths w.                                             *)
AreLong(ss, w) == Len(ss) = Len(w) /\ \A i \in 1 .. Len(w) : Len(ss[i]) = w[i]

(* Flattened they are as long as all of them together.                     *)
LEMMA FlattenLength ==
  ASSUME NEW S, NEW ss \in Seq(Seq(S)), NEW w \in Seq(Nat), AreLong(ss, w),
         NEW n \in 0 .. Len(w)
  PROVE  /\ SubSeq(ss, 1, n) \in Seq(Seq(S)) /\ SubSeq(w, 1, n) \in Seq(Nat)
         /\ Len(FlattenSeq(SubSeq(ss, 1, n))) = Code!Total(SubSeq(w, 1, n))
<1> DEFINE Long(m) == Len(FlattenSeq(SubSeq(ss, 1, m))) = Code!Total(SubSeq(w, 1, m))
           P == {m \in 0 .. Len(w) : Long(m)}
<1>1. Len(w) \in Nat /\ Len(ss) = Len(w) /\ \A i \in 1 .. Len(w) : w[i] \in Nat
  BY DEF AreLong
<1>2. \A m \in 0 .. Len(w) :
        SubSeq(ss, 1, m) \in Seq(Seq(S)) /\ SubSeq(w, 1, m) \in Seq(Nat)
  BY <1>1, SplitAt
<1>3. 0 \in P
  <2>1. SubSeq(ss, 1, 0) = << >> /\ SubSeq(w, 1, 0) = << >> /\ 0 \in 0 .. Len(w)
    BY <1>1, EmptySeq
  <2>2. Len(<< >>) = 0
    OBVIOUS
  <2> QED
    BY <2>1, <2>2, FlattenEmpty, TotalEmpty, Zenon
<1>4. \A m \in 1 .. Len(w) : m - 1 \in P => m \in P
  <2> TAKE m \in 1 .. Len(w)
  <2> HAVE m - 1 \in P
  <2> DEFINE x == SubSeq(ss, 1, m - 1)
             y == SubSeq(w, 1, m - 1)
  <2>1. m \in 0 .. Len(w) /\ m - 1 \in 0 .. Len(w) /\ m \in 1 .. Len(ss)
    BY <1>1
  <2>2. x \in Seq(Seq(S)) /\ y \in Seq(Nat)
    BY <1>2, <2>1, Zenon
  <2>3. ss[m] \in Seq(S) /\ Len(ss[m]) = w[m] /\ w[m] \in Nat
    <3>1. ss[m] \in Seq(S)
      BY <2>1
    <3> QED
      BY <1>1, <3>1, Zenon DEF AreLong
  <2>4. SubSeq(ss, 1, m) = Append(x, ss[m]) /\ SubSeq(w, 1, m) = Append(y, w[m])
    BY <2>1, SubSeqAppend
  <2>5. Len(FlattenSeq(x)) = Code!Total(y)
    BY Zenon
  <2> HIDE DEF x, y
  <2>6. FlattenSeq(x) \in Seq(S) /\ FlattenSeq(Append(x, ss[m])) = FlattenSeq(x) \o ss[m]
    BY <2>2, <2>3, FlattenAppend
  <2>7. Len(FlattenSeq(x) \o ss[m]) = Len(FlattenSeq(x)) + Len(ss[m])
    BY <2>3, <2>6
  <2>8. y \in Seq(Int) /\ w[m] \in Int
    BY <2>2, <2>3
  <2>9. Code!Total(Append(y, w[m])) = Code!Total(y) + w[m]
    BY <2>8, TotalAppend
  <2>10. Long(m)
    BY <2>3, <2>4, <2>5, <2>6, <2>7, <2>9, Zenon
  <2> QED
    BY <2>1, <2>10, Zenon
<1>5. n \in P
  <2> HIDE DEF P
  <2>1. Len(w) \in Nat
    BY <1>1
  <2> QED
    BY <1>3, <1>4, <2>1, Induction, Zenon
<1> QED
  BY <1>2, <1>5, Zenon

(* All of a sequence is the sequence.                                      *)
LEMMA WholeSeq ==
  ASSUME NEW S, NEW s \in Seq(S)
  PROVE  SubSeq(s, 1, Len(s)) = s
<1>1. Len(SubSeq(s, 1, Len(s))) = Len(s) /\ SubSeq(s, 1, Len(s)) \in Seq(S)
      /\ \A i \in 1 .. Len(s) : SubSeq(s, 1, Len(s))[i] = s[i]
  OBVIOUS
<1> QED
  BY <1>1

(* What stands between two parts is cut out.                               *)
LEMMA CutMiddle ==
  ASSUME NEW S, NEW a \in Seq(S), NEW b \in Seq(S), NEW c \in Seq(S)
  PROVE  SubSeq((a \o b) \o c, Len(a) + 1, Len(a) + Len(b)) = b
<1> DEFINE u == (a \o b) \o c
           v == SubSeq(u, Len(a) + 1, Len(a) + Len(b))
<1>1. /\ u \in Seq(S) /\ Len(u) = Len(a) + Len(b) + Len(c)
      /\ Len(a) \in Nat /\ Len(b) \in Nat /\ Len(c) \in Nat
      /\ \A k \in 1 .. Len(b) : u[Len(a) + k] = b[k]
  OBVIOUS
<1> HIDE DEF u
<1>2. /\ v \in Seq(S) /\ Len(v) = Len(b)
      /\ \A k \in 1 .. Len(b) : v[k] = u[Len(a) + k]
  BY <1>1
<1> HIDE DEF v
<1>3. v = b
  BY <1>1, <1>2
<1> QED
  BY <1>3 DEF u, v

(* Five sequences, grouped in two ways.                                    *)
Regrouped(u, v, m, r, t) ==
  (u \o ((v \o m) \o r)) \o t = ((u \o v) \o m) \o (r \o t)

(* Both ways are the same.                                                 *)
LEMMA RegroupFive ==
  ASSUME NEW S, NEW u \in Seq(S), NEW v \in Seq(S), NEW m \in Seq(S), NEW r \in Seq(S),
         NEW t \in Seq(S)
  PROVE  Regrouped(u, v, m, r, t)
<1>1. v \o m \in Seq(S) /\ u \o v \in Seq(S)
  OBVIOUS
<1>2. (u \o v) \o m \in Seq(S)
  BY <1>1
<1>3. u \o ((v \o m) \o r) = (u \o (v \o m)) \o r
  BY <1>1, ConcatRegroup
<1>4. u \o (v \o m) = (u \o v) \o m
  BY ConcatRegroup
<1>5. ((u \o v) \o m) \o (r \o t) = (((u \o v) \o m) \o r) \o t
  BY <1>2, ConcatRegroup
<1> QED
  BY <1>3, <1>4, <1>5, Zenon DEF Regrouped

(* A part of a buffer.                                                     *)
Placed(buf, s, at, width) == SubSeq(buf, at + 1, at + width) = s

(* The k-th sequence is found where the sum of the lengths before it says, *)
(* in a buffer that has something before and behind.                       *)
LEMMA FlattenPlace ==
  ASSUME NEW S, NEW ss \in Seq(Seq(S)), NEW w \in Seq(Nat), AreLong(ss, w),
         NEW k \in 1 .. Len(w), NEW a \in Seq(S), NEW c \in Seq(S)
  PROVE  Placed((a \o FlattenSeq(ss)) \o c, ss[k],
                Len(a) + Code!Total(SubSeq(w, 1, k - 1)), w[k])
<1> DEFINE at == Len(a) + Code!Total(SubSeq(w, 1, k - 1))
           x == FlattenSeq(SubSeq(ss, 1, k - 1))
           y == FlattenSeq(SubSeq(ss, k + 1, Len(ss)))
           b == ss[k]
<1>1. Len(ss) = Len(w) /\ k - 1 \in 0 .. Len(w) /\ k \in 0 .. Len(ss) /\ k \in 1 .. Len(ss)
      /\ Len(w) \in Nat
  BY DEF AreLong
<1>2. b \in Seq(S) /\ Len(b) = w[k]
  BY <1>1 DEF AreLong
<1>3. SubSeq(ss, 1, k - 1) \in Seq(Seq(S)) /\ Len(x) = Code!Total(SubSeq(w, 1, k - 1))
  BY <1>1, FlattenLength
<1>4. SubSeq(ss, 1, k) = Append(SubSeq(ss, 1, k - 1), b)
  BY <1>1, SubSeqAppend
<1>5. x \in Seq(S) /\ FlattenSeq(SubSeq(ss, 1, k)) = x \o b
  BY <1>2, <1>3, <1>4, FlattenAppend
<1>6. /\ SubSeq(ss, 1, k) \in Seq(Seq(S)) /\ SubSeq(ss, k + 1, Len(ss)) \in Seq(Seq(S))
      /\ ss = SubSeq(ss, 1, k) \o SubSeq(ss, k + 1, Len(ss))
  BY <1>1, SplitAt
<1>7. y \in Seq(S)
  BY <1>6, FlattenAppend, << >> \in Seq(S)
<1>8. FlattenSeq(ss) = (x \o b) \o y
  <2>1. FlattenSeq(SubSeq(ss, 1, k) \o SubSeq(ss, k + 1, Len(ss)))
          = FlattenSeq(SubSeq(ss, 1, k)) \o y
    BY <1>6, FlattenConcat
  <2> QED
    BY <1>5, <1>6, <2>1, Zenon
<1> HIDE DEF x, y, b
<1> DEFINE p == a \o x
           q == y \o c
<1>9. (a \o ((x \o b) \o y)) \o c = (p \o b) \o q
  <2>1. (a \o ((x \o b) \o y)) \o c = ((a \o x) \o b) \o (y \o c)
    <3> HIDE DEF p, q
    <3>1. a \in Seq(S) /\ x \in Seq(S) /\ b \in Seq(S) /\ y \in Seq(S) /\ c \in Seq(S)
      BY <1>2, <1>5, <1>7
    <3>2. Regrouped(a, x, b, y, c)
      BY <3>1, RegroupFive, Zenon
    <3> QED
      BY <3>2, Zenon DEF Regrouped
  <2> QED
    BY <2>1, Zenon
<1>10. p \in Seq(S) /\ q \in Seq(S) /\ Len(p) = Len(a) + Len(x)
  BY <1>5, <1>7
<1> HIDE DEF p, q
<1>11. Len(p) = at
  BY <1>3, <1>10, Zenon
<1>12. SubSeq((p \o b) \o q, Len(p) + 1, Len(p) + Len(b)) = b
  BY <1>2, <1>10, CutMiddle
<1>13. SubSeq((p \o b) \o q, at + 1, at + w[k]) = b
  BY <1>2, <1>11, <1>12, Zenon
<1> QED
  BY <1>8, <1>9, <1>13, Zenon DEF b, Placed

-----------------------------------------------------------------------------
(* The tables of types                                                     *)

(* The types have different names.                                         *)
LEMMA NamesFacts ==
  /\ DOMAIN Code!TypeNames = 1 .. 13
  /\ \A i, j \in 1 .. 13 : Code!TypeNames[i] = Code!TypeNames[j] => i = j
<1>1. DOMAIN Code!TypeNames = 1 .. 13
  BY DEF Code!TypeNames
<1>2. ASSUME NEW i \in 1 .. 13, NEW j \in 1 .. 13, Code!TypeNames[i] = Code!TypeNames[j]
      PROVE  i = j
  BY <1>2 DEF Code!TypeNames
<1> QED
  BY <1>1, <1>2

(* The number of a type names it.                                          *)
LEMMA IndexIs ==
  ASSUME NEW i \in 1 .. 13
  PROVE  Code!Index(Code!TypeNames[i]) = i
<1> DEFINE t == Code!TypeNames[i]
           j == CHOOSE j \in DOMAIN Code!TypeNames : Code!TypeNames[j] = t
<1>1. j \in 1 .. 13 /\ Code!TypeNames[j] = t
  BY NamesFacts, Zenon
<1>2. Code!Index(t) = j
  BY Zenon DEF Code!Index
<1> HIDE DEF j
<1>3. j = i
  BY <1>1, NamesFacts
<1> QED
  BY <1>2, <1>3, Zenon

(* The sum of two.                                                         *)
LEMMA TotalOfTwo ==
  ASSUME NEW a \in Int, NEW b \in Int
  PROVE  Code!Total(<<a, b>>) = a + b
<1>1. << >> \in Seq(Int) /\ <<a>> \in Seq(Int)
  OBVIOUS
<1>2. <<a>> = Append(<< >>, a) /\ <<a, b>> = Append(<<a>>, b)
  OBVIOUS
<1>3. Code!Total(Append(<< >>, a)) = 0 + a
  BY <1>1, TotalAppend, TotalEmpty
<1>4. Code!Total(Append(<<a>>, b)) = Code!Total(<<a>>) + b
  BY <1>1, TotalAppend
<1>5. Code!Total(<<a>>) = 0 + a
  BY <1>2, <1>3, Zenon
<1>6. 0 + a = a
  OBVIOUS
<1> QED
  BY <1>2, <1>4, <1>5, <1>6, Zenon

(* The sum of three.                                                       *)
LEMMA TotalOfThree ==
  ASSUME NEW a \in Int, NEW b \in Int, NEW c \in Int
  PROVE  Code!Total(<<a, b, c>>) = a + b + c
<1>1. <<a, b>> \in Seq(Int) /\ <<a, b, c>> = Append(<<a, b>>, c)
  OBVIOUS
<1>2. Code!Total(Append(<<a, b>>, c)) = Code!Total(<<a, b>>) + c
  BY <1>1, TotalAppend
<1> QED
  BY <1>1, <1>2, TotalOfTwo, Zenon

(* The sum of four.                                                        *)
LEMMA TotalOfFour ==
  ASSUME NEW a \in Int, NEW b \in Int, NEW c \in Int, NEW d \in Int
  PROVE  Code!Total(<<a, b, c, d>>) = a + b + c + d
<1>1. <<a, b, c>> \in Seq(Int) /\ <<a, b, c, d>> = Append(<<a, b, c>>, d)
  OBVIOUS
<1>2. Code!Total(Append(<<a, b, c>>, d)) = Code!Total(<<a, b, c>>) + d
  BY <1>1, TotalAppend
<1> QED
  BY <1>1, <1>2, TotalOfThree, Zenon

(* The sum of five.                                                        *)
LEMMA TotalOfFive ==
  ASSUME NEW a \in Int, NEW b \in Int, NEW c \in Int, NEW d \in Int, NEW e \in Int
  PROVE  Code!Total(<<a, b, c, d, e>>) = a + b + c + d + e
<1>1. <<a, b, c, d>> \in Seq(Int) /\ <<a, b, c, d, e>> = Append(<<a, b, c, d>>, e)
  OBVIOUS
<1>2. Code!Total(Append(<<a, b, c, d>>, e)) = Code!Total(<<a, b, c, d>>) + e
  BY <1>1, TotalAppend
<1>3. Code!Total(<<a, b, c, d>>) = a + b + c + d
  BY TotalOfFour
<1> QED
  BY <1>1, <1>2, <1>3, Zenon

(* A size that is the sum of the widths, with the type and the checksum.   *)
SizeIs(type) ==
  /\ Code!Fields(type) \in Seq(Nat)
  /\ Code!get_message_size(type) = 2 + Code!Total(Code!Fields(type))

(* The types without fields.                                               *)
Plain == {"MSG_OK", "MSG_ERROR", "MSG_ABORT", "MSG_DONE", "MSG_GET_VERSION",
          "MSG_ENHANCE_BAUD"}

(* The table of sizes and the table of fields agree.                       *)
LEMMA SizesAgree ==
  ASSUME NEW i \in 1 .. 13
  PROVE  SizeIs(Code!TypeNames[i])
<1> DEFINE t == Code!TypeNames[i]
           D == DOUBLE
<1>1. \/ t \in Plain \/ t = "MSG_VERSION" \/ t = "MSG_STARTUP" \/ t = "MSG_SET_COMPUTE"
      \/ t = "MSG_COMPUTE" \/ t = "MSG_COMPUTE_DATA" \/ t = "HW10_COMPUTE" \/ t = "HW10_DATA"
  BY DEF Code!TypeNames, Plain
<1> HIDE DEF t
<1>2. ASSUME t \in Plain PROVE SizeIs(t)
  <2>1. Code!Fields(t) = << >> /\ Code!get_message_size(t) = 2
    BY <1>2 DEF Plain, Code!Fields, Code!get_message_size
  <2> QED
    BY <2>1, TotalEmpty DEF SizeIs
<1>3. ASSUME t = "MSG_VERSION" PROVE SizeIs(t)
  <2>1. Code!Fields(t) = <<1, 1, 1>> /\ Code!get_message_size(t) = 2 + 3
    BY <1>3 DEF Code!Fields, Code!get_message_size
  <2>2. Code!Total(<<1, 1, 1>>) = 1 + 1 + 1
    BY TotalOfThree
  <2> QED
    BY <2>1, <2>2 DEF SizeIs
<1>4. ASSUME t = "MSG_STARTUP" PROVE SizeIs(t)
  <2>1. /\ Code!Fields(t) = [k \in 1 .. STARTUP_MSG_LEN |-> 1]
        /\ Code!get_message_size(t) = 2 + STARTUP_MSG_LEN
    BY <1>4 DEF Code!Fields, Code!get_message_size
  <2>2. Code!Total([k \in 1 .. STARTUP_MSG_LEN |-> 1]) = STARTUP_MSG_LEN
    BY CodeFacts, TotalOnes
  <2>3. [k \in 1 .. STARTUP_MSG_LEN |-> 1] \in Seq(Nat)
    BY CodeFacts
  <2> QED
    BY <2>1, <2>2, <2>3, Zenon DEF SizeIs
<1>5. ASSUME t = "MSG_SET_COMPUTE" PROVE SizeIs(t)
  <2>1. Code!Fields(t) = <<D, D, D, D, 1>> /\ Code!get_message_size(t) = 2 + 4 * D + 1
    BY <1>5 DEF Code!Fields, Code!get_message_size
  <2>2. Code!Total(<<D, D, D, D, 1>>) = D + D + D + D + 1
    BY TotalOfFive, CodeFacts
  <2>3. <<D, D, D, D, 1>> \in Seq(Nat) /\ 2 + 4 * D + 1 = 2 + (D + D + D + D + 1)
    BY CodeFacts
  <2> QED
    BY <2>1, <2>2, <2>3, Zenon DEF SizeIs
<1>6. ASSUME t = "MSG_COMPUTE" PROVE SizeIs(t)
  <2>1. Code!Fields(t) = <<1, D, D, 1, 1>> /\ Code!get_message_size(t) = 2 + 1 + 2 * D + 2
    BY <1>6 DEF Code!Fields, Code!get_message_size
  <2>2. Code!Total(<<1, D, D, 1, 1>>) = 1 + D + D + 1 + 1
    BY TotalOfFive, CodeFacts
  <2>3. <<1, D, D, 1, 1>> \in Seq(Nat) /\ 2 + 1 + 2 * D + 2 = 2 + (1 + D + D + 1 + 1)
    BY CodeFacts
  <2> QED
    BY <2>1, <2>2, <2>3, Zenon DEF SizeIs
<1>7. ASSUME t = "MSG_COMPUTE_DATA" PROVE SizeIs(t)
  <2>1. Code!Fields(t) = <<1, 1, 1, 1>> /\ Code!get_message_size(t) = 2 + 4
    BY <1>7 DEF Code!Fields, Code!get_message_size
  <2>2. Code!Total(<<1, 1, 1, 1>>) = 1 + 1 + 1 + 1
    BY TotalOfFour
  <2> QED
    BY <2>1, <2>2 DEF SizeIs
<1>8. ASSUME t = "HW10_COMPUTE" PROVE SizeIs(t)
  <2>1. Code!Fields(t) = <<2, 2>> /\ Code!get_message_size(t) = 2 + 2 * 2
    BY <1>8 DEF Code!Fields, Code!get_message_size
  <2>2. Code!Total(<<2, 2>>) = 2 + 2
    BY TotalOfTwo
  <2> QED
    BY <2>1, <2>2 DEF SizeIs
<1>9. ASSUME t = "HW10_DATA" PROVE SizeIs(t)
  <2>1. Code!Fields(t) = <<2, 2, 1>> /\ Code!get_message_size(t) = 2 + 2 * 2 + 1
    BY <1>9 DEF Code!Fields, Code!get_message_size
  <2>2. Code!Total(<<2, 2, 1>>) = 2 + 2 + 1
    BY TotalOfThree
  <2> QED
    BY <2>1, <2>2 DEF SizeIs
<1>10. SizeIs(t)
  BY <1>1, <1>2, <1>3, <1>4, <1>5, <1>6, <1>7, <1>8, <1>9, Zenon
<1> QED
  BY <1>10, Zenon DEF t

-----------------------------------------------------------------------------
(* The checksum                                                            *)

(* Sums of natural numbers are natural.                                    *)
LEMMA TotalNat ==
  ASSUME NEW s \in Seq(Nat)
  PROVE  Code!Total(s) \in Nat
<1>1. s \in Seq(Int) /\ Len(s) \in Nat /\ \A i \in 1 .. Len(s) : s[i] \in Nat
  OBVIOUS
<1>2. PICK f : SumsTo(s, f) /\ Code!Total(s) = f[Len(s)]
  BY <1>1, TotalIs, Zenon
<1> DEFINE P == {i \in 0 .. Len(s) : f[i] \in Nat}
<1>3. 0 \in P
  BY <1>1, <1>2 DEF SumsTo
<1>4. \A i \in 1 .. Len(s) : i - 1 \in P => i \in P
  <2> TAKE i \in 1 .. Len(s)
  <2> HAVE i - 1 \in P
  <2>1. f[i - 1] \in Nat /\ s[i] \in Nat /\ f[i] = f[i - 1] + s[i] /\ i \in 0 .. Len(s)
    BY <1>1, <1>2 DEF SumsTo
  <2> QED
    BY <2>1
<1>5. Len(s) \in P
  <2> HIDE DEF P
  <2> QED
    BY <1>1, <1>3, <1>4, Induction, Zenon
<1> QED
  BY <1>2, <1>5, Zenon

(* With the checksum behind them all bytes sum up to the highest byte.     *)
LEMMA ChecksumIs ==
  ASSUME NEW body \in Seq(Bytes), NEW c, c = (SMALL_BYTE - 1) - Code!SumOf(body)
  PROVE  c \in Bytes /\ Code!SumOf(Append(body, c)) = SMALL_BYTE - 1
<1> DEFINE B == SMALL_BYTE
           t == Code!Total(body)
           q == t \div B
           r == t % B
<1>1. B \in Nat \ {0}
  BY CodeFacts
<1>2. body \in Seq(Nat) /\ body \in Seq(Int)
  BY <1>1 DEF Bytes
<1>3. t \in Nat
  BY <1>2, TotalNat
<1>4. Code!SumOf(body) = r
  BY Zenon DEF Code!SumOf
<1>5. c = (B - 1) - r
  BY <1>4, Zenon
<1> HIDE DEF B, t
<1>6. q \in Nat /\ r \in 0 .. B - 1 /\ t = q * B + r
  BY <1>1, <1>3, Division
<1> HIDE DEF q, r
<1>7. c \in 0 .. B - 1 /\ c \in Int
  BY <1>1, <1>5, <1>6
<1>8. Code!Total(Append(body, c)) = t + c
  BY <1>2, <1>7, TotalAppend DEF t
<1>9. t + c = q * B + (B - 1)
  <2> DEFINE z == q * B
  <2>1. z \in Int
    BY <1>1, <1>6
  <2>2. t = z + r
    BY <1>6
  <2> HIDE DEF z
  <2>3. t + c = z + (B - 1)
    BY <1>1, <1>5, <1>6, <2>1, <2>2
  <2> QED
    BY <2>3 DEF z
<1>10. (q * B + (B - 1)) % B = B - 1
  <2>1. B - 1 \in 0 .. B - 1
    BY <1>1
  <2> QED
    BY <1>1, <1>6, <2>1, DivisionIsUnique
<1>11. Code!SumOf(Append(body, c)) = Code!Total(Append(body, c)) % B
  BY Zenon DEF Code!SumOf, B
<1>12. Code!SumOf(Append(body, c)) = B - 1
  BY <1>8, <1>9, <1>10, <1>11, Zenon
<1> QED
  BY <1>7, <1>12, Zenon DEF B, Bytes

(* Numbers that are closer than a byte have different remainders.          *)
LEMMA RemaindersDiffer ==
  ASSUME NEW b \in Nat \ {0}, NEW x \in Nat, NEW y \in Nat,
         x % b = y % b, x - y < b, y - x < b
  PROVE  x = y
<1> DEFINE p == x \div b
           q == y \div b
           r == x % b
<1>1. /\ p \in Nat /\ q \in Nat /\ r \in 0 .. b - 1
      /\ x = p * b + r /\ y = q * b + r
  BY Division
<1> HIDE DEF p, q, r
<1>2. ASSUME p > q PROVE FALSE
  <2>1. PICK d \in Nat : p = q + 1 + d
    <3>1. p - q - 1 \in Nat /\ p = q + 1 + (p - q - 1)
      BY <1>1, <1>2
    <3> QED
      BY <3>1, Zenon
  <2>2. p * b = q * b + b + d * b
    BY <1>1, <2>1
  <2>3. d * b \in Nat /\ q * b \in Nat
    BY <1>1
  <2> DEFINE e == d * b
             z == q * b
             w == p * b
  <2>4. e \in Nat /\ z \in Nat /\ w = z + b + e /\ x = w + r /\ y = z + r
    BY <1>1, <2>2, <2>3
  <2> HIDE DEF e, z, w
  <2> QED
    BY <1>1, <2>4
<1>3. ASSUME q > p PROVE FALSE
  <2>1. PICK d \in Nat : q = p + 1 + d
    <3>1. q - p - 1 \in Nat /\ q = p + 1 + (q - p - 1)
      BY <1>1, <1>3
    <3> QED
      BY <3>1, Zenon
  <2>2. q * b = p * b + b + d * b
    BY <1>1, <2>1
  <2>3. d * b \in Nat /\ p * b \in Nat
    BY <1>1
  <2> DEFINE e == d * b
             z == p * b
             w == q * b
  <2>4. e \in Nat /\ z \in Nat /\ w = z + b + e /\ y = w + r /\ x = z + r
    BY <1>1, <2>2, <2>3
  <2> HIDE DEF e, z, w
  <2> QED
    BY <1>1, <2>4
<1>4. p = q
  BY <1>1, <1>2, <1>3
<1> QED
  BY <1>1, <1>4, Zenon

(* A byte that is another gives another sum.                               *)
LEMMA ChangeIsNoticed ==
  ASSUME NEW buf \in Seq(Bytes), NEW i \in 1 .. Len(buf), NEW b \in Bytes, b # buf[i]
  PROVE  Code!SumOf([buf EXCEPT ![i] = b]) # Code!SumOf(buf)
<1> DEFINE B == SMALL_BYTE
           other == [buf EXCEPT ![i] = b]
           x == Code!Total(buf)
           y == Code!Total(other)
           a == buf[i]
<1>1. B \in Nat \ {0}
  BY CodeFacts
<1>2. buf \in Seq(Nat) /\ other \in Seq(Nat) /\ buf \in Seq(Int) /\ b \in Int
      /\ a \in 0 .. B - 1 /\ b \in 0 .. B - 1 /\ a # b
  BY <1>1 DEF Bytes
<1>3. x \in Nat /\ y \in Nat
  BY <1>2, TotalNat
<1>4. y = x - a + b
  BY <1>2, TotalChanged
<1>5. Code!SumOf(buf) = x % B /\ Code!SumOf(other) = y % B
  BY Zenon DEF Code!SumOf
<1> HIDE DEF B, other, x, y, a
<1>6. x # y /\ x - y < B /\ y - x < B
  BY <1>1, <1>2, <1>3, <1>4
<1>7. x % B # y % B
  BY <1>1, <1>3, <1>6, RemaindersDiffer
<1> QED
  BY <1>5, <1>7, Zenon DEF other

-----------------------------------------------------------------------------
(* A message                                                               *)

(* A message of any type, whose fields hold what as many bytes can hold.   *)
IsMessage(msg) ==
  \E i \in DOMAIN Code!TypeNames : \E d :
    LET w == Code!Fields(Code!TypeNames[i])
    IN  /\ msg = [type |-> Code!TypeNames[i], data |-> d]
        /\ d = [k \in DOMAIN w |-> d[k]]
        /\ \A k \in DOMAIN w : FieldFits(d[k], w[k])

(* A buffer in which no message is seen.                                   *)
Refuses(buf) == Code!parse_message_buf(buf) = Code!Refused

(* A wrong sum is enough.                                                  *)
LEMMA WrongSumRefused ==
  ASSUME NEW buf, Code!SumOf(buf) # SMALL_BYTE - 1
  PROVE  Refuses(buf)
<1>1. ~Code!Accepts(buf)
  BY Zenon DEF Code!Accepts
<1> QED
  BY <1>1, Zenon DEF Code!parse_message_buf, Refuses

(* Buffer, checksum, places and bytes together.                            *)
LEMMA MessageIsReadOrRefused ==
  ASSUME NEW msg, IsMessage(msg)
  PROVE  Code!ReadAsSentOrRefused(msg)
<1> DEFINE Has(i, d) ==
             LET w == Code!Fields(Code!TypeNames[i])
             IN  /\ msg = [type |-> Code!TypeNames[i], data |-> d]
                 /\ d = [k \in DOMAIN w |-> d[k]]
                 /\ \A k \in DOMAIN w : FieldFits(d[k], w[k])
<1>1. PICK i \in DOMAIN Code!TypeNames : \E d : Has(i, d)
  BY Zenon DEF IsMessage
<1>2. PICK d : Has(i, d)
  BY <1>1, Zenon
<1> DEFINE t == Code!TypeNames[i]
           w == Code!Fields(t)
           n == Len(w)
           B == SMALL_BYTE
           ss == [k \in DOMAIN d |-> Code!ToBytes(d[k], w[k], t)]
           flat == FlattenSeq(ss)
           head0 == <<Code!Index(t) - 1>>
           body == head0 \o flat
           c == (B - 1) - Code!SumOf(body)
           buf == Append(body, c)
<1>3. i \in 1 .. 13 /\ Code!Index(t) = i /\ i \in DOMAIN Code!TypeNames
  BY NamesFacts, IndexIs, Zenon
<1>4. /\ msg = [type |-> t, data |-> d] /\ d = [k \in DOMAIN w |-> d[k]]
      /\ \A k \in DOMAIN w : FieldFits(d[k], w[k])
  BY <1>2, Zenon
<1>5. w \in Seq(Nat) /\ Code!get_message_size(t) = 2 + Code!Total(w)
  BY <1>3, SizesAgree, Zenon DEF SizeIs
<1>6. msg.type = t /\ msg.data = d
  BY <1>4, Zenon
<1> HIDE DEF Has, w
<1>7. n \in Nat /\ DOMAIN w = 1 .. n /\ \A k \in 1 .. n : w[k] \in Nat
  BY <1>5
<1>8. DOMAIN d = 1 .. n
  BY <1>4, <1>7, Zenon
<1>9. \A k \in 1 .. n : FieldFits(d[k], w[k]) /\ d[k] \in Nat
  BY <1>4, <1>7, Zenon DEF FieldFits
<1> HIDE DEF n
<1>10. \A k \in 1 .. n : Code!ToBytes(d[k], w[k], t) \in Seq(Bytes)
                         /\ Len(Code!ToBytes(d[k], w[k], t)) = w[k]
  BY <1>7, <1>9, ToBytesFacts
<1>11. ss = [k \in 1 .. n |-> Code!ToBytes(d[k], w[k], t)]
  BY <1>8, Zenon
<1> HIDE DEF ss
<1>12. ss \in Seq(Seq(Bytes)) /\ Len(ss) = n
  BY <1>7, <1>10, <1>11
<1>13. \A k \in 1 .. n : ss[k] = Code!ToBytes(d[k], w[k], t)
  BY <1>11, Zenon
<1>14. AreLong(ss, w)
  <2>1. \A k \in 1 .. n : Len(ss[k]) = w[k]
    BY <1>10, <1>13, Zenon
  <2> QED
    BY <1>12, <2>1, Zenon DEF AreLong, n
<1>15. flat \in Seq(Bytes) /\ Len(flat) = Code!Total(w)
  <2>1. n \in 0 .. n
    BY <1>7
  <2>2. Len(FlattenSeq(SubSeq(ss, 1, n))) = Code!Total(SubSeq(w, 1, n))
    BY <1>5, <1>12, <1>14, <2>1, FlattenLength DEF n
  <2>3. SubSeq(w, 1, Len(w)) = w
    BY <1>5, WholeSeq
  <2>4. SubSeq(ss, 1, Len(ss)) = ss
    BY <1>12, WholeSeq
  <2>5. << >> \in Seq(Bytes)
    OBVIOUS
  <2>6. flat \in Seq(Bytes)
    BY <1>12, <2>5, FlattenAppend
  <2> QED
    BY <1>12, <2>2, <2>3, <2>4, <2>6, Zenon DEF n
<1> HIDE DEF flat
<1>16. head0 \in Seq(Bytes) /\ Len(head0) = 1 /\ head0[1] = i - 1
  BY <1>3, CodeFacts DEF Bytes
<1> HIDE DEF head0
<1>17. body \in Seq(Bytes) /\ Len(body) = 1 + Code!Total(w) /\ body[1] = i - 1
  <2>1. /\ head0 \o flat \in Seq(Bytes) /\ Len(head0 \o flat) = Len(head0) + Len(flat)
        /\ (head0 \o flat)[1] = head0[1]
    <3> HIDE DEF body
    <3>1. 1 \in 1 .. Len(head0) /\ Len(flat) \in Nat
      BY <1>15, <1>16
    <3>2. head0 \in Seq(Bytes) /\ flat \in Seq(Bytes)
      BY <1>15, <1>16, Zenon
    <3>3. head0 \o flat \in Seq(Bytes)
      BY <3>2
    <3>4. Len(head0 \o flat) = Len(head0) + Len(flat)
      BY <3>2
    <3>5. (head0 \o flat)[1] = head0[1]
      BY <3>1, <3>2
    <3> QED
      BY <3>3, <3>4, <3>5, Zenon
  <2> QED
    BY <1>15, <1>16, <2>1, Zenon
<1>18. buf = Code!fill_message_buf(msg)
  BY <1>6, CodeFlatten, Zenon DEF Code!fill_message_buf, ss, flat, head0, w
<1> HIDE DEF body, c
<1>19. c \in Bytes /\ Code!SumOf(buf) = B - 1
  BY <1>17, ChecksumIs DEF c
<1>20. buf \in Seq(Bytes) /\ Len(buf) = 2 + Code!Total(w) /\ buf[1] = i - 1
  <2>1. Code!Total(w) \in Nat
    BY <1>5, TotalNat
  <2> QED
    BY <1>17, <1>19, <2>1
<1>21. buf = (head0 \o flat) \o <<c>>
  <2>1. Append(body, c) = body \o <<c>>
    BY <1>17, <1>19, AppendIsConcat
  <2> QED
    BY <2>1, Zenon DEF body
<1> HIDE DEF buf
<1>22. buf[1] + 1 = i
  BY <1>3, <1>20
<1>23. Code!Accepts(buf)
  BY <1>3, <1>5, <1>19, <1>20, <1>22, Zenon DEF Code!Accepts
<1>24. ASSUME NEW k \in 1 .. n
       PROVE  Code!FromBytes(SubSeq(buf, Code!At(t, k) + 1, Code!At(t, k) + w[k]), t) = d[k]
  <2>1. Code!At(t, k) = 1 + Code!Total(SubSeq(w, 1, k - 1))
    BY Zenon DEF Code!At, w
  <2>2. <<c>> \in Seq(Bytes)
    BY <1>19
  <2>3. Code!At(t, k) = Len(head0) + Code!Total(SubSeq(w, 1, k - 1))
    BY <1>16, <2>1, Zenon
  <2>4. k \in 1 .. Len(w)
    BY Zenon DEF n
  <2> DEFINE at == Code!At(t, k)
  <2> HIDE DEF at
  <2>5. Placed((head0 \o FlattenSeq(ss)) \o <<c>>, ss[k],
               Len(head0) + Code!Total(SubSeq(w, 1, k - 1)), w[k])
    BY <1>5, <1>12, <1>14, <1>16, <2>2, <2>4, FlattenPlace, Zenon
  <2>6. SubSeq((head0 \o FlattenSeq(ss)) \o <<c>>, at + 1, at + w[k]) = ss[k]
    BY <2>3, <2>5, Zenon DEF at, Placed
  <2>7. SubSeq(buf, at + 1, at + w[k]) = ss[k]
    BY <1>21, <2>6, Zenon DEF flat
  <2>8. w[k] \in Nat /\ FieldFits(d[k], w[k])
    BY <1>7, <1>9, Zenon
  <2>9. Code!FromBytes(Code!ToBytes(d[k], w[k], t), t) = d[k]
    BY <2>8, ReadsAsWritten
  <2> QED
    BY <1>13, <2>7, <2>9, Zenon DEF at
<1>25. Code!parse_message_buf(buf) = msg
  <2> DEFINE read == [k \in DOMAIN w |->
                        Code!FromBytes(SubSeq(buf, Code!At(t, k) + 1, Code!At(t, k) + w[k]), t)]
  <2>1. Code!parse_message_buf(buf) = [type |-> t, data |-> read]
    BY <1>22, <1>23, Zenon DEF Code!parse_message_buf, w
  <2>2. read = d
    BY <1>4, <1>7, <1>24, Zenon
  <2> QED
    BY <1>4, <2>1, <2>2, Zenon
<1>26. ASSUME NEW j \in DOMAIN buf, NEW b \in 0 .. SMALL_BYTE - 1, b # buf[j]
       PROVE  Code!parse_message_buf([buf EXCEPT ![j] = b]) = Code!Refused
  <2>1. j \in 1 .. Len(buf) /\ b \in Bytes
    BY <1>20 DEF Bytes
  <2>2. Code!SumOf([buf EXCEPT ![j] = b]) # Code!SumOf(buf)
    BY <1>20, <1>26, <2>1, ChangeIsNoticed
  <2>3. Refuses([buf EXCEPT ![j] = b])
    BY <1>19, <2>2, WrongSumRefused, Zenon
  <2> QED
    BY <2>3, Zenon DEF Refuses
<1> QED
  BY <1>18, <1>25, <1>26, Zenon DEF Code!ReadAsSentOrRefused

(* What one side sends the other reads, and a byte that arrives as another *)
(* is noticed: for every type, all values of all fields, and all widths of *)
(* a byte, of a double and of the startup text.                            *)
THEOREM MessagesAreReadOrRefused ==
  ASSUME IsMessage(problem)
  PROVE  ReadAsSentOrRefused
<1>1. Code!ReadAsSentOrRefused(problem)
  BY MessageIsReadOrRefused
<1> QED
  BY <1>1, Zenon DEF ReadAsSentOrRefused

-----------------------------------------------------------------------------
(* The edit distance                                                       *)

(* Two numbers that are one apart at most.                                 *)
Close(x, y) == x - y <= 1 /\ y - x <= 1

(* The least of three numbers.                                             *)
LEMMA MinOfThree ==
  ASSUME NEW x \in Nat, NEW y \in Nat, NEW z \in Nat
  PROVE  /\ Cipher!Min({x, y, z}) \in Nat
         /\ Cipher!Min({x, y, z}) \in {x, y, z}
         /\ Cipher!Min({x, y, z}) <= x /\ Cipher!Min({x, y, z}) <= y
         /\ Cipher!Min({x, y, z}) <= z
<1> DEFINE T == {x, y, z}
           m == CHOOSE u \in T : \A v \in T : u <= v
<1>1. \E u \in T : \A v \in T : u <= v
  <2>1. T \subseteq Nat /\ T # {}
    OBVIOUS
  <2> QED
    BY <2>1, SmallestCandidate
<1>2. m \in T /\ \A v \in T : m <= v
  BY <1>1, Zenon
<1>3. Cipher!Min(T) = m
  BY Zenon DEF Cipher!Min
<1> HIDE DEF m
<1> QED
  BY <1>2, <1>3

-----------------------------------------------------------------------------
(* Rows of the table                                                       *)

(* A cell, from the row above and the cell at its left.                    *)
CellIs(row, c, t, j, left) ==
  IF c = t[j] THEN row[j - 1] ELSE Cipher!Min({row[j - 1], row[j], left}) + 1

(* A row, cell by cell, from the one above it.                             *)
RowIs(row, i, c, t, u) ==
  /\ u \in [0 .. Len(t) -> Nat] /\ u[0] = i
  /\ \A j \in 1 .. Len(t) : u[j] = CellIs(row, c, t, j, u[j - 1])

(* A cell holds a number.                                                  *)
LEMMA CellType ==
  ASSUME NEW n \in Nat, NEW row \in [0 .. n -> Nat], NEW c, NEW t, NEW j \in 1 .. n,
         NEW left \in Nat
  PROVE  CellIs(row, c, t, j, left) \in Nat
<1>1. row[j - 1] \in Nat /\ row[j] \in Nat
  OBVIOUS
<1>2. Cipher!Min({row[j - 1], row[j], left}) \in Nat
  BY <1>1, MinOfThree
<1> DEFINE m == Cipher!Min({row[j - 1], row[j], left})
<1> HIDE DEF m
<1>3. m + 1 \in Nat
  BY <1>2 DEF m
<1> QED
  BY <1>1, <1>3, Zenon DEF CellIs, m

(* NextRow makes such a row.                                               *)
LEMMA NextRowIs ==
  ASSUME NEW S, NEW t \in Seq(S), NEW row \in [0 .. Len(t) -> Nat], NEW i \in Nat, NEW c
  PROVE  RowIs(row, i, c, t, Cipher!NextRow(row, i, c, t))
<1> DEFINE n == Len(t)
           Is(h) == h = [j \in 0 .. n |->
                          IF j = 0 THEN i
                          ELSE IF c = t[j] THEN row[j - 1]
                          ELSE Cipher!Min({row[j - 1], row[j], h[j - 1]}) + 1]
           g == [j \in 1 .. n |-> [x \in Nat |-> CellIs(row, c, t, j, x)]]
           h == CHOOSE h : Is(h)
           P == {j \in 0 .. n : h[j] \in Nat}
<1>0. n \in Nat /\ row \in [0 .. n -> Nat]
  OBVIOUS
<1>00. Cipher!NextRow(row, i, c, t) = h
  BY Zenon DEF Cipher!NextRow
<1> HIDE DEF n
<1>1. g \in [1 .. n -> [Nat -> Nat]]
  <2>1. \A j \in 1 .. n : \A x \in Nat : CellIs(row, c, t, j, x) \in Nat
    BY <1>0, CellType, Zenon
  <2> QED
    BY <2>1
<1>2. \A j \in 1 .. n : \A x \in Nat : g[j][x] = CellIs(row, c, t, j, x)
  OBVIOUS
<1> HIDE DEF g
<1>3. PICK f \in [0 .. n -> Nat] : Iterates(i, g, n, f)
  BY <1>0, <1>1, IterationExists, Zenon
<1>4. Is(f)
  <2> DEFINE e == [j \in 0 .. n |->
                    IF j = 0 THEN i
                    ELSE IF c = t[j] THEN row[j - 1]
                    ELSE Cipher!Min({row[j - 1], row[j], f[j - 1]}) + 1]
  <2>1. ASSUME NEW j \in 0 .. n
        PROVE  f[j] = e[j]
    <3>1. f[j] = IF j = 0 THEN i ELSE g[j][f[j - 1]]
      BY <1>3, Zenon DEF Iterates
    <3>2. j # 0 => j \in 1 .. n /\ f[j - 1] \in Nat
      BY <1>0
    <3>3. j # 0 => g[j][f[j - 1]] = CellIs(row, c, t, j, f[j - 1])
      BY <1>2, <3>2, Zenon
    <3> QED
      BY <3>1, <3>3, Zenon DEF CellIs
  <2>2. f = [j \in 0 .. n |-> f[j]]
    OBVIOUS
  <2>3. f = e
    BY <2>1, <2>2, Zenon
  <2> QED
    BY <2>3, Zenon
<1>5. Is(h)
  BY <1>4, Zenon
<1> HIDE DEF h
<1>6. h[0] = i /\ \A j \in 1 .. n : h[j] = CellIs(row, c, t, j, h[j - 1])
  <2>1. 0 \in 0 .. n /\ \A j \in 1 .. n : j \in 0 .. n /\ j # 0
    BY <1>0
  <2> QED
    BY <1>5, <2>1, Zenon DEF CellIs
<1>7. 0 \in P
  BY <1>0, <1>6
<1>8. \A j \in 1 .. n : j - 1 \in P => j \in P
  <2> TAKE j \in 1 .. n
  <2> HAVE j - 1 \in P
  <2>1. h[j - 1] \in Nat /\ j \in 0 .. n
    BY <1>0
  <2>2. CellIs(row, c, t, j, h[j - 1]) \in Nat
    BY <1>0, <2>1, CellType, Zenon
  <2> QED
    BY <1>6, <2>1, <2>2, Zenon
<1>9. \A j \in 0 .. n : j \in P
  <2> HIDE DEF P
  <2> QED
    BY <1>0, <1>7, <1>8, Induction, Zenon
<1>10. h \in [0 .. n -> Nat]
  <2>1. \A j \in 0 .. n : h[j] \in Nat
    BY <1>9, Zenon
  <2>2. h = [j \in 0 .. n |-> h[j]]
    <3> DEFINE e == [j \in 0 .. n |->
                      IF j = 0 THEN i
                      ELSE IF c = t[j] THEN row[j - 1]
                      ELSE Cipher!Min({row[j - 1], row[j], h[j - 1]}) + 1]
    <3>1. h = e
      BY <1>5, Zenon
    <3>2. e = [j \in 0 .. n |-> e[j]]
      BY Zenon
    <3> QED
      BY <3>1, <3>2, Zenon
  <2> QED
    BY <2>1, <2>2
<1> QED
  BY <1>00, <1>6, <1>10, Zenon DEF RowIs, n

-----------------------------------------------------------------------------
(* Neighbours in a row are one apart at most.                              *)
Good(row, i, n) ==
  /\ row \in [0 .. n -> Nat] /\ row[0] = i
  /\ \A j \in 1 .. n : Close(row[j], row[j - 1])

(* Two rows are one apart at most.                                         *)
Near(p, q, n) == \A j \in 0 .. n : Close(p[j], q[j])

(* A cell is as the one above and at the left of it, or one more, and one  *)
(* apart from those beside them.                                           *)
LEMMA CellClose ==
  ASSUME NEW n \in Nat, NEW row \in [0 .. n -> Nat], NEW c, NEW t, NEW j \in 1 .. n,
         NEW left \in Nat, Close(row[j], row[j - 1]), Close(left, row[j - 1])
  PROVE  /\ CellIs(row, c, t, j, left) \in {row[j - 1], row[j - 1] + 1}
         /\ Close(CellIs(row, c, t, j, left), row[j])
         /\ Close(CellIs(row, c, t, j, left), left)
<1> DEFINE x == row[j - 1]
           y == row[j]
           m == Cipher!Min({x, y, left})
           v == CellIs(row, c, t, j, left)
<1>1. x \in Nat /\ y \in Nat
  OBVIOUS
<1>2. Close(y, x) /\ Close(left, x)
  OBVIOUS
<1>3. v = x \/ v = m + 1
  BY Zenon DEF CellIs
<1> HIDE DEF x, y, v
<1>4. m \in {x, y, left} /\ m <= x /\ m <= y /\ m <= left /\ m \in Nat
  BY <1>1, MinOfThree
<1> HIDE DEF m
<1>5. v \in {x, x + 1} /\ Close(v, y) /\ Close(v, left)
  <2>1. ASSUME v = x
        PROVE  v \in {x, x + 1} /\ Close(v, y) /\ Close(v, left)
    BY <1>1, <1>2, <2>1 DEF Close
  <2>2. ASSUME v = m + 1
        PROVE  v \in {x, x + 1} /\ Close(v, y) /\ Close(v, left)
    <3>1. x - 1 <= m
      BY <1>1, <1>2, <1>4 DEF Close
    <3>2. y - 2 <= m /\ left - 2 <= m
      BY <1>1, <1>2, <1>4 DEF Close
    <3>3. m = x - 1 \/ m = x
      BY <1>1, <1>4, <3>1
    <3>4. v \in {x, x + 1}
      BY <1>1, <2>2, <3>3
    <3> QED
      BY <1>1, <1>4, <2>2, <3>2, <3>4 DEF Close
  <2> QED
    BY <1>3, <2>1, <2>2, Zenon
<1> QED
  BY <1>5, Zenon DEF x, y, v

(* The next row is such a row too, and near to the one above.              *)
LEMMA RowStep ==
  ASSUME NEW S, NEW t \in Seq(S), NEW i \in Nat, NEW row, Good(row, i, Len(t)), NEW c
  PROVE  /\ Good(Cipher!NextRow(row, i + 1, c, t), i + 1, Len(t))
         /\ Near(Cipher!NextRow(row, i + 1, c, t), row, Len(t))
         /\ \A j \in 1 .. Len(t) :
              Cipher!NextRow(row, i + 1, c, t)[j] \in {row[j - 1], row[j - 1] + 1}
<1> DEFINE n == Len(t)
           new == Cipher!NextRow(row, i + 1, c, t)
           P == {j \in 0 .. n : Close(new[j], row[j])}
<1>1. n \in Nat
  OBVIOUS
<1>2. row \in [0 .. n -> Nat] /\ row[0] = i /\ \A j \in 1 .. n : Close(row[j], row[j - 1])
  BY Zenon DEF Good
<1>3. RowIs(row, i + 1, c, t, new)
  BY <1>2, NextRowIs, i + 1 \in Nat
<1> HIDE DEF new
<1>4. new \in [0 .. n -> Nat] /\ new[0] = i + 1
      /\ \A j \in 1 .. n : new[j] = CellIs(row, c, t, j, new[j - 1])
  BY <1>3, Zenon DEF RowIs
<1> HIDE DEF n
<1>5. ASSUME NEW j \in 1 .. n, Close(new[j - 1], row[j - 1])
      PROVE  /\ new[j] \in {row[j - 1], row[j - 1] + 1}
             /\ Close(new[j], row[j]) /\ Close(new[j], new[j - 1])
  <2>1. new[j - 1] \in Nat
    BY <1>1, <1>4
  <2>2. Close(row[j], row[j - 1])
    BY <1>2, Zenon
  <2>3. /\ CellIs(row, c, t, j, new[j - 1]) \in {row[j - 1], row[j - 1] + 1}
        /\ Close(CellIs(row, c, t, j, new[j - 1]), row[j])
        /\ Close(CellIs(row, c, t, j, new[j - 1]), new[j - 1])
    BY <1>1, <1>2, <1>5, <2>1, <2>2, CellClose, Zenon
  <2> QED
    BY <1>4, <2>3, Zenon
<1>6. 0 \in P
  BY <1>1, <1>2, <1>4 DEF Close
<1>7. \A j \in 1 .. n : j - 1 \in P => j \in P
  <2> TAKE j \in 1 .. n
  <2> HAVE j - 1 \in P
  <2>1. Close(new[j - 1], row[j - 1]) /\ j \in 0 .. n
    BY <1>1
  <2> QED
    BY <1>5, <2>1, Zenon
<1>8. \A j \in 0 .. n : Close(new[j], row[j])
  <2>1. \A j \in 0 .. n : j \in P
    <3> HIDE DEF P
    <3> QED
      BY <1>1, <1>6, <1>7, Induction, Zenon
  <2> QED
    BY <2>1, Zenon
<1>9. ASSUME NEW j \in 1 .. n
      PROVE  new[j] \in {row[j - 1], row[j - 1] + 1} /\ Close(new[j], new[j - 1])
  <2>1. j - 1 \in 0 .. n
    BY <1>1
  <2> QED
    BY <1>5, <1>8, <2>1, Zenon
<1> QED
  BY <1>4, <1>8, <1>9, Zenon DEF Good, Near, new, n

(* Rows that are near each other stay so under the same letter.            *)
LEMMA NearStep ==
  ASSUME NEW S, NEW t \in Seq(S), NEW i \in Nat, NEW k \in Nat, Close(i, k),
         NEW p \in [0 .. Len(t) -> Nat], NEW q \in [0 .. Len(t) -> Nat],
         Near(p, q, Len(t)), NEW c
  PROVE  Near(Cipher!NextRow(p, i, c, t), Cipher!NextRow(q, k, c, t), Len(t))
<1> DEFINE n == Len(t)
           u == Cipher!NextRow(p, i, c, t)
           v == Cipher!NextRow(q, k, c, t)
           P == {j \in 0 .. n : Close(u[j], v[j])}
<1>1. n \in Nat
  OBVIOUS
<1>2. RowIs(p, i, c, t, u) /\ RowIs(q, k, c, t, v)
  BY NextRowIs
<1> HIDE DEF u, v
<1>3. /\ u \in [0 .. n -> Nat] /\ u[0] = i
      /\ \A j \in 1 .. n : u[j] = CellIs(p, c, t, j, u[j - 1])
      /\ v \in [0 .. n -> Nat] /\ v[0] = k
      /\ \A j \in 1 .. n : v[j] = CellIs(q, c, t, j, v[j - 1])
  BY <1>2, Zenon DEF RowIs
<1>4. /\ p \in [0 .. n -> Nat] /\ q \in [0 .. n -> Nat]
      /\ \A j \in 0 .. n : Close(p[j], q[j])
  BY Zenon DEF Near
<1> HIDE DEF n
<1>5. 0 \in P
  BY <1>1, <1>3
<1>6. \A j \in 1 .. n : j - 1 \in P => j \in P
  <2> TAKE j \in 1 .. n
  <2> HAVE j - 1 \in P
  <2> DEFINE x == p[j - 1]
             y == p[j]
             l == u[j - 1]
             m == Cipher!Min({x, y, l})
             x1 == q[j - 1]
             y1 == q[j]
             l1 == v[j - 1]
             m1 == Cipher!Min({x1, y1, l1})
  <2>1. j \in 0 .. n /\ j - 1 \in 0 .. n /\ Close(l, l1)
    BY <1>1
  <2>2. Close(x, x1) /\ Close(y, y1)
    BY <1>4, <2>1, Zenon
  <2>3. /\ x \in Nat /\ y \in Nat /\ l \in Nat /\ x1 \in Nat /\ y1 \in Nat /\ l1 \in Nat
    BY <1>3, <1>4, <2>1
  <2>4. /\ u[j] = IF c = t[j] THEN x ELSE m + 1
        /\ v[j] = IF c = t[j] THEN x1 ELSE m1 + 1
    BY <1>3, Zenon DEF CellIs
  <2> HIDE DEF x, y, l, x1, y1, l1
  <2>5. m \in {x, y, l} /\ m <= x /\ m <= y /\ m <= l /\ m \in Nat
    BY <2>3, MinOfThree
  <2>6. m1 \in {x1, y1, l1} /\ m1 <= x1 /\ m1 <= y1 /\ m1 <= l1 /\ m1 \in Nat
    BY <2>3, MinOfThree
  <2> HIDE DEF m, m1
  <2>7. Close(m + 1, m1 + 1)
    BY <2>1, <2>2, <2>3, <2>5, <2>6 DEF Close
  <2>8. Close(u[j], v[j])
    BY <2>2, <2>4, <2>7, Zenon
  <2> QED
    BY <2>1, <2>8, Zenon
<1>7. \A j \in 0 .. n : Close(u[j], v[j])
  <2>1. \A j \in 0 .. n : j \in P
    <3> HIDE DEF P
    <3> QED
      BY <1>1, <1>5, <1>6, Induction, Zenon
  <2> QED
    BY <2>1, Zenon
<1> QED
  BY <1>7, Zenon DEF Near, n, u, v

-----------------------------------------------------------------------------
(* The table                                                               *)

(* The row for no letters at all.                                          *)
FirstRow(t) == [j \in 0 .. Len(t) |-> j]

(* The table, row by row.                                                  *)
TableIs(s, t, f) ==
  /\ f[0] = FirstRow(t)
  /\ \A i \in 1 .. Len(s) : f[i] = Cipher!NextRow(f[i - 1], i, s[i], t)

(* metrice makes such a table.                                             *)
LEMMA TableExists ==
  ASSUME NEW S, NEW s \in Seq(S), NEW t \in Seq(S)
  PROVE  TableIs(s, t, Cipher!metrice(s, t))
<1> DEFINE n == Len(s)
           R == [0 .. Len(t) -> Nat]
           Is(h) == h = [i \in 0 .. n |->
                          IF i = 0 THEN [j \in 0 .. Len(t) |-> j]
                          ELSE Cipher!NextRow(h[i - 1], i, s[i], t)]
           g == [i \in 1 .. n |-> [x \in R |-> Cipher!NextRow(x, i, s[i], t)]]
           h == CHOOSE h : Is(h)
<1>0. n \in Nat
  OBVIOUS
<1>00. Cipher!metrice(s, t) = h
  BY Zenon DEF Cipher!metrice
<1> HIDE DEF n
<1>1. g \in [1 .. n -> [R -> R]]
  <2>1. ASSUME NEW i \in 1 .. n, NEW x \in R
        PROVE  Cipher!NextRow(x, i, s[i], t) \in R
    <3>1. i \in Nat
      BY <1>0
    <3>2. RowIs(x, i, s[i], t, Cipher!NextRow(x, i, s[i], t))
      BY <3>1, NextRowIs
    <3> QED
      BY <3>2, Zenon DEF RowIs
  <2> HIDE DEF R
  <2> QED
    BY <2>1
<1>2. \A i \in 1 .. n : \A x \in R : g[i][x] = Cipher!NextRow(x, i, s[i], t)
  BY Zenon
<1>20. FirstRow(t) \in R
  <2>1. Len(t) \in Nat
    OBVIOUS
  <2> QED
    BY <2>1 DEF FirstRow
<1> HIDE DEF g, R
<1>3. PICK f \in [0 .. n -> R] : Iterates(FirstRow(t), g, n, f)
  BY <1>0, <1>1, <1>20, IterationExists, Zenon
<1>4. Is(f)
  <2> DEFINE e == [i \in 0 .. n |->
                    IF i = 0 THEN [j \in 0 .. Len(t) |-> j]
                    ELSE Cipher!NextRow(f[i - 1], i, s[i], t)]
  <2>1. ASSUME NEW i \in 0 .. n
        PROVE  f[i] = e[i]
    <3>1. f[i] = IF i = 0 THEN FirstRow(t) ELSE g[i][f[i - 1]]
      BY <1>3, Zenon DEF Iterates
    <3>2. i # 0 => i \in 1 .. n /\ f[i - 1] \in R
      BY <1>0
    <3>3. i # 0 => g[i][f[i - 1]] = Cipher!NextRow(f[i - 1], i, s[i], t)
      BY <1>2, <3>2, Zenon
    <3> QED
      BY <3>1, <3>3, Zenon DEF FirstRow
  <2>2. f = [i \in 0 .. n |-> f[i]]
    OBVIOUS
  <2>3. f = e
    BY <2>1, <2>2, Zenon
  <2> QED
    BY <2>3, Zenon
<1>5. Is(h)
  BY <1>4, Zenon
<1> HIDE DEF h
<1>6. h[0] = FirstRow(t) /\ \A i \in 1 .. n : h[i] = Cipher!NextRow(h[i - 1], i, s[i], t)
  <2>1. 0 \in 0 .. n /\ \A i \in 1 .. n : i \in 0 .. n /\ i # 0
    BY <1>0
  <2> QED
    BY <1>5, <2>1, Zenon DEF FirstRow
<1> QED
  BY <1>00, <1>6, Zenon DEF TableIs, n

(* The last row of the table.                                              *)
LastRow(s, t) == Cipher!metrice(s, t)[Len(s)]

(* It is the first one for the empty word.                                 *)
LEMMA LastRowEmpty ==
  ASSUME NEW S, NEW t \in Seq(S)
  PROVE  LastRow(<< >>, t) = FirstRow(t)
<1>1. << >> \in Seq(S) /\ Len(<< >>) = 0
  OBVIOUS
<1>2. TableIs(<< >>, t, Cipher!metrice(<< >>, t))
  BY <1>1, TableExists, Zenon
<1> QED
  BY <1>1, <1>2, Zenon DEF LastRow, TableIs

(* With a letter more it is the next one.                                  *)
LEMMA LastRowAppend ==
  ASSUME NEW S, NEW s \in Seq(S), NEW c \in S, NEW t \in Seq(S)
  PROVE  LastRow(Append(s, c), t) = Cipher!NextRow(LastRow(s, t), Len(s) + 1, c, t)
<1> DEFINE n == Len(s)
           w == Append(s, c)
           f == Cipher!metrice(s, t)
           g == Cipher!metrice(w, t)
           P == {i \in 0 .. n : g[i] = f[i]}
<1>1. /\ n \in Nat /\ w \in Seq(S) /\ Len(w) = n + 1 /\ w[n + 1] = c
      /\ \A i \in 1 .. n : w[i] = s[i]
  OBVIOUS
<1>2. TableIs(s, t, f) /\ TableIs(w, t, g)
  BY <1>1, TableExists, Zenon
<1>3. LastRow(s, t) = f[n] /\ LastRow(w, t) = g[n + 1]
  BY <1>1, Zenon DEF LastRow
<1> HIDE DEF w, f, g, n
<1>4. /\ f[0] = FirstRow(t) /\ \A i \in 1 .. n : f[i] = Cipher!NextRow(f[i - 1], i, s[i], t)
      /\ g[0] = FirstRow(t) /\ \A i \in 1 .. n + 1 : g[i] = Cipher!NextRow(g[i - 1], i, w[i], t)
  BY <1>1, <1>2, Zenon DEF TableIs, n
<1>5. 0 \in P
  BY <1>1, <1>4
<1>6. \A i \in 1 .. n : i - 1 \in P => i \in P
  <2> TAKE i \in 1 .. n
  <2> HAVE i - 1 \in P
  <2>1. g[i - 1] = f[i - 1] /\ i \in 0 .. n /\ i \in 1 .. n + 1
    BY <1>1
  <2>2. g[i] = f[i]
    BY <1>1, <1>4, <2>1, Zenon
  <2> QED
    BY <2>1, <2>2, Zenon
<1>7. n \in P
  <2> HIDE DEF P
  <2> QED
    BY <1>1, <1>5, <1>6, Induction, Zenon
<1>8. g[n] = f[n]
  BY <1>7, Zenon
<1>9. n + 1 \in 1 .. n + 1 /\ n + 1 - 1 = n
  BY <1>1
<1>10. g[n + 1] = Cipher!NextRow(f[n], n + 1, c, t)
  <2> DEFINE k == n + 1
  <2>0. k \in 1 .. k /\ k - 1 = n
    BY <1>1
  <2>1. w[k] = c /\ \A i \in 1 .. k : g[i] = Cipher!NextRow(g[i - 1], i, w[i], t)
    BY <1>1, <1>4, Zenon
  <2> HIDE DEF k
  <2>2. g[k] = Cipher!NextRow(g[k - 1], k, w[k], t)
    BY <2>0, <2>1, Zenon
  <2>3. g[k] = Cipher!NextRow(f[n], k, c, t)
    BY <1>8, <2>0, <2>1, <2>2, Zenon
  <2> QED
    BY <2>3, Zenon DEF k
<1> QED
  BY <1>3, <1>10, Zenon DEF w, n

(* What holds of the empty word, and of a word with a letter more, holds of*)
(* every word.                                                             *)
LEMMA LetterByLetter ==
  ASSUME NEW S, NEW Q, << >> \in Q, \A x \in Seq(S), c \in S : x \in Q => Append(x, c) \in Q,
         NEW s \in Seq(S)
  PROVE  s \in Q
<1> DEFINE n == Len(s)
           P == {i \in 0 .. n : SubSeq(s, 1, i) \in Q}
<1>1. n \in Nat /\ SubSeq(s, 1, 0) = << >>
  OBVIOUS
<1>2. 0 \in P
  <2>1. 0 \in 0 .. n
    BY <1>1
  <2> QED
    BY <1>1, <2>1, Zenon
<1>3. \A i \in 1 .. n : i - 1 \in P => i \in P
  <2> TAKE i \in 1 .. n
  <2> HAVE i - 1 \in P
  <2>1. SubSeq(s, 1, i - 1) \in Seq(S) /\ s[i] \in S /\ i \in 0 .. n
    OBVIOUS
  <2>2. Append(SubSeq(s, 1, i - 1), s[i]) \in Q
    BY <2>1, Zenon
  <2>3. SubSeq(s, 1, i) = Append(SubSeq(s, 1, i - 1), s[i])
    BY SubSeqAppend
  <2> QED
    BY <2>1, <2>2, <2>3, Zenon
<1>4. n \in P
  <2> HIDE DEF P, n
  <2> QED
    BY <1>1, <1>2, <1>3, Induction, Zenon
<1>5. SubSeq(s, 1, Len(s)) \in Q
  BY <1>4, Zenon
<1>6. SubSeq(s, 1, Len(s)) = s
  BY SubSeqFull
<1> QED
  BY <1>5, <1>6, Zenon

(* The last row is that of the length of the word.                         *)
LEMMA GoodRows ==
  ASSUME NEW S, NEW t \in Seq(S), NEW s \in Seq(S)
  PROVE  Good(LastRow(s, t), Len(s), Len(t))
<1> DEFINE Q == {x \in Seq(S) : Good(LastRow(x, t), Len(x), Len(t))}
<1>1. << >> \in Q
  <2>1. Good(FirstRow(t), 0, Len(t))
    <3> DEFINE n == Len(t)
    <3>1. n \in Nat
      OBVIOUS
    <3>2. FirstRow(t) = [j \in 0 .. n |-> j]
      BY Zenon DEF FirstRow
    <3> HIDE DEF n
    <3>3. Good([j \in 0 .. n |-> j], 0, n)
      BY <3>1 DEF Good, Close
    <3> QED
      BY <3>2, <3>3, Zenon DEF n
  <2>2. << >> \in Seq(S) /\ Len(<< >>) = 0
    OBVIOUS
  <2> QED
    BY <2>1, <2>2, LastRowEmpty, Zenon
<1>2. ASSUME NEW x \in Seq(S), NEW c \in S, x \in Q
      PROVE  Append(x, c) \in Q
  <2>1. Len(x) \in Nat /\ Append(x, c) \in Seq(S) /\ Len(Append(x, c)) = Len(x) + 1
    OBVIOUS
  <2>2. Good(LastRow(x, t), Len(x), Len(t))
    BY <1>2, Zenon
  <2>3. Good(Cipher!NextRow(LastRow(x, t), Len(x) + 1, c, t), Len(x) + 1, Len(t))
    BY <2>1, <2>2, RowStep, Zenon
  <2>4. LastRow(Append(x, c), t) = Cipher!NextRow(LastRow(x, t), Len(x) + 1, c, t)
    BY LastRowAppend, Zenon
  <2> QED
    BY <2>1, <2>3, <2>4, Zenon
<1> HIDE DEF Q
<1>3. s \in Q
  BY <1>1, <1>2, LetterByLetter, Zenon
<1> QED
  BY <1>3, Zenon DEF Q

(* It holds numbers.                                                       *)
LEMMA LastRowType ==
  ASSUME NEW S, NEW t \in Seq(S), NEW s \in Seq(S)
  PROVE  LastRow(s, t) \in [0 .. Len(t) -> Nat]
  BY GoodRows, Zenon DEF Good

(* Words whose last rows are near stay so with the same letters behind.    *)
LEMMA NearKept ==
  ASSUME NEW S, NEW t \in Seq(S), NEW p \in Seq(S), NEW q \in Seq(S), Close(Len(p), Len(q)),
         Near(LastRow(p, t), LastRow(q, t), Len(t)), NEW u \in Seq(S)
  PROVE  Near(LastRow(p \o u, t), LastRow(q \o u, t), Len(t))
<1> DEFINE Q == {x \in Seq(S) : Near(LastRow(p \o x, t), LastRow(q \o x, t), Len(t))}
<1>1. << >> \in Q
  <2>1. << >> \in Seq(S) /\ p \o << >> = p /\ q \o << >> = q
    OBVIOUS
  <2> QED
    BY <2>1, Zenon
<1>2. ASSUME NEW x \in Seq(S), NEW c \in S, x \in Q
      PROVE  Append(x, c) \in Q
  <2> DEFINE px == p \o x
             qx == q \o x
  <2>1. /\ px \in Seq(S) /\ qx \in Seq(S) /\ Append(x, c) \in Seq(S)
        /\ Len(px) + 1 \in Nat /\ Len(qx) + 1 \in Nat /\ Close(Len(px) + 1, Len(qx) + 1)
    BY DEF Close
  <2>2. p \o Append(x, c) = Append(px, c) /\ q \o Append(x, c) = Append(qx, c)
    BY ConcatAppend
  <2>3. Near(LastRow(px, t), LastRow(qx, t), Len(t))
    BY <1>2, Zenon
  <2> HIDE DEF px, qx
  <2>4. LastRow(px, t) \in [0 .. Len(t) -> Nat] /\ LastRow(qx, t) \in [0 .. Len(t) -> Nat]
    BY <2>1, LastRowType, Zenon
  <2>5. Near(Cipher!NextRow(LastRow(px, t), Len(px) + 1, c, t),
             Cipher!NextRow(LastRow(qx, t), Len(qx) + 1, c, t), Len(t))
    BY <2>1, <2>3, <2>4, NearStep, Zenon
  <2>6. /\ LastRow(Append(px, c), t) = Cipher!NextRow(LastRow(px, t), Len(px) + 1, c, t)
        /\ LastRow(Append(qx, c), t) = Cipher!NextRow(LastRow(qx, t), Len(qx) + 1, c, t)
    BY <2>1, LastRowAppend, Zenon
  <2> QED
    BY <2>1, <2>2, <2>5, <2>6, Zenon
<1> HIDE DEF Q
<1>3. u \in Q
  BY <1>1, <1>2, LetterByLetter, Zenon
<1> QED
  BY <1>3, Zenon DEF Q

-----------------------------------------------------------------------------
(* One edit                                                                *)

(* A letter taken out, put in, or replaced, between two parts of a word.   *)
Deleted(w, v, L) ==
  \E p \in Seq(L), u \in Seq(L), c \in L : w = Append(p, c) \o u /\ v = p \o u
Replaced(w, v, L) ==
  \E p \in Seq(L), u \in Seq(L), c \in L, d \in L :
     w = Append(p, c) \o u /\ v = Append(p, d) \o u

OneEdit(w, v, L) == Deleted(w, v, L) \/ Deleted(v, w, L) \/ Replaced(w, v, L)

(* Nearness goes both ways.                                                *)
LEMMA NearSwap ==
  ASSUME NEW n \in Nat, NEW p, NEW q, Near(p, q, n)
  PROVE  Near(q, p, n)
  BY DEF Near, Close

(* Without a letter the last row stays near.                               *)
LEMMA DeletedNear ==
  ASSUME NEW L, NEW t \in Seq(L), NEW w, NEW v, Deleted(w, v, L)
  PROVE  Near(LastRow(w, t), LastRow(v, t), Len(t))
<1>1. PICK p \in Seq(L), u \in Seq(L), c \in L : w = Append(p, c) \o u /\ v = p \o u
  BY Zenon DEF Deleted
<1>2. /\ Append(p, c) \in Seq(L) /\ Len(p) \in Nat /\ Close(Len(Append(p, c)), Len(p))
  BY DEF Close
<1>3. Good(LastRow(p, t), Len(p), Len(t))
  BY GoodRows, Zenon
<1>4. Near(Cipher!NextRow(LastRow(p, t), Len(p) + 1, c, t), LastRow(p, t), Len(t))
  BY <1>2, <1>3, RowStep, Zenon
<1>5. LastRow(Append(p, c), t) = Cipher!NextRow(LastRow(p, t), Len(p) + 1, c, t)
  BY LastRowAppend, Zenon
<1>6. Near(LastRow(Append(p, c), t), LastRow(p, t), Len(t))
  BY <1>4, <1>5, Zenon
<1>7. Near(LastRow(Append(p, c) \o u, t), LastRow(p \o u, t), Len(t))
  BY <1>2, <1>6, NearKept, Zenon
<1> QED
  BY <1>1, <1>7, Zenon

(* With another letter in its place too.                                   *)
LEMMA ReplacedNear ==
  ASSUME NEW L, NEW t \in Seq(L), NEW w, NEW v, Replaced(w, v, L)
  PROVE  Near(LastRow(w, t), LastRow(v, t), Len(t))
<1>1. PICK p \in Seq(L), u \in Seq(L), c \in L, d \in L :
             w = Append(p, c) \o u /\ v = Append(p, d) \o u
  BY Zenon DEF Replaced
<1> DEFINE row == LastRow(p, t)
           n == Len(t)
           k == Len(p) + 1
           x == Cipher!NextRow(row, k, c, t)
           y == Cipher!NextRow(row, k, d, t)
<1>2. /\ Append(p, c) \in Seq(L) /\ Append(p, d) \in Seq(L) /\ Len(p) \in Nat /\ n \in Nat
      /\ Close(Len(Append(p, c)), Len(Append(p, d))) /\ k \in Nat
  BY DEF Close
<1>3. Good(row, Len(p), n)
  BY GoodRows, Zenon
<1>4. /\ Good(x, k, n) /\ \A j \in 1 .. n : x[j] \in {row[j - 1], row[j - 1] + 1}
      /\ Good(y, k, n) /\ \A j \in 1 .. n : y[j] \in {row[j - 1], row[j - 1] + 1}
  BY <1>2, <1>3, RowStep, Zenon
<1>5. LastRow(Append(p, c), t) = x /\ LastRow(Append(p, d), t) = y
  BY LastRowAppend, Zenon
<1> HIDE DEF row, n, k, x, y
<1>6. ASSUME NEW j \in 0 .. n
      PROVE  Close(x[j], y[j])
  <2>1. x[0] = k /\ y[0] = k
    BY <1>4, Zenon DEF Good
  <2>2. row \in [0 .. n -> Nat]
    BY <1>3, Zenon DEF Good
  <2>3. ASSUME j = 0
        PROVE  Close(x[j], y[j])
    <3>1. x[j] = k /\ y[j] = k
      BY <2>1, <2>3, Zenon
    <3> HIDE DEF k
    <3> QED
      BY <1>2, <3>1 DEF Close
  <2>4. ASSUME j # 0
        PROVE  Close(x[j], y[j])
    <3>1. j \in 1 .. n /\ row[j - 1] \in Nat
      BY <1>2, <2>2, <2>4
    <3> DEFINE b == row[j - 1]
    <3>2. x[j] \in {b, b + 1} /\ y[j] \in {b, b + 1} /\ b \in Nat
      BY <1>4, <3>1, Zenon
    <3> HIDE DEF b
    <3> QED
      BY <3>2 DEF Close
  <2> QED
    BY <2>3, <2>4, Zenon
<1>7. Near(LastRow(Append(p, c), t), LastRow(Append(p, d), t), Len(t))
  BY <1>5, <1>6, Zenon DEF Near, n
<1>8. Near(LastRow(Append(p, c) \o u, t), LastRow(Append(p, d) \o u, t), Len(t))
  BY <1>2, <1>7, NearKept, Zenon
<1> QED
  BY <1>1, <1>8, Zenon

(* An edit changes the distance to a word by one at most.                  *)
LEMMA EditNear ==
  ASSUME NEW L, NEW t \in Seq(L), NEW w \in Seq(L), NEW v \in Seq(L), OneEdit(w, v, L)
  PROVE  /\ Cipher!WagnerFischer(w, t) \in Nat /\ Cipher!WagnerFischer(v, t) \in Nat
         /\ Cipher!WagnerFischer(w, t) <= Cipher!WagnerFischer(v, t) + 1
<1> DEFINE n == Len(t)
           x == LastRow(w, t)
           y == LastRow(v, t)
<1>1. n \in Nat /\ n \in 0 .. n
  OBVIOUS
<1>2. Near(x, y, n)
  <2>1. ASSUME Deleted(v, w, L)
        PROVE  Near(x, y, n)
    <3>1. Near(y, x, n)
      BY <2>1, DeletedNear, Zenon
    <3> QED
      BY <1>1, <3>1, NearSwap, Zenon
  <2> QED
    BY <2>1, DeletedNear, ReplacedNear, Zenon DEF OneEdit
<1>3. x \in [0 .. n -> Nat] /\ y \in [0 .. n -> Nat]
  BY LastRowType, Zenon
<1>4. Cipher!WagnerFischer(w, t) = x[n] /\ Cipher!WagnerFischer(v, t) = y[n]
  BY Zenon DEF Cipher!WagnerFischer, LastRow
<1> HIDE DEF x, y, n
<1>5. x[n] \in Nat /\ y[n] \in Nat /\ Close(x[n], y[n])
  BY <1>1, <1>2, <1>3 DEF Near
<1>6. x[n] <= y[n] + 1
  BY <1>5 DEF Close
<1> QED
  BY <1>4, <1>5, <1>6, Zenon

(* A word is at no distance from itself.                                   *)
LEMMA NoDistance ==
  ASSUME NEW S, NEW t \in Seq(S)
  PROVE  Cipher!WagnerFischer(t, t) = 0
<1> DEFINE n == Len(t)
           row(i) == LastRow(SubSeq(t, 1, i), t)
           P == {i \in 0 .. n : row(i)[i] = 0}
<1>1. n \in Nat /\ SubSeq(t, 1, 0) = << >>
  OBVIOUS
<1>2. 0 \in P
  <2>1. row(0) = FirstRow(t)
    BY <1>1, LastRowEmpty, Zenon
  <2>2. 0 \in 0 .. n
    BY <1>1
  <2>3. FirstRow(t)[0] = 0
    BY <2>2, Zenon DEF FirstRow
  <2> QED
    BY <2>1, <2>2, <2>3, Zenon
<1>3. \A i \in 1 .. n : i - 1 \in P => i \in P
  <2> TAKE i \in 1 .. n
  <2> HAVE i - 1 \in P
  <2> DEFINE s == SubSeq(t, 1, i - 1)
  <2>1. s \in Seq(S) /\ t[i] \in S /\ i \in 0 .. n /\ Len(s) + 1 = i /\ i \in Nat
    OBVIOUS
  <2>2. SubSeq(t, 1, i) = Append(s, t[i])
    BY SubSeqAppend
  <2>3. row(i) = Cipher!NextRow(LastRow(s, t), i, t[i], t)
    <3>1. LastRow(Append(s, t[i]), t) = Cipher!NextRow(LastRow(s, t), Len(s) + 1, t[i], t)
      BY <2>1, LastRowAppend, Zenon
    <3> QED
      BY <2>1, <2>2, <3>1, Zenon
  <2>4. LastRow(s, t) \in [0 .. n -> Nat]
    BY <2>1, LastRowType, Zenon
  <2>5. RowIs(LastRow(s, t), i, t[i], t, row(i))
    BY <2>1, <2>3, <2>4, NextRowIs, Zenon
  <2>6. row(i)[i] = CellIs(LastRow(s, t), t[i], t, i, row(i)[i - 1])
    BY <2>5, Zenon DEF RowIs
  <2>7. row(i)[i] = LastRow(s, t)[i - 1]
    BY <2>6, Zenon DEF CellIs
  <2> QED
    BY <2>1, <2>7, Zenon
<1>4. n \in P
  <2> HIDE DEF P, n
  <2> QED
    BY <1>1, <1>2, <1>3, Induction, Zenon
<1>5. SubSeq(t, 1, n) = t
  BY SubSeqFull
<1>6. LastRow(t, t)[n] = 0
  BY <1>4, <1>5, Zenon
<1> QED
  BY <1>6, Zenon DEF Cipher!WagnerFischer, LastRow

(* The three kinds of edits, as the reference writes them.                 *)
TakenOut(w, i) == SubSeq(w, 1, i - 1) \o SubSeq(w, i + 1, Len(w))
PutIn(w, i, l) == SubSeq(w, 1, i) \o <<l>> \o SubSeq(w, i + 1, Len(w))

(* A word that was made so.                                                *)
Taken(w, v) == \E i \in DOMAIN w : v = TakenOut(w, i)
Put(w, v, L) == \E i \in 0 .. Len(w), l \in L : v = PutIn(w, i, l)
Exchanged(w, v, L) == \E i \in DOMAIN w, l \in L : v = [w EXCEPT ![i] = l]

(* The edits are these.                                                    *)
LEMMA EditsAre ==
  ASSUME NEW w, NEW L, NEW v
  PROVE  v \in Cipher!Edits(w, L) <=> Taken(w, v) \/ Put(w, v, L) \/ Exchanged(w, v, L)
<1> DEFINE T == {SubSeq(w, 1, i - 1) \o SubSeq(w, i + 1, Len(w)) : i \in DOMAIN w}
           P == {PutIn(w, i, l) : i \in 0 .. Len(w), l \in L}
           E == {[w EXCEPT ![i] = l] : i \in DOMAIN w, l \in L}
<1>1. Cipher!Edits(w, L) = T \cup P \cup E
  BY SMT DEF Cipher!Edits, PutIn
<1>2. v \in T <=> Taken(w, v)
  BY DEF Taken, TakenOut
<1>3. v \in P <=> Put(w, v, L)
  BY DEF Put
<1>4. v \in E <=> Exchanged(w, v, L)
  BY DEF Exchanged
<1> HIDE DEF T, P, E
<1> QED
  BY <1>1, <1>2, <1>3, <1>4, Zenon

(* A letter behind a part stands between the parts.                        *)
LEMMA AppendAsMiddle ==
  ASSUME NEW L, NEW p \in Seq(L), NEW u \in Seq(L), NEW c \in L
  PROVE  Append(p, c) \o u = p \o <<c>> \o u
<1>1. Append(p, c) = p \o <<c>>
  BY AppendIsConcat
<1> QED
  BY <1>1, Zenon

(* A word, as a letter of it and the parts beside that.                    *)
LEMMA SplitOneOut ==
  ASSUME NEW L, NEW w \in Seq(L), NEW i \in DOMAIN w
  PROVE  /\ SubSeq(w, 1, i - 1) \in Seq(L) /\ SubSeq(w, i + 1, Len(w)) \in Seq(L)
         /\ w[i] \in L
         /\ w = Append(SubSeq(w, 1, i - 1), w[i]) \o SubSeq(w, i + 1, Len(w))
<1>1. i \in 1 .. Len(w) /\ i \in 0 .. Len(w) /\ w[i] \in L
      /\ SubSeq(w, 1, i - 1) \in Seq(L)
  OBVIOUS
<1>2. /\ SubSeq(w, i + 1, Len(w)) \in Seq(L)
      /\ w = SubSeq(w, 1, i) \o SubSeq(w, i + 1, Len(w))
  BY <1>1, SplitAt
<1>3. SubSeq(w, 1, i) = Append(SubSeq(w, 1, i - 1), w[i])
  BY <1>1, SubSeqAppend
<1> QED
  BY <1>1, <1>2, <1>3, Zenon

(* Another letter in its place.                                            *)
LEMMA ReplacedIs ==
  ASSUME NEW L, NEW w \in Seq(L), NEW i \in DOMAIN w, NEW l \in L
  PROVE  [w EXCEPT ![i] = l] = Append(SubSeq(w, 1, i - 1), l) \o SubSeq(w, i + 1, Len(w))
<1> DEFINE p == SubSeq(w, 1, i - 1)
           u == SubSeq(w, i + 1, Len(w))
           v == [w EXCEPT ![i] = l]
           q == Append(p, l)
<1>1. /\ i \in 1 .. Len(w) /\ Len(w) \in Nat
      /\ p \in Seq(L) /\ Len(p) = i - 1 /\ \A k \in 1 .. i - 1 : p[k] = w[k]
      /\ u \in Seq(L) /\ Len(u) = Len(w) - i /\ \A k \in 1 .. Len(w) - i : u[k] = w[i + k]
  OBVIOUS
<1>2. /\ v \in Seq(L) /\ Len(v) = Len(w) /\ v[i] = l
      /\ \A k \in 1 .. Len(w) : k # i => v[k] = w[k]
  OBVIOUS
<1> HIDE DEF p, u, v
<1>3. /\ q \in Seq(L) /\ Len(q) = i /\ q[i] = l /\ \A k \in 1 .. i - 1 : q[k] = p[k]
  BY <1>1
<1> HIDE DEF q
<1>4. ASSUME NEW k \in 1 .. Len(q)
      PROVE  v[k] = q[k]
  <2>1. k \in 1 .. Len(w) /\ k \in 1 .. i /\ (k # i => k \in 1 .. i - 1)
    BY <1>1, <1>3
  <2> QED
    BY <1>1, <1>2, <1>3, <2>1, Zenon
<1>5. ASSUME NEW k \in 1 .. Len(u)
      PROVE  v[Len(q) + k] = u[k]
  <2>1. i + k \in 1 .. Len(w) /\ i + k # i /\ k \in 1 .. Len(w) - i
    BY <1>1
  <2>2. v[i + k] = u[k]
    BY <1>1, <1>2, <2>1, Zenon
  <2> QED
    BY <1>3, <2>2, Zenon
<1>6. Len(v) = Len(q) + Len(u)
  BY <1>1, <1>2, <1>3
<1>7. v = q \o u
  BY <1>1, <1>2, <1>3, <1>4, <1>5, <1>6, ConcatAt
<1> QED
  BY <1>7, Zenon DEF p, u, v, q

(* A letter stands at i between p and u.                                   *)
MiddleAt(w, i, p, u) ==
  i \in DOMAIN w /\ SubSeq(w, 1, i - 1) = p /\ SubSeq(w, i + 1, Len(w)) = u

(* Where a letter stands, and the parts beside it.                         *)
LEMMA PartsOfMiddle ==
  ASSUME NEW L, NEW p \in Seq(L), NEW u \in Seq(L), NEW c \in L
  PROVE  MiddleAt(Append(p, c) \o u, Len(p) + 1, p, u)
<1> DEFINE w == Append(p, c) \o u
           a == SubSeq(w, 1, Len(p))
           b == SubSeq(w, Len(p) + 2, Len(w))
<1>1. /\ w \in Seq(L) /\ Len(w) = Len(p) + 1 + Len(u) /\ Len(p) \in Nat /\ Len(u) \in Nat
      /\ \A k \in 1 .. Len(p) : w[k] = p[k]
      /\ \A k \in 1 .. Len(u) : w[Len(p) + 1 + k] = u[k]
  OBVIOUS
<1> HIDE DEF w
<1>2. /\ a \in Seq(L) /\ Len(a) = Len(p) /\ \A k \in 1 .. Len(p) : a[k] = p[k]
  BY <1>1
<1>3. /\ b \in Seq(L) /\ Len(b) = Len(u)
  BY <1>1
<1>4. ASSUME NEW k \in 1 .. Len(u)
      PROVE  b[k] = u[k]
  <2>1. b[k] = w[Len(p) + 1 + k]
    BY <1>1
  <2> QED
    BY <1>1, <2>1
<1> HIDE DEF a, b
<1>5. a = p
  BY <1>2, SeqEqual
<1>6. b = u
  BY <1>3, <1>4, SeqEqual
<1>7. Len(p) + 1 \in DOMAIN w /\ Len(p) + 1 - 1 = Len(p) /\ Len(p) + 1 + 1 = Len(p) + 2
  BY <1>1
<1>8. w = Append(p, c) \o u /\ a = SubSeq(w, 1, Len(p)) /\ b = SubSeq(w, Len(p) + 2, Len(w))
  BY Zenon DEF w, a, b
<1>9. SubSeq(w, 1, Len(p) + 1 - 1) = p
  BY <1>5, <1>7, <1>8, Zenon
<1>10. SubSeq(w, Len(p) + 1 + 1, Len(w)) = u
  BY <1>6, <1>7, <1>8, Zenon
<1>11. MiddleAt(w, Len(p) + 1, p, u)
  BY <1>7, <1>9, <1>10 DEF MiddleAt
<1> QED
  BY <1>11, Zenon DEF w

(* What the reference calls an edit is one.                                *)
LEMMA EditsIn ==
  ASSUME NEW L, NEW w \in Seq(L), NEW v \in Cipher!Edits(w, L)
  PROVE  v \in Seq(L) /\ OneEdit(w, v, L)
<1>1. ASSUME NEW i \in DOMAIN w, v = TakenOut(w, i)
      PROVE  v \in Seq(L) /\ OneEdit(w, v, L)
  <2> DEFINE p == SubSeq(w, 1, i - 1)
             u == SubSeq(w, i + 1, Len(w))
  <2>1. p \in Seq(L) /\ u \in Seq(L) /\ w[i] \in L /\ w = Append(p, w[i]) \o u
    BY SplitOneOut
  <2>2. v = p \o u
    BY <1>1, Zenon DEF TakenOut
  <2> HIDE DEF p, u
  <2>3. v \in Seq(L)
    BY <2>1, <2>2
  <2>4. Deleted(w, v, L)
    BY <2>1, <2>2, Zenon DEF Deleted
  <2> QED
    BY <2>3, <2>4, Zenon DEF OneEdit
<1>2. ASSUME NEW i \in 0 .. Len(w), NEW l \in L, v = PutIn(w, i, l)
      PROVE  v \in Seq(L) /\ OneEdit(w, v, L)
  <2> DEFINE p == SubSeq(w, 1, i)
             u == SubSeq(w, i + 1, Len(w))
  <2>1. p \in Seq(L) /\ u \in Seq(L) /\ w = p \o u
    BY SplitAt
  <2>2. v = p \o <<l>> \o u
    BY <1>2, Zenon DEF PutIn
  <2> HIDE DEF p, u
  <2>3. v = Append(p, l) \o u
    BY <2>1, <2>2, AppendAsMiddle, Zenon
  <2>4. Append(p, l) \o u \in Seq(L)
    BY <2>1
  <2>5. Deleted(v, w, L)
    BY <2>1, <2>3, Zenon DEF Deleted
  <2> QED
    BY <2>3, <2>4, <2>5, Zenon DEF OneEdit
<1>3. ASSUME NEW i \in DOMAIN w, NEW l \in L, v = [w EXCEPT ![i] = l]
      PROVE  v \in Seq(L) /\ OneEdit(w, v, L)
  <2> DEFINE p == SubSeq(w, 1, i - 1)
             u == SubSeq(w, i + 1, Len(w))
  <2>1. p \in Seq(L) /\ u \in Seq(L) /\ w[i] \in L /\ w = Append(p, w[i]) \o u
    BY SplitOneOut
  <2>2. v = Append(p, l) \o u
    BY <1>3, ReplacedIs, Zenon
  <2> HIDE DEF p, u
  <2>3. Append(p, l) \o u \in Seq(L)
    BY <2>1
  <2>4. Replaced(w, v, L)
    BY <2>1, <2>2, Zenon DEF Replaced
  <2> QED
    BY <2>2, <2>3, <2>4, Zenon DEF OneEdit
<1>4. Taken(w, v) \/ Put(w, v, L) \/ Exchanged(w, v, L)
  BY EditsAre, Zenon
<1>5. Taken(w, v) => v \in Seq(L) /\ OneEdit(w, v, L)
  BY <1>1, Zenon DEF Taken
<1>6. Put(w, v, L) => v \in Seq(L) /\ OneEdit(w, v, L)
  BY <1>2, Zenon DEF Put
<1>7. Exchanged(w, v, L) => v \in Seq(L) /\ OneEdit(w, v, L)
  BY <1>3, Zenon DEF Exchanged
<1> QED
  BY <1>4, <1>5, <1>6, <1>7, Zenon

(* What is an edit the reference has.                                      *)
LEMMA EditsOut ==
  ASSUME NEW L, NEW w \in Seq(L), NEW v \in Seq(L), OneEdit(w, v, L)
  PROVE  v \in Cipher!Edits(w, L)
<1>1. ASSUME Deleted(w, v, L)
      PROVE  Taken(w, v)
  <2>1. PICK p \in Seq(L), u \in Seq(L), c \in L : w = Append(p, c) \o u /\ v = p \o u
    BY <1>1, Zenon DEF Deleted
  <2> DEFINE i == Len(p) + 1
  <2>0. MiddleAt(Append(p, c) \o u, i, p, u)
    BY PartsOfMiddle, Zenon
  <2> HIDE DEF i
  <2>2. i \in DOMAIN w /\ SubSeq(w, 1, i - 1) = p /\ SubSeq(w, i + 1, Len(w)) = u
    BY <2>0, <2>1, Zenon DEF MiddleAt
  <2>3. v = TakenOut(w, i)
    BY <2>1, <2>2, Zenon DEF TakenOut
  <2> QED
    BY <2>2, <2>3, Zenon DEF Taken
<1>2. ASSUME Deleted(v, w, L)
      PROVE  Put(w, v, L)
  <2>1. PICK p \in Seq(L), u \in Seq(L), c \in L : v = Append(p, c) \o u /\ w = p \o u
    BY <1>2, Zenon DEF Deleted
  <2> DEFINE i == Len(p)
  <2>2. i \in 0 .. Len(w) /\ SubSeq(w, 1, i) = p
    BY <2>1, CutConcat, Zenon
  <2>3. SubSeq(w, i + 1, Len(w)) = u
    <3> DEFINE b == SubSeq(p \o u, Len(p) + 1, Len(p \o u))
    <3>1. b \in Seq(L) /\ Len(b) = Len(u) /\ \A k \in 1 .. Len(u) : b[k] = u[k]
      OBVIOUS
    <3> HIDE DEF b
    <3>2. b = u
      BY <3>1, SeqEqual
    <3> QED
      BY <2>1, <3>2, Zenon DEF b
  <2> HIDE DEF i
  <2>4. v = p \o <<c>> \o u
    BY <2>1, AppendAsMiddle, Zenon
  <2>5. v = PutIn(w, i, c)
    BY <2>2, <2>3, <2>4, Zenon DEF PutIn
  <2> QED
    BY <2>2, <2>5, Zenon DEF Put
<1>3. ASSUME Replaced(w, v, L)
      PROVE  Exchanged(w, v, L)
  <2>1. PICK p \in Seq(L), u \in Seq(L), c \in L, d \in L :
               w = Append(p, c) \o u /\ v = Append(p, d) \o u
    BY <1>3, Zenon DEF Replaced
  <2> DEFINE i == Len(p) + 1
  <2>0. MiddleAt(Append(p, c) \o u, i, p, u)
    BY PartsOfMiddle, Zenon
  <2> HIDE DEF i
  <2>2. i \in DOMAIN w /\ SubSeq(w, 1, i - 1) = p /\ SubSeq(w, i + 1, Len(w)) = u
    BY <2>0, <2>1, Zenon DEF MiddleAt
  <2>3. [w EXCEPT ![i] = d] = Append(SubSeq(w, 1, i - 1), d) \o SubSeq(w, i + 1, Len(w))
    BY <2>2, ReplacedIs, Zenon
  <2>4. v = [w EXCEPT ![i] = d]
    BY <2>1, <2>2, <2>3, Zenon
  <2> QED
    BY <2>2, <2>4, Zenon DEF Exchanged
<1> QED
  BY <1>1, <1>2, <1>3, EditsAre, Zenon DEF OneEdit

-----------------------------------------------------------------------------
(* Words within some edits                                                 *)

(* Words within no edits and within one more.                              *)
LEMMA WithinIs ==
  ASSUME NEW L, NEW s \in Seq(L)
  PROVE  /\ Cipher!Within(0, s, L) = {s}
         /\ \A n \in Nat :
              /\ Cipher!Within(n, s, L) \subseteq Seq(L)
              /\ Cipher!Within(n + 1, s, L) =
                   Cipher!Within(n, s, L) \cup
                     UNION {Cipher!Edits(w, L) : w \in Cipher!Within(n, s, L)}
<1> DEFINE Wider(X) == X \cup UNION {Cipher!Edits(w, L) : w \in X}
           Is(m, h) == h = [k \in 0 .. m |->
                             IF k = 0 THEN {s}
                             ELSE LET words == h[k - 1]
                                  IN  words \cup UNION {Cipher!Edits(w, L) : w \in words}]
           H(m) == CHOOSE h : Is(m, h)
<1>1. \A m : Cipher!Within(m, s, L) = H(m)[m]
  BY Zenon DEF Cipher!Within
<1>2. ASSUME NEW m \in Nat
      PROVE  \E f \in [0 .. m -> SUBSET Seq(L)] : Is(m, f)
  <2> DEFINE R == SUBSET Seq(L)
             g == [k \in 1 .. m |-> [X \in R |-> Wider(X)]]
  <2>1. g \in [1 .. m -> [R -> R]]
    <3>1. ASSUME NEW X \in R
          PROVE  Wider(X) \in R
      <4>1. \A w \in X : Cipher!Edits(w, L) \subseteq Seq(L)
        BY EditsIn, Zenon
      <4> QED
        BY <4>1
    <3> HIDE DEF R, Wider
    <3> QED
      BY <3>1
  <2>2. \A k \in 1 .. m : \A X \in R : g[k][X] = Wider(X)
    BY Zenon
  <2>3. {s} \in R
    OBVIOUS
  <2> HIDE DEF g, R
  <2>4. PICK f \in [0 .. m -> R] : Iterates({s}, g, m, f)
    BY <2>1, <2>3, IterationExists, Zenon
  <2>5. Is(m, f)
    <3> DEFINE e == [k \in 0 .. m |-> IF k = 0 THEN {s} ELSE Wider(f[k - 1])]
    <3>1. ASSUME NEW k \in 0 .. m
          PROVE  f[k] = e[k]
      <4>1. f[k] = IF k = 0 THEN {s} ELSE g[k][f[k - 1]]
        BY <2>4, Zenon DEF Iterates
      <4>2. k # 0 => k \in 1 .. m /\ f[k - 1] \in R
        OBVIOUS
      <4>3. k # 0 => g[k][f[k - 1]] = Wider(f[k - 1])
        BY <2>2, <4>2, Zenon
      <4>4. e[k] = IF k = 0 THEN {s} ELSE Wider(f[k - 1])
        BY Zenon
      <4> QED
        BY <4>1, <4>3, <4>4, Zenon
    <3>2. f = [k \in 0 .. m |-> f[k]]
      OBVIOUS
    <3>3. f = e
      BY <3>1, <3>2, Zenon
    <3> QED
      BY <3>3, Zenon
  <2> QED
    BY <2>5, Zenon DEF R
<1>3. \A m \in Nat : Is(m, H(m))
  BY <1>2, Zenon
<1>4. ASSUME NEW m \in Nat
      PROVE  H(m)[0] = {s} /\ \A k \in 1 .. m : H(m)[k] = Wider(H(m)[k - 1])
  <2> DEFINE h == H(m)
  <2>1. Is(m, h)
    BY <1>3, Zenon
  <2> HIDE DEF h
  <2>2. 0 \in 0 .. m /\ \A k \in 1 .. m : k \in 0 .. m /\ k # 0
    OBVIOUS
  <2>3. h[0] = {s} /\ \A k \in 1 .. m : h[k] = Wider(h[k - 1])
    BY <2>1, <2>2, Zenon
  <2> QED
    BY <2>3, Zenon DEF h
<1> HIDE DEF H
<1>5. ASSUME NEW n \in Nat
      PROVE  H(n + 1)[n] = H(n)[n]
  <2> DEFINE f == H(n)
             g == H(n + 1)
             P == {k \in 0 .. n : g[k] = f[k]}
  <2>1. /\ f[0] = {s} /\ \A k \in 1 .. n : f[k] = Wider(f[k - 1])
        /\ g[0] = {s} /\ \A k \in 1 .. n + 1 : g[k] = Wider(g[k - 1])
    <3>1. n + 1 \in Nat
      OBVIOUS
    <3> QED
      BY <1>4, <3>1, Zenon
  <2> HIDE DEF f, g
  <2>2. 0 \in P
    <3>1. 0 \in 0 .. n
      OBVIOUS
    <3> QED
      BY <2>1, <3>1, Zenon
  <2>3. \A k \in 1 .. n : k - 1 \in P => k \in P
    <3> TAKE k \in 1 .. n
    <3> HAVE k - 1 \in P
    <3>1. g[k - 1] = f[k - 1] /\ k \in 0 .. n /\ k \in 1 .. n + 1
      OBVIOUS
    <3>2. f[k] = Wider(f[k - 1]) /\ g[k] = Wider(g[k - 1])
      BY <2>1, <3>1, Zenon
    <3> HIDE DEF Wider
    <3>3. g[k] = f[k]
      BY <3>1, <3>2, Zenon
    <3> QED
      BY <3>1, <3>3, Zenon
  <2>4. n \in P
    <3> HIDE DEF P
    <3> QED
      BY <2>2, <2>3, Induction, Zenon
  <2> QED
    BY <2>4, Zenon DEF f, g
<1>6. ASSUME NEW n \in Nat
      PROVE  H(n + 1)[n + 1] = Wider(H(n)[n])
  <2> DEFINE k == n + 1
  <2>1. k \in Nat /\ k \in 1 .. k /\ k - 1 = n
    OBVIOUS
  <2>2. H(k)[n] = H(n)[n]
    BY <1>5, Zenon
  <2> HIDE DEF k
  <2>3. H(k)[k] = Wider(H(k)[k - 1])
    BY <1>4, <2>1, Zenon
  <2>4. H(k)[k] = Wider(H(n)[n])
    BY <2>1, <2>2, <2>3, Zenon
  <2> QED
    BY <2>4, Zenon DEF k
<1>7. Cipher!Within(0, s, L) = {s}
  <2>1. 0 \in Nat
    OBVIOUS
  <2> QED
    BY <1>1, <1>4, <2>1, Zenon
<1>8. ASSUME NEW n \in Nat
      PROVE  Cipher!Within(n + 1, s, L) = Wider(Cipher!Within(n, s, L))
  <2> HIDE DEF Wider
  <2> QED
    BY <1>1, <1>6, Zenon
<1>9. ASSUME NEW n \in Nat
      PROVE  Cipher!Within(n, s, L) \subseteq Seq(L)
  <2> DEFINE P == {k \in 0 .. n : Cipher!Within(k, s, L) \subseteq Seq(L)}
  <2>1. 0 \in P
    BY <1>7
  <2>2. \A k \in 1 .. n : k - 1 \in P => k \in P
    <3> TAKE k \in 1 .. n
    <3> HAVE k - 1 \in P
    <3> DEFINE X == Cipher!Within(k - 1, s, L)
    <3>0. X \subseteq Seq(L)
      BY Zenon
    <3>1. k - 1 \in Nat /\ k - 1 + 1 = k /\ k \in 0 .. n
      OBVIOUS
    <3>2. Cipher!Within(k, s, L) = Wider(X)
      BY <1>8, <3>1, Zenon
    <3> HIDE DEF X
    <3>3. \A w \in X : Cipher!Edits(w, L) \subseteq Seq(L)
      BY <3>0, EditsIn, Zenon
    <3>4. Wider(X) \subseteq Seq(L)
      BY <3>0, <3>3, Zenon
    <3> QED
      BY <3>1, <3>2, <3>4, Zenon
  <2>3. n \in P
    <3> HIDE DEF P
    <3> QED
      BY <2>1, <2>2, Induction, Zenon
  <2> QED
    BY <2>3, Zenon
<1> QED
  BY <1>7, <1>8, <1>9, Zenon

(* No edits leave a word as it is.                                         *)
LEMMA WithinNone ==
  ASSUME NEW L, NEW s \in Seq(L)
  PROVE  Cipher!Within(0, s, L) = {s}
  BY WithinIs, Zenon

(* One edit further.                                                       *)
LEMMA WithinThen ==
  ASSUME NEW L, NEW s \in Seq(L), NEW n \in Nat, NEW w \in Cipher!Within(n, s, L),
         NEW v \in Seq(L), OneEdit(w, v, L)
  PROVE  v \in Cipher!Within(n + 1, s, L)
<1>1. w \in Seq(L)
  BY WithinIs, Zenon
<1>2. v \in Cipher!Edits(w, L)
  BY <1>1, EditsOut, Zenon
<1>3. Cipher!Within(n + 1, s, L) =
        Cipher!Within(n, s, L) \cup
          UNION {Cipher!Edits(x, L) : x \in Cipher!Within(n, s, L)}
  BY WithinIs, Zenon
<1> QED
  BY <1>2, <1>3, Zenon

(* The last edit is none, or one.                                          *)
LEMMA WithinLast ==
  ASSUME NEW L, NEW s \in Seq(L), NEW n \in Nat, NEW v \in Cipher!Within(n + 1, s, L)
  PROVE  \/ v \in Cipher!Within(n, s, L)
         \/ \E w \in Cipher!Within(n, s, L) : w \in Seq(L) /\ v \in Seq(L) /\ OneEdit(w, v, L)
<1>1. Cipher!Within(n + 1, s, L) =
        Cipher!Within(n, s, L) \cup
          UNION {Cipher!Edits(x, L) : x \in Cipher!Within(n, s, L)}
  BY WithinIs, Zenon
<1>2. v \in Cipher!Within(n, s, L) \/ \E w \in Cipher!Within(n, s, L) : v \in Cipher!Edits(w, L)
  BY <1>1, Zenon
<1>3. ASSUME NEW w \in Cipher!Within(n, s, L), v \in Cipher!Edits(w, L)
      PROVE  w \in Seq(L) /\ v \in Seq(L) /\ OneEdit(w, v, L)
  <2>1. w \in Seq(L)
    BY WithinIs, Zenon
  <2> QED
    BY <1>3, <2>1, EditsIn, Zenon
<1> QED
  BY <1>2, <1>3, Zenon

(* More edits reach more.                                                  *)
LEMMA WithinMore ==
  ASSUME NEW L, NEW s \in Seq(L), NEW n \in Nat
  PROVE  Cipher!Within(n, s, L) \subseteq Cipher!Within(n + 1, s, L)
<1>1. Cipher!Within(n + 1, s, L) =
        Cipher!Within(n, s, L) \cup
          UNION {Cipher!Edits(x, L) : x \in Cipher!Within(n, s, L)}
  BY WithinIs, Zenon
<1> QED
  BY <1>1, Zenon

(* No n edits bring a word nearer by more than n.                          *)
LEMMA NotNearer ==
  ASSUME NEW L, NEW s \in Seq(L), NEW t \in Seq(L), NEW n \in Nat,
         NEW w \in Cipher!Within(n, s, L)
  PROVE  Cipher!WagnerFischer(s, t) <= Cipher!WagnerFischer(w, t) + n
<1> DEFINE WF(x) == Cipher!WagnerFischer(x, t)
           P == {k \in 0 .. n : \A x \in Cipher!Within(k, s, L) : WF(s) <= WF(x) + k}
<1>1. ASSUME NEW x \in Seq(L)
      PROVE  WF(x) \in Nat
  <2>1. LastRow(x, t) \in [0 .. Len(t) -> Nat] /\ Len(t) \in 0 .. Len(t)
    BY LastRowType
  <2>2. WF(x) = LastRow(x, t)[Len(t)]
    BY Zenon DEF Cipher!WagnerFischer, LastRow
  <2> HIDE DEF WF
  <2> QED
    BY <2>1, <2>2
<1>2. 0 \in P
  <2>1. Cipher!Within(0, s, L) = {s}
    BY WithinIs, Zenon
  <2>2. WF(s) \in Nat
    BY <1>1, Zenon
  <2> HIDE DEF WF
  <2>3. 0 \in 0 .. n /\ WF(s) <= WF(s) + 0
    BY <2>2
  <2> QED
    BY <2>1, <2>3, Zenon
<1>3. \A k \in 1 .. n : k - 1 \in P => k \in P
  <2> TAKE k \in 1 .. n
  <2> HAVE k - 1 \in P
  <2> DEFINE m == k - 1
  <2>1. m \in Nat /\ k \in 0 .. n
    OBVIOUS
  <2>2. m + 1 = k
    OBVIOUS
  <2>3. \A x \in Cipher!Within(m, s, L) : WF(s) <= WF(x) + m
    BY Zenon
  <2> HIDE DEF m
  <2>4. ASSUME NEW x \in Cipher!Within(k, s, L)
        PROVE  WF(s) <= WF(x) + k
    <3>1. x \in Cipher!Within(m + 1, s, L)
      BY <2>2, Zenon
    <3>2. \/ x \in Cipher!Within(m, s, L)
          \/ \E w1 \in Cipher!Within(m, s, L) :
               w1 \in Seq(L) /\ x \in Seq(L) /\ OneEdit(w1, x, L)
      BY <2>1, <3>1, WithinLast, Zenon
    <3>3. WF(s) \in Nat
      BY <1>1, Zenon
    <3>4. ASSUME x \in Cipher!Within(m, s, L)
          PROVE  WF(s) <= WF(x) + k
      <4>1. x \in Seq(L)
        BY <2>1, <3>4, WithinIs, Zenon
      <4>2. WF(x) \in Nat /\ WF(s) <= WF(x) + m
        BY <1>1, <2>3, <3>4, <4>1, Zenon
      <4> HIDE DEF WF
      <4> QED
        BY <2>1, <2>2, <3>3, <4>2
    <3>5. ASSUME NEW w1 \in Cipher!Within(m, s, L),
                 w1 \in Seq(L), x \in Seq(L), OneEdit(w1, x, L)
          PROVE  WF(s) <= WF(x) + k
      <4>1. WF(w1) \in Nat /\ WF(x) \in Nat /\ WF(w1) <= WF(x) + 1
        BY <3>5, EditNear, Zenon
      <4>2. WF(s) <= WF(w1) + m
        BY <2>3, Zenon
      <4> HIDE DEF WF
      <4> QED
        BY <2>1, <2>2, <3>3, <4>1, <4>2
    <3> QED
      BY <3>2, <3>4, <3>5, Zenon
  <2> HIDE DEF WF
  <2> QED
    BY <2>1, <2>4, Zenon
<1>4. n \in P
  <2> HIDE DEF P
  <2> QED
    BY <1>2, <1>3, Induction, Zenon
<1> QED
  BY <1>4, Zenon

-----------------------------------------------------------------------------
(* The edits that the table counts                                         *)

(* An edit before those of a word.                                         *)
LEMMA WithinBefore ==
  ASSUME NEW L, NEW r \in Seq(L), NEW s \in Seq(L), OneEdit(r, s, L), NEW n \in Nat
  PROVE  Cipher!Within(n, s, L) \subseteq Cipher!Within(n + 1, r, L)
<1> DEFINE P == {k \in 0 .. n : Cipher!Within(k, s, L) \subseteq Cipher!Within(k + 1, r, L)}
<1>1. 0 \in P
  <2>1. 0 \in Nat /\ 0 \in 0 .. n
    OBVIOUS
  <2>2. Cipher!Within(0, r, L) = {r} /\ Cipher!Within(0, s, L) = {s}
    BY WithinNone
  <2>3. s \in Cipher!Within(0 + 1, r, L)
    BY <2>1, <2>2, WithinThen, Zenon
  <2> QED
    BY <2>1, <2>2, <2>3, Zenon
<1>2. \A k \in 1 .. n : k - 1 \in P => k \in P
  <2> TAKE k \in 1 .. n
  <2> HAVE k - 1 \in P
  <2> DEFINE m == k - 1
  <2>1. m \in Nat /\ k \in 0 .. n /\ k \in Nat
    OBVIOUS
  <2>2. m + 1 = k
    OBVIOUS
  <2>3. Cipher!Within(m, s, L) \subseteq Cipher!Within(m + 1, r, L)
    BY Zenon
  <2> HIDE DEF m
  <2>4. ASSUME NEW x \in Cipher!Within(k, s, L)
        PROVE  x \in Cipher!Within(k + 1, r, L)
    <3>1. \/ x \in Cipher!Within(m, s, L)
          \/ \E w1 \in Cipher!Within(m, s, L) :
               w1 \in Seq(L) /\ x \in Seq(L) /\ OneEdit(w1, x, L)
      BY <2>1, <2>2, WithinLast, Zenon
    <3>2. Cipher!Within(m, s, L) \subseteq Cipher!Within(k, r, L)
      BY <2>2, <2>3, Zenon
    <3>3. x \in Cipher!Within(m, s, L) => x \in Cipher!Within(k + 1, r, L)
      BY <2>1, <3>2, WithinMore, Zenon
    <3>4. ASSUME NEW w1 \in Cipher!Within(m, s, L),
                 w1 \in Seq(L), x \in Seq(L), OneEdit(w1, x, L)
          PROVE  x \in Cipher!Within(k + 1, r, L)
      <4>1. w1 \in Cipher!Within(k, r, L)
        BY <3>2, Zenon
      <4> QED
        BY <2>1, <3>4, <4>1, WithinThen, Zenon
    <3> QED
      BY <3>1, <3>3, <3>4, Zenon
  <2> QED
    BY <2>1, <2>4, Zenon
<1>3. n \in P
  <2> HIDE DEF P
  <2> QED
    BY <1>1, <1>2, Induction, Zenon
<1> QED
  BY <1>3, Zenon

(* An edit stays one with the same letter behind both words.               *)
LEMMA DeletedAppend ==
  ASSUME NEW L, NEW w, NEW v, NEW c \in L, Deleted(w, v, L)
  PROVE  Deleted(Append(w, c), Append(v, c), L)
<1>1. PICK p \in Seq(L), u \in Seq(L), d \in L : w = Append(p, d) \o u /\ v = p \o u
  BY Zenon DEF Deleted
<1>2. Append(p, d) \in Seq(L) /\ Append(u, c) \in Seq(L)
  OBVIOUS
<1>3. /\ Append(p, d) \o Append(u, c) = Append(Append(p, d) \o u, c)
      /\ p \o Append(u, c) = Append(p \o u, c)
  BY <1>2, ConcatAppend
<1>4. Append(p, d) \o Append(u, c) = Append(w, c) /\ p \o Append(u, c) = Append(v, c)
  BY <1>1, <1>3, Zenon
<1> QED
  BY <1>2, <1>4, Zenon DEF Deleted

(* So does a letter replaced.                                              *)
LEMMA ReplacedAppend ==
  ASSUME NEW L, NEW w, NEW v, NEW c \in L, Replaced(w, v, L)
  PROVE  Replaced(Append(w, c), Append(v, c), L)
<1>1. PICK p \in Seq(L), u \in Seq(L), d \in L, e \in L :
             w = Append(p, d) \o u /\ v = Append(p, e) \o u
  BY Zenon DEF Replaced
<1>2. Append(p, d) \in Seq(L) /\ Append(p, e) \in Seq(L) /\ Append(u, c) \in Seq(L)
  OBVIOUS
<1>3. /\ Append(p, d) \o Append(u, c) = Append(Append(p, d) \o u, c)
      /\ Append(p, e) \o Append(u, c) = Append(Append(p, e) \o u, c)
  BY <1>2, ConcatAppend
<1>4. /\ Append(p, d) \o Append(u, c) = Append(w, c)
      /\ Append(p, e) \o Append(u, c) = Append(v, c)
  BY <1>1, <1>3, Zenon
<1> QED
  BY <1>2, <1>4, Zenon DEF Replaced

(* And any edit.                                                           *)
LEMMA EditAppend ==
  ASSUME NEW L, NEW w, NEW v, NEW c \in L, OneEdit(w, v, L)
  PROVE  OneEdit(Append(w, c), Append(v, c), L)
  BY DeletedAppend, ReplacedAppend, Zenon DEF OneEdit

(* As many edits do with the same letter behind.                           *)
LEMMA WithinAppend ==
  ASSUME NEW L, NEW s \in Seq(L), NEW c \in L, NEW n \in Nat,
         NEW v \in Cipher!Within(n, s, L)
  PROVE  Append(v, c) \in Cipher!Within(n, Append(s, c), L)
<1> DEFINE r == Append(s, c)
           P == {k \in 0 .. n : \A x \in Cipher!Within(k, s, L) :
                                   Append(x, c) \in Cipher!Within(k, r, L)}
<1>0. r \in Seq(L)
  OBVIOUS
<1>1. 0 \in P
  <2>1. 0 \in 0 .. n
    OBVIOUS
  <2> HIDE DEF r
  <2>2. Cipher!Within(0, r, L) = {r} /\ Cipher!Within(0, s, L) = {s}
    BY <1>0, WithinNone
  <2>3. Append(s, c) \in Cipher!Within(0, r, L)
    BY <2>2, Zenon DEF r
  <2> QED
    BY <2>1, <2>2, <2>3, Zenon
<1>2. \A k \in 1 .. n : k - 1 \in P => k \in P
  <2> TAKE k \in 1 .. n
  <2> HAVE k - 1 \in P
  <2> DEFINE m == k - 1
  <2>1. m \in Nat /\ k \in 0 .. n
    OBVIOUS
  <2>2. m + 1 = k
    OBVIOUS
  <2>3. \A x \in Cipher!Within(m, s, L) : Append(x, c) \in Cipher!Within(m, r, L)
    BY Zenon
  <2> HIDE DEF m, r
  <2>4. ASSUME NEW x \in Cipher!Within(k, s, L)
        PROVE  Append(x, c) \in Cipher!Within(k, r, L)
    <3>1. \/ x \in Cipher!Within(m, s, L)
          \/ \E w1 \in Cipher!Within(m, s, L) :
               w1 \in Seq(L) /\ x \in Seq(L) /\ OneEdit(w1, x, L)
      BY <2>1, <2>2, WithinLast, Zenon
    <3>2. x \in Cipher!Within(m, s, L) => Append(x, c) \in Cipher!Within(k, r, L)
      BY <1>0, <2>1, <2>2, <2>3, WithinMore, Zenon
    <3>3. ASSUME NEW w1 \in Cipher!Within(m, s, L),
                 w1 \in Seq(L), x \in Seq(L), OneEdit(w1, x, L)
          PROVE  Append(x, c) \in Cipher!Within(k, r, L)
      <4>1. Append(w1, c) \in Cipher!Within(m, r, L)
        BY <2>3, Zenon
      <4>2. OneEdit(Append(w1, c), Append(x, c), L)
        BY <3>3, EditAppend, Zenon
      <4>3. Append(x, c) \in Seq(L)
        BY <3>3
      <4> QED
        BY <1>0, <2>1, <2>2, <4>1, <4>2, <4>3, WithinThen, Zenon
    <3> QED
      BY <3>1, <3>2, <3>3, Zenon
  <2> QED
    BY <2>1, <2>4, Zenon
<1>3. n \in P
  <2> HIDE DEF P
  <2> QED
    BY <1>1, <1>2, Induction, Zenon
<1> QED
  BY <1>3, Zenon

(* The last letter goes or comes.                                          *)
LEMMA LastDeleted ==
  ASSUME NEW L, NEW p \in Seq(L), NEW c \in L
  PROVE  OneEdit(Append(p, c), p, L) /\ OneEdit(p, Append(p, c), L)
<1>1. << >> \in Seq(L) /\ Append(p, c) \in Seq(L)
  OBVIOUS
<1>2. Append(p, c) \o << >> = Append(p, c) /\ p \o << >> = p
  BY <1>1, ConcatEmptySeq, Zenon
<1>3. Deleted(Append(p, c), p, L)
  BY <1>1, <1>2, Zenon DEF Deleted
<1> QED
  BY <1>3, Zenon DEF OneEdit

(* The last letter is another one.                                         *)
LEMMA LastReplaced ==
  ASSUME NEW L, NEW p \in Seq(L), NEW c \in L, NEW d \in L
  PROVE  OneEdit(Append(p, c), Append(p, d), L)
<1>1. << >> \in Seq(L) /\ Append(p, c) \in Seq(L) /\ Append(p, d) \in Seq(L)
  OBVIOUS
<1>2. Append(p, c) \o << >> = Append(p, c) /\ Append(p, d) \o << >> = Append(p, d)
  BY <1>1, ConcatEmptySeq, Zenon
<1>3. Replaced(Append(p, c), Append(p, d), L)
  BY <1>1, <1>2, Zenon DEF Replaced
<1> QED
  BY <1>3, Zenon DEF OneEdit

(* The beginnings of t can be made of s with as many edits as row says.    *)
Reached(row, s, t, L) ==
  \A j \in 0 .. Len(t) : SubSeq(t, 1, j) \in Cipher!Within(row[j], s, L)

(* As many letters are put in as the first row says.                       *)
LEMMA ReachedFirst ==
  ASSUME NEW L, NEW t \in Seq(L)
  PROVE  Reached(FirstRow(t), << >>, t, L)
<1> DEFINE n == Len(t)
           P == {j \in 0 .. n : SubSeq(t, 1, j) \in Cipher!Within(j, << >>, L)}
<1>1. n \in Nat /\ << >> \in Seq(L) /\ SubSeq(t, 1, 0) = << >> /\ 0 \in 0 .. n
  OBVIOUS
<1>2. 0 \in P
  <2>1. Cipher!Within(0, << >>, L) = {<< >>}
    BY <1>1, WithinNone
  <2> QED
    BY <1>1, <2>1, Zenon
<1>3. \A j \in 1 .. n : j - 1 \in P => j \in P
  <2> TAKE j \in 1 .. n
  <2> HAVE j - 1 \in P
  <2> DEFINE m == j - 1
             w == SubSeq(t, 1, m)
             v == SubSeq(t, 1, j)
  <2>1. m \in Nat /\ j \in 0 .. n /\ w \in Seq(L) /\ v \in Seq(L) /\ t[j] \in L
    OBVIOUS
  <2>2. m + 1 = j
    OBVIOUS
  <2>3. v = Append(w, t[j])
    BY SubSeqAppend
  <2>4. w \in Cipher!Within(m, << >>, L)
    BY Zenon
  <2> HIDE DEF m, w, v
  <2>5. OneEdit(w, v, L)
    BY <2>1, <2>3, LastDeleted, Zenon
  <2>6. v \in Cipher!Within(m + 1, << >>, L)
    BY <1>1, <2>1, <2>4, <2>5, WithinThen, Zenon
  <2> QED
    BY <2>1, <2>2, <2>6, Zenon DEF v
<1>4. \A j \in 0 .. n : j \in P
  <2> HIDE DEF P
  <2> QED
    BY <1>1, <1>2, <1>3, Induction, Zenon
<1>5. \A j \in 0 .. n : FirstRow(t)[j] = j
  BY Zenon DEF FirstRow
<1> QED
  BY <1>4, <1>5, Zenon DEF Reached

(* A cell counts the edits of the way it was found by.                     *)
LEMMA ReachedCell ==
  ASSUME NEW L, NEW s \in Seq(L), NEW c \in L, NEW w \in Seq(L), NEW d \in L,
         NEW x \in Nat, w \in Cipher!Within(x, s, L),
         NEW y \in Nat, Append(w, d) \in Cipher!Within(y, s, L),
         NEW left \in Nat, w \in Cipher!Within(left, Append(s, c), L)
  PROVE  /\ c = d => Append(w, d) \in Cipher!Within(x, Append(s, c), L)
         /\ Append(w, d) \in Cipher!Within(Cipher!Min({x, y, left}) + 1, Append(s, c), L)
<1> DEFINE r == Append(s, c)
           v == Append(w, d)
           m == Cipher!Min({x, y, left})
<1>1. r \in Seq(L) /\ v \in Seq(L) /\ Append(s, d) \in Seq(L)
  OBVIOUS
<1>2. v \in Cipher!Within(x, Append(s, d), L)
  BY WithinAppend, Zenon
<1>3. c = d => v \in Cipher!Within(x, r, L)
  BY <1>2, Zenon
<1>4. v \in Cipher!Within(x + 1, r, L)
  <2>1. OneEdit(r, Append(s, d), L)
    BY LastReplaced, Zenon
  <2> HIDE DEF r, v
  <2>2. Cipher!Within(x, Append(s, d), L) \subseteq Cipher!Within(x + 1, r, L)
    BY <1>1, <2>1, WithinBefore, Zenon
  <2> QED
    BY <1>2, <2>2, Zenon
<1>5. v \in Cipher!Within(y + 1, r, L)
  <2>1. OneEdit(r, s, L)
    BY LastDeleted, Zenon
  <2> HIDE DEF r, v
  <2>2. Cipher!Within(y, s, L) \subseteq Cipher!Within(y + 1, r, L)
    BY <1>1, <2>1, WithinBefore, Zenon
  <2> QED
    BY <2>2, Zenon DEF v
<1>6. v \in Cipher!Within(left + 1, r, L)
  <2>1. OneEdit(w, v, L)
    BY LastDeleted, Zenon
  <2>2. w \in Cipher!Within(left, r, L)
    BY Zenon
  <2> HIDE DEF r, v
  <2> QED
    BY <1>1, <2>1, <2>2, WithinThen, Zenon
<1>7. m \in {x, y, left}
  BY MinOfThree
<1> HIDE DEF r, v, m
<1>8. v \in Cipher!Within(m + 1, r, L)
  BY <1>4, <1>5, <1>6, <1>7, Zenon
<1> QED
  BY <1>3, <1>8, Zenon DEF r, v, m

(* A row that counts edits is followed by one that does.                   *)
LEMMA ReachedNext ==
  ASSUME NEW L, NEW s \in Seq(L), NEW c \in L, NEW t \in Seq(L),
         Reached(LastRow(s, t), s, t, L)
  PROVE  Reached(LastRow(Append(s, c), t), Append(s, c), t, L)
<1> DEFINE n == Len(t)
           r == Append(s, c)
           row == LastRow(s, t)
           new == LastRow(r, t)
           P == {j \in 0 .. n : SubSeq(t, 1, j) \in Cipher!Within(new[j], r, L)}
<1>1. n \in Nat /\ SubSeq(t, 1, 0) = << >> /\ 0 \in 0 .. n /\ r \in Seq(L)
      /\ Len(s) \in Nat /\ Len(s) + 1 \in Nat
  OBVIOUS
<1>2. Good(row, Len(s), n)
  BY GoodRows, Zenon
<1>3. row \in [0 .. n -> Nat] /\ row[0] = Len(s)
  BY <1>2, Zenon DEF Good
<1>4. new = Cipher!NextRow(row, Len(s) + 1, c, t)
  BY LastRowAppend, Zenon
<1> HIDE DEF new, row
<1>5. RowIs(row, Len(s) + 1, c, t, new)
  BY <1>1, <1>3, <1>4, NextRowIs, Zenon
<1>6. /\ new \in [0 .. n -> Nat] /\ new[0] = Len(s) + 1
      /\ \A j \in 1 .. n : new[j] = CellIs(row, c, t, j, new[j - 1])
  BY <1>5, Zenon DEF RowIs
<1>7. \A j \in 0 .. n : SubSeq(t, 1, j) \in Cipher!Within(row[j], s, L)
  BY Zenon DEF Reached, row
<1> HIDE DEF n
<1>8. 0 \in P
  <2>1. SubSeq(t, 1, 0) \in Cipher!Within(Len(s), s, L)
    BY <1>1, <1>3, <1>7, Zenon
  <2>2. OneEdit(r, s, L)
    BY LastDeleted, Zenon
  <2> HIDE DEF r
  <2>3. Cipher!Within(Len(s), s, L) \subseteq Cipher!Within(Len(s) + 1, r, L)
    BY <1>1, <2>2, WithinBefore, Zenon
  <2>4. SubSeq(t, 1, 0) \in Cipher!Within(new[0], r, L)
    BY <1>6, <2>1, <2>3, Zenon
  <2> QED
    BY <1>1, <2>4, Zenon
<1>9. \A j \in 1 .. n : j - 1 \in P => j \in P
  <2> TAKE j \in 1 .. n
  <2> HAVE j - 1 \in P
  <2> DEFINE m == j - 1
             w == SubSeq(t, 1, m)
             v == SubSeq(t, 1, j)
             x == row[m]
             y == row[j]
             left == new[m]
  <2>1. m \in 0 .. n /\ j \in 0 .. n
    BY <1>1
  <2>2. w \in Seq(L) /\ t[j] \in L
    BY DEF n
  <2>3. v = Append(w, t[j])
    BY SubSeqAppend DEF n
  <2>4. x \in Nat /\ y \in Nat /\ left \in Nat
    BY <1>3, <1>6, <2>1
  <2>5. w \in Cipher!Within(x, s, L)
    BY <1>7, <2>1, Zenon
  <2>6. v \in Cipher!Within(y, s, L)
    BY <1>7, <2>1, Zenon
  <2>7. w \in Cipher!Within(left, r, L)
    BY Zenon
  <2>8. new[j] = IF c = t[j] THEN x ELSE Cipher!Min({x, y, left}) + 1
    BY <1>6, Zenon DEF CellIs
  <2> HIDE DEF m, w, v, x, y, left
  <2>9. Append(w, t[j]) \in Cipher!Within(y, s, L)
    BY <2>3, <2>6, Zenon
  <2>10. /\ c = t[j] => Append(w, t[j]) \in Cipher!Within(x, r, L)
         /\ Append(w, t[j]) \in Cipher!Within(Cipher!Min({x, y, left}) + 1, r, L)
    BY <2>2, <2>4, <2>5, <2>7, <2>9, ReachedCell, Zenon
  <2> HIDE DEF r
  <2>11. v \in Cipher!Within(new[j], r, L)
    BY <2>3, <2>8, <2>10, Zenon
  <2> QED
    BY <2>1, <2>11, Zenon DEF v
<1>10. \A j \in 0 .. n : j \in P
  <2> HIDE DEF P
  <2> QED
    BY <1>1, <1>8, <1>9, Induction, Zenon
<1> QED
  BY <1>10, Zenon DEF Reached, n, r, new

(* So the last cell counts edits that make t of s.                         *)
LEMMA ReachedAll ==
  ASSUME NEW L, NEW s \in Seq(L), NEW t \in Seq(L)
  PROVE  t \in Cipher!Within(Cipher!WagnerFischer(s, t), s, L)
<1> DEFINE Q == {x \in Seq(L) : Reached(LastRow(x, t), x, t, L)}
<1>1. << >> \in Q
  <2>1. << >> \in Seq(L)
    OBVIOUS
  <2> QED
    BY <2>1, LastRowEmpty, ReachedFirst, Zenon
<1>2. ASSUME NEW x \in Seq(L), NEW c \in L, x \in Q
      PROVE  Append(x, c) \in Q
  <2>1. Append(x, c) \in Seq(L)
    OBVIOUS
  <2> QED
    BY <1>2, <2>1, ReachedNext, Zenon
<1> HIDE DEF Q
<1>3. s \in Q
  BY <1>1, <1>2, LetterByLetter, Zenon
<1>4. Len(t) \in 0 .. Len(t)
  OBVIOUS
<1>5. SubSeq(t, 1, Len(t)) \in Cipher!Within(LastRow(s, t)[Len(t)], s, L)
  BY <1>3, <1>4, Zenon DEF Q, Reached
<1>6. SubSeq(t, 1, Len(t)) = t
  BY SubSeqFull
<1> QED
  BY <1>5, <1>6, Zenon DEF LastRow, Cipher!WagnerFischer

(* The distance is a number.                                               *)
LEMMA DistanceType ==
  ASSUME NEW L, NEW s \in Seq(L), NEW t \in Seq(L)
  PROVE  Cipher!WagnerFischer(s, t) \in Nat
<1>1. LastRow(s, t) \in [0 .. Len(t) -> Nat] /\ Len(t) \in 0 .. Len(t)
  BY LastRowType
<1> DEFINE row == LastRow(s, t)
           n == Len(t)
<1>2. Cipher!WagnerFischer(s, t) = row[n]
  BY Zenon DEF Cipher!WagnerFischer, LastRow
<1>3. row \in [0 .. n -> Nat] /\ n \in 0 .. n
  BY <1>1, Zenon
<1> HIDE DEF row, n
<1>4. row[n] \in Nat
  BY <1>3
<1> QED
  BY <1>2, <1>4, Zenon

(* WagnerFischer gives the least number of edits that make one word of the *)
(* other, for any two words over any letters: so many do, and no fewer do. *)
THEOREM DistanceIsIndeedLeast ==
  ASSUME NEW S, problem \in Seq(S) \X Seq(S)
  PROVE  DistanceIsLeast
<1> DEFINE s == problem[1]
           t == problem[2]
           L == {s[i] : i \in DOMAIN s} \cup {t[i] : i \in DOMAIN t}
           d == Cipher!WagnerFischer(s, t)
<1>1. s \in Seq(S) /\ t \in Seq(S)
  OBVIOUS
<1> HIDE DEF s, t
<1>2. s \in Seq(L) /\ t \in Seq(L)
  <2>1. /\ Len(s) \in Nat /\ DOMAIN s = 1 .. Len(s)
        /\ Len(t) \in Nat /\ DOMAIN t = 1 .. Len(t)
    BY <1>1
  <2>2. s \in [1 .. Len(s) -> L] /\ t \in [1 .. Len(t) -> L]
    BY <1>1, <2>1
  <2> HIDE DEF L
  <2> QED
    BY <2>1, <2>2, SeqDef
<1> HIDE DEF L
<1>3. d \in Nat
  BY <1>2, DistanceType, Zenon
<1>4. t \in Cipher!Within(d, s, L)
  BY <1>2, ReachedAll, Zenon
<1> HIDE DEF d
<1>5. d > 0 => t \notin Cipher!Within(d - 1, s, L)
  <2> SUFFICES ASSUME d > 0, t \in Cipher!Within(d - 1, s, L)
               PROVE  FALSE
    OBVIOUS
  <2>1. d - 1 \in Nat
    BY <1>3
  <2>2. d <= Cipher!WagnerFischer(t, t) + (d - 1)
    BY <1>2, <2>1, NotNearer, Zenon DEF d
  <2>3. d <= 0 + (d - 1)
    BY <1>2, <2>2, NoDistance, Zenon
  <2> QED
    BY <1>3, <2>3
<1>6. Cipher!DistanceIsLeast(s, t)
  BY <1>4, <1>5, Zenon DEF Cipher!DistanceIsLeast, L, d
<1> QED
  BY <1>6, Zenon DEF DistanceIsLeast, s, t

(* The letters that homework 3 reads.                                     *)
Letters == (Cipher!a .. Cipher!z) \cup (Cipher!A .. Cipher!Z)

(* A letter is shifted as the alphabet is turned.                          *)
LEMMA ShiftedIsTurned ==
  ASSUME NEW o \in Letters, NEW k \in 0 .. 51
  PROVE  /\ Cipher!Shifted(o, k) = Cipher!LetterAt((Cipher!Place(o) + k) % 52)
         /\ Cipher!Shifted(o, k) \in Letters
<1> DEFINE p == Cipher!Place(o)
<1>1. p \in 0 .. 51 /\ ((o >= 97 /\ o <= 122 /\ p = o - 97) \/ (o >= 65 /\ o <= 90 /\ p = o - 39))
      /\ o \in Int
  BY DEF Letters, Cipher!Place, Cipher!a, Cipher!z, Cipher!A, Cipher!Z
<1> HIDE DEF p
<1>2. (p + k) % 52 = IF p + k < 52 THEN p + k ELSE p + k - 52
  BY <1>1
<1> DEFINE q == (p + k) % 52
<1>3. q = IF p + k < 52 THEN p + k ELSE p + k - 52
  BY <1>2, Zenon
<1> HIDE DEF q
<1>4. Cipher!Shifted(o, k) = Cipher!LetterAt(q)
  BY <1>1, <1>3 DEF Cipher!Shifted, Cipher!LetterAt, Cipher!a, Cipher!z, Cipher!A, Cipher!Z
<1>5. Cipher!Shifted(o, k) \in Letters
  BY <1>1, <1>3, <1>4 DEF Cipher!LetterAt, Letters, Cipher!a, Cipher!z, Cipher!A, Cipher!Z
<1> QED
  BY <1>4, <1>5, Zenon DEF p, q

(* A text too.                                                             *)
LEMMA TextIsTurned ==
  ASSUME NEW s \in Seq(Letters), NEW k \in 0 .. 51
  PROVE  /\ Cipher!shift(s, k) = Cipher!Turned(s, k)
         /\ Cipher!Turned(s, k) \in Seq(Letters) /\ Len(Cipher!Turned(s, k)) = Len(s)
<1>1. Len(s) \in Nat /\ DOMAIN s = 1 .. Len(s) /\ \A i \in 1 .. Len(s) : s[i] \in Letters
  OBVIOUS
<1>2. Cipher!shift(s, k) = [i \in 1 .. Len(s) |-> Cipher!Shifted(s[i], k)]
  BY <1>1, Zenon DEF Cipher!shift
<1>3. Cipher!Turned(s, k) =
        [i \in 1 .. Len(s) |-> Cipher!LetterAt((Cipher!Place(s[i]) + k) % 52)]
  BY <1>1, Zenon DEF Cipher!Turned
<1>4. \A i \in 1 .. Len(s) :
        /\ Cipher!Shifted(s[i], k) = Cipher!LetterAt((Cipher!Place(s[i]) + k) % 52)
        /\ Cipher!Shifted(s[i], k) \in Letters
  BY <1>1, ShiftedIsTurned, Zenon
<1>5. Cipher!shift(s, k) = Cipher!Turned(s, k)
  BY <1>2, <1>3, <1>4, Zenon
<1>6. Cipher!shift(s, k) \in [1 .. Len(s) -> Letters]
  BY <1>2, <1>4
<1>7. Cipher!shift(s, k) \in Seq(Letters) /\ Len(Cipher!shift(s, k)) = Len(s)
  BY <1>1, <1>6, SeqDef
<1> QED
  BY <1>5, <1>7, Zenon

-----------------------------------------------------------------------------
(* How well a text fits                                                    *)

(* No more letters agree than were heard.                                  *)
LEMMA CompareType ==
  ASSUME NEW S, NEW piece \in Seq(S), NEW text
  PROVE  Cipher!compare(piece, text) \in 0 .. Len(piece)
<1> DEFINE T == {i \in DOMAIN piece : text[i] = piece[i]}
           n == Len(piece)
<1>1. n \in Nat /\ DOMAIN piece = 1 .. n
  OBVIOUS
<1>2. IsFiniteSet(1 .. n) /\ Cardinality(1 .. n) = n
  BY <1>1, FS_Interval
<1>3. T \in SUBSET (1 .. n)
  BY <1>1
<1>4. Cipher!compare(piece, text) = Cardinality(T)
  BY Zenon DEF Cipher!compare, Cipher!Cardinality, Cardinality
<1> HIDE DEF T
<1>5. Cardinality(T) \in Nat /\ Cardinality(T) <= n
  BY <1>2, <1>3, FS_Subset, FS_CardinalityType
<1> QED
  BY <1>1, <1>4, <1>5

(* The greater of two numbers.                                             *)
LEMMA MaxOfTwo ==
  ASSUME NEW x \in Nat, NEW y \in Nat
  PROVE  /\ Cipher!Max({x, y}) \in {x, y}
         /\ Cipher!Max({x, y}) >= x /\ Cipher!Max({x, y}) >= y
<1> DEFINE T == {x, y}
<1>1. \E u \in T : \A v \in T : u >= v
  BY x >= y \/ y >= x
<1>2. Cipher!Max(T) \in T /\ \A v \in T : Cipher!Max(T) >= v
  BY <1>1, Zenon DEF Cipher!Max
<1> QED
  BY <1>2, Zenon

(* No more edits than the longer of the words has letters.                 *)
LEMMA CellBound ==
  ASSUME NEW S, NEW t \in Seq(S), NEW s \in Seq(S)
  PROVE  Cipher!WagnerFischer(s, t) <= Cipher!Max({Len(s), Len(t)})
<1> DEFINE n == Len(t)
           Q == {x \in Seq(S) : \A j \in 0 .. n :
                    LastRow(x, t)[j] <= Len(x) \/ LastRow(x, t)[j] <= j}
<1>1. n \in Nat /\ << >> \in Seq(S)
  OBVIOUS
<1>2. << >> \in Q
  <2>1. LastRow(<< >>, t) = [j \in 0 .. n |-> j]
    BY LastRowEmpty, Zenon DEF FirstRow
  <2> HIDE DEF n
  <2>2. \A j \in 0 .. n : [i \in 0 .. n |-> i][j] <= j
    BY <1>1
  <2> QED
    BY <1>1, <2>1, <2>2, Zenon
<1>3. ASSUME NEW x \in Seq(S), NEW c \in S, x \in Q
      PROVE  Append(x, c) \in Q
  <2> DEFINE r == Append(x, c)
             row == LastRow(x, t)
             new == LastRow(r, t)
             k == Len(x)
  <2>1. r \in Seq(S) /\ Len(r) = k + 1 /\ k \in Nat
    OBVIOUS
  <2>2. Good(row, k, n)
    BY GoodRows, Zenon
  <2>3. new = Cipher!NextRow(row, k + 1, c, t)
    BY LastRowAppend, Zenon
  <2>4. \A j \in 0 .. n : row[j] <= k \/ row[j] <= j
    BY <1>3, Zenon
  <2> HIDE DEF r, row, new, k
  <2>5. /\ Good(new, k + 1, n)
        /\ \A j \in 1 .. n : new[j] \in {row[j - 1], row[j - 1] + 1}
    BY <2>1, <2>2, <2>3, RowStep, Zenon
  <2>6. row \in [0 .. n -> Nat] /\ new[0] = k + 1
    BY <2>2, <2>5, Zenon DEF Good
  <2> HIDE DEF n
  <2>7. ASSUME NEW j \in 0 .. n
        PROVE  new[j] <= k + 1 \/ new[j] <= j
    <3>1. ASSUME j = 0
          PROVE  new[j] <= k + 1
      BY <2>1, <2>6, <3>1
    <3>2. ASSUME j # 0
          PROVE  new[j] <= k + 1 \/ new[j] <= j
      <4> DEFINE b == row[j - 1]
      <4>1. j \in 1 .. n /\ j - 1 \in 0 .. n
        BY <1>1, <3>2
      <4>2. b \in Nat
        BY <2>6, <4>1
      <4>3. (b <= k \/ b <= j - 1) /\ new[j] \in {b, b + 1}
        BY <2>4, <2>5, <4>1, Zenon
      <4> HIDE DEF b
      <4> QED
        BY <1>1, <2>1, <4>1, <4>2, <4>3
    <3> QED
      BY <3>1, <3>2, Zenon
  <2> QED
    BY <2>1, <2>7, Zenon DEF new, r
<1>4. s \in Q
  <2> HIDE DEF Q
  <2> QED
    BY <1>2, <1>3, LetterByLetter, Zenon
<1> DEFINE d == LastRow(s, t)[n]
           k == Len(s)
<1>5. d <= k \/ d <= n
  <2>1. n \in 0 .. n
    OBVIOUS
  <2> QED
    BY <1>4, <2>1, Zenon
<1>6. Cipher!WagnerFischer(s, t) = d
  BY Zenon DEF LastRow, Cipher!WagnerFischer
<1>7. d \in Nat
  BY <1>6, DistanceType, Zenon
<1>8. k \in Nat
  OBVIOUS
<1> DEFINE m == Cipher!Max({k, n})
<1>9. m \in {k, n} /\ m >= k /\ m >= n
  BY <1>1, <1>8, MaxOfTwo, Zenon
<1> HIDE DEF d, k, n, m
<1>10. d <= m
  BY <1>1, <1>5, <1>7, <1>8, <1>9
<1> QED
  BY <1>6, <1>10, Zenon DEF k, n, m

(* The least of some numbers.                                              *)
LEMMA LeastIs ==
  ASSUME NEW T, T \subseteq Nat, NEW x \in T, \A y \in T : x <= y
  PROVE  Cipher!Min(T) = x
<1> DEFINE m == Cipher!Min(T)
<1>1. m \in T /\ \A y \in T : m <= y
  BY Zenon DEF Cipher!Min
<1> HIDE DEF m
<1>2. m <= x /\ x <= m
  BY <1>1, Zenon
<1>3. m \in Nat /\ x \in Nat
  BY <1>1
<1>4. m = x
  BY <1>2, <1>3
<1> QED
  BY <1>4, Zenon DEF m

-----------------------------------------------------------------------------
(* The best offset                                                         *)

(* The loop of findmatch: the score it starts with, one turn of it, and    *)
(* all of them.                                                            *)
Worst(s, t) == IF Len(s) = Len(t) THEN 0 ELSE Cipher!Max({Len(s), Len(t)})

Chosen(s, t, k, last) ==
  IF Cipher!Better(Cipher!Matches(s, t, k), last.score, Len(s) = Len(t))
    THEN [offset |-> k, score |-> Cipher!Matches(s, t, k)] ELSE last

Tries(s, t, h) ==
  /\ h[0] = [offset |-> 0, score |-> Worst(s, t)]
  /\ \A n \in 1 .. 52 : h[n] = Chosen(s, t, n - 1, h[n - 1])

(* Matches compares, or counts edits.                                      *)
LEMMA MatchesIs ==
  ASSUME NEW s \in Seq(Letters), NEW t \in Seq(Letters), NEW k \in 0 .. 51
  PROVE  /\ Cipher!Matches(s, t, k) =
              IF Len(s) = Len(t) THEN Cipher!compare(t, Cipher!Turned(s, k))
                                 ELSE Cipher!WagnerFischer(Cipher!Turned(s, k), t)
         /\ Cipher!Matches(s, t, k) \in Nat
<1> DEFINE u == Cipher!Turned(s, k)
<1>1. Cipher!shift(s, k) = u /\ u \in Seq(Letters)
  BY TextIsTurned, Zenon
<1>2. Cipher!Matches(s, t, k) =
        IF Len(s) = Len(t) THEN Cipher!compare(t, u) ELSE Cipher!WagnerFischer(u, t)
  BY <1>1, Zenon DEF Cipher!Matches
<1> HIDE DEF u
<1>3. Cipher!WagnerFischer(u, t) \in Nat
  BY <1>1, DistanceType, Zenon
<1>4. Cipher!compare(t, u) \in 0 .. Len(t) /\ 0 .. Len(t) \subseteq Nat
  BY CompareType
<1>5. Cipher!compare(t, u) \in Nat
  BY <1>4, Zenon
<1> QED
  BY <1>2, <1>3, <1>5, Zenon DEF u

(* Best runs that loop.                                                    *)
LEMMA BestIs ==
  ASSUME NEW s \in Seq(Letters), NEW t \in Seq(Letters)
  PROVE  \E h \in [0 .. 52 -> [offset : 0 .. 51, score : Nat]] :
           Tries(s, t, h) /\ Cipher!Best(s, t) = h[52]
<1> DEFINE R == [offset : 0 .. 51, score : Nat]
           a == [offset |-> 0, score |-> Worst(s, t)]
           same == Len(s) = Len(t)
           Is(h) == h = [n \in 0 .. 52 |->
                          IF n = 0
                            THEN [offset |-> 0,
                                  score |-> IF same THEN 0
                                            ELSE Cipher!Max({Len(s), Len(t)})]
                          ELSE LET last == h[n - 1]
                                   matches == Cipher!Matches(s, t, n - 1)
                               IN  IF Cipher!Better(matches, last.score, same)
                                     THEN [offset |-> n - 1, score |-> matches] ELSE last]
           g == [n \in 1 .. 52 |-> [x \in R |-> Chosen(s, t, n - 1, x)]]
           h == CHOOSE h : Is(h)
<1>1. Cipher!Best(s, t) = h[52]
  BY Zenon DEF Cipher!Best
<1>2. g \in [1 .. 52 -> [R -> R]]
  <2>1. ASSUME NEW n \in 1 .. 52, NEW x \in R
        PROVE  Chosen(s, t, n - 1, x) \in R
    <3> DEFINE k == n - 1
               m == Cipher!Matches(s, t, k)
    <3>1. k \in 0 .. 51
      OBVIOUS
    <3> HIDE DEF k
    <3>2. m \in Nat
      BY <3>1, MatchesIs, Zenon
    <3> HIDE DEF m
    <3>3. [offset |-> k, score |-> m] \in R
      BY <3>1, <3>2
    <3> QED
      BY <3>3, Zenon DEF Chosen, k, m
  <2> HIDE DEF R
  <2> QED
    BY <2>1
<1>3. \A n \in 1 .. 52 : \A x \in R : g[n][x] = Chosen(s, t, n - 1, x)
  BY Zenon
<1>4. a \in R
  <2>1. Len(s) \in Nat /\ Len(t) \in Nat
    OBVIOUS
  <2>2. Cipher!Max({Len(s), Len(t)}) \in Nat
    BY <2>1, MaxOfTwo, Zenon
  <2>3. Worst(s, t) \in Nat
    BY <2>2 DEF Worst
  <2> QED
    BY <2>3
<1> HIDE DEF g, a, R
<1>5. PICK f \in [0 .. 52 -> R] : Iterates(a, g, 52, f)
  BY <1>2, <1>4, IterationExists, 52 \in Nat
<1>6. Is(f)
  <2> DEFINE e == [n \in 0 .. 52 |->
                    IF n = 0
                      THEN [offset |-> 0,
                            score |-> IF same THEN 0
                                      ELSE Cipher!Max({Len(s), Len(t)})]
                    ELSE LET last == f[n - 1]
                             matches == Cipher!Matches(s, t, n - 1)
                         IN  IF Cipher!Better(matches, last.score, same)
                               THEN [offset |-> n - 1, score |-> matches] ELSE last]
  <2>1. ASSUME NEW n \in 0 .. 52
        PROVE  f[n] = e[n]
    <3>1. f[n] = IF n = 0 THEN a ELSE g[n][f[n - 1]]
      BY <1>5, Zenon DEF Iterates
    <3>2. e[n] = IF n = 0 THEN a ELSE Chosen(s, t, n - 1, f[n - 1])
      BY Zenon DEF a, Worst, Chosen
    <3> HIDE DEF e
    <3>3. n # 0 => n \in 1 .. 52 /\ n - 1 \in 0 .. 52
      BY SMT
    <3>4. n # 0 => f[n - 1] \in R
      BY <3>3, Zenon
    <3>5. n # 0 => g[n][f[n - 1]] = Chosen(s, t, n - 1, f[n - 1])
      BY <1>3, <3>3, <3>4, Zenon
    <3>6. n = 0 => f[n] = e[n]
      BY <3>1, <3>2, Zenon
    <3>7. n # 0 => f[n] = e[n]
      BY <3>1, <3>2, <3>5, Zenon
    <3> QED
      BY <3>6, <3>7, Zenon
  <2>2. f = [n \in 0 .. 52 |-> f[n]]
    OBVIOUS
  <2>3. f = e
    BY <2>1, <2>2, Zenon
  <2> QED
    BY <2>3, Zenon
<1>7. Is(h)
  BY <1>6, Zenon
<1> HIDE DEF h
<1>8. Tries(s, t, h)
  <2>1. 0 \in 0 .. 52 /\ \A n \in 1 .. 52 : n \in 0 .. 52 /\ n # 0
    OBVIOUS
  <2>2. h[0] = a
    BY <1>7, <2>1, Zenon DEF a, Worst
  <2>3. ASSUME NEW n \in 1 .. 52
        PROVE  h[n] = Chosen(s, t, n - 1, h[n - 1])
    BY <1>7, <2>1, Zenon DEF Chosen
  <2> QED
    BY <2>2, <2>3, Zenon DEF Tries, a
<1>9. h \in [0 .. 52 -> R]
  <2> DEFINE P == {n \in 0 .. 52 : h[n] \in R}
  <2>0. 52 \in Nat /\ 0 \in 0 .. 52 /\ \A n \in 1 .. 52 : n \in 0 .. 52
    OBVIOUS
  <2>1. 0 \in P
    BY <1>4, <1>8, <2>0, Zenon DEF Tries, a
  <2>2. \A n \in 1 .. 52 : n - 1 \in P => n \in P
    <3> TAKE n \in 1 .. 52
    <3> HAVE n - 1 \in P
    <3>1. h[n - 1] \in R
      BY Zenon
    <3>2. g[n] \in [R -> R]
      BY <1>2
    <3>3. g[n][h[n - 1]] \in R
      BY <3>1, <3>2
    <3>4. h[n] = g[n][h[n - 1]]
      BY <1>3, <1>8, <3>1, Zenon DEF Tries
    <3> QED
      BY <2>0, <3>3, <3>4, Zenon
  <2>3. \A n \in 0 .. 52 : h[n] \in R
    <3>1. \A n \in 0 .. 52 : n \in P
      <4> HIDE DEF P
      <4> QED
        BY <2>0, <2>1, <2>2, Induction, Zenon
    <3> QED
      BY <3>1, Zenon
  <2>4. h = [n \in 0 .. 52 |-> h[n]]
    <3> DEFINE e == [n \in 0 .. 52 |->
                    IF n = 0
                      THEN [offset |-> 0,
                            score |-> IF same THEN 0
                                      ELSE Cipher!Max({Len(s), Len(t)})]
                    ELSE LET last == h[n - 1]
                             matches == Cipher!Matches(s, t, n - 1)
                         IN  IF Cipher!Better(matches, last.score, same)
                               THEN [offset |-> n - 1, score |-> matches] ELSE last]
    <3>1. h = e
      BY <1>7, Zenon
    <3>2. e = [n \in 0 .. 52 |-> e[n]]
      BY Zenon
    <3> HIDE DEF e
    <3> QED
      BY <3>1, <3>2, Zenon
  <2> QED
    BY <2>3, <2>4
<1> QED
  BY <1>1, <1>8, <1>9, Zenon DEF R

-----------------------------------------------------------------------------
(* How far an offset is from what was heard: more than any if there is no  *)
(* offset yet.                                                             *)
Farthest(s, t) == IF Len(s) = Len(t) THEN Len(t) ELSE Cipher!Max({Len(s), Len(t)})

(* How far a score is from a perfect fit, and the score of an offset.      *)
Far(s, t, score) == IF Len(s) = Len(t) THEN Len(t) - score ELSE score

FarAt(s, t, k) == Far(s, t, Cipher!Matches(s, t, k))

(* How far the turned text is.                                             *)
LEMMA FarIsMisfit ==
  ASSUME NEW s \in Seq(Letters), NEW t \in Seq(Letters), NEW k \in 0 .. 51
  PROVE  /\ Cipher!Misfit(Cipher!Turned(s, k), t) = FarAt(s, t, k)
         /\ FarAt(s, t, k) \in Nat /\ FarAt(s, t, k) <= Farthest(s, t)
<1> DEFINE u == Cipher!Turned(s, k)
           m == Cipher!Matches(s, t, k)
           n == Len(t)
<1>1. u \in Seq(Letters) /\ Len(u) = Len(s)
  BY TextIsTurned, Zenon
<1>2. m = (IF Len(s) = n THEN Cipher!compare(t, u) ELSE Cipher!WagnerFischer(u, t)) /\ m \in Nat
  BY MatchesIs, Zenon
<1>3. n \in Nat
  OBVIOUS
<1> HIDE DEF u, m
<1>4. Cipher!compare(t, u) \in 0 .. n
  BY CompareType, Zenon
<1>5. Cipher!WagnerFischer(u, t) <= Cipher!Max({Len(s), n})
  BY <1>1, CellBound, Zenon
<1>6. Cipher!Misfit(u, t) = Far(s, t, m)
  BY <1>1, <1>2, Zenon DEF Cipher!Misfit, Far
<1> HIDE DEF n
<1>7. Far(s, t, m) \in Nat /\ Far(s, t, m) <= Farthest(s, t)
  <2>1. ASSUME Len(s) = n
        PROVE  Far(s, t, m) \in Nat /\ Far(s, t, m) <= Farthest(s, t)
    <3>1. m \in 0 .. n /\ Far(s, t, m) = n - m /\ Farthest(s, t) = n
      BY <1>2, <1>4, <2>1, Zenon DEF Far, Farthest, n
    <3>2. n - m \in Nat /\ n - m <= n
      BY <1>3, <3>1
    <3> QED
      BY <3>1, <3>2, Zenon
  <2>2. ASSUME Len(s) # n
        PROVE  Far(s, t, m) \in Nat /\ Far(s, t, m) <= Farthest(s, t)
    BY <1>2, <1>5, <2>2, Zenon DEF Far, Farthest, n
  <2> QED
    BY <2>1, <2>2, Zenon
<1> QED
  BY <1>6, <1>7, Zenon DEF FarAt, u, m

(* Numbers that are below each other are one.                              *)
LEMMA SameNumber ==
  ASSUME NEW x \in Int, NEW y \in Int, x <= y, y <= x
  PROVE  x = y
  OBVIOUS

(* What is below an offset is one.                                         *)
LEMMA BelowOffset ==
  ASSUME NEW o \in 0 .. 51, NEW k \in 0 .. o - 1
  PROVE  k \in 0 .. 51
  OBVIOUS

(* What is known when n offsets were tried: no offset tried fits better    *)
(* than the best so far, and none before the best as well; or nothing was  *)
(* better than nothing.                                                    *)
BestBelow(s, t, n, best) ==
  /\ \A k \in 0 .. n - 1 : Far(s, t, best.score) <= FarAt(s, t, k)
  /\ \/ /\ Far(s, t, best.score) = FarAt(s, t, best.offset)
        /\ \A k \in 0 .. best.offset - 1 : FarAt(s, t, k) > Far(s, t, best.score)
     \/ Far(s, t, best.score) = Farthest(s, t) /\ best.offset = 0

(* What is better is nearer.                                               *)
LEMMA BetterIsNearer ==
  ASSUME NEW s \in Seq(Letters), NEW t \in Seq(Letters), NEW x \in Nat, NEW y \in Nat
  PROVE  Cipher!Better(x, y, Len(s) = Len(t)) <=> Far(s, t, x) < Far(s, t, y)
<1> DEFINE n == Len(t)
<1>1. n \in Nat
  OBVIOUS
<1>2. ASSUME Len(s) = n
      PROVE  Cipher!Better(x, y, Len(s) = n) <=> Far(s, t, x) < Far(s, t, y)
  <2>1. Cipher!Better(x, y, Len(s) = n) <=> x > y
    BY <1>2, Zenon DEF Cipher!Better
  <2>2. Far(s, t, x) = n - x /\ Far(s, t, y) = n - y
    BY <1>2, Zenon DEF Far
  <2> HIDE DEF n
  <2>3. x > y <=> n - x < n - y
    BY <1>1
  <2> QED
    BY <2>1, <2>2, <2>3, Zenon
<1>3. ASSUME Len(s) # n
      PROVE  Cipher!Better(x, y, Len(s) = n) <=> Far(s, t, x) < Far(s, t, y)
  BY <1>3, Zenon DEF Cipher!Better, Far
<1> QED
  BY <1>2, <1>3, Zenon

(* An offset more is tried.                                                *)
LEMMA BestStep ==
  ASSUME NEW s \in Seq(Letters), NEW t \in Seq(Letters), NEW k \in 0 .. 51,
         NEW last \in [offset : 0 .. 51, score : Nat], BestBelow(s, t, k, last)
  PROVE  BestBelow(s, t, k + 1, Chosen(s, t, k, last))
<1> DEFINE m == Cipher!Matches(s, t, k)
           x == FarAt(s, t, k)
           y == Far(s, t, last.score)
<1>1. m \in Nat /\ last.score \in Nat
  BY MatchesIs
<1>2. Cipher!Better(m, last.score, Len(s) = Len(t)) <=> x < y
  BY <1>1, BetterIsNearer, Zenon DEF FarAt
<1>3. \A i \in 0 .. 51 : FarAt(s, t, i) \in Nat
  BY FarIsMisfit, Zenon
<1>4. y \in Int
  <2>1. Len(t) \in Nat
    OBVIOUS
  <2> QED
    BY <1>1, <2>1 DEF Far
<1>5. /\ \A i \in 0 .. k - 1 : y <= FarAt(s, t, i)
      /\ \/ /\ y = FarAt(s, t, last.offset)
            /\ \A i \in 0 .. last.offset - 1 : FarAt(s, t, i) > y
         \/ y = Farthest(s, t) /\ last.offset = 0
  BY Zenon DEF BestBelow
<1>6. ASSUME x < y
      PROVE  BestBelow(s, t, k + 1, Chosen(s, t, k, last))
  <2> DEFINE new == [offset |-> k, score |-> m]
  <2>1. Chosen(s, t, k, last) = new
    BY <1>2, <1>6, Zenon DEF Chosen
  <2>2. new.offset = k /\ Far(s, t, new.score) = x
    BY Zenon DEF FarAt
  <2> HIDE DEF new, x, y
  <2>3. x \in Nat
    BY <1>3, Zenon DEF x
  <2>4. \A i \in 0 .. k - 1 : x < FarAt(s, t, i)
    <3> TAKE i \in 0 .. k - 1
    <3>1. i \in 0 .. 51
      OBVIOUS
    <3>2. FarAt(s, t, i) \in Nat /\ y <= FarAt(s, t, i)
      BY <1>3, <1>5, <3>1, Zenon
    <3> DEFINE b == FarAt(s, t, i)
    <3> HIDE DEF b
    <3>3. x < b
      BY <1>4, <1>6, <2>3, <3>2 DEF b
    <3> QED
      BY <3>3, Zenon DEF b
  <2>5. \A i \in 0 .. (k + 1) - 1 : x <= FarAt(s, t, i)
    <3> TAKE i \in 0 .. (k + 1) - 1
    <3>1. i = k \/ i \in 0 .. k - 1
      OBVIOUS
    <3>2. x <= x /\ x = FarAt(s, t, k)
      BY <2>3 DEF x
    <3>3. i = k => x <= FarAt(s, t, i)
      BY <3>2, Zenon
    <3>4. ASSUME i \in 0 .. k - 1
          PROVE  x <= FarAt(s, t, i)
      <4>1. x < FarAt(s, t, i) /\ FarAt(s, t, i) \in Nat
        <5>1. i \in 0 .. 51
          BY <3>4
        <5> QED
          BY <1>3, <2>4, <3>4, <5>1, Zenon
      <4> QED
        BY <2>3, <4>1
    <3> QED
      BY <3>1, <3>3, <3>4, Zenon
  <2>6. \A i \in 0 .. k - 1 : FarAt(s, t, i) > x
    BY <1>3, <2>3, <2>4
  <2>7. BestBelow(s, t, k + 1, new)
    BY <2>2, <2>5, <2>6, Zenon DEF BestBelow, x
  <2> QED
    BY <2>1, <2>7, Zenon
<1>7. ASSUME ~ (x < y)
      PROVE  BestBelow(s, t, k + 1, Chosen(s, t, k, last))
  <2>1. Chosen(s, t, k, last) = last
    BY <1>2, <1>7, Zenon DEF Chosen
  <2>2. x \in Nat
    BY <1>3, Zenon
  <2> HIDE DEF x, y
  <2>3. y <= x
    BY <1>4, <1>7, <2>2
  <2>4. \A i \in 0 .. (k + 1) - 1 : y <= FarAt(s, t, i)
    <3> TAKE i \in 0 .. (k + 1) - 1
    <3>1. i = k \/ i \in 0 .. k - 1
      OBVIOUS
    <3> QED
      BY <1>5, <2>3, <3>1, Zenon DEF x
  <2> QED
    BY <1>5, <2>1, <2>4, Zenon DEF BestBelow, y
<1> QED
  BY <1>6, <1>7, Zenon

(* Before any was.                                                         *)
LEMMA BestFirst ==
  ASSUME NEW s \in Seq(Letters), NEW t \in Seq(Letters)
  PROVE  BestBelow(s, t, 0, [offset |-> 0, score |-> Worst(s, t)])
<1> DEFINE new == [offset |-> 0, score |-> Worst(s, t)]
<1>1. Far(s, t, Worst(s, t)) = Farthest(s, t)
  <2>1. Len(t) \in Nat
    OBVIOUS
  <2>2. Len(t) - 0 = Len(t)
    BY <2>1
  <2> QED
    BY <2>2, Zenon DEF Far, Farthest, Worst
<1>2. new.offset = 0 /\ Far(s, t, new.score) = Farthest(s, t)
  BY <1>1, Zenon
<1>3. \A k \in 0 .. 0 - 1 : FALSE
  OBVIOUS
<1> HIDE DEF new
<1>4. BestBelow(s, t, 0, new)
  BY <1>2, <1>3, Zenon DEF BestBelow
<1> QED
  BY <1>4, Zenon DEF new

(* The offset that is printed.                                             *)
LEMMA BestFits ==
  ASSUME NEW s \in Seq(Letters), NEW t \in Seq(Letters)
  PROVE  /\ Cipher!Best(s, t).offset \in 0 .. 51
         /\ \A k \in 0 .. 51 : FarAt(s, t, Cipher!Best(s, t).offset) <= FarAt(s, t, k)
         /\ \A k \in 0 .. Cipher!Best(s, t).offset - 1 :
              FarAt(s, t, Cipher!Best(s, t).offset) < FarAt(s, t, k)
<1> DEFINE R == [offset : 0 .. 51, score : Nat]
<1>1. PICK h \in [0 .. 52 -> R] : Tries(s, t, h) /\ Cipher!Best(s, t) = h[52]
  BY BestIs, Zenon
<1> DEFINE P == {n \in 0 .. 52 : BestBelow(s, t, n, h[n])}
<1>2. 52 \in Nat /\ 0 \in 0 .. 52 /\ 52 \in 0 .. 52
  OBVIOUS
<1>3. 0 \in P
  <2>1. h[0] = [offset |-> 0, score |-> Worst(s, t)]
    BY <1>1, Zenon DEF Tries
  <2>2. BestBelow(s, t, 0, h[0])
    BY <2>1, BestFirst, Zenon
  <2> QED
    BY <1>2, <2>2, Zenon
<1>4. \A n \in 1 .. 52 : n - 1 \in P => n \in P
  <2> TAKE n \in 1 .. 52
  <2> HAVE n - 1 \in P
  <2> DEFINE k == n - 1
  <2>1. k \in 0 .. 51 /\ k \in 0 .. 52 /\ n \in 0 .. 52
    OBVIOUS
  <2>2. k + 1 = n
    OBVIOUS
  <2>3. h[k] \in R
    BY <1>1, <2>1
  <2>4. BestBelow(s, t, k, h[k])
    BY Zenon
  <2>5. h[n] = Chosen(s, t, k, h[k])
    BY <1>1, Zenon DEF Tries
  <2> HIDE DEF k
  <2>6. BestBelow(s, t, k + 1, Chosen(s, t, k, h[k]))
    BY <2>1, <2>3, <2>4, BestStep, Zenon
  <2> QED
    BY <2>1, <2>2, <2>5, <2>6, Zenon
<1>5. 52 \in P
  <2> HIDE DEF P
  <2> QED
    BY <1>2, <1>3, <1>4, Induction, Zenon
<1> DEFINE best == Cipher!Best(s, t)
           o == best.offset
           y == Far(s, t, best.score)
<1>6. best \in R
  BY <1>1, <1>2
<1>7. o \in 0 .. 51 /\ best.score \in Nat
  BY <1>6
<1>8. BestBelow(s, t, 52, best)
  BY <1>1, <1>5, Zenon
<1> HIDE DEF best
<1>9. /\ \A k \in 0 .. 52 - 1 : y <= FarAt(s, t, k)
      /\ \/ /\ y = FarAt(s, t, o)
            /\ \A k \in 0 .. o - 1 : FarAt(s, t, k) > y
         \/ y = Farthest(s, t) /\ o = 0
  BY <1>8, Zenon DEF BestBelow
<1>10. \A k \in 0 .. 51 : FarAt(s, t, k) \in Nat /\ FarAt(s, t, k) <= Farthest(s, t)
  BY FarIsMisfit, Zenon
<1> HIDE DEF o, y
<1>11. 52 - 1 = 51 /\ \A k \in 0 .. 0 - 1 : FALSE
  OBVIOUS
<1>12. \A k \in 0 .. 51 : y <= FarAt(s, t, k)
  BY <1>9, <1>11, Zenon
<1>13. y = FarAt(s, t, o)
  <2> SUFFICES ASSUME y = Farthest(s, t)
               PROVE  y = FarAt(s, t, o)
    BY <1>9, Zenon
  <2> DEFINE b == FarAt(s, t, o)
  <2>1. b \in Nat /\ b <= y /\ y <= b
    BY <1>7, <1>10, <1>12, Zenon
  <2> HIDE DEF b
  <2>2. y \in Int
    <3> DEFINE n == Len(t)
               m == best.score
    <3>1. n \in Nat
      OBVIOUS
    <3>2. m \in Nat
      BY <1>7, Zenon
    <3> HIDE DEF n, m
    <3>3. n - m \in Int /\ m \in Int
      BY <3>1, <3>2
    <3> QED
      BY <3>3, Zenon DEF Far, y, n, m
  <2>3. b \in Int
    BY <2>1
  <2>4. y = b
    BY <2>1, <2>2, <2>3, SameNumber, Zenon
  <2> QED
    BY <2>4, Zenon DEF b
<1>14. ASSUME NEW k \in 0 .. o - 1
       PROVE  FarAt(s, t, o) < FarAt(s, t, k)
  <2>1. FarAt(s, t, k) > y
    BY <1>9, <1>11, Zenon
  <2>2. k \in 0 .. 51
    <3>1. o \in 0 .. 51
      BY <1>7, Zenon
    <3> QED
      BY <3>1, BelowOffset, Zenon
  <2> DEFINE b == FarAt(s, t, k)
  <2>3. b \in Nat /\ y \in Nat
    BY <1>7, <1>10, <1>13, <2>2, Zenon
  <2> HIDE DEF b
  <2>4. y < b
    BY <2>1, <2>3 DEF b
  <2> QED
    BY <1>13, <2>4, Zenon DEF b
<1> QED
  BY <1>7, <1>12, <1>13, <1>14, Zenon DEF o, best

(* findmatch prints the text turned by the offset that fits best what was  *)
(* heard, and of several by the smallest, for any text and any letters     *)
(* heard of it.                                                            *)
THEOREM BestIsIndeedPrinted ==
  ASSUME problem \in Seq(Letters) \X Seq(Letters)
  PROVE  BestIsPrinted
<1> DEFINE s == problem[1]
           t == problem[2]
           o == Cipher!Best(s, t).offset
           misfit == [k \in 0 .. 51 |-> Cipher!Misfit(Cipher!Turned(s, k), t)]
           least == Cipher!Min({misfit[k] : k \in 0 .. 51})
           smallest == Cipher!Min({k \in 0 .. 51 : misfit[k] = least})
<1>1. s \in Seq(Letters) /\ t \in Seq(Letters)
  OBVIOUS
<1> HIDE DEF s, t
<1>2. /\ o \in 0 .. 51 /\ \A k \in 0 .. 51 : FarAt(s, t, o) <= FarAt(s, t, k)
      /\ \A k \in 0 .. o - 1 : FarAt(s, t, o) < FarAt(s, t, k)
  BY <1>1, BestFits, Zenon
<1> HIDE DEF o
<1>3. \A k \in 0 .. 51 : misfit[k] = FarAt(s, t, k) /\ misfit[k] \in Nat
  BY <1>1, FarIsMisfit, Zenon
<1> HIDE DEF misfit
<1>4. least = misfit[o]
  <2> DEFINE T == {misfit[k] : k \in 0 .. 51}
  <2>1. T \subseteq Nat
    BY <1>3
  <2>2. misfit[o] \in T /\ \A y \in T : misfit[o] <= y
    BY <1>2, <1>3, Zenon
  <2> HIDE DEF T
  <2>3. Cipher!Min(T) = misfit[o]
    BY <2>1, <2>2, LeastIs, Zenon
  <2> QED
    BY <2>3, Zenon DEF T
<1> HIDE DEF least
<1>5. smallest = o
  <2> DEFINE T == {k \in 0 .. 51 : misfit[k] = least}
  <2>0. 0 .. 51 \subseteq Nat
    OBVIOUS
  <2>1. T \subseteq Nat
    BY <2>0, Zenon
  <2>2. o \in T
    BY <1>2, <1>4, Zenon
  <2>3. ASSUME NEW k \in T
        PROVE  o <= k
    <3>1. k \in 0 .. 51 /\ misfit[k] = misfit[o]
      BY <1>4, Zenon
    <3> SUFFICES ASSUME ~ (o <= k)
                 PROVE  FALSE
      OBVIOUS
    <3>2. k \in 0 .. o - 1
      <4>1. k \in 0 .. 51 /\ o \in 0 .. 51 /\ ~ (o <= k)
        BY <1>2, <3>1, Zenon
      <4> QED
        BY <4>1
    <3>3. misfit[o] < misfit[k]
      BY <1>2, <1>3, <3>1, <3>2, Zenon
    <3>4. misfit[o] \in Nat
      BY <1>2, <1>3, Zenon
    <3> DEFINE b == misfit[o]
    <3>5. b < b /\ b \in Nat
      BY <3>1, <3>3, <3>4, Zenon
    <3> HIDE DEF b
    <3> QED
      BY <3>5
  <2> HIDE DEF T
  <2>4. Cipher!Min(T) = o
    BY <2>1, <2>2, <2>3, LeastIs, Zenon
  <2> QED
    BY <2>4, Zenon DEF T
<1> HIDE DEF smallest
<1>6. Cipher!findmatch(s, t) = Cipher!Turned(s, o)
  <2>1. Cipher!findmatch(s, t) = Cipher!shift(s, o)
    BY Zenon DEF Cipher!findmatch, o
  <2> QED
    BY <1>1, <1>2, <2>1, TextIsTurned, Zenon
<1>7. Cipher!findmatch(s, t) = Cipher!Turned(s, smallest)
  BY <1>5, <1>6, Zenon
<1>8. Cipher!BestIsPrinted(s, t)
  BY <1>7, Zenon DEF Cipher!BestIsPrinted, misfit, least, smallest
<1> QED
  BY <1>8, Zenon DEF BestIsPrinted, s, t

-----------------------------------------------------------------------------
(* The factors of a number                                                 *)

(* What the passes of the sieve up to i leave: all that have no divisor up *)
(* to i, themselves excepted.                                              *)
Kept(i) == {n \in 2 .. range - 1 : \A d \in 2 .. i : n < 2 * d \/ n % d # 0}

(* A pass leaves that.                                                     *)
LEMMA PassKeeps ==
  ASSUME Number!FactorsAssumption, NEW i \in 2 .. sqrt
  PROVE  Number!Struck(Kept(i - 1), i) = Kept(i)
<1>0. i \in Nat \ {0} /\ range \in Nat /\ i >= 2
  BY SMT DEF Number!FactorsAssumption
<1>1. \A d : d \in 2 .. i <=> d = i \/ d \in 2 .. i - 1
  BY <1>0, SMT
<1> DEFINE Passes(n, d) == n < 2 * d \/ n % d # 0
           R == 2 .. range - 1
<1>2. /\ \A n : n \in Kept(i) <=> n \in R /\ \A d \in 2 .. i : Passes(n, d)
      /\ \A n : n \in Kept(i - 1) <=> n \in R /\ \A d \in 2 .. i - 1 : Passes(n, d)
  BY Zenon DEF Kept
<1>3. \A n : n \in Kept(i) <=> n \in Kept(i - 1) /\ Passes(n, i)
  <2> HIDE DEF Passes, R
  <2> QED
    BY <1>1, <1>2, Zenon
<1>4. CASE i \in Kept(i - 1)
  <2>1. Number!Struck(Kept(i - 1), i) = {n \in Kept(i - 1) : Passes(n, i)}
    BY <1>4, Zenon DEF Number!Struck
  <2> HIDE DEF Passes
  <2> QED
    BY <1>3, <2>1, Zenon
<1>5. CASE i \notin Kept(i - 1)
  <2>1. Number!Struck(Kept(i - 1), i) = Kept(i - 1)
    BY <1>5, Zenon DEF Number!Struck
  <2>2. ASSUME NEW n \in Kept(i - 1)
        PROVE  Passes(n, i)
    <3>1. n \in 2 .. range - 1 /\ n \in Nat
      <4>1. n \in 2 .. range - 1
        BY Zenon DEF Kept
      <4> QED
        BY <4>1
    <3>2. SUFFICES ASSUME ~(n < 2 * i), n % i = 0 PROVE FALSE
      BY Zenon
    <3>3. i \in R
      BY <1>0, <3>1, <3>2
    <3>4. PICK d \in 2 .. i - 1 : ~Passes(i, d)
      <4> HIDE DEF Passes, R
      <4> QED
        BY <1>2, <1>5, <3>3, Zenon
    <3>5. i % d = 0 /\ ~(i < 2 * d) /\ d \in Nat \ {0}
      BY <3>4
    <3>6. n % d = 0
      BY <1>0, <3>1, <3>2, <3>5, DivisorOfDivisor, Zenon
    <3>7. ~(n < 2 * d)
      BY <1>0, <3>1, <3>2, <3>5
    <3>8. n \in Kept(i - 1) /\ d \in 2 .. i - 1
      OBVIOUS
    <3>9. Passes(n, d)
      <4> HIDE DEF Passes, R
      <4> QED
        BY <1>2, <3>8, Zenon
    <3> QED
      BY <3>6, <3>7, <3>9, Zenon
  <2> HIDE DEF Passes
  <2> QED
    BY <1>3, <2>1, <2>2, Zenon
<1> QED
  BY <1>4, <1>5, Zenon

(* After the last pass the primes are left.                                *)
LEMMA PrimesKept ==
  ASSUME Number!FactorsAssumption, NEW p \in 2 .. range - 1
  PROVE  p \in Kept(sqrt) <=> Number!Prime(p)
<1>0. range \in Nat /\ sqrt \in Nat /\ sqrt * sqrt >= range /\ p \in Nat \ {0} /\ p > 1
      /\ p < range
  BY SMT DEF Number!FactorsAssumption
<1>1. ASSUME Number!Prime(p)
      PROVE  p \in Kept(sqrt)
  <2>1. ASSUME NEW d \in 2 .. sqrt
        PROVE  p < 2 * d \/ p % d # 0
    <3>1. ~(p < 2 * d) => d \in 2 .. p - 1
      BY <1>0
    <3> QED
      BY <1>1, <3>1, Zenon DEF Number!Prime
  <2> QED
    BY <2>1, Zenon DEF Kept
<1>2. ASSUME p \in Kept(sqrt)
      PROVE  Number!Prime(p)
  <2>1. SUFFICES ASSUME NEW d \in 2 .. p - 1, p % d = 0 PROVE FALSE
    BY <1>0, Zenon DEF Number!Prime
  <2>2. PICK k \in 2 .. p - 1 : p = k * d /\ p % k = 0
    BY <1>0, <2>1, Cofactor, Zenon
  <2>3. \E m, o \in 2 .. p - 1 : m <= o /\ p = m * o /\ p % m = 0
    <3>1. k <= d \/ d <= k
      OBVIOUS
    <3>2. p = d * k
      BY <2>2, SMT
    <3> QED
      BY <2>1, <2>2, <3>1, <3>2, Zenon
  <2>4. PICK m \in 2 .. p - 1 : \E o \in 2 .. p - 1 : m <= o /\ p = m * o /\ p % m = 0
    BY <2>3, Zenon
  <2>5. PICK o \in 2 .. p - 1 : m <= o /\ p = m * o /\ p % m = 0
    BY <2>4, Zenon
  <2>6. m \in Nat /\ o \in Nat /\ m >= 2 /\ o >= 2
    OBVIOUS
  <2>7. m * o < sqrt * sqrt
    <3> DEFINE x == sqrt * sqrt
    <3>1. x \in Nat
      BY <1>0, SMT
    <3>2. range <= x
      BY <1>0
    <3> HIDE DEF x
    <3>3. p < x
      BY <1>0, <3>1, <3>2
    <3> QED
      BY <2>5, <3>3, Zenon DEF x
  <2>8. m < sqrt
    BY <1>0, <2>5, <2>6, <2>7, FactorBelowRoot, Zenon
  <2>9. m \in 2 .. sqrt
    BY <1>0, <2>6, <2>8
  <2>10. p < 2 * m
    <3>1. \A e \in 2 .. sqrt : p < 2 * e \/ p % e # 0
      BY <1>2, Zenon DEF Kept
    <3> QED
      BY <2>5, <2>9, <3>1, Zenon
  <2>11. 2 * m <= p
    <3>1. PICK e \in Nat : o = 2 + e
      <4>1. o - 2 \in Nat /\ o = 2 + (o - 2)
        BY <2>6
      <4> QED
        BY <4>1, Zenon
    <3>2. m * o = 2 * m + m * e /\ m * e \in Nat
      BY <2>6, <3>1, SMT
    <3> DEFINE x == m * e
    <3>3. p = 2 * m + x /\ x \in Nat
      BY <2>5, <3>2, Zenon
    <3> HIDE DEF x
    <3> QED
      BY <2>6, <3>3
  <2> QED
    BY <1>0, <2>6, <2>10, <2>11
<1> QED
  BY <1>1, <1>2, Zenon

(* The sieve leaves the primes.                                            *)
LEMMA SieveLeaves ==
  ASSUME Number!FactorsAssumption
  PROVE  Number!sieveofErastoten = {p \in 2 .. range - 1 : Number!Prime(p)}
<1> DEFINE S == SUBSET (2 .. range - 1)
           Is(h) == h = [i \in 1 .. sqrt |-> IF i = 1 THEN 2 .. range - 1
                                             ELSE Number!Struck(h[i - 1], i)]
           H == CHOOSE h : Is(h)
<1>0. range \in Nat /\ sqrt \in Nat /\ 1 <= sqrt
  <2>1. range \in Nat /\ sqrt \in Nat /\ range > 2 /\ sqrt * sqrt >= range
    BY Zenon DEF Number!FactorsAssumption
  <2>2. sqrt = 0 => sqrt * sqrt = 0
    BY <2>1, SMT
  <2> QED
    BY <2>1, <2>2
<1>1. \E f : Is(f)
  <2> DEFINE b == [i \in 1 .. sqrt |-> 2 .. range - 1]
             g == [i \in 1 .. sqrt |-> [X \in S |-> Number!Struck(X, i)]]
             d == [i \in 1 .. sqrt |-> i - 1]
  <2>1. b \in [1 .. sqrt -> S]
    BY Zenon
  <2>2. g \in [1 .. sqrt -> [S -> S]]
    <3>1. ASSUME NEW X \in S, NEW i \in 1 .. sqrt
          PROVE  Number!Struck(X, i) \in S
      BY Zenon DEF Number!Struck
    <3> HIDE DEF S
    <3> QED
      BY <3>1
  <2>3. d \in [1 .. sqrt -> Nat] /\ \A k \in 1 .. sqrt : d[k] < k
    BY SMT
  <2>4. /\ \A k \in 1 .. sqrt : b[k] = 2 .. range - 1 /\ d[k] = k - 1
        /\ \A k \in 1 .. sqrt : \A X \in S : g[k][X] = Number!Struck(X, k)
    BY Zenon
  <2> HIDE DEF b, g, d, S
  <2>5. PICK f \in [1 .. sqrt -> S] : GoesBack(b, g, d, sqrt, f)
    BY <1>0, <2>1, <2>2, <2>3, BackwardExists, Zenon
  <2>6. Is(f)
    <3> DEFINE e == [i \in 1 .. sqrt |-> IF i = 1 THEN 2 .. range - 1
                                         ELSE Number!Struck(f[i - 1], i)]
    <3>1. ASSUME NEW k \in 1 .. sqrt
          PROVE  f[k] = e[k]
      <4>1. f[k] = IF d[k] = 0 THEN b[k] ELSE g[k][f[d[k]]]
        BY <2>5, Zenon DEF GoesBack
      <4>2. (k = 1 <=> k - 1 = 0) /\ (k # 1 => k - 1 \in 1 .. sqrt)
        BY <1>0
      <4>3. k # 1 => f[k - 1] \in S
        BY <4>2, Zenon
      <4>4. e[k] = IF k = 1 THEN 2 .. range - 1 ELSE Number!Struck(f[k - 1], k)
        BY Zenon
      <4> HIDE DEF e
      <4> QED
        BY <2>4, <4>1, <4>2, <4>3, <4>4, Zenon
    <3>2. f = [k \in 1 .. sqrt |-> f[k]]
      BY Zenon
    <3>3. f = e
      BY <3>1, <3>2, Zenon
    <3> QED
      BY <3>3, Zenon
  <2> QED
    BY <2>6, Zenon
<1>2. Is(H)
  BY <1>1, Zenon
<1>3. Number!sieveofErastoten = H[sqrt]
  BY Zenon DEF Number!sieveofErastoten
<1> HIDE DEF H
<1>4. /\ H[1] = 2 .. range - 1
      /\ \A i \in 2 .. sqrt : H[i] = Number!Struck(H[i - 1], i)
  <2>1. 1 \in 1 .. sqrt /\ \A i \in 2 .. sqrt : i \in 1 .. sqrt /\ i # 1
    BY <1>0
  <2> QED
    BY <1>2, <2>1, Zenon
<1>5. H[sqrt] = Kept(sqrt)
  <2> DEFINE P == {i \in 0 .. sqrt : i = 0 \/ H[i] = Kept(i)}
  <2>1. 0 \in P
    BY <1>0
  <2>2. \A i \in 1 .. sqrt : i - 1 \in P => i \in P
    <3> TAKE i \in 1 .. sqrt
    <3> HAVE i - 1 \in P
    <3>1. i \in 0 .. sqrt /\ (i = 1 \/ (i \in 2 .. sqrt /\ i - 1 # 0))
      BY <1>0
    <3>2. CASE i = 1
      <4>1. Kept(1) = 2 .. range - 1
        <5>1. 2 .. 1 = {}
          BY SMT
        <5> QED
          BY <5>1, Zenon DEF Kept
      <4> QED
        BY <1>4, <3>1, <3>2, <4>1, Zenon
    <3>3. CASE i \in 2 .. sqrt /\ i - 1 # 0
      <4>1. H[i] = Number!Struck(Kept(i - 1), i)
        BY <1>4, <3>3, Zenon
      <4> QED
        BY <3>1, <3>3, <4>1, PassKeeps, Zenon
    <3> QED
      BY <3>1, <3>2, <3>3, Zenon
  <2>3. sqrt \in P
    <3> HIDE DEF P
    <3> QED
      BY <1>0, <2>1, <2>2, Induction, Zenon
  <2>4. sqrt # 0
    BY <1>0
  <2> QED
    BY <2>3, <2>4, Zenon
<1>6. \A p \in Kept(sqrt) : p \in 2 .. range - 1
  BY Zenon DEF Kept
<1> QED
  BY <1>3, <1>5, <1>6, PrimesKept, Zenon

(* A power with an exponent more.                                          *)
LEMMA PowerIs ==
  ASSUME NEW b \in Nat
  PROVE  /\ Number!Power(b, 0) = 1
         /\ \A e \in Nat : /\ Number!Power(b, e) \in Nat
                           /\ Number!Power(b, e + 1) = b * Number!Power(b, e)
<1> DEFINE Is(m, h) == h = [k \in 0 .. m |-> IF k = 0 THEN 1 ELSE b * h[k - 1]]
           H(m) == CHOOSE h : Is(m, h)
<1>1. \A m : Number!Power(b, m) = H(m)[m]
  BY Zenon DEF Number!Power
<1>2. ASSUME NEW m \in Nat
      PROVE  \E f : Is(m, f)
  <2> DEFINE g == [k \in 1 .. m |-> [x \in Nat |-> b * x]]
  <2>1. g \in [1 .. m -> [Nat -> Nat]]
    <3>1. \A x \in Nat : b * x \in Nat
      BY SMT
    <3> QED
      BY <3>1, Zenon
  <2>2. \A k \in 1 .. m : \A x \in Nat : g[k][x] = b * x
    BY Zenon
  <2>3. 1 \in Nat
    OBVIOUS
  <2> HIDE DEF g
  <2>4. PICK f \in [0 .. m -> Nat] : Iterates(1, g, m, f)
    BY <2>1, <2>3, IterationExists, Zenon
  <2> DEFINE e == [k \in 0 .. m |-> IF k = 0 THEN 1 ELSE b * f[k - 1]]
  <2>5. ASSUME NEW k \in 0 .. m
        PROVE  f[k] = e[k]
    <3>1. f[k] = IF k = 0 THEN 1 ELSE g[k][f[k - 1]]
      BY <2>4, Zenon DEF Iterates
    <3>2. k # 0 => k \in 1 .. m /\ f[k - 1] \in Nat
      OBVIOUS
    <3>3. e[k] = IF k = 0 THEN 1 ELSE b * f[k - 1]
      BY Zenon
    <3> HIDE DEF e
    <3> QED
      BY <2>2, <3>1, <3>2, <3>3, Zenon
  <2>6. f = [k \in 0 .. m |-> f[k]]
    BY Zenon
  <2>7. f = e
    BY <2>5, <2>6, Zenon
  <2> QED
    BY <2>7, Zenon
<1>3. ASSUME NEW m \in Nat
      PROVE  H(m)[0] = 1 /\ \A k \in 1 .. m : H(m)[k] = b * H(m)[k - 1]
  <2> DEFINE h == H(m)
  <2>1. Is(m, h)
    BY <1>2, Zenon
  <2> HIDE DEF h
  <2>2. 0 \in 0 .. m /\ \A k \in 1 .. m : k \in 0 .. m /\ k # 0
    OBVIOUS
  <2>3. h[0] = 1 /\ \A k \in 1 .. m : h[k] = b * h[k - 1]
    BY <2>1, <2>2, Zenon
  <2> QED
    BY <2>3, Zenon DEF h
<1> HIDE DEF H
<1>4. ASSUME NEW n \in Nat
      PROVE  H(n + 1)[n] = H(n)[n] /\ H(n)[n] \in Nat
  <2> DEFINE f == H(n)
             g == H(n + 1)
             P == {k \in 0 .. n : g[k] = f[k] /\ f[k] \in Nat}
  <2>1. /\ f[0] = 1 /\ \A k \in 1 .. n : f[k] = b * f[k - 1]
        /\ g[0] = 1 /\ \A k \in 1 .. n + 1 : g[k] = b * g[k - 1]
    <3>1. n + 1 \in Nat
      OBVIOUS
    <3> QED
      BY <1>3, <3>1, Zenon
  <2> HIDE DEF f, g
  <2>2. 0 \in P
    <3>1. 0 \in 0 .. n /\ 1 \in Nat
      OBVIOUS
    <3> QED
      BY <2>1, <3>1, Zenon
  <2>3. \A k \in 1 .. n : k - 1 \in P => k \in P
    <3> TAKE k \in 1 .. n
    <3> HAVE k - 1 \in P
    <3>1. g[k - 1] = f[k - 1] /\ f[k - 1] \in Nat /\ k \in 0 .. n /\ k \in 1 .. n + 1
      OBVIOUS
    <3>2. f[k] = b * f[k - 1] /\ g[k] = b * g[k - 1]
      BY <2>1, <3>1, Zenon
    <3>3. g[k] = f[k]
      BY <3>1, <3>2, Zenon
    <3>4. \A x \in Nat : b * x \in Nat
      BY SMT
    <3> QED
      BY <3>1, <3>2, <3>3, <3>4, Zenon
  <2>4. n \in P
    <3> HIDE DEF P
    <3> QED
      BY <2>2, <2>3, Induction, Zenon
  <2> QED
    BY <2>4, Zenon DEF f, g
<1>5. ASSUME NEW n \in Nat
      PROVE  H(n + 1)[n + 1] = b * H(n)[n]
  <2> DEFINE k == n + 1
  <2>1. k \in Nat /\ k \in 1 .. k /\ k - 1 = n
    OBVIOUS
  <2>2. H(k)[n] = H(n)[n]
    BY <1>4, Zenon
  <2> HIDE DEF k
  <2>3. H(k)[k] = b * H(k)[k - 1]
    BY <1>3, <2>1, Zenon
  <2>4. H(k)[k] = b * H(n)[n]
    BY <2>1, <2>2, <2>3, Zenon
  <2> QED
    BY <2>4, Zenon DEF k
<1>6. 0 \in Nat
  OBVIOUS
<1>7. Number!Power(b, 0) = 1
  BY <1>1, <1>3, <1>6, Zenon
<1>8. ASSUME NEW n \in Nat
      PROVE  Number!Power(b, n) \in Nat /\ Number!Power(b, n + 1) = b * Number!Power(b, n)
  BY <1>1, <1>4, <1>5, Zenon
<1> QED
  BY <1>7, <1>8, Zenon

(* A number is divided by p e times, and w is left.                        *)
DividesOut(number, p, e, w) ==
  /\ Number!Times(number, p) = e
  /\ Number!Without(number, p) = w
  /\ number = w * Number!Power(p, e)
  /\ w % p # 0

(* Every number is divided so.                                             *)
LEMMA DividedOut ==
  ASSUME NEW number \in Nat \ {0}, NEW p \in Nat, p > 1
  PROVE  \E e \in Nat : \E w \in Nat \ {0} : DividesOut(number, p, e, w)
<1> DEFINE IsT(h) == h = [n \in 1 .. number |-> IF n % p = 0 THEN 1 + h[n \div p] ELSE 0]
           IsW(h) == h = [n \in 1 .. number |-> IF n % p = 0 THEN h[n \div p] ELSE n]
           T == CHOOSE h : IsT(h)
           W == CHOOSE h : IsW(h)
           d == [n \in 1 .. number |-> IF n % p = 0 THEN n \div p ELSE 0]
<1>0. ASSUME NEW n \in 1 .. number, n % p = 0
      PROVE  n \div p \in 1 .. number /\ n \div p < n /\ n = (n \div p) * p
  <2> DEFINE q == n \div p
  <2>1. n \in Nat /\ n # 0 /\ p \in Nat \ {0}
    OBVIOUS
  <2>2. q \in Nat /\ n = q * p
    BY <1>0, <2>1, IsMultiple, Zenon
  <2> HIDE DEF q
  <2>3. PICK e \in Nat : p = 2 + e
    <3>1. p - 2 \in Nat /\ p = 2 + (p - 2)
      OBVIOUS
    <3> QED
      BY <3>1, Zenon
  <2>4. q * p = q + q + q * e /\ q * e \in Nat
    BY <2>2, <2>3, SMT
  <2>5. q # 0
    BY <2>1, <2>2, <2>3, SMT
  <2> DEFINE x == q * e
  <2>6. n = q + q + x /\ x \in Nat
    BY <2>2, <2>4, Zenon
  <2> HIDE DEF x
  <2>7. q \in 1 .. number /\ q < n
    BY <2>2, <2>5, <2>6
  <2> QED
    BY <2>2, <2>7, Zenon DEF q
<1>1. d \in [1 .. number -> Nat] /\ \A n \in 1 .. number : d[n] < n
  <2>1. \A n \in 1 .. number : n % p = 0 => n \div p \in Nat /\ n \div p < n
    BY <1>0
  <2>2. \A n \in 1 .. number : n > 0 /\ 0 \in Nat
    OBVIOUS
  <2> QED
    BY <2>1, <2>2
<1>2. \A n \in 1 .. number : /\ d[n] = 0 <=> n % p # 0
                             /\ n % p = 0 => d[n] = n \div p
  <2>1. \A n \in 1 .. number : n % p = 0 => n \div p # 0
    BY <1>0
  <2> QED
    BY <2>1, Zenon
<1> HIDE DEF d
<1>3. \E h : IsT(h)
  <2> DEFINE b == [n \in 1 .. number |-> 0]
             g == [n \in 1 .. number |-> [x \in Nat |-> 1 + x]]
  <2>1. b \in [1 .. number -> Nat] /\ g \in [1 .. number -> [Nat -> Nat]]
    OBVIOUS
  <2>2. \A n \in 1 .. number : b[n] = 0 /\ \A x \in Nat : g[n][x] = 1 + x
    BY Zenon
  <2> HIDE DEF b, g
  <2>3. PICK f \in [1 .. number -> Nat] : GoesBack(b, g, d, number, f)
    BY <1>1, <2>1, number \in Nat, BackwardExists, Zenon
  <2> DEFINE e == [n \in 1 .. number |-> IF n % p = 0 THEN 1 + f[n \div p] ELSE 0]
  <2>4. ASSUME NEW n \in 1 .. number
        PROVE  f[n] = e[n]
    <3>1. f[n] = IF d[n] = 0 THEN b[n] ELSE g[n][f[d[n]]]
      BY <2>3, Zenon DEF GoesBack
    <3>2. n % p = 0 => f[n \div p] \in Nat
      BY <1>0, Zenon
    <3>3. e[n] = IF n % p = 0 THEN 1 + f[n \div p] ELSE 0
      BY Zenon
    <3> HIDE DEF e
    <3>4. n % p = 0 => f[n] = g[n][f[n \div p]]
      BY <1>2, <3>1, Zenon
    <3>5. n % p = 0 => f[n] = 1 + f[n \div p]
      BY <2>2, <3>2, <3>4, Zenon
    <3>6. n % p # 0 => f[n] = 0
      BY <1>2, <2>2, <3>1, Zenon
    <3> QED
      BY <3>3, <3>5, <3>6, Zenon
  <2>5. f = [n \in 1 .. number |-> f[n]]
    BY Zenon
  <2>6. f = e
    BY <2>4, <2>5, Zenon
  <2> QED
    BY <2>6, Zenon
<1>4. \E h : IsW(h)
  <2> DEFINE b == [n \in 1 .. number |-> n]
             g == [n \in 1 .. number |-> [x \in Nat |-> x]]
  <2>1. b \in [1 .. number -> Nat] /\ g \in [1 .. number -> [Nat -> Nat]]
    OBVIOUS
  <2>2. \A n \in 1 .. number : b[n] = n /\ \A x \in Nat : g[n][x] = x
    BY Zenon
  <2> HIDE DEF b, g
  <2>3. PICK f \in [1 .. number -> Nat] : GoesBack(b, g, d, number, f)
    BY <1>1, <2>1, number \in Nat, BackwardExists, Zenon
  <2> DEFINE e == [n \in 1 .. number |-> IF n % p = 0 THEN f[n \div p] ELSE n]
  <2>4. ASSUME NEW n \in 1 .. number
        PROVE  f[n] = e[n]
    <3>1. f[n] = IF d[n] = 0 THEN b[n] ELSE g[n][f[d[n]]]
      BY <2>3, Zenon DEF GoesBack
    <3>2. n % p = 0 => f[n \div p] \in Nat
      BY <1>0, Zenon
    <3>3. e[n] = IF n % p = 0 THEN f[n \div p] ELSE n
      BY Zenon
    <3> HIDE DEF e
    <3>4. n % p = 0 => f[n] = g[n][f[n \div p]]
      BY <1>2, <3>1, Zenon
    <3>5. n % p = 0 => f[n] = f[n \div p]
      BY <2>2, <3>2, <3>4, Zenon
    <3>6. n % p # 0 => f[n] = n
      BY <1>2, <2>2, <3>1, Zenon
    <3> QED
      BY <3>3, <3>5, <3>6, Zenon
  <2>5. f = [n \in 1 .. number |-> f[n]]
    BY Zenon
  <2>6. f = e
    BY <2>4, <2>5, Zenon
  <2> QED
    BY <2>6, Zenon
<1>5. IsT(T) /\ IsW(W)
  BY <1>3, <1>4, Zenon
<1>6. Number!Times(number, p) = T[number] /\ Number!Without(number, p) = W[number]
  BY Zenon DEF Number!Times, Number!Without
<1> HIDE DEF T, W
<1>7. \A n \in 1 .. number : /\ T[n] = IF n % p = 0 THEN 1 + T[n \div p] ELSE 0
                             /\ W[n] = IF n % p = 0 THEN W[n \div p] ELSE n
  BY <1>5, Zenon
<1> HIDE DEF IsT, IsW
<1> DEFINE Right(n) == \E e \in Nat : \E w \in Nat \ {0} :
                          /\ T[n] = e /\ W[n] = w
                          /\ n = w * Number!Power(p, e) /\ w % p # 0
           Wrong == {n \in 1 .. number : ~Right(n)}
<1>8. ASSUME NEW n \in 1 .. number, \A m \in 1 .. number : m < n => Right(m)
      PROVE  Right(n)
  <2>1. CASE n % p # 0
    <3>1. T[n] = 0 /\ W[n] = n
      BY <1>7, <2>1, Zenon
    <3>2. n \in Nat \ {0} /\ 0 \in Nat /\ n * 1 = n
      OBVIOUS
    <3>3. n = n * Number!Power(p, 0)
      BY <3>2, PowerIs, Zenon
    <3> QED
      BY <2>1, <3>1, <3>2, <3>3, Zenon
  <2>2. CASE n % p = 0
    <3> DEFINE q == n \div p
    <3>1. q \in 1 .. number /\ q < n /\ n = q * p
      BY <1>0, <2>2, Zenon
    <3>2. T[n] = 1 + T[q] /\ W[n] = W[q]
      BY <1>7, <2>2, Zenon
    <3> HIDE DEF q
    <3>3. Right(q)
      BY <1>8, <3>1, Zenon
    <3>4. PICK e \in Nat : \E w \in Nat \ {0} :
              /\ T[q] = e /\ W[q] = w /\ q = w * Number!Power(p, e) /\ w % p # 0
      BY <3>3, Zenon
    <3>5. PICK w \in Nat \ {0} :
              /\ T[q] = e /\ W[q] = w /\ q = w * Number!Power(p, e) /\ w % p # 0
      BY <3>4, Zenon
    <3> DEFINE x == Number!Power(p, e)
    <3>6. x \in Nat /\ Number!Power(p, e + 1) = p * x
      BY PowerIs, Zenon
    <3>7. e + 1 \in Nat /\ T[n] = e + 1
      <4>1. e + 1 \in Nat /\ 1 + e = e + 1
        OBVIOUS
      <4> QED
        BY <3>2, <3>5, <4>1, Zenon
    <3>8. n = w * (p * x)
      <4>1. n = (w * x) * p
        BY <3>1, <3>5, Zenon
      <4> HIDE DEF x
      <4>2. (w * x) * p = w * (p * x)
        BY <3>6, SMT
      <4> QED
        BY <4>1, <4>2, Zenon
    <3>9. W[n] = w /\ n = w * Number!Power(p, e + 1)
      BY <3>2, <3>5, <3>6, <3>8, Zenon
    <3> QED
      BY <3>5, <3>7, <3>9, Zenon
  <2> QED
    BY <2>1, <2>2, Zenon
<1>9. Wrong = {}
  <2> HIDE DEF Right
  <2>1. SUFFICES ASSUME Wrong # {} PROVE FALSE
    BY Zenon
  <2>2. Wrong \subseteq Nat
    OBVIOUS
  <2>3. PICK n \in Wrong : \A m \in Wrong : n <= m
    <3> HIDE DEF Wrong
    <3> QED
      BY <2>1, <2>2, SmallestCandidate, Zenon
  <2>4. n \in 1 .. number /\ ~Right(n)
    BY Zenon
  <2>5. ASSUME NEW m \in 1 .. number, m < n
        PROVE  Right(m)
    <3>1. ~(n <= m)
      BY <2>4, <2>5
    <3>2. m \notin Wrong
      BY <2>3, <3>1, Zenon
    <3> QED
      BY <3>2, Zenon
  <2> QED
    BY <1>8, <2>4, <2>5, Zenon
<1>10. number \in 1 .. number
  OBVIOUS
<1>11. Right(number)
  <2> HIDE DEF Right
  <2> QED
    BY <1>9, <1>10, Zenon
<1>12. PICK e \in Nat : \E w \in Nat \ {0} :
          /\ T[number] = e /\ W[number] = w
          /\ number = w * Number!Power(p, e) /\ w % p # 0
  BY <1>11, Zenon
<1>13. PICK w \in Nat \ {0} :
          /\ T[number] = e /\ W[number] = w
          /\ number = w * Number!Power(p, e) /\ w % p # 0
  BY <1>12, Zenon
<1>14. DividesOut(number, p, e, w)
  BY <1>6, <1>13, Zenon DEF DividesOut
<1> QED
  BY <1>14, Zenon

(* A factor and its exponent.                                              *)
Pairs == Nat \X Nat

(* The product with a factor more.                                         *)
LEMMA ProductIs ==
  /\ Number!Product(<< >>) = 1
  /\ \A s \in Seq(Pairs) :
       /\ Number!Product(s) \in Nat
       /\ \A c \in Pairs :
            Number!Product(Append(s, c)) = Number!Product(s) * Number!Power(c[1], c[2])
<1> DEFINE Is(s, h) == h = [k \in 0 .. Len(s) |->
                              IF k = 0 THEN 1 ELSE h[k - 1] * Number!Power(s[k][1], s[k][2])]
           H(s) == CHOOSE h : Is(s, h)
<1>1. \A s : Number!Product(s) = H(s)[Len(s)]
  BY Zenon DEF Number!Product
<1>0. \A x \in Nat : \A c \in Pairs : x * Number!Power(c[1], c[2]) \in Nat
  <2>1. \A c \in Pairs : Number!Power(c[1], c[2]) \in Nat
    <3>1. \A c \in Pairs : c[1] \in Nat /\ c[2] \in Nat
      BY Zenon DEF Pairs
    <3> QED
      BY <3>1, PowerIs, Zenon
  <2>2. \A x, y \in Nat : x * y \in Nat
    BY SMT
  <2> QED
    BY <2>1, <2>2, Zenon
<1>2. ASSUME NEW s \in Seq(Pairs)
      PROVE  \E f : Is(s, f)
  <2> DEFINE m == Len(s)
             g == [k \in 1 .. m |-> [x \in Nat |-> x * Number!Power(s[k][1], s[k][2])]]
  <2>0. m \in Nat /\ \A k \in 1 .. m : s[k] \in Pairs
    OBVIOUS
  <2> HIDE DEF m
  <2>1. g \in [1 .. m -> [Nat -> Nat]]
    BY <1>0, <2>0, Zenon
  <2>2. \A k \in 1 .. m : \A x \in Nat : g[k][x] = x * Number!Power(s[k][1], s[k][2])
    BY Zenon
  <2>3. 1 \in Nat
    OBVIOUS
  <2> HIDE DEF g
  <2>4. PICK f \in [0 .. m -> Nat] : Iterates(1, g, m, f)
    BY <2>0, <2>1, <2>3, IterationExists, Zenon
  <2> DEFINE e == [k \in 0 .. m |-> IF k = 0 THEN 1 ELSE f[k - 1] * Number!Power(s[k][1], s[k][2])]
  <2>5. ASSUME NEW k \in 0 .. m
        PROVE  f[k] = e[k]
    <3>1. f[k] = IF k = 0 THEN 1 ELSE g[k][f[k - 1]]
      BY <2>4, Zenon DEF Iterates
    <3>2. k # 0 => k \in 1 .. m /\ f[k - 1] \in Nat
      BY <2>0
    <3>3. e[k] = IF k = 0 THEN 1 ELSE f[k - 1] * Number!Power(s[k][1], s[k][2])
      BY Zenon
    <3> HIDE DEF e
    <3>4. k # 0 => f[k] = f[k - 1] * Number!Power(s[k][1], s[k][2])
      BY <2>2, <3>1, <3>2, Zenon
    <3>5. k = 0 => f[k] = 1 /\ e[k] = 1
      BY <3>1, <3>3, Zenon
    <3>6. k # 0 => e[k] = f[k - 1] * Number!Power(s[k][1], s[k][2])
      BY <3>3, Zenon
    <3> QED
      BY <3>4, <3>5, <3>6, Zenon
  <2>6. f = [k \in 0 .. m |-> f[k]]
    BY Zenon
  <2>7. f = e
    BY <2>5, <2>6, Zenon
  <2> QED
    BY <2>7, Zenon DEF m
<1>3. ASSUME NEW s \in Seq(Pairs)
      PROVE  /\ H(s)[0] = 1
             /\ \A k \in 1 .. Len(s) : H(s)[k] = H(s)[k - 1] * Number!Power(s[k][1], s[k][2])
  <2> DEFINE h == H(s)
  <2>1. Is(s, h)
    BY <1>2, Zenon
  <2> HIDE DEF h
  <2>2. 0 \in 0 .. Len(s) /\ \A k \in 1 .. Len(s) : k \in 0 .. Len(s) /\ k # 0
    OBVIOUS
  <2>3. h[0] = 1 /\ \A k \in 1 .. Len(s) : h[k] = h[k - 1] * Number!Power(s[k][1], s[k][2])
    BY <2>1, <2>2, Zenon
  <2> QED
    BY <2>3, Zenon DEF h
<1> HIDE DEF H
<1>4. ASSUME NEW s \in Seq(Pairs)
      PROVE  H(s)[Len(s)] \in Nat
  <2> DEFINE n == Len(s)
             f == H(s)
             P == {k \in 0 .. n : f[k] \in Nat}
  <2>0. n \in Nat /\ 0 \in 0 .. n /\ 1 \in Nat
        /\ \A k \in 1 .. n : s[k] \in Pairs /\ k \in 0 .. n
    OBVIOUS
  <2>1. f[0] = 1 /\ \A k \in 1 .. n : f[k] = f[k - 1] * Number!Power(s[k][1], s[k][2])
    BY <1>3, Zenon
  <2> HIDE DEF f, n
  <2>2. 0 \in P
    BY <2>0, <2>1, Zenon
  <2>3. \A k \in 1 .. n : k - 1 \in P => k \in P
    <3> TAKE k \in 1 .. n
    <3> HAVE k - 1 \in P
    <3>1. f[k - 1] \in Nat /\ s[k] \in Pairs /\ k \in 0 .. n
      BY <2>0, Zenon
    <3> QED
      BY <1>0, <2>1, <3>1, Zenon
  <2>4. n \in P
    <3> HIDE DEF P
    <3> QED
      BY <2>0, <2>2, <2>3, Induction, Zenon
  <2> QED
    BY <2>4, Zenon DEF f, n
<1>5. ASSUME NEW s \in Seq(Pairs), NEW c \in Pairs
      PROVE  H(Append(s, c))[Len(s) + 1] = H(s)[Len(s)] * Number!Power(c[1], c[2])
  <2> DEFINE n == Len(s)
             m == n + 1
             w == Append(s, c)
             f == H(s)
             g == H(w)
             P == {k \in 0 .. n : g[k] = f[k]}
  <2>0. /\ n \in Nat /\ w \in Seq(Pairs) /\ Len(w) = m /\ w[m] = c
        /\ \A k \in 1 .. n : w[k] = s[k] /\ k \in 1 .. m /\ k \in 0 .. n
        /\ m \in 1 .. m /\ m - 1 = n /\ 0 \in 0 .. n
    OBVIOUS
  <2>1. /\ f[0] = 1 /\ \A k \in 1 .. n : f[k] = f[k - 1] * Number!Power(s[k][1], s[k][2])
        /\ g[0] = 1 /\ \A k \in 1 .. m : g[k] = g[k - 1] * Number!Power(w[k][1], w[k][2])
    BY <1>3, <2>0, Zenon
  <2> HIDE DEF f, g, w, m, n
  <2>2. 0 \in P
    BY <2>0, <2>1, Zenon
  <2>3. \A k \in 1 .. n : k - 1 \in P => k \in P
    <3> TAKE k \in 1 .. n
    <3> HAVE k - 1 \in P
    <3>1. g[k - 1] = f[k - 1] /\ w[k] = s[k] /\ k \in 1 .. m /\ k \in 0 .. n
      BY <2>0, Zenon
    <3>2. g[k] = f[k]
      BY <2>1, <3>1, Zenon
    <3> QED
      BY <3>1, <3>2, Zenon
  <2>4. n \in P
    <3> HIDE DEF P
    <3> QED
      BY <2>0, <2>2, <2>3, Induction, Zenon
  <2>5. g[n] = f[n]
    BY <2>4, Zenon
  <2>6. g[m] = g[m - 1] * Number!Power(w[m][1], w[m][2])
    BY <2>0, <2>1, Zenon
  <2>7. g[m] = f[n] * Number!Power(c[1], c[2])
    BY <2>0, <2>5, <2>6, Zenon
  <2> QED
    BY <2>7, Zenon DEF f, g, w, m, n
<1>6. << >> \in Seq(Pairs) /\ Len(<< >>) = 0
      /\ \A s \in Seq(Pairs) : \A c \in Pairs : /\ Append(s, c) \in Seq(Pairs)
                                              /\ Len(Append(s, c)) = Len(s) + 1
  OBVIOUS
<1>7. Number!Product(<< >>) = 1
  BY <1>1, <1>3, <1>6, Zenon
<1>8. \A s \in Seq(Pairs) : Number!Product(s) \in Nat
  BY <1>1, <1>4, Zenon
<1>9. ASSUME NEW s \in Seq(Pairs), NEW c \in Pairs
      PROVE  Number!Product(Append(s, c)) = Number!Product(s) * Number!Power(c[1], c[2])
  BY <1>1, <1>5, <1>6, Zenon
<1> QED
  BY <1>7, <1>8, <1>9, Zenon

(* The value with a digit more.                                            *)
LEMMA ValueIs ==
  /\ Number!Value(<< >>) = 0
  /\ \A s \in Seq(Nat) :
       /\ Number!Value(s) \in Nat
       /\ \A c \in Nat :
            Number!Value(Append(s, c)) = 10 * Number!Value(s) + c
<1> DEFINE Is(s, h) == h = [k \in 0 .. Len(s) |->
                              IF k = 0 THEN 0 ELSE 10 * h[k - 1] + s[k]]
           H(s) == CHOOSE h : Is(s, h)
<1>1. \A s : Number!Value(s) = H(s)[Len(s)]
  BY Zenon DEF Number!Value
<1>0. \A x \in Nat : \A c \in Nat : 10 * x + c \in Nat
  OBVIOUS
<1>2. ASSUME NEW s \in Seq(Nat)
      PROVE  \E f : Is(s, f)
  <2> DEFINE m == Len(s)
             g == [k \in 1 .. m |-> [x \in Nat |-> 10 * x + s[k]]]
  <2>0. m \in Nat /\ \A k \in 1 .. m : s[k] \in Nat
    OBVIOUS
  <2> HIDE DEF m
  <2>1. g \in [1 .. m -> [Nat -> Nat]]
    BY <1>0, <2>0, Zenon
  <2>2. \A k \in 1 .. m : \A x \in Nat : g[k][x] = 10 * x + s[k]
    BY Zenon
  <2>3. 0 \in Nat
    OBVIOUS
  <2> HIDE DEF g
  <2>4. PICK f \in [0 .. m -> Nat] : Iterates(0, g, m, f)
    BY <2>0, <2>1, <2>3, IterationExists, Zenon
  <2> DEFINE e == [k \in 0 .. m |-> IF k = 0 THEN 0 ELSE 10 * f[k - 1] + s[k]]
  <2>5. ASSUME NEW k \in 0 .. m
        PROVE  f[k] = e[k]
    <3>1. f[k] = IF k = 0 THEN 0 ELSE g[k][f[k - 1]]
      BY <2>4, Zenon DEF Iterates
    <3>2. k # 0 => k \in 1 .. m /\ f[k - 1] \in Nat
      BY <2>0
    <3>3. e[k] = IF k = 0 THEN 0 ELSE 10 * f[k - 1] + s[k]
      BY Zenon
    <3> HIDE DEF e
    <3>4. k # 0 => f[k] = 10 * f[k - 1] + s[k]
      BY <2>2, <3>1, <3>2, Zenon
    <3>5. k = 0 => f[k] = 0 /\ e[k] = 0
      BY <3>1, <3>3, Zenon
    <3>6. k # 0 => e[k] = 10 * f[k - 1] + s[k]
      BY <3>3, Zenon
    <3> QED
      BY <3>4, <3>5, <3>6, Zenon
  <2>6. f = [k \in 0 .. m |-> f[k]]
    BY Zenon
  <2>7. f = e
    BY <2>5, <2>6, Zenon
  <2> QED
    BY <2>7, Zenon DEF m
<1>3. ASSUME NEW s \in Seq(Nat)
      PROVE  /\ H(s)[0] = 0
             /\ \A k \in 1 .. Len(s) : H(s)[k] = 10 * H(s)[k - 1] + s[k]
  <2> DEFINE h == H(s)
  <2>1. Is(s, h)
    BY <1>2, Zenon
  <2> HIDE DEF h
  <2>2. 0 \in 0 .. Len(s) /\ \A k \in 1 .. Len(s) : k \in 0 .. Len(s) /\ k # 0
    OBVIOUS
  <2>3. h[0] = 0 /\ \A k \in 1 .. Len(s) : h[k] = 10 * h[k - 1] + s[k]
    BY <2>1, <2>2, Zenon
  <2> QED
    BY <2>3, Zenon DEF h
<1> HIDE DEF H
<1>4. ASSUME NEW s \in Seq(Nat)
      PROVE  H(s)[Len(s)] \in Nat
  <2> DEFINE n == Len(s)
             f == H(s)
             P == {k \in 0 .. n : f[k] \in Nat}
  <2>0. n \in Nat /\ 0 \in 0 .. n /\ 0 \in Nat
        /\ \A k \in 1 .. n : s[k] \in Nat /\ k \in 0 .. n
    OBVIOUS
  <2>1. f[0] = 0 /\ \A k \in 1 .. n : f[k] = 10 * f[k - 1] + s[k]
    BY <1>3, Zenon
  <2> HIDE DEF f, n
  <2>2. 0 \in P
    BY <2>0, <2>1, Zenon
  <2>3. \A k \in 1 .. n : k - 1 \in P => k \in P
    <3> TAKE k \in 1 .. n
    <3> HAVE k - 1 \in P
    <3>1. f[k - 1] \in Nat /\ s[k] \in Nat /\ k \in 0 .. n
      BY <2>0, Zenon
    <3> QED
      BY <1>0, <2>1, <3>1, Zenon
  <2>4. n \in P
    <3> HIDE DEF P
    <3> QED
      BY <2>0, <2>2, <2>3, Induction, Zenon
  <2> QED
    BY <2>4, Zenon DEF f, n
<1>5. ASSUME NEW s \in Seq(Nat), NEW c \in Nat
      PROVE  H(Append(s, c))[Len(s) + 1] = 10 * H(s)[Len(s)] + c
  <2> DEFINE n == Len(s)
             m == n + 1
             w == Append(s, c)
             f == H(s)
             g == H(w)
             P == {k \in 0 .. n : g[k] = f[k]}
  <2>0. /\ n \in Nat /\ w \in Seq(Nat) /\ Len(w) = m /\ w[m] = c
        /\ \A k \in 1 .. n : w[k] = s[k] /\ k \in 1 .. m /\ k \in 0 .. n
        /\ m \in 1 .. m /\ m - 1 = n /\ 0 \in 0 .. n
    OBVIOUS
  <2>1. /\ f[0] = 0 /\ \A k \in 1 .. n : f[k] = 10 * f[k - 1] + s[k]
        /\ g[0] = 0 /\ \A k \in 1 .. m : g[k] = 10 * g[k - 1] + w[k]
    BY <1>3, <2>0, Zenon
  <2> HIDE DEF f, g, w, m, n
  <2>2. 0 \in P
    BY <2>0, <2>1, Zenon
  <2>3. \A k \in 1 .. n : k - 1 \in P => k \in P
    <3> TAKE k \in 1 .. n
    <3> HAVE k - 1 \in P
    <3>1. g[k - 1] = f[k - 1] /\ w[k] = s[k] /\ k \in 1 .. m /\ k \in 0 .. n
      BY <2>0, Zenon
    <3>2. g[k] = f[k]
      BY <2>1, <3>1, Zenon
    <3> QED
      BY <3>1, <3>2, Zenon
  <2>4. n \in P
    <3> HIDE DEF P
    <3> QED
      BY <2>0, <2>2, <2>3, Induction, Zenon
  <2>5. g[n] = f[n]
    BY <2>4, Zenon
  <2>6. g[m] = 10 * g[m - 1] + w[m]
    BY <2>0, <2>1, Zenon
  <2>7. g[m] = 10 * f[n] + c
    BY <2>0, <2>5, <2>6, Zenon
  <2> QED
    BY <2>7, Zenon DEF f, g, w, m, n
<1>6. << >> \in Seq(Nat) /\ Len(<< >>) = 0
      /\ \A s \in Seq(Nat) : \A c \in Nat : /\ Append(s, c) \in Seq(Nat)
                                                 /\ Len(Append(s, c)) = Len(s) + 1
  OBVIOUS
<1>7. Number!Value(<< >>) = 0
  BY <1>1, <1>3, <1>6, Zenon
<1>8. \A s \in Seq(Nat) : Number!Value(s) \in Nat
  BY <1>1, <1>4, Zenon
<1>9. ASSUME NEW s \in Seq(Nat), NEW c \in Nat
      PROVE  Number!Value(Append(s, c)) = 10 * Number!Value(s) + c
  BY <1>1, <1>5, <1>6, Zenon
<1> QED
  BY <1>7, <1>8, <1>9, Zenon

(* What long division holds between two digits.                            *)
Divisions == [rest : Seq(Nat), n : Nat]
(* What it begins with.                                                    *)
Begun == [rest |-> << >>, n |-> 0]

(* And what it holds in the end.                                           *)
LongDivision(divider, num) ==
  LET taken[k \in 0 .. Len(num)] ==
        IF k = 0 THEN Begun ELSE Number!Taken(taken[k - 1], num[k], divider)
  IN  taken[Len(num)]

(* A digit is taken.                                                       *)
LEMMA TakenType ==
  ASSUME NEW divider \in Nat \ {0}, NEW s \in Divisions, NEW c \in Nat
  PROVE  Number!Taken(s, c, divider) \in Divisions
<1> DEFINE n == s.n * 10 + c
           q == n \div divider
           r == n % divider
<1>1. n \in Nat /\ s.rest \in Seq(Nat)
  BY DEF Divisions
<1>2. Number!Taken(s, c, divider) =
        IF s.rest = << >> /\ ~Number!Enough(n, divider) THEN [s EXCEPT !.n = n]
        ELSE [rest |-> Append(s.rest, q), n |-> r]
  BY Zenon DEF Number!Taken
<1> HIDE DEF n
<1>3. q \in Nat /\ r \in 0 .. divider - 1
  BY <1>1, Division, Zenon
<1>4. r \in Nat
  BY <1>3
<1> HIDE DEF q, r
<1>5. [s EXCEPT !.n = n] \in Divisions
  BY <1>1 DEF Divisions
<1>6. Append(s.rest, q) \in Seq(Nat)
  BY <1>1, <1>3
<1>7. [rest |-> Append(s.rest, q), n |-> r] \in Divisions
  BY <1>4, <1>6, Zenon DEF Divisions
<1> QED
  BY <1>2, <1>5, <1>7, Zenon

(* It goes on with a digit more.                                           *)
LEMMA LongDivisionIs ==
  ASSUME NEW divider \in Nat \ {0}
  PROVE  /\ LongDivision(divider, << >>) = Begun
         /\ \A s \in Seq(Nat) :
              /\ LongDivision(divider, s) \in Divisions
              /\ \A c \in Nat :
                   LongDivision(divider, Append(s, c)) =
                     Number!Taken(LongDivision(divider, s), c, divider)
<1> DEFINE Is(s, h) == h = [k \in 0 .. Len(s) |->
                              IF k = 0 THEN Begun ELSE Number!Taken(h[k - 1], s[k], divider)]
           H(s) == CHOOSE h : Is(s, h)
<1>1. \A s : LongDivision(divider, s) = H(s)[Len(s)]
  BY Zenon DEF LongDivision
<1>0. \A x \in Divisions : \A c \in Nat : Number!Taken(x, c, divider) \in Divisions
  BY TakenType, Zenon
<1>2. ASSUME NEW s \in Seq(Nat)
      PROVE  \E f : Is(s, f)
  <2> DEFINE m == Len(s)
             g == [k \in 1 .. m |-> [x \in Divisions |-> Number!Taken(x, s[k], divider)]]
  <2>0. m \in Nat /\ \A k \in 1 .. m : s[k] \in Nat
    OBVIOUS
  <2> HIDE DEF m
  <2>1. g \in [1 .. m -> [Divisions -> Divisions]]
    BY <1>0, <2>0, Zenon
  <2>2. \A k \in 1 .. m : \A x \in Divisions : g[k][x] = Number!Taken(x, s[k], divider)
    BY Zenon
  <2>3. Begun \in Divisions
    BY DEF Begun, Divisions
  <2> HIDE DEF g
  <2>4. PICK f \in [0 .. m -> Divisions] : Iterates(Begun, g, m, f)
    BY <2>0, <2>1, <2>3, IterationExists, Zenon
  <2> DEFINE e == [k \in 0 .. m |-> IF k = 0 THEN Begun
                                    ELSE Number!Taken(f[k - 1], s[k], divider)]
  <2>5. ASSUME NEW k \in 0 .. m
        PROVE  f[k] = e[k]
    <3>1. f[k] = IF k = 0 THEN Begun ELSE g[k][f[k - 1]]
      BY <2>4, Zenon DEF Iterates
    <3>2. k # 0 => k \in 1 .. m /\ f[k - 1] \in Divisions
      BY <2>0
    <3>3. e[k] = IF k = 0 THEN Begun ELSE Number!Taken(f[k - 1], s[k], divider)
      BY Zenon
    <3> HIDE DEF e
    <3>4. k # 0 => f[k] = Number!Taken(f[k - 1], s[k], divider)
      BY <2>2, <3>1, <3>2, Zenon
    <3>5. k = 0 => f[k] = Begun /\ e[k] = Begun
      BY <3>1, <3>3, Zenon
    <3>6. k # 0 => e[k] = Number!Taken(f[k - 1], s[k], divider)
      BY <3>3, Zenon
    <3> QED
      BY <3>4, <3>5, <3>6, Zenon
  <2>6. f = [k \in 0 .. m |-> f[k]]
    BY Zenon
  <2>7. f = e
    BY <2>5, <2>6, Zenon
  <2> QED
    BY <2>7, Zenon DEF m
<1>3. ASSUME NEW s \in Seq(Nat)
      PROVE  /\ H(s)[0] = Begun
             /\ \A k \in 1 .. Len(s) : H(s)[k] = Number!Taken(H(s)[k - 1], s[k], divider)
  <2> DEFINE h == H(s)
  <2>1. Is(s, h)
    BY <1>2, Zenon
  <2> HIDE DEF h
  <2>2. 0 \in 0 .. Len(s) /\ \A k \in 1 .. Len(s) : k \in 0 .. Len(s) /\ k # 0
    OBVIOUS
  <2>3. h[0] = Begun /\ \A k \in 1 .. Len(s) : h[k] = Number!Taken(h[k - 1], s[k], divider)
    BY <2>1, <2>2, Zenon
  <2> QED
    BY <2>3, Zenon DEF h
<1> HIDE DEF H
<1>4. ASSUME NEW s \in Seq(Nat)
      PROVE  H(s)[Len(s)] \in Divisions
  <2> DEFINE n == Len(s)
             f == H(s)
             P == {k \in 0 .. n : f[k] \in Divisions}
  <2>0. n \in Nat /\ 0 \in 0 .. n /\ Begun \in Divisions
        /\ \A k \in 1 .. n : s[k] \in Nat /\ k \in 0 .. n
    BY DEF Begun, Divisions
  <2>1. f[0] = Begun /\ \A k \in 1 .. n : f[k] = Number!Taken(f[k - 1], s[k], divider)
    BY <1>3, Zenon
  <2> HIDE DEF f, n
  <2>2. 0 \in P
    BY <2>0, <2>1, Zenon
  <2>3. \A k \in 1 .. n : k - 1 \in P => k \in P
    <3> TAKE k \in 1 .. n
    <3> HAVE k - 1 \in P
    <3>1. f[k - 1] \in Divisions /\ s[k] \in Nat /\ k \in 0 .. n
      BY <2>0, Zenon
    <3> QED
      BY <1>0, <2>1, <3>1, Zenon
  <2>4. n \in P
    <3> HIDE DEF P
    <3> QED
      BY <2>0, <2>2, <2>3, Induction, Zenon
  <2> QED
    BY <2>4, Zenon DEF f, n
<1>5. ASSUME NEW s \in Seq(Nat), NEW c \in Nat
      PROVE  H(Append(s, c))[Len(s) + 1] = Number!Taken(H(s)[Len(s)], c, divider)
  <2> DEFINE n == Len(s)
             m == n + 1
             w == Append(s, c)
             f == H(s)
             g == H(w)
             P == {k \in 0 .. n : g[k] = f[k]}
  <2>0. /\ n \in Nat /\ w \in Seq(Nat) /\ Len(w) = m /\ w[m] = c
        /\ \A k \in 1 .. n : w[k] = s[k] /\ k \in 1 .. m /\ k \in 0 .. n
        /\ m \in 1 .. m /\ m - 1 = n /\ 0 \in 0 .. n
    OBVIOUS
  <2>1. /\ f[0] = Begun /\ \A k \in 1 .. n : f[k] = Number!Taken(f[k - 1], s[k], divider)
        /\ g[0] = Begun /\ \A k \in 1 .. m : g[k] = Number!Taken(g[k - 1], w[k], divider)
    BY <1>3, <2>0, Zenon
  <2> HIDE DEF f, g, w, m, n
  <2>2. 0 \in P
    BY <2>0, <2>1, Zenon
  <2>3. \A k \in 1 .. n : k - 1 \in P => k \in P
    <3> TAKE k \in 1 .. n
    <3> HAVE k - 1 \in P
    <3>1. g[k - 1] = f[k - 1] /\ w[k] = s[k] /\ k \in 1 .. m /\ k \in 0 .. n
      BY <2>0, Zenon
    <3>2. g[k] = f[k]
      BY <2>1, <3>1, Zenon
    <3> QED
      BY <3>1, <3>2, Zenon
  <2>4. n \in P
    <3> HIDE DEF P
    <3> QED
      BY <2>0, <2>2, <2>3, Induction, Zenon
  <2>5. g[n] = f[n]
    BY <2>4, Zenon
  <2>6. g[m] = Number!Taken(g[m - 1], w[m], divider)
    BY <2>0, <2>1, Zenon
  <2>7. g[m] = Number!Taken(f[n], c, divider)
    BY <2>0, <2>5, <2>6, Zenon
  <2> QED
    BY <2>7, Zenon DEF f, g, w, m, n
<1>6. << >> \in Seq(Nat) /\ Len(<< >>) = 0
      /\ \A s \in Seq(Nat) : \A c \in Nat : /\ Append(s, c) \in Seq(Nat)
                                            /\ Len(Append(s, c)) = Len(s) + 1
  OBVIOUS
<1>7. LongDivision(divider, << >>) = Begun
  BY <1>1, <1>3, <1>6, Zenon
<1>8. \A s \in Seq(Nat) : LongDivision(divider, s) \in Divisions
  BY <1>1, <1>4, Zenon
<1>9. ASSUME NEW s \in Seq(Nat), NEW c \in Nat
      PROVE  LongDivision(divider, Append(s, c)) =
               Number!Taken(LongDivision(divider, s), c, divider)
  <2> DEFINE w == Append(s, c)
  <2>1. LongDivision(divider, w) = H(w)[Len(w)] /\ LongDivision(divider, s) = H(s)[Len(s)]
    BY <1>1, Zenon
  <2>2. Len(w) = Len(s) + 1
    BY <1>6, Zenon
  <2>3. H(w)[Len(s) + 1] = Number!Taken(H(s)[Len(s)], c, divider)
    BY <1>5, Zenon
  <2> HIDE DEF w
  <2>4. LongDivision(divider, w) = Number!Taken(LongDivision(divider, s), c, divider)
    BY <2>1, <2>2, <2>3, Zenon
  <2> QED
    BY <2>4, Zenon DEF w
<1> QED
  BY <1>7, <1>8, <1>9, Zenon

(* A quotient so far, and what is left of the value of the digits so far.  *)
Divided(s, divider, v) ==
  /\ s.rest \in Seq(0 .. 9) /\ s.n \in 0 .. divider - 1
  /\ v = Number!Value(s.rest) * divider + s.n
  /\ s.rest # << >> => s.rest[1] # 0

(* What is less than ten times the divider has one digit.                  *)
LEMMA OneDigit ==
  ASSUME NEW d \in Nat \ {0}, NEW q \in Nat, NEW r \in 0 .. d - 1,
         q * d + r < 10 * d
  PROVE  q \in 0 .. 9
<1>1. SUFFICES ASSUME 10 <= q PROVE FALSE
  BY SMT
<1>2. PICK e \in Nat : q = 10 + e
  <2>1. q - 10 \in Nat /\ q = 10 + (q - 10)
    BY <1>1
  <2> QED
    BY <2>1, Zenon
<1>3. q * d = 10 * d + e * d /\ e * d \in Nat
  BY <1>2, SMT
<1> DEFINE x == q * d
           y == e * d
<1>4. x = 10 * d + y /\ y \in Nat /\ x + r < 10 * d
  BY <1>3, Zenon
<1> HIDE DEF x, y
<1> QED
  BY <1>4

(* It stays so with a digit more.                                          *)
LEMMA TakenDivides ==
  ASSUME NEW divider \in Nat \ {0}, NEW s \in Divisions, NEW c \in 0 .. 9, NEW v \in Nat,
         Divided(s, divider, v)
  PROVE  Divided(Number!Taken(s, c, divider), divider, 10 * v + c)
<1> DEFINE n == s.n * 10 + c
           q == n \div divider
           r == n % divider
           x == Number!Value(s.rest)
           t == Number!Taken(s, c, divider)
<1>1. /\ s.rest \in Seq(0 .. 9) /\ s.n \in 0 .. divider - 1 /\ v = x * divider + s.n
      /\ s.rest # << >> => s.rest[1] # 0
  BY Zenon DEF Divided
<1>2. s.rest \in Seq(Nat)
  BY <1>1
<1>3. x \in Nat /\ Number!Value(<< >>) = 0
      /\ \A e \in Nat : Number!Value(Append(s.rest, e)) = 10 * x + e
  BY <1>2, ValueIs, Zenon
<1>4. n \in Nat /\ n < 10 * divider
  BY <1>1
<1>5. 10 * v + c = 10 * (x * divider) + n
  <2> DEFINE y == x * divider
  <2>1. y \in Nat /\ v = y + s.n /\ s.n \in Nat
    <3>1. x * divider \in Nat
      BY <1>3, SMT
    <3> QED
      BY <1>1, <3>1
  <2> HIDE DEF y
  <2>2. 10 * v + c = 10 * y + n
    BY <2>1
  <2> QED
    BY <2>2, Zenon DEF y
<1>6. t = IF s.rest = << >> /\ ~Number!Enough(n, divider) THEN [s EXCEPT !.n = n]
          ELSE [rest |-> Append(s.rest, q), n |-> r]
  BY Zenon DEF Number!Taken
<1>7. Number!Enough(n, divider) <=> divider <= n
  BY Zenon DEF Number!Enough
<1> HIDE DEF n, t, x
<1>8. CASE s.rest = << >> /\ ~Number!Enough(n, divider)
  <2>1. t = [s EXCEPT !.n = n]
    BY <1>6, <1>8, Zenon
  <2>2. t.rest = << >> /\ t.n = n
    BY <1>8, <2>1 DEF Divisions
  <2>3. n \in 0 .. divider - 1
    BY <1>4, <1>7, <1>8
  <2>4. x = 0
    BY <1>3, <1>8, Zenon DEF x
  <2>5. 10 * v + c = 0 * divider + n
    BY <1>4, <1>5, <2>4
  <2>6. << >> \in Seq(0 .. 9)
    OBVIOUS
  <2> QED
    BY <1>3, <2>2, <2>3, <2>5, <2>6, Zenon DEF Divided, t
<1>9. CASE ~(s.rest = << >> /\ ~Number!Enough(n, divider))
  <2>1. t = [rest |-> Append(s.rest, q), n |-> r]
    BY <1>6, <1>9, Zenon
  <2>2. q \in Nat /\ r \in 0 .. divider - 1 /\ n = q * divider + r
    BY <1>4, Division, Zenon
  <2> HIDE DEF q, r
  <2>3. t.rest = Append(s.rest, q) /\ t.n = r
    BY <2>1, Zenon
  <2>4. q \in 0 .. 9
    <3>1. q * divider + r < 10 * divider
      BY <1>4, <2>2, Zenon
    <3> QED
      BY <2>2, <3>1, OneDigit, Zenon
  <2>5. Append(s.rest, q) \in Seq(0 .. 9)
    BY <1>1, <2>4
  <2>6. 10 * v + c = (10 * x + q) * divider + r
    <3>1. (10 * x + q) * divider = 10 * (x * divider) + q * divider
      BY <1>3, <2>2, SMT
    <3> DEFINE y == x * divider
               z == q * divider
               w == (10 * x + q) * divider
    <3>2. y \in Nat /\ z \in Nat /\ w = 10 * y + z /\ 10 * v + c = 10 * y + n /\ n = z + r
      <4>1. x * divider \in Nat /\ q * divider \in Nat
        BY <1>3, <2>2, SMT
      <4> QED
        BY <1>5, <2>2, <3>1, <4>1, Zenon
    <3>3. r \in Nat /\ w \in Nat
      <4> HIDE DEF y, z, w
      <4> QED
        BY <2>2, <3>2
    <3> HIDE DEF y, z, w
    <3>4. 10 * v + c = w + r
      BY <3>2, <3>3
    <3> QED
      BY <3>4, Zenon DEF w
  <2>7. Number!Value(Append(s.rest, q)) = 10 * x + q
    BY <1>3, <2>2, Zenon
  <2>8. Append(s.rest, q)[1] # 0
    <3>1. CASE s.rest = << >>
      <4>1. divider <= n
        BY <1>7, <1>9, <3>1, Zenon
      <4>2. q # 0
        <5>1. SUFFICES ASSUME q = 0 PROVE FALSE
          BY Zenon
        <5>2. n = 0 * divider + r
          BY <2>2, <5>1, Zenon
        <5> QED
          BY <2>2, <4>1, <5>2
      <4>3. Append(s.rest, q)[1] = q
        BY <3>1
      <4> QED
        BY <4>2, <4>3, Zenon
    <3>2. CASE s.rest # << >>
      <4>1. Append(s.rest, q)[1] = s.rest[1]
        BY <1>1, <3>2
      <4> QED
        BY <1>1, <3>2, <4>1, Zenon
    <3> QED
      BY <3>1, <3>2, Zenon
  <2> QED
    BY <2>2, <2>3, <2>5, <2>6, <2>7, <2>8, Zenon DEF Divided, t
<1> QED
  BY <1>8, <1>9, Zenon

(* Long division divides.                                                  *)
LEMMA QuotientIsRight ==
  ASSUME NEW num \in Seq(0 .. 9), NEW divider \in Nat \ {0}
  PROVE  Number!QuotientRight(num, divider)
<1> DEFINE Divides(w) == Divided(LongDivision(divider, w), divider, Number!Value(w))
           Q == {w \in Seq(0 .. 9) : Divides(w)}
<1>0. \A w \in Seq(0 .. 9) : w \in Seq(Nat)
  OBVIOUS
<1>1. << >> \in Q
  <2>1. << >> \in Seq(0 .. 9) /\ << >> \in Seq(Nat)
    OBVIOUS
  <2>2. LongDivision(divider, << >>) = Begun /\ Number!Value(<< >>) = 0
    BY LongDivisionIs, ValueIs, Zenon
  <2>3. Begun.rest = << >> /\ Begun.n = 0
    BY Zenon DEF Begun
  <2>4. 0 = 0 * divider + 0 /\ 0 \in 0 .. divider - 1
    OBVIOUS
  <2>5. Divided(Begun, divider, 0)
    BY <2>1, <2>2, <2>3, <2>4, Zenon DEF Divided
  <2> QED
    BY <2>1, <2>2, <2>5, Zenon
<1>2. \A x \in Seq(0 .. 9), c \in 0 .. 9 : x \in Q => Append(x, c) \in Q
  <2> TAKE x \in Seq(0 .. 9), c \in 0 .. 9
  <2> HAVE x \in Q
  <2>1. x \in Seq(Nat) /\ c \in Nat /\ Append(x, c) \in Seq(0 .. 9)
    OBVIOUS
  <2>2. Divides(x)
    BY Zenon
  <2>3. Number!Value(x) \in Nat /\ Number!Value(Append(x, c)) = 10 * Number!Value(x) + c
    BY <2>1, ValueIs, Zenon
  <2>4. LongDivision(divider, x) \in Divisions
    BY <2>1, LongDivisionIs, Zenon
  <2>5. LongDivision(divider, Append(x, c)) = Number!Taken(LongDivision(divider, x), c, divider)
    BY <2>1, LongDivisionIs, Zenon
  <2>6. Divides(Append(x, c))
    BY <2>2, <2>3, <2>4, <2>5, TakenDivides, Zenon
  <2> QED
    BY <2>1, <2>6, Zenon
<1>3. num \in Q
  <2> HIDE DEF Q
  <2> QED
    BY <1>1, <1>2, LetterByLetter, Zenon
<1> DEFINE end == LongDivision(divider, num)
           q == Number!divide(num, divider)
<1>4. Divided(end, divider, Number!Value(num)) /\ end \in Divisions
  BY <1>0, <1>3, LongDivisionIs, Zenon
<1>5. q = IF end.rest = << >> THEN [rest |-> <<0>>, n |-> end.n] ELSE end
  BY Zenon DEF Number!divide, LongDivision, Begun
<1> HIDE DEF end
<1>6. /\ end.rest \in Seq(0 .. 9) /\ end.n \in 0 .. divider - 1
      /\ Number!Value(num) = Number!Value(end.rest) * divider + end.n
      /\ end.rest # << >> => end.rest[1] # 0
  BY <1>4, Zenon DEF Divided
<1>7. Number!Value(<<0>>) = 0 /\ Number!Value(<< >>) = 0
  <2>1. << >> \in Seq(Nat) /\ 0 \in Nat /\ Append(<< >>, 0) = <<0>> /\ 10 * 0 + 0 = 0
    OBVIOUS
  <2> QED
    BY <2>1, ValueIs, Zenon
<1> HIDE DEF q
<1>8. CASE end.rest = << >>
  <2>1. q.rest = <<0>> /\ q.n = end.n
    BY <1>5, <1>8, Zenon
  <2>2. Number!Value(num) = Number!Value(q.rest) * divider + q.n
    BY <1>6, <1>7, <1>8, <2>1, Zenon
  <2>3. Len(<<0>>) = 1 /\ ~(Len(<<0>>) > 1) /\ \A i \in DOMAIN <<0>> : <<0>>[i] \in 0 .. 9
    OBVIOUS
  <2> QED
    BY <1>6, <2>1, <2>2, <2>3, Zenon DEF Number!QuotientRight, q
<1>9. CASE end.rest # << >>
  <2>1. q = end
    BY <1>5, <1>9, Zenon
  <2>2. \A i \in DOMAIN end.rest : end.rest[i] \in 0 .. 9
    BY <1>6
  <2> QED
    BY <1>6, <1>9, <2>1, <2>2, Zenon DEF Number!QuotientRight, q
<1> QED
  BY <1>8, <1>9, Zenon

(* Factors in ascending order.                                             *)
Ascends(found) == \A i \in 1 .. Len(found) - 1 : found[i][1] < found[i + 1][1]

(* What manage_output holds once the numbers up to k were tried.           *)
Factored(s, k, number) ==
  /\ s.factor \in Nat \ {0} /\ s.found \in Seq(Pairs)
  /\ number = Number!Product(s.found) * s.factor
  /\ \A d \in 2 .. k : s.factor % d # 0
  /\ \A i \in DOMAIN s.found : s.found[i][1] \in 2 .. k /\ Number!Prime(s.found[i][1])
  /\ Ascends(s.found)

(* 1 has no divisor but 1.                                                 *)
LEMMA OneHasNone ==
  ASSUME NEW d \in Nat, d > 1
  PROVE  1 % d # 0
<1>1. SUFFICES ASSUME 1 % d = 0 PROVE FALSE
  BY Zenon
<1>2. PICK q \in Nat : 1 = q * d
  <2>1. 1 \in Nat /\ d \in Nat \ {0}
    BY SMT
  <2> QED
    BY <1>1, <2>1, IsMultiple, Zenon
<1>3. PICK e \in Nat : d = 2 + e
  <2>1. d - 2 \in Nat /\ d = 2 + (d - 2)
    BY SMT
  <2> QED
    BY <2>1, Zenon
<1>4. q * d = q + q + q * e /\ q * e \in Nat
  BY <1>3, SMT
<1> DEFINE x == q * e
<1>5. 1 = q + q + x /\ x \in Nat /\ (q = 0 => 1 = 0 * d)
  BY <1>2, <1>4, Zenon
<1> HIDE DEF x
<1> QED
  BY <1>5

(* A greater factor stands behind the others.                              *)
Extends(found, w, p, e) ==
  /\ w \in Seq(Pairs) /\ Ascends(w)
  /\ Number!Product(w) = Number!Product(found) * Number!Power(p, e)
  /\ \A i \in DOMAIN w : (i \in DOMAIN found /\ w[i] = found[i]) \/ w[i][1] = p

(* That is what becomes of it when it is appended.                         *)
LEMMA FactorAppend ==
  ASSUME NEW found \in Seq(Pairs), Ascends(found), NEW p \in Nat, NEW e \in Nat,
         \A i \in DOMAIN found : found[i][1] < p
  PROVE  Extends(found, Append(found, <<p, e>>), p, e)
<1> DEFINE c == <<p, e>>
           w == Append(found, c)
           n == Len(found)
<1>1. c \in Pairs /\ c[1] = p /\ c[2] = e
  BY Zenon DEF Pairs
<1> HIDE DEF c
<1>2. /\ w \in Seq(Pairs) /\ n \in Nat /\ Len(w) = n + 1 /\ w[n + 1] = c
      /\ \A i \in 1 .. n : w[i] = found[i] /\ i \in DOMAIN found
      /\ DOMAIN w = 1 .. n + 1
  BY <1>1
<1>3. Number!Product(w) = Number!Product(found) * Number!Power(p, e)
  BY <1>1, ProductIs, Zenon
<1> HIDE DEF w, n
<1>4. ASSUME NEW i \in 1 .. Len(w) - 1
      PROVE  w[i][1] < w[i + 1][1]
  <2>1. i \in 1 .. n /\ (i = n \/ i \in 1 .. n - 1)
    BY <1>2
  <2>2. CASE i = n
    BY <1>1, <1>2, <2>1, <2>2, Zenon
  <2>3. CASE i \in 1 .. n - 1
    <3>1. i + 1 \in 1 .. n
      BY <1>2, <2>3
    <3>2. found[i][1] < found[i + 1][1]
      BY <2>3, Zenon DEF Ascends, n
    <3> QED
      BY <1>2, <2>1, <3>1, <3>2, Zenon
  <2> QED
    BY <2>1, <2>2, <2>3, Zenon
<1>5. ASSUME NEW i \in DOMAIN w
      PROVE  (i \in DOMAIN found /\ w[i] = found[i]) \/ w[i][1] = p
  <2>1. i \in 1 .. n \/ i = n + 1
    BY <1>2
  <2> QED
    BY <1>1, <1>2, <2>1, Zenon
<1>6. Ascends(w)
  BY <1>4, Zenon DEF Ascends
<1> QED
  BY <1>1, <1>2, <1>3, <1>5, <1>6, Zenon DEF w, c, Extends

(* A number more is tried.                                                 *)
LEMMA TriedFactors ==
  ASSUME Number!FactorsAssumption, NEW number \in Nat \ {0}, NEW k \in 2 .. range - 1,
         NEW s, Factored(s, k - 1, number)
  PROVE  Factored(Number!Tried(s, k, Number!sieveofErastoten), k, number)
<1> DEFINE primes == Number!sieveofErastoten
           t == Number!Tried(s, k, primes)
           f == s.factor
<1>0. range \in Nat /\ k \in Nat \ {0} /\ k > 1 /\ k \in Nat
  BY SMT DEF Number!FactorsAssumption
<1>1. /\ f \in Nat \ {0} /\ s.found \in Seq(Pairs)
      /\ number = Number!Product(s.found) * f
      /\ \A d \in 2 .. k - 1 : f % d # 0
      /\ \A i \in DOMAIN s.found : s.found[i][1] \in 2 .. k - 1 /\ Number!Prime(s.found[i][1])
      /\ Ascends(s.found)
  BY Zenon DEF Factored
<1>2. k \in primes <=> Number!Prime(k)
  BY SieveLeaves, Zenon
<1>3. \A d : d \in 2 .. k <=> d = k \/ d \in 2 .. k - 1
  BY <1>0, SMT
<1>4. t = IF f # 1 /\ k \in primes /\ f % k = 0
            THEN [factor |-> Number!Without(f, k),
                  found |-> Append(s.found, <<k, Number!Times(f, k)>>)]
            ELSE s
  BY Zenon DEF Number!Tried
<1> HIDE DEF primes, t, f
<1>5. CASE f # 1 /\ k \in primes /\ f % k = 0
  <2>1. \E e \in Nat : \E w \in Nat \ {0} : DividesOut(f, k, e, w)
    BY <1>0, <1>1, DividedOut, Zenon
  <2>2. PICK e \in Nat : \E w \in Nat \ {0} : DividesOut(f, k, e, w)
    BY <2>1, Zenon
  <2>30. PICK w \in Nat \ {0} : DividesOut(f, k, e, w)
    BY <2>2, Zenon
  <2>3. /\ Number!Times(f, k) = e /\ Number!Without(f, k) = w
        /\ f = w * Number!Power(k, e) /\ w % k # 0
    BY <2>30, Zenon DEF DividesOut
  <2> DEFINE u == Append(s.found, <<k, e>>)
  <2>4. t.factor = w /\ t.found = u
    BY <1>4, <1>5, <2>3, Zenon
  <2>5. \A i \in DOMAIN s.found : s.found[i][1] < k
    <3>1. \A x \in 2 .. k - 1 : x < k
      BY <1>0
    <3> QED
      BY <1>1, <3>1, Zenon
  <2>6. /\ u \in Seq(Pairs) /\ Ascends(u)
        /\ Number!Product(u) = Number!Product(s.found) * Number!Power(k, e)
        /\ \A i \in DOMAIN u : (i \in DOMAIN s.found /\ u[i] = s.found[i]) \/ u[i][1] = k
    BY <1>0, <1>1, <2>5, FactorAppend, Zenon DEF Extends
  <2> HIDE DEF u
  <2>7. number = Number!Product(u) * w
    <3> DEFINE x == Number!Product(s.found)
               y == Number!Power(k, e)
    <3>1. x \in Nat /\ y \in Nat
      BY <1>0, <1>1, ProductIs, PowerIs, Zenon
    <3>2. number = x * (w * y) /\ Number!Product(u) = x * y
      BY <1>1, <2>3, <2>6, Zenon
    <3> HIDE DEF x, y
    <3>3. x * (w * y) = (x * y) * w
      BY <3>1, SMT
    <3> QED
      BY <3>2, <3>3, Zenon
  <2>8. ASSUME NEW d \in 2 .. k
        PROVE  w % d # 0
    <3>1. CASE d = k
      BY <2>3, <3>1, Zenon
    <3>2. CASE d \in 2 .. k - 1
      <4>1. SUFFICES ASSUME w % d = 0 PROVE FALSE
        BY Zenon
      <4>2. d \in Nat \ {0} /\ f \in Nat
        BY <1>1
      <4>3. f % w = 0
        <5> DEFINE y == Number!Power(k, e)
        <5>1. y \in Nat
          BY <1>0, PowerIs, Zenon
        <5>2. f = w * y
          BY <2>3, Zenon
        <5> HIDE DEF y
        <5>3. f = y * w
          BY <5>1, <5>2, SMT
        <5> QED
          BY <5>1, <5>3, MultipleOf, Zenon
      <4>4. f % d = 0
        BY <4>1, <4>2, <4>3, DivisorOfDivisor, Zenon
      <4> QED
        BY <1>1, <3>2, <4>4, Zenon
    <3> QED
      BY <1>3, <3>1, <3>2, Zenon
  <2>9. ASSUME NEW i \in DOMAIN u
        PROVE  u[i][1] \in 2 .. k /\ Number!Prime(u[i][1])
    <3>1. k \in 2 .. k
      BY <1>0
    <3> QED
      BY <1>1, <1>2, <1>3, <1>5, <2>6, <3>1, Zenon
  <2> QED
    BY <2>4, <2>6, <2>7, <2>8, <2>9, Zenon DEF Factored, t, primes
<1>6. CASE ~(f # 1 /\ k \in primes /\ f % k = 0)
  <2>1. t = s
    BY <1>4, <1>6, Zenon
  <2>2. f % k # 0
    <3>1. CASE f = 1
      BY <1>0, <3>1, OneHasNone, Zenon
    <3>2. CASE ~Number!Prime(k)
      <4>1. PICK d \in 2 .. k - 1 : k % d = 0
        BY <1>0, <3>2, Zenon DEF Number!Prime
      <4>2. d \in Nat \ {0} /\ f \in Nat
        BY <1>1
      <4>3. f % k = 0 => f % d = 0
        BY <1>0, <4>1, <4>2, DivisorOfDivisor, Zenon
      <4> QED
        BY <1>1, <4>3, Zenon
    <3> QED
      BY <1>2, <1>6, <3>1, <3>2, Zenon
  <2>3. \A d \in 2 .. k : f % d # 0
    BY <1>1, <1>3, <2>2, Zenon
  <2>4. \A i \in DOMAIN s.found : s.found[i][1] \in 2 .. k /\ Number!Prime(s.found[i][1])
    BY <1>1, <1>3, Zenon
  <2> QED
    BY <1>1, <2>1, <2>3, <2>4, Zenon DEF Factored, t, f, primes
<1> QED
  BY <1>5, <1>6, Zenon

(* What is left when all were tried is a prime, if the number is small     *)
(* enough.                                                                 *)
LEMMA RestIsPrime ==
  ASSUME NEW n \in Nat \ {0}, NEW r \in Nat, n > 1, n < r * r, \A d \in 2 .. r - 1 : n % d # 0
  PROVE  Number!Prime(n)
<1>1. SUFFICES ASSUME NEW d \in 2 .. n - 1, n % d = 0 PROVE FALSE
  BY Zenon DEF Number!Prime
<1>2. PICK k \in 2 .. n - 1 : n = k * d /\ n % k = 0
  BY <1>1, Cofactor, Zenon
<1>3. \E m, o \in 2 .. n - 1 : m <= o /\ n = m * o /\ n % m = 0
  <2>1. k <= d \/ d <= k
    OBVIOUS
  <2>2. n = d * k
    BY <1>2, SMT
  <2> QED
    BY <1>1, <1>2, <2>1, <2>2, Zenon
<1>4. PICK m \in 2 .. n - 1 : \E o \in 2 .. n - 1 : m <= o /\ n = m * o /\ n % m = 0
  BY <1>3, Zenon
<1>5. PICK o \in 2 .. n - 1 : m <= o /\ n = m * o /\ n % m = 0
  BY <1>4, Zenon
<1>6. m \in Nat /\ o \in Nat
  OBVIOUS
<1>7. m < r
  BY <1>5, <1>6, FactorBelowRoot, Zenon
<1>8. m \in 2 .. r - 1
  BY <1>7
<1> QED
  BY <1>5, <1>8, Zenon

(* The factors that are printed are the number's.                          *)
LEMMA FactorsAreRight ==
  ASSUME Number!FactorsAssumption, NEW number \in Nat \ {0}
  PROVE  Number!FactorsRight(number)
<1> DEFINE S == [factor : Nat \ {0}, found : Seq(Pairs)]
           primes == Number!sieveofErastoten
           last == range - 1
           first0 == [factor |-> number, found |-> << >>]
           Is(h) == h = [k \in 1 .. last |-> IF k = 1 THEN first0
                                             ELSE Number!Tried(h[k - 1], k, primes)]
           H == CHOOSE h : Is(h)
           end == H[last]
           factors == Number!manage_output(number)
<1>0. range \in Nat /\ last \in Nat /\ last >= 2 /\ range = last + 1
  BY SMT DEF Number!FactorsAssumption
<1>1. factors = IF number = 1 THEN << <<1, 1>> >>
                ELSE IF end.factor = 1 THEN end.found
                ELSE Append(end.found, <<end.factor, 1>>)
  BY Zenon DEF Number!manage_output, Number!LastTried
<1>2. ASSUME NEW s \in S, NEW k \in 1 .. last
      PROVE  k # 1 => Number!Tried(s, k, primes) \in S
  <2>1. SUFFICES ASSUME k # 1 PROVE Number!Tried(s, k, primes) \in S
    BY Zenon
  <2> DEFINE f == s.factor
  <2>2. f \in Nat \ {0} /\ k \in Nat /\ k > 1 /\ s.found \in Seq(Pairs)
    <3>1. k \in Nat /\ k > 1
      BY <1>0, <2>1
    <3> QED
      BY <3>1, Zenon
  <2>3. \E e \in Nat : \E w \in Nat \ {0} :
            Number!Times(f, k) = e /\ Number!Without(f, k) = w
    BY <2>2, DividedOut, Zenon DEF DividesOut
  <2>4. <<k, Number!Times(f, k)>> \in Pairs /\ Number!Without(f, k) \in Nat \ {0}
    BY <2>2, <2>3, Zenon DEF Pairs
  <2> DEFINE c == <<k, Number!Times(f, k)>>
             w == Number!Without(f, k)
  <2>5. Number!Tried(s, k, primes) = IF f # 1 /\ k \in primes /\ f % k = 0
            THEN [factor |-> w, found |-> Append(s.found, c)] ELSE s
    BY Zenon DEF Number!Tried
  <2> HIDE DEF c, w, f, primes
  <2>6. Append(s.found, c) \in Seq(Pairs)
    <3>1. c \in Pairs
      BY <2>4, Zenon DEF c
    <3> QED
      BY <2>2, <3>1
  <2>7. [factor |-> w, found |-> Append(s.found, c)] \in S
    BY <2>4, <2>6, Zenon DEF w
  <2> QED
    BY <2>5, <2>7, Zenon
<1> HIDE DEF primes
<1>3. first0 \in S
  OBVIOUS
<1>4. \E h : Is(h)
  <2> DEFINE b == [k \in 1 .. last |-> first0]
             g == [k \in 1 .. last |-> [s \in S |->
                     IF k = 1 THEN s ELSE Number!Tried(s, k, primes)]]
             d == [k \in 1 .. last |-> k - 1]
  <2> HIDE DEF S
  <2>1. b \in [1 .. last -> S]
    BY <1>3, Zenon
  <2>2. g \in [1 .. last -> [S -> S]]
    BY <1>2, Zenon
  <2>3. d \in [1 .. last -> Nat] /\ \A k \in 1 .. last : d[k] < k
    BY <1>0, SMT
  <2>4. \A k \in 1 .. last :
           /\ b[k] = first0 /\ d[k] = k - 1
           /\ \A s \in S : k # 1 => g[k][s] = Number!Tried(s, k, primes)
    BY Zenon
  <2> HIDE DEF b, g, d, first0, last
  <2>5. PICK f \in [1 .. last -> S] : GoesBack(b, g, d, last, f)
    BY <1>0, <2>1, <2>2, <2>3, BackwardExists, Zenon
  <2> DEFINE e == [k \in 1 .. last |-> IF k = 1 THEN first0
                                       ELSE Number!Tried(f[k - 1], k, primes)]
  <2>6. ASSUME NEW k \in 1 .. last
        PROVE  f[k] = e[k]
    <3>1. f[k] = IF d[k] = 0 THEN b[k] ELSE g[k][f[d[k]]]
      BY <2>5, Zenon DEF GoesBack
    <3>2. (k = 1 <=> k - 1 = 0) /\ (k # 1 => k - 1 \in 1 .. last)
      BY <1>0
    <3>3. k # 1 => f[k - 1] \in S
      BY <3>2, Zenon
    <3>4. e[k] = IF k = 1 THEN first0 ELSE Number!Tried(f[k - 1], k, primes)
      BY Zenon
    <3> HIDE DEF e
    <3>5. k = 1 => f[k] = first0 /\ e[k] = first0
      BY <2>4, <3>1, <3>2, <3>4, Zenon
    <3>6. k # 1 => f[k] = g[k][f[k - 1]]
      BY <2>4, <3>1, <3>2, Zenon
    <3>7. k # 1 => f[k] = Number!Tried(f[k - 1], k, primes)
      BY <2>4, <3>3, <3>6, Zenon
    <3>8. k # 1 => e[k] = Number!Tried(f[k - 1], k, primes)
      BY <3>4, Zenon
    <3>9. k = 1 => f[k] = e[k]
      BY <3>5, Zenon
    <3>10. k # 1 => f[k] = e[k]
      BY <3>7, <3>8, Zenon
    <3> QED
      BY <3>9, <3>10, Zenon
  <2>7. f = [k \in 1 .. last |-> f[k]]
    BY Zenon
  <2>8. f = e
    BY <2>6, <2>7, Zenon
  <2> QED
    BY <2>8, Zenon
<1>5. Is(H)
  BY <1>4, Zenon
<1> HIDE DEF H
<1>6. H[1] = first0 /\ \A k \in 2 .. last : H[k] = Number!Tried(H[k - 1], k, primes)
  <2>1. 1 \in 1 .. last /\ \A k \in 2 .. last : k \in 1 .. last /\ k # 1
    BY <1>0
  <2> QED
    BY <1>5, <2>1, Zenon
<1>7. Factored(first0, 1, number)
  <2>1. 2 .. 1 = {} /\ DOMAIN << >> = {} /\ << >> \in Seq(Pairs) /\ 1 .. Len(<< >>) - 1 = {}
        /\ number = 1 * number
    BY SMT
  <2>2. Number!Product(<< >>) = 1
    BY ProductIs, Zenon
  <2>3. first0.factor = number /\ first0.found = << >>
    BY Zenon
  <2>4. Ascends(<< >>)
    BY <2>1, Zenon DEF Ascends
  <2> HIDE DEF first0
  <2> QED
    BY <2>1, <2>2, <2>3, <2>4, Zenon DEF Factored
<1> HIDE DEF first0
<1>8. Factored(end, last, number)
  <2> DEFINE P == {k \in 0 .. last : k = 0 \/ Factored(H[k], k, number)}
  <2> HIDE DEF last
  <2>1. 0 \in P
    BY <1>0
  <2>2. \A k \in 1 .. last : k - 1 \in P => k \in P
    <3> TAKE k \in 1 .. last
    <3> HAVE k - 1 \in P
    <3>1. k \in 0 .. last /\ (k = 1 \/ (k \in 2 .. last /\ k \in 2 .. range - 1 /\ k - 1 # 0))
      BY <1>0
    <3>2. CASE k = 1
      BY <1>6, <1>7, <3>1, <3>2, Zenon
    <3>3. CASE k \in 2 .. last /\ k \in 2 .. range - 1 /\ k - 1 # 0
      <4>1. Factored(H[k - 1], k - 1, number)
        BY <3>3, Zenon
      <4>2. H[k] = Number!Tried(H[k - 1], k, primes)
        BY <1>6, <3>3, Zenon
      <4>3. Factored(H[k], k, number)
        BY <3>3, <4>1, <4>2, TriedFactors, Zenon DEF primes
      <4> QED
        BY <3>1, <4>3, Zenon
    <3> QED
      BY <3>1, <3>2, <3>3, Zenon
  <2>3. last \in P
    <3> HIDE DEF P
    <3> QED
      BY <1>0, <2>1, <2>2, Induction, Zenon
  <2>4. last # 0
    BY <1>0
  <2> QED
    BY <2>3, <2>4, Zenon
<1> HIDE DEF end, factors
<1> DEFINE x == Number!Product(end.found)
<1>9. /\ end.factor \in Nat \ {0} /\ end.found \in Seq(Pairs)
      /\ number = x * end.factor
      /\ \A d \in 2 .. last : end.factor % d # 0
      /\ \A i \in DOMAIN end.found : /\ end.found[i][1] \in 2 .. last
                                     /\ Number!Prime(end.found[i][1])
      /\ Ascends(end.found)
  BY <1>8, Zenon DEF Factored
<1>10. x \in Nat
  BY <1>9, ProductIs, Zenon
<1> HIDE DEF x
<1>11. CASE number = 1
  <2> DEFINE w == << <<1, 1>> >>
  <2>1. factors = w
    BY <1>1, <1>11, Zenon
  <2>2. << >> \in Seq(Pairs) /\ <<1, 1>> \in Pairs /\ Append(<< >>, <<1, 1>>) = w
    BY DEF Pairs
  <2>3. Number!Product(w) = 1 * Number!Power(1, 1)
    <3>1. <<1, 1>>[1] = 1 /\ <<1, 1>>[2] = 1
      OBVIOUS
    <3>2. Number!Product(Append(<< >>, <<1, 1>>)) = 1 * Number!Power(<<1, 1>>[1], <<1, 1>>[2])
      BY <2>2, ProductIs, Zenon
    <3> QED
      BY <2>2, <3>1, <3>2, Zenon
  <2>4. Number!Power(1, 1) = 1
    <3>1. 0 \in Nat /\ 1 \in Nat /\ 0 + 1 = 1 /\ 1 * 1 = 1
      OBVIOUS
    <3> QED
      BY <3>1, PowerIs, Zenon
  <2>5. Len(w) = 1 /\ 1 * 1 = 1 /\ 1 .. 1 - 1 = {} /\ 1 \notin 2 .. range * range - 1
    BY SMT
  <2> HIDE DEF w
  <2>6. Number!Product(factors) = number
    BY <1>11, <2>1, <2>3, <2>4, <2>5, Zenon
  <2>7. \A i \in 1 .. Len(factors) - 1 : factors[i][1] < factors[i + 1][1]
    BY <2>1, <2>5, Zenon
  <2> QED
    BY <1>11, <2>5, <2>6, <2>7, Zenon DEF Number!FactorsRight, factors
<1>12. CASE number # 1 /\ end.factor = 1
  <2>1. factors = end.found
    BY <1>1, <1>12, Zenon
  <2>2. number = x
    BY <1>9, <1>10, <1>12
  <2> QED
    BY <1>9, <2>1, <2>2, Zenon DEF Number!FactorsRight, Ascends, factors, x
<1>13. CASE number # 1 /\ end.factor # 1
  <2> DEFINE p == end.factor
             w == Append(end.found, <<p, 1>>)
  <2>1. factors = w
    BY <1>1, <1>13, Zenon
  <2>2. p \in Nat \ {0} /\ p > 1 /\ p \in Nat
    BY <1>9, <1>13
  <2>3. p > last
    <3>1. p % p = 0
      <4>1. 1 \in Nat /\ p = 1 * p
        BY <2>2
      <4> HIDE DEF p
      <4> QED
        BY <2>2, <4>1, MultipleOf, Zenon
    <3>2. p \notin 2 .. last
      BY <1>9, <3>1, Zenon
    <3> HIDE DEF p
    <3> QED
      BY <1>0, <2>2, <3>2
  <2>4. \A i \in DOMAIN end.found : end.found[i][1] < p
    <3>1. \A y \in 2 .. last : y < p
      <4> HIDE DEF p
      <4> QED
        BY <1>0, <2>2, <2>3
    <3> QED
      BY <1>9, <3>1, Zenon
  <2>5. 0 \in Nat /\ 1 \in Nat /\ 0 + 1 = 1
    OBVIOUS
  <2>6. /\ Number!Product(w) = x * Number!Power(p, 1)
        /\ Ascends(w)
        /\ \A i \in DOMAIN w : (i \in DOMAIN end.found /\ w[i] = end.found[i]) \/ w[i][1] = p
    <3> HIDE DEF p
    <3>1. Extends(end.found, w, p, 1)
      BY <1>9, <2>2, <2>4, <2>5, FactorAppend, Zenon
    <3> HIDE DEF w
    <3> QED
      BY <3>1, Zenon DEF x, Extends
  <2>7. Number!Power(p, 1) = p
    <3>1. Number!Power(p, 0) = 1 /\ Number!Power(p, 0 + 1) = p * Number!Power(p, 0)
      BY <2>2, <2>5, PowerIs, Zenon
    <3>2. p * 1 = p
      <4> HIDE DEF p
      <4> QED
        BY <2>2
    <3> QED
      BY <2>5, <3>1, <3>2, Zenon
  <2>8. Number!Product(w) = number
    BY <1>9, <2>6, <2>7, Zenon
  <2>9. p <= number
    <3>1. number = x * p
      BY <1>9, Zenon
    <3>2. x # 0
      <4>1. SUFFICES ASSUME x = 0 PROVE FALSE
        BY Zenon
      <4>2. number = 0 * p
        BY <3>1, <4>1, Zenon
      <4> QED
        BY <2>2, <4>2
    <3> HIDE DEF p
    <3>3. PICK e \in Nat : x = 1 + e
      <4>1. x - 1 \in Nat /\ x = 1 + (x - 1)
        BY <1>10, <3>2
      <4> QED
        BY <4>1, Zenon
    <3>4. x * p = p + e * p /\ e * p \in Nat
      BY <2>2, <3>3, SMT
    <3> DEFINE y == e * p
    <3>5. number = p + y /\ y \in Nat
      BY <3>1, <3>4, Zenon
    <3> HIDE DEF y
    <3> QED
      BY <2>2, <3>5
  <2>10. number \in 2 .. range * range - 1 => Number!Prime(p)
    <3>1. SUFFICES ASSUME number \in 2 .. range * range - 1 PROVE Number!Prime(p)
      BY Zenon
    <3> DEFINE y == range * range
    <3>2. y \in Nat
      BY <1>0, SMT
    <3>3. p < y
      <4> HIDE DEF y, p
      <4>1. number \in 2 .. y - 1
        BY <3>1, Zenon DEF y
      <4> QED
        BY <2>2, <2>9, <3>2, <4>1
    <3>4. p < range * range
      BY <3>3, Zenon
    <3>5. \A d \in 2 .. range - 1 : p % d # 0
      BY <1>9, Zenon
    <3> QED
      BY <1>0, <2>2, <3>4, <3>5, RestIsPrime, Zenon
  <2> HIDE DEF w, p
  <2>11. \A i \in 1 .. Len(w) - 1 : w[i][1] < w[i + 1][1]
    BY <2>6, Zenon DEF Ascends
  <2>12. number \in 2 .. range * range - 1 => \A i \in DOMAIN w : Number!Prime(w[i][1])
    BY <1>9, <2>6, <2>10, Zenon
  <2> QED
    BY <2>1, <2>8, <2>11, <2>12, Zenon DEF Number!FactorsRight, factors
<1> QED
  BY <1>11, <1>12, <1>13, Zenon

(* A number is the product of what manage_output prints, primes in         *)
(* ascending order, and divide divides: for any number and any digits, and *)
(* any size of the sieve.                                                  *)
THEOREM FactorsAreFound ==
  ASSUME program = "number" => problem \in Nat \ {0},
         program = "quotient" => problem \in Seq(0 .. 9) \X (Nat \ {0})
  PROVE  FactorsRight
<1>1. Number!FactorsAssumption
  BY ProgramsAssumption, Zenon
<1>2. program = "number" => Number!FactorsRight(problem)
  BY <1>1, FactorsAreRight, Zenon
<1>3. program = "quotient" => Number!QuotientRight(problem[1], problem[2])
  BY QuotientIsRight, Zenon
<1> QED
  BY <1>2, <1>3, Zenon DEF FactorsRight

-----------------------------------------------------------------------------
(* The expressions of matrices                                             *)

(* Matrices of r rows and c columns, and what an expression may come to.   *)
MatrixOf(r, c) == [1 .. r -> [1 .. c -> Int]]
IsMatrix(M) == \E r, c \in Nat \ {0} : M \in MatrixOf(r, c)
IsResult(M) == M = Matrix!Error \/ IsMatrix(M)

(* The size of such a matrix.                                              *)
LEMMA MatrixSize ==
  ASSUME NEW r \in Nat \ {0}, NEW c \in Nat \ {0}, NEW M \in MatrixOf(r, c)
  PROVE  Matrix!Rows(M) = r /\ Matrix!Columns(M) = c /\ M # Matrix!Error
<1>0. r \in Nat /\ c \in Nat /\ 1 \in 1 .. r
  OBVIOUS
<1>1. ASSUME NEW X, NEW n \in Nat, NEW f \in [1 .. n -> X]
      PROVE  Len(f) = n
  OBVIOUS
<1>2. M \in [1 .. r -> [1 .. c -> Int]]
  BY Zenon DEF MatrixOf
<1>3. M[1] \in [1 .. c -> Int]
  BY <1>0, <1>2, Zenon
<1>4. Len(M) = r /\ Len(M[1]) = c
  BY <1>0, <1>1, <1>2, <1>3, Zenon
<1>5. Len(<< >>) = 0 /\ r # 0
  OBVIOUS
<1> QED
  BY <1>4, <1>5, Zenon DEF Matrix!Rows, Matrix!Columns, Matrix!Error

(* No such value stands for a matrix freed twice.                          *)
LEMMA NotFreedTwice ==
  ASSUME NEW M, IsResult(M)
  PROVE  M # Matrix!FreedTwice
<1>1. /\ Len(Matrix!FreedTwice) = 1 /\ Len(Matrix!FreedTwice[1]) = 0
      /\ Len(Matrix!Error) = 0
  BY DEF Matrix!FreedTwice, Matrix!Error
<1>2. 1 # 0 /\ 0 \notin Nat \ {0}
  OBVIOUS
<1>3. ASSUME NEW r \in Nat \ {0}, NEW c \in Nat \ {0}, M \in MatrixOf(r, c)
      PROVE  M # Matrix!FreedTwice
  <2>1. Len(M[1]) = c
    BY <1>3, MatrixSize, Zenon DEF Matrix!Columns
  <2> QED
    BY <1>1, <1>2, <2>1, Zenon
<1> QED
  BY <1>1, <1>2, <1>3, Zenon DEF IsResult, IsMatrix

(* A row by a column is a number.                                          *)
LEMMA SumType ==
  ASSUME NEW r \in Nat \ {0}, NEW c \in Nat \ {0}, NEW d \in Nat \ {0},
         NEW A \in MatrixOf(r, c), NEW B \in MatrixOf(c, d), NEW i \in 1 .. r, NEW k \in 1 .. d
  PROVE  Matrix!Sum(A, B, i, k) \in Int
<1> DEFINE x == [j \in 1 .. c |-> A[i][j] * B[j][k]]
           Is(h) == h = [j \in 0 .. c |-> IF j = 0 THEN 0 ELSE h[j - 1] + A[i][j] * B[j][k]]
           H == CHOOSE h : Is(h)
<1>1. Matrix!Sum(A, B, i, k) = H[c]
  <2>1. Matrix!Columns(A) = c
    BY MatrixSize, Zenon
  <2> QED
    BY <2>1, Zenon DEF Matrix!Sum
<1>2. \A j \in 1 .. c : A[i][j] * B[j][k] \in Int
  <2>1. ASSUME NEW j \in 1 .. c
        PROVE  A[i][j] \in Int /\ B[j][k] \in Int
    <3>1. A[i] \in [1 .. c -> Int] /\ B[j] \in [1 .. d -> Int]
      BY Zenon DEF MatrixOf
    <3> QED
      BY <3>1, Zenon
  <2>2. \A y, z \in Int : y * z \in Int
    BY SMT
  <2> QED
    BY <2>1, <2>2, Zenon
<1>3. \E h : Is(h)
  <2> DEFINE g == [j \in 1 .. c |-> [y \in Int |-> y + A[i][j] * B[j][k]]]
  <2>1. g \in [1 .. c -> [Int -> Int]]
    <3>1. \A j \in 1 .. c : \A y \in Int : y + A[i][j] * B[j][k] \in Int
      <4>1. \A y, z \in Int : y + z \in Int
        BY SMT
      <4> QED
        BY <1>2, <4>1, Zenon
    <3> QED
      BY <3>1, Zenon
  <2>2. \A j \in 1 .. c : \A y \in Int : g[j][y] = y + A[i][j] * B[j][k]
    BY Zenon
  <2>3. 0 \in Int /\ c \in Nat
    OBVIOUS
  <2> HIDE DEF g
  <2>4. PICK f \in [0 .. c -> Int] : Iterates(0, g, c, f)
    BY <2>1, <2>3, IterationExists, Zenon
  <2> DEFINE e == [j \in 0 .. c |-> IF j = 0 THEN 0 ELSE f[j - 1] + A[i][j] * B[j][k]]
  <2>5. ASSUME NEW j \in 0 .. c
        PROVE  f[j] = e[j]
    <3>1. f[j] = IF j = 0 THEN 0 ELSE g[j][f[j - 1]]
      BY <2>4, Zenon DEF Iterates
    <3>2. j # 0 => j \in 1 .. c /\ j - 1 \in 0 .. c
      OBVIOUS
    <3>3. j # 0 => f[j - 1] \in Int
      BY <3>2, Zenon
    <3>4. e[j] = IF j = 0 THEN 0 ELSE f[j - 1] + A[i][j] * B[j][k]
      BY Zenon
    <3> HIDE DEF e
    <3>5. j # 0 => f[j] = f[j - 1] + A[i][j] * B[j][k]
      BY <2>2, <3>1, <3>2, <3>3, Zenon
    <3>6. j # 0 => f[j] = e[j]
      BY <3>4, <3>5, Zenon
    <3>7. j = 0 => f[j] = e[j]
      BY <3>1, <3>4, Zenon
    <3> QED
      BY <3>6, <3>7, Zenon
  <2>6. f = [j \in 0 .. c |-> f[j]]
    BY Zenon
  <2>7. f = e
    BY <2>5, <2>6, Zenon
  <2> QED
    BY <2>7, Zenon
<1>4. Is(H)
  BY <1>3, Zenon
<1> HIDE DEF H
<1> DEFINE P == {j \in 0 .. c : H[j] \in Int}
<1>5. 0 \in 0 .. c /\ c \in Nat /\ 0 \in Int /\ \A j \in 1 .. c : j \in 0 .. c /\ j # 0
  OBVIOUS
<1>6. H[0] = 0 /\ \A j \in 1 .. c : H[j] = H[j - 1] + A[i][j] * B[j][k]
  BY <1>4, <1>5, Zenon
<1>7. 0 \in P
  BY <1>5, <1>6, Zenon
<1>8. \A j \in 1 .. c : j - 1 \in P => j \in P
  <2> TAKE j \in 1 .. c
  <2> HAVE j - 1 \in P
  <2>1. \A y, z \in Int : y + z \in Int
    BY SMT
  <2>2. H[j - 1] \in Int
    BY Zenon
  <2> QED
    BY <1>2, <1>5, <1>6, <2>1, <2>2, Zenon
<1>9. c \in P
  <2> HIDE DEF P
  <2> QED
    BY <1>5, <1>7, <1>8, Induction, Zenon
<1> QED
  BY <1>1, <1>9, Zenon

(* A product is a matrix, or an error.                                     *)
LEMMA MultType ==
  ASSUME NEW A, NEW B, IsResult(A), IsResult(B)
  PROVE  IsResult(Matrix!mult(A, B))
<1>1. CASE A = Matrix!Error \/ B = Matrix!Error \/ Matrix!Columns(A) # Matrix!Rows(B)
  BY <1>1, Zenon DEF IsResult, Matrix!mult
<1>2. CASE /\ A # Matrix!Error /\ B # Matrix!Error
           /\ Matrix!Columns(A) = Matrix!Rows(B)
  <2>1. PICK r, c \in Nat \ {0} : A \in MatrixOf(r, c)
    BY <1>2, Zenon DEF IsResult, IsMatrix
  <2>2. PICK e, d \in Nat \ {0} : B \in MatrixOf(e, d)
    BY <1>2, Zenon DEF IsResult, IsMatrix
  <2>3. /\ Matrix!Rows(A) = r /\ Matrix!Columns(A) = c
        /\ Matrix!Rows(B) = e /\ Matrix!Columns(B) = d /\ e = c
    <3>1. Matrix!Rows(A) = r /\ Matrix!Columns(A) = c
      BY <2>1, MatrixSize, Zenon
    <3>2. Matrix!Rows(B) = e /\ Matrix!Columns(B) = d
      BY <2>2, MatrixSize, Zenon
    <3> QED
      BY <1>2, <3>1, <3>2, Zenon
  <2>4. Matrix!mult(A, B) = [i \in 1 .. r |-> [k \in 1 .. d |-> Matrix!Sum(A, B, i, k)]]
    BY <1>2, <2>3, Zenon DEF Matrix!mult
  <2>5. \A i \in 1 .. r : \A k \in 1 .. d : Matrix!Sum(A, B, i, k) \in Int
    BY <2>1, <2>2, <2>3, SumType, Zenon
  <2>6. Matrix!mult(A, B) \in MatrixOf(r, d)
    <3> DEFINE x == [i \in 1 .. r |-> [k \in 1 .. d |-> Matrix!Sum(A, B, i, k)]]
    <3>1. x \in [1 .. r -> [1 .. d -> Int]]
      BY <2>5
    <3> QED
      BY <2>4, <3>1, Zenon DEF MatrixOf
  <2> QED
    BY <2>6, Zenon DEF IsResult, IsMatrix
<1> QED
  BY <1>1, <1>2, Zenon

(* An operand more makes a product of a term.                              *)
LEMMA TermIs ==
  ASSUME NEW operands, NEW first0 \in Nat
  PROVE  /\ Matrix!Term(operands, first0, first0) = operands[first0]
         /\ \A m \in Nat : m >= first0 =>
              Matrix!Term(operands, first0, m + 1) =
                Matrix!mult(Matrix!Term(operands, first0, m), operands[m + 1])
<1> DEFINE Is(m, h) == h = [k \in 0 .. m |-> IF k = 0 THEN operands[first0]
                                  ELSE Matrix!mult(h[k - 1], operands[first0 + k])]
           H(m) == CHOOSE h : Is(m, h)
           T(m) == Matrix!Term(operands, first0, m)
<1>1. \A m : T(m) = H(m - first0)[m - first0]
  BY Zenon DEF Matrix!Term
<1>2. ASSUME NEW m \in Nat
      PROVE  \E f : Is(m, f)
  <2> DEFINE P == {n \in 0 .. m : \E f : Is(n, f)}
  <2>1. 0 \in P
    <3> DEFINE e == [k \in 0 .. 0 |-> operands[first0]]
    <3>1. \A k \in 0 .. 0 : k = 0
      BY SMT
    <3>2. e = [k \in 0 .. 0 |-> IF k = 0 THEN operands[first0]
                                ELSE Matrix!mult(e[k - 1], operands[first0 + k])]
      BY <3>1, Zenon
    <3>3. 0 \in 0 .. m
      OBVIOUS
    <3> QED
      BY <3>2, <3>3, Zenon
  <2>2. \A n \in 1 .. m : n - 1 \in P => n \in P
    <3> TAKE n \in 1 .. m
    <3> HAVE n - 1 \in P
    <3>1. PICK f : Is(n - 1, f)
      BY Zenon
    <3> DEFINE last == Matrix!mult(f[n - 1], operands[first0 + n])
               h == [k \in 0 .. n |-> IF k = n THEN last ELSE f[k]]
               h1 == [k \in 0 .. n |-> IF k = 0 THEN operands[first0]
                                       ELSE Matrix!mult(h[k - 1], operands[first0 + k])]
    <3>2. n # 0 /\ n \in 0 .. m
      OBVIOUS
    <3>3. ASSUME NEW k \in 0 .. n
          PROVE  h[k] = h1[k]
      <4>1. k # 0 => k - 1 \in 0 .. n /\ k - 1 # n
        OBVIOUS
      <4>2. k # 0 => h[k - 1] = f[k - 1]
        BY <4>1, Zenon
      <4>3. k # n => k \in 0 .. n - 1
        OBVIOUS
      <4>4. k # n => f[k] = IF k = 0 THEN operands[first0]
                            ELSE Matrix!mult(f[k - 1], operands[first0 + k])
        BY <3>1, <4>3, Zenon
      <4>5. h1[k] = IF k = 0 THEN operands[first0]
                    ELSE Matrix!mult(h[k - 1], operands[first0 + k])
        BY Zenon
      <4>6. h[k] = IF k = n THEN Matrix!mult(f[n - 1], operands[first0 + n]) ELSE f[k]
        BY Zenon
      <4> HIDE DEF h, h1
      <4>7. k = n => h[k] = h1[k]
        BY <3>2, <4>2, <4>5, <4>6, Zenon
      <4>8. k = 0 => h[k] = h1[k]
        BY <3>2, <4>4, <4>5, <4>6, Zenon
      <4>9. k # n /\ k # 0 => h[k] = h1[k]
        BY <4>2, <4>4, <4>5, <4>6, Zenon
      <4> QED
        BY <4>7, <4>8, <4>9, Zenon
    <3>4. h = h1
      BY <3>3, Zenon
    <3>5. Is(n, h)
      BY <3>4, Zenon
    <3> HIDE DEF h, Is
    <3> QED
      BY <3>2, <3>5, Zenon
  <2>3. m \in P
    <3> HIDE DEF P
    <3> QED
      BY <2>1, <2>2, Induction, Zenon
  <2> QED
    BY <2>3, Zenon
<1>3. ASSUME NEW m \in Nat
      PROVE  /\ H(m)[0] = operands[first0]
             /\ \A k \in 1 .. m : H(m)[k] = Matrix!mult(H(m)[k - 1], operands[first0 + k])
  <2> DEFINE h == H(m)
  <2>1. Is(m, h)
    BY <1>2, Zenon
  <2> HIDE DEF h
  <2>2. 0 \in 0 .. m /\ \A k \in 1 .. m : k \in 0 .. m /\ k # 0
    OBVIOUS
  <2>3. /\ h[0] = operands[first0]
        /\ \A k \in 1 .. m : h[k] = Matrix!mult(h[k - 1], operands[first0 + k])
    BY <2>1, <2>2, Zenon
  <2> QED
    BY <2>3, Zenon DEF h
<1> HIDE DEF H
<1>4. ASSUME NEW n \in Nat
      PROVE  H(n + 1)[n + 1] = Matrix!mult(H(n)[n], operands[first0 + (n + 1)])
  <2> DEFINE f == H(n)
             m == n + 1
             g == H(m)
             P == {k \in 0 .. n : g[k] = f[k]}
  <2>0. m \in Nat /\ m - 1 = n /\ m \in 1 .. m /\ 0 \in 0 .. n
        /\ \A k \in 1 .. n : k \in 0 .. n /\ k \in 1 .. m
    OBVIOUS
  <2>1. /\ f[0] = operands[first0]
        /\ \A k \in 1 .. n : f[k] = Matrix!mult(f[k - 1], operands[first0 + k])
        /\ g[0] = operands[first0]
        /\ \A k \in 1 .. m : g[k] = Matrix!mult(g[k - 1], operands[first0 + k])
    BY <1>3, <2>0, Zenon
  <2> HIDE DEF f, g, m
  <2>2. 0 \in P
    BY <2>0, <2>1, Zenon
  <2>3. \A k \in 1 .. n : k - 1 \in P => k \in P
    <3> TAKE k \in 1 .. n
    <3> HAVE k - 1 \in P
    <3>1. g[k - 1] = f[k - 1]
      BY Zenon
    <3>2. g[k] = f[k]
      BY <2>0, <2>1, <3>1, Zenon
    <3> QED
      BY <2>0, <3>2, Zenon
  <2>4. n \in P
    <3> HIDE DEF P
    <3> QED
      BY <2>2, <2>3, Induction, Zenon
  <2>5. g[n] = f[n]
    BY <2>4, Zenon
  <2>6. g[m] = Matrix!mult(g[m - 1], operands[first0 + m])
    BY <2>0, <2>1, Zenon
  <2>7. g[m] = Matrix!mult(f[n], operands[first0 + m])
    BY <2>0, <2>5, <2>6, Zenon
  <2> QED
    BY <2>7, Zenon DEF f, g, m
<1>5. T(first0) = operands[first0]
  <2>1. first0 - first0 = 0 /\ 0 \in Nat
    OBVIOUS
  <2> QED
    BY <1>1, <1>3, <2>1, Zenon
<1>6. ASSUME NEW m \in Nat, m >= first0
      PROVE  T(m + 1) = Matrix!mult(T(m), operands[m + 1])
  <2> HIDE DEF T
  <2> DEFINE n == m - first0
             l == m + 1
             k == l - first0
  <2>1. n \in Nat /\ k = n + 1 /\ first0 + (n + 1) = l
    BY <1>6
  <2>2. T(m) = H(n)[n]
    BY <1>1, Zenon
  <2> HIDE DEF n
  <2>3. T(l) = H(k)[k]
    <3> HIDE DEF l
    <3> QED
      BY <1>1, Zenon
  <2> HIDE DEF k, l
  <2>4. H(n + 1)[n + 1] = Matrix!mult(H(n)[n], operands[first0 + (n + 1)])
    BY <1>4, <2>1, Zenon
  <2>5. T(l) = Matrix!mult(T(m), operands[l])
    BY <2>1, <2>2, <2>3, <2>4, Zenon
  <2> QED
    BY <2>5, Zenon DEF l
<1> QED
  BY <1>5, <1>6, Zenon

(* An expression: as many operators as there are operands but one.         *)
Signs == {"+", "-", "*"}
ExpressionOf(n, operands, operators) ==
  /\ operators \in [1 .. n -> Signs] /\ Len(operators) = n /\ Len(operands) = n + 1
  /\ \A i \in 1 .. n + 1 : IsMatrix(operands[i])

(* Terms begin with the first operand and behind a sum or a difference.    *)
LEMMA BeginsAre ==
  ASSUME NEW n \in Nat \ {0}, NEW operands, NEW operators,
         ExpressionOf(n, operands, operators), NEW k
  PROVE  k \in Matrix!Begins(operators) <=>
           k = 1 \/ (k \in 2 .. n + 1 /\ operators[k - 1] # "*")
<1>1. DOMAIN operators = 1 .. n
  BY Zenon DEF ExpressionOf
<1>2. k \in Matrix!Begins(operators) <=>
        k = 1 \/ \E i \in 1 .. n : operators[i] # "*" /\ k = i + 1
  BY <1>1, Zenon DEF Matrix!Begins
<1>3. \A i \in 1 .. n : i + 1 \in 2 .. n + 1 /\ i + 1 - 1 = i
  OBVIOUS
<1>4. k \in 2 .. n + 1 => k - 1 \in 1 .. n /\ k = k - 1 + 1
  OBVIOUS
<1>5. ASSUME NEW i \in 1 .. n, operators[i] # "*", k = i + 1
      PROVE  k \in 2 .. n + 1 /\ operators[k - 1] # "*"
  <2>1. k - 1 = i
    BY <1>5
  <2> QED
    BY <1>3, <1>5, <2>1, Zenon
<1>6. k \in Matrix!Begins(operators) =>
        k = 1 \/ (k \in 2 .. n + 1 /\ operators[k - 1] # "*")
  BY <1>2, <1>5, Zenon
<1>7. k \in 2 .. n + 1 /\ operators[k - 1] # "*" => k \in Matrix!Begins(operators)
  BY <1>2, <1>4, Zenon
<1> QED
  BY <1>2, <1>6, <1>7, Zenon

(* No term begins between b and e.                                         *)
NoneBetween(operators, b, e) == \A k \in Matrix!Begins(operators) : ~(b < k /\ k < e)

(* The next term begins at e, or none does.                                *)
NextIs(n, operators, b, e) ==
  /\ b \in Matrix!Begins(operators) /\ e \in b + 1 .. n + 2
  /\ e = n + 2 \/ e \in Matrix!Begins(operators)
  /\ NoneBetween(operators, b, e)

(* The term that begins at b goes as far as that.                          *)
LEMMA TermReaches ==
  ASSUME NEW n \in Nat \ {0}, NEW operands, NEW operators,
         ExpressionOf(n, operands, operators), NEW b, NEW e, NextIs(n, operators, b, e)
  PROVE  Matrix!TermAt(operands, operators, b) = Matrix!Term(operands, b, e - 1)
<1> DEFINE later == {k \in Matrix!Begins(operators) : k > b}
           least == CHOOSE k \in later : \A c \in later : k <= c
           last == IF later = {} THEN Len(operands) ELSE least - 1
<1>1. /\ b \in Matrix!Begins(operators) /\ e \in b + 1 .. n + 2
      /\ e = n + 2 \/ e \in Matrix!Begins(operators)
      /\ NoneBetween(operators, b, e)
  BY Zenon DEF NextIs
<1>2. \A k \in Matrix!Begins(operators) : k \in 1 .. n + 1
  <2>1. 1 \in 1 .. n + 1 /\ \A k \in 2 .. n + 1 : k \in 1 .. n + 1
    OBVIOUS
  <2> QED
    BY <2>1, BeginsAre, Zenon
<1>3. Matrix!TermAt(operands, operators, b) = Matrix!Term(operands, b, last)
  BY Zenon DEF Matrix!TermAt
<1>4. b \in 1 .. n + 1 /\ e \in Nat /\ b < e
  <2>1. b \in 1 .. n + 1
    BY <1>1, <1>2, Zenon
  <2> QED
    BY <1>1, <2>1
<1>5. CASE e = n + 2
  <2>1. ASSUME NEW k \in later PROVE FALSE
    <3>1. k \in Matrix!Begins(operators) /\ k > b /\ k \in 1 .. n + 1
      BY <1>2, Zenon
    <3>2. b < k /\ k < e
      BY <1>4, <1>5, <3>1
    <3> QED
      BY <1>1, <3>1, <3>2, Zenon DEF NoneBetween
  <2>2. last = n + 1
    BY <2>1, Zenon DEF ExpressionOf
  <2>3. e - 1 = n + 1
    BY <1>5
  <2> QED
    BY <1>3, <2>2, <2>3, Zenon
<1>6. CASE e \in Matrix!Begins(operators)
  <2>1. e > b
    BY <1>4
  <2>2. e \in later
    BY <1>6, <2>1, Zenon
  <2>3. ASSUME NEW c \in later
        PROVE  e <= c /\ c \in Nat
    <3>1. c \in Matrix!Begins(operators) /\ c > b /\ c \in 1 .. n + 1
      BY <1>2, Zenon
    <3>2. ~(b < c /\ c < e)
      BY <1>1, <3>1, Zenon DEF NoneBetween
    <3> QED
      BY <1>4, <3>1, <3>2
  <2>4. \E k \in later : \A c \in later : k <= c
    BY <2>2, <2>3, Zenon
  <2>5. least \in later /\ \A c \in later : least <= c
    BY <2>4, Zenon
  <2>6. last = least - 1
    BY <2>2, Zenon
  <2> HIDE DEF least, later
  <2>7. e <= least /\ least <= e /\ least \in Nat
    BY <2>2, <2>3, <2>5, Zenon
  <2>8. least = e
    BY <1>4, <2>7
  <2> QED
    BY <1>3, <2>6, <2>8, Zenon
<1> QED
  BY <1>1, <1>5, <1>6, Zenon

(* A term comes to a matrix, or is an error.                               *)
LEMMA TermType ==
  ASSUME NEW n \in Nat \ {0}, NEW operands, NEW operators,
         ExpressionOf(n, operands, operators),
         NEW b \in 1 .. n + 1, NEW m \in b .. n + 1
  PROVE  IsResult(Matrix!Term(operands, b, m))
<1> DEFINE P == {k \in 0 .. n : b + k <= n + 1 => IsResult(Matrix!Term(operands, b, b + k))}
<1>0. b \in Nat /\ m \in Nat /\ b + 0 = b /\ 0 \in 0 .. n /\ n \in Nat
  OBVIOUS
<1>1. \A i \in 1 .. n + 1 : IsResult(operands[i])
  BY Zenon DEF ExpressionOf, IsResult
<1>2. 0 \in P
  <2>1. IsResult(Matrix!Term(operands, b, b))
    BY <1>0, <1>1, TermIs, Zenon
  <2> QED
    BY <1>0, <2>1, Zenon
<1>3. \A k \in 1 .. n : k - 1 \in P => k \in P
  <2> TAKE k \in 1 .. n
  <2> HAVE k - 1 \in P
  <2> DEFINE l == b + (k - 1)
  <2>1. k \in 0 .. n /\ l \in Nat /\ l >= b /\ l + 1 = b + k
    BY <1>0
  <2>2. b + k <= n + 1 => l <= n + 1 /\ l + 1 \in 1 .. n + 1
    BY <1>0
  <2>3. l <= n + 1 => IsResult(Matrix!Term(operands, b, l))
    BY Zenon
  <2> HIDE DEF l
  <2>4. Matrix!Term(operands, b, l + 1) =
          Matrix!mult(Matrix!Term(operands, b, l), operands[l + 1])
    BY <1>0, <2>1, TermIs, Zenon
  <2>5. b + k <= n + 1 => IsResult(Matrix!Term(operands, b, l + 1))
    BY <1>1, <2>2, <2>3, <2>4, MultType, Zenon
  <2> QED
    BY <2>1, <2>5, Zenon
<1>4. \A k \in 0 .. n : k \in P
  <2> HIDE DEF P
  <2> QED
    BY <1>0, <1>2, <1>3, Induction, Zenon
<1>5. m - b \in 0 .. n /\ b + (m - b) = m /\ b + (m - b) <= n + 1
  BY <1>0
<1> DEFINE k == m - b
<1>6. k \in P /\ b + k = m /\ b + k <= n + 1
  BY <1>4, <1>5, Zenon
<1> HIDE DEF k
<1> QED
  BY <1>6, Zenon

(* The signed sums of the numbers in place i, j.                           *)
Partial(operands, operators, i, j) ==
  CHOOSE sum : sum = [b \in 0 .. Len(operands) |->
    IF b = 0 THEN 0
    ELSE IF b \in Matrix!Begins(operators)
           THEN sum[b - 1] + Matrix!Signed(operands, operators, b, i, j)
           ELSE sum[b - 1]]

(* What that says of a function.                                           *)
IsPartial(operands, operators, i, j, sum) ==
  /\ sum[0] = 0
  /\ \A b \in 1 .. Len(operands) :
       /\ b \in Matrix!Begins(operators) =>
            sum[b] = sum[b - 1] + Matrix!Signed(operands, operators, b, i, j)
       /\ b \notin Matrix!Begins(operators) => sum[b] = sum[b - 1]

(* They are that.                                                          *)
LEMMA PartialIs ==
  ASSUME NEW operands, NEW operators, Len(operands) \in Nat, NEW i, NEW j
  PROVE  /\ IsPartial(operands, operators, i, j, Partial(operands, operators, i, j))
         /\ Matrix!SignedSum(operands, operators, i, j) =
              Partial(operands, operators, i, j)[Len(operands)]
<1> DEFINE m == Len(operands)
           X(y, b) == IF b \in Matrix!Begins(operators)
                        THEN y + Matrix!Signed(operands, operators, b, i, j) ELSE y
           Is(l, h) == h = [b \in 0 .. l |-> IF b = 0 THEN 0 ELSE X(h[b - 1], b)]
           H == Partial(operands, operators, i, j)
<1>1. H = CHOOSE sum : Is(m, sum)
  BY Zenon DEF Partial
<1>2. Matrix!SignedSum(operands, operators, i, j) = H[m]
  BY Zenon DEF Matrix!SignedSum, Partial
<1> HIDE DEF m, H, X
<1>3. \E f : Is(m, f)
  <2> DEFINE P == {n \in 0 .. m : \E f : Is(n, f)}
  <2>0. m \in Nat /\ 0 \in 0 .. m
    BY DEF m
  <2>1. 0 \in P
    <3> DEFINE e == [k \in 0 .. 0 |-> 0]
    <3>1. \A k \in 0 .. 0 : k = 0
      BY SMT
    <3>2. e = [k \in 0 .. 0 |-> IF k = 0 THEN 0 ELSE X(e[k - 1], k)]
      BY <3>1, Zenon
    <3> QED
      BY <2>0, <3>2, Zenon
  <2>2. \A n \in 1 .. m : n - 1 \in P => n \in P
    <3> TAKE n \in 1 .. m
    <3> HAVE n - 1 \in P
    <3>1. PICK f : Is(n - 1, f)
      BY Zenon
    <3> DEFINE h == [k \in 0 .. n |-> IF k = n THEN X(f[n - 1], n) ELSE f[k]]
               h1 == [k \in 0 .. n |-> IF k = 0 THEN 0 ELSE X(h[k - 1], k)]
    <3>2. n # 0 /\ n \in 0 .. m
      BY <2>0
    <3>3. ASSUME NEW k \in 0 .. n
          PROVE  h[k] = h1[k]
      <4>1. k # 0 => k - 1 \in 0 .. n /\ k - 1 # n
        BY <2>0
      <4>2. k # 0 => h[k - 1] = f[k - 1]
        BY <4>1, Zenon
      <4>3. k # n => k \in 0 .. n - 1
        BY <2>0
      <4>4. k # n => f[k] = IF k = 0 THEN 0 ELSE X(f[k - 1], k)
        BY <3>1, <4>3, Zenon
      <4>5. h1[k] = IF k = 0 THEN 0 ELSE X(h[k - 1], k)
        BY Zenon
      <4>6. h[k] = IF k = n THEN X(f[n - 1], n) ELSE f[k]
        BY Zenon
      <4> HIDE DEF h, h1
      <4>7. k = n => h[k] = h1[k]
        BY <3>2, <4>2, <4>5, <4>6, Zenon
      <4>8. k = 0 => h[k] = h1[k]
        BY <3>2, <4>4, <4>5, <4>6, Zenon
      <4>9. k # n /\ k # 0 => h[k] = h1[k]
        BY <4>2, <4>4, <4>5, <4>6, Zenon
      <4> QED
        BY <4>7, <4>8, <4>9, Zenon
    <3>4. h = h1
      BY <3>3, Zenon
    <3>5. Is(n, h)
      BY <3>4, Zenon
    <3> HIDE DEF h, Is
    <3> QED
      BY <3>2, <3>5, Zenon
  <2>3. m \in P
    <3> HIDE DEF P
    <3> QED
      BY <2>0, <2>1, <2>2, Induction, Zenon
  <2> QED
    BY <2>3, Zenon
<1>4. Is(m, H)
  BY <1>1, <1>3, Zenon
<1>5. 0 \in 0 .. m /\ \A b \in 1 .. m : b \in 0 .. m /\ b # 0
  BY DEF m
<1>6. H[0] = 0 /\ \A b \in 1 .. m : H[b] = X(H[b - 1], b)
  BY <1>4, <1>5, Zenon
<1>7. ASSUME NEW b \in 1 .. m
      PROVE  /\ b \in Matrix!Begins(operators) =>
                  H[b] = H[b - 1] + Matrix!Signed(operands, operators, b, i, j)
             /\ b \notin Matrix!Begins(operators) => H[b] = H[b - 1]
  BY <1>6, Zenon DEF X
<1> QED
  BY <1>2, <1>6, <1>7, Zenon DEF m, H, IsPartial

(* They change where terms begin.                                          *)
LEMMA PartialRests ==
  ASSUME NEW n \in Nat \ {0}, NEW operands, NEW operators,
         ExpressionOf(n, operands, operators), NEW b \in 1 .. n + 1, NEW e \in b + 1 .. n + 2,
         NoneBetween(operators, b, e), NEW i, NEW j
  PROVE  Partial(operands, operators, i, j)[e - 1] = Partial(operands, operators, i, j)[b]
<1> DEFINE H == Partial(operands, operators, i, j)
           P == {k \in 0 .. n : b + k < e => H[b + k] = H[b]}
<1>0. /\ Len(operands) = n + 1 /\ Len(operands) \in Nat /\ n \in Nat /\ b \in Nat /\ e \in Nat
      /\ b + 0 = b /\ 0 \in 0 .. n
  <2>1. Len(operands) = n + 1
    BY Zenon DEF ExpressionOf
  <2> QED
    BY <2>1
<1>a. \A m \in 1 .. n + 1 : m \notin Matrix!Begins(operators) => H[m] = H[m - 1]
  <2>1. IsPartial(operands, operators, i, j, H)
    BY <1>0, PartialIs, Zenon
  <2> HIDE DEF H
  <2> QED
    BY <1>0, <2>1, Zenon DEF IsPartial
<1>1. 0 \in P
  BY <1>0, Zenon
<1>2. \A k \in 1 .. n : k - 1 \in P => k \in P
  <2> TAKE k \in 1 .. n
  <2> HAVE k - 1 \in P
  <2> DEFINE l == b + k
  <2>1. k \in 0 .. n /\ b + (k - 1) = l - 1
    BY <1>0
  <2>2. l < e => b + (k - 1) < e /\ b < l /\ l \in 1 .. n + 1
    BY <1>0
  <2>3. l < e => H[l - 1] = H[b]
    BY <2>1, <2>2, Zenon
  <2>4. l < e => l \notin Matrix!Begins(operators)
    BY <2>2, Zenon DEF NoneBetween
  <2> HIDE DEF l
  <2>5. l < e => H[l] = H[l - 1]
    BY <1>a, <2>2, <2>4, Zenon
  <2>6. l < e => H[l] = H[b]
    BY <2>3, <2>5, Zenon
  <2> QED
    BY <2>1, <2>6, Zenon DEF l
<1> HIDE DEF H
<1>3. \A k \in 0 .. n : k \in P
  <2> HIDE DEF P
  <2> QED
    BY <1>0, <1>1, <1>2, Induction, Zenon
<1> DEFINE k == e - 1 - b
<1>4. k \in 0 .. n /\ b + k = e - 1 /\ b + k < e
  BY <1>0
<1> HIDE DEF k
<1>5. H[b + k] = H[b]
  <2>1. k \in P
    BY <1>3, <1>4, Zenon
  <2> QED
    BY <1>4, <2>1, Zenon
<1>6. H[e - 1] = H[b]
  BY <1>4, <1>5, Zenon
<1> QED
  BY <1>6, Zenon DEF H

(* A matrix of the same size has as many rows and columns.                 *)
LEMMA MatrixLike ==
  ASSUME NEW r \in Nat \ {0}, NEW c \in Nat \ {0}, NEW A \in MatrixOf(r, c), NEW B,
         IsMatrix(B), Matrix!SameSize(A, B)
  PROVE  B \in MatrixOf(r, c)
<1>1. PICK d, e \in Nat \ {0} : B \in MatrixOf(d, e)
  BY Zenon DEF IsMatrix
<1>2. Matrix!Rows(A) = r /\ Matrix!Columns(A) = c
  BY MatrixSize, Zenon
<1>3. Matrix!Rows(B) = d /\ Matrix!Columns(B) = e
  BY <1>1, MatrixSize, Zenon
<1>4. d = r /\ e = c
  BY <1>2, <1>3, Zenon DEF Matrix!SameSize
<1> QED
  BY <1>1, <1>4, Zenon

(* A number of a matrix.                                                   *)
LEMMA MatrixAt ==
  ASSUME NEW r \in Nat \ {0}, NEW c \in Nat \ {0}, NEW M \in MatrixOf(r, c),
         NEW i \in 1 .. r, NEW j \in 1 .. c
  PROVE  M[i][j] \in Int
<1>1. M[i] \in [1 .. c -> Int]
  BY Zenon DEF MatrixOf
<1> QED
  BY <1>1, Zenon

(* The sum of two matrices, and their difference, number by number.        *)
LEMMA SumOfTwo ==
  ASSUME NEW r \in Nat \ {0}, NEW c \in Nat \ {0},
         NEW A \in MatrixOf(r, c), NEW B \in MatrixOf(r, c)
  PROVE  /\ Matrix!add(A, B) \in MatrixOf(r, c) /\ Matrix!sub(A, B) \in MatrixOf(r, c)
         /\ \A i \in 1 .. r, j \in 1 .. c :
              /\ Matrix!add(A, B)[i][j] = A[i][j] + B[i][j]
              /\ Matrix!sub(A, B)[i][j] = A[i][j] - B[i][j]
<1> DEFINE x == [i \in 1 .. r |-> [j \in 1 .. c |-> A[i][j] + B[i][j]]]
           y == [i \in 1 .. r |-> [j \in 1 .. c |-> A[i][j] - B[i][j]]]
<1>1. Matrix!Rows(A) = r /\ Matrix!Columns(A) = c
  BY MatrixSize, Zenon
<1>2. Matrix!add(A, B) = x /\ Matrix!sub(A, B) = y
  BY <1>1, Zenon DEF Matrix!add, Matrix!sub
<1>3. \A i \in 1 .. r, j \in 1 .. c : A[i][j] \in Int /\ B[i][j] \in Int
  BY MatrixAt, Zenon
<1>4. \A v, w \in Int : v + w \in Int /\ v - w \in Int
  BY SMT
<1>5. x \in [1 .. r -> [1 .. c -> Int]]
  BY <1>3, <1>4, Zenon
<1>6. y \in [1 .. r -> [1 .. c -> Int]]
  BY <1>3, <1>4, Zenon
<1>7. \A i \in 1 .. r, j \in 1 .. c : x[i][j] = A[i][j] + B[i][j] /\ y[i][j] = A[i][j] - B[i][j]
  BY Zenon
<1> HIDE DEF x, y
<1> QED
  BY <1>2, <1>5, <1>6, <1>7, Zenon DEF MatrixOf

(* A matrix that holds, in every place, the signed sum of the numbers of   *)
(* the terms that begin before e; an error, if one of them is one.         *)
SummedTo(operands, operators, e, M) ==
  \E r, c \in Nat \ {0} :
    /\ M \in MatrixOf(r, c) /\ Matrix!TermAt(operands, operators, 1) \in MatrixOf(r, c)
    /\ \A i \in 1 .. r, j \in 1 .. c : M[i][j] = Partial(operands, operators, i, j)[e - 1]
WrongBefore(operands, operators, e) ==
  \E b \in Matrix!Begins(operators) : b < e /\ Matrix!TermAt(operands, operators, b) = Matrix!Error
Summed(operands, operators, e, M) ==
  /\ WrongBefore(operands, operators, e) => M = Matrix!Error
  /\ ~WrongBefore(operands, operators, e) => SummedTo(operands, operators, e, M)

(* Where the term behind b begins, all before it is before b, or at b.     *)
LEMMA WrongOneMore ==
  ASSUME NEW n \in Nat \ {0}, NEW operands, NEW operators,
         ExpressionOf(n, operands, operators), NEW b, NEW e, NextIs(n, operators, b, e)
  PROVE  /\ b \in 1 .. n + 1 /\ e \in b + 1 .. n + 2
         /\ WrongBefore(operands, operators, e) <=>
              \/ WrongBefore(operands, operators, b)
              \/ Matrix!TermAt(operands, operators, b) = Matrix!Error
<1>1. /\ b \in Matrix!Begins(operators) /\ e \in b + 1 .. n + 2 /\ NoneBetween(operators, b, e)
  BY Zenon DEF NextIs
<1>2. \A k \in Matrix!Begins(operators) : k \in 1 .. n + 1
  <2>1. 1 \in 1 .. n + 1 /\ \A k \in 2 .. n + 1 : k \in 1 .. n + 1
    OBVIOUS
  <2> QED
    BY <2>1, BeginsAre, Zenon
<1>3. b \in 1 .. n + 1
  BY <1>1, <1>2, Zenon
<1>4. b < e /\ \A k \in 1 .. n + 1 : (k < b => k < e) /\ (k < e => k < b \/ k = b \/ b < k)
  BY <1>1, <1>3
<1>5. \A k \in Matrix!Begins(operators) : k < e <=> (k < b \/ k = b)
  BY <1>1, <1>2, <1>4, Zenon DEF NoneBetween
<1>6. WrongBefore(operands, operators, e) =>
        \/ WrongBefore(operands, operators, b)
        \/ Matrix!TermAt(operands, operators, b) = Matrix!Error
  BY <1>5, Zenon DEF WrongBefore
<1>7. WrongBefore(operands, operators, b) => WrongBefore(operands, operators, e)
  BY <1>5, Zenon DEF WrongBefore
<1>8. Matrix!TermAt(operands, operators, b) = Matrix!Error => WrongBefore(operands, operators, e)
  BY <1>1, <1>4, Zenon DEF WrongBefore
<1> QED
  BY <1>1, <1>3, <1>6, <1>7, <1>8, Zenon

(* A term that is none is a matrix.                                        *)
LEMMA TermAtIs ==
  ASSUME NEW n \in Nat \ {0}, NEW operands, NEW operators,
         ExpressionOf(n, operands, operators), NEW b, NEW e, NextIs(n, operators, b, e),
         Matrix!TermAt(operands, operators, b) # Matrix!Error
  PROVE  IsMatrix(Matrix!TermAt(operands, operators, b))
<1>1. b \in 1 .. n + 1 /\ e \in b + 1 .. n + 2
  BY WrongOneMore, Zenon
<1>2. e - 1 \in b .. n + 1
  BY <1>1
<1> DEFINE m == e - 1
<1>3. Matrix!TermAt(operands, operators, b) = Matrix!Term(operands, b, m)
  BY TermReaches
<1>4. m \in b .. n + 1
  BY <1>2, Zenon
<1> HIDE DEF m
<1>5. IsResult(Matrix!Term(operands, b, m))
  BY <1>1, <1>4, TermType, Zenon
<1> QED
  BY <1>3, <1>5, Zenon DEF IsResult

(* The sum with the term at b, from that without it.                       *)
LEMMA PartialMore ==
  ASSUME NEW n \in Nat \ {0}, NEW operands, NEW operators,
         ExpressionOf(n, operands, operators), NEW b, NEW e, NextIs(n, operators, b, e),
         NEW i, NEW j
  PROVE  Partial(operands, operators, i, j)[e - 1] =
           Partial(operands, operators, i, j)[b - 1] + Matrix!Signed(operands, operators, b, i, j)
<1>1. b \in 1 .. n + 1 /\ e \in b + 1 .. n + 2
  BY WrongOneMore, Zenon
<1>2. b \in Matrix!Begins(operators) /\ NoneBetween(operators, b, e)
  BY Zenon DEF NextIs
<1>3. Partial(operands, operators, i, j)[e - 1] = Partial(operands, operators, i, j)[b]
  BY <1>1, <1>2, PartialRests
<1>4. Len(operands) = n + 1 /\ n + 1 \in Nat
  BY DEF ExpressionOf
<1> DEFINE H == Partial(operands, operators, i, j)
<1>5. \A m \in 1 .. n + 1 : m \in Matrix!Begins(operators) =>
        H[m] = H[m - 1] + Matrix!Signed(operands, operators, m, i, j)
  <2>1. IsPartial(operands, operators, i, j, H)
    BY <1>4, PartialIs, Zenon
  <2> HIDE DEF H
  <2> QED
    BY <1>4, <2>1, Zenon DEF IsPartial
<1> HIDE DEF H
<1>6. H[b] = H[b - 1] + Matrix!Signed(operands, operators, b, i, j)
  BY <1>1, <1>2, <1>5, Zenon
<1> QED
  BY <1>3, <1>6, Zenon DEF H

(* The first term is the sum of the terms before the second.               *)
LEMMA SummedFirst ==
  ASSUME NEW n \in Nat \ {0}, NEW operands, NEW operators,
         ExpressionOf(n, operands, operators), NEW e, NextIs(n, operators, 1, e)
  PROVE  Summed(operands, operators, e, Matrix!TermAt(operands, operators, 1))
<1> DEFINE T == Matrix!TermAt(operands, operators, 1)
<1>1. WrongBefore(operands, operators, e) <=>
        WrongBefore(operands, operators, 1) \/ T = Matrix!Error
  BY WrongOneMore, Zenon
<1>2. ~WrongBefore(operands, operators, 1)
  <2>1. ASSUME NEW k \in Matrix!Begins(operators) PROVE ~(k < 1)
    <3>1. k = 1 \/ k \in 2 .. n + 1
      BY BeginsAre, Zenon
    <3> QED
      BY <3>1
  <2> QED
    BY <2>1, Zenon DEF WrongBefore
<1>3. ASSUME T # Matrix!Error
      PROVE  SummedTo(operands, operators, e, T)
  <2>1. IsMatrix(T)
    BY <1>3, TermAtIs, Zenon
  <2>2. PICK r, c \in Nat \ {0} : T \in MatrixOf(r, c)
    BY <2>1, Zenon DEF IsMatrix
  <2>3. ASSUME NEW i \in 1 .. r, NEW j \in 1 .. c
        PROVE  T[i][j] = Partial(operands, operators, i, j)[e - 1]
    <3> DEFINE H == Partial(operands, operators, i, j)
    <3>1. H[e - 1] = H[1 - 1] + Matrix!Signed(operands, operators, 1, i, j)
      BY PartialMore
    <3>2. Len(operands) \in Nat
      BY DEF ExpressionOf
    <3>3. H[0] = 0
      <4>1. IsPartial(operands, operators, i, j, H)
        BY <3>2, PartialIs, Zenon
      <4> QED
        BY <4>1, Zenon DEF IsPartial
    <3> HIDE DEF H
    <3>4. 1 - 1 = 0
      OBVIOUS
    <3>5. Matrix!Signed(operands, operators, 1, i, j) = T[i][j]
      BY Zenon DEF Matrix!Signed
    <3>6. T[i][j] \in Int
      <4> HIDE DEF T
      <4> QED
        BY <2>2, MatrixAt, Zenon
    <3> HIDE DEF T
    <3>7. H[e - 1] = 0 + T[i][j]
      BY <3>1, <3>3, <3>4, <3>5, Zenon
    <3>8. H[e - 1] = T[i][j]
      BY <3>6, <3>7
    <3> QED
      BY <3>8, Zenon DEF H
  <2> HIDE DEF T
  <2>4. /\ T \in MatrixOf(r, c)
        /\ \A i \in 1 .. r, j \in 1 .. c : T[i][j] = Partial(operands, operators, i, j)[e - 1]
    BY <2>2, <2>3, Zenon
  <2> QED
    BY <2>4, Zenon DEF SummedTo, T
<1> QED
  BY <1>1, <1>2, <1>3, Zenon DEF Summed

(* A term more, added or subtracted.                                       *)
LEMMA SummedMore ==
  ASSUME NEW n \in Nat \ {0}, NEW operands, NEW operators,
         ExpressionOf(n, operands, operators), Matrix!SumsFit(operands, operators),
         NEW b \in 2 .. n + 1, NEW e, NextIs(n, operators, b, e),
         NEW A, Summed(operands, operators, b, A)
  PROVE  Summed(operands, operators, e,
           Matrix!Apply(operators[b - 1], A, Matrix!TermAt(operands, operators, b)))
<1> DEFINE T == Matrix!TermAt(operands, operators, b)
           first1 == Matrix!TermAt(operands, operators, 1)
           R == Matrix!Apply(operators[b - 1], A, T)
<1>1. WrongBefore(operands, operators, e) <=>
        WrongBefore(operands, operators, b) \/ T = Matrix!Error
  BY WrongOneMore, Zenon
<1>2. ASSUME WrongBefore(operands, operators, e)
      PROVE  R = Matrix!Error
  <2>1. A = Matrix!Error \/ T = Matrix!Error
    BY <1>1, <1>2, Zenon DEF Summed
  <2> HIDE DEF T
  <2> QED
    BY <2>1, Zenon DEF Matrix!Apply
<1>3. ASSUME ~WrongBefore(operands, operators, e)
      PROVE  SummedTo(operands, operators, e, R)
  <2>1. SummedTo(operands, operators, b, A) /\ T # Matrix!Error
    BY <1>1, <1>3, Zenon DEF Summed
  <2>2. PICK r, c \in Nat \ {0} :
          /\ A \in MatrixOf(r, c) /\ first1 \in MatrixOf(r, c)
          /\ \A i \in 1 .. r, j \in 1 .. c : A[i][j] = Partial(operands, operators, i, j)[b - 1]
    BY <2>1, Zenon DEF SummedTo
  <2>3. A # Matrix!Error /\ first1 # Matrix!Error
    <3> HIDE DEF first1
    <3> QED
      BY <2>2, MatrixSize, Zenon
  <2>4. IsMatrix(T)
    BY <2>1, TermAtIs, Zenon
  <2>5. 1 \in Matrix!Begins(operators) /\ b \in Matrix!Begins(operators)
    BY BeginsAre, Zenon DEF NextIs
  <2>6. Matrix!SameSize(first1, T)
    BY <2>1, <2>3, <2>5, Zenon DEF Matrix!SumsFit
  <2>7. T \in MatrixOf(r, c)
    <3> HIDE DEF T, first1
    <3> QED
      BY <2>2, <2>4, <2>6, MatrixLike, Zenon
  <2>8. operators[b - 1] = "+" \/ operators[b - 1] = "-"
    <3>1. b # 1 /\ b - 1 \in 1 .. n
      OBVIOUS
    <3>2. operators[b - 1] # "*"
      BY <2>5, <3>1, BeginsAre, Zenon
    <3>3. operators[b - 1] \in Signs
      BY <3>1, Zenon DEF ExpressionOf
    <3> QED
      BY <3>2, <3>3, Zenon DEF Signs
  <2>9. ASSUME NEW i \in 1 .. r, NEW j \in 1 .. c
        PROVE  /\ Partial(operands, operators, i, j)[e - 1] =
                    Partial(operands, operators, i, j)[b - 1] +
                      Matrix!Signed(operands, operators, b, i, j)
               /\ A[i][j] = Partial(operands, operators, i, j)[b - 1]
               /\ A[i][j] \in Int /\ T[i][j] \in Int
    <3>1. Partial(operands, operators, i, j)[e - 1] =
            Partial(operands, operators, i, j)[b - 1] +
              Matrix!Signed(operands, operators, b, i, j)
      BY PartialMore
    <3> HIDE DEF T
    <3>2. A[i][j] \in Int /\ T[i][j] \in Int
      BY <2>2, <2>7, MatrixAt, Zenon
    <3> QED
      BY <2>2, <3>1, <3>2, Zenon
  <2>10. b # 1 /\ "+" # "*" /\ "-" # "*" /\ "-" # "+"
    OBVIOUS
  <2>11. CASE operators[b - 1] = "+"
    <3>1. R = Matrix!add(A, T)
      <4> HIDE DEF T
      <4> QED
        BY <2>1, <2>3, <2>10, <2>11, Zenon DEF Matrix!Apply
    <3>2. \A i, j : Matrix!Signed(operands, operators, b, i, j) = T[i][j]
      BY <2>11, Zenon DEF Matrix!Signed
    <3> HIDE DEF R, T
    <3>3. /\ Matrix!add(A, T) \in MatrixOf(r, c)
          /\ \A i \in 1 .. r, j \in 1 .. c : Matrix!add(A, T)[i][j] = A[i][j] + T[i][j]
      BY <2>2, <2>7, SumOfTwo
    <3>4. ASSUME NEW i \in 1 .. r, NEW j \in 1 .. c
          PROVE  R[i][j] = Partial(operands, operators, i, j)[e - 1]
      <4>1. R[i][j] = A[i][j] + T[i][j]
        BY <3>1, <3>3, Zenon
      <4> QED
        BY <2>9, <3>2, <4>1, Zenon
    <3>5. R \in MatrixOf(r, c)
      BY <3>1, <3>3, Zenon
    <3> QED
      BY <2>2, <3>4, <3>5, Zenon DEF SummedTo
  <2>12. CASE operators[b - 1] = "-"
    <3>1. R = Matrix!sub(A, T)
      <4> HIDE DEF T
      <4> QED
        BY <2>1, <2>3, <2>10, <2>12, Zenon DEF Matrix!Apply
    <3>2. \A i, j : Matrix!Signed(operands, operators, b, i, j) = -T[i][j]
      BY <2>10, <2>12, Zenon DEF Matrix!Signed
    <3> HIDE DEF R, T
    <3>3. /\ Matrix!sub(A, T) \in MatrixOf(r, c)
          /\ \A i \in 1 .. r, j \in 1 .. c : Matrix!sub(A, T)[i][j] = A[i][j] - T[i][j]
      BY <2>2, <2>7, SumOfTwo
    <3>4. \A v, w \in Int : v + (-w) = v - w
      BY SMT
    <3>5. ASSUME NEW i \in 1 .. r, NEW j \in 1 .. c
          PROVE  R[i][j] = Partial(operands, operators, i, j)[e - 1]
      <4>1. R[i][j] = A[i][j] - T[i][j]
        BY <3>1, <3>3, Zenon
      <4>2. R[i][j] = A[i][j] + (-T[i][j])
        BY <2>9, <3>4, <4>1, Zenon
      <4> QED
        BY <2>9, <3>2, <4>2, Zenon
    <3>6. R \in MatrixOf(r, c)
      BY <3>1, <3>3, Zenon
    <3> QED
      BY <2>2, <3>5, <3>6, Zenon DEF SummedTo
  <2> QED
    BY <2>8, <2>11, <2>12, Zenon
<1> QED
  BY <1>2, <1>3, Zenon DEF Summed

(* The states the evaluation goes through, one for each operator read.     *)
Started(operands, operators) ==
  [A |-> operands[1], previousoperator |-> operators[1], B |-> operands[2]]
Goes(n, operands, operators, state) ==
  /\ state[1] = Started(operands, operators)
  /\ \A i \in 2 .. n :
       state[i] = Matrix!NextOperand(state[i - 1], operators[i], operands[i + 1])
ClosedAt(s) == Matrix!Apply(s.previousoperator, s.A, s.B)
ValueAt(s) == IF s.A = Matrix!FreedTwice THEN Matrix!FreedTwice ELSE ClosedAt(s)

(* There are such states, and the value is what the last one comes to.     *)
LEMMA StatesExist ==
  ASSUME NEW n \in Nat \ {0}, NEW operands, NEW operators, Len(operators) = n
  PROVE  \E state : /\ Goes(n, operands, operators, state)
                    /\ Matrix!Evaluate(operands, operators) = ValueAt(state[n])
<1> DEFINE first0 == Started(operands, operators)
           X(s, k) == Matrix!NextOperand(s, operators[k], operands[k + 1])
           Is(m, h) == h = [k \in 1 .. m |-> IF k = 1 THEN first0 ELSE X(h[k - 1], k)]
           H == CHOOSE h : Is(n, h)
<1>1. Matrix!Evaluate(operands, operators) = ValueAt(H[n])
  <2> DEFINE G == CHOOSE h : Is(Len(operators), h)
  <2>1. Matrix!Evaluate(operands, operators) = ValueAt(G[Len(operators)])
    BY DEF Matrix!Evaluate, ValueAt, ClosedAt, Started
  <2>2. G[Len(operators)] = H[n]
    BY Zenon
  <2> HIDE DEF G, H
  <2> QED
    BY <2>1, <2>2, Zenon
<1> HIDE DEF first0, X
<1>2. \E f : Is(n, f)
  <2> DEFINE P == {m \in 0 .. n : \E f : Is(m, f)}
  <2>1. 0 \in P
    <3> DEFINE e == [k \in 1 .. 0 |-> 0]
    <3>1. \A k \in 1 .. 0 : FALSE
      BY SMT
    <3>2. e = [k \in 1 .. 0 |-> IF k = 1 THEN first0 ELSE X(e[k - 1], k)]
      BY <3>1, Zenon
    <3>3. 0 \in 0 .. n
      OBVIOUS
    <3> QED
      BY <3>2, <3>3, Zenon
  <2>2. \A m \in 1 .. n : m - 1 \in P => m \in P
    <3> TAKE m \in 1 .. n
    <3> HAVE m - 1 \in P
    <3>1. PICK f : Is(m - 1, f)
      BY Zenon
    <3> DEFINE last == IF m = 1 THEN first0 ELSE X(f[m - 1], m)
               h == [k \in 1 .. m |-> IF k = m THEN last ELSE f[k]]
               h1 == [k \in 1 .. m |-> IF k = 1 THEN first0 ELSE X(h[k - 1], k)]
    <3>2. m \in 0 .. n
      OBVIOUS
    <3>3. ASSUME NEW k \in 1 .. m
          PROVE  h[k] = h1[k]
      <4>1. k # 1 => k - 1 \in 1 .. m /\ k - 1 # m
        OBVIOUS
      <4>2. k # 1 => h[k - 1] = f[k - 1]
        BY <4>1, Zenon
      <4>3. k # m => k \in 1 .. m - 1
        OBVIOUS
      <4>4. k # m => f[k] = IF k = 1 THEN first0 ELSE X(f[k - 1], k)
        BY <3>1, <4>3, Zenon
      <4>5. h1[k] = IF k = 1 THEN first0 ELSE X(h[k - 1], k)
        BY Zenon
      <4>6. h[k] = IF k = m THEN (IF m = 1 THEN first0 ELSE X(f[m - 1], m)) ELSE f[k]
        BY Zenon
      <4> HIDE DEF h, h1
      <4>7. k = m /\ k = 1 => h[k] = h1[k]
        BY <4>5, <4>6, Zenon
      <4>8. k = m /\ k # 1 => h[k] = h1[k]
        BY <4>2, <4>5, <4>6, Zenon
      <4>9. k # m /\ k = 1 => h[k] = h1[k]
        BY <4>4, <4>5, <4>6, Zenon
      <4>10. k # m /\ k # 1 => h[k] = h1[k]
        BY <4>2, <4>4, <4>5, <4>6, Zenon
      <4> QED
        BY <4>7, <4>8, <4>9, <4>10, Zenon
    <3>4. h = h1
      BY <3>3, Zenon
    <3>5. Is(m, h)
      BY <3>4, Zenon
    <3> HIDE DEF h, Is
    <3> QED
      BY <3>2, <3>5, Zenon
  <2>3. n \in P
    <3>1. n \in Nat
      OBVIOUS
    <3> HIDE DEF P
    <3> QED
      BY <2>1, <2>2, <3>1, Induction, Zenon
  <2> QED
    BY <2>3, Zenon
<1>3. Is(n, H)
  BY <1>2, Zenon
<1> HIDE DEF H
<1>4. 1 \in 1 .. n /\ \A i \in 2 .. n : i \in 1 .. n /\ i # 1
  OBVIOUS
<1>5. H[1] = first0 /\ \A i \in 2 .. n : H[i] = X(H[i - 1], i)
  BY <1>3, <1>4, Zenon
<1>6. Goes(n, operands, operators, H)
  BY <1>5, Zenon DEF Goes, first0, X
<1> QED
  BY <1>1, <1>6, Zenon

(* Before a sum or a difference: one product so far.                       *)
OnlyProducts(operands, operators, i, s) ==
  /\ s.previousoperator = "*" /\ \A k \in 1 .. i : operators[k] = "*"
  /\ s.A = Matrix!Term(operands, 1, i) /\ s.B = operands[i + 1]

(* Behind one: the sum of the terms but the last in A, the last in B.      *)
SumAndTerm(n, operands, operators, i, s) ==
  \E b \in 2 .. n + 1 :
    /\ b \in Matrix!Begins(operators) /\ b <= i + 1 /\ NoneBetween(operators, b, i + 2)
    /\ s.previousoperator = operators[b - 1]
    /\ Summed(operands, operators, b, s.A) /\ s.B = Matrix!Term(operands, b, i + 1)

(* Where a term begins next, or none does, A by B is the sum up to there.  *)
LEMMA Closed ==
  ASSUME NEW n \in Nat \ {0}, NEW operands, NEW operators,
         ExpressionOf(n, operands, operators), Matrix!SumsFit(operands, operators),
         NEW i \in 1 .. n, i + 2 = n + 2 \/ i + 2 \in Matrix!Begins(operators), NEW s,
         OnlyProducts(operands, operators, i, s) \/ SumAndTerm(n, operands, operators, i, s)
  PROVE  Summed(operands, operators, i + 2, ClosedAt(s))
<1> DEFINE e == i + 2
           m == i + 1
<1>1. /\ e \in 2 .. n + 2 /\ e - 1 = m /\ e \in 1 + 1 .. n + 2 /\ m \in Nat /\ i \in Nat
      /\ i >= 1 /\ 1 \in Nat /\ 1 # m
  OBVIOUS
<1>2. e = n + 2 \/ e \in Matrix!Begins(operators)
  BY Zenon
<1>3. CASE OnlyProducts(operands, operators, i, s)
  <2>1. /\ s.previousoperator = "*" /\ \A k \in 1 .. i : operators[k] = "*"
        /\ s.A = Matrix!Term(operands, 1, i) /\ s.B = operands[m]
    BY <1>3, Zenon DEF OnlyProducts
  <2>2. ASSUME NEW k \in Matrix!Begins(operators), 1 < k, k < e PROVE FALSE
    <3>1. k \in 2 .. n + 1 /\ operators[k - 1] # "*"
      <4>1. k # 1
        BY <2>2
      <4> QED
        BY <4>1, BeginsAre, Zenon
    <3>2. k - 1 \in 1 .. i
      BY <2>2, <3>1
    <3> QED
      BY <2>1, <3>1, <3>2, Zenon
  <2>3. NextIs(n, operators, 1, e)
    <3>1. 1 \in Matrix!Begins(operators)
      BY BeginsAre, Zenon
    <3>2. NoneBetween(operators, 1, e)
      BY <2>2, Zenon DEF NoneBetween
    <3> HIDE DEF e
    <3> QED
      BY <1>1, <1>2, <3>1, <3>2, Zenon DEF NextIs
  <2>4. Matrix!TermAt(operands, operators, 1) = Matrix!Term(operands, 1, m)
    <3>1. Matrix!TermAt(operands, operators, 1) = Matrix!Term(operands, 1, e - 1)
      <4> HIDE DEF e
      <4> QED
        BY <2>3, TermReaches
    <3> HIDE DEF e, m
    <3> QED
      BY <1>1, <3>1, Zenon
  <2>5. Matrix!Term(operands, 1, m) = Matrix!mult(s.A, s.B)
    BY <1>1, <2>1, TermIs
  <2>6. ClosedAt(s) = Matrix!mult(s.A, s.B)
    BY <2>1, Zenon DEF ClosedAt, Matrix!Apply, Matrix!mult
  <2>7. Summed(operands, operators, e, Matrix!TermAt(operands, operators, 1))
    <3> HIDE DEF e
    <3> QED
      BY <2>3, SummedFirst, Zenon
  <2> HIDE DEF m
  <2> QED
    BY <2>4, <2>5, <2>6, <2>7, Zenon
<1>4. CASE SumAndTerm(n, operands, operators, i, s)
  <2>1. PICK b \in 2 .. n + 1 :
          /\ b \in Matrix!Begins(operators) /\ b <= m /\ NoneBetween(operators, b, e)
          /\ s.previousoperator = operators[b - 1]
          /\ Summed(operands, operators, b, s.A) /\ s.B = Matrix!Term(operands, b, m)
    BY <1>4, Zenon DEF SumAndTerm
  <2>2. e \in b + 1 .. n + 2
    BY <2>1
  <2> HIDE DEF e, m
  <2>3. NextIs(n, operators, b, e)
    BY <1>2, <2>1, <2>2, Zenon DEF NextIs
  <2>4. Matrix!TermAt(operands, operators, b) = Matrix!Term(operands, b, e - 1)
    BY <2>3, TermReaches
  <2>5. Matrix!TermAt(operands, operators, b) = s.B
    BY <1>1, <2>1, <2>4, Zenon
  <2>6. Summed(operands, operators, e,
          Matrix!Apply(operators[b - 1], s.A, Matrix!TermAt(operands, operators, b)))
    BY <2>1, <2>3, SummedMore, Zenon
  <2> QED
    BY <2>1, <2>5, <2>6, Zenon DEF ClosedAt, e
<1> QED
  BY <1>3, <1>4, Zenon

(* A state of the evaluation has these fields and no more.                 *)
IsState(s) == s = [A |-> s.A, previousoperator |-> s.previousoperator, B |-> s.B]

(* What a turn leaves in the fields.                                       *)
Turned(s, operator, M, t) ==
  /\ IsState(t)
  /\ operator = "*" /\ s.previousoperator # "*" =>
       /\ t.previousoperator = s.previousoperator
       /\ t.A = s.A /\ t.B = Matrix!mult(s.B, M)
  /\ operator # "*" \/ s.previousoperator = "*" =>
       /\ t.previousoperator = operator
       /\ t.A = Matrix!NewA(s, operator) /\ t.B = M

(* A turn leaves that, until a matrix is freed twice.                      *)
LEMMA TurnIs ==
  ASSUME NEW s, IsState(s), s.A # Matrix!FreedTwice, NEW operator, NEW M
  PROVE  Turned(s, operator, M, Matrix!NextOperand(s, operator, M))
<1> DEFINE t == Matrix!NextOperand(s, operator, M)
           x == [A |-> s.A, previousoperator |-> s.previousoperator, B |-> Matrix!mult(s.B, M)]
           y == [A |-> Matrix!NewA(s, operator), previousoperator |-> operator, B |-> M]
<1>1. ASSUME NEW B
      PROVE  [s EXCEPT !.B = B] =
               [A |-> s.A, previousoperator |-> s.previousoperator, B |-> B]
  BY DEF IsState
<1>2. ASSUME NEW A, NEW B, NEW o
      PROVE  [s EXCEPT !.A = A, !.B = B, !.previousoperator = o] =
               [A |-> A, previousoperator |-> o, B |-> B]
  <2> DEFINE s1 == [s EXCEPT !.A = A]
             s2 == [s1 EXCEPT !.B = B]
             s3 == [s2 EXCEPT !.previousoperator = o]
  <2>1. s1 = [A |-> A, previousoperator |-> s.previousoperator, B |-> s.B]
    BY DEF IsState
  <2>2. s2 = [A |-> A, previousoperator |-> s.previousoperator, B |-> B]
    <3> HIDE DEF s1
    <3> QED
      BY <2>1
  <2>3. s3 = [A |-> A, previousoperator |-> o, B |-> B]
    <3> HIDE DEF s2
    <3> QED
      BY <2>2
  <2> QED
    BY <2>3
<1>3. CASE operator = "*" /\ s.previousoperator # "*"
  <2>1. t = x
    BY <1>1, <1>3, Zenon DEF Matrix!NextOperand
  <2>2. /\ IsState(x) /\ x.previousoperator = s.previousoperator
        /\ x.A = s.A /\ x.B = Matrix!mult(s.B, M)
    BY Zenon DEF IsState
  <2> HIDE DEF x, t
  <2> QED
    BY <1>3, <2>1, <2>2, Zenon DEF t, Turned
<1>4. CASE ~(operator = "*" /\ s.previousoperator # "*")
  <2>1. t = y
    BY <1>2, <1>4, Zenon DEF Matrix!NextOperand
  <2>2. /\ IsState(y) /\ y.previousoperator = operator
        /\ y.A = Matrix!NewA(s, operator) /\ y.B = M
    BY Zenon DEF IsState
  <2> HIDE DEF y, t
  <2> QED
    BY <1>4, <2>1, <2>2, Zenon DEF t, Turned
<1> QED
  BY <1>3, <1>4, Zenon

(* A product of the first m operands or fewer does not fit, and another    *)
(* factor follows: A is freed twice then.                                  *)
ClearedBy(operands, operators, m) ==
  \E k \in 2 .. m :
    (\A i \in 1 .. k : operators[i] = "*") /\ Matrix!Term(operands, 1, k) = Matrix!Error

(* What is kept from one turn to the next.                                 *)
Evaluated(n, operands, operators, i, s) ==
  /\ IsState(s)
  /\ ClearedBy(operands, operators, i) => s.A = Matrix!FreedTwice
  /\ ~ClearedBy(operands, operators, i) =>
       OnlyProducts(operands, operators, i, s) \/ SumAndTerm(n, operands, operators, i, s)

(* That may be so with each operator read.                                 *)
LEMMA ClearedNext ==
  ASSUME NEW operands, NEW operators, NEW i \in Nat \ {0}
  PROVE  ClearedBy(operands, operators, i + 1) <=>
           \/ ClearedBy(operands, operators, i)
           \/ /\ \A k \in 1 .. i + 1 : operators[k] = "*"
              /\ Matrix!Term(operands, 1, i + 1) = Matrix!Error
<1> DEFINE l == i + 1
<1>1. l \in 2 .. l /\ \A k : k \in 2 .. l <=> k \in 2 .. i \/ k = l
  BY SMT
<1> HIDE DEF l
<1>2. ClearedBy(operands, operators, l) <=>
        \/ ClearedBy(operands, operators, i)
        \/ (\A k \in 1 .. l : operators[k] = "*") /\ Matrix!Term(operands, 1, l) = Matrix!Error
  BY <1>1, Zenon DEF ClearedBy
<1> QED
  BY <1>2, Zenon DEF l

(* If it was not, A is what an expression may come to.                     *)
LEMMA NotYetFreed ==
  ASSUME NEW n \in Nat \ {0}, NEW operands, NEW operators,
         ExpressionOf(n, operands, operators), NEW i \in 1 .. n, NEW s,
         OnlyProducts(operands, operators, i, s) \/ SumAndTerm(n, operands, operators, i, s)
  PROVE  s.A # Matrix!FreedTwice
<1>1. CASE OnlyProducts(operands, operators, i, s)
  <2>1. 1 \in 1 .. n + 1 /\ i \in 1 .. n + 1
    OBVIOUS
  <2>2. IsResult(Matrix!Term(operands, 1, i))
    BY <2>1, TermType, Zenon
  <2> QED
    BY <1>1, <2>2, NotFreedTwice, Zenon DEF OnlyProducts
<1>2. CASE SumAndTerm(n, operands, operators, i, s)
  <2>1. IsResult(s.A)
    BY <1>2, Zenon DEF SumAndTerm, Summed, SummedTo, IsResult, IsMatrix
  <2> QED
    BY <2>1, NotFreedTwice, Zenon
<1> QED
  BY <1>1, <1>2, Zenon

(* It holds when two operands are read.                                    *)
LEMMA EvaluatedAtFirst ==
  ASSUME NEW n \in Nat \ {0}, NEW operands, NEW operators,
         ExpressionOf(n, operands, operators)
  PROVE  Evaluated(n, operands, operators, 1, Started(operands, operators))
<1> DEFINE s == Started(operands, operators)
<1>1. /\ IsState(s) /\ s.A = operands[1] /\ s.previousoperator = operators[1]
      /\ s.B = operands[2]
  BY Zenon DEF Started, IsState
<1> HIDE DEF s
<1>2. 1 + 1 = 2 /\ 1 + 2 = 3 /\ 2 - 1 = 1 /\ 1 \in Nat /\ 2 \in Nat /\ 2 \in 2 .. n + 1 /\ 2 <= 2
  OBVIOUS
<1>0. ~ClearedBy(operands, operators, 1)
  <2>1. \A k \in 2 .. 1 : FALSE
    BY SMT
  <2> QED
    BY <2>1, Zenon DEF ClearedBy
<1>3. Matrix!Term(operands, 1, 1) = operands[1] /\ Matrix!Term(operands, 2, 2) = operands[2]
  BY <1>2, TermIs, Zenon
<1>4. CASE operators[1] = "*"
  <2>1. \A k \in 1 .. 1 : k = 1
    BY SMT
  <2>2. OnlyProducts(operands, operators, 1, s)
    BY <1>1, <1>2, <1>3, <1>4, <2>1, Zenon DEF OnlyProducts
  <2> QED
    BY <1>0, <1>1, <2>2, Zenon DEF Evaluated, s
<1>5. CASE operators[1] # "*"
  <2>1. 1 \in Matrix!Begins(operators) /\ 2 \in Matrix!Begins(operators)
    BY <1>2, <1>5, BeginsAre, Zenon
  <2>2. ASSUME NEW k \in Matrix!Begins(operators)
        PROVE  ~(1 < k /\ k < 2) /\ ~(2 < k /\ k < 3)
    <3>1. k = 1 \/ k \in 2 .. n + 1
      BY BeginsAre, Zenon
    <3> QED
      BY <3>1
  <2>3. NoneBetween(operators, 1, 2) /\ NoneBetween(operators, 2, 3)
    BY <2>2, Zenon DEF NoneBetween
  <2>4. NextIs(n, operators, 1, 2)
    <3>1. 2 \in 1 + 1 .. n + 2
      OBVIOUS
    <3> QED
      BY <2>1, <2>3, <3>1, Zenon DEF NextIs
  <2>5. Matrix!TermAt(operands, operators, 1) = Matrix!Term(operands, 1, 2 - 1)
    BY <2>4, TermReaches
  <2>6. Summed(operands, operators, 2, operands[1])
    BY <1>2, <1>3, <2>4, <2>5, SummedFirst, Zenon
  <2>7. SumAndTerm(n, operands, operators, 1, s)
    BY <1>1, <1>2, <1>3, <2>1, <2>3, <2>6, Zenon DEF SumAndTerm
  <2> QED
    BY <1>0, <1>1, <2>7, Zenon DEF Evaluated, s
<1> QED
  BY <1>4, <1>5, Zenon

(* A turn keeps it, unless it frees a matrix twice.                        *)
LEMMA TurnKeeps ==
  ASSUME NEW n \in Nat \ {0}, NEW operands, NEW operators,
         ExpressionOf(n, operands, operators), Matrix!SumsFit(operands, operators),
         NEW l \in 2 .. n, NEW s, Evaluated(n, operands, operators, l - 1, s),
         ~ClearedBy(operands, operators, l - 1)
  PROVE  Evaluated(n, operands, operators, l,
           Matrix!NextOperand(s, operators[l], operands[l + 1]))
<1> DEFINE t == Matrix!NextOperand(s, operators[l], operands[l + 1])
           i == l - 1
           m == l + 1
           e == l + 2
<1>1. /\ i \in 1 .. n /\ i \in Nat /\ i >= 1 /\ i + 1 = l /\ i + 2 = m /\ m - 1 = l /\ m + 1 = e
      /\ l \in Nat /\ m \in Nat /\ m \in 2 .. n + 1 /\ m <= m /\ l <= m
      /\ \A k \in 1 .. l : k \in 1 .. i \/ k = l
      /\ l >= 1 /\ 1 \in Nat
  OBVIOUS
<1>2. IsState(s)
  BY Zenon DEF Evaluated
<1>a. ClearedBy(operands, operators, l) <=>
        (\A k \in 1 .. l : operators[k] = "*") /\ Matrix!Term(operands, 1, l) = Matrix!Error
  <2>0. i \in Nat \ {0} /\ ~ClearedBy(operands, operators, i)
    BY <1>1
  <2> HIDE DEF i
  <2>1. ClearedBy(operands, operators, i + 1) <=>
          \/ ClearedBy(operands, operators, i)
          \/ /\ \A k \in 1 .. i + 1 : operators[k] = "*"
             /\ Matrix!Term(operands, 1, i + 1) = Matrix!Error
    BY <2>0, ClearedNext, Zenon
  <2> QED
    BY <1>1, <2>0, <2>1, Zenon
<1>4. OnlyProducts(operands, operators, i, s) \/ SumAndTerm(n, operands, operators, i, s)
  BY Zenon DEF Evaluated
<1>b. s.A # Matrix!FreedTwice
  <2> HIDE DEF i
  <2> QED
    BY <1>1, <1>4, NotYetFreed, Zenon
<1>3. /\ IsState(t)
      /\ operators[l] = "*" /\ s.previousoperator # "*" =>
           /\ t.previousoperator = s.previousoperator
           /\ t.A = s.A /\ t.B = Matrix!mult(s.B, operands[m])
      /\ operators[l] # "*" \/ s.previousoperator = "*" =>
           /\ t.previousoperator = operators[l]
           /\ t.A = Matrix!NewA(s, operators[l]) /\ t.B = operands[m]
  <2>1. Turned(s, operators[l], operands[m], t)
    BY <1>2, <1>b, TurnIs, Zenon
  <2> HIDE DEF t, m
  <2> QED
    BY <2>1, Zenon DEF Turned
<1> HIDE DEF t, i, m, e
<1>5. CASE operators[l] # "*"
  <2>1. m \in Matrix!Begins(operators)
    BY <1>1, <1>5, BeginsAre, Zenon
  <2>2. Summed(operands, operators, m, t.A)
    <3>1. i + 2 \in Matrix!Begins(operators)
      BY <1>1, <2>1, Zenon
    <3>2. Summed(operands, operators, i + 2, ClosedAt(s))
      BY <1>1, <1>4, <3>1, Closed
    <3> QED
      BY <1>1, <1>3, <1>5, <3>2, Zenon DEF Matrix!NewA, ClosedAt
  <2>3. NoneBetween(operators, m, e)
    <3>1. ASSUME NEW k \in Matrix!Begins(operators), m < k, k < e PROVE FALSE
      <4>1. k = 1 \/ k \in 2 .. n + 1
        BY BeginsAre, Zenon
      <4> QED
        BY <3>1, <4>1 DEF m, e
    <3> QED
      BY <3>1, Zenon DEF NoneBetween
  <2>4. Matrix!Term(operands, m, m) = operands[m]
    BY <1>1, TermIs, Zenon
  <2>5. SumAndTerm(n, operands, operators, l, t)
    <3>1. /\ m <= l + 1 /\ t.previousoperator = operators[m - 1]
          /\ t.B = Matrix!Term(operands, m, l + 1)
      BY <1>1, <1>3, <1>5, <2>4, Zenon DEF m
    <3>2. NoneBetween(operators, m, l + 2)
      BY <2>3, Zenon DEF e
    <3> QED
      BY <1>1, <2>1, <2>2, <3>1, <3>2, Zenon DEF SumAndTerm
  <2>6. l \in 1 .. l
    OBVIOUS
  <2> QED
    BY <1>3, <1>5, <1>a, <2>5, <2>6, Zenon DEF Evaluated, t
<1>6. CASE operators[l] = "*" /\ OnlyProducts(operands, operators, i, s)
  <2>1. /\ s.previousoperator = "*" /\ \A k \in 1 .. i : operators[k] = "*"
        /\ s.A = Matrix!Term(operands, 1, i) /\ s.B = operands[l]
    BY <1>1, <1>6, Zenon DEF OnlyProducts
  <2>2. Matrix!Term(operands, 1, i + 1) = Matrix!mult(s.A, operands[i + 1])
    BY <1>1, <2>1, TermIs
  <2>3. ClosedAt(s) = Matrix!mult(s.A, s.B)
    BY <2>1, Zenon DEF ClosedAt, Matrix!Apply, Matrix!mult
  <2>4. ClosedAt(s) = Matrix!Term(operands, 1, l)
    BY <1>1, <2>1, <2>2, <2>3, Zenon
  <2>5. \A k \in 1 .. l : operators[k] = "*"
    BY <1>1, <1>6, <2>1, Zenon
  <2>6. CASE ClosedAt(s) = Matrix!Error
    <3>1. t.A = Matrix!FreedTwice
      BY <1>3, <1>6, <2>1, <2>6, Zenon DEF Matrix!NewA, ClosedAt
    <3> QED
      BY <1>3, <1>a, <2>4, <2>5, <2>6, <3>1, Zenon DEF Evaluated, t
  <2>7. CASE ClosedAt(s) # Matrix!Error
    <3>1. t.A = Matrix!Term(operands, 1, l)
      BY <1>3, <1>6, <2>1, <2>4, <2>7, Zenon DEF Matrix!NewA, ClosedAt
    <3>2. OnlyProducts(operands, operators, l, t)
      BY <1>3, <1>6, <2>1, <2>5, <3>1, Zenon DEF OnlyProducts, m
    <3> QED
      BY <1>3, <1>a, <2>4, <2>7, <3>2, Zenon DEF Evaluated, t
  <2> QED
    BY <2>6, <2>7, Zenon
<1>7. CASE operators[l] = "*" /\ SumAndTerm(n, operands, operators, i, s)
  <2>1. PICK b \in 2 .. n + 1 :
          /\ b \in Matrix!Begins(operators) /\ b <= l /\ NoneBetween(operators, b, m)
          /\ s.previousoperator = operators[b - 1]
          /\ Summed(operands, operators, b, s.A) /\ s.B = Matrix!Term(operands, b, l)
    BY <1>1, <1>7, Zenon DEF SumAndTerm
  <2>2. b # 1 /\ b \in Nat /\ l >= b /\ b <= m
    BY <2>1 DEF m
  <2>3. s.previousoperator # "*"
    BY <2>1, <2>2, BeginsAre, Zenon
  <2>4. t.previousoperator = operators[b - 1] /\ t.A = s.A /\ t.B = Matrix!mult(s.B, operands[m])
    BY <1>3, <1>7, <2>1, <2>3, Zenon
  <2>5. Matrix!Term(operands, b, l + 1) = Matrix!mult(s.B, operands[l + 1])
    BY <1>1, <2>1, <2>2, TermIs
  <2>6. t.B = Matrix!Term(operands, b, l + 1)
    BY <2>4, <2>5, Zenon DEF m
  <2>7. m \notin Matrix!Begins(operators)
    <3>1. m # 1
      BY <1>1 DEF m
    <3> QED
      BY <1>1, <1>7, <3>1, BeginsAre, Zenon
  <2>8. ASSUME NEW k \in Matrix!Begins(operators), b < k, k < e PROVE FALSE
    <3>1. k = 1 \/ k \in 2 .. n + 1
      BY BeginsAre, Zenon
    <3>2. k < m \/ k = m
      BY <2>8, <3>1 DEF m, e
    <3> QED
      BY <2>1, <2>7, <2>8, <3>2, Zenon DEF NoneBetween
  <2>9. NoneBetween(operators, b, l + 2)
    BY <2>8, Zenon DEF NoneBetween, e
  <2>10. SumAndTerm(n, operands, operators, l, t)
    BY <2>1, <2>2, <2>4, <2>6, <2>9, Zenon DEF SumAndTerm, m
  <2>11. b - 1 \in 1 .. l
    BY <2>1
  <2>12. operators[b - 1] # "*"
    BY <2>1, <2>3, Zenon
  <2> QED
    BY <1>3, <1>a, <2>10, <2>11, <2>12, Zenon DEF Evaluated, t
<1> QED
  BY <1>4, <1>5, <1>6, <1>7, Zenon

(* It is kept by every turn.                                               *)
LEMMA EvaluatedNext ==
  ASSUME NEW n \in Nat \ {0}, NEW operands, NEW operators,
         ExpressionOf(n, operands, operators), Matrix!SumsFit(operands, operators),
         NEW l \in 2 .. n, NEW s, Evaluated(n, operands, operators, l - 1, s)
  PROVE  Evaluated(n, operands, operators, l,
           Matrix!NextOperand(s, operators[l], operands[l + 1]))
<1>1. CASE ClearedBy(operands, operators, l - 1)
  <2> DEFINE i == l - 1
  <2>1. i \in Nat \ {0} /\ i + 1 = l
    OBVIOUS
  <2>2. IsState(s) /\ s.A = Matrix!FreedTwice
    BY <1>1, Zenon DEF Evaluated
  <2>3. Matrix!NextOperand(s, operators[l], operands[l + 1]) = s
    BY <2>2, Zenon DEF Matrix!NextOperand
  <2>4. ClearedBy(operands, operators, i)
    BY <1>1, Zenon
  <2> HIDE DEF i
  <2>5. ClearedBy(operands, operators, i + 1)
    BY <2>1, <2>4, ClearedNext, Zenon
  <2> QED
    BY <2>1, <2>2, <2>3, <2>5, Zenon DEF Evaluated
<1>2. CASE ~ClearedBy(operands, operators, l - 1)
  BY <1>2, TurnKeeps
<1> QED
  BY <1>1, <1>2, Zenon

(* The value of every expression whose sums fit is right.                  *)
LEMMA ValueIsRight ==
  ASSUME NEW n \in Nat \ {0}, NEW operands, NEW operators,
         ExpressionOf(n, operands, operators)
  PROVE  Matrix!ValueRight(operands, operators)
<1> SUFFICES ASSUME Matrix!SumsFit(operands, operators)
             PROVE  LET value == Matrix!Evaluate(operands, operators)
                    IN  IF Matrix!ClearedTwice(operands, operators)
                          THEN value = Matrix!FreedTwice
                        ELSE IF \E b \in Matrix!Begins(operators) :
                                  Matrix!TermAt(operands, operators, b) = Matrix!Error
                          THEN value = Matrix!Error
                          ELSE /\ value # Matrix!Error
                               /\ Matrix!SameSize(value, Matrix!TermAt(operands, operators, 1))
                               /\ \A i \in 1 .. Matrix!Rows(value),
                                     j \in 1 .. Matrix!Columns(value) :
                                    value[i][j] = Matrix!SignedSum(operands, operators, i, j)
  BY Zenon DEF Matrix!ValueRight
<1> DEFINE value == Matrix!Evaluate(operands, operators)
           T == Matrix!TermAt(operands, operators, 1)
<1>1. Len(operators) = n /\ Len(operands) = n + 1
  BY Zenon DEF ExpressionOf
<1>2. PICK state : /\ Goes(n, operands, operators, state)
                   /\ Matrix!Evaluate(operands, operators) = ValueAt(state[n])
  BY <1>1, StatesExist
<1> HIDE DEF value
<1> DEFINE P == {k \in 0 .. n : k = 0 \/ Evaluated(n, operands, operators, k, state[k])}
<1>3. n \in Nat /\ 0 \in 0 .. n /\ n # 0 /\ n \in 1 .. n /\ 1 \in 1 .. n
  OBVIOUS
<1>4. \A k \in 1 .. n : k - 1 \in P => k \in P
  <2> TAKE k \in 1 .. n
  <2> HAVE k - 1 \in P
  <2>1. k \in 0 .. n /\ (k # 1 => k \in 2 .. n /\ k - 1 # 0)
    OBVIOUS
  <2>2. CASE k = 1
    <3>1. state[1] = Started(operands, operators)
      BY <1>2, Zenon DEF Goes
    <3>2. Evaluated(n, operands, operators, 1, state[1])
      BY <3>1, EvaluatedAtFirst, Zenon
    <3> QED
      BY <2>1, <2>2, <3>2, Zenon
  <2>3. CASE k # 1
    <3>1. Evaluated(n, operands, operators, k - 1, state[k - 1])
      BY <2>1, <2>3, Zenon
    <3>2. state[k] = Matrix!NextOperand(state[k - 1], operators[k], operands[k + 1])
      BY <1>2, <2>1, <2>3, Zenon DEF Goes
    <3>3. Evaluated(n, operands, operators, k, state[k])
      BY <2>1, <2>3, <3>1, <3>2, EvaluatedNext, Zenon
    <3> QED
      BY <2>1, <3>3, Zenon
  <2> QED
    BY <2>2, <2>3, Zenon
<1>5. 0 \in P
  BY <1>3, Zenon
<1>6. n \in P
  <2> HIDE DEF P
  <2> QED
    BY <1>3, <1>4, <1>5, Induction, Zenon
<1>7. Evaluated(n, operands, operators, n, state[n])
  BY <1>3, <1>6, Zenon
<1>b. Matrix!ClearedTwice(operands, operators) <=> ClearedBy(operands, operators, n)
  BY <1>1, Zenon DEF Matrix!ClearedTwice, ClearedBy
<1>c. ASSUME ClearedBy(operands, operators, n)
      PROVE  value = Matrix!FreedTwice
  BY <1>2, <1>7, <1>c, Zenon DEF Evaluated, ValueAt, value
<1>8. ASSUME ~ClearedBy(operands, operators, n)
      PROVE  Summed(operands, operators, n + 2, value)
  <2>1. \/ OnlyProducts(operands, operators, n, state[n])
        \/ SumAndTerm(n, operands, operators, n, state[n])
    BY <1>7, <1>8, Zenon DEF Evaluated
  <2>2. Summed(operands, operators, n + 2, ClosedAt(state[n]))
    BY <1>3, <2>1, Closed
  <2>3. state[n].A # Matrix!FreedTwice
    BY <1>3, <2>1, NotYetFreed, Zenon
  <2> QED
    BY <1>2, <2>2, <2>3, Zenon DEF ValueAt, value
<1>9. \A b \in Matrix!Begins(operators) : b < n + 2
  <2> TAKE b \in Matrix!Begins(operators)
  <2>1. b = 1 \/ b \in 2 .. n + 1
    BY BeginsAre, Zenon
  <2> QED
    BY <2>1
<1>10. WrongBefore(operands, operators, n + 2) <=>
         \E b \in Matrix!Begins(operators) : Matrix!TermAt(operands, operators, b) = Matrix!Error
  BY <1>9, Zenon DEF WrongBefore
<1>11. CASE ~ClearedBy(operands, operators, n) /\ WrongBefore(operands, operators, n + 2)
  <2>1. value = Matrix!Error
    BY <1>8, <1>11, Zenon DEF Summed
  <2> QED
    BY <1>b, <1>10, <1>11, <2>1, Zenon DEF value
<1>12. CASE ~ClearedBy(operands, operators, n) /\ ~WrongBefore(operands, operators, n + 2)
  <2>1. SummedTo(operands, operators, n + 2, value)
    BY <1>8, <1>12, Zenon DEF Summed
  <2>2. PICK r, c \in Nat \ {0} :
          /\ value \in MatrixOf(r, c) /\ T \in MatrixOf(r, c)
          /\ \A i \in 1 .. r, j \in 1 .. c :
               value[i][j] = Partial(operands, operators, i, j)[(n + 2) - 1]
    BY <2>1, Zenon DEF SummedTo
  <2> HIDE DEF T
  <2>3. /\ Matrix!Rows(value) = r /\ Matrix!Columns(value) = c /\ value # Matrix!Error
        /\ Matrix!Rows(T) = r /\ Matrix!Columns(T) = c
    BY <2>2, MatrixSize, Zenon
  <2>4. Matrix!SameSize(value, T)
    BY <2>3, Zenon DEF Matrix!SameSize
  <2>5. (n + 2) - 1 = n + 1 /\ n + 1 \in Nat
    OBVIOUS
  <2>6. ASSUME NEW i \in 1 .. r, NEW j \in 1 .. c
        PROVE  value[i][j] = Matrix!SignedSum(operands, operators, i, j)
    <3>1. Matrix!SignedSum(operands, operators, i, j) =
            Partial(operands, operators, i, j)[n + 1]
      BY <1>1, <2>5, PartialIs, Zenon
    <3> QED
      BY <2>2, <2>5, <3>1, Zenon
  <2> QED
    BY <1>b, <1>10, <1>12, <2>3, <2>4, <2>6, Zenon DEF value, T
<1> QED
  BY <1>b, <1>c, <1>11, <1>12, Zenon DEF value

(* ValueRight, for every expression of matrices: the value that evaluate,  *)
(* reading it from left to right with one operator of look-ahead, comes to *)
(* is the signed sum of the products, and a misfit among them is an error; *)
(* a matrix is freed twice if and only if the misfit is in a product that  *)
(* begins the expression and has another factor behind it.                 *)
THEOREM ExpressionsAreRight ==
  ASSUME program \in {"expression2", "expression4"} =>
           \E n \in Nat \ {0} : ExpressionOf(n, problem[1], problem[2])
  PROVE  ValueRight
BY ValueIsRight, Zenon DEF ValueRight

=============================================================================
