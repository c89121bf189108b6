---------------------------- MODULE CircularQueue ----------------------------
(***************************************************************************)
(* The growable circular queue of homework 7 (queue.c).  A full queue is   *)
(* made twice as long by realloc, which leaves every cell where it is; a   *)
(* queue filled to less than a third is copied to an array of its size.    *)
(* A call is one step.                                                     *)
(***************************************************************************)
EXTENDS Integers, Sequences

CONSTANTS
  Capacities,    \* the sizes the program may ask for
  Entries,       \* what it stores
  Indices,       \* positions it asks for
  MaxAllocated,  \* bound: cells of the array
  Garbage,       \* what a cell holds before it is written
  NULL

ASSUME CircularAssumption ==
  /\ Capacities \subseteq Nat \ {0}
  /\ Indices \subseteq Int
  /\ MaxAllocated \in Nat

VARIABLES
  data, allocated, head, size,
  result,        \* what the last call returned
  fifo,          \* for the properties: the entries that should be stored,
  moved          \* and the positions that growth has put out of place

vars == <<data, allocated, head, size, result, fifo, moved>>

Cells(n) == 0 .. n - 1

(* create_queue                                                            *)
Init ==
  /\ allocated \in Capacities
  /\ data = [c \in Cells(allocated) |-> Garbage]
  /\ head = 0 /\ size = 0
  /\ result = NULL
  /\ fifo = << >> /\ moved = {}

(* A plausible slip: the last cell is taken for the one past the end.      *)
CellEarly(idx, n) == IF head + idx >= n - 1 THEN idx - (n - head) ELSE head + idx

(* The cell of the idx-th element in an array of n cells.                  *)
Cell(idx, n) == IF head + idx >= n THEN idx - (n - head) ELSE head + idx

Stored(idx) == data[Cell(idx, allocated)]

(* Bound: MaxAllocated.                                                    *)
Grows == size = allocated
Grown == IF Grows THEN 2 * allocated ELSE allocated

(* A plausible slip: the array is not made longer.                         *)
PushWithoutGrowing(entry) ==
  /\ data' = [data EXCEPT ![Cell(size, allocated)] = entry]
  /\ size' = size + 1
  /\ result' = TRUE
  /\ fifo' = Append(fifo, entry)
  /\ UNCHANGED <<allocated, head, moved>>

(* push_to_queue.  The cells past the old end are garbage, and so are now  *)
(* the elements that had wrapped to the front: positions from              *)
(* allocated - head on.                                                    *)
Push(entry) ==
  /\ Grown <= MaxAllocated
  /\ allocated' = Grown
  /\ data' = [c \in Cells(Grown) |->
                IF c = Cell(size, Grown) THEN entry
                ELSE IF c < allocated THEN data[c] ELSE Garbage]
  /\ size' = size + 1
  /\ result' = TRUE
  /\ fifo' = Append(fifo, entry)
  /\ moved' = IF Grows THEN moved \union (allocated - head) .. (size - 1) ELSE moved
  /\ UNCHANGED head

(* pop_from_queue of a queue that is not empty: the head advances, and if  *)
(* less than a third is used, the elements are copied to the start of a    *)
(* smaller array.                                                          *)
Pop ==
  /\ size # 0
  /\ LET next == IF head + 1 # allocated THEN head + 1 ELSE 0
         left == size - 1
     IN  /\ result' = data[head]
         /\ size' = left
         /\ IF left < allocated \div 3 /\ left # 0
              THEN /\ data' = [c \in Cells(left) |-> Stored(c + 1)]
                   /\ head' = 0
                   /\ allocated' = left
              ELSE /\ head' = next
                   /\ UNCHANGED <<data, allocated>>
  /\ fifo' = Tail(fifo)
  /\ moved' = {idx - 1 : idx \in moved \ {0}}

PopEmpty ==
  /\ size = 0
  /\ result' = NULL
  /\ UNCHANGED <<data, allocated, head, size, fifo, moved>>

Get(idx) ==
  /\ result' = IF idx < 0 \/ idx >= size THEN NULL ELSE Stored(idx)
  /\ UNCHANGED <<data, allocated, head, size, fifo, moved>>

Next ==
  \/ \E entry \in Entries : Push(entry)
  \/ Pop \/ PopEmpty
  \/ \E idx \in Indices : Get(idx)

Spec == Init /\ [][Next]_vars

-----------------------------------------------------------------------------
(* Properties                                                              *)

(* Types; head is a cell, and there are no more elements than cells.       *)
TypeOK ==
  /\ allocated \in Nat \ {0}
  /\ data \in [Cells(allocated) -> Entries \union {Garbage}]
  /\ head \in Cells(allocated)
  /\ size \in 0 .. allocated

(* Every element the queue has is read from a cell of the array, and no    *)
(* two from the same one, after any growing and shrinking.                 *)
CellsDistinct ==
  /\ \A i \in 0 .. size - 1 : Cell(i, allocated) \in Cells(allocated)
  /\ \A i, j \in 0 .. size - 1 :
       Cell(i, allocated) = Cell(j, allocated) => i = j

(* Growing harms only the elements that had wrapped to the front; all      *)
(* others, and all that are pushed later, keep their value and their turn, *)
(* whatever is grown, shrunk or popped in between.                         *)
OnlyWrappedAreLost ==
  /\ Len(fifo) = size
  /\ \A i \in 0 .. size - 1 : i \notin moved => Stored(i) = fifo[i + 1]

(* What queue.h says of pop_from_queue: it gets the first element.         *)
FirstIsPopped == [][size' < size => result' = Head(fifo)]_vars
=============================================================================
