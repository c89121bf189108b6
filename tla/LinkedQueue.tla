----------------------------- MODULE LinkedQueue -----------------------------
(***************************************************************************)
(* The linked queue of homework 6 (linked_list.c, and queue.c, which is the*)
(* same with pointers for the integers): nodes in the heap, a pointer to   *)
(* each end, and a counter of its own.  A call is one step.                *)
(***************************************************************************)
EXTENDS Integers, Sequences, FiniteSets, FiniteSetsExt, Functions

CONSTANTS
  Entries,   \* integers the program pushes, inserts and erases
  Indices,   \* positions it asks for
  Nodes,     \* bound: nodes malloc can give before it returns NULL
  NULL, None

(* What the constants must be; assumed where there is an instance.         *)
LinkedAssumption == Entries \union Indices \subseteq Int /\ NULL \notin Nodes

VARIABLES
  heap,      \* the nodes that are allocated, each with value and next
  head, tail, mysize,
  result     \* what the last call returned

vars == <<heap, head, tail, mysize, result>>

Init ==
  /\ heap = << >>
  /\ head = NULL /\ tail = NULL /\ mysize = 0
  /\ result = None

Free == Nodes \ DOMAIN heap
Node(v, n) == [value |-> v, next |-> n]

(* malloc returns some node that is free.                                  *)
Malloc(n) == n \in Free
OutOfMemory == Free = {} /\ result' = 0 /\ UNCHANGED <<heap, head, tail, mysize>>

(* A heap with one more node.                                              *)
With(n, node) == [m \in DOMAIN heap \union {n} |-> IF m = n THEN node ELSE heap[m]]

(* The nodes one meets from n on; no walk is longer than the heap is large.*)
Following(h, n) == IF n = NULL THEN NULL ELSE h[n].next
From(h, n) ==
  LET met[k \in Nat] == IF k <= 1 THEN n ELSE Following(h, met[k - 1])
  IN  [k \in {i \in 1 .. Cardinality(DOMAIN h) : met[i] # NULL} |-> met[k]]

(* The first node from n on whose value is not v.                          *)
Skip(h, n, v) ==
  LET met == From(h, n)
      others == {k \in DOMAIN met : h[met[k]].value # v}
  IN  IF others = {} THEN NULL ELSE met[Min(others)]

-----------------------------------------------------------------------------
Push(v) ==
  \/ v < 0 /\ result' = 0 /\ UNCHANGED <<heap, head, tail, mysize>>
  \/ v >= 0 /\ OutOfMemory
  \/ \E n \in Free :
       /\ v >= 0
       /\ heap' = [m \in DOMAIN heap \union {n} |->
                     CASE m = n -> Node(v, NULL)
                       [] m = tail /\ m # n -> [heap[m] EXCEPT !.next = n]
                       [] OTHER -> heap[m]]
       /\ tail' = n
       /\ head' = IF head = NULL THEN n ELSE head
       /\ mysize' = mysize + 1
       /\ result' = 1

(* A plausible slip: the tail is left pointing at the node that was freed. *)
PopKeepingTail ==
  /\ mysize # 0
  /\ head' = heap[head].next
  /\ result' = heap[head].value
  /\ heap' = [m \in DOMAIN heap \ {head} |-> heap[m]]
  /\ mysize' = mysize - 1
  /\ UNCHANGED tail

Pop ==
  \/ mysize = 0 /\ result' = -1 /\ UNCHANGED <<heap, head, tail, mysize>>
  \/ /\ mysize # 0
     /\ head' = heap[head].next
     /\ result' = heap[head].value
     /\ heap' = [m \in DOMAIN heap \ {head} |-> heap[m]]
     /\ mysize' = mysize - 1
     /\ tail' = IF mysize' = 0 THEN NULL ELSE tail

(* A plausible slip: the search stops behind the first node not above v.   *)
LastAboveLate(h, n, v) ==
  LET met == From(h, n)
      stops == {k \in DOMAIN met : k = Len(met) \/ h[met[k]].value <= v}
  IN  met[Min(stops)]

(* The node after which v belongs, if it does not become the head.         *)
LastAbove(h, n, v) ==
  LET met == From(h, n)
      stops == {k \in DOMAIN met : k = Len(met) \/ h[met[k + 1]].value <= v}
  IN  met[Min(stops)]

Insert(v) ==
  \/ OutOfMemory
  \/ \E n \in Free :
       /\ mysize' = mysize + 1
       /\ result' = 1
       /\ \/ /\ head = NULL
             /\ heap' = With(n, Node(v, NULL))
             /\ head' = n /\ tail' = n
          \/ /\ head # NULL
             /\ heap[head].value <= v
             /\ heap' = With(n, Node(v, head))
             /\ head' = n
             /\ UNCHANGED tail
          \/ /\ head # NULL
             /\ heap[head].value > v
             /\ LET temp == LastAbove(heap, head, v)
                IN  /\ heap' = [With(n, Node(v, heap[temp].next))
                                  EXCEPT ![temp].next = n]
                    /\ tail' = IF heap[temp].next = NULL THEN n ELSE tail
             /\ UNCHANGED head

(* Both loops: nodes with the value are unlinked and freed, and the tail is*)
(* the last of those that stay.                                            *)
Erase(v) ==
  LET gone == {n \in DOMAIN heap : heap[n].value = v}
      met == From(heap, head)
      kept == {k \in DOMAIN met : met[k] \notin gone}
  IN  /\ heap' = [n \in DOMAIN heap \ gone |->
                    Node(heap[n].value, Skip(heap, heap[n].next, v))]
      /\ head' = Skip(heap, head, v)
      /\ tail' = IF kept = {} THEN NULL ELSE met[Max(kept)]
      /\ mysize' = mysize - Cardinality(gone)
      /\ result' = IF gone = {} THEN 0 ELSE 1

GetEntry(idx) ==
  /\ result' = IF idx < 0 \/ idx >= mysize THEN -1 ELSE heap[From(heap, head)[idx + 1]].value
  /\ UNCHANGED <<heap, head, tail, mysize>>

Clear ==
  /\ heap' = [n \in DOMAIN heap \ Range(From(heap, head)) |-> heap[n]]
  /\ head' = NULL /\ tail' = NULL /\ mysize' = 0
  /\ result' = None

Next ==
  \/ \E v \in Entries : Push(v) \/ Insert(v) \/ Erase(v)
  \/ Pop \/ Clear
  \/ \E idx \in Indices : GetEntry(idx)

Spec == Init /\ [][Next]_vars

-----------------------------------------------------------------------------
(* Properties                                                              *)

(* The three records of the queue agree, which each call mends for itself: *)
(* the chain from head ends at tail, has mysize nodes, and holds all that  *)
(* is allocated (nothing leaks, nothing freed is linked).                  *)
WellLinked ==
  LET chain == From(heap, head)
  IN  /\ mysize = Len(chain)
      /\ Range(chain) = DOMAIN heap /\ Cardinality(DOMAIN heap) = Len(chain)
      /\ tail = IF chain = << >> THEN NULL ELSE chain[Len(chain)]

(* Call by call the queue does what its header promises.                   *)
Promised == INSTANCE OrderedQueue WITH
  entries <- [k \in DOMAIN From(heap, head) |-> heap[From(heap, head)[k]].value]
ImplementsOrderedQueue == Promised!Spec
=============================================================================
