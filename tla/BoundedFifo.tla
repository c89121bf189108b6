---------------------------- MODULE BoundedFifo ----------------------------
(***************************************************************************)
(* What the event queue of the PC application promises its callers: a      *)
(* linearizable bounded FIFO.  Every call of queue_push or queue_pop takes *)
(* effect at one instant between its start and its return; a push waits    *)
(* for room, a pop waits for an event, and events leave in the order in    *)
(* which they entered.                                                     *)
(***************************************************************************)
EXTENDS Naturals, Sequences

CONSTANTS Threads,     \* the threads that call the queue
          Events,      \* the events the queue carries
          NoEvent,     \* the value of a call that carries no event (yet)
          Capacity     \* the number of events the queue can hold

VARIABLES items,       \* the events in the queue, oldest first
          call,        \* per thread: the call in progress and its state
          value        \* per thread: the event of that call

vars == <<items, call, value>>

Init ==
  /\ items = << >>
  /\ call = [t \in Threads |-> "none"]
  /\ value = [t \in Threads |-> NoEvent]

BeginPush(t, e) ==
  /\ call[t] = "none"
  /\ call' = [call EXCEPT ![t] = "push"]
  /\ value' = [value EXCEPT ![t] = e]
  /\ UNCHANGED items

BeginPop(t) ==
  /\ call[t] = "none"
  /\ call' = [call EXCEPT ![t] = "pop"]
  /\ value' = [value EXCEPT ![t] = NoEvent]
  /\ UNCHANGED items

DoPush(t) ==
  /\ call[t] = "push"
  /\ Len(items) < Capacity
  /\ items' = Append(items, value[t])
  /\ call' = [call EXCEPT ![t] = "done"]
  /\ UNCHANGED value

DoPop(t) ==
  /\ call[t] = "pop"
  /\ items # << >>
  /\ value' = [value EXCEPT ![t] = Head(items)]
  /\ items' = Tail(items)
  /\ call' = [call EXCEPT ![t] = "done"]

Return(t) ==
  /\ call[t] = "done"
  /\ call' = [call EXCEPT ![t] = "none"]
  /\ UNCHANGED <<items, value>>

Next ==
  \E t \in Threads :
    \/ \E e \in Events : BeginPush(t, e)
    \/ BeginPop(t)
    \/ DoPush(t)
    \/ DoPop(t)
    \/ Return(t)

Spec == Init /\ [][Next]_vars
=============================================================================
