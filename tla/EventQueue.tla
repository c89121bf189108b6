----------------------------- MODULE EventQueue -----------------------------
(***************************************************************************)
(* The event queue of the PC application (event_queue.c): a circular array *)
(* with two indices, one mutex and one condition variable shared by the    *)
(* threads that wait for room and the threads that wait for an event.      *)
(*                                                                         *)
(* A step is what a thread does without another thread being able to see   *)
(* the middle of it.  The mutex is explicit because queue_cleanup reads    *)
(* the indices without holding it.                                         *)
(***************************************************************************)
EXTENDS Naturals, Sequences

CONSTANTS
  Pushers,          \* threads that call queue_push
  Poppers,          \* threads that call queue_pop and queue_cleanup
  Events,           \* the events the clients push
  NoEvent,          \* { .source = EV_NUM, .type = EV_TYPE_NUM }
  NoThread,         \* owner of the free mutex
  QUEUE_CAPACITY,   \* length of the array
  Spurious          \* may pthread_cond_wait return without a broadcast?

Threads == Pushers \union Poppers

ASSUME QueueAssumption ==
  /\ QUEUE_CAPACITY \in Nat /\ QUEUE_CAPACITY >= 2
  /\ Spurious \in BOOLEAN
  /\ NoThread \notin Threads
  /\ NoEvent \notin Events

VARIABLES
  queue,            \* the array
  in, out,          \* next cell to write, next cell to read
  mtx,              \* the thread that holds q.mtx
  pc,               \* where each thread is in its call
  ev,               \* per thread: the event pushed, or the one returned
  cleaning          \* per thread: is it inside queue_cleanup?

vars == <<queue, in, out, mtx, pc, ev, cleaning>>

Cells == 0 .. QUEUE_CAPACITY - 1
After(i) == (i + 1) % QUEUE_CAPACITY
Full == After(in) = out
Empty == in = out

Init ==
  /\ queue = [i \in Cells |-> NoEvent]
  /\ in = 0
  /\ out = 0
  /\ mtx = NoThread
  /\ pc = [t \in Threads |-> "idle"]
  /\ ev = [t \in Threads |-> NoEvent]
  /\ cleaning = [t \in Threads |-> FALSE]

-----------------------------------------------------------------------------
(* Steps shared by push and pop.                                           *)

Goto(t, label) == pc' = [pc EXCEPT ![t] = label]

(* pthread_mutex_lock, and the reacquisition when pthread_cond_wait ends.  *)
Lock(t, from, to) ==
  /\ pc[t] = from
  /\ mtx = NoThread
  /\ mtx' = t
  /\ Goto(t, to)
  /\ UNCHANGED <<queue, in, out, ev, cleaning>>

(* pthread_cond_wait: release the mutex and wait, in one step.             *)
CondWait(t, to) ==
  /\ mtx' = NoThread
  /\ Goto(t, to)
  /\ UNCHANGED <<queue, in, out, ev, cleaning>>

(* What a thread does once it is woken up: compete for the mutex again.    *)
Woken(label) ==
  CASE label = "push_wait" -> "push_lock"
    [] label = "pop_wait" -> "pop_lock"
    [] OTHER -> label

(* A plausible slip: pthread_cond_signal, which wakes one waiting thread.  *)
SignalInstead(t, to) ==
  /\ \/ \E u \in Threads \ {t} :
          /\ pc[u] \in {"push_wait", "pop_wait"}
          /\ pc' = [pc EXCEPT ![u] = Woken(pc[u]), ![t] = to]
     \/ /\ \A u \in Threads : pc[u] \notin {"push_wait", "pop_wait"}
        /\ Goto(t, to)
  /\ UNCHANGED <<queue, in, out, mtx, ev, cleaning>>

(* pthread_cond_broadcast wakes every waiting thread.                      *)
Broadcast(t, to) ==
  /\ pc' = [u \in Threads |-> IF u = t THEN to ELSE Woken(pc[u])]
  /\ UNCHANGED <<queue, in, out, mtx, ev, cleaning>>

Unlock(t, to) ==
  /\ mtx' = NoThread
  /\ Goto(t, to)
  /\ UNCHANGED <<queue, in, out, ev, cleaning>>

-----------------------------------------------------------------------------
(* queue_push                                                              *)

CallPush(t, e) ==
  /\ t \in Pushers
  /\ pc[t] = "idle"
  /\ ev' = [ev EXCEPT ![t] = e]
  /\ Goto(t, "push_lock")
  /\ UNCHANGED <<queue, in, out, mtx, cleaning>>

PushWait(t) ==
  /\ pc[t] = "push_test"
  /\ Full
  /\ CondWait(t, "push_wait")

(* A plausible slip: the condition is not tested again after the wait.     *)
PushStoreUntested(t) ==
  /\ pc[t] = "push_test"
  /\ queue' = [queue EXCEPT ![in] = ev[t]]
  /\ in' = After(in)
  /\ Goto(t, "push_broadcast")
  /\ UNCHANGED <<out, mtx, ev, cleaning>>

PushStore(t) ==
  /\ pc[t] = "push_test"
  /\ ~Full
  /\ queue' = [queue EXCEPT ![in] = ev[t]]
  /\ in' = After(in)
  /\ Goto(t, "push_broadcast")
  /\ UNCHANGED <<out, mtx, ev, cleaning>>

PushBroadcast(t) == pc[t] = "push_broadcast" /\ Broadcast(t, "push_unlock")

(* A plausible slip: the push returns without unlocking.                   *)
PushUnlockForgotten(t) ==
  /\ pc[t] = "push_unlock"
  /\ Goto(t, "idle")
  /\ UNCHANGED <<queue, in, out, mtx, ev, cleaning>>

PushUnlock(t) == pc[t] = "push_unlock" /\ Unlock(t, "idle")

PushStep(t) ==
  \/ Lock(t, "push_lock", "push_test")
  \/ PushWait(t)
  \/ PushStore(t)
  \/ PushBroadcast(t)
  \/ PushUnlock(t)

-----------------------------------------------------------------------------
(* queue_pop                                                               *)

CallPop(t) ==
  /\ t \in Poppers
  /\ pc[t] = "idle"
  /\ ev' = [ev EXCEPT ![t] = NoEvent]
  /\ Goto(t, "pop_lock")
  /\ UNCHANGED <<queue, in, out, mtx, cleaning>>

PopWait(t) ==
  /\ pc[t] = "pop_test"
  /\ Empty
  /\ CondWait(t, "pop_wait")

PopTake(t) ==
  /\ pc[t] = "pop_test"
  /\ ~Empty
  /\ ev' = [ev EXCEPT ![t] = queue[out]]
  /\ out' = After(out)
  /\ Goto(t, "pop_broadcast")
  /\ UNCHANGED <<queue, in, mtx, cleaning>>

PopBroadcast(t) == pc[t] = "pop_broadcast" /\ Broadcast(t, "pop_unlock")

PopUnlock(t) ==
  /\ pc[t] = "pop_unlock"
  /\ Unlock(t, IF cleaning[t] THEN "clean_test" ELSE "idle")

PopStep(t) ==
  \/ Lock(t, "pop_lock", "pop_test")
  \/ PopWait(t)
  \/ PopTake(t)
  \/ PopBroadcast(t)
  \/ PopUnlock(t)

-----------------------------------------------------------------------------
(* queue_cleanup: its loop condition reads in and out without the mutex.   *)
(* The caller does not use the queue again afterwards ("closed").          *)

CallCleanup(t) ==
  /\ t \in Poppers
  /\ pc[t] = "idle"
  /\ cleaning' = [cleaning EXCEPT ![t] = TRUE]
  /\ Goto(t, "clean_test")
  /\ UNCHANGED <<queue, in, out, mtx, ev>>

(* A plausible slip: a do-while loop, which pops before it looks.          *)
CleanTestLate(t) ==
  /\ pc[t] = "clean_test"
  /\ Goto(t, "pop_lock")
  /\ ev' = [ev EXCEPT ![t] = NoEvent]
  /\ UNCHANGED <<queue, in, out, mtx, cleaning>>

CleanTest(t) ==
  /\ pc[t] = "clean_test"
  /\ IF Empty
       THEN /\ Goto(t, "closed")
            /\ cleaning' = [cleaning EXCEPT ![t] = FALSE]
            /\ UNCHANGED ev
       ELSE /\ Goto(t, "pop_lock")
            /\ ev' = [ev EXCEPT ![t] = NoEvent]
            /\ UNCHANGED cleaning
  /\ UNCHANGED <<queue, in, out, mtx>>

-----------------------------------------------------------------------------
(* POSIX lets a wait end on its own; both loops test their condition again. *)
SpuriousWakeup(t) ==
  /\ Spurious
  /\ pc[t] \in {"push_wait", "pop_wait"}
  /\ Goto(t, Woken(pc[t]))
  /\ UNCHANGED <<queue, in, out, mtx, ev, cleaning>>

Step(t) == PushStep(t) \/ PopStep(t) \/ CleanTest(t)

Next ==
  \E t \in Threads :
    \/ \E e \in Events : CallPush(t, e)
    \/ CallPop(t)
    \/ CallCleanup(t)
    \/ Step(t)
    \/ SpuriousWakeup(t)

Spec == Init /\ [][Next]_vars

(* A thread inside a call goes on; nobody is obliged to start a call.      *)
FairSpec == Spec /\ \A t \in Threads : WF_vars(Step(t))

-----------------------------------------------------------------------------
(* Properties                                                              *)

Labels == {"idle", "push_lock", "push_test", "push_wait", "push_broadcast",
           "push_unlock", "pop_lock", "pop_test", "pop_wait", "pop_broadcast",
           "pop_unlock", "clean_test", "closed"}

\* Steps that run with q.mtx held, and steps between a change of the
\* indices and the broadcast that announces it.
Critical == {"push_test", "push_broadcast", "push_unlock",
             "pop_test", "pop_broadcast", "pop_unlock"}
Announcing == {"push_broadcast", "pop_broadcast"}

(* Every variable has its type, and the mutex is held by exactly the       *)
(* thread that is between lock and unlock of event_queue.c.                *)
TypeOK ==
  /\ queue \in [Cells -> Events \union {NoEvent}]
  /\ in \in Cells
  /\ out \in Cells
  /\ mtx \in Threads \union {NoThread}
  /\ pc \in [Threads -> Labels]
  /\ ev \in [Threads -> Events \union {NoEvent}]
  /\ cleaning \in [Threads -> BOOLEAN]
  /\ \A t \in Threads : pc[t] \in Critical <=> mtx = t

(* No lost wakeup.  A thread sleeps in queue_push only while the queue is  *)
(* full and in queue_pop only while it is empty; the one exception is the  *)
(* moment between the change of an index and the broadcast.                *)
NoLostWakeup ==
  (\A t \in Threads : pc[t] \notin Announcing) =>
     \A t \in Threads : /\ pc[t] = "push_wait" => Full
                        /\ pc[t] = "pop_wait" => Empty

(* queue_cleanup tests the indices without the mutex and then calls the    *)
(* blocking queue_pop.  That is safe as long as the caller is the only     *)
(* thread that pops: its pop never has to wait.                            *)
CleanupNeverWaits ==
  (\A t, u \in Poppers : t = u) =>
     \A t \in Poppers :
        cleaning[t] /\ pc[t] \in {"pop_lock", "pop_test", "pop_wait"} => ~Empty

(* A pop that finds an event returns, whatever the other threads do (with  *)
(* one popper: two of them may take the event from each other), unless     *)
(* waits keep ending on their own for ever.                                *)
PopReturns ==
  <>[][\A t \in Threads : ~SpuriousWakeup(t)]_vars =>
    \A t \in Poppers :
      (pc[t] \in {"pop_lock", "pop_test", "pop_wait"} /\ ~Empty)
        ~> pc[t] \in {"idle", "clean_test"}

-----------------------------------------------------------------------------
(* The queue implements a linearizable bounded FIFO that holds one event   *)
(* less than the array has cells.  A push takes effect when it stores, a   *)
(* pop when it takes.                                                      *)
Count == (in + QUEUE_CAPACITY - out) % QUEUE_CAPACITY

Items == [i \in 1 .. Count |-> queue[(out + i - 1) % QUEUE_CAPACITY]]

CallState(label) ==
  CASE label \in {"push_lock", "push_test", "push_wait"} -> "push"
    [] label \in {"pop_lock", "pop_test", "pop_wait"} -> "pop"
    [] label \in {"push_broadcast", "push_unlock",
                  "pop_broadcast", "pop_unlock"} -> "done"
    [] OTHER -> "none"

Fifo == INSTANCE BoundedFifo WITH
          Capacity <- QUEUE_CAPACITY - 1,
          items <- Items,
          call <- [t \in Threads |-> CallState(pc[t])],
          value <- ev

(* Every behaviour of the array, mutex and condition variable is one of    *)
(* the bounded FIFO that event_queue.h offers.                             *)
ImplementsFifo == Fifo!Spec
=============================================================================
