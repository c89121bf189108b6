-------------------------- MODULE EventQueueProofs --------------------------
(***************************************************************************)
(* Theorems about the event queue, for any number of threads, any array    *)
(* length of at least two and any events.                                  *)
(***************************************************************************)
EXTENDS EventQueue, TLAPS

(* The successor of a cell is a cell.                                      *)
LEMMA AfterInCells ==
  ASSUME NEW i \in Cells
  PROVE  After(i) \in Cells
  BY QueueAssumption, SMT DEF Cells, After

(* A thread that wakes up lands on a label, and never inside the mutex.    *)
LEMMA WokenLabel ==
  ASSUME NEW l \in Labels
  PROVE  /\ Woken(l) \in Labels
         /\ Woken(l) \in Critical <=> l \in Critical
         /\ Woken(l) \notin {"push_wait", "pop_wait"}
         /\ Woken(l) \in Announcing => l \in Announcing
  BY Zenon DEF Labels, Woken, Critical, Announcing

-----------------------------------------------------------------------------
(* The empty queue with all threads idle has its type.                     *)
LEMMA TypeInit == Init => TypeOK
  BY QueueAssumption, SMT DEF Init, TypeOK, Cells, Labels, Critical

(* Every step of queue_push, queue_pop and queue_cleanup keeps the type.   *)
LEMMA TypeStep == TypeOK /\ [Next]_vars => TypeOK'
<1> SUFFICES ASSUME TypeOK, [Next]_vars PROVE TypeOK'
  OBVIOUS
<1> USE QueueAssumption DEF TypeOK
<1>1. CASE UNCHANGED vars
  BY <1>1 DEF vars, Cells
<1>2. ASSUME NEW t \in Threads, NEW e \in Events, CallPush(t, e)
      PROVE  TypeOK'
  BY <1>2, SMT DEF CallPush, Goto, Labels, Critical
<1>3. ASSUME NEW t \in Threads, CallPop(t)
      PROVE  TypeOK'
  BY <1>3, SMT DEF CallPop, Goto, Labels, Critical
<1>4. ASSUME NEW t \in Threads, CallCleanup(t)
      PROVE  TypeOK'
  BY <1>4, SMT DEF CallCleanup, Goto, Labels, Critical
<1>5. ASSUME NEW t \in Threads, NEW from, NEW to, Lock(t, from, to),
             <<from, to>> \in {<<"push_lock", "push_test">>,
                               <<"pop_lock", "pop_test">>}
      PROVE  TypeOK'
  BY <1>5, SMT DEF Lock, Goto, Labels, Critical
<1>6. ASSUME NEW t \in Threads, PushWait(t) \/ PopWait(t)
      PROVE  TypeOK'
  BY <1>6, SMT DEF PushWait, PopWait, CondWait, Goto, Labels, Critical
<1>7. ASSUME NEW t \in Threads, PushStore(t)
      PROVE  TypeOK'
  BY <1>7, AfterInCells, SMT DEF PushStore, Goto, Labels, Critical
<1>8. ASSUME NEW t \in Threads, PopTake(t)
      PROVE  TypeOK'
  BY <1>8, AfterInCells, SMT DEF PopTake, Goto, Labels, Critical
<1>9. ASSUME NEW t \in Threads, PushBroadcast(t) \/ PopBroadcast(t)
      PROVE  TypeOK'
  <2>1. PICK to \in {"push_unlock", "pop_unlock"} :
           pc[t] \in Critical /\ Broadcast(t, to)
    BY <1>9 DEF PushBroadcast, PopBroadcast, Critical
  <2>2. to \in Labels /\ to \in Critical
    BY <2>1 DEF Labels, Critical
  <2>3. \A u \in Threads : /\ pc'[u] \in Labels
                           /\ pc'[u] \in Critical <=> pc[u] \in Critical
    BY <2>1, <2>2, WokenLabel DEF Broadcast
  <2>4. pc' \in [Threads -> Labels]
    BY <2>1, <2>3 DEF Broadcast
  <2> QED
    BY <2>1, <2>3, <2>4 DEF Broadcast, Cells
<1>10. ASSUME NEW t \in Threads, PushUnlock(t) \/ PopUnlock(t)
       PROVE  TypeOK'
  BY <1>10, SMT DEF PushUnlock, PopUnlock, Unlock, Goto, Labels, Critical
<1>11. ASSUME NEW t \in Threads, CleanTest(t)
       PROVE  TypeOK'
  <2>1. PICK label \in {"closed", "pop_lock"} : Goto(t, label)
    BY <1>11 DEF CleanTest
  <2>2. /\ ev' \in [Threads -> Events \union {NoEvent}]
        /\ cleaning' \in [Threads -> BOOLEAN]
    BY <1>11 DEF CleanTest
  <2>3. pc[t] = "clean_test" /\ UNCHANGED <<queue, in, out, mtx>>
    BY <1>11 DEF CleanTest
  <2>4. pc' \in [Threads -> Labels]
    BY <2>1 DEF Goto, Labels
  <2>5. \A u \in Threads : pc'[u] \in Critical <=> mtx' = u
    BY <2>1, <2>3, SMT DEF Goto, Critical
  <2> QED
    BY <2>2, <2>3, <2>4, <2>5 DEF Cells
<1>12. ASSUME NEW t \in Threads, SpuriousWakeup(t)
       PROVE  TypeOK'
  BY <1>12, SMT DEF SpuriousWakeup, Goto, Woken, Labels, Critical
<1> QED
  BY <1>1, <1>2, <1>3, <1>4, <1>5, <1>6, <1>7, <1>8, <1>9, <1>10, <1>11, <1>12
     DEF Next, Step, PushStep, PopStep

(* Type correctness, and mutual exclusion of the sections between lock and *)
(* unlock in queue_push and queue_pop.                                     *)
THEOREM TypeCorrect == Spec => []TypeOK
  BY TypeInit, TypeStep, PTL DEF Spec

-----------------------------------------------------------------------------
(* The inductive form of NoLostWakeup: at most the holder of the mutex can *)
(* be between an index and its broadcast, so type correctness suffices to  *)
(* carry it over every step.                                               *)
LEMMA WakeupStep == TypeOK /\ NoLostWakeup /\ [Next]_vars => NoLostWakeup'
<1> SUFFICES ASSUME TypeOK, NoLostWakeup, [Next]_vars,
                    \A t \in Threads : pc'[t] \notin Announcing,
                    NEW u \in Threads
             PROVE  /\ pc'[u] = "push_wait" => Full'
                    /\ pc'[u] = "pop_wait" => Empty'
  BY DEF NoLostWakeup
<1> USE DEF TypeOK, Announcing
<1>1. CASE UNCHANGED vars
  BY <1>1 DEF vars, NoLostWakeup, Full, Empty, After
\* A step that leaves the indices alone, enters no wait and neither starts
\* nor ends an announcement.
<1>2. ASSUME NEW t \in Threads, NEW label \in Labels, Goto(t, label),
             pc[t] \notin Announcing, UNCHANGED <<in, out>>,
             label \notin {"push_wait", "pop_wait"}
      PROVE  /\ pc'[u] = "push_wait" => Full'
             /\ pc'[u] = "pop_wait" => Empty'
  BY <1>2, SMT DEF Goto, NoLostWakeup, Full, Empty, After
<1>3. ASSUME NEW t \in Threads, PushWait(t) \/ PopWait(t)
      PROVE  /\ pc'[u] = "push_wait" => Full'
             /\ pc'[u] = "pop_wait" => Empty'
  BY <1>3, SMT
     DEF PushWait, PopWait, CondWait, Goto, NoLostWakeup, Full, Empty, After
<1>4. ASSUME NEW t \in Threads, PushStore(t) \/ PopTake(t)
      PROVE  FALSE
  BY <1>4, SMT DEF PushStore, PopTake, Goto
<1>5. ASSUME NEW t \in Threads, PushBroadcast(t) \/ PopBroadcast(t)
      PROVE  pc'[u] \notin {"push_wait", "pop_wait"}
  <2>1. PICK to \in {"push_unlock", "pop_unlock"} : Broadcast(t, to)
    BY <1>5 DEF PushBroadcast, PopBroadcast
  <2> QED
    BY <2>1, WokenLabel DEF Broadcast
<1>6. ASSUME NEW t \in Threads,
             \/ \E e \in Events : CallPush(t, e)
             \/ CallPop(t) \/ CallCleanup(t) \/ CleanTest(t)
             \/ Lock(t, "push_lock", "push_test")
             \/ Lock(t, "pop_lock", "pop_test")
             \/ PushUnlock(t) \/ PopUnlock(t) \/ SpuriousWakeup(t)
      PROVE  \E label \in Labels :
               /\ Goto(t, label)
               /\ pc[t] \notin Announcing
               /\ UNCHANGED <<in, out>>
               /\ label \notin {"push_wait", "pop_wait"}
  BY <1>6, Zenon
     DEF CallPush, CallPop, CallCleanup, CleanTest, Lock, PushUnlock,
         PopUnlock, Unlock, SpuriousWakeup, Woken, Labels
<1> QED
  BY <1>1, <1>2, <1>3, <1>4, <1>5, <1>6 DEF Next, Step, PushStep, PopStep

(* No thread sleeps through the event or the room it waits for.            *)
THEOREM WakeupsNotLost == Spec => []NoLostWakeup
<1>1. Init => NoLostWakeup
  BY SMT DEF Init, NoLostWakeup
<1> QED
  BY <1>1, TypeInit, TypeStep, WakeupStep, PTL DEF Spec

-----------------------------------------------------------------------------
(* A thread inside queue_cleanup is at its loop condition or in a pop, and *)
(* only poppers pop.                                                       *)
PopLabels == {"clean_test", "pop_lock", "pop_test", "pop_wait",
              "pop_broadcast", "pop_unlock"}

OnlyPoppersPop ==
  \A t \in Threads : /\ cleaning[t] => pc[t] \in PopLabels
                     /\ pc[t] \in PopLabels => t \in Poppers

(* Nobody is inside queue_cleanup at the start.                            *)
LEMMA CleaningInit == Init => OnlyPoppersPop /\ CleanupNeverWaits
  BY SMT DEF Init, OnlyPoppersPop, PopLabels, CleanupNeverWaits, Threads

(* Every step keeps the threads of queue_cleanup where they belong.        *)
LEMMA CleaningStep == TypeOK /\ OnlyPoppersPop /\ [Next]_vars => OnlyPoppersPop'
<1> DEFINE Good(u) == /\ cleaning'[u] => pc'[u] \in PopLabels
                      /\ pc'[u] \in PopLabels => u \in Poppers
<1> SUFFICES ASSUME TypeOK, OnlyPoppersPop, [Next]_vars, NEW u \in Threads
             PROVE  Good(u)
  BY DEF OnlyPoppersPop
<1> USE DEF TypeOK, OnlyPoppersPop, PopLabels
<1>1. CASE UNCHANGED vars
  BY <1>1 DEF vars
<1>2. ASSUME NEW t \in Threads,
             \/ \E e \in Events : CallPush(t, e)
             \/ CallPop(t) \/ CallCleanup(t) \/ SpuriousWakeup(t)
      PROVE  Good(u)
  BY <1>2, SMT DEF CallPush, CallPop, CallCleanup, SpuriousWakeup, Goto, Woken
<1>3. ASSUME NEW t \in Threads, PushStep(t)
      PROVE  Good(u)
  BY <1>3, SMT DEF PushStep, Lock, PushWait, PushStore, PushBroadcast,
                   PushUnlock, CondWait, Broadcast, Unlock, Goto, Woken
<1>4. ASSUME NEW t \in Threads, PopStep(t)
      PROVE  Good(u)
  BY <1>4, SMT DEF PopStep, Lock, PopWait, PopTake, PopBroadcast,
                   PopUnlock, CondWait, Broadcast, Unlock, Goto, Woken
<1>5. ASSUME NEW t \in Threads, CleanTest(t)
      PROVE  Good(u)
  <2>1. CASE Empty
    BY <1>5, <2>1, SMT DEF CleanTest, Goto
  <2>2. CASE ~Empty
    BY <1>5, <2>2, SMT DEF CleanTest, Goto
  <2> QED
    BY <2>1, <2>2
<1> QED
  BY <1>1, <1>2, <1>3, <1>4, <1>5 DEF Next, Step

(* With one popper the unlocked test of queue_cleanup stays true until its *)
(* own pop: a push cannot make the queue empty.                            *)
LEMMA CleanupStep ==
  TypeOK /\ OnlyPoppersPop /\ CleanupNeverWaits /\ [Next]_vars
    => CleanupNeverWaits'
<1> DEFINE Waits(l) == l \in {"pop_lock", "pop_test", "pop_wait"}
<1> SUFFICES ASSUME TypeOK, OnlyPoppersPop, CleanupNeverWaits, [Next]_vars,
                    \A t, u \in Poppers : t = u,
                    NEW u \in Poppers, cleaning'[u], Waits(pc'[u])
             PROVE  ~Empty'
  BY DEF CleanupNeverWaits
<1> USE DEF TypeOK
<1>0. u \in Threads /\ (cleaning[u] /\ Waits(pc[u]) => ~Empty)
  BY DEF CleanupNeverWaits, Threads
<1>1. CASE UNCHANGED vars
  BY <1>1, <1>0 DEF vars, Empty
\* Steps that leave the indices alone and cannot bring u into the pop.
<1>2. ASSUME NEW t \in Threads,
             \/ \E e \in Events : CallPush(t, e)
             \/ CallPop(t) \/ CallCleanup(t) \/ SpuriousWakeup(t)
      PROVE  ~Empty'
  BY <1>2, <1>0, SMT
     DEF CallPush, CallPop, CallCleanup, SpuriousWakeup, Goto, Woken,
         OnlyPoppersPop, PopLabels,
         Empty
<1>3. ASSUME NEW t \in Threads,
             \/ Lock(t, "push_lock", "push_test")
             \/ Lock(t, "pop_lock", "pop_test")
             \/ PushWait(t) \/ PopWait(t) \/ PushUnlock(t) \/ PopUnlock(t)
      PROVE  ~Empty'
  BY <1>3, <1>0, SMT
     DEF Lock, PushWait, PopWait, PushUnlock, PopUnlock, CondWait, Unlock,
         Goto, OnlyPoppersPop, PopLabels,
         Empty
<1>4. ASSUME NEW t \in Threads, PushBroadcast(t) \/ PopBroadcast(t)
      PROVE  ~Empty'
  BY <1>4, <1>0, SMT
     DEF PushBroadcast, PopBroadcast, Broadcast, Woken, OnlyPoppersPop, PopLabels,
         Empty
<1>5. ASSUME NEW t \in Threads, PushStore(t)
      PROVE  ~Empty'
  BY <1>5 DEF PushStore, Full, Empty
<1>6. ASSUME NEW t \in Threads, PopTake(t)
      PROVE  ~Empty'
  <2>1. t # u
    BY <1>6, SMT DEF PopTake, Goto
  <2>2. cleaning[u] /\ Waits(pc[u])
    BY <1>6, <1>0, <2>1, SMT DEF PopTake, Goto
  <2>3. t \in Poppers
    BY <1>6 DEF PopTake, OnlyPoppersPop, PopLabels
  <2> QED
    BY <2>1, <2>3
<1>7. ASSUME NEW t \in Threads, CleanTest(t)
      PROVE  ~Empty'
  <2>1. CASE Empty
    BY <1>7, <1>0, <2>1, SMT DEF CleanTest, Goto, Empty
  <2>2. CASE ~Empty
    BY <1>7, <2>2, SMT DEF CleanTest, Empty
  <2> QED
    BY <2>1, <2>2
<1> QED
  BY <1>1, <1>2, <1>3, <1>4, <1>5, <1>6, <1>7 DEF Next, Step, PushStep, PopStep

(* queue_cleanup never blocks in the pop it decided on without the mutex.  *)
THEOREM CleanupDoesNotBlock == Spec => []CleanupNeverWaits
  BY TypeInit, TypeStep, CleaningInit, CleaningStep, CleanupStep, PTL DEF Spec

-----------------------------------------------------------------------------
(* The refinement: EventQueue implements BoundedFifo.                      *)

(* One turn around the array, without the modulo.                          *)
LEMMA ModOnce ==
  ASSUME NEW k \in 0 .. QUEUE_CAPACITY + QUEUE_CAPACITY - 1
  PROVE  k % QUEUE_CAPACITY =
           IF k < QUEUE_CAPACITY THEN k ELSE k - QUEUE_CAPACITY
  BY QueueAssumption, SMT

(* The successor of a cell, without the modulo.                            *)
LEMMA AfterWraps ==
  ASSUME NEW i \in Cells
  PROVE  After(i) = IF i + 1 < QUEUE_CAPACITY THEN i + 1 ELSE 0
<1> DEFINE k == i + 1
<1>1. k \in 0 .. QUEUE_CAPACITY + QUEUE_CAPACITY - 1
  BY QueueAssumption, SMT DEF Cells
<1>2. k % QUEUE_CAPACITY = IF k < QUEUE_CAPACITY THEN k ELSE k - QUEUE_CAPACITY
  <2> HIDE DEF k
  <2> QED
    BY <1>1, ModOnce
<1> QED
  BY <1>2, QueueAssumption, SMT DEF After, Cells

(* The cell of the i-th event of the queue.                                *)
Place(i) == (out + i - 1) % QUEUE_CAPACITY

(* Where the events are: what in and out say of the number of them and of  *)
(* the cells they occupy.                                                  *)
PlacesRight ==
  /\ Count = IF in >= out THEN in - out ELSE in + QUEUE_CAPACITY - out
  /\ Count \in 0 .. QUEUE_CAPACITY - 1
  /\ \A i \in 1 .. QUEUE_CAPACITY :
       Place(i) = IF out + i - 1 < QUEUE_CAPACITY
                    THEN out + i - 1 ELSE out + i - 1 - QUEUE_CAPACITY

LEMMA PlaceFacts == TypeOK => PlacesRight
<1> SUFFICES ASSUME TypeOK PROVE PlacesRight
  OBVIOUS
<1>1. in \in Cells /\ out \in Cells
  BY DEF TypeOK
<1>2. in + QUEUE_CAPACITY - out \in 0 .. QUEUE_CAPACITY + QUEUE_CAPACITY - 1
  BY <1>1, QueueAssumption, SMT DEF Cells
<1>3. /\ Count = IF in >= out THEN in - out ELSE in + QUEUE_CAPACITY - out
      /\ Count \in 0 .. QUEUE_CAPACITY - 1
  BY <1>1, <1>2, ModOnce, QueueAssumption, SMT DEF Cells, Count
<1>4. ASSUME NEW i \in 1 .. QUEUE_CAPACITY
      PROVE  Place(i) = IF out + i - 1 < QUEUE_CAPACITY
                          THEN out + i - 1 ELSE out + i - 1 - QUEUE_CAPACITY
  <2> DEFINE k == out + i - 1
  <2>1. k \in 0 .. QUEUE_CAPACITY + QUEUE_CAPACITY - 1
    BY <1>1, QueueAssumption, SMT DEF Cells
  <2>2. k % QUEUE_CAPACITY = IF k < QUEUE_CAPACITY THEN k ELSE k - QUEUE_CAPACITY
    <3> HIDE DEF k
    <3> QED
      BY <2>1, ModOnce
  <2>3. Place(i) = k % QUEUE_CAPACITY
    BY DEF Place
  <2> QED
    BY <1>1, <2>2, <2>3, QueueAssumption DEF Cells
<1> QED
  BY <1>3, <1>4 DEF PlacesRight

(* The events of the queue are a sequence, and which one.                  *)
ItemsRight ==
  /\ Items \in Seq(Events \union {NoEvent})
  /\ Len(Items) = Count
  /\ \A i \in 1 .. Count : /\ Place(i) \in Cells
                           /\ Items[i] = queue[Place(i)]

LEMMA ItemsFacts == TypeOK => ItemsRight
<1> SUFFICES ASSUME TypeOK PROVE ItemsRight
  OBVIOUS
<1>1. Count \in Nat /\ Count <= QUEUE_CAPACITY - 1
  BY PlaceFacts, QueueAssumption, SMT DEF PlacesRight
<1>2. \A i \in 1 .. Count : Place(i) \in Cells
  BY <1>1, PlaceFacts, QueueAssumption, SMT DEF Cells, TypeOK, PlacesRight
<1>3. \A i \in 1 .. Count : queue[Place(i)] \in Events \union {NoEvent}
  BY <1>2 DEF TypeOK
<1>4. Items = [i \in 1 .. Count |-> queue[Place(i)]]
  BY DEF Items, Place
<1> QED
  BY <1>1, <1>2, <1>3, <1>4, SMT DEF ItemsRight

(* The same of the next state.                                             *)
LEMMA NextFacts == TypeOK' => PlacesRight' /\ ItemsRight'
  BY PlaceFacts, ItemsFacts, PTL

(* Two sequences are equal if their lengths and elements are.              *)
LEMMA SameSequence ==
  ASSUME NEW S, NEW s \in Seq(S), NEW t \in Seq(S), Len(s) = Len(t),
         \A i \in 1 .. Len(s) : s[i] = t[i]
  PROVE  s = t
  BY SMT

(* The store of queue_push appends the event.                              *)
LEMMA StoreAppends ==
  ASSUME TypeOK, TypeOK', NEW t \in Threads, PushStore(t)
  PROVE  /\ Len(Items) < QUEUE_CAPACITY - 1
         /\ Items' = Append(Items, ev[t])
<1> USE QueueAssumption
<1>1. /\ in \in Cells /\ out \in Cells /\ in' \in Cells /\ out' = out
      /\ queue \in [Cells -> Events \union {NoEvent}]
      /\ queue' = [queue EXCEPT ![in] = ev[t]]
      /\ ev[t] \in Events \union {NoEvent}
  BY DEF TypeOK, PushStore
<1>2. in' # out /\ in' = IF in + 1 < QUEUE_CAPACITY THEN in + 1 ELSE 0
  BY <1>1, AfterWraps DEF PushStore, Full
<1>3. Count' = IF in' >= out THEN in' - out ELSE in' + QUEUE_CAPACITY - out
  BY <1>1, NextFacts DEF PlacesRight
<1>4. Count \in Nat /\ Count' = Count + 1 /\ Count < QUEUE_CAPACITY - 1
  BY <1>1, <1>2, <1>3, PlaceFacts, SMT DEF Cells, PlacesRight
<1>5. \A i \in 1 .. Count + 1 : Place(i)' = Place(i)
  BY <1>1 DEF Place
<1>6. Place(Count + 1) = in
  <2>1. Count + 1 \in 1 .. QUEUE_CAPACITY
    BY <1>4, SMT
  <2>2. Place(Count + 1) =
          IF out + (Count + 1) - 1 < QUEUE_CAPACITY
            THEN out + (Count + 1) - 1
            ELSE out + (Count + 1) - 1 - QUEUE_CAPACITY
    BY <2>1, PlaceFacts, Zenon DEF PlacesRight
  <2> QED
    BY <1>1, <2>2, PlaceFacts, SMT DEF Cells, PlacesRight
<1>7. \A i \in 1 .. Count : Place(i) # in
  BY <1>1, <1>4, PlaceFacts, SMT DEF Cells, PlacesRight
<1>8. \A i \in 1 .. Count + 1 :
        queue'[Place(i)] = IF i = Count + 1 THEN ev[t] ELSE queue[Place(i)]
  <2>1. \A i \in 1 .. Count : Place(i) \in Cells
    BY ItemsFacts DEF ItemsRight
  <2>2. queue'[in] = ev[t] /\ \A c \in Cells : c # in => queue'[c] = queue[c]
    BY <1>1
  <2> QED
    BY <1>4, <1>6, <1>7, <2>1, <2>2, SMT
<1>9. /\ Items' \in Seq(Events \union {NoEvent})
      /\ Len(Items') = Count + 1
      /\ \A i \in 1 .. Count + 1 : Items'[i] = queue'[Place(i)]
  BY <1>4, <1>5, NextFacts DEF ItemsRight
<1>10. /\ Append(Items, ev[t]) \in Seq(Events \union {NoEvent})
       /\ Len(Append(Items, ev[t])) = Count + 1
       /\ \A i \in 1 .. Count + 1 :
             Append(Items, ev[t])[i] =
               IF i = Count + 1 THEN ev[t] ELSE queue[Place(i)]
  BY <1>1, <1>4, ItemsFacts, SMT DEF ItemsRight
<1>11. Items' = Append(Items, ev[t])
  BY <1>8, <1>9, <1>10, SameSequence
<1> QED
  BY <1>4, <1>11, ItemsFacts DEF ItemsRight

(* The read of queue_pop takes the oldest event.                           *)
LEMMA TakeTakesHead ==
  ASSUME TypeOK, TypeOK', NEW t \in Threads, PopTake(t)
  PROVE  /\ Items # << >>
         /\ ev'[t] = Head(Items)
         /\ Items' = Tail(Items)
<1> USE QueueAssumption
<1>1. /\ in \in Cells /\ out \in Cells /\ out' \in Cells /\ in' = in
      /\ queue' = queue /\ in # out /\ ev'[t] = queue[out]
  BY DEF TypeOK, PopTake, Empty
<1>2. out' = IF out + 1 < QUEUE_CAPACITY THEN out + 1 ELSE 0
  BY <1>1, AfterWraps DEF PopTake
<1>3. Count' = IF in >= out' THEN in - out' ELSE in + QUEUE_CAPACITY - out'
  BY <1>1, NextFacts DEF PlacesRight
<1>4. /\ Count \in Nat \ {0} /\ Count <= QUEUE_CAPACITY - 1
      /\ Count' = Count - 1
  BY <1>1, <1>2, <1>3, PlaceFacts, SMT DEF Cells, PlacesRight
<1>5. Place(1) = out
  BY <1>1, PlaceFacts, SMT DEF Cells, PlacesRight
<1>6. \A i \in 1 .. Count - 1 : Place(i)' = Place(i + 1)
  <2> SUFFICES ASSUME NEW i \in 1 .. Count - 1 PROVE Place(i)' = Place(i + 1)
    OBVIOUS
  <2>1. Place(i)' = IF out' + i - 1 < QUEUE_CAPACITY
                      THEN out' + i - 1 ELSE out' + i - 1 - QUEUE_CAPACITY
    BY <1>4, NextFacts, SMT DEF PlacesRight
  <2>2. Place(i + 1) = IF out + i < QUEUE_CAPACITY
                         THEN out + i ELSE out + i - QUEUE_CAPACITY
    BY <1>1, <1>4, PlaceFacts, SMT DEF PlacesRight, Cells
  <2> QED
    BY <1>1, <1>2, <1>4, <2>1, <2>2, SMT DEF Cells
<1>7. /\ Items' \in Seq(Events \union {NoEvent})
      /\ Len(Items') = Count - 1
      /\ \A i \in 1 .. Count - 1 : Items'[i] = queue[Place(i + 1)]
  BY <1>1, <1>4, <1>6, NextFacts DEF ItemsRight
<1>8. /\ Items # << >>
      /\ Head(Items) = queue[Place(1)]
      /\ Tail(Items) \in Seq(Events \union {NoEvent})
      /\ Len(Tail(Items)) = Count - 1
      /\ \A i \in 1 .. Count - 1 : Tail(Items)[i] = queue[Place(i + 1)]
  BY <1>4, ItemsFacts, SMT DEF ItemsRight
<1>9. Items' = Tail(Items)
  BY <1>7, <1>8, SameSequence
<1> QED
  BY <1>1, <1>5, <1>8, <1>9

(* What the callers see of the calls in progress.                          *)
Calls == [t \in Threads |-> CallState(pc[t])]

(* A step of one thread changes what is seen of that thread only.          *)
LEMMA CallMoves ==
  ASSUME TypeOK, NEW t \in Threads, NEW label, Goto(t, label)
  PROVE  /\ Calls[t] = CallState(pc[t])
         /\ Calls' = [Calls EXCEPT ![t] = CallState(label)]
         /\ CallState(label) = CallState(pc[t]) => Calls' = Calls
<1>1. pc \in [Threads -> Labels] /\ pc' = [pc EXCEPT ![t] = label]
  BY DEF TypeOK, Goto
<1>2. Calls[t] = CallState(pc[t])
  BY DEF Calls
<1>3. Calls' = [u \in Threads |-> IF u = t THEN CallState(label) ELSE Calls[u]]
  BY <1>1, Zenon DEF Calls
<1>4. Calls' = [Calls EXCEPT ![t] = CallState(label)]
  BY <1>3 DEF Calls
<1>5. CallState(label) = CallState(pc[t]) => Calls' = Calls
  BY <1>2, <1>3 DEF Calls
<1> QED
  BY <1>2, <1>4, <1>5

(* The queue is what it was as long as nobody writes the array or an index.*)
LEMMA ItemsStay == UNCHANGED <<queue, in, out>> => Items' = Items
  BY DEF Items, Count

(* Waiting for the mutex, waiting for a broadcast, sending one, and the    *)
(* loop of queue_cleanup between two pops: nothing that a caller sees.     *)
LEMMA FifoStutters ==
  ASSUME TypeOK, NEW t \in Threads,
         \/ Lock(t, "push_lock", "push_test") \/ Lock(t, "pop_lock", "pop_test")
         \/ PushWait(t) \/ PopWait(t)
         \/ PushBroadcast(t) \/ PopBroadcast(t)
         \/ CallCleanup(t) \/ SpuriousWakeup(t)
         \/ CleanTest(t) /\ Empty
  PROVE  UNCHANGED <<Items, Calls, ev>>
<1>1. UNCHANGED <<queue, in, out, ev>>
  BY DEF Lock, PushWait, PopWait, CondWait, PushBroadcast, PopBroadcast,
         Broadcast, CallCleanup, SpuriousWakeup, CleanTest
<1>2. ASSUME NEW label, Goto(t, label), CallState(label) = CallState(pc[t])
      PROVE  Calls' = Calls
  BY <1>2, CallMoves
<1>3. CASE Lock(t, "push_lock", "push_test") \/ Lock(t, "pop_lock", "pop_test")
  BY <1>1, <1>2, <1>3, ItemsStay, Zenon DEF Lock, CallState
<1>4. CASE PushWait(t) \/ PopWait(t)
  BY <1>1, <1>2, <1>4, ItemsStay, Zenon DEF PushWait, PopWait, CondWait, CallState
<1>5. CASE PushBroadcast(t) \/ PopBroadcast(t)
  <2>1. \A l \in Labels : CallState(Woken(l)) = CallState(l)
    BY Zenon DEF Labels, Woken, CallState
  <2>2. PICK to \in {"push_unlock", "pop_unlock"} :
           Broadcast(t, to) /\ CallState(to) = CallState(pc[t])
    BY <1>5, Zenon DEF PushBroadcast, PopBroadcast, CallState
  <2>3. \A u \in Threads : CallState(pc'[u]) = CallState(pc[u])
    BY <2>1, <2>2 DEF Broadcast, TypeOK
  <2> QED
    BY <1>1, <2>3, ItemsStay DEF Calls
<1>6. CASE CallCleanup(t)
  BY <1>1, <1>2, <1>6, ItemsStay, Zenon DEF CallCleanup, CallState
<1>7. CASE SpuriousWakeup(t)
  <2>1. \A l \in Labels : CallState(Woken(l)) = CallState(l)
    BY Zenon DEF Labels, Woken, CallState
  <2> QED
    BY <1>1, <1>2, <1>7, <2>1, ItemsStay DEF SpuriousWakeup, TypeOK
<1>8. CASE CleanTest(t) /\ Empty
  BY <1>1, <1>2, <1>8, ItemsStay, Zenon DEF CleanTest, CallState
<1> QED
  BY <1>3, <1>4, <1>5, <1>6, <1>7, <1>8

(* Each of the remaining steps is one of the FIFO.                         *)
LEMMA FifoMoves ==
  ASSUME TypeOK, TypeOK', NEW t \in Threads
  PROVE  /\ \A e \in Events : CallPush(t, e) => Fifo!BeginPush(t, e)
         /\ CallPop(t) \/ (CleanTest(t) /\ ~Empty) => Fifo!BeginPop(t)
         /\ PushStore(t) => Fifo!DoPush(t)
         /\ PopTake(t) => Fifo!DoPop(t)
         /\ PushUnlock(t) \/ PopUnlock(t) => Fifo!Return(t)
<1>1. ASSUME NEW e \in Events, CallPush(t, e)
      PROVE  Fifo!BeginPush(t, e)
  <2>1. Calls[t] = "none" /\ Calls' = [Calls EXCEPT ![t] = "push"]
    BY <1>1, CallMoves, Zenon DEF CallPush, CallState
  <2>2. ev' = [ev EXCEPT ![t] = e] /\ Items' = Items
    BY <1>1, ItemsStay DEF CallPush
  <2> QED
    BY <2>1, <2>2 DEF Fifo!BeginPush, Calls
<1>2. ASSUME CallPop(t) \/ (CleanTest(t) /\ ~Empty)
      PROVE  Fifo!BeginPop(t)
  <2>1. Calls[t] = "none" /\ Calls' = [Calls EXCEPT ![t] = "pop"]
    BY <1>2, CallMoves, Zenon DEF CallPop, CleanTest, CallState
  <2>2. ev' = [ev EXCEPT ![t] = NoEvent] /\ Items' = Items
    BY <1>2, ItemsStay DEF CallPop, CleanTest
  <2> QED
    BY <2>1, <2>2 DEF Fifo!BeginPop, Calls
<1>3. ASSUME PushStore(t)
      PROVE  Fifo!DoPush(t)
  <2>1. Calls[t] = "push" /\ Calls' = [Calls EXCEPT ![t] = "done"]
    BY <1>3, CallMoves, Zenon DEF PushStore, CallState
  <2>2. ev' = ev
    BY <1>3 DEF PushStore
  <2> QED
    BY <1>3, <2>1, <2>2, StoreAppends DEF Fifo!DoPush, Calls
<1>4. ASSUME PopTake(t)
      PROVE  Fifo!DoPop(t)
  <2>1. Calls[t] = "pop" /\ Calls' = [Calls EXCEPT ![t] = "done"]
    BY <1>4, CallMoves, Zenon DEF PopTake, CallState
  <2>2. ev' = [ev EXCEPT ![t] = Head(Items)]
    BY <1>4, TakeTakesHead DEF PopTake, TypeOK
  <2> QED
    BY <1>4, <2>1, <2>2, TakeTakesHead DEF Fifo!DoPop, Calls
<1>5. ASSUME PushUnlock(t) \/ PopUnlock(t)
      PROVE  Fifo!Return(t)
  <2>1. PICK label \in {"idle", "clean_test"} : Goto(t, label)
    BY <1>5 DEF PushUnlock, PopUnlock, Unlock
  <2>2. CallState(label) = "none" /\ CallState(pc[t]) = "done"
    BY <1>5, Zenon DEF PushUnlock, PopUnlock, CallState
  <2>3. Calls[t] = "done" /\ Calls' = [Calls EXCEPT ![t] = "none"]
    BY <2>1, <2>2, CallMoves
  <2>4. ev' = ev /\ Items' = Items
    BY <1>5, ItemsStay DEF PushUnlock, PopUnlock, Unlock
  <2> QED
    BY <2>3, <2>4 DEF Fifo!Return, Calls
<1> QED
  BY <1>1, <1>2, <1>3, <1>4, <1>5

(* The queue starts empty, with no call in progress.                       *)
LEMMA FifoInit == Init => Fifo!Init
<1> SUFFICES ASSUME Init PROVE Fifo!Init
  OBVIOUS
<1>1. Count = 0 /\ Items = << >>
  BY TypeInit, PlaceFacts, ItemsFacts, SMT DEF Init, PlacesRight, ItemsRight
<1>2. [t \in Threads |-> CallState(pc[t])] = [t \in Threads |-> "none"]
  BY Zenon DEF Init, CallState
<1> QED
  BY <1>1, <1>2 DEF Init, Fifo!Init

(* Every step of the queue is a step of the FIFO or a stutter.             *)
LEMMA FifoStep == TypeOK /\ TypeOK' /\ [Next]_vars => [Fifo!Next]_(Fifo!vars)
<1> SUFFICES ASSUME TypeOK, TypeOK', [Next]_vars
             PROVE  Fifo!Next \/ UNCHANGED <<Items, Calls, ev>>
  BY DEF Fifo!vars, Calls
<1>1. CASE UNCHANGED vars
  BY <1>1, ItemsStay DEF vars, Calls
<1>2. ASSUME NEW t \in Threads, NEW e \in Events, CallPush(t, e)
      PROVE  Fifo!Next
  BY <1>2, FifoMoves DEF Fifo!Next
<1>3. ASSUME NEW t \in Threads,
             \/ CallPop(t)
             \/ CleanTest(t) /\ ~Empty
             \/ PushStore(t) \/ PopTake(t) \/ PushUnlock(t) \/ PopUnlock(t)
      PROVE  Fifo!Next
  BY <1>3, FifoMoves DEF Fifo!Next
<1>4. ASSUME NEW t \in Threads,
             \/ Lock(t, "push_lock", "push_test") \/ Lock(t, "pop_lock", "pop_test")
             \/ PushWait(t) \/ PopWait(t)
             \/ PushBroadcast(t) \/ PopBroadcast(t)
             \/ CallCleanup(t) \/ SpuriousWakeup(t)
             \/ CleanTest(t) /\ Empty
      PROVE  UNCHANGED <<Items, Calls, ev>>
  BY <1>4, FifoStutters
<1>5. CASE Next
  <2>1. PICK t \in Threads :
           \/ \E e \in Events : CallPush(t, e)
           \/ CallPop(t) \/ CallCleanup(t) \/ Step(t) \/ SpuriousWakeup(t)
    BY <1>5, Zenon DEF Next
  <2>2. Step(t) => \/ PushStep(t) \/ PopStep(t)
                   \/ CleanTest(t) /\ Empty
                   \/ CleanTest(t) /\ ~Empty
    BY Zenon DEF Step
  <2>3. CASE PushStep(t) \/ PopStep(t)
    BY <2>3, <1>3, <1>4, Zenon DEF PushStep, PopStep
  <2> QED
    BY <2>1, <2>2, <2>3, <1>2, <1>3, <1>4, Zenon
<1> QED
  BY <1>1, <1>5

(* The event queue of event_queue.c implements the bounded FIFO that its   *)
(* header offers: through any interleaving of queue_push, queue_pop and    *)
(* queue_cleanup, each call takes effect at one instant, no event is lost, *)
(* doubled or overtaken, and the array never holds more than it can.       *)
THEOREM QueueIsFifo == Spec => ImplementsFifo
<1>1. Spec => []TypeOK
  BY TypeCorrect
<1> QED
  BY <1>1, FifoInit, FifoStep, PTL DEF Spec, ImplementsFifo, Fifo!Spec
=============================================================================
