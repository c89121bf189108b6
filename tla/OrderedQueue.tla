---------------------------- MODULE OrderedQueue ----------------------------
(***************************************************************************)
(* What linked_list.h promises: a queue of integers that can be appended   *)
(* to, inserted into in descending order, searched and erased from.        *)
(***************************************************************************)
EXTENDS Integers, Sequences, SequencesExt

CONSTANTS Entries, Indices, None

VARIABLES entries, result    \* the queue, and what the last call returned

vars == <<entries, result>>

Init == entries = << >> /\ result = None

Refused == result' = 0 /\ UNCHANGED entries

(* An entry below 0 is refused; no memory is a failure of its own.         *)
Push(v) ==
  \/ Refused
  \/ v >= 0 /\ entries' = Append(entries, v) /\ result' = 1

Pop ==
  IF entries = << >> THEN result' = -1 /\ UNCHANGED entries
                     ELSE result' = Head(entries) /\ entries' = Tail(entries)

(* Before the first entry that is not above it.                            *)
Insert(v) ==
  \/ Refused
  \/ \E k \in 0 .. Len(entries) :
       /\ \A i \in 1 .. k : entries[i] > v
       /\ k < Len(entries) => entries[k + 1] <= v
       /\ entries' = InsertAt(entries, k + 1, v)
       /\ result' = 1

Erase(v) ==
  /\ entries' = FlattenSeq([i \in DOMAIN entries |->
                              IF entries[i] = v THEN << >> ELSE <<entries[i]>>])
  /\ result' = IF v \in Range(entries) THEN 1 ELSE 0

GetEntry(idx) ==
  /\ result' = IF idx \in 0 .. Len(entries) - 1 THEN entries[idx + 1] ELSE -1
  /\ UNCHANGED entries

Clear == entries' = << >> /\ result' = None

Next ==
  \/ \E v \in Entries : Push(v) \/ Insert(v) \/ Erase(v)
  \/ Pop \/ Clear
  \/ \E idx \in Indices : GetEntry(idx)

Spec == Init /\ [][Next]_vars
=============================================================================
