------------------------------ MODULE ChunkJob ------------------------------
(***************************************************************************)
(* What the user of the PC application may rely on: the image is computed  *)
(* chunk by chunk, one chunk at a time, and a chunk is over only when all  *)
(* of its pixels are painted, each from the result for its own point, or   *)
(* when it was aborted, in which case it is the next one to be computed.   *)
(***************************************************************************)
EXTENDS Integers

CONSTANTS
  BYTE,                 \* chunk ids are numbers modulo BYTE
  Image,               \* the pixels of the image
  ChunkOf(_),           \* the chunk a pixel belongs to
  InPlace(_, _),        \* is a colour the one of a result for this pixel?
  Black                 \* the colour of a pixel not painted

VARIABLES busy,         \* is a chunk being computed?
          chunk,        \* the current chunk; BYTE - 1 before the first
          data          \* the colour of each pixel

vars == <<busy, chunk, data>>

Painted(p) == data[p] # Black /\ InPlace(p, data[p])
Blank == [p \in Image |-> Black]

Init == ~busy /\ chunk = BYTE - 1 /\ data = Blank

Start ==
  /\ ~busy
  /\ busy' = TRUE
  /\ chunk' = (chunk + 1) % BYTE
  /\ UNCHANGED data

Paint ==
  /\ busy
  /\ \E p \in Image :
        /\ ChunkOf(p) = chunk
        /\ data' = [data EXCEPT ![p] = data'[p]]
        /\ data'[p] # Black /\ InPlace(p, data'[p])
  /\ UNCHANGED <<busy, chunk>>

Finish ==
  /\ busy
  /\ \A p \in Image : ChunkOf(p) = chunk => Painted(p)
  /\ busy' = FALSE
  /\ UNCHANGED <<chunk, data>>

Abort ==
  /\ busy
  /\ busy' = FALSE
  /\ chunk' = (chunk + BYTE - 1) % BYTE
  /\ UNCHANGED data

Restart ==
  /\ ~busy
  /\ chunk' = BYTE - 1
  /\ data' \in {data, Blank}
  /\ UNCHANGED busy

Next == Start \/ Paint \/ Finish \/ Abort \/ Restart

Spec == Init /\ [][Next]_vars
=============================================================================
