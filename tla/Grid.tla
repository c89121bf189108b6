-------------------------------- MODULE Grid --------------------------------
(***************************************************************************)
(* How the PC application cuts its image into the square chunks that the   *)
(* board computes (screen.c, computeChunkSize).  A chunk id, the number of *)
(* chunks and the number of chunks in a row are bytes: their arithmetic is *)
(* modulo BYTE.                                                            *)
(***************************************************************************)
EXTENDS Integers

CONSTANTS
  BYTE,             \* 2^8 in the code
  def_chunksize,    \* 20 in the code
  ChunkStep,        \* 10 in the code
  maxchunksize      \* 250 in the code

ASSUME GridAssumption ==
  /\ BYTE \in Nat /\ BYTE >= 2
  /\ def_chunksize \in 1 .. BYTE - 1
  /\ ChunkStep \in Nat \ {0}
  /\ maxchunksize \in 1 .. BYTE - 1

(* A plausible slip: a remainder is cut off.                               *)
Floor(a, b) == a \div b

(* Division of positive numbers, rounded up.                               *)
Ceiling(a, b) == IF a % b = 0 THEN a \div b ELSE a \div b + 1

(* The smallest candidate with which BYTE - 1 chunks cover the image area. *)
Candidates ==
  {i \in def_chunksize .. maxchunksize - 1 : (i - def_chunksize) % ChunkStep = 0}

computeChunkSize(w, h) ==
  LET Fits == {i \in Candidates : i * i * (BYTE - 1) >= w * h}
  IN  IF Fits = {} THEN BYTE - 1
      ELSE CHOOSE i \in Fits : \A j \in Fits : i <= j

chunksinrow(w, size) == Ceiling(w, size) % BYTE

nbr_chunks(w, h, size) == (Ceiling(h, size) * chunksinrow(w, size)) % BYTE

(* The pixel at the upper left corner of a chunk.                          *)
ChunkX(cid, row, size) == (cid % row) * size
ChunkY(cid, row, size) == (cid \div row) * size

(* Chunks 0 .. nbr - 1 lie row by row over the whole image, none of them   *)
(* beside it, if their number is a byte; the chosen size does not see to   *)
(* that for every image.  If it is not, as for 320 x 310 pixels, there are *)
(* fewer chunks by the arithmetic of bytes, or none, than cover the image. *)
GridCovers(w, h) ==
  LET size == computeChunkSize(w, h)
      row == chunksinrow(w, size)
      nbr == nbr_chunks(w, h, size)
      Covered == /\ row > 0 /\ nbr > 0
                 /\ ChunkX(row - 1, row, size) < w /\ w <= ChunkX(row - 1, row, size) + size
                 /\ ChunkX(nbr - 1, row, size) = ChunkX(row - 1, row, size)
                 /\ ChunkY(nbr - 1, row, size) < h /\ h <= ChunkY(nbr - 1, row, size) + size
      columns == (w + size - 1) \div size
      lines == (h + size - 1) \div size
  IN  Covered <=> columns * lines < BYTE
=============================================================================
