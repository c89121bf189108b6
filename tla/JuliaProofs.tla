---------------------------- MODULE JuliaProofs ----------------------------
(***************************************************************************)
(* Theorems about the protocol between the PC application and the board,   *)
(* for any keys, images, queue and link capacities and any number of       *)
(* button presses and restarts.                                            *)
(***************************************************************************)
EXTENDS Julia, DataProofs

-----------------------------------------------------------------------------
(* The arithmetic of chunks                                                *)

(* computeChunkSize finds a size that is a positive byte.                  *)
LEMMA ChunkSizeType ==
  ASSUME NEW w \in Nat, NEW h \in Nat
  PROVE  computeChunkSize(w, h) \in 1 .. BYTE - 1
<1> DEFINE Fits == {i \in Candidates : i * i * (BYTE - 1) >= w * h}
<1>1. Candidates \subseteq 1 .. BYTE - 1
  BY GridAssumption DEF Candidates
<1>2. CASE Fits = {}
  BY <1>2, GridAssumption DEF computeChunkSize
<1>3. CASE Fits # {}
  <2>0. Fits \subseteq Candidates /\ 1 .. BYTE - 1 \subseteq Nat
    BY GridAssumption
  <2>1. Fits \subseteq Nat
    BY <1>1, <2>0
  <2>2. \E i \in Fits : \A j \in Fits : i <= j
    BY <2>1, <1>3, SmallestCandidate
  <2>3. (CHOOSE i \in Fits : \A j \in Fits : i <= j) \in Fits
    BY <2>2
  <2> QED
    BY <2>3, <1>3, <1>1 DEF computeChunkSize
<1> QED
  BY <1>2, <1>3

(* The number of chunks and of chunks in a row are bytes.                  *)
LEMMA GridTypes ==
  ASSUME NEW w \in Nat, NEW h \in Nat, NEW size \in 1 .. BYTE - 1
  PROVE  /\ chunksinrow(w, size) \in 0 .. BYTE - 1
         /\ nbr_chunks(w, h, size) \in 0 .. BYTE - 1
<1>1. Ceiling(w, size) \in Int /\ Ceiling(h, size) \in Int
  BY GridAssumption, SMT DEF Ceiling
<1>2. chunksinrow(w, size) \in 0 .. BYTE - 1
  BY <1>1, GridAssumption, SMT DEF chunksinrow
<1>3. Ceiling(h, size) * chunksinrow(w, size) \in Int
  BY <1>1, <1>2, SMT
<1> QED
  BY <1>2, <1>3, GridAssumption, SMT DEF nbr_chunks

(* With chunks in a row, the corner of a chunk is a pixel.                 *)
LEMMA ChunkCorner ==
  ASSUME NEW cid \in Nat, NEW row \in Nat \ {0}, NEW size \in Nat
  PROVE  ChunkX(cid, row, size) \in Nat /\ ChunkY(cid, row, size) \in Nat
<1>1. cid % row \in Nat /\ cid \div row \in Nat
  BY SMT
<1> QED
  BY <1>1, SMT DEF ChunkX, ChunkY

(* Ceiling is the number of pieces of b that a takes.                      *)
LEMMA CeilingFacts ==
  ASSUME NEW a \in Nat \ {0}, NEW b \in Nat \ {0}
  PROVE  /\ Ceiling(a, b) \in Nat \ {0}
         /\ (Ceiling(a, b) - 1) * b < a
         /\ a <= Ceiling(a, b) * b
<1> DEFINE c == Ceiling(a, b)
<1>1. c = IF a % b = 0 THEN a \div b ELSE a \div b + 1
  BY Zenon DEF Ceiling
<1> HIDE DEF c
<1>2. c \in Nat \ {0} /\ (c - 1) * b < a /\ a <= c * b
  BY <1>1, RoundedUp, Zenon
<1> QED
  BY <1>2, Zenon DEF c

(* Small numbers are bytes, and a byte is a small number.                  *)
LEMMA ByteFacts ==
  ASSUME NEW a \in Nat
  PROVE  /\ a % BYTE \in 0 .. BYTE - 1
         /\ a < BYTE => a % BYTE = a
  BY GridAssumption, SMT

(* A grid whose number of chunks is a byte is the grid without bytes.      *)
LEMMA FittingGrid ==
  ASSUME NEW w \in Nat \ {0}, NEW h \in Nat \ {0}, NEW size \in Nat \ {0},
         Ceiling(w, size) * Ceiling(h, size) < BYTE
  PROVE  /\ chunksinrow(w, size) = Ceiling(w, size)
         /\ nbr_chunks(w, h, size) = Ceiling(h, size) * Ceiling(w, size)
<1> DEFINE c == Ceiling(w, size)
           l == Ceiling(h, size)
<1>1. c \in Nat \ {0} /\ l \in Nat \ {0} /\ c * l < BYTE
  BY CeilingFacts
<1>2. chunksinrow(w, size) = c % BYTE /\ nbr_chunks(w, h, size) = (l * (c % BYTE)) % BYTE
  BY DEF chunksinrow, nbr_chunks
<1> HIDE DEF c, l
<1>3. c < BYTE /\ l * c = c * l /\ l * c \in Nat
  <2>1. c * 1 <= c * l /\ c * l \in Nat /\ l * c = c * l
    BY <1>1, SMT
  <2> QED
    BY <1>1, <2>1, GridAssumption, SMT
<1>4. c % BYTE = c /\ (l * c) % BYTE = l * c
  BY <1>1, <1>3, ByteFacts
<1> QED
  BY <1>2, <1>4 DEF c, l

(* Less than the rounded up quotient is what lies before the whole.        *)
LEMMA BelowCeiling ==
  ASSUME NEW a \in Nat \ {0}, NEW b \in Nat \ {0}, NEW x \in 0 .. a - 1
  PROVE  x \div b \in 0 .. Ceiling(a, b) - 1
<1> DEFINE q == x \div b
           c == Ceiling(a, b)
<1>1. q \in Nat /\ x % b \in 0 .. b - 1 /\ x = q * b + (x % b)
  BY Division
<1>2. c \in Nat \ {0} /\ a <= c * b
  BY CeilingFacts
<1>3. q * b < c * b
  <2>1. q * b \in Nat /\ c * b \in Nat
    BY <1>1, <1>2, SMT
  <2> HIDE DEF q, c
  <2> QED
    BY <1>1, <1>2, <2>1, SMT
<1> HIDE DEF q, c
<1>4. ~ (c <= q)
  <2>1. c <= q => c * b <= q * b
    BY <1>1, <1>2, SMT
  <2>2. q * b \in Nat /\ c * b \in Nat
    BY <1>1, <1>2, SMT
  <2> QED
    BY <1>3, <2>1, <2>2, SMT
<1>5. q \in 0 .. c - 1
  BY <1>1, <1>2, <1>4, SMT
<1> QED
  BY <1>5 DEF q, c

(* Every pixel lies in a chunk, as far from its corner as the remainders.  *)
LEMMA PixelInChunk ==
  ASSUME NEW w \in Nat \ {0}, NEW h \in Nat \ {0}, NEW size \in Nat \ {0},
         NEW x \in 0 .. w - 1, NEW y \in 0 .. h - 1,
         NEW row, row = Ceiling(w, size),
         NEW cid, cid = x \div size + (y \div size) * row
  PROVE  /\ cid \in Nat /\ cid < Ceiling(h, size) * row
         /\ ChunkX(cid, row, size) + (x % size) = x
         /\ ChunkY(cid, row, size) + (y % size) = y
<1> DEFINE q == x \div size
           r == y \div size
           l == Ceiling(h, size)
<1>1. /\ row \in Nat \ {0} /\ q \in 0 .. row - 1
      /\ l \in Nat \ {0} /\ r \in 0 .. l - 1
  BY CeilingFacts, BelowCeiling
<1>2. x = q * size + (x % size) /\ y = r * size + (y % size)
  <2>1. x \in Nat /\ y \in Nat
    OBVIOUS
  <2> QED
    BY <2>1, Division
<1>3. cid = r * row + q
  <2>1. cid = q + r * row
    OBVIOUS
  <2> HIDE DEF q, r
  <2> QED
    BY <1>1, <2>1, SMT
<1> HIDE DEF q, r, l
<1>4. cid \in Nat
  <2>1. r \in Nat /\ q \in Nat
    BY <1>1, SMT
  <2> QED
    BY <1>1, <1>3, <2>1, SMT
<1>5. cid \div row = r /\ cid % row = q
  <2>1. (r * row + q) \div row = r /\ (r * row + q) % row = q
    <3>1. row \in Nat \ {0} /\ r \in Nat /\ q \in 0 .. row - 1
      BY <1>1, SMT
    <3> QED
      BY <3>1, DivisionIsUnique
  <2> QED
    BY <1>3, <2>1
<1>6. cid < l * row
  <2>1. (r + 1) * row <= l * row /\ (r + 1) * row = r * row + row
    BY <1>1, SMT
  <2>2. r * row \in Nat /\ l * row \in Nat
    BY <1>1, SMT
  <2> QED
    BY <1>1, <1>3, <2>1, <2>2, SMT
<1> QED
  BY <1>2, <1>4, <1>5, <1>6 DEF ChunkX, ChunkY, l

(* of a chunk, lies in that chunk.                                         *)
LEMMA ChunkOfPixel ==
  ASSUME NEW row \in Nat \ {0}, NEW size \in Nat \ {0}, NEW cid \in Nat,
         NEW i \in 0 .. size - 1, NEW j \in 0 .. size - 1,
         NEW x, x = ChunkX(cid, row, size) + i,
         NEW y, y = ChunkY(cid, row, size) + j
  PROVE  /\ x % size = i /\ y % size = j
         /\ x \div size + (y \div size) * row = cid
<1> DEFINE q == cid % row
           r == cid \div row
<1>1. q \in Nat /\ r \in Nat /\ cid = r * row + q
  <2>1. r \in Nat /\ q \in 0 .. row - 1 /\ cid = r * row + q
    BY Division
  <2> HIDE DEF q, r
  <2> QED
    BY <2>1, SMT
<1>2. x = q * size + i /\ y = r * size + j
  BY DEF ChunkX, ChunkY
<1> HIDE DEF q, r
<1>3. /\ x \div size = q /\ x % size = i
      /\ y \div size = r /\ y % size = j
  <2>1. /\ (q * size + i) \div size = q /\ (q * size + i) % size = i
        /\ (r * size + j) \div size = r /\ (r * size + j) % size = j
    BY <1>1, DivisionIsUnique
  <2> QED
    BY <1>2, <2>1
<1>4. q + r * row = r * row + q
  BY <1>1, SMT
<1> QED
  BY <1>1, <1>3, <1>4

-----------------------------------------------------------------------------
(* Sequences: what Append, Tail and the loss of a prefix or a suffix do.   *)

(* Append keeps what is there and adds one element.                        *)
LEMMA AppendFacts ==
  ASSUME NEW S, NEW s \in Seq(S), NEW e \in S
  PROVE  /\ Append(s, e) \in Seq(S)
         /\ Len(Append(s, e)) = Len(s) + 1
         /\ DOMAIN s = 1 .. Len(s)
         /\ DOMAIN Append(s, e) = 1 .. Len(s) + 1
         /\ \A i \in 1 .. Len(s) : Append(s, e)[i] = s[i]
         /\ Append(s, e)[Len(s) + 1] = e
  OBVIOUS

(* Tail moves every element but the first up by one.                       *)
LEMMA TailFacts ==
  ASSUME NEW S, NEW s \in Seq(S), s # << >>
  PROVE  /\ Head(s) \in S /\ Head(s) = s[1]
         /\ Tail(s) \in Seq(S)
         /\ Len(s) >= 1
         /\ Len(Tail(s)) = Len(s) - 1
         /\ DOMAIN s = 1 .. Len(s)
         /\ DOMAIN Tail(s) = 1 .. Len(s) - 1
         /\ \A i \in 1 .. Len(s) - 1 : Tail(s)[i] = s[i + 1]
  OBVIOUS

(* A part of a sequence holds elements of the same set.                    *)
LEMMA SubSeqFacts ==
  ASSUME NEW S, NEW s \in Seq(S), NEW a \in 1 .. Len(s) + 1, NEW b \in 0 .. Len(s)
  PROVE  SubSeq(s, a, b) \in Seq(S)
<1>1. \A i \in a .. b : s[i] \in S
  BY ElementOfSeq
<1> QED
  BY <1>1, SubSeqProperties

-----------------------------------------------------------------------------
(* The messages the two programs build are messages.                       *)
LEMMA PlainMessages ==
  /\ Plain("MSG_ABORT") \in PcMessages
  /\ Plain("MSG_GET_VERSION") \in PcMessages
  /\ \A t \in {"MSG_OK", "MSG_ABORT", "MSG_DONE", "MSG_VERSION", "MSG_STARTUP"} :
        Plain(t) \in NucleoMessages
  BY SMT DEF Plain, PcMessages, NucleoMessages

(* The parameters of the application make a message to the board.          *)
LEMMA SetComputeMessage ==
  ASSUME NEW c \in Cs, NEW d \in Int \X Int, NEW n \in Nat
  PROVE  SetCompute(c, d, n) \in PcMessages
  BY SMT DEF SetCompute, PcMessages

(* A chunk makes a message to the board.                                   *)
LEMMA ComputeMessage ==
  ASSUME NEW cid \in Nat, NEW re \in Nat, NEW im \in Nat, NEW size \in Nat
  PROVE  Compute(cid, re, im, size) \in PcMessages
  BY SMT DEF Compute, PcMessages

(* A pixel makes a message to the application.                             *)
LEMMA ComputeDataMessage ==
  ASSUME NEW cid \in Nat, NEW x \in Nat, NEW y \in Nat, NEW iter \in Iters
  PROVE  ComputeData(cid, x, y, iter) \in NucleoMessages
  BY SMT DEF ComputeData, NucleoMessages

(* What the board computes is a result.                                    *)
LEMMA IterationsType ==
  ASSUME NEW c \in Cs \union {Zero}, NEW d \in Int \X Int, NEW n \in Nat,
         NEW re \in Nat, NEW im \in Nat
  PROVE  Iterations(c, d, n, re, im) \in Iters
  BY SMT DEF Iterations, Iters

(* What the fields of a received message are.                              *)
LEMMA PcMessageFields ==
  ASSUME NEW x \in PcMessages
  PROVE  /\ x.type = "MSG_SET_COMPUTE" => x.c \in Cs /\ x.d \in Int \X Int /\ x.n \in Nat
         /\ x.type = "MSG_COMPUTE" =>
              x.cid \in Nat /\ x.re \in Nat /\ x.im \in Nat /\ x.size \in Nat
  BY SMT DEF PcMessages

(* A result names a chunk, a place in it and the iterations.               *)
LEMMA NucleoMessageFields ==
  ASSUME NEW x \in NucleoMessages, x.type = "MSG_COMPUTE_DATA"
  PROVE  x.cid \in Nat /\ x.i_re \in Nat /\ x.i_im \in Nat /\ x.iter \in Iters
  BY SMT DEF NucleoMessages

(* An event of the link carries a message of the board.                    *)
LEMMA SerialEvents ==
  ASSUME NEW x \in QueueEvents, x.type = "EV_SERIAL"
  PROVE  x.msg \in NucleoMessages
  BY KeysAssumption, SMT DEF QueueEvents, NextChunk, KeyParam, Handled

(* The event the main thread pushes for itself is an event.                *)
LEMMA NextChunkIsEvent == NextChunk \in QueueEvents
  BY DEF QueueEvents

(* A received message makes an event.                                      *)
LEMMA SerialIsEvent ==
  ASSUME NEW x \in NucleoMessages
  PROVE  Serial(x) \in QueueEvents /\ Serial(x).type = "EV_SERIAL" /\ Serial(x).msg = x
  BY SMT DEF QueueEvents, Serial

(* A key makes an event that is not one of the link.                       *)
LEMMA KeyIsEvent ==
  ASSUME NEW x \in Keys
  PROVE  x \in QueueEvents /\ x.type # "EV_SERIAL" /\ x.type \in Handled /\ x.param \in Nat
  BY KeysAssumption, SMT DEF QueueEvents, Handled

(* Every event that is not one of the link has a parameter.                *)
LEMMA OtherEvents ==
  ASSUME NEW x \in QueueEvents, x.type # "EV_SERIAL"
  PROVE  x.param \in Nat
  BY KeysAssumption, SMT DEF QueueEvents, NextChunk, KeyParam

-----------------------------------------------------------------------------
(* An image with a size and its buffer fit their types.                    *)

(* A new buffer is a buffer of pixels.                                     *)
LEMMA BlankType ==
  ASSUME NEW w \in 1 .. MaxDim, NEW h \in 1 .. MaxDim
  PROVE  IsPixelBuffer([p \in Pixels(w, h) |-> Black])
<1>1. [p \in Pixels(w, h) |-> Black] \in [Pixels(w, h) -> Colours]
  BY DEF Colours
<1> QED
  BY <1>1 DEF IsPixelBuffer

(* The colour of a result is a colour.                                     *)
LEMMA ColourType ==
  ASSUME NEW iter \in Iters, NEW n \in Nat
  PROVE  Colour(iter, n) \in Colours
  BY SMT DEF Colour, Colours

(* initImage gives an image.                                               *)
LEMMA InitImageType ==
  ASSUME NEW w \in 1 .. MaxDim, NEW h \in 1 .. MaxDim, NEW size \in 1 .. BYTE - 1,
         img' = initImage(w, h, size)
  PROVE  ImageOK'
<1>1. chunksinrow(w, size) \in 0 .. BYTE - 1 /\ nbr_chunks(w, h, size) \in 0 .. BYTE - 1
  BY GridTypes, PcAssumption
<1>2. IsPixelBuffer([p \in Pixels(w, h) |-> Black])
  BY BlankType
<1>3. IsPixelBuffer(img'.data)
  BY <1>2 DEF initImage
<1>4. img' \in [W : 1 .. MaxDim, H : 1 .. MaxDim, chunksize : 1 .. BYTE - 1,
                chunksinrow : 0 .. BYTE - 1, nbr_chunks : 0 .. BYTE - 1,
                refresh_require : BOOLEAN, data : {img'.data}]
  BY <1>1, SMT DEF initImage
<1> QED
  BY <1>3, <1>4 DEF ImageOK, IsPixelBuffer, Pixels, Colours, Iters

(* Storing a buffer in an image.                                           *)
LEMMA NewDataType ==
  ASSUME ImageOK, NEW data, IsPixelBuffer(data), img' = [img EXCEPT !.data = data]
  PROVE  ImageOK'
<1>1. img'.data = data
  BY DEF ImageOK
<1>2. IsPixelBuffer(img'.data)
  BY <1>1
<1>3. img' \in [W : 1 .. MaxDim, H : 1 .. MaxDim, chunksize : 1 .. BYTE - 1,
                chunksinrow : 0 .. BYTE - 1, nbr_chunks : 0 .. BYTE - 1,
                refresh_require : BOOLEAN, data : {img'.data}]
  BY <1>1, SMT DEF ImageOK
<1> QED
  BY <1>2, <1>3 DEF ImageOK, IsPixelBuffer, Pixels, Colours, Iters

(* What the CPU computes fits the image.                                   *)
LEMMA ComputeCPUType ==
  ASSUME ParametersOK, ImageOK, NEW c \in Cs \union {Zero}
  PROVE  IsPixelBuffer(ComputeCPU(c))
<1>1. parameters.d \in Int \X Int /\ parameters.n \in Nat
  BY PcAssumption, SMT DEF ParametersOK
<1>2. img.W \in 1 .. MaxDim /\ img.H \in 1 .. MaxDim
  BY SMT DEF ImageOK
<1>3. ASSUME NEW p \in Pixels(img.W, img.H)
      PROVE  Colour(Iterations(c, parameters.d, parameters.n, p[1], p[2]), parameters.n)
               \in Colours
  <2>1. p[1] \in Nat /\ p[2] \in Nat
    BY <1>2, PcAssumption, SMT DEF Pixels
  <2> QED
    BY <1>1, <2>1, IterationsType, ColourType
<1>4. ComputeCPU(c) \in [Pixels(img.W, img.H) -> Colours]
  BY <1>3 DEF ComputeCPU
<1> QED
  BY <1>2, <1>4 DEF IsPixelBuffer

-----------------------------------------------------------------------------
(* Type correctness.                                                       *)

(* A board that has just started has its types.                            *)
LEMMA IdleType ==
  Idle \in [c : Cs \union {Zero}, d : Int \X Int, n : Nat, cid : Nat,
            re : Nat, im : Nat, chunk_size : Nat,
            computing : BOOLEAN, cx : Nat, cy : Nat]
<1>1. <<0, 0>> \in Int \X Int /\ Zero \in Cs \union {Zero}
  OBVIOUS
<1> QED
  BY <1>1, SMT DEF Idle

(* The system starts with every variable in its type.                      *)
LEMMA TypeInit == Init => TypeOK
<1> SUFFICES ASSUME Init PROVE TypeOK
  OBVIOUS
<1> USE DEF Init, PcInit, NucleoInit
<1>1. ParametersOK
  BY PcAssumption, GridAssumption, SMT DEF ParametersOK, NoChunk, NO_PAR
<1>2. ImageOK
  <2>1. /\ chunksinrow(def_W, def_chunksize) \in 0 .. BYTE - 1
        /\ nbr_chunks(def_W, def_H, def_chunksize) \in 0 .. BYTE - 1
    BY GridTypes, PcAssumption, GridAssumption
  <2>2. IsPixelBuffer([p \in Pixels(def_W, def_H) |-> Black])
    BY BlankType, PcAssumption
  <2> QED
    BY <2>1, <2>2, PcAssumption, GridAssumption, SMT DEF ImageOK, initImage
<1>3. QueueOK
  BY PcAssumption, SMT DEF QueueOK
<1>4. LinkOK
  BY SMT DEF LinkOK
<1>5. BoardOK
  <2>3. 0 \in 0 .. MaxPresses /\ 0 \in 0 .. MaxResets
    BY NucleoAssumption
  <2> QED
    BY IdleType, <2>3, Zenon DEF BoardOK
<1> QED
  BY <1>1, <1>2, <1>3, <1>4, <1>5, PcAssumption, SMT DEF TypeOK

(* The main thread takes an event.                                         *)
LEMMA HandlesType ==
  ASSUME QueueOK, NEW type, Handles(type)
  PROVE  /\ QueueOK'
         /\ Head(evq) \in QueueEvents /\ Head(evq).type = type
         /\ UNCHANGED <<pressed, toPc>>
         /\ evq # << >> /\ evq' = Tail(evq) /\ main = "pop"
<1>1. evq # << >> /\ evq' = Tail(evq) /\ Head(evq).type = type
  BY DEF Handles
<1>2. /\ Head(evq) \in QueueEvents
      /\ Tail(evq) \in Seq(QueueEvents)
      /\ Len(Tail(evq)) = Len(evq) - 1 /\ Len(evq) \in Nat
  BY <1>1, TailFacts, LenProperties DEF QueueOK
<1>3. evq' \in Seq(QueueEvents) /\ Len(evq') <= EVENT_CAPACITY
  BY <1>1, <1>2, PcAssumption DEF QueueOK
<1> QED
  BY <1>1, <1>2, <1>3 DEF Handles, QueueOK, QueueEvents, NucleoMessages, Iters

(* The PC sends a message; the board sends one.                            *)
LEMMA SendPcType ==
  ASSUME LinkOK, NEW x \in PcMessages, SendPc(x), UNCHANGED <<toPc, arrived>>
  PROVE  LinkOK'
<1>1. toNucleo' \in Seq(PcMessages) /\ Len(toNucleo') = Len(toNucleo) + 1
  BY AppendFacts DEF LinkOK, SendPc
<1>2. Len(toNucleo) \in Nat
  BY LenProperties DEF LinkOK
<1> QED
  BY <1>1, <1>2, SMT DEF LinkOK

(* What the board sends goes onto the link.                                *)
LEMMA SendType ==
  ASSUME LinkOK, NEW x \in NucleoMessages, Send(x)
  PROVE  toPc' \in Seq(NucleoMessages)
  BY AppendFacts DEF LinkOK, Send

(* The board takes a message.                                              *)
LEMMA ReceivedType ==
  ASSUME LinkOK, NEW type, Received(type)
  PROVE  /\ Head(toNucleo) \in PcMessages /\ Head(toNucleo).type = type
         /\ toNucleo' \in Seq(PcMessages)
         /\ arrived' \in 0 .. Len(toNucleo')
         /\ step' = "abort" /\ UNCHANGED <<presses, resets>>
<1>1. arrived > 0 /\ toNucleo' = Tail(toNucleo) /\ arrived' = arrived - 1
  BY DEF Received
<1>2. toNucleo # << >>
  BY <1>1, SMT DEF LinkOK
<1>3. /\ Head(toNucleo) \in PcMessages
      /\ Tail(toNucleo) \in Seq(PcMessages)
      /\ Len(Tail(toNucleo)) = Len(toNucleo) - 1 /\ Len(toNucleo) \in Nat
  BY <1>2, TailFacts, LenProperties DEF LinkOK
<1>4. arrived' \in 0 .. Len(toNucleo')
  BY <1>1, <1>3, SMT DEF LinkOK
<1> QED
  BY <1>1, <1>3, <1>4 DEF Received

(* The handlers of the main thread keep the types.                         *)
LEMMA KeyEventType ==
  ASSUME TypeOK, HandleKeyEvent, UNCHANGED nucleoVars
  PROVE  TypeOK'
<1> USE DEF TypeOK
<1>1. BoardOK' /\ UNCHANGED arrived
  BY Zenon DEF nucleoVars, BoardOK
<1>2. UNCHANGED <<toNucleo, toPc>> => LinkOK'
  BY <1>1 DEF LinkOK, PcMessages, NucleoMessages, Iters
<1>3. UNCHANGED parameters => ParametersOK'
  BY DEF ParametersOK
<1>4. UNCHANGED img => ImageOK'
  BY DEF ImageOK, IsPixelBuffer, Pixels, Colours, Iters
<1>5. CASE HandleGetVersion
  BY <1>1, <1>3, <1>4, <1>5, HandlesType, SendPcType, PlainMessages DEF HandleGetVersion
<1>6. CASE HandleChangePar
  <2>1. param \in Nat
    BY <1>6, HandlesType, OtherEvents DEF HandleChangePar, param
  <2>2. ParametersOK'
    BY <1>6, <2>1, SMT DEF HandleChangePar, ParametersOK
  <2> QED
    BY <1>1, <1>2, <1>4, <1>6, <2>2, HandlesType DEF HandleChangePar
<1>7. CASE HandleSetChange
  <2>1. /\ QueueOK' /\ UNCHANGED <<pressed, toPc, main, toNucleo>>
    BY <1>7, HandlesType DEF HandleSetChange
  <2>2. ChangedN \in minN .. maxN
    <3>1. (parameters.n + (IF param = 1 THEN 1 ELSE BYTE - 1)) % BYTE \in Nat
      BY GridAssumption, PcAssumption, SMT DEF ParametersOK
    <3> QED
      BY <3>1, PcAssumption, SMT DEF ChangedN
  <2>3. ParametersOK'
    <3> DEFINE changed == [parameters EXCEPT !.computation_set = FALSE]
    <3>1. \/ \E c \in Cs : parameters' = [changed EXCEPT !.c = c]
          \/ parameters' = [changed EXCEPT !.n = ChangedN]
          \/ parameters' = changed
      BY <1>7, Zenon DEF HandleSetChange
    <3>2. changed \in [c : Cs, n : minN .. maxN, d : Int \X Int,
                       computing : BOOLEAN, computation_set : BOOLEAN,
                       current_chunk : 0 .. BYTE - 1,
                       parameter_to_be_changed : Nat]
      BY Zenon DEF ParametersOK
    <3> HIDE DEF changed
    <3>3. ASSUME NEW c \in Cs, parameters' = [changed EXCEPT !.c = c]
          PROVE  ParametersOK'
      BY <3>2, <3>3, SMT DEF ParametersOK
    <3>4. CASE parameters' = [changed EXCEPT !.n = ChangedN]
      BY <2>2, <3>2, <3>4, SMT DEF ParametersOK
    <3>5. CASE parameters' = changed
      BY <3>2, <3>5, SMT DEF ParametersOK
    <3> QED
      BY <3>1, <3>3, <3>4, <3>5
  <2>4. ImageOK'
    <3>1. CASE UNCHANGED img
      BY <3>1, <1>4
    <3>2. CASE ~ UNCHANGED img
      <4>1. /\ \/ img' = [img EXCEPT !.W = Changed(img.W), !.refresh_require = TRUE]
               \/ img' = [img EXCEPT !.H = Changed(img.H), !.refresh_require = TRUE]
            /\ img'.W \in 1 .. MaxDim /\ img'.H \in 1 .. MaxDim
        BY <1>7, <3>2 DEF HandleSetChange
      <4>2. IsPixelBuffer(img.data)
        BY DEF ImageOK
      <4>3. /\ img'.data = img.data
            /\ img' \in [W : 1 .. MaxDim, H : 1 .. MaxDim, chunksize : 1 .. BYTE - 1,
                         chunksinrow : 0 .. BYTE - 1, nbr_chunks : 0 .. BYTE - 1,
                         refresh_require : BOOLEAN, data : {img.data}]
        <5>1. img \in [W : 1 .. MaxDim, H : 1 .. MaxDim, chunksize : 1 .. BYTE - 1,
                       chunksinrow : 0 .. BYTE - 1, nbr_chunks : 0 .. BYTE - 1,
                       refresh_require : BOOLEAN, data : {img.data}]
          BY DEF ImageOK
        <5>2. CASE img' = [img EXCEPT !.W = Changed(img.W), !.refresh_require = TRUE]
          <6>1. Changed(img.W) \in 1 .. MaxDim
            BY <4>1, <5>1, <5>2, SMT
          <6> QED
            BY <5>1, <5>2, <6>1, Zenon
        <5>3. CASE img' = [img EXCEPT !.H = Changed(img.H), !.refresh_require = TRUE]
          <6>1. Changed(img.H) \in 1 .. MaxDim
            BY <4>1, <5>1, <5>3, SMT
          <6> QED
            BY <5>1, <5>3, <6>1, Zenon
        <5> QED
          BY <4>1, <5>2, <5>3
      <4>4. IsPixelBuffer(img'.data)
        BY <4>2, <4>3
      <4> QED
        BY <4>3, <4>4 DEF ImageOK, IsPixelBuffer, Pixels, Colours, Iters
    <3> QED
      BY <3>1, <3>2
  <2> QED
    BY <1>1, <1>2, <2>1, <2>3, <2>4
<1>8. CASE HandleSetCompute
  <2>1. QueueOK' /\ UNCHANGED <<pressed, toPc, main, img>>
    BY <1>8, HandlesType DEF HandleSetCompute
  <2>2. <<img.W, img.H>> \in Int \X Int
    BY PcAssumption, SMT DEF ImageOK
  <2>3. ParametersOK'
    <3>1. \/ UNCHANGED parameters
          \/ parameters' = [parameters EXCEPT !.computation_set = TRUE,
                                               !.d = <<img.W, img.H>>]
      BY <1>8, Zenon DEF HandleSetCompute
    <3>2. CASE UNCHANGED parameters
      BY <3>2, <1>3
    <3>3. CASE ~ UNCHANGED parameters
      BY <2>2, <3>1, <3>3, Zenon DEF ParametersOK
    <3> QED
      BY <3>2, <3>3
  <2>4. parameters.c \in Cs /\ parameters.n \in Nat
    BY PcAssumption, SMT DEF ParametersOK
  <2>5. SetCompute(parameters.c, <<img.W, img.H>>, parameters.n) \in PcMessages
    BY <2>2, <2>4, SetComputeMessage
  <2>6. LinkOK'
    BY <1>1, <1>2, <1>8, <2>1, <2>5, SendPcType DEF HandleSetCompute
  <2> QED
    BY <1>1, <1>4, <2>1, <2>3, <2>6
<1>9. CASE HandleCompute
  <2> DEFINE cid == (parameters.current_chunk + 1) % BYTE
  <2>1. QueueOK' /\ UNCHANGED <<pressed, toPc, img>>
    BY <1>9, HandlesType DEF HandleCompute
  <2>2. cid \in 0 .. BYTE - 1
    BY GridAssumption, SMT DEF ParametersOK
  <2>3. ParametersOK'
    <3>1. \/ UNCHANGED parameters
          \/ parameters' = [parameters EXCEPT !.current_chunk = cid,
                                               !.computing = TRUE]
      BY <1>9, Zenon DEF HandleCompute
    <3> HIDE DEF cid
    <3>2. CASE UNCHANGED parameters
      BY <3>2, <1>3
    <3>3. CASE ~ UNCHANGED parameters
      BY <2>2, <3>1, <3>3, Zenon DEF ParametersOK
    <3> QED
      BY <3>2, <3>3
  <2>4. main' \in {"pop", "push", "crashed"}
    BY <1>9 DEF HandleCompute
  <2>5. LinkOK'
    <3>1. CASE UNCHANGED toNucleo
      BY <3>1, <2>1, <1>2
    <3>2. CASE ~ UNCHANGED toNucleo
      <4>1. /\ SendPc(Compute(cid, ChunkX(cid, img.chunksinrow, img.chunksize),
                              ChunkY(cid, img.chunksinrow, img.chunksize),
                              img.chunksize))
            /\ img.chunksinrow # 0
        BY <1>9, <3>2 DEF HandleCompute
      <4>2. /\ cid \in Nat /\ img.chunksinrow \in Nat \ {0} /\ img.chunksize \in Nat
        BY <2>2, <4>1, GridAssumption, SMT DEF ImageOK
      <4>3. Compute(cid, ChunkX(cid, img.chunksinrow, img.chunksize),
                    ChunkY(cid, img.chunksinrow, img.chunksize), img.chunksize)
              \in PcMessages
        BY <4>2, ChunkCorner, ComputeMessage
      <4> QED
        BY <1>1, <2>1, <4>1, <4>3, SendPcType
    <3> QED
      BY <3>1, <3>2
  <2> QED
    BY <1>1, <1>4, <2>1, <2>3, <2>4, <2>5
<1>10. CASE HandleResetChunk
  <2>1. ParametersOK'
    BY <1>10, GridAssumption, SMT DEF HandleResetChunk, ParametersOK, NoChunk
  <2> QED
    BY <1>1, <1>2, <1>4, <1>10, <2>1, HandlesType DEF HandleResetChunk
<1>11. CASE HandleAbort
  <2>1. ParametersOK'
    <3>1. PreviousChunk(parameters.current_chunk) \in 0 .. BYTE - 1
      BY GridAssumption, SMT DEF ParametersOK, PreviousChunk
    <3>2. \/ UNCHANGED parameters
          \/ parameters' = [parameters EXCEPT
                !.computing = FALSE,
                !.current_chunk = PreviousChunk(parameters.current_chunk)]
      BY <1>11 DEF HandleAbort
    <3>3. CASE UNCHANGED parameters
      BY <3>3, <1>3
    <3>4. CASE ~ UNCHANGED parameters
      BY <3>1, <3>2, <3>4, Zenon DEF ParametersOK
    <3> QED
      BY <3>3, <3>4
  <2>2. QueueOK' /\ UNCHANGED <<pressed, toPc, main, img>>
    BY <1>11, HandlesType DEF HandleAbort
  <2>3. LinkOK'
    BY <1>1, <1>2, <1>11, <2>2, SendPcType, PlainMessages DEF HandleAbort
  <2> QED
    BY <1>1, <1>4, <2>1, <2>2, <2>3
<1>12. CASE HandleComputeCPU \/ HandleShow
  <2>1. /\ QueueOK' /\ UNCHANGED <<pressed, toPc, toNucleo, main, parameters>>
        /\ \/ UNCHANGED img
           \/ img' = [img EXCEPT !.data = ComputeCPU(parameters.c)]
           \/ img' = [img EXCEPT !.data = ComputeCPU(Zero)]
    BY <1>12, HandlesType DEF HandleComputeCPU, HandleShow
  <2>2. parameters.c \in Cs
    BY SMT DEF ParametersOK
  <2>3. IsPixelBuffer(ComputeCPU(parameters.c)) /\ IsPixelBuffer(ComputeCPU(Zero))
    BY <2>2, ComputeCPUType
  <2>4. ImageOK'
    BY <1>4, <2>1, <2>3, NewDataType
  <2> QED
    BY <1>1, <1>2, <1>3, <2>1, <2>4
<1>13. CASE HandleClearBuffer
  <2>1. /\ QueueOK' /\ UNCHANGED <<pressed, toPc, toNucleo, main>>
        /\ \/ UNCHANGED img
           \/ img' = [img EXCEPT !.data = [p \in Pixels(img.W, img.H) |-> Black]]
    BY <1>13, HandlesType DEF HandleClearBuffer
  <2>2. IsPixelBuffer([p \in Pixels(img.W, img.H) |-> Black])
    BY BlankType, SMT DEF ImageOK
  <2>3. ImageOK'
    BY <1>4, <2>1, <2>2, NewDataType
  <2>4. ParametersOK'
    BY <1>13, GridAssumption, SMT DEF HandleClearBuffer, ParametersOK, NoChunk
  <2> QED
    BY <1>1, <1>2, <2>1, <2>3, <2>4
<1>14. CASE HandleRefresh
  <2>1. img.W \in 1 .. MaxDim /\ img.H \in 1 .. MaxDim
    BY SMT DEF ImageOK
  <2>2. computeChunkSize(img.W, img.H) \in 1 .. BYTE - 1
    <3>1. img.W \in Nat /\ img.H \in Nat
      BY <2>1, PcAssumption, SMT
    <3> QED
      BY <3>1, ChunkSizeType
  <2>3. ImageOK'
    BY <1>14, <2>1, <2>2, InitImageType DEF HandleRefresh
  <2>4. ParametersOK'
    BY <1>14, GridAssumption, SMT DEF HandleRefresh, ParametersOK, NoChunk
  <2> QED
    BY <1>1, <1>2, <1>14, <2>3, <2>4, HandlesType DEF HandleRefresh
<1>15. CASE HandleOther
  BY <1>1, <1>2, <1>3, <1>4, <1>15, HandlesType DEF HandleOther
<1> QED
  BY <1>5, <1>6, <1>7, <1>8, <1>9, <1>10, <1>11, <1>12, <1>13, <1>14, <1>15
     DEF HandleKeyEvent

(* The handlers of the messages of the board keep the types.               *)
LEMMA NucleoEventType ==
  ASSUME TypeOK, HandleNucleoEvent, UNCHANGED nucleoVars
  PROVE  TypeOK'
<1> USE DEF TypeOK
<1>1. BoardOK' /\ UNCHANGED arrived
  BY Zenon DEF nucleoVars, BoardOK
<1>2. UNCHANGED <<toNucleo, toPc>> => LinkOK'
  BY <1>1 DEF LinkOK, PcMessages, NucleoMessages, Iters
<1>3. UNCHANGED parameters => ParametersOK'
  BY DEF ParametersOK
<1>4. UNCHANGED img => ImageOK'
  BY DEF ImageOK, IsPixelBuffer, Pixels, Colours, Iters
<1>5. /\ QueueOK' /\ UNCHANGED <<pressed, toPc, toNucleo>>
      /\ Head(evq) \in QueueEvents /\ Head(evq).type = "EV_SERIAL"
  BY HandlesType DEF HandleNucleoEvent, HandleStartup, HandleAnswer, HandleMsgAbort,
                     HandleComputeData, HandleDone, HandlesMsg
<1>6. PreviousChunk(parameters.current_chunk) \in 0 .. BYTE - 1
  BY GridAssumption, SMT DEF ParametersOK, PreviousChunk
<1>7. NoChunk \in 0 .. BYTE - 1
  BY GridAssumption, SMT DEF NoChunk
<1>8. CASE HandleStartup
  <2>1. ParametersOK'
    BY <1>7, <1>8, Zenon DEF HandleStartup, ParametersOK
  <2> QED
    BY <1>1, <1>2, <1>4, <1>5, <1>8, <2>1 DEF HandleStartup
<1>9. CASE HandleAnswer
  BY <1>1, <1>2, <1>3, <1>4, <1>5, <1>9 DEF HandleAnswer
<1>10. CASE HandleMsgAbort
  <2>1. \/ UNCHANGED parameters
        \/ parameters' = [parameters EXCEPT
              !.computing = FALSE,
              !.current_chunk = PreviousChunk(parameters.current_chunk)]
    BY <1>10 DEF HandleMsgAbort
  <2>2. ASSUME ~ UNCHANGED parameters PROVE ParametersOK'
    BY <1>6, <2>1, <2>2, Zenon DEF ParametersOK
  <2>3. ParametersOK'
    BY <1>3, <2>2
  <2> QED
    BY <1>1, <1>2, <1>4, <1>5, <1>10, <2>3 DEF HandleMsgAbort
<1>11. CASE HandleComputeData
  <2> DEFINE cid == parameters.current_chunk
             x == ChunkX(cid, img.chunksinrow, img.chunksize) + msg.i_re
             y == ChunkY(cid, img.chunksinrow, img.chunksize) + msg.i_im
             colour == Colour(msg.iter, parameters.n)
  <2>1. /\ UNCHANGED parameters
        /\ main' \in {"pop", "push", "crashed"}
        /\ \/ UNCHANGED img
           \/ img' = [img EXCEPT !.data[<<x, y>>] = colour]
    BY <1>11 DEF HandleComputeData, HandlesMsg, Handles
  <2>2. msg \in NucleoMessages /\ msg.type = "MSG_COMPUTE_DATA"
    BY <1>5, <1>11, SerialEvents DEF HandleComputeData, HandlesMsg, msg
  <2>3. colour \in Colours
    <3>1. msg.iter \in Iters
      BY <2>2, NucleoMessageFields
    <3>2. parameters.n \in Nat
      BY PcAssumption, SMT DEF ParametersOK
    <3> QED
      BY <3>1, <3>2, ColourType
  <2> HIDE DEF colour, x, y
  <2>4. IsPixelBuffer([img.data EXCEPT ![<<x, y>>] = colour])
    <3>1. PICK w \in 1 .. MaxDim, h \in 1 .. MaxDim :
             img.data \in [Pixels(w, h) -> Colours]
      BY DEF ImageOK, IsPixelBuffer
    <3>2. [img.data EXCEPT ![<<x, y>>] = colour] \in [Pixels(w, h) -> Colours]
      BY <2>3, <3>1
    <3> QED
      BY <3>2 DEF IsPixelBuffer
  <2>5. ASSUME img' = [img EXCEPT !.data[<<x, y>>] = colour] PROVE ImageOK'
    <3>1. img' = [img EXCEPT !.data = [img.data EXCEPT ![<<x, y>>] = colour]]
      BY <2>5
    <3> QED
      BY <2>4, <3>1, NewDataType
  <2>6. ImageOK'
    BY <1>4, <2>1, <2>5
  <2> QED
    BY <1>1, <1>2, <1>3, <1>5, <2>1, <2>6
<1>12. CASE HandleDone
  <2>1. \/ UNCHANGED parameters
        \/ parameters' = [parameters EXCEPT !.computing = FALSE]
    BY <1>12 DEF HandleDone
  <2>2. ASSUME ~ UNCHANGED parameters PROVE ParametersOK'
    BY <2>1, <2>2, Zenon DEF ParametersOK
  <2>3. ParametersOK'
    BY <1>3, <2>2
  <2> QED
    BY <1>1, <1>2, <1>4, <1>5, <1>12, <2>3 DEF HandleDone
<1> QED
  BY <1>8, <1>9, <1>10, <1>11, <1>12 DEF HandleNucleoEvent

(* The steps of the threads that feed the queue, and the main thread's own *)
(* push.                                                                   *)
LEMMA PushType ==
  ASSUME TypeOK, UNCHANGED nucleoVars, PressKey \/ ReceiveMessage \/ PushNextChunk
  PROVE  TypeOK'
<1> USE DEF TypeOK
<1>1. BoardOK' /\ UNCHANGED arrived
  BY Zenon DEF nucleoVars, BoardOK
<1>2. UNCHANGED <<parameters, img, toNucleo>>
  BY DEF PressKey, ReceiveMessage, PushNextChunk
<1>3. ParametersOK'
  BY <1>2 DEF ParametersOK
<1>4. ImageOK'
  BY <1>2 DEF ImageOK, IsPixelBuffer, Pixels, Colours, Iters
<1>5. ASSUME NEW e \in QueueEvents, HasRoom, evq' = Append(evq, e)
      PROVE  QueueOK'
  <2>1. /\ evq' \in Seq(QueueEvents) /\ Len(evq') = Len(evq) + 1 /\ Len(evq) \in Nat
    BY <1>5, AppendFacts, LenProperties DEF QueueOK
  <2> QED
    BY <1>5, <2>1, PcAssumption, SMT DEF QueueOK, HasRoom
<1>6. UNCHANGED toPc => LinkOK'
  BY <1>1, <1>2 DEF LinkOK, PcMessages, NucleoMessages, Iters
<1>7. CASE PressKey
  <2>1. QueueOK'
    BY <1>5, <1>7, KeyIsEvent DEF PressKey
  <2>2. pressed' \in 0 .. MaxKeys
    BY <1>7, PcAssumption, SMT DEF PressKey
  <2>3. UNCHANGED <<main, toPc>>
    BY <1>7 DEF PressKey
  <2> QED
    BY <1>1, <1>3, <1>4, <1>6, <2>1, <2>2, <2>3
<1>8. CASE ReceiveMessage
  <2>1. /\ toPc # << >> /\ HasRoom /\ evq' = Append(evq, Serial(Head(toPc)))
        /\ toPc' = Tail(toPc) /\ UNCHANGED <<main, pressed>>
    BY <1>8 DEF ReceiveMessage
  <2>2. Head(toPc) \in NucleoMessages /\ Tail(toPc) \in Seq(NucleoMessages)
    BY <2>1, TailFacts DEF LinkOK
  <2>3. QueueOK'
    BY <1>5, <2>1, <2>2, SerialIsEvent
  <2>4. LinkOK'
    BY <1>1, <1>2, <2>1, <2>2 DEF LinkOK
  <2> QED
    BY <1>1, <1>3, <1>4, <2>1, <2>3, <2>4
<1>9. CASE PushNextChunk
  BY <1>1, <1>3, <1>4, <1>5, <1>6, <1>9, NextChunkIsEvent DEF PushNextChunk
<1> QED
  BY <1>7, <1>8, <1>9

(* The steps of the board.                                                 *)
LEMMA NucleoType ==
  ASSUME TypeOK, NucleoNext, UNCHANGED pcVars
  PROVE  TypeOK'
<1> USE DEF TypeOK
<1>1. UNCHANGED <<parameters, img, evq, main, pressed>>
  BY DEF pcVars
<1>2. ParametersOK' /\ QueueOK'
  BY <1>1 DEF ParametersOK, QueueOK, QueueEvents, NucleoMessages, Iters
<1>3. ImageOK'
  BY <1>1 DEF ImageOK, IsPixelBuffer, Pixels, Colours, Iters
<1>4. SUFFICES BoardOK' /\ LinkOK'
  BY <1>1, <1>2, <1>3
<1>5. /\ toNucleo \in Seq(PcMessages) /\ toPc \in Seq(NucleoMessages)
      /\ arrived \in 0 .. Len(toNucleo) /\ Len(toNucleo) \in Nat
  BY LenProperties DEF LinkOK
<1>6. CASE Arrive
  <2>1. arrived' \in 0 .. Len(toNucleo)
    BY <1>5, <1>6, SMT DEF Arrive
  <2> QED
    BY <1>5, <1>6, <2>1, Zenon DEF Arrive, BoardOK, LinkOK
<1>7. CASE Button
  <2>1. presses' \in 0 .. MaxPresses
    BY <1>7, NucleoAssumption, SMT DEF Button, BoardOK
  <2>2. abort_request' \in BOOLEAN
    BY <1>7, Zenon DEF Button, BoardOK
  <2> QED
    BY <1>5, <1>7, <2>1, <2>2, Zenon DEF Button, BoardOK, LinkOK
<1>8. CASE HandleAbortRequest
  <2>1. /\ step' \in {"abort", "work"} /\ abort_request' \in BOOLEAN
        /\ UNCHANGED <<arrived, presses, resets, toNucleo>>
        /\ \/ UNCHANGED nucleo
           \/ nucleo' = [nucleo EXCEPT !.computing = FALSE]
        /\ \/ UNCHANGED toPc
           \/ Send(Plain("MSG_ABORT"))
    BY <1>8, Zenon DEF HandleAbortRequest, BoardOK
  <2>2. toPc' \in Seq(NucleoMessages)
    BY <1>5, <2>1, SendType, PlainMessages
  <2>3. BoardOK'
    BY <2>1, Zenon DEF BoardOK
  <2> QED
    BY <1>5, <2>1, <2>2, <2>3 DEF LinkOK
<1>9. CASE ReceiveGetVersion
  <2>1. toPc' \in Seq(NucleoMessages)
    BY <1>9, SendType, PlainMessages DEF ReceiveGetVersion
  <2>2. LinkOK' /\ step' = "abort" /\ UNCHANGED <<presses, resets>>
    BY <1>9, <2>1, ReceivedType DEF ReceiveGetVersion, LinkOK
  <2>3. UNCHANGED <<nucleo, abort_request>>
    BY <1>9 DEF ReceiveGetVersion
  <2> QED
    BY <2>2, <2>3, Zenon DEF BoardOK
<1>10. CASE ReceiveAbort
  <2>1. toPc' \in Seq(NucleoMessages)
    BY <1>10, SendType, PlainMessages DEF ReceiveAbort
  <2>2. LinkOK' /\ step' = "abort" /\ UNCHANGED <<presses, resets>>
    BY <1>10, <2>1, ReceivedType DEF ReceiveAbort, LinkOK
  <2>3. /\ nucleo' = [nucleo EXCEPT !.computing = FALSE]
        /\ abort_request' = FALSE
    BY <1>10 DEF ReceiveAbort
  <2> QED
    BY <2>2, <2>3, Zenon DEF BoardOK
<1>11. CASE ReceiveSetCompute
  <2>1. toPc' \in Seq(NucleoMessages)
    BY <1>11, SendType, PlainMessages DEF ReceiveSetCompute
  <2>2. /\ LinkOK' /\ step' = "abort" /\ UNCHANGED <<presses, resets>>
        /\ Head(toNucleo) \in PcMessages /\ Head(toNucleo).type = "MSG_SET_COMPUTE"
    BY <1>11, <2>1, ReceivedType DEF ReceiveSetCompute, LinkOK
  <2>3. UNCHANGED abort_request
    BY <1>11 DEF ReceiveSetCompute
  <2> DEFINE x == Head(toNucleo)
  <2>4. nucleo' = [nucleo EXCEPT !.c = x.c, !.d = x.d, !.n = x.n]
    BY <1>11 DEF ReceiveSetCompute
  <2>5. x.c \in Cs \union {Zero} /\ x.d \in Int \X Int /\ x.n \in Nat
    BY <2>2, PcMessageFields
  <2> HIDE DEF x
  <2> QED
    BY <2>2, <2>3, <2>4, <2>5, Zenon DEF BoardOK
<1>12. CASE ReceiveCompute
  <2>1. toPc' \in Seq(NucleoMessages)
    BY <1>12, SendType, PlainMessages DEF ReceiveCompute
  <2>2. /\ LinkOK' /\ step' = "abort" /\ UNCHANGED <<presses, resets>>
        /\ Head(toNucleo) \in PcMessages /\ Head(toNucleo).type = "MSG_COMPUTE"
    BY <1>12, <2>1, ReceivedType DEF ReceiveCompute, LinkOK
  <2>3. UNCHANGED abort_request
    BY <1>12 DEF ReceiveCompute
  <2> DEFINE x == Head(toNucleo)
  <2>4. \/ UNCHANGED nucleo
        \/ nucleo' = [nucleo EXCEPT !.cid = x.cid, !.re = x.re, !.im = x.im,
                                    !.cx = 0, !.cy = 0, !.chunk_size = x.size,
                                    !.computing = TRUE]
    BY <1>12 DEF ReceiveCompute
  <2>5. x.cid \in Nat /\ x.re \in Nat /\ x.im \in Nat /\ x.size \in Nat /\ 0 \in Nat
    BY <2>2, PcMessageFields
  <2> HIDE DEF x
  <2> QED
    BY <2>2, <2>3, <2>4, <2>5, Zenon DEF BoardOK
<1>13. CASE SendPixel
  <2>1. /\ nucleo.cid \in Nat /\ nucleo.cx \in Nat /\ nucleo.cy \in Nat
        /\ nucleo.c \in Cs \union {Zero} /\ nucleo.d \in Int \X Int /\ nucleo.n \in Nat
        /\ nucleo.re + nucleo.cx \in Nat /\ nucleo.im + nucleo.cy \in Nat
        /\ nucleo.cx + 1 \in Nat /\ nucleo.cy + 1 \in Nat /\ 0 \in Nat
    BY SMT DEF BoardOK
  <2>2. ComputeData(nucleo.cid, nucleo.cx, nucleo.cy,
                    Iterations(nucleo.c, nucleo.d, nucleo.n,
                               nucleo.re + nucleo.cx, nucleo.im + nucleo.cy))
          \in NucleoMessages
    BY <2>1, IterationsType, ComputeDataMessage
  <2>3. toPc' \in Seq(NucleoMessages)
    BY <1>13, <2>2, SendType DEF SendPixel
  <2>4. step' = "abort" /\ UNCHANGED <<abort_request, arrived, presses, resets, toNucleo>>
    BY <1>13 DEF SendPixel, Computing
  <2>5. \/ nucleo' = [nucleo EXCEPT !.cx = nucleo.cx + 1, !.cy = 0]
        \/ nucleo' = [nucleo EXCEPT !.cy = nucleo.cy + 1]
    BY <1>13 DEF SendPixel, NextPixel
  <2>6. BoardOK'
    BY <2>1, <2>4, <2>5, Zenon DEF BoardOK
  <2> QED
    BY <1>5, <2>3, <2>4, <2>6 DEF LinkOK
<1>14. CASE SendDone
  <2>1. toPc' \in Seq(NucleoMessages)
    BY <1>14, SendType, PlainMessages DEF SendDone
  <2>2. /\ step' = "abort"
        /\ UNCHANGED <<abort_request, arrived, presses, resets, toNucleo>>
        /\ nucleo' = [nucleo EXCEPT !.computing = FALSE]
    BY <1>14 DEF SendDone, Computing
  <2>3. BoardOK'
    BY <2>2, Zenon DEF BoardOK
  <2> QED
    BY <1>5, <2>1, <2>2, <2>3 DEF LinkOK
<1>15. CASE Reset
  <2>1. toNucleo' \in Seq(PcMessages)
    <3>1. PICK i \in arrived .. Len(toNucleo) :
            toNucleo' = SubSeq(toNucleo, i + 1, Len(toNucleo))
      BY <1>15 DEF Reset
    <3>2. i + 1 \in 1 .. Len(toNucleo) + 1 /\ Len(toNucleo) \in 0 .. Len(toNucleo)
      BY <1>5, <3>1, SMT
    <3> QED
      BY <1>5, <3>1, <3>2, SubSeqFacts
  <2>2. toPc' \in Seq(NucleoMessages)
    <3>1. PICK j \in 0 .. Len(toPc) :
            toPc' = Append(SubSeq(toPc, 1, j), Plain("MSG_STARTUP"))
      BY <1>15 DEF Reset
    <3>2. 1 \in 1 .. Len(toPc) + 1
      BY <1>5, LenProperties, SMT
    <3>3. SubSeq(toPc, 1, j) \in Seq(NucleoMessages)
      BY <1>5, <3>1, <3>2, SubSeqFacts
    <3> QED
      BY <3>1, <3>3, AppendFacts, PlainMessages
  <2>3. arrived' \in 0 .. Len(toNucleo')
    BY <1>15, <2>1, LenProperties, SMT DEF Reset
  <2>4. Idle \in [c : Cs \union {Zero}, d : Int \X Int, n : Nat, cid : Nat,
                  re : Nat, im : Nat, chunk_size : Nat,
                  computing : BOOLEAN, cx : Nat, cy : Nat]
    BY IdleType
  <2>5. resets' \in 0 .. MaxResets
    BY <1>15, NucleoAssumption, SMT DEF Reset, BoardOK
  <2>6. /\ nucleo' = Idle /\ abort_request' = FALSE /\ step' = "abort"
        /\ UNCHANGED presses
    BY <1>15 DEF Reset
  <2>7. BoardOK'
    BY <2>4, <2>5, <2>6, Zenon DEF BoardOK
  <2> QED
    BY <2>1, <2>2, <2>3, <2>7 DEF LinkOK
<1> QED
  BY <1>6, <1>7, <1>8, <1>9, <1>10, <1>11, <1>12, <1>13, <1>14, <1>15
     DEF NucleoNext, Loop

(* Every step of the system keeps every variable in its type.              *)
LEMMA TypeStep == TypeOK /\ [Next]_vars => TypeOK'
<1> SUFFICES ASSUME TypeOK, [Next]_vars PROVE TypeOK'
  OBVIOUS
<1>1. CASE PcNext /\ UNCHANGED nucleoVars
  BY <1>1, KeyEventType, NucleoEventType, PushType DEF PcNext, MainLoop
<1>2. CASE NucleoNext /\ UNCHANGED pcVars
  BY <1>2, NucleoType
<1>3. CASE UNCHANGED vars
  <2>1. UNCHANGED <<parameters, img, evq, main, pressed, nucleo, abort_request, step,
                    arrived, presses, resets, toNucleo, toPc>>
    BY <1>3 DEF vars, pcVars, nucleoVars
  <2>2. ParametersOK' /\ QueueOK'
    BY <2>1 DEF TypeOK, ParametersOK, QueueOK, QueueEvents, NucleoMessages, Iters
  <2>3. ImageOK'
    BY <2>1 DEF TypeOK, ImageOK, IsPixelBuffer, Pixels, Colours, Iters
  <2>4. BoardOK' /\ LinkOK'
    BY <2>1, Zenon DEF TypeOK, BoardOK, LinkOK
  <2> QED
    BY <2>1, <2>2, <2>3, <2>4 DEF TypeOK
<1> QED
  BY <1>1, <1>2, <1>3 DEF Next

(* Type correctness of the whole system.                                   *)
THEOREM TypeCorrect == Spec => []TypeOK
  BY TypeInit, TypeStep, PTL DEF Spec

-----------------------------------------------------------------------------
(* The buffer of the image.                                                *)

(* A step that leaves the image alone, and from which no computation comes *)
(* to be believed in, cannot make the buffer misfit.                       *)
LEMMA SameImage ==
  ASSUME BufferFits, UNCHANGED img,
         parameters'.computing => parameters.computing \/ ~ img.refresh_require
  PROVE  BufferFits'
  BY DEF BufferFits, Pixels

(* A new picture on an image of the same size.                             *)
LEMMA SameSize ==
  ASSUME BufferFits, ImageOK, UNCHANGED parameters, NEW data,
         img' = [img EXCEPT !.data = data],
         ~ img.refresh_require => DOMAIN data = Pixels(img.W, img.H)
  PROVE  BufferFits'
<1>1. /\ img'.W = img.W /\ img'.H = img.H /\ img'.data = data
      /\ img'.refresh_require = img.refresh_require
  BY Zenon DEF ImageOK
<1> QED
  BY <1>1 DEF BufferFits, Pixels

(* A new buffer has the size of its image.                                 *)
LEMMA FreshImage ==
  ASSUME NEW w, NEW h, NEW size, img' = initImage(w, h, size)
  PROVE  BufferFits'
<1>1. /\ ~ img'.refresh_require
      /\ img'.data = [p \in Pixels(img'.W, img'.H) |-> Black]
  BY DEF initImage
<1> QED
  BY <1>1 DEF BufferFits, Pixels

(* The handlers of the keys keep the buffer fitting.                       *)
LEMMA KeyEventFits ==
  ASSUME TypeOK, BufferFits, HandleKeyEvent
  PROVE  BufferFits'
<1>1. ParametersOK /\ ImageOK
  BY DEF TypeOK
<1>2. CASE HandleGetVersion \/ HandleAbort \/ HandleChangePar \/ HandleResetChunk
  <2>1. /\ UNCHANGED img
        /\ \/ UNCHANGED parameters
           \/ parameters' = [parameters EXCEPT !.parameter_to_be_changed = param]
           \/ parameters' = [parameters EXCEPT !.current_chunk = NoChunk]
           \/ parameters' = [parameters EXCEPT
                 !.computing = FALSE,
                 !.current_chunk = PreviousChunk(parameters.current_chunk)]
    BY <1>2, Zenon DEF HandleGetVersion, HandleAbort, HandleChangePar, HandleResetChunk
  <2>2. parameters'.computing => parameters.computing
    BY <1>1, <2>1, Zenon DEF ParametersOK
  <2> QED
    BY <2>1, <2>2, SameImage
<1>3. CASE HandleSetCompute
  <2>1. /\ UNCHANGED img
        /\ \/ UNCHANGED parameters
           \/ parameters' = [parameters EXCEPT !.computation_set = TRUE,
                                               !.d = <<img.W, img.H>>]
    BY <1>3 DEF HandleSetCompute
  <2>2. parameters'.computing => parameters.computing
    BY <1>1, <2>1, Zenon DEF ParametersOK
  <2> QED
    BY <2>1, <2>2, SameImage
<1>4. CASE HandleSetChange
  <2> DEFINE changed == [parameters EXCEPT !.computation_set = FALSE]
  <2>1. /\ changed.computing = parameters.computing
        /\ changed \in [c : Cs, n : minN .. maxN, d : Int \X Int,
                        computing : BOOLEAN, computation_set : BOOLEAN,
                        current_chunk : 0 .. BYTE - 1,
                        parameter_to_be_changed : Nat]
    BY <1>1, Zenon DEF ParametersOK
  <2>2. \/ /\ UNCHANGED img
           /\ \/ \E c \in Cs : parameters' = [changed EXCEPT !.c = c]
              \/ parameters' = [changed EXCEPT !.n = ChangedN]
              \/ parameters' = changed
        \/ /\ ~ parameters.computing /\ parameters' = changed
           /\ \/ img' = [img EXCEPT !.W = Changed(img.W), !.refresh_require = TRUE]
              \/ img' = [img EXCEPT !.H = Changed(img.H), !.refresh_require = TRUE]
    BY <1>4, Zenon DEF HandleSetChange
  <2> HIDE DEF changed
  <2>3. CASE UNCHANGED img
    <3>1. parameters'.computing = parameters.computing
      BY <2>1, <2>2, Zenon
    <3> QED
      BY <2>3, <3>1, SameImage
  <2>4. CASE /\ ~ parameters.computing /\ parameters' = changed
             /\ \/ img' = [img EXCEPT !.W = Changed(img.W), !.refresh_require = TRUE]
                \/ img' = [img EXCEPT !.H = Changed(img.H), !.refresh_require = TRUE]
    <3>1. img'.refresh_require /\ ~ parameters'.computing
      BY <1>1, <2>1, <2>4, Zenon DEF ImageOK
    <3> QED
      BY <3>1 DEF BufferFits
  <2> QED
    BY <2>2, <2>3, <2>4
<1>5. CASE HandleCompute
  <2>1. UNCHANGED img /\ (UNCHANGED parameters \/ ~ img.refresh_require)
    BY <1>5 DEF HandleCompute, MayCompute
  <2> QED
    BY <2>1, SameImage
<1>6. CASE HandleComputeCPU \/ HandleShow
  <2>1. /\ UNCHANGED parameters
        /\ \/ UNCHANGED img
           \/ \E c : img' = [img EXCEPT !.data = ComputeCPU(c)]
    BY <1>6, Zenon DEF HandleComputeCPU, HandleShow
  <2>2. CASE UNCHANGED img
    BY <2>1, <2>2, SameImage
  <2>3. CASE \E c : img' = [img EXCEPT !.data = ComputeCPU(c)]
    <3>1. PICK c : img' = [img EXCEPT !.data = ComputeCPU(c)]
      BY <2>3
    <3>2. DOMAIN ComputeCPU(c) = Pixels(img.W, img.H)
      BY DEF ComputeCPU
    <3> QED
      BY <1>1, <2>1, <3>1, <3>2, SameSize
  <2> QED
    BY <2>1, <2>2, <2>3
<1>7. CASE HandleClearBuffer
  <2>1. CASE img.refresh_require \/ parameters.computing
    <3>1. UNCHANGED <<parameters, img>>
      BY <1>7, <2>1 DEF HandleClearBuffer
    <3> QED
      BY <3>1, SameImage
  <2>2. CASE ~ img.refresh_require /\ ~ parameters.computing
    <3> DEFINE blank == [p \in Pixels(img.W, img.H) |-> Black]
    <3>1. /\ img' = [img EXCEPT !.data = blank]
          /\ parameters' = [parameters EXCEPT !.current_chunk = NoChunk]
          /\ DOMAIN blank = Pixels(img.W, img.H)
      BY <1>7, <2>2 DEF HandleClearBuffer
    <3> HIDE DEF blank
    <3>2. /\ img'.W = img.W /\ img'.H = img.H /\ img'.data = blank
          /\ ~ parameters'.computing
      BY <1>1, <2>2, <3>1, Zenon DEF ImageOK, ParametersOK
    <3> QED
      BY <3>1, <3>2 DEF BufferFits, Pixels
  <2> QED
    BY <2>1, <2>2
<1>8. CASE HandleRefresh
  BY <1>8, FreshImage DEF HandleRefresh
<1>9. CASE HandleOther
  BY <1>9, SameImage DEF HandleOther
<1> QED
  BY <1>2, <1>3, <1>4, <1>5, <1>6, <1>7, <1>8, <1>9 DEF HandleKeyEvent

(* The handlers of the messages of the board keep the buffer fitting: a    *)
(* result is stored where there is a pixel or not at all.                  *)
LEMMA NucleoEventFits ==
  ASSUME TypeOK, BufferFits, HandleNucleoEvent
  PROVE  BufferFits'
<1>1. ParametersOK /\ ImageOK
  BY DEF TypeOK
<1>2. CASE HandleStartup \/ HandleAnswer \/ HandleMsgAbort \/ HandleDone
  <2>1. /\ UNCHANGED img
        /\ \/ UNCHANGED parameters
           \/ parameters' = [parameters EXCEPT !.computing = FALSE]
           \/ parameters' = [parameters EXCEPT
                 !.computing = FALSE,
                 !.current_chunk = PreviousChunk(parameters.current_chunk)]
           \/ parameters' = [parameters EXCEPT !.computing = FALSE,
                                               !.computation_set = FALSE,
                                               !.current_chunk = NoChunk]
    BY <1>2, Zenon DEF HandleStartup, HandleAnswer, HandleMsgAbort, HandleDone
  <2>2. parameters'.computing => parameters.computing
    BY <1>1, <2>1, Zenon DEF ParametersOK
  <2> QED
    BY <2>1, <2>2, SameImage
<1>3. CASE HandleComputeData
  <2>1. /\ UNCHANGED parameters
        /\ \/ UNCHANGED img
           \/ \E x, y, colour : img' = [img EXCEPT !.data[<<x, y>>] = colour]
    <3> DEFINE x == ChunkX(parameters.current_chunk, img.chunksinrow, img.chunksize)
                      + msg.i_re
               y == ChunkY(parameters.current_chunk, img.chunksinrow, img.chunksize)
                      + msg.i_im
               colour == Colour(msg.iter, parameters.n)
    <3>1. /\ UNCHANGED parameters
          /\ UNCHANGED img \/ img' = [img EXCEPT !.data[<<x, y>>] = colour]
      BY <1>3 DEF HandleComputeData
    <3> HIDE DEF x, y, colour
    <3> QED
      BY <3>1
  <2>2. CASE UNCHANGED img
    BY <2>1, <2>2, SameImage
  <2>3. CASE \E x, y, colour : img' = [img EXCEPT !.data[<<x, y>>] = colour]
    <3>1. PICK x, y, colour : img' = [img EXCEPT !.data[<<x, y>>] = colour]
      BY <2>3
    <3> DEFINE data == [img.data EXCEPT ![<<x, y>>] = colour]
    <3>2. img' = [img EXCEPT !.data = data] /\ DOMAIN data = DOMAIN img.data
      BY <3>1
    <3> HIDE DEF data
    <3> QED
      BY <1>1, <2>1, <3>2, SameSize DEF BufferFits
  <2> QED
    BY <2>1, <2>2, <2>3
<1> QED
  BY <1>2, <1>3 DEF HandleNucleoEvent

(* Whatever sizes the user chooses and whenever he refreshes, the buffer   *)
(* has the size of the image unless a refresh is due, and no chunk is      *)
(* computed while one is: a result never lands outside the buffer.         *)
THEOREM BufferAlwaysFits == Spec => []BufferFits
<1>1. Init => BufferFits
  <2> SUFFICES ASSUME Init PROVE BufferFits
    OBVIOUS
  <2>1. /\ ~ parameters.computing
        /\ img = initImage(def_W, def_H, def_chunksize)
    BY SMT DEF Init, PcInit
  <2>2. img.data = [p \in Pixels(img.W, img.H) |-> Black]
    BY <2>1 DEF initImage
  <2> QED
    BY <2>1, <2>2 DEF BufferFits
<1>2. TypeOK /\ BufferFits /\ [Next]_vars => BufferFits'
  <2> SUFFICES ASSUME TypeOK, BufferFits, [Next]_vars PROVE BufferFits'
    OBVIOUS
  <2>1. CASE HandleKeyEvent
    BY <2>1, KeyEventFits
  <2>2. CASE HandleNucleoEvent
    BY <2>2, NucleoEventFits
  <2>3. CASE UNCHANGED <<parameters, img>>
    BY <2>3, SameImage
  <2>4. PressKey \/ ReceiveMessage \/ PushNextChunk => UNCHANGED <<parameters, img>>
    BY DEF PressKey, ReceiveMessage, PushNextChunk
  <2>5. UNCHANGED pcVars => UNCHANGED <<parameters, img>>
    BY DEF pcVars
  <2> QED
    BY <2>1, <2>2, <2>3, <2>4, <2>5 DEF Next, PcNext, MainLoop, vars
<1> QED
  BY <1>1, <1>2, TypeInit, TypeStep, PTL DEF Spec

-----------------------------------------------------------------------------
(* What the two sides of the link know of each other, whatever keys are    *)
(* pressed and however aborts, answers and restarts cross each other.      *)

(* Messages to the application.                                            *)

(* The main thread takes an event that is not one of these messages.       *)
LEMMA OnTheWayPop ==
  ASSUME QueueOK, NEW T, OnTheWay(T), UNCHANGED toPc,
         evq # << >>, evq' = Tail(evq),
         ~ (Head(evq).type = "EV_SERIAL" /\ Head(evq).msg.type \in T)
  PROVE  OnTheWay(T)'
<1>1. /\ Head(evq) = evq[1] /\ Len(evq) \in Nat /\ Len(evq) >= 1
      /\ DOMAIN evq = 1 .. Len(evq) /\ DOMAIN evq' = 1 .. Len(evq) - 1
      /\ \A i \in 1 .. Len(evq) - 1 : evq'[i] = evq[i + 1]
  BY TailFacts, LenProperties DEF QueueOK
<1>2. ASSUME NEW i \in DOMAIN evq, evq[i].type = "EV_SERIAL", evq[i].msg.type \in T
      PROVE  \E k \in DOMAIN evq' : evq'[k].type = "EV_SERIAL" /\ evq'[k].msg.type \in T
  <2>1. i # 1
    BY <1>1, <1>2
  <2>2. i - 1 \in 1 .. Len(evq) - 1 /\ evq'[i - 1] = evq[i]
    BY <1>1, <2>1, SMT
  <2> QED
    BY <1>1, <1>2, <2>2
<1> QED
  BY <1>2 DEF OnTheWay, Serials

(* A thread pushes an event.                                               *)
LEMMA OnTheWayPush ==
  ASSUME QueueOK, NEW T, OnTheWay(T), UNCHANGED toPc,
         NEW e \in QueueEvents, evq' = Append(evq, e)
  PROVE  OnTheWay(T)'
<1>1. /\ Len(evq) \in Nat
      /\ DOMAIN evq = 1 .. Len(evq) /\ DOMAIN evq' = 1 .. Len(evq) + 1
      /\ \A i \in 1 .. Len(evq) : evq'[i] = evq[i]
  BY AppendFacts, LenProperties DEF QueueOK
<1>2. ASSUME NEW i \in DOMAIN evq, evq[i].type = "EV_SERIAL", evq[i].msg.type \in T
      PROVE  \E k \in DOMAIN evq' : evq'[k].type = "EV_SERIAL" /\ evq'[k].msg.type \in T
  <2>1. i \in DOMAIN evq' /\ evq'[i] = evq[i]
    BY <1>1, SMT
  <2> QED
    BY <1>2, <2>1
<1> QED
  BY <1>2 DEF OnTheWay, Serials

(* The serial thread moves a message from the link to the queue.           *)
LEMMA OnTheWayReceive ==
  ASSUME QueueOK, LinkOK, NEW T, OnTheWay(T), ReceiveMessage
  PROVE  OnTheWay(T)'
<1> DEFINE x == Head(toPc)
<1>1. /\ toPc # << >> /\ evq' = Append(evq, Serial(x)) /\ toPc' = Tail(toPc)
  BY DEF ReceiveMessage
<1>2. /\ x \in NucleoMessages /\ x = toPc[1] /\ Len(toPc) \in Nat /\ Len(toPc) >= 1
      /\ DOMAIN toPc = 1 .. Len(toPc) /\ DOMAIN toPc' = 1 .. Len(toPc) - 1
      /\ \A i \in 1 .. Len(toPc) - 1 : toPc'[i] = toPc[i + 1]
  BY <1>1, TailFacts, LenProperties DEF LinkOK
<1>3. Serial(x) \in QueueEvents /\ Serial(x).type = "EV_SERIAL" /\ Serial(x).msg = x
  BY <1>2, SerialIsEvent
<1>4. /\ Len(evq) \in Nat
      /\ DOMAIN evq = 1 .. Len(evq) /\ DOMAIN evq' = 1 .. Len(evq) + 1
      /\ \A i \in 1 .. Len(evq) : evq'[i] = evq[i]
      /\ evq'[Len(evq) + 1] = Serial(x)
  BY <1>1, <1>3, AppendFacts, LenProperties DEF QueueOK
<1> HIDE DEF x
<1>5. ASSUME NEW i \in DOMAIN evq, evq[i].type = "EV_SERIAL", evq[i].msg.type \in T
      PROVE  \E k \in DOMAIN evq' : evq'[k].type = "EV_SERIAL" /\ evq'[k].msg.type \in T
  <2>1. i \in DOMAIN evq' /\ evq'[i] = evq[i]
    BY <1>4, SMT
  <2> QED
    BY <1>5, <2>1
<1>6. ASSUME NEW i \in DOMAIN toPc, toPc[i].type \in T, i # 1
      PROVE  \E k \in DOMAIN toPc' : toPc'[k].type \in T
  <2>1. i - 1 \in 1 .. Len(toPc) - 1 /\ toPc'[i - 1] = toPc[i]
    BY <1>2, <1>6, SMT
  <2> QED
    BY <1>2, <1>6, <2>1
<1>7. ASSUME toPc[1].type \in T
      PROVE  \E k \in DOMAIN evq' : evq'[k].type = "EV_SERIAL" /\ evq'[k].msg.type \in T
  <2>1. Len(evq) + 1 \in DOMAIN evq'
    BY <1>4, SMT
  <2> QED
    BY <1>2, <1>3, <1>4, <1>7, <2>1
<1> QED
  BY <1>5, <1>6, <1>7 DEF OnTheWay, Serials

(* The board sends a message.                                              *)
LEMMA OnTheWaySend ==
  ASSUME LinkOK, NEW T, NEW x \in NucleoMessages, OnTheWay(T) \/ x.type \in T,
         Send(x), UNCHANGED evq
  PROVE  OnTheWay(T)'
<1>1. /\ Len(toPc) \in Nat
      /\ DOMAIN toPc = 1 .. Len(toPc) /\ DOMAIN toPc' = 1 .. Len(toPc) + 1
      /\ \A i \in 1 .. Len(toPc) : toPc'[i] = toPc[i]
      /\ toPc'[Len(toPc) + 1] = x
  BY AppendFacts, LenProperties DEF LinkOK, Send
<1>2. Len(toPc) + 1 \in DOMAIN toPc' /\ DOMAIN toPc \subseteq DOMAIN toPc'
  BY <1>1, SMT
<1> QED
  BY <1>1, <1>2 DEF OnTheWay, Serials

(* A pixel is sent as a message.                                           *)
LEMMA PixelMessage ==
  ASSUME BoardOK, SendPixel
  PROVE  \E x \in NucleoMessages : Send(x)
<1>1. /\ nucleo.cid \in Nat /\ nucleo.cx \in Nat /\ nucleo.cy \in Nat
      /\ nucleo.c \in Cs \union {Zero} /\ nucleo.d \in Int \X Int
      /\ nucleo.n \in Nat
      /\ nucleo.re + nucleo.cx \in Nat /\ nucleo.im + nucleo.cy \in Nat
  BY SMT DEF BoardOK
<1>2. ComputeData(nucleo.cid, nucleo.cx, nucleo.cy,
                  Iterations(nucleo.c, nucleo.d, nucleo.n,
                             nucleo.re + nucleo.cx, nucleo.im + nucleo.cy))
        \in NucleoMessages
  BY <1>1, IterationsType, ComputeDataMessage
<1> QED
  BY <1>2 DEF SendPixel

(* A restart is announced.                                                 *)
LEMMA StartupOnTheWay ==
  ASSUME LinkOK, Reset, NEW T, "MSG_STARTUP" \in T
  PROVE  OnTheWay(T)'
<1>1. PICK j \in 0 .. Len(toPc) :
         toPc' = Append(SubSeq(toPc, 1, j), Plain("MSG_STARTUP"))
  BY DEF Reset
<1>2. SubSeq(toPc, 1, j) \in Seq(NucleoMessages)
  <2>1. 1 \in 1 .. Len(toPc) + 1
    BY LenProperties, SMT DEF LinkOK
  <2> QED
    BY <2>1, SubSeqFacts DEF LinkOK
<1> DEFINE s == SubSeq(toPc, 1, j)
<1>3. /\ Len(s) + 1 \in DOMAIN toPc' /\ toPc'[Len(s) + 1] = Plain("MSG_STARTUP")
  <2> HIDE DEF s
  <2>1. Len(s) \in Nat
    BY <1>2, LenProperties DEF s
  <2> QED
    BY <1>1, <1>2, <2>1, AppendFacts, PlainMessages DEF s
<1> QED
  BY <1>3 DEF OnTheWay, Plain

-----------------------------------------------------------------------------
(* Messages to the board.                                                  *)

(* The application sends a message of another type.                        *)
LEMMA NoneAfterSend ==
  ASSUME LinkOK, NEW x \in PcMessages, SendPc(x), NEW t, x.type # t,
         NEW i \in Nat, NoneAfter(i, t)
  PROVE  NoneAfter(i, t)'
<1>1. /\ Len(toNucleo) \in Nat
      /\ DOMAIN toNucleo = 1 .. Len(toNucleo)
      /\ DOMAIN toNucleo' = 1 .. Len(toNucleo) + 1
      /\ \A j \in 1 .. Len(toNucleo) : toNucleo'[j] = toNucleo[j]
      /\ toNucleo'[Len(toNucleo) + 1] = x
  BY AppendFacts, LenProperties DEF LinkOK, SendPc
<1>2. ASSUME NEW j \in DOMAIN toNucleo', j > i PROVE toNucleo'[j].type # t
  <2>1. CASE j = Len(toNucleo) + 1
    BY <1>1, <2>1
  <2>2. CASE j # Len(toNucleo) + 1
    <3>1. j \in DOMAIN toNucleo /\ toNucleo'[j] = toNucleo[j]
      BY <1>1, <2>2, SMT
    <3> QED
      BY <1>2, <3>1 DEF NoneAfter
  <2> QED
    BY <2>1, <2>2
<1> QED
  BY <1>2 DEF NoneAfter

(* Whatever it sends, nothing comes after it.                              *)
LEMMA NoneAfterLast ==
  ASSUME LinkOK, NEW x \in PcMessages, SendPc(x), NEW t
  PROVE  /\ Len(toNucleo) + 1 \in DOMAIN toNucleo'
         /\ toNucleo'[Len(toNucleo) + 1] = x
         /\ \A j \in DOMAIN toNucleo' :
               j > Len(toNucleo) + 1 => toNucleo'[j].type # t
<1>1. /\ Len(toNucleo) \in Nat
      /\ DOMAIN toNucleo' = 1 .. Len(toNucleo) + 1
      /\ toNucleo'[Len(toNucleo) + 1] = x
  BY AppendFacts, LenProperties DEF LinkOK, SendPc
<1> QED
  BY <1>1, SMT

(* A message that stays where it is when the application sends another.    *)
LEMMA SendKeeps ==
  ASSUME LinkOK, NEW x \in PcMessages, SendPc(x), NEW i \in DOMAIN toNucleo
  PROVE  i \in DOMAIN toNucleo' /\ toNucleo'[i] = toNucleo[i] /\ i \in Nat
<1>1. /\ Len(toNucleo) \in Nat
      /\ DOMAIN toNucleo = 1 .. Len(toNucleo)
      /\ DOMAIN toNucleo' = 1 .. Len(toNucleo) + 1
      /\ \A j \in 1 .. Len(toNucleo) : toNucleo'[j] = toNucleo[j]
  BY AppendFacts, LenProperties DEF LinkOK, SendPc
<1> QED
  BY <1>1, SMT

(* The board takes the first message; the others move up.                  *)
LEMMA ReceiveShifts ==
  ASSUME LinkOK, NEW type, Received(type)
  PROVE  /\ 1 \in DOMAIN toNucleo /\ Head(toNucleo) = toNucleo[1]
         /\ toNucleo[1].type = type
         /\ \A i \in DOMAIN toNucleo' :
               i + 1 \in DOMAIN toNucleo /\ toNucleo'[i] = toNucleo[i + 1]
         /\ \A i \in DOMAIN toNucleo :
               i # 1 => i - 1 \in DOMAIN toNucleo' /\ toNucleo'[i - 1] = toNucleo[i]
         /\ \A i \in DOMAIN toNucleo : i \in Nat /\ i >= 1
         /\ \A i \in DOMAIN toNucleo' : i \in Nat /\ i >= 1
<1>1. /\ arrived > 0 /\ toNucleo' = Tail(toNucleo) /\ Head(toNucleo).type = type
  BY DEF Received
<1>2. toNucleo # << >>
  BY <1>1, SMT DEF LinkOK
<1>3. /\ Head(toNucleo) = toNucleo[1] /\ Len(toNucleo) \in Nat /\ Len(toNucleo) >= 1
      /\ DOMAIN toNucleo = 1 .. Len(toNucleo)
      /\ DOMAIN toNucleo' = 1 .. Len(toNucleo) - 1
      /\ \A i \in 1 .. Len(toNucleo) - 1 : toNucleo'[i] = toNucleo[i + 1]
  BY <1>1, <1>2, TailFacts, LenProperties DEF LinkOK
<1> QED
  BY <1>1, <1>3, SMT

(* Nothing comes nearer that was not there when the board takes a message. *)
LEMMA NoneAfterReceive ==
  ASSUME LinkOK, NEW type, Received(type), NEW t
  PROVE  /\ NoneAfter(0, t) => NoneAfter(0, t)'
         /\ NoneAfter(1, t) => NoneAfter(0, t)'
         /\ \A i \in DOMAIN toNucleo : NoneAfter(i, t) => 
               \A j \in DOMAIN toNucleo' : j > i - 1 => toNucleo'[j].type # t
<1>1. /\ \A j \in DOMAIN toNucleo' :
            j + 1 \in DOMAIN toNucleo /\ toNucleo'[j] = toNucleo[j + 1]
      /\ \A i \in DOMAIN toNucleo : i \in Nat /\ i >= 1
      /\ \A i \in DOMAIN toNucleo' : i \in Nat /\ i >= 1
  BY ReceiveShifts
<1>2. ASSUME NEW i \in Nat, NoneAfter(i, t), NEW j \in DOMAIN toNucleo', j + 1 > i
      PROVE  toNucleo'[j].type # t
  BY <1>1, <1>2 DEF NoneAfter
<1>3. NoneAfter(0, t) => NoneAfter(0, t)'
  <2>1. \A j \in DOMAIN toNucleo' : j > 0 => j + 1 > 0
    BY <1>1, SMT
  <2> QED
    BY <1>2, <2>1 DEF NoneAfter
<1>4. NoneAfter(1, t) => NoneAfter(0, t)'
  <2>1. \A j \in DOMAIN toNucleo' : j > 0 => j + 1 > 1
    BY <1>1, SMT
  <2> QED
    BY <1>2, <2>1 DEF NoneAfter
<1>5. ASSUME NEW i \in DOMAIN toNucleo, NoneAfter(i, t),
             NEW j \in DOMAIN toNucleo', j > i - 1
      PROVE  toNucleo'[j].type # t
  <2>1. i \in Nat /\ j + 1 > i
    BY <1>1, <1>5, SMT
  <2> QED
    BY <1>2, <1>5, <2>1
<1> QED
  BY <1>3, <1>4, <1>5

(* What was sent is a message, since the link holds nothing else.          *)
LEMMA SentIsMessage ==
  ASSUME LinkOK, LinkOK', NEW x, SendPc(x)
  PROVE  x \in PcMessages
<1>1. toNucleo' = Append(toNucleo, x) /\ toNucleo \in Seq(PcMessages)
  BY DEF LinkOK, SendPc
<1>2. Append(toNucleo, x) \in Seq(PcMessages)
  BY <1>1 DEF LinkOK, PcMessages
<1>3. /\ Len(toNucleo) + 1 \in 1 .. Len(Append(toNucleo, x))
      /\ Append(toNucleo, x)[Len(toNucleo) + 1] = x
  BY <1>1, LenProperties, SMT
<1> QED
  BY <1>2, <1>3, ElementOfSeq

-----------------------------------------------------------------------------
(* NeverStranded: three reasons for the belief that the board computes.    *)

Ends == {"MSG_DONE", "MSG_ABORT", "MSG_STARTUP"}
EndOnTheWay == OnTheWay(Ends)
BoardComputes == nucleo.computing /\ NoneAfter(0, "MSG_ABORT")
Requested ==
  \E i \in DOMAIN toNucleo :
     toNucleo[i].type = "MSG_COMPUTE" /\ NoneAfter(i, "MSG_ABORT")
Justified == EndOnTheWay \/ BoardComputes \/ Requested

(* The invariant says that the belief has one of the three reasons.        *)
LEMMA JustifiedMeaning ==
  NeverStranded <=> (parameters.computing /\ main # "crashed" => Justified)
  BY DEF NeverStranded, Justified, EndOnTheWay, BoardComputes, Requested, Ends

(* A key either ends the belief, or leaves it alone and sends no abort, or *)
(* sends the request, or divides by zero.                                  *)
LEMMA KeyEventComputing ==
  ASSUME TypeOK, HandleKeyEvent
  PROVE  /\ evq # << >> /\ evq' = Tail(evq) /\ Head(evq).type # "EV_SERIAL"
         /\ main = "pop" /\ UNCHANGED toPc
         /\ \/ ~ parameters'.computing
            \/ main' = "crashed"
            \/ /\ parameters'.computing = parameters.computing
               /\ \/ UNCHANGED toNucleo
                  \/ \E x : SendPc(x) /\ x.type # "MSG_ABORT"
            \/ \E x : SendPc(x) /\ x.type = "MSG_COMPUTE"
<1>1. /\ evq # << >> /\ evq' = Tail(evq) /\ Head(evq).type # "EV_SERIAL"
      /\ main = "pop" /\ UNCHANGED toPc
  BY DEF HandleKeyEvent, HandleGetVersion, HandleChangePar, HandleSetChange,
         HandleSetCompute, HandleCompute, HandleResetChunk, HandleAbort,
         HandleComputeCPU, HandleClearBuffer, HandleRefresh, HandleShow, HandleOther,
         Handles
<1>2. \A t : Plain(t).type = t
  BY DEF Plain
<1>3. \A c, d, n : SetCompute(c, d, n).type = "MSG_SET_COMPUTE"
  BY DEF SetCompute
<1>4. \A c, re, im, s : Compute(c, re, im, s).type = "MSG_COMPUTE"
  BY DEF Compute
<1> DEFINE Quiet == /\ parameters'.computing = parameters.computing
                    /\ \/ UNCHANGED toNucleo
                       \/ \E x : SendPc(x) /\ x.type # "MSG_ABORT"
           Asks == \E x : SendPc(x) /\ x.type = "MSG_COMPUTE"
<1>5. SUFFICES ~ parameters'.computing \/ main' = "crashed" \/ Quiet \/ Asks
  BY <1>1
<1>6. ParametersOK
  BY DEF TypeOK
<1>7. CASE HandleGetVersion
  <2>1. Quiet
    BY <1>2, <1>7 DEF HandleGetVersion
  <2> QED
    BY <2>1
<1>8. CASE HandleChangePar
  <2>1. Quiet
    BY <1>6, <1>8, SMT DEF HandleChangePar, ParametersOK
  <2> QED
    BY <2>1
<1>9. CASE HandleSetChange
  <2> DEFINE changed == [parameters EXCEPT !.computation_set = FALSE]
  <2>1. \/ \E c \in Cs : parameters' = [changed EXCEPT !.c = c]
        \/ parameters' = [changed EXCEPT !.n = ChangedN]
        \/ parameters' = changed
    BY <1>9, Zenon DEF HandleSetChange
  <2>2. parameters'.computing = parameters.computing
    <3>1. /\ changed.computing = parameters.computing
          /\ changed \in [c : Cs, n : minN .. maxN, d : Int \X Int,
                          computing : BOOLEAN, computation_set : BOOLEAN,
                          current_chunk : 0 .. BYTE - 1,
                          parameter_to_be_changed : Nat]
      BY <1>6, Zenon DEF ParametersOK
    <3> HIDE DEF changed
    <3> QED
      BY <2>1, <3>1, SMT
  <2>3. UNCHANGED toNucleo
    BY <1>9 DEF HandleSetChange
  <2> QED
    BY <2>2, <2>3
<1>10. CASE HandleSetCompute
  <2>1. CASE parameters.computing
    BY <1>10, <2>1 DEF HandleSetCompute
  <2>2. CASE ~ parameters.computing
    <3>1. parameters' = [parameters EXCEPT !.computation_set = TRUE,
                                           !.d = <<img.W, img.H>>]
      BY <1>10, <2>2 DEF HandleSetCompute
    <3>2. parameters'.computing = parameters.computing
      BY <1>6, <3>1, SMT DEF ParametersOK
    <3>3. SendPc(SetCompute(parameters.c, <<img.W, img.H>>, parameters.n))
      BY <1>10, <2>2 DEF HandleSetCompute
    <3> QED
      BY <1>3, <3>2, <3>3
  <2> QED
    BY <2>1, <2>2
<1>11. CASE HandleCompute
  <2>1. CASE MayCompute /\ img.chunksinrow # 0
    BY <1>4, <1>11, <2>1 DEF HandleCompute
  <2>2. CASE ~ MayCompute
    BY <1>11, <2>2 DEF HandleCompute
  <2>3. CASE MayCompute /\ img.chunksinrow = 0
    BY <1>11, <2>3 DEF HandleCompute
  <2> QED
    BY <2>1, <2>2, <2>3
<1>12. CASE HandleResetChunk
  <2>1. Quiet
    BY <1>6, <1>12, SMT DEF HandleResetChunk, ParametersOK
  <2> QED
    BY <2>1
<1>13. CASE HandleAbort
  <2>1. ~ parameters'.computing
    <3>1. CASE parameters.computing
      <4>1. parameters' = [parameters EXCEPT
               !.computing = FALSE,
               !.current_chunk = PreviousChunk(parameters.current_chunk)]
        BY <1>13, <3>1 DEF HandleAbort
      <4> QED
        BY <1>6, <4>1, Zenon DEF ParametersOK
    <3>2. CASE ~ parameters.computing
      BY <1>13, <3>2 DEF HandleAbort
    <3> QED
      BY <3>1, <3>2
  <2> QED
    BY <2>1
<1>14. CASE HandleComputeCPU \/ HandleShow \/ HandleOther
  BY <1>14 DEF HandleComputeCPU, HandleShow, HandleOther
<1>15. CASE HandleClearBuffer \/ HandleRefresh
  <2>1. /\ UNCHANGED toNucleo
        /\ \/ UNCHANGED parameters
           \/ parameters' = [parameters EXCEPT !.current_chunk = NoChunk]
    BY <1>15 DEF HandleClearBuffer, HandleRefresh
  <2>2. Quiet
    BY <1>6, <2>1, SMT DEF ParametersOK
  <2> QED
    BY <2>2
<1> QED
  BY <1>7, <1>8, <1>9, <1>10, <1>11, <1>12, <1>13, <1>14, <1>15 DEF HandleKeyEvent

(* The reasons survive when the application sends something that is not an *)
(* abort, and a request is a reason.                                       *)
LEMMA SendKeepsReasons ==
  ASSUME LinkOK, NEW x \in PcMessages, SendPc(x), UNCHANGED nucleo
  PROVE  /\ BoardComputes /\ x.type # "MSG_ABORT" => BoardComputes'
         /\ Requested /\ x.type # "MSG_ABORT" => Requested'
         /\ x.type = "MSG_COMPUTE" => Requested'
<1>1. ASSUME BoardComputes, x.type # "MSG_ABORT" PROVE BoardComputes'
  BY <1>1, NoneAfterSend DEF BoardComputes
<1>2. ASSUME Requested, x.type # "MSG_ABORT" PROVE Requested'
  <2>1. PICK i \in DOMAIN toNucleo :
           toNucleo[i].type = "MSG_COMPUTE" /\ NoneAfter(i, "MSG_ABORT")
    BY <1>2 DEF Requested
  <2>2. i \in DOMAIN toNucleo' /\ toNucleo'[i] = toNucleo[i] /\ i \in Nat
    BY SendKeeps
  <2>3. NoneAfter(i, "MSG_ABORT")'
    BY <1>2, <2>1, <2>2, NoneAfterSend
  <2> QED
    BY <2>1, <2>2, <2>3 DEF Requested, NoneAfter
<1>3. ASSUME x.type = "MSG_COMPUTE" PROVE Requested'
  <2> DEFINE i == Len(toNucleo) + 1
  <2>1. /\ i \in DOMAIN toNucleo' /\ toNucleo'[i] = x
        /\ \A j \in DOMAIN toNucleo' : j > i => toNucleo'[j].type # "MSG_ABORT"
    BY NoneAfterLast
  <2> HIDE DEF i
  <2> QED
    BY <1>3, <2>1 DEF Requested, NoneAfter
<1> QED
  BY <1>1, <1>2, <1>3

(* What the board does with a message it takes: an abort ends the first    *)
(* reason only, a request that is taken becomes the first reason.          *)
LEMMA ReceiveKeepsReasons ==
  ASSUME LinkOK, NEW type, Received(type)
  PROVE  /\ BoardComputes /\ nucleo'.computing => BoardComputes'
         /\ BoardComputes => type # "MSG_ABORT"
         /\ Requested /\ type # "MSG_COMPUTE" => Requested'
         /\ Requested /\ nucleo'.computing => BoardComputes' \/ Requested'
<1>1. /\ 1 \in DOMAIN toNucleo /\ toNucleo[1].type = type
      /\ \A i \in DOMAIN toNucleo :
            i # 1 => i - 1 \in DOMAIN toNucleo' /\ toNucleo'[i - 1] = toNucleo[i]
  BY ReceiveShifts
<1>2. BoardComputes /\ nucleo'.computing => BoardComputes'
  BY NoneAfterReceive DEF BoardComputes
<1>3. BoardComputes => type # "MSG_ABORT"
  <2>1. 1 > 0
    OBVIOUS
  <2> QED
    BY <1>1, <2>1 DEF BoardComputes, NoneAfter
<1>4. ASSUME NEW i \in DOMAIN toNucleo, i # 1,
             toNucleo[i].type = "MSG_COMPUTE", NoneAfter(i, "MSG_ABORT")
      PROVE  Requested'
  <2>1. /\ i - 1 \in DOMAIN toNucleo' /\ toNucleo'[i - 1] = toNucleo[i]
        /\ \A j \in DOMAIN toNucleo' : j > i - 1 => toNucleo'[j].type # "MSG_ABORT"
    BY <1>1, <1>4, NoneAfterReceive
  <2> QED
    BY <1>4, <2>1 DEF Requested, NoneAfter
<1>5. ASSUME toNucleo[1].type = "MSG_COMPUTE", NoneAfter(1, "MSG_ABORT"),
             nucleo'.computing
      PROVE  BoardComputes'
  BY <1>5, NoneAfterReceive DEF BoardComputes
<1> QED
  BY <1>1, <1>2, <1>3, <1>4, <1>5 DEF Requested

(* The steps of the application.                                           *)
LEMMA PcKeepsReasons ==
  ASSUME TypeOK, TypeOK', NeverStranded, PcNext, UNCHANGED nucleoVars
  PROVE  NeverStranded'
<1>1. SUFFICES ASSUME parameters'.computing, main' # "crashed" PROVE Justified'
  BY JustifiedMeaning DEF NeverStranded, Justified, EndOnTheWay, BoardComputes,
                          Requested, Ends
<1>2. QueueOK /\ LinkOK /\ LinkOK' /\ ParametersOK /\ UNCHANGED nucleo
  BY DEF TypeOK, nucleoVars
<1>3. ASSUME UNCHANGED toNucleo
      PROVE  /\ BoardComputes => BoardComputes'
             /\ Requested => Requested'
  BY <1>2, <1>3 DEF BoardComputes, Requested, NoneAfter
<1>4. CASE HandleKeyEvent
  <2>1. /\ evq # << >> /\ evq' = Tail(evq) /\ Head(evq).type # "EV_SERIAL"
        /\ main = "pop" /\ UNCHANGED toPc
        /\ \/ /\ parameters'.computing = parameters.computing
              /\ \/ UNCHANGED toNucleo
                 \/ \E x : SendPc(x) /\ x.type # "MSG_ABORT"
           \/ \E x : SendPc(x) /\ x.type = "MSG_COMPUTE"
    BY <1>1, <1>4, KeyEventComputing
  <2>2. CASE \E x : SendPc(x) /\ x.type = "MSG_COMPUTE"
    <3>1. PICK x : SendPc(x) /\ x.type = "MSG_COMPUTE"
      BY <2>2
    <3>2. x \in PcMessages
      BY <1>2, <3>1, SentIsMessage
    <3>3. Requested'
      BY <1>2, <3>1, <3>2, SendKeepsReasons
    <3> QED
      BY <3>3 DEF Justified
  <2>3. CASE /\ parameters'.computing = parameters.computing
             /\ \/ UNCHANGED toNucleo
                \/ \E x : SendPc(x) /\ x.type # "MSG_ABORT"
    <3>1. Justified
      BY <1>1, <2>1, <2>3, JustifiedMeaning
    <3>2. EndOnTheWay => EndOnTheWay'
      BY <1>2, <2>1, OnTheWayPop DEF EndOnTheWay, Ends
    <3>3. CASE UNCHANGED toNucleo
      BY <1>3, <3>1, <3>2, <3>3 DEF Justified
    <3>4. CASE \E x : SendPc(x) /\ x.type # "MSG_ABORT"
      <4>1. PICK x : SendPc(x) /\ x.type # "MSG_ABORT"
        BY <3>4
      <4>2. x \in PcMessages
        BY <1>2, <4>1, SentIsMessage
      <4>3. (BoardComputes => BoardComputes') /\ (Requested => Requested')
        BY <1>2, <4>1, <4>2, SendKeepsReasons
      <4> QED
        BY <3>1, <3>2, <4>3 DEF Justified
    <3> QED
      BY <2>3, <3>3, <3>4
  <2> QED
    BY <2>1, <2>2, <2>3
<1>5. CASE HandleNucleoEvent
  <2>1. /\ evq # << >> /\ evq' = Tail(evq) /\ Head(evq).type = "EV_SERIAL"
        /\ main = "pop" /\ UNCHANGED <<toPc, toNucleo>>
    BY <1>5 DEF HandleNucleoEvent, HandleStartup, HandleAnswer, HandleMsgAbort,
                HandleComputeData, HandleDone, HandlesMsg, Handles
  <2>2. CASE HandleStartup
    <3>1. ~ parameters'.computing
      BY <1>2, <2>2, Zenon DEF HandleStartup, ParametersOK
    <3> QED
      BY <1>1, <3>1
  <2>3. CASE HandleMsgAbort
    <3>1. CASE parameters.computing
      <4>1. parameters' = [parameters EXCEPT
               !.computing = FALSE,
               !.current_chunk = PreviousChunk(parameters.current_chunk)]
        BY <2>3, <3>1 DEF HandleMsgAbort
      <4>2. ~ parameters'.computing
        BY <1>2, <4>1, Zenon DEF ParametersOK
      <4> QED
        BY <1>1, <4>2
    <3>2. CASE ~ parameters.computing
      BY <1>1, <2>3, <3>2 DEF HandleMsgAbort
    <3> QED
      BY <3>1, <3>2
  <2>4. CASE HandleDone
    <3>1. CASE parameters.computing
      <4>1. parameters' = [parameters EXCEPT !.computing = FALSE]
        BY <2>4, <3>1 DEF HandleDone
      <4>2. ~ parameters'.computing
        BY <1>2, <4>1, Zenon DEF ParametersOK
      <4> QED
        BY <1>1, <4>2
    <3>2. CASE ~ parameters.computing
      BY <1>1, <2>4, <3>2 DEF HandleDone
    <3> QED
      BY <3>1, <3>2
  <2>5. CASE HandleAnswer \/ HandleComputeData
    <3>1. UNCHANGED parameters /\ Head(evq).msg.type \notin Ends
      BY <2>5 DEF HandleAnswer, HandleComputeData, HandlesMsg, msg, Ends
    <3>2. Justified
      BY <1>1, <2>1, <3>1, JustifiedMeaning
    <3>3. EndOnTheWay => EndOnTheWay'
      BY <1>2, <2>1, <3>1, OnTheWayPop DEF EndOnTheWay, Ends
    <3> QED
      BY <1>3, <2>1, <3>2, <3>3 DEF Justified
  <2> QED
    BY <1>5, <2>2, <2>3, <2>4, <2>5 DEF HandleNucleoEvent
<1>6. CASE PressKey \/ PushNextChunk
  <2>1. /\ UNCHANGED <<parameters, toNucleo, toPc>> /\ main # "crashed"
        /\ \E e \in QueueEvents : evq' = Append(evq, e)
    BY <1>1, <1>6, KeyIsEvent, NextChunkIsEvent DEF PressKey, PushNextChunk
  <2>2. Justified
    BY <1>1, <2>1, JustifiedMeaning
  <2>3. EndOnTheWay => EndOnTheWay'
    BY <1>2, <2>1, OnTheWayPush DEF EndOnTheWay, Ends
  <2> QED
    BY <1>3, <2>1, <2>2, <2>3 DEF Justified
<1>7. CASE ReceiveMessage
  <2>1. UNCHANGED <<parameters, toNucleo, main>>
    BY <1>7 DEF ReceiveMessage
  <2>2. Justified
    BY <1>1, <2>1, JustifiedMeaning
  <2>3. EndOnTheWay => EndOnTheWay'
    BY <1>2, <1>7, OnTheWayReceive DEF EndOnTheWay, Ends
  <2> QED
    BY <1>3, <2>1, <2>2, <2>3 DEF Justified
<1> QED
  BY <1>4, <1>5, <1>6, <1>7 DEF PcNext, MainLoop

(* The steps of the board.                                                 *)
LEMMA NucleoKeepsReasons ==
  ASSUME TypeOK, NeverStranded, NucleoNext, UNCHANGED pcVars
  PROVE  NeverStranded'
<1>1. SUFFICES ASSUME parameters'.computing, main' # "crashed" PROVE Justified'
  BY JustifiedMeaning DEF NeverStranded, Justified, EndOnTheWay, BoardComputes,
                          Requested, Ends
<1>2. LinkOK /\ BoardOK /\ UNCHANGED <<parameters, main, evq>>
  BY DEF TypeOK, pcVars
<1>3. Justified
  BY <1>1, <1>2, JustifiedMeaning
<1>4. \A t : Plain(t).type = t
  BY DEF Plain
<1>5. ASSUME NEW x \in NucleoMessages, Send(x), EndOnTheWay \/ x.type \in Ends
      PROVE  EndOnTheWay'
  BY <1>2, <1>5, OnTheWaySend DEF EndOnTheWay, Ends
<1>6. ASSUME UNCHANGED toPc PROVE EndOnTheWay => EndOnTheWay'
  BY <1>2, <1>6 DEF EndOnTheWay, OnTheWay, Serials, Ends
<1>7. ASSUME UNCHANGED toNucleo, nucleo'.computing = nucleo.computing
      PROVE  (BoardComputes => BoardComputes') /\ (Requested => Requested')
  BY <1>7 DEF BoardComputes, Requested, NoneAfter
<1>8. CASE Arrive \/ Button
  BY <1>3, <1>6, <1>7, <1>8 DEF Arrive, Button, Justified
<1>9. CASE HandleAbortRequest
  <2>1. CASE abort_request /\ nucleo.computing
    <3>1. EndOnTheWay'
      BY <1>4, <1>5, <1>9, <2>1, PlainMessages DEF HandleAbortRequest, Ends
    <3> QED
      BY <3>1 DEF Justified
  <2>2. CASE ~ (abort_request /\ nucleo.computing)
    BY <1>3, <1>6, <1>7, <1>9, <2>2 DEF HandleAbortRequest, Justified
  <2> QED
    BY <2>1, <2>2
<1>10. CASE ReceiveGetVersion
  <2>1. EndOnTheWay => EndOnTheWay'
    BY <1>5, <1>10, PlainMessages DEF ReceiveGetVersion
  <2>2. Received("MSG_GET_VERSION") /\ UNCHANGED nucleo
    BY <1>10 DEF ReceiveGetVersion
  <2>3. (BoardComputes => BoardComputes') /\ (Requested => Requested')
    <3>1. Requested => Requested'
      BY <1>2, <2>2, ReceiveKeepsReasons
    <3>2. BoardComputes => BoardComputes'
      BY <1>2, <2>2, ReceiveKeepsReasons DEF BoardComputes
    <3> QED
      BY <3>1, <3>2
  <2> QED
    BY <1>3, <2>1, <2>3 DEF Justified
<1>11. CASE ReceiveAbort
  <2>1. EndOnTheWay => EndOnTheWay'
    BY <1>5, <1>11, PlainMessages DEF ReceiveAbort
  <2>2. ~ BoardComputes /\ (Requested => Requested')
    BY <1>2, <1>11, ReceiveKeepsReasons DEF ReceiveAbort
  <2> QED
    BY <1>3, <2>1, <2>2 DEF Justified
<1>12. CASE ReceiveSetCompute
  <2>1. EndOnTheWay => EndOnTheWay'
    BY <1>5, <1>12, PlainMessages DEF ReceiveSetCompute
  <2>2. Received("MSG_SET_COMPUTE")
    BY <1>12 DEF ReceiveSetCompute
  <2>3. nucleo'.computing = nucleo.computing
    BY <1>2, <1>12, SMT DEF ReceiveSetCompute, BoardOK
  <2>4. Requested => Requested'
    BY <1>2, <2>2, ReceiveKeepsReasons
  <2>5. BoardComputes => BoardComputes'
    BY <1>2, <2>2, <2>3, ReceiveKeepsReasons DEF BoardComputes
  <2> QED
    BY <1>3, <2>1, <2>4, <2>5 DEF Justified
<1>13. CASE ReceiveCompute
  <2>1. EndOnTheWay => EndOnTheWay'
    BY <1>5, <1>13, PlainMessages DEF ReceiveCompute
  <2>2. Received("MSG_COMPUTE")
    BY <1>13 DEF ReceiveCompute
  <2>3. nucleo'.computing
    BY <1>2, <1>13, Zenon DEF ReceiveCompute, BoardOK
  <2>4. BoardComputes \/ Requested => BoardComputes' \/ Requested'
    BY <1>2, <2>2, <2>3, ReceiveKeepsReasons
  <2> QED
    BY <1>3, <2>1, <2>4 DEF Justified
<1>14. CASE SendPixel
  <2>1. /\ UNCHANGED toNucleo
        /\ \/ nucleo' = [nucleo EXCEPT !.cx = nucleo.cx + 1, !.cy = 0]
           \/ nucleo' = [nucleo EXCEPT !.cy = nucleo.cy + 1]
    BY <1>14 DEF SendPixel, Computing, NextPixel
  <2>2. nucleo'.computing = nucleo.computing
    BY <1>2, <2>1, Zenon DEF BoardOK
  <2>3. EndOnTheWay => EndOnTheWay'
    BY <1>2, <1>5, <1>14, PixelMessage
  <2> QED
    BY <1>3, <1>7, <2>1, <2>2, <2>3 DEF Justified
<1>15. CASE SendDone
  <2>1. EndOnTheWay'
    BY <1>4, <1>5, <1>15, PlainMessages DEF SendDone, Ends
  <2> QED
    BY <2>1 DEF Justified
<1>16. CASE Reset
  <2>1. EndOnTheWay'
    BY <1>2, <1>16, StartupOnTheWay DEF EndOnTheWay, Ends
  <2> QED
    BY <2>1 DEF Justified
<1> QED
  BY <1>8, <1>9, <1>10, <1>11, <1>12, <1>13, <1>14, <1>15, <1>16 DEF NucleoNext, Loop

(* While the application believes that the board computes, a request is on *)
(* its way, or the board computes, or an end is on its way.                *)
THEOREM NotStranded == Spec => []NeverStranded
<1>1. Init => NeverStranded
  BY SMT DEF Init, PcInit, NeverStranded
<1>2. TypeOK /\ TypeOK' /\ NeverStranded /\ [Next]_vars => NeverStranded'
  <2> SUFFICES ASSUME TypeOK, TypeOK', NeverStranded, [Next]_vars
               PROVE  NeverStranded'
    OBVIOUS
  <2>1. CASE PcNext /\ UNCHANGED nucleoVars
    BY <2>1, PcKeepsReasons
  <2>2. CASE NucleoNext /\ UNCHANGED pcVars
    BY <2>2, NucleoKeepsReasons
  <2>3. CASE UNCHANGED vars
    BY <2>3 DEF NeverStranded, OnTheWay, Serials, NoneAfter, vars, pcVars, nucleoVars
  <2> QED
    BY <2>1, <2>2, <2>3 DEF Next
<1> QED
  BY <1>1, <1>2, TypeInit, TypeStep, PTL DEF Spec

-----------------------------------------------------------------------------
(* ParametersAgree: the board has the parameters, or they are the last on  *)
(* their way to it, or the news of its restart is on its way back.         *)

RestartOnTheWay == OnTheWay({"MSG_STARTUP"})
BoardHas(params) == ParamsOf(nucleo) = params /\ NoneAfter(0, "MSG_SET_COMPUTE")
Sent(params) ==
  \E i \in DOMAIN toNucleo :
     /\ toNucleo[i].type = "MSG_SET_COMPUTE"
     /\ ParamsOf(toNucleo[i]) = params
     /\ NoneAfter(i, "MSG_SET_COMPUTE")
Known(params) == RestartOnTheWay \/ BoardHas(params) \/ Sent(params)

(* The invariant says that what is set is known.                           *)
LEMMA AgreeMeaning ==
  ParametersAgree <=> (parameters.computation_set => Known(PcParams))
  BY DEF ParametersAgree, Known, RestartOnTheWay, BoardHas, Sent

(* The same of the next state.                                             *)
LEMMA AgreeMeaningPrimed ==
  ASSUME parameters'.computation_set =>
           \/ RestartOnTheWay'
           \/ ParamsOf(nucleo)' = PcParams' /\ NoneAfter(0, "MSG_SET_COMPUTE")'
           \/ \E i \in DOMAIN toNucleo' :
                 /\ toNucleo'[i].type = "MSG_SET_COMPUTE"
                 /\ ParamsOf(toNucleo'[i]) = PcParams'
                 /\ \A j \in DOMAIN toNucleo' :
                       j > i => toNucleo'[j].type # "MSG_SET_COMPUTE"
  PROVE  ParametersAgree'
  BY DEF ParametersAgree, RestartOnTheWay, NoneAfter, ParamsOf

(* A key unsets computation_set, or changes nothing the board knows of and *)
(* sends no parameters, or sends exactly the ones of the application.      *)
LEMMA KeyEventParams ==
  ASSUME TypeOK, HandleKeyEvent
  PROVE  \/ ~ parameters'.computation_set
         \/ /\ parameters'.computation_set = parameters.computation_set
            /\ PcParams' = PcParams
            /\ \/ UNCHANGED toNucleo
               \/ \E x : SendPc(x) /\ x.type # "MSG_SET_COMPUTE"
         \/ \E x : /\ SendPc(x) /\ x.type = "MSG_SET_COMPUTE"
                   /\ ParamsOf(x) = PcParams'
<1>1. ParametersOK
  BY DEF TypeOK
<1>2. \A t : Plain(t).type = t
  BY DEF Plain
<1>3. \A c, re, im, s : Compute(c, re, im, s).type = "MSG_COMPUTE"
  BY DEF Compute
<1> DEFINE Quiet == /\ parameters'.computation_set = parameters.computation_set
                    /\ PcParams' = PcParams
                    /\ \/ UNCHANGED toNucleo
                       \/ \E x : SendPc(x) /\ x.type # "MSG_SET_COMPUTE"
<1>4. CASE HandleGetVersion
  <2>1. Quiet
    BY <1>2, <1>4 DEF HandleGetVersion, PcParams
  <2> QED
    BY <2>1
<1>5. CASE HandleChangePar
  <2>1. parameters' = [parameters EXCEPT !.parameter_to_be_changed = param]
    BY <1>5 DEF HandleChangePar
  <2>2. Quiet
    BY <1>1, <1>5, <2>1, Zenon DEF HandleChangePar, ParametersOK, PcParams
  <2> QED
    BY <2>2
<1>6. CASE HandleSetChange
  <2> DEFINE changed == [parameters EXCEPT !.computation_set = FALSE]
  <2>1. \/ \E c \in Cs : parameters' = [changed EXCEPT !.c = c]
        \/ parameters' = [changed EXCEPT !.n = ChangedN]
        \/ parameters' = changed
    BY <1>6, Zenon DEF HandleSetChange
  <2>2. /\ ~ changed.computation_set
        /\ changed \in [c : Cs, n : minN .. maxN, d : Int \X Int,
                        computing : BOOLEAN, computation_set : BOOLEAN,
                        current_chunk : 0 .. BYTE - 1,
                        parameter_to_be_changed : Nat]
    BY <1>1, Zenon DEF ParametersOK
  <2> HIDE DEF changed
  <2>3. ~ parameters'.computation_set
    BY <2>1, <2>2, Zenon
  <2> QED
    BY <2>3
<1>7. CASE HandleSetCompute
  <2>1. CASE parameters.computing
    <3>1. Quiet
      BY <1>7, <2>1 DEF HandleSetCompute, PcParams
    <3> QED
      BY <3>1
  <2>2. CASE ~ parameters.computing
    <3> DEFINE x == SetCompute(parameters.c, <<img.W, img.H>>, parameters.n)
    <3>1. /\ parameters' = [parameters EXCEPT !.computation_set = TRUE,
                                              !.d = <<img.W, img.H>>]
          /\ SendPc(x)
      BY <1>7, <2>2 DEF HandleSetCompute
    <3>2. /\ parameters'.c = parameters.c /\ parameters'.n = parameters.n
          /\ parameters'.d = <<img.W, img.H>>
      BY <1>1, <3>1, Zenon DEF ParametersOK
    <3>3. x.type = "MSG_SET_COMPUTE" /\ ParamsOf(x) = PcParams'
      BY <3>2 DEF SetCompute, ParamsOf, PcParams
    <3> QED
      BY <3>1, <3>3
  <2> QED
    BY <2>1, <2>2
<1>8. CASE HandleCompute
  <2>1. CASE ~ MayCompute
    <3>1. Quiet
      BY <1>8, <2>1 DEF HandleCompute, PcParams
    <3> QED
      BY <3>1
  <2>2. CASE MayCompute
    <3>1. /\ parameters' = [parameters EXCEPT
                !.current_chunk = (parameters.current_chunk + 1) % BYTE,
                !.computing = TRUE]
          /\ \/ UNCHANGED toNucleo
             \/ \E x : SendPc(x) /\ x.type # "MSG_SET_COMPUTE"
      BY <1>3, <1>8, <2>2 DEF HandleCompute
    <3>2. /\ parameters'.computation_set = parameters.computation_set
          /\ PcParams' = PcParams
      BY <1>1, <3>1, Zenon DEF ParametersOK, PcParams
    <3> QED
      BY <3>1, <3>2
  <2> QED
    BY <2>1, <2>2
<1>9. CASE HandleAbort
  <2>1. CASE parameters.computing
    <3>1. /\ parameters' = [parameters EXCEPT
                !.computing = FALSE,
                !.current_chunk = PreviousChunk(parameters.current_chunk)]
          /\ SendPc(Plain("MSG_ABORT"))
      BY <1>9, <2>1 DEF HandleAbort
    <3>2. /\ parameters'.computation_set = parameters.computation_set
          /\ PcParams' = PcParams
      BY <1>1, <3>1, Zenon DEF ParametersOK, PcParams
    <3> QED
      BY <1>2, <3>1, <3>2
  <2>2. CASE ~ parameters.computing
    <3>1. Quiet
      BY <1>9, <2>2 DEF HandleAbort, PcParams
    <3> QED
      BY <3>1
  <2> QED
    BY <2>1, <2>2
<1>10. CASE HandleComputeCPU \/ HandleShow \/ HandleOther
  <2>1. Quiet
    BY <1>10 DEF HandleComputeCPU, HandleShow, HandleOther, PcParams
  <2> QED
    BY <2>1
<1>11. CASE HandleResetChunk \/ HandleClearBuffer \/ HandleRefresh
  <2>1. /\ UNCHANGED toNucleo
        /\ \/ UNCHANGED parameters
           \/ parameters' = [parameters EXCEPT !.current_chunk = NoChunk]
    BY <1>11 DEF HandleResetChunk, HandleClearBuffer, HandleRefresh
  <2>2. Quiet
    BY <1>1, <2>1, Zenon DEF ParametersOK, PcParams
  <2> QED
    BY <2>2
<1> QED
  BY <1>4, <1>5, <1>6, <1>7, <1>8, <1>9, <1>10, <1>11 DEF HandleKeyEvent

(* A message that sets nothing leaves what the board knows alone.          *)
LEMMA SendKeepsKnown ==
  ASSUME LinkOK, NEW x \in PcMessages, SendPc(x), UNCHANGED nucleo, NEW params
  PROVE  /\ BoardHas(params) /\ x.type # "MSG_SET_COMPUTE" => BoardHas(params)'
         /\ Sent(params) /\ x.type # "MSG_SET_COMPUTE" => Sent(params)'
         /\ x.type = "MSG_SET_COMPUTE" /\ ParamsOf(x) = params => Sent(params)'
<1>1. ASSUME BoardHas(params), x.type # "MSG_SET_COMPUTE" PROVE BoardHas(params)'
  BY <1>1, NoneAfterSend DEF BoardHas, ParamsOf
<1>2. ASSUME Sent(params), x.type # "MSG_SET_COMPUTE" PROVE Sent(params)'
  <2>1. PICK i \in DOMAIN toNucleo :
           /\ toNucleo[i].type = "MSG_SET_COMPUTE" /\ ParamsOf(toNucleo[i]) = params
           /\ NoneAfter(i, "MSG_SET_COMPUTE")
    BY <1>2 DEF Sent
  <2>2. i \in DOMAIN toNucleo' /\ toNucleo'[i] = toNucleo[i] /\ i \in Nat
    BY SendKeeps
  <2>3. NoneAfter(i, "MSG_SET_COMPUTE")'
    BY <1>2, <2>1, <2>2, NoneAfterSend
  <2> QED
    BY <2>1, <2>2, <2>3 DEF Sent, NoneAfter, ParamsOf
<1>3. ASSUME x.type = "MSG_SET_COMPUTE", ParamsOf(x) = params PROVE Sent(params)'
  <2> DEFINE i == Len(toNucleo) + 1
  <2>1. /\ i \in DOMAIN toNucleo' /\ toNucleo'[i] = x
        /\ \A j \in DOMAIN toNucleo' :
              j > i => toNucleo'[j].type # "MSG_SET_COMPUTE"
    BY NoneAfterLast
  <2> HIDE DEF i
  <2> QED
    BY <1>3, <2>1 DEF Sent, NoneAfter, ParamsOf
<1> QED
  BY <1>1, <1>2, <1>3

(* The steps of the application keep the agreement.                        *)
LEMMA PcKeepsAgreement ==
  ASSUME TypeOK, TypeOK', ParametersAgree, PcNext, UNCHANGED nucleoVars
  PROVE  ParametersAgree'
<1>1. QueueOK /\ LinkOK /\ LinkOK' /\ ParametersOK /\ UNCHANGED nucleo
  BY DEF TypeOK, nucleoVars
<1> DEFINE params == PcParams
<1>2. ASSUME parameters'.computation_set = parameters.computation_set,
             PcParams' = PcParams, RestartOnTheWay => RestartOnTheWay',
             UNCHANGED toNucleo
      PROVE  ParametersAgree'
  BY <1>1, <1>2 DEF ParametersAgree, RestartOnTheWay, NoneAfter, ParamsOf
<1>3. CASE HandleKeyEvent
  <2>1. /\ evq # << >> /\ evq' = Tail(evq) /\ Head(evq).type # "EV_SERIAL"
        /\ UNCHANGED toPc
    BY <1>3, KeyEventComputing
  <2>2. RestartOnTheWay => RestartOnTheWay'
    BY <1>1, <2>1, OnTheWayPop DEF RestartOnTheWay
  <2>3. CASE ~ parameters'.computation_set
    BY <2>3 DEF ParametersAgree
  <2>4. CASE /\ parameters'.computation_set = parameters.computation_set
             /\ PcParams' = PcParams
             /\ \/ UNCHANGED toNucleo
                \/ \E x : SendPc(x) /\ x.type # "MSG_SET_COMPUTE"
    <3>1. CASE UNCHANGED toNucleo
      BY <1>2, <2>2, <2>4, <3>1
    <3>2. CASE \E x : SendPc(x) /\ x.type # "MSG_SET_COMPUTE"
      <4>1. PICK x : SendPc(x) /\ x.type # "MSG_SET_COMPUTE"
        BY <3>2
      <4>2. x \in PcMessages
        BY <1>1, <4>1, SentIsMessage
      <4>3. /\ BoardHas(params) => BoardHas(params)'
            /\ Sent(params) => Sent(params)'
        <5>1. ASSUME NEW q
              PROVE  /\ BoardHas(q) => BoardHas(q)'
                     /\ Sent(q) => Sent(q)'
          BY <1>1, <4>1, <4>2, SendKeepsKnown
        <5> QED
          BY <2>4, <5>1 DEF BoardHas, Sent
      <4> QED
        BY <2>2, <2>4, <4>3, AgreeMeaning, AgreeMeaningPrimed
           DEF Known, BoardHas, Sent, NoneAfter
    <3> QED
      BY <2>4, <3>1, <3>2
  <2>5. CASE \E x : /\ SendPc(x) /\ x.type = "MSG_SET_COMPUTE"
                    /\ ParamsOf(x) = PcParams'
    <3>1. PICK x : SendPc(x) /\ x.type = "MSG_SET_COMPUTE" /\ ParamsOf(x) = PcParams'
      BY <2>5
    <3>2. x \in PcMessages
      BY <1>1, <3>1, SentIsMessage
    <3> DEFINE i == Len(toNucleo) + 1
    <3>3. /\ i \in DOMAIN toNucleo' /\ toNucleo'[i] = x
          /\ \A j \in DOMAIN toNucleo' :
                j > i => toNucleo'[j].type # "MSG_SET_COMPUTE"
      BY <1>1, <3>1, <3>2, NoneAfterLast
    <3> HIDE DEF i
    <3> QED
      BY <3>1, <3>3, AgreeMeaningPrimed
  <2> QED
    BY <1>3, <2>3, <2>4, <2>5, KeyEventParams
<1>4. CASE HandleNucleoEvent
  <2>1. /\ evq # << >> /\ evq' = Tail(evq) /\ Head(evq).type = "EV_SERIAL"
        /\ UNCHANGED <<toPc, toNucleo>>
    BY <1>4 DEF HandleNucleoEvent, HandleStartup, HandleAnswer, HandleMsgAbort,
                HandleComputeData, HandleDone, HandlesMsg, Handles
  <2>2. CASE HandleStartup
    <3>1. ~ parameters'.computation_set
      BY <1>1, <2>2, Zenon DEF HandleStartup, ParametersOK
    <3> QED
      BY <3>1 DEF ParametersAgree
  <2>3. CASE HandleAnswer \/ HandleMsgAbort \/ HandleComputeData \/ HandleDone
    <3>1. /\ Head(evq).msg.type # "MSG_STARTUP"
          /\ \/ UNCHANGED parameters
             \/ parameters' = [parameters EXCEPT !.computing = FALSE]
             \/ parameters' = [parameters EXCEPT
                   !.computing = FALSE,
                   !.current_chunk = PreviousChunk(parameters.current_chunk)]
      BY <2>3 DEF HandleAnswer, HandleMsgAbort, HandleComputeData, HandleDone,
                  HandlesMsg, msg
    <3>2. /\ parameters'.computation_set = parameters.computation_set
          /\ PcParams' = PcParams
      BY <1>1, <3>1, Zenon DEF ParametersOK, PcParams
    <3>3. RestartOnTheWay => RestartOnTheWay'
      BY <1>1, <2>1, <3>1, OnTheWayPop DEF RestartOnTheWay
    <3> QED
      BY <1>2, <2>1, <3>2, <3>3
  <2> QED
    BY <1>4, <2>2, <2>3 DEF HandleNucleoEvent
<1>5. CASE PressKey \/ PushNextChunk
  <2>1. /\ UNCHANGED <<parameters, toNucleo, toPc>>
        /\ \E e \in QueueEvents : evq' = Append(evq, e)
    BY <1>5, KeyIsEvent, NextChunkIsEvent DEF PressKey, PushNextChunk
  <2>2. RestartOnTheWay => RestartOnTheWay'
    BY <1>1, <2>1, OnTheWayPush DEF RestartOnTheWay
  <2> QED
    BY <1>2, <2>1, <2>2 DEF PcParams
<1>6. CASE ReceiveMessage
  <2>1. UNCHANGED <<parameters, toNucleo>>
    BY <1>6 DEF ReceiveMessage
  <2>2. RestartOnTheWay => RestartOnTheWay'
    BY <1>1, <1>6, OnTheWayReceive DEF RestartOnTheWay
  <2> QED
    BY <1>2, <2>1, <2>2 DEF PcParams
<1> QED
  BY <1>3, <1>4, <1>5, <1>6 DEF PcNext, MainLoop

(* What the board does with a message it takes: parameters replace its     *)
(* own, anything else leaves them alone.                                   *)
LEMMA ReceiveKeepsKnown ==
  ASSUME LinkOK, NEW type, Received(type), NEW params
  PROVE  /\ BoardHas(params) => type # "MSG_SET_COMPUTE"
         /\ BoardHas(params) /\ ParamsOf(nucleo') = ParamsOf(nucleo)
              => ParamsOf(nucleo') = params /\ NoneAfter(0, "MSG_SET_COMPUTE")'
         /\ Sent(params) /\ type # "MSG_SET_COMPUTE" => Sent(params)'
         /\ Sent(params) /\ ParamsOf(nucleo') = ParamsOf(Head(toNucleo))
              => \/ ParamsOf(nucleo') = params /\ NoneAfter(0, "MSG_SET_COMPUTE")'
                 \/ Sent(params)'
<1>1. /\ 1 \in DOMAIN toNucleo /\ Head(toNucleo) = toNucleo[1]
      /\ toNucleo[1].type = type
      /\ \A i \in DOMAIN toNucleo :
            i # 1 => i - 1 \in DOMAIN toNucleo' /\ toNucleo'[i - 1] = toNucleo[i]
  BY ReceiveShifts
<1>2. BoardHas(params) => type # "MSG_SET_COMPUTE"
  <2>1. 1 > 0
    OBVIOUS
  <2> QED
    BY <1>1, <2>1 DEF BoardHas, NoneAfter
<1>3. BoardHas(params) /\ ParamsOf(nucleo') = ParamsOf(nucleo)
        => ParamsOf(nucleo') = params /\ NoneAfter(0, "MSG_SET_COMPUTE")'
  BY NoneAfterReceive DEF BoardHas
<1>4. ASSUME NEW i \in DOMAIN toNucleo, i # 1,
             toNucleo[i].type = "MSG_SET_COMPUTE", ParamsOf(toNucleo[i]) = params,
             NoneAfter(i, "MSG_SET_COMPUTE")
      PROVE  Sent(params)'
  <2>1. /\ i - 1 \in DOMAIN toNucleo' /\ toNucleo'[i - 1] = toNucleo[i]
        /\ \A j \in DOMAIN toNucleo' :
              j > i - 1 => toNucleo'[j].type # "MSG_SET_COMPUTE"
    BY <1>1, <1>4, NoneAfterReceive
  <2> QED
    BY <1>4, <2>1 DEF Sent, NoneAfter, ParamsOf
<1>5. NoneAfter(1, "MSG_SET_COMPUTE") => NoneAfter(0, "MSG_SET_COMPUTE")'
  BY NoneAfterReceive
<1> QED
  BY <1>1, <1>2, <1>3, <1>4, <1>5 DEF Sent

(* The steps of the board keep the agreement.                              *)
LEMMA NucleoKeepsAgreement ==
  ASSUME TypeOK, ParametersAgree, NucleoNext, UNCHANGED pcVars
  PROVE  ParametersAgree'
<1>1. LinkOK /\ BoardOK /\ UNCHANGED <<parameters, evq>> /\ PcParams' = PcParams
  BY DEF TypeOK, pcVars, PcParams
<1>2. SUFFICES ASSUME parameters'.computation_set
               PROVE  \/ RestartOnTheWay'
                      \/ /\ ParamsOf(nucleo') = PcParams
                         /\ NoneAfter(0, "MSG_SET_COMPUTE")'
                      \/ Sent(PcParams)'
  <2>1. Sent(PcParams)' =>
           \E i \in DOMAIN toNucleo' :
              /\ toNucleo'[i].type = "MSG_SET_COMPUTE"
              /\ ParamsOf(toNucleo'[i]) = PcParams'
              /\ \A j \in DOMAIN toNucleo' :
                    j > i => toNucleo'[j].type # "MSG_SET_COMPUTE"
    BY DEF Sent, NoneAfter, ParamsOf
  <2>2. ParamsOf(nucleo)' = ParamsOf(nucleo')
    BY DEF ParamsOf
  <2> QED
    BY <1>1, <2>1, <2>2, AgreeMeaningPrimed
<1> DEFINE params == PcParams
<1>3. Known(params) /\ PcParams' = params
  BY <1>1, <1>2, AgreeMeaning
<1>4. ASSUME NEW x \in NucleoMessages, Send(x) PROVE RestartOnTheWay => RestartOnTheWay'
  BY <1>1, <1>4, OnTheWaySend DEF RestartOnTheWay
<1>5. ASSUME UNCHANGED toPc PROVE RestartOnTheWay => RestartOnTheWay'
  BY <1>1, <1>5 DEF RestartOnTheWay, OnTheWay, Serials
<1>6. ASSUME UNCHANGED toNucleo, ParamsOf(nucleo') = ParamsOf(nucleo)
      PROVE  /\ BoardHas(params) =>
                  ParamsOf(nucleo') = params /\ NoneAfter(0, "MSG_SET_COMPUTE")'
             /\ Sent(params) => Sent(params)'
  BY <1>1, <1>6 DEF BoardHas, Sent, NoneAfter, ParamsOf, PcParams
<1>7. CASE Arrive \/ Button \/ HandleAbortRequest \/ SendPixel \/ SendDone
  <2>1. UNCHANGED toNucleo
    BY <1>7 DEF Arrive, Button, HandleAbortRequest, SendPixel, SendDone, Computing
  <2>2. ParamsOf(nucleo') = ParamsOf(nucleo)
    <3>1. \/ UNCHANGED nucleo
          \/ nucleo' = [nucleo EXCEPT !.computing = FALSE]
          \/ nucleo' = [nucleo EXCEPT !.cx = nucleo.cx + 1, !.cy = 0]
          \/ nucleo' = [nucleo EXCEPT !.cy = nucleo.cy + 1]
      BY <1>7 DEF Arrive, Button, HandleAbortRequest, SendPixel, SendDone, NextPixel
    <3> QED
      BY <1>1, <3>1, Zenon DEF BoardOK, ParamsOf
  <2>3. RestartOnTheWay => RestartOnTheWay'
    <3>1. CASE UNCHANGED toPc
      BY <1>5, <3>1
    <3>2. CASE \E x \in NucleoMessages : Send(x)
      BY <1>4, <3>2
    <3>3. Arrive \/ Button => UNCHANGED toPc
      BY DEF Arrive, Button
    <3>4. HandleAbortRequest => UNCHANGED toPc \/ \E x \in NucleoMessages : Send(x)
      BY PlainMessages DEF HandleAbortRequest
    <3>5. SendDone => \E x \in NucleoMessages : Send(x)
      BY PlainMessages DEF SendDone
    <3>6. ASSUME SendPixel PROVE \E x \in NucleoMessages : Send(x)
      BY <1>1, <3>6, PixelMessage
    <3> QED
      BY <1>7, <3>1, <3>2, <3>3, <3>4, <3>5, <3>6
  <2> QED
    BY <1>3, <1>6, <2>1, <2>2, <2>3 DEF Known
<1>8. CASE ReceiveGetVersion \/ ReceiveAbort \/ ReceiveCompute
  <2>1. PICK type \in {"MSG_GET_VERSION", "MSG_ABORT", "MSG_COMPUTE"} : Received(type)
    BY <1>8 DEF ReceiveGetVersion, ReceiveAbort, ReceiveCompute
  <2>2. ParamsOf(nucleo') = ParamsOf(nucleo)
    <3>1. \/ UNCHANGED nucleo
          \/ nucleo' = [nucleo EXCEPT !.computing = FALSE]
          \/ \E x : nucleo' = [nucleo EXCEPT !.cid = x.cid, !.re = x.re, !.im = x.im,
                                             !.cx = 0, !.cy = 0, !.chunk_size = x.size,
                                             !.computing = TRUE]
      BY <1>8 DEF ReceiveGetVersion, ReceiveAbort, ReceiveCompute
    <3> QED
      BY <1>1, <3>1, Zenon DEF BoardOK, ParamsOf
  <2>3. RestartOnTheWay => RestartOnTheWay'
    BY <1>4, <1>8, PlainMessages DEF ReceiveGetVersion, ReceiveAbort, ReceiveCompute
  <2>4. /\ BoardHas(params) =>
             ParamsOf(nucleo') = params /\ NoneAfter(0, "MSG_SET_COMPUTE")'
        /\ Sent(params) => Sent(params)'
    <3>1. ASSUME NEW q
          PROVE  /\ BoardHas(q) =>
                      ParamsOf(nucleo') = q /\ NoneAfter(0, "MSG_SET_COMPUTE")'
                 /\ Sent(q) => Sent(q)'
      BY <1>1, <2>1, <2>2, ReceiveKeepsKnown
    <3> QED
      BY <1>3, <3>1 DEF Sent
  <2> QED
    BY <1>3, <2>3, <2>4 DEF Known
<1>9. CASE ReceiveSetCompute
  <2>1. Received("MSG_SET_COMPUTE")
    BY <1>9 DEF ReceiveSetCompute
  <2>2. ParamsOf(nucleo') = ParamsOf(Head(toNucleo))
    <3> DEFINE x == Head(toNucleo)
    <3>1. nucleo' = [nucleo EXCEPT !.c = x.c, !.d = x.d, !.n = x.n]
      BY <1>9 DEF ReceiveSetCompute
    <3> HIDE DEF x
    <3>2. nucleo'.c = x.c /\ nucleo'.d = x.d /\ nucleo'.n = x.n
      BY <1>1, <3>1, Zenon DEF BoardOK
    <3> QED
      BY <3>2 DEF ParamsOf, x
  <2>3. RestartOnTheWay => RestartOnTheWay'
    BY <1>4, <1>9, PlainMessages DEF ReceiveSetCompute
  <2>4. /\ ~ BoardHas(params)
        /\ Sent(params) =>
             \/ ParamsOf(nucleo') = params /\ NoneAfter(0, "MSG_SET_COMPUTE")'
             \/ Sent(params)'
    <3>1. ASSUME NEW q
          PROVE  /\ ~ BoardHas(q)
                 /\ Sent(q) =>
                      \/ ParamsOf(nucleo') = q /\ NoneAfter(0, "MSG_SET_COMPUTE")'
                      \/ Sent(q)'
      BY <1>1, <2>1, <2>2, ReceiveKeepsKnown
    <3> QED
      BY <1>3, <3>1 DEF Sent
  <2> QED
    BY <1>3, <2>3, <2>4 DEF Known
<1>10. CASE Reset
  <2>1. RestartOnTheWay'
    BY <1>1, <1>10, StartupOnTheWay DEF RestartOnTheWay
  <2> QED
    BY <2>1
<1> QED
  BY <1>7, <1>8, <1>9, <1>10 DEF NucleoNext, Loop

(* computation_set never lies: the board has the parameters, or will have  *)
(* them before it sees another request, or the application is about to     *)
(* hear of its restart.                                                    *)
THEOREM ParametersDoAgree == Spec => []ParametersAgree
<1>1. Init => ParametersAgree
  BY SMT DEF Init, PcInit, ParametersAgree
<1>2. TypeOK /\ TypeOK' /\ ParametersAgree /\ [Next]_vars => ParametersAgree'
  <2> SUFFICES ASSUME TypeOK, TypeOK', ParametersAgree, [Next]_vars
               PROVE  ParametersAgree'
    OBVIOUS
  <2>1. CASE PcNext /\ UNCHANGED nucleoVars
    BY <2>1, PcKeepsAgreement
  <2>2. CASE NucleoNext /\ UNCHANGED pcVars
    BY <2>2, NucleoKeepsAgreement
  <2>3. CASE UNCHANGED vars
    BY <2>3 DEF ParametersAgree, OnTheWay, Serials, NoneAfter, ParamsOf, PcParams,
                vars, pcVars, nucleoVars
  <2> QED
    BY <2>1, <2>2, <2>3 DEF Next
<1> QED
  BY <1>1, <1>2, TypeInit, TypeStep, PTL DEF Spec
=============================================================================
