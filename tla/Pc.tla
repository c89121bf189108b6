--------------------------------- MODULE Pc ---------------------------------
(***************************************************************************)
(* The PC application (semestral_project.c): the main thread's event loop, *)
(* with the input thread and the serial thread that feed its queue.  The   *)
(* queue is the bounded FIFO that EventQueue implements.                   *)
(*                                                                         *)
(* The main thread takes one event and handles it to the end.  Only the    *)
(* handler of MSG_DONE is two steps: it pushes an event into the queue it  *)
(* drains itself, and that push can have to wait.                          *)
(*                                                                         *)
(* Not at this level: EV_ENHANCE_BAUD (the reopened port) and the way out  *)
(* of the program after EV_QUIT.                                           *)
(***************************************************************************)
EXTENDS Link, Grid

CONSTANTS
  Keys,                \* the keyboard events the user may cause
  MaxKeys,             \* bound: how many of them
  EVENT_CAPACITY,      \* events the queue holds (15 in the code)
  def_W, def_H,        \* the first image
  SizeStep,            \* one change of WIDTH or HEIGHT (10 in the code)
  MaxDim,              \* bound: widths and heights explored are 1 .. MaxDim
  def_c, def_N,        \* the first parameters
  minN, maxN,          \* limits of N
  Black                \* the colour of a pixel not painted yet

ASSUME PcAssumption ==
  /\ MaxKeys \in Nat
  /\ EVENT_CAPACITY \in Nat \ {0}
  /\ MaxDim \in Nat /\ SizeStep \in Nat
  /\ def_W \in 1 .. MaxDim /\ def_H \in 1 .. MaxDim
  /\ def_c \in Cs
  /\ minN \in Nat /\ maxN \in minN .. BYTE - 1 /\ def_N \in minN .. maxN
  /\ Zero \notin Cs

VARIABLES
  parameters,   \* struct computation, local to main()
  img,          \* struct image
  evq,          \* the event queue, oldest event first
  main,         \* "pop", "push" (in queue_push), or "crashed"
  pressed       \* how many keys were pressed

pcVars == <<parameters, img, evq, main, pressed>>

-----------------------------------------------------------------------------
(* Events.  data.param of EV_COMPUTE is 'c' - '0' when it is the key and 0 *)
(* when the main thread asks for the next chunk.                           *)

Key(type) == [type |-> type, param |-> 0]
KeyParam(type, param) == [type |-> type, param |-> param]
ComputeKey == KeyParam("EV_COMPUTE", 51)
NextChunk == KeyParam("EV_COMPUTE", 0)
Serial(m) == [type |-> "EV_SERIAL", msg |-> m]

(* enum param: what the keys + and - change                                *)
NO_PAR == 0
WIDTH == 3
HEIGHT == 4
N == 5
Numbers == {1, 2, 6, 7, 8, 9}

Handled == {"EV_GET_VERSION", "EV_CHANGE_PAR", "EV_SETCHANGE", "EV_SET_COMPUTE",
            "EV_COMPUTE", "EV_RESET_CHUNK", "EV_ABORT", "EV_COMPUTE_CPU",
            "EV_CLEAR_BUFFER", "EV_REFRESH", "EV_SHOW_ARTWORK",
            "EV_SHOW_ANIMATION", "EV_SHOW_PARAMETERS", "EV_SAVE_AS_PPM",
            "EV_QUIT"}

(* Black, the colour of a pixel not painted, is told apart from the colour *)
(* painted for any number of iterations.                                   *)
ASSUME BlackAssumption == Black \notin [iter : Iters, n : Nat]

ASSUME KeysAssumption == Keys \subseteq [type : Handled, param : Nat]

-----------------------------------------------------------------------------
(* The image                                                               *)

Pixels(w, h) == (0 .. w - 1) \X (0 .. h - 1)

initImage(w, h, size) ==
  [W |-> w, H |-> h, chunksize |-> size,
   chunksinrow |-> chunksinrow(w, size), nbr_chunks |-> nbr_chunks(w, h, size),
   refresh_require |-> FALSE,
   data |-> [p \in Pixels(w, h) |-> Black]]

(* setPixelbyIter: the colour depends on the iterations and on n.          *)
Colour(iter, n) == [iter |-> iter, n |-> n]

(* computeCPU2: every pixel, with the parameters of the application.  The  *)
(* artwork and the last frame of the animation use numbers of their own.   *)
ComputeCPU(c) ==
  [p \in Pixels(img.W, img.H) |->
     Colour(Iterations(c, parameters.d, parameters.n, p[1], p[2]), parameters.n)]

PreviousChunk(cid) == (cid + BYTE - 1) % BYTE
NoChunk == BYTE - 1                                  \* current_chunk = -1

PcInit ==
  /\ parameters = [c |-> def_c, n |-> def_N, d |-> <<0, 0>>,
                   computing |-> FALSE, computation_set |-> FALSE,
                   current_chunk |-> NoChunk, parameter_to_be_changed |-> NO_PAR]
  /\ img = initImage(def_W, def_H, def_chunksize)
  /\ evq = << >>
  /\ main = "pop"
  /\ pressed = 0

-----------------------------------------------------------------------------
(* The two threads that feed the queue: queue_push waits for room.         *)

HasRoom == Len(evq) < EVENT_CAPACITY

PressKey ==
  /\ pressed < MaxKeys
  /\ pressed' = pressed + 1
  /\ HasRoom
  /\ \E k \in Keys : evq' = Append(evq, k)
  /\ UNCHANGED <<parameters, img, main, toNucleo, toPc>>

ReceiveMessage ==
  /\ toPc # << >>
  /\ HasRoom
  /\ evq' = Append(evq, Serial(Head(toPc)))
  /\ toPc' = Tail(toPc)
  /\ UNCHANGED <<parameters, img, main, pressed, toNucleo>>

-----------------------------------------------------------------------------
(* The main thread: events of the keyboard                                 *)

Handles(type) ==
  /\ main = "pop"
  /\ evq # << >>
  /\ Head(evq).type = type
  /\ evq' = Tail(evq)
  /\ UNCHANGED <<pressed, toPc>>

param == Head(evq).param
SendPc(m) == toNucleo' = Append(toNucleo, m)

HandleGetVersion ==
  /\ Handles("EV_GET_VERSION")
  /\ SendPc(Plain("MSG_GET_VERSION"))
  /\ UNCHANGED <<parameters, img, main>>

HandleChangePar ==
  /\ Handles("EV_CHANGE_PAR")
  /\ parameters' = [parameters EXCEPT !.parameter_to_be_changed = param]
  /\ UNCHANGED <<img, main, toNucleo>>

(* A plausible slip: the limits of N are forgotten.                        *)
ChangedNUnlimited == (parameters.n + (IF param = 1 THEN 1 ELSE BYTE - 1)) % BYTE

(* n is a byte: below zero it wraps to BYTE - 1 before it is limited.      *)
ChangedN ==
  LET n == (parameters.n + (IF param = 1 THEN 1 ELSE BYTE - 1)) % BYTE
  IN  IF n > maxN THEN maxN ELSE IF n < minN THEN minN ELSE n

Changed(size) == IF param = 1 THEN size + SizeStep ELSE size - SizeStep

(* Every change, even a refused one, makes the user set the computation    *)
(* again.  The size of the image changes at once, its buffer only at the   *)
(* refresh.                                                                *)
HandleSetChange ==
  /\ Handles("EV_SETCHANGE")
  /\ LET which == parameters.parameter_to_be_changed
         changed == [parameters EXCEPT !.computation_set = FALSE]
     IN  \/ /\ which \in Numbers
            /\ \E c \in Cs \ {parameters.c} : parameters' = [changed EXCEPT !.c = c]
            /\ UNCHANGED img
         \/ /\ which = N
            /\ parameters' = [changed EXCEPT !.n = ChangedN]
            /\ UNCHANGED img
         \/ /\ which \in {WIDTH, HEIGHT} /\ ~parameters.computing
            /\ parameters' = changed
            /\ img' = IF which = WIDTH
                        THEN [img EXCEPT !.W = Changed(@), !.refresh_require = TRUE]
                        ELSE [img EXCEPT !.H = Changed(@), !.refresh_require = TRUE]
            /\ img'.W \in 1 .. MaxDim /\ img'.H \in 1 .. MaxDim
         \/ /\ \/ which = NO_PAR
               \/ which \in {WIDTH, HEIGHT} /\ parameters.computing
            /\ parameters' = changed
            /\ UNCHANGED img
  /\ UNCHANGED <<main, toNucleo>>

(* A plausible slip: the message is built before the increments are.       *)
HandleSetComputeEarly ==
  /\ Handles("EV_SET_COMPUTE")
  /\ IF parameters.computing
       THEN UNCHANGED <<parameters, toNucleo>>
       ELSE /\ parameters' = [parameters EXCEPT !.computation_set = TRUE,
                                                !.d = <<img.W, img.H>>]
            /\ SendPc(SetCompute(parameters.c, parameters.d, parameters.n))
  /\ UNCHANGED <<img, main>>

HandleSetCompute ==
  /\ Handles("EV_SET_COMPUTE")
  /\ IF parameters.computing
       THEN UNCHANGED <<parameters, toNucleo>>
       ELSE /\ parameters' = [parameters EXCEPT !.computation_set = TRUE,
                                                !.d = <<img.W, img.H>>]
            /\ SendPc(SetCompute(parameters.c, <<img.W, img.H>>, parameters.n))
  /\ UNCHANGED <<img, main>>

(* Plausible slips: one of the three conditions is forgotten.              *)
MayComputeUnrefreshed == ~parameters.computing /\ parameters.computation_set
MayComputeTwice == ~img.refresh_require /\ parameters.computation_set
MayComputeUnset == ~img.refresh_require /\ ~parameters.computing

MayCompute ==
  /\ ~img.refresh_require
  /\ ~parameters.computing
  /\ parameters.computation_set

(* The next chunk.  An image without chunks in a row divides by zero.      *)
HandleCompute ==
  /\ Handles("EV_COMPUTE")
  /\ LET cid == (parameters.current_chunk + 1) % BYTE
         next == [parameters EXCEPT !.current_chunk = cid, !.computing = TRUE]
         row == img.chunksinrow
         size == img.chunksize
     IN  \/ /\ ~MayCompute
            /\ UNCHANGED <<parameters, main, toNucleo>>
         \/ /\ MayCompute /\ row # 0
            /\ parameters' = next
            /\ SendPc(Compute(cid, ChunkX(cid, row, size), ChunkY(cid, row, size),
                              size))
            /\ UNCHANGED main
         \/ /\ MayCompute /\ row = 0
            /\ parameters' = next
            /\ main' = "crashed"
            /\ UNCHANGED toNucleo
  /\ UNCHANGED img

HandleResetChunk ==
  /\ Handles("EV_RESET_CHUNK")
  /\ parameters' = IF parameters.computing THEN parameters
                   ELSE [parameters EXCEPT !.current_chunk = NoChunk]
  /\ UNCHANGED <<img, main, toNucleo>>

(* A plausible slip: the application waits for the end it cut off.         *)
HandleAbortStillComputing ==
  /\ Handles("EV_ABORT")
  /\ IF parameters.computing THEN SendPc(Plain("MSG_ABORT")) ELSE UNCHANGED toNucleo
  /\ UNCHANGED <<parameters, img, main>>

HandleAbort ==
  /\ Handles("EV_ABORT")
  /\ IF parameters.computing
       THEN /\ parameters' = [parameters EXCEPT !.computing = FALSE,
                                                !.current_chunk = PreviousChunk(@)]
            /\ SendPc(Plain("MSG_ABORT"))
       ELSE UNCHANGED <<parameters, toNucleo>>
  /\ UNCHANGED <<img, main>>

HandleComputeCPU ==
  /\ Handles("EV_COMPUTE_CPU")
  /\ img' = IF img.refresh_require \/ ~parameters.computation_set THEN img
            ELSE [img EXCEPT !.data = ComputeCPU(parameters.c)]
  /\ UNCHANGED <<parameters, main, toNucleo>>

HandleClearBuffer ==
  /\ Handles("EV_CLEAR_BUFFER")
  /\ IF img.refresh_require \/ parameters.computing
       THEN UNCHANGED <<parameters, img>>
       ELSE /\ img' = [img EXCEPT !.data = [p \in Pixels(img.W, img.H) |-> Black]]
            /\ parameters' = [parameters EXCEPT !.current_chunk = NoChunk]
  /\ UNCHANGED <<main, toNucleo>>

(* Not refused while the board computes.                                   *)
HandleRefresh ==
  /\ Handles("EV_REFRESH")
  /\ img' = initImage(img.W, img.H, computeChunkSize(img.W, img.H))
  /\ parameters' = [parameters EXCEPT !.current_chunk = NoChunk]
  /\ UNCHANGED <<main, toNucleo>>

HandleShow ==
  /\ Handles("EV_SHOW_ARTWORK") \/ Handles("EV_SHOW_ANIMATION")
  /\ img' = IF img.refresh_require \/ parameters.computing THEN img
            ELSE [img EXCEPT !.data = ComputeCPU(Zero)]
  /\ UNCHANGED <<parameters, main, toNucleo>>

(* Events that change nothing here: EV_QUIT of the keyboard is ignored.    *)
HandleOther ==
  /\ \/ Handles("EV_SHOW_PARAMETERS") \/ Handles("EV_SAVE_AS_PPM")
     \/ Handles("EV_QUIT")
  /\ UNCHANGED <<parameters, img, main, toNucleo>>

-----------------------------------------------------------------------------
(* The main thread: messages of the board                                  *)

msg == Head(evq).msg

HandlesMsg(type) ==
  /\ Handles("EV_SERIAL")
  /\ msg.type = type
  /\ UNCHANGED toNucleo

(* A plausible slip: a restarted board is taken to know the parameters.    *)
HandleStartupStillSet ==
  /\ HandlesMsg("MSG_STARTUP")
  /\ parameters' = [parameters EXCEPT !.computing = FALSE, !.current_chunk = NoChunk]
  /\ UNCHANGED <<img, main>>

HandleStartup ==
  /\ HandlesMsg("MSG_STARTUP")
  /\ parameters' = [parameters EXCEPT !.computing = FALSE,
                                      !.computation_set = FALSE,
                                      !.current_chunk = NoChunk]
  /\ UNCHANGED <<img, main>>

HandleAnswer ==
  /\ HandlesMsg("MSG_VERSION") \/ HandlesMsg("MSG_OK")
  /\ UNCHANGED <<parameters, img, main>>

HandleMsgAbort ==
  /\ HandlesMsg("MSG_ABORT")
  /\ parameters' = IF parameters.computing
                     THEN [parameters EXCEPT !.computing = FALSE,
                                             !.current_chunk = PreviousChunk(@)]
                     ELSE parameters
  /\ UNCHANGED <<img, main>>

(* A plausible slip: any result is taken for one of the current chunk.     *)
HandleComputeDataAnyChunk ==
  /\ HandlesMsg("MSG_COMPUTE_DATA")
  /\ LET cid == parameters.current_chunk
         x == ChunkX(cid, img.chunksinrow, img.chunksize) + msg.i_re
         y == ChunkY(cid, img.chunksinrow, img.chunksize) + msg.i_im
     IN  IF parameters.computing /\ x < img.W /\ y < img.H
           THEN img' = [img EXCEPT !.data[<<x, y>>] =
                                     Colour(msg.iter, parameters.n)]
           ELSE UNCHANGED img
  /\ UNCHANGED <<parameters, main>>

(* A result of the current chunk is painted if it lies in the image; for   *)
(* an id beyond the grid setPixel returns NULL and repaintScreen uses it.  *)
HandleComputeData ==
  /\ HandlesMsg("MSG_COMPUTE_DATA")
  /\ LET cid == parameters.current_chunk
         x == ChunkX(cid, img.chunksinrow, img.chunksize) + msg.i_re
         y == ChunkY(cid, img.chunksinrow, img.chunksize) + msg.i_im
     IN  IF parameters.computing /\ cid = msg.cid /\ x < img.W /\ y < img.H
           THEN IF cid >= img.nbr_chunks
                  THEN main' = "crashed" /\ UNCHANGED img
                  ELSE /\ img' = [img EXCEPT !.data[<<x, y>>] =
                                    Colour(msg.iter, parameters.n)]
                       /\ UNCHANGED main
           ELSE UNCHANGED <<img, main>>
  /\ UNCHANGED parameters

(* A plausible slip: the last chunks are left out.                         *)
AnnouncesWholeEarly == parameters.current_chunk + 2 = img.nbr_chunks

AnnouncesWhole == parameters.current_chunk = img.nbr_chunks

(* A plausible slip: the next chunk is asked for while computing is set.   *)
HandleDoneStillComputing ==
  /\ HandlesMsg("MSG_DONE")
  /\ main' = IF parameters.computing /\ ~AnnouncesWhole THEN "push" ELSE main
  /\ UNCHANGED <<parameters, img>>

HandleDone ==
  /\ HandlesMsg("MSG_DONE")
  /\ IF parameters.computing
       THEN /\ parameters' = [parameters EXCEPT !.computing = FALSE]
            /\ main' = IF AnnouncesWhole THEN main ELSE "push"
       ELSE UNCHANGED <<parameters, main>>
  /\ UNCHANGED img

(* The push of the next EV_COMPUTE returns once there is room.             *)
PushNextChunk ==
  /\ main = "push"
  /\ HasRoom
  /\ evq' = Append(evq, NextChunk)
  /\ main' = "pop"
  /\ UNCHANGED <<parameters, img, pressed, toNucleo, toPc>>

HandleKeyEvent ==
  \/ HandleGetVersion
  \/ HandleChangePar
  \/ HandleSetChange
  \/ HandleSetCompute
  \/ HandleCompute
  \/ HandleResetChunk
  \/ HandleAbort
  \/ HandleComputeCPU
  \/ HandleClearBuffer
  \/ HandleRefresh
  \/ HandleShow
  \/ HandleOther

HandleNucleoEvent ==
  \/ HandleStartup
  \/ HandleAnswer
  \/ HandleMsgAbort
  \/ HandleComputeData
  \/ HandleDone

MainLoop == HandleKeyEvent \/ HandleNucleoEvent \/ PushNextChunk

PcNext == PressKey \/ ReceiveMessage \/ MainLoop
=============================================================================
