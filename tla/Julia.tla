-------------------------------- MODULE Julia --------------------------------
(***************************************************************************)
(* The whole system: the PC application and the Nucleo board, connected by *)
(* the serial link.  The board computes the Julia set of the image chunk   *)
(* by chunk on request of the PC.                                          *)
(***************************************************************************)
EXTENDS Pc, Nucleo

vars == <<pcVars, nucleoVars, toNucleo, toPc>>

Init == PcInit /\ NucleoInit /\ toNucleo = << >> /\ toPc = << >>

Next ==
  \/ PcNext /\ UNCHANGED nucleoVars
  \/ NucleoNext /\ UNCHANGED pcVars

Spec == Init /\ [][Next]_vars

(* Both programs run, and the link delivers.  Keys and buttons are free.   *)
Fairness ==
  /\ WF_vars(MainLoop /\ UNCHANGED nucleoVars)
  /\ WF_vars(ReceiveMessage /\ UNCHANGED nucleoVars)
  /\ WF_vars(Loop /\ UNCHANGED pcVars)
  /\ WF_vars(Arrive /\ UNCHANGED pcVars)

FairSpec == Spec /\ Fairness

-----------------------------------------------------------------------------
(* Vocabulary of the properties                                            *)

Serials == {i \in DOMAIN evq : evq[i].type = "EV_SERIAL"}

(* Is a message of one of these types on its way to the main thread?       *)
OnTheWay(types) ==
  \/ \E i \in DOMAIN toPc : toPc[i].type \in types
  \/ \E i \in Serials : evq[i].msg.type \in types

PcParams == [c |-> parameters.c, d |-> parameters.d, n |-> parameters.n]
ParamsOf(r) == [c |-> r.c, d |-> r.d, n |-> r.n]

(* The messages to the board after position i.                             *)
NoneAfter(i, type) ==
  \A j \in DOMAIN toNucleo : j > i => toNucleo[j].type # type

-----------------------------------------------------------------------------
(* Types                                                                   *)

(* What the queue may hold, and what the buffer of the image is.           *)
QueueEvents ==
  Keys \union {NextChunk} \union [type : {"EV_SERIAL"}, msg : NucleoMessages]

Colours == {Black} \union [iter : Iters, n : Nat]
IsPixelBuffer(data) ==
  \E w, h \in 1 .. MaxDim : data \in [Pixels(w, h) -> Colours]

ParametersOK ==
  parameters \in [c : Cs, n : minN .. maxN, d : Int \X Int,
                  computing : BOOLEAN, computation_set : BOOLEAN,
                  current_chunk : 0 .. BYTE - 1,
                  parameter_to_be_changed : Nat]

ImageOK ==
  /\ img \in [W : 1 .. MaxDim, H : 1 .. MaxDim, chunksize : 1 .. BYTE - 1,
             chunksinrow : 0 .. BYTE - 1, nbr_chunks : 0 .. BYTE - 1,
             refresh_require : BOOLEAN, data : {img.data}]
  /\ IsPixelBuffer(img.data)

QueueOK ==
  /\ evq \in Seq(QueueEvents)
  /\ Len(evq) <= EVENT_CAPACITY

LinkOK ==
  /\ toNucleo \in Seq(PcMessages)
  /\ toPc \in Seq(NucleoMessages)
  /\ arrived \in 0 .. Len(toNucleo)

BoardOK ==
  /\ nucleo \in [c : Cs \union {Zero}, d : Int \X Int, n : Nat, cid : Nat,
                 re : Nat, im : Nat, chunk_size : Nat,
                 computing : BOOLEAN, cx : Nat, cy : Nat]
  /\ abort_request \in BOOLEAN
  /\ step \in {"abort", "work"}
  /\ presses \in 0 .. MaxPresses /\ resets \in 0 .. MaxResets

(* Every variable has its type, the queue never holds more than it can,    *)
(* and the firmware never counts on more messages than there are.          *)
TypeOK ==
  /\ ParametersOK /\ ImageOK /\ QueueOK /\ LinkOK /\ BoardOK
  /\ main \in {"pop", "push", "crashed"}
  /\ pressed \in 0 .. MaxKeys

(* Whatever keys are pressed and however aborts, answers and restarts of   *)
(* the board cross each other: while the application lives and believes    *)
(* that the board computes, something will end that belief.  Either a      *)
(* request to compute is under way that no abort follows, or the board     *)
(* computes and no abort is under way, or the news of an end is on its way *)
(* back.                                                                   *)
NeverStranded ==
  parameters.computing /\ main # "crashed" =>
    \/ OnTheWay({"MSG_DONE", "MSG_ABORT", "MSG_STARTUP"})
    \/ nucleo.computing /\ NoneAfter(0, "MSG_ABORT")
    \/ \E i \in DOMAIN toNucleo :
          toNucleo[i].type = "MSG_COMPUTE" /\ NoneAfter(i, "MSG_ABORT")

(* computation_set means that the board has the parameters the application *)
(* shows, or will have them before any later request, or has restarted and *)
(* the application is about to hear of it.                                 *)
ParametersAgree ==
  parameters.computation_set =>
    \/ OnTheWay({"MSG_STARTUP"})
    \/ ParamsOf(nucleo) = PcParams /\ NoneAfter(0, "MSG_SET_COMPUTE")
    \/ \E i \in DOMAIN toNucleo :
          /\ toNucleo[i].type = "MSG_SET_COMPUTE"
          /\ ParamsOf(toNucleo[i]) = PcParams
          /\ NoneAfter(i, "MSG_SET_COMPUTE")

(* The size of the image changes before its buffer does.  The buffer has   *)
(* the size of the image whenever refresh_require is not set, and no chunk *)
(* is computed while it is set: results are never stored outside.          *)
BufferFits ==
  /\ ~img.refresh_require => DOMAIN img.data = Pixels(img.W, img.H)
  /\ parameters.computing => ~img.refresh_require

(* The colour of a painted pixel comes from the result for its own point,  *)
(* with the increments of the image as it is.                              *)
PaintedInPlace ==
  ~img.refresh_require =>
     \A p \in DOMAIN img.data :
        img.data[p] # Black =>
           LET iter == img.data[p].iter
           IN  iter.re = p[1] /\ iter.im = p[2] /\ iter.d = <<img.W, img.H>>

(* The assertion of the firmware: a request to compute finds the board     *)
(* without a computation.  (If it does not, it is acknowledged and lost.)  *)
ComputeFindsIdle ==
  step = "work" /\ arrived > 0 /\ Head(toNucleo).type = "MSG_COMPUTE"
    => ~nucleo.computing

(* An abort the user asks for is not overtaken by a request for the next   *)
(* chunk that the application has already queued for itself.               *)
AbortStopsTheChain ==
  main = "pop" /\ evq # << >> /\ Head(evq) = Key("EV_ABORT")
      /\ ~parameters.computing
    => \A i \in DOMAIN evq : evq[i].type = "EV_COMPUTE" => evq[i] # NextChunk

(* The main thread, which alone makes room in the queue, never waits for   *)
(* room in it.                                                             *)
MainFindsRoom == main = "push" => HasRoom

(* When the application announces the whole image, the image is whole, as  *)
(* long as the board has not restarted (a request that survives a restart  *)
(* is computed, and its end is taken for the answer to the next one).      *)
SuccessIsWhole ==
  [][HandleDone /\ parameters.computing /\ AnnouncesWhole
       => \A p \in DOMAIN img.data : img.data[p] # Black]_vars

(* The belief that the board computes does not last forever.               *)
ComputationEnds == parameters.computing ~> ~parameters.computing

(* The user has pressed his last key and every key has been handled, and   *)
(* the board will not be touched any more.                                 *)
Undisturbed ==
  /\ pressed = MaxKeys /\ presses = MaxPresses /\ resets = MaxResets
  /\ \A i \in DOMAIN evq : evq[i].type # "EV_SERIAL" => evq[i] = NextChunk
  /\ ~abort_request
  /\ ~OnTheWay({"MSG_ABORT"})

(* Left alone while a chunk is computed with the parameters set, the       *)
(* system goes on, chunk after chunk, until the whole image is painted,    *)
(* whatever the user did before that neither aborted a request nor changed *)
(* the image.                                                              *)
ImageCompletes ==
  parameters.computing /\ parameters.computation_set /\ Undisturbed
    ~> \A p \in DOMAIN img.data : img.data[p] # Black

-----------------------------------------------------------------------------
(* The system implements the chunk job, as long as the image keeps its     *)
(* size.                                                                   *)

FirstImage == initImage(def_W, def_H, def_chunksize)

FirstChunkOf(p) ==
  p[1] \div FirstImage.chunksize
    + (p[2] \div FirstImage.chunksize) * FirstImage.chunksinrow

FirstInPlace(p, colour) ==
  /\ colour.iter.re = p[1] /\ colour.iter.im = p[2]
  /\ colour.iter.d = <<def_W, def_H>>

Job == INSTANCE ChunkJob WITH
         Image <- Pixels(def_W, def_H),
         ChunkOf <- FirstChunkOf,
         InPlace <- FirstInPlace,
         busy <- parameters.computing,
         chunk <- parameters.current_chunk,
         data <- img.data

(* Chunk by chunk, one at a time, and none is over before it is painted:   *)
(* the exchange of MSG_COMPUTE, MSG_COMPUTE_DATA, MSG_DONE and MSG_ABORT   *)
(* does what the user of the application sees.                             *)
ImplementsChunkJob == Job!Spec
=============================================================================
