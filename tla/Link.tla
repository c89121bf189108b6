-------------------------------- MODULE Link --------------------------------
(***************************************************************************)
(* The serial link between the PC application and the Nucleo board, at the *)
(* level of whole messages (messages.h): one FIFO per direction.  Bytes,   *)
(* checksums and the ring buffers of the board are below this level.       *)
(*                                                                         *)
(* The doubles of a message are abstract.  c stands for the six numbers    *)
(* the user can edit (the constant and the two corner points).  d, the     *)
(* pair (d_re, d_im), stands for the image size the increments were        *)
(* derived from.  A start point is given in pixels: getStartRe is          *)
(* aR + (pixels) * inR.  The result of compute() is the point and the      *)
(* parameters it was computed for.                                         *)
(***************************************************************************)
EXTENDS Integers, Sequences

CONSTANTS Cs,      \* values of the editable numbers
          Zero     \* what the same numbers are before anything is set

VARIABLES toNucleo, toPc

Plain(type) == [type |-> type]
SetCompute(c, d, n) == [type |-> "MSG_SET_COMPUTE", c |-> c, d |-> d, n |-> n]
Compute(cid, re, im, size) ==
  [type |-> "MSG_COMPUTE", cid |-> cid, re |-> re, im |-> im, size |-> size]
ComputeData(cid, i_re, i_im, iter) ==
  [type |-> "MSG_COMPUTE_DATA", cid |-> cid, i_re |-> i_re, i_im |-> i_im,
   iter |-> iter]

(* The number of iterations at a point, as the inputs that determine it.   *)
Iterations(c, d, n, re, im) == [c |-> c, d |-> d, n |-> n, re |-> re, im |-> im]

Iters == [c : Cs \union {Zero}, d : Int \X Int, n : Nat, re : Nat, im : Nat]

PcMessages ==
  [type : {"MSG_GET_VERSION", "MSG_ABORT"}]
    \union [type : {"MSG_SET_COMPUTE"}, c : Cs, d : Int \X Int, n : Nat]
    \union [type : {"MSG_COMPUTE"}, cid : Nat, re : Nat, im : Nat, size : Nat]

NucleoMessages ==
  [type : {"MSG_OK", "MSG_ABORT", "MSG_DONE", "MSG_VERSION", "MSG_STARTUP"}]
    \union [type : {"MSG_COMPUTE_DATA"}, cid : Nat, i_re : Nat, i_im : Nat,
            iter : Iters]
=============================================================================
