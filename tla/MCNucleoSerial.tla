--------------------------- MODULE MCNucleoSerial ---------------------------
(***************************************************************************)
(* A board whose transmit ring holds one long message, and a PC that asks  *)
(* for the version, sets parameters, asks for a chunk of one pixel, and    *)
(* aborts.                                                                 *)
(***************************************************************************)
EXTENDS NucleoSerial

CONSTANTS c1

PcCommands ==
  {[type |-> "MSG_GET_VERSION"], [type |-> "MSG_ABORT"],
   [type |-> "MSG_SET_COMPUTE", c |-> c1, d |-> <<1, 1>>, n |-> 1],
   [type |-> "MSG_COMPUTE", cid |-> 1, re |-> 0, im |-> 0, size |-> 1]}
=============================================================================
