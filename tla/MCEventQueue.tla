---------------------------- MODULE MCEventQueue ----------------------------
(***************************************************************************)
(* The three threads of the PC application on one queue: the input and the *)
(* serial thread push, the main thread pops, and pushes when it asks for   *)
(* the next chunk.                                                         *)
(***************************************************************************)
EXTENDS EventQueue

CONSTANTS input, serial_rx, main, key, message
=============================================================================
