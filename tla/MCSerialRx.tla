----------------------------- MODULE MCSerialRx -----------------------------
(***************************************************************************)
(* A board that sends an acknowledgement, two different results, and       *)
(* MSG_STARTUP when it is restarted.                                       *)
(***************************************************************************)
EXTENDS SerialRx

StartupMessage == [type |-> "MSG_STARTUP"]
BoardMessages ==
  {[type |-> "MSG_OK"], StartupMessage}
    \union [type : {"MSG_COMPUTE_DATA"}, iter : {0, 1}]
=============================================================================
