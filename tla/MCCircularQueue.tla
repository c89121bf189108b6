-------------------------- MODULE MCCircularQueue ---------------------------
(***************************************************************************)
(* A small instance of the circular queue of its own, to see what growing  *)
(* does to the order of the elements.                                      *)
(***************************************************************************)
EXTENDS CircularQueue

CONSTANTS e1, e2

Positions == {-1, 0, 2}
=============================================================================
