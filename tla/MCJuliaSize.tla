---------------------------- MODULE MCJuliaSize -----------------------------
(***************************************************************************)
(* Instances of Julia with one of two users: the first aborts what he asks *)
(* for and keeps the size of the image, the second changes the size and    *)
(* does not abort.  (One user who does both, with eight keys, sees late    *)
(* results of the old size painted: nothing in a result says for which     *)
(* size it was computed.)                                                  *)
(***************************************************************************)
EXTENDS MCJulia

CONSTANTS MaxAborting, MaxResizing     \* bounds: how many keys each presses

VARIABLE user

UserKeys == [aborting |-> {c, a, s, r}, resizing |-> {c, s, r, u(WIDTH), plus}]
BothKeys == UserKeys.aborting \union UserKeys.resizing
UserMax == [aborting |-> MaxAborting, resizing |-> MaxResizing]

UserInit == Init /\ user \in DOMAIN UserKeys

UserNext ==
  /\ Next
  /\ pressed' # pressed => /\ pressed < UserMax[user]
                           /\ evq'[Len(evq')] \in UserKeys[user]
  /\ UNCHANGED user

UserSpec == UserInit /\ [][UserNext]_<<vars, user>>
=============================================================================
