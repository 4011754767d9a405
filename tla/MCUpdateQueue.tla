--------------------------- MODULE MCUpdateQueue ---------------------------
(* Model-checking instance of UpdateQueue.                                   *)
EXTENDS UpdateQueue
MCExpirationTimes == {1, 2}
=============================================================================
