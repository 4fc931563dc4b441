-------------------------- MODULE MCRefreshScheduler --------------------------
(* Values of the small instance of RefreshScheduler.                       *)
EXTENDS RefreshScheduler

CONSTANTS w1, w2

MCOthers == <<w2>>
=============================================================================
