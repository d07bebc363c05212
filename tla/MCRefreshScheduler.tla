------------------------ MODULE MCRefreshScheduler ------------------------
(***************************************************************************)
(* A small instance of RefreshScheduler for TLC.                            *)
(***************************************************************************)
EXTENDS RefreshScheduler

CONSTANTS w1, w2, w3
===========================================================================
