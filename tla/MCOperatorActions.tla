-------------------------- MODULE MCOperatorActions --------------------------
(***************************************************************************)
(* Small instances of OperatorActions for TLC.                             *)
(***************************************************************************)
EXTENDS OperatorActions, TLC

AllRequests == Permutations(Decisions) \cup Permutations(Signals)
==============================================================================
