---------------------------- MODULE MCHostTools ----------------------------
(***************************************************************************)
(* Values for checking GovernanceStore with TLC.                           *)
(***************************************************************************)
EXTENDS StoreInvariant
=============================================================================
