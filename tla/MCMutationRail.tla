--------------------------- MODULE MCMutationRail ---------------------------
(***************************************************************************)
(* Values for checking MutationRail with TLC.                              *)
(***************************************************************************)
EXTENDS RailTruth, TLC

Symmetry == Permutations(Rids) \cup Permutations(BrokerRuns)
=============================================================================
