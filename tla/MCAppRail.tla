----------------------------- MODULE MCAppRail -----------------------------
(***************************************************************************)
(* Values for checking AppRail with TLC.                                   *)
(***************************************************************************)
EXTENDS AppRailInvariant, TLC

Symmetry == Permutations(Rids)
=============================================================================
