--------------------------- MODULE MCApplyExecutor ---------------------------
(***************************************************************************)
(* Values for checking ApplyExecutor with TLC.                             *)
(***************************************************************************)
EXTENDS ExecutorInvariant, TLC

Symmetry == Permutations(Runs)
=============================================================================
