---------------------------- MODULE MCAppServer ----------------------------
(***************************************************************************)
(* Values for checking AppServer with TLC.                                 *)
(***************************************************************************)
EXTENDS ServerInvariant
=============================================================================
