--------------------------- MODULE MCClientAudit ---------------------------
(***************************************************************************)
(* Values for checking ClientAudit with TLC.                               *)
(***************************************************************************)
EXTENDS AuditInvariant
=============================================================================
