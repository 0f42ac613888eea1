--------------------------- MODULE MCDockerProxy ---------------------------
(***************************************************************************)
(* Values for checking DockerProxy with TLC.                               *)
(***************************************************************************)
EXTENDS ProxyInvariant
=============================================================================
