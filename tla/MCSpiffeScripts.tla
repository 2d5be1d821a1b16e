-------------------------- MODULE MCSpiffeScripts --------------------------
(* Instance of the SPIFFE workloads and scripts for TLC.                   *)
EXTENDS SpiffeScripts
=============================================================================
