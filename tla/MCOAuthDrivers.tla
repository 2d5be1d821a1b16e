--------------------------- MODULE MCOAuthDrivers ---------------------------
(* Instance of the OAuth workload and its scripts for TLC.                 *)
EXTENDS OAuthDrivers

CONSTANT p1

OnePeer == {p1}
=============================================================================
