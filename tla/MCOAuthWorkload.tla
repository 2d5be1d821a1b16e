-------------------------- MODULE MCOAuthWorkload --------------------------
(* Instance of the OAuth workload for TLC.                                 *)
EXTENDS OAuthWorkload

CONSTANT p1

OnePeer == {p1}
=============================================================================
