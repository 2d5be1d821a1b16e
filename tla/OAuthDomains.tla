---------------------------- MODULE OAuthDomains ----------------------------
(* What the contract and the listeners of an OAuth federation share: the   *)
(* names of its domains.                                                   *)
CONSTANT Domain
=============================================================================
