--------------------------- MODULE MCOAuthCentral ---------------------------
(* Instance of the centralized OAuth federation for TLC.                   *)
EXTENDS OAuthCentral

CONSTANTS own, p1, c1, c2

OneDomain == {own, p1}
TwoCallers == {c1, c2}
=============================================================================
