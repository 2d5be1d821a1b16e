--------------------------- MODULE MCOAuthLedger ---------------------------
(* Instance of the ledger OAuth federation for TLC: this domain and two    *)
(* peers, so that a removal can free the first, a middle and the last slot.*)
EXTENDS OAuthLedger

CONSTANTS own, p1, p2, raw

MCDomain == {own, p1, p2}
MCMetadata == {raw}
MCRotating == {p1}
=============================================================================
