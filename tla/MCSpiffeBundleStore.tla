------------------------ MODULE MCSpiffeBundleStore ------------------------
(* Instance of the contract for TLC: three trust domains and two bundles,  *)
(* so that a deletion can hit the first, a middle and the last slot.       *)
EXTENDS SpiffeBundleStore

CONSTANTS td1, td2, td3, raw1, raw2

MCTrustDomain == {td1, td2, td3}
MCRawBundle == {raw1, raw2}
=============================================================================
