------------------------- MODULE MCLedgerFederation -------------------------
(* Instances of the ledger federation for TLC. The founders are a and b; n *)
(* is the server that run_addition adds.                                   *)
EXTENDS LedgerFederation

CONSTANTS a, b, n

PairAndNewcomer == {a, b, n}
Pair == <<a, b>>
Newcomer == {n}
Versions == 1..MaxVersion
=============================================================================
