------------------------- MODULE MetadataDirectory -------------------------
(***************************************************************************)
(* What a metadata repository promises an OAuth federation: the metadata   *)
(* of every registered domain, and an announcement for every change of     *)
(* membership and every key rotation of a member, in the order in which    *)
(* they took effect. The metadata of a registered domain never changes.    *)
(***************************************************************************)
EXTENDS Naturals, Sequences, Functions

CONSTANTS
  Domain,
  Metadata

VARIABLES
  directory,    \* a function from the registered domains to their metadata
  announced     \* the announcements, oldest first

vars == <<directory, announced>>

Announce(type, dn) ==
  announced' = Append(announced, [type |-> type, domainName |-> dn])

Registered == DOMAIN directory

Init ==
  /\ directory = [dn \in {} |-> dn]
  /\ announced = << >>

\* A domain registers once, with metadata that stays until it is removed.
Add(dn, raw) ==
  /\ dn \notin Registered
  /\ directory' = [d \in Registered \cup {dn} |-> IF d = dn THEN raw ELSE directory[d]]
  /\ Announce("DomainAdded", dn)

\* A domain leaves, and takes nobody else's metadata with it.
Leave(dn) ==
  /\ dn \in Registered
  /\ directory' = Restrict(directory, Registered \ {dn})
  /\ Announce("DomainRemoved", dn)

\* Only a registered domain can tell the others that its key is compromised.
Rotate(dn) ==
  /\ dn \in Registered
  /\ Announce("KeyRotated", dn)
  /\ UNCHANGED directory

Next ==
  \E dn \in Domain :
    \/ \E raw \in Metadata : Add(dn, raw)
    \/ Leave(dn)
    \/ Rotate(dn)

Spec == Init /\ [][Next]_vars
=============================================================================
