-------------------------- MODULE BundleDirectory --------------------------
(***************************************************************************)
(* What a bundle repository promises its federation: a directory that maps *)
(* each member's trust domain to the one bundle its peers must trust, and  *)
(* an announcement for every change, in the order the changes took effect. *)
(*                                                                         *)
(* SpiffeBundleStore (the Solidity contract) implements this module: the   *)
(* directory is what a reader that walks every page of the contract        *)
(* obtains, the announcements are the contract's event log.                *)
(***************************************************************************)
EXTENDS Naturals, Sequences, Functions

CONSTANTS
  TrustDomain,  \* the names a bundle can be published under
  RawBundle     \* the bundles: opaque, only ever compared for equality

VARIABLES
  directory,    \* a function from the members' trust domains to their bundles
  announced     \* the announcements, oldest first

vars == <<directory, announced>>

Announcement ==
  [type: {"BundlePosted", "BundleUpdated", "BundleDeleted"}, trustDomain: TrustDomain]

Announce(type, td) ==
  announced' = Append(announced, [type |-> type, trustDomain |-> td])

Member == DOMAIN directory

Init ==
  /\ directory = [td \in {} |-> td]
  /\ announced = << >>

\* A trust domain that is not a member becomes one.
Post(td, raw) ==
  /\ td \notin Member
  /\ directory' = [t \in Member \cup {td} |-> IF t = td THEN raw ELSE directory[t]]
  /\ Announce("BundlePosted", td)

\* A member replaces its bundle.
Update(td, raw) ==
  /\ td \in Member
  /\ directory' = [directory EXCEPT ![td] = raw]
  /\ Announce("BundleUpdated", td)

\* A member leaves, and takes nobody else's bundle with it.
Delete(td) ==
  /\ td \in Member
  /\ directory' = Restrict(directory, Member \ {td})
  /\ Announce("BundleDeleted", td)

Next ==
  \E td \in TrustDomain :
    \/ \E raw \in RawBundle : Post(td, raw) \/ Update(td, raw)
    \/ Delete(td)

Spec == Init /\ [][Next]_vars
=============================================================================
