------------------------- MODULE SpiffeBundleStore -------------------------
(***************************************************************************)
(* The Solidity contract SpiffeBundleStore: a mapping from trust domain to *)
(* bundle, a second mapping that says which keys are set, and the array    *)
(* trustDomains that makes the mapping enumerable page by page.            *)
(*                                                                         *)
(* A transaction is atomic and either reverts (its `require` fails: the    *)
(* action is disabled) or takes effect, emits one event and is mined.      *)
(* Hardhat automines, so block b holds exactly the b-th accepted           *)
(* transaction: `blocks` is the chain seen by eth_getLogs, and its length  *)
(* is eth_blockNumber.                                                     *)
(***************************************************************************)
EXTENDS Naturals, Sequences, SequencesExt

CONSTANTS
  TrustDomain,  \* the strings used as keys
  RawBundle,    \* the bundle documents; the clients never send an empty one
  Unset,        \* "": what Solidity returns for a key that was never written
  MaxBlocks     \* bound on the length of the chain

ASSUME UnsetAssumption == Unset \notin RawBundle

VARIABLES
  bundles,      \* mapping(string => string)
  bundleExists, \* mapping(string => bool)
  trustDomains, \* string[]
  blocks        \* one event per mined transaction

vars == <<bundles, bundleExists, trustDomains, blocks>>

EventType == {"BundlePosted", "BundleUpdated", "BundleDeleted"}

Event == [type: EventType, trustDomain: TrustDomain]

TypeOK ==
  /\ bundles \in [TrustDomain -> RawBundle \cup {Unset}]
  /\ bundleExists \in [TrustDomain -> BOOLEAN]
  /\ trustDomains \in Seq(TrustDomain)
  /\ blocks \in Seq(Event)

Init ==
  /\ bundles = [td \in TrustDomain |-> Unset]
  /\ bundleExists = [td \in TrustDomain |-> FALSE]
  /\ trustDomains = << >>
  /\ blocks = << >>

-----------------------------------------------------------------------------
(* Transactions                                                            *)

Emit(type, td) ==
  /\ Len(blocks) < MaxBlocks
  /\ blocks' = Append(blocks, [type |-> type, trustDomain |-> td])

\* Mutant: postBundle without its require.
PostUnchecked(td, raw) ==
  /\ bundles' = [bundles EXCEPT ![td] = raw]
  /\ bundleExists' = [bundleExists EXCEPT ![td] = TRUE]
  /\ trustDomains' = Append(trustDomains, td)
  /\ Emit("BundlePosted", td)

PostBundle(td, raw) ==
  /\ ~bundleExists[td]
  /\ bundles' = [bundles EXCEPT ![td] = raw]
  /\ bundleExists' = [bundleExists EXCEPT ![td] = TRUE]
  /\ trustDomains' = Append(trustDomains, td)
  /\ Emit("BundlePosted", td)

UpdateBundle(td, raw) ==
  /\ bundleExists[td]
  /\ bundles' = [bundles EXCEPT ![td] = raw]
  /\ Emit("BundleUpdated", td)
  /\ UNCHANGED <<bundleExists, trustDomains>>

\* The positions at which the array holds td.
Slots(td) == {i \in 1..Len(trustDomains) : trustDomains[i] = td}

\* Mutant: the pop without the swap.
PopOnly(seq, i) == SubSeq(seq, 1, Len(seq) - 1)

\* Overwrite slot i with the last entry, then drop the last slot.
SwapAndPop(seq, i) ==
  SubSeq([seq EXCEPT ![i] = seq[Len(seq)]], 1, Len(seq) - 1)

\* The scan stops at the first slot that holds td; it finds none only if the
\* array and the mapping have come apart.
DeleteBundle(td) ==
  /\ bundleExists[td]
  /\ bundles' = [bundles EXCEPT ![td] = Unset]
  /\ bundleExists' = [bundleExists EXCEPT ![td] = FALSE]
  /\ trustDomains' = IF Slots(td) = {}
                     THEN trustDomains
                     ELSE SwapAndPop(trustDomains, Min(Slots(td)))
  /\ Emit("BundleDeleted", td)

Next ==
  \E td \in TrustDomain :
    \/ \E raw \in RawBundle : PostBundle(td, raw) \/ UpdateBundle(td, raw)
    \/ DeleteBundle(td)

Spec == Init /\ [][Next]_vars

-----------------------------------------------------------------------------
(* Views (calls that cost no transaction)                                  *)

\* Mutant: the entry at offset + limit included.
PageInclusive(offset, limit) ==
  LET end  == Min({offset + limit + 1, Len(trustDomains)})
      size == IF end > offset THEN end - offset ELSE 0
  IN  [i \in 1..size |-> <<trustDomains[offset + i], bundles[trustDomains[offset + i]]>>]

\* getAllBundles: the entries at offset + 1 .. offset + limit, cut at the end.
Page(offset, limit) ==
  LET end  == Min({offset + limit, Len(trustDomains)})
      size == IF end > offset THEN end - offset ELSE 0
  IN  [i \in 1..size |-> <<trustDomains[offset + i], bundles[trustDomains[offset + i]]>>]

Total == Len(trustDomains)

-----------------------------------------------------------------------------
(* Properties                                                              *)

\* The array and the two mappings describe the same members: the array lists
\* exactly the trust domains whose flag is set, each of them once, and only
\* those have a bundle. deleteBundle's swap-and-pop is what puts it at risk.
ArrayMirrorsMappings ==
  /\ IsInjective(trustDomains)
  /\ \A td \in TrustDomain :
       /\ bundleExists[td] <=> td \in Range(trustDomains)
       /\ bundleExists[td] <=> bundles[td] # Unset

\* What a walk with this page size may read: page number and slot.
Places(limit) == UNION {{<<k, i>> : i \in DOMAIN Page(k * limit, limit)} : k \in 0..Total}
EntryAt(limit, a) == Page(a[1] * limit, limit)[a[2]]

\* A reader that walks the pages while no transaction is mined obtains every
\* member with its own bundle exactly once, and nothing else, whatever the
\* page size; no page in between is empty, which would end the walk of
\* get_bundles too early (getAllBundles as get_bundles uses it).
PagesPartitionMembers ==
  \A limit \in 1..(Total + 1) :
    /\ {EntryAt(limit, a) : a \in Places(limit)} =
         {<<td, bundles[td]>> : td \in {t \in TrustDomain : bundleExists[t]}}
    /\ \A a, b \in Places(limit) : EntryAt(limit, a)[1] = EntryAt(limit, b)[1] => a = b
    /\ \A a \in Places(limit) : \A k \in 0..a[1] : Page(k * limit, limit) # << >>

\* The directory a full page walk presents.
Published == [td \in Range(trustDomains) |-> bundles[td]]

Directory == INSTANCE BundleDirectory WITH directory <- Published, announced <- blocks

\* The contract, read through its pages and its event log, is a directory:
\* every transaction changes the published entry of its own trust domain
\* alone and announces exactly that change.
ImplementsDirectory == Directory!Spec
=============================================================================
