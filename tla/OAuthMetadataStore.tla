------------------------- MODULE OAuthMetadataStore -------------------------
(***************************************************************************)
(* The Solidity contract OAuthMetadataStore. Unlike SpiffeBundleStore it   *)
(* finds the array slot of a domain through a third mapping, domainIndex,  *)
(* which every removal has to keep in step with the array it rearranges.   *)
(*                                                                         *)
(* A transaction is atomic and either reverts (the action is disabled) or  *)
(* takes effect, emits one event and is mined in a block of its own.       *)
(***************************************************************************)
EXTENDS OAuthDomains, Naturals, Sequences, SequencesExt

CONSTANTS
  Metadata,     \* the JSON documents; the client never sends an empty one
  Unset,        \* "": what Solidity returns for a key that was never written
  MaxBlocks     \* bound on the length of the chain

ASSUME UnsetAssumption == Unset \notin Metadata

VARIABLES
  metadata,     \* mapping(string => string)
  domainExists, \* mapping(string => bool)
  domainIndex,  \* mapping(string => uint), 1-based; 0 when never written
  domainNames,  \* string[]
  blocks        \* one event per mined transaction

vars == <<metadata, domainExists, domainIndex, domainNames, blocks>>

EventName == {"DomainAdded", "DomainRemoved", "KeyRotated"}

Event == [type: EventName, domainName: Domain]

TypeOK ==
  /\ metadata \in [Domain -> Metadata \cup {Unset}]
  /\ domainExists \in [Domain -> BOOLEAN]
  /\ domainIndex \in [Domain -> Nat]
  /\ domainNames \in Seq(Domain)
  /\ blocks \in Seq(Event)

Init ==
  /\ metadata = [dn \in Domain |-> Unset]
  /\ domainExists = [dn \in Domain |-> FALSE]
  /\ domainIndex = [dn \in Domain |-> 0]
  /\ domainNames = << >>
  /\ blocks = << >>

-----------------------------------------------------------------------------
(* Transactions                                                            *)

Emit(type, dn) ==
  /\ Len(blocks) < MaxBlocks
  /\ blocks' = Append(blocks, [type |-> type, domainName |-> dn])

\* Mutant: registerDomain without its require.
RegisterUnchecked(dn, raw) ==
  /\ metadata' = [metadata EXCEPT ![dn] = raw]
  /\ domainExists' = [domainExists EXCEPT ![dn] = TRUE]
  /\ domainNames' = Append(domainNames, dn)
  /\ domainIndex' = [domainIndex EXCEPT ![dn] = Len(domainNames) + 1]
  /\ Emit("DomainAdded", dn)

RegisterDomain(dn, raw) ==
  /\ ~domainExists[dn]
  /\ metadata' = [metadata EXCEPT ![dn] = raw]
  /\ domainExists' = [domainExists EXCEPT ![dn] = TRUE]
  /\ domainNames' = Append(domainNames, dn)
  /\ domainIndex' = [domainIndex EXCEPT ![dn] = Len(domainNames) + 1]
  /\ Emit("DomainAdded", dn)

\* Mutant: the index of the moved entry is left as it was.
ReindexOwnOnly(dn) == [domainIndex EXCEPT ![dn] = 0]

\* The last entry, unless it is the one removed, moves to the freed slot and
\* its index follows. The removed domain's index is cleared after that.
Reindex(dn) ==
  LET freed == domainIndex[dn]
      last  == domainNames[Len(domainNames)]
  IN  IF freed = Len(domainNames)
      THEN [domainIndex EXCEPT ![dn] = 0]
      ELSE [domainIndex EXCEPT ![last] = freed, ![dn] = 0]

\* An index of 0, or one past the array's end, makes checked arithmetic or
\* the bounds check revert the transaction.
RemoveDomain(dn) ==
  /\ domainExists[dn]
  /\ domainIndex[dn] \in DOMAIN domainNames
  /\ domainNames' = SubSeq([domainNames EXCEPT ![domainIndex[dn]] = Last(domainNames)],
                           1, Len(domainNames) - 1)
  /\ domainIndex' = Reindex(dn)
  /\ metadata' = [metadata EXCEPT ![dn] = Unset]
  /\ domainExists' = [domainExists EXCEPT ![dn] = FALSE]
  /\ Emit("DomainRemoved", dn)

NotifyKeyRotated(dn) ==
  /\ domainExists[dn]
  /\ Emit("KeyRotated", dn)
  /\ UNCHANGED <<metadata, domainExists, domainIndex, domainNames>>

Next ==
  \E dn \in Domain :
    \/ \E raw \in Metadata : RegisterDomain(dn, raw)
    \/ RemoveDomain(dn)
    \/ NotifyKeyRotated(dn)

Spec == Init /\ [][Next]_vars

-----------------------------------------------------------------------------
(* Properties                                                              *)

\* domainIndex inverts domainNames: the index of a registered domain is the
\* slot that holds its name and everybody else's index is 0. A removal that
\* forgot to move the index of the entry it moves would make a later removal
\* delete another domain's name, or revert for ever.
IndexInvertsArray ==
  \A dn \in Domain :
    IF domainExists[dn]
    THEN /\ domainIndex[dn] \in 1..Len(domainNames)
         /\ domainNames[domainIndex[dn]] = dn
    ELSE domainIndex[dn] = 0

\* getAllDomains lists exactly the registered domains, each of them once and
\* with its metadata: no entry is orphaned, duplicated or blank.
NamesAreRegistered ==
  /\ \A i \in 1..Len(domainNames) :
       /\ domainExists[domainNames[i]]
       /\ domainIndex[domainNames[i]] = i
  /\ \A dn \in Domain : domainExists[dn] <=> metadata[dn] # Unset

\* The directory a reader of every page obtains.
Published == [dn \in Range(domainNames) |-> metadata[dn]]

Directory == INSTANCE MetadataDirectory WITH directory <- Published, announced <- blocks

\* The contract, read through getAllDomains and its event log, keeps the
\* promise of a metadata repository: a transaction changes the entry of its
\* own domain alone and announces exactly that change.
ImplementsDirectory == Directory!Spec
=============================================================================
