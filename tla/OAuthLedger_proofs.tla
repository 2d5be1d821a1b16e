------------------------- MODULE OAuthLedger_proofs -------------------------
(***************************************************************************)
(* Proofs about the federation over the ledger. Its contract behaves as    *)
(* the contract alone and its listener as OAuthListener says; and when the *)
(* log is handled the realm agrees with the contract: nobody is admitted   *)
(* who is gone, no registered domain that never left is locked out, and no *)
(* key is older than an announced rotation. For every set of domains, page *)
(* size, chain length and number of failures.                              *)
(***************************************************************************)
EXTENDS OAuthLedger, OAuthListener_proofs, SequenceTheorems

-----------------------------------------------------------------------------
(* The inductive invariant                                                 *)

\* Neither half is inductive without the other: a removal clears the slot
\* that domainIndex names, so it needs that slot to hold the domain, and it
\* re-indexes the last name, so it needs that name to be registered there.
IInv == TypeOK /\ IndexInvertsArray /\ NamesAreRegistered

\* Every transaction appends a well-formed event to the log.
LEMMA EmitTyped ==
  ASSUME TypeOK, NEW type \in EventName, NEW dn \in Domain, Emit(type, dn)
  PROVE  blocks' \in Seq(Event)
<1>1. [type |-> type, domainName |-> dn] \in Event
  BY DEF Event
<1> QED
  BY <1>1, AppendProperties DEF TypeOK, Emit

\* What a registration does to the array, entry by entry.
LEMMA RegisterArray ==
  ASSUME IInv, NEW dn \in Domain, NEW raw \in Metadata, RegisterDomain(dn, raw)
  PROVE  /\ domainNames' \in Seq(Domain)
         /\ Len(domainNames)' = Len(domainNames) + 1
         /\ \A i \in 1..Len(domainNames) : domainNames'[i] = domainNames[i]
         /\ domainNames'[Len(domainNames) + 1] = dn
<1>1. domainNames \in Seq(Domain)
  BY DEF IInv, TypeOK
<1>2. domainNames' = Append(domainNames, dn)
  BY DEF RegisterDomain
<1> QED
  BY <1>1, <1>2, AppendProperties

\* What a removal does to the array: the last name takes the freed slot.
LEMMA RemoveArray ==
  ASSUME IInv, NEW dn \in Domain, RemoveDomain(dn)
  PROVE  /\ domainNames' \in Seq(Domain)
         /\ Len(domainNames)' = Len(domainNames) - 1
         /\ \A i \in 1..(Len(domainNames) - 1) :
              domainNames'[i] = IF i = domainIndex[dn]
                                THEN domainNames[Len(domainNames)]
                                ELSE domainNames[i]
<1> DEFINE n       == Len(domainNames)
           freed   == domainIndex[dn]
           swapped == [domainNames EXCEPT ![freed] = domainNames[n]]
<1>1. domainNames \in Seq(Domain)
  BY DEF IInv, TypeOK
<1>2. n \in Nat /\ DOMAIN domainNames = 1..n
  BY <1>1, LenProperties
<1>3. freed \in 1..n /\ n \in 1..n
  BY <1>2 DEF RemoveDomain
<1>4. domainNames[n] \in Domain
  BY <1>1, <1>3, ElementOfSeq
<1>5. /\ swapped \in Seq(Domain)
      /\ Len(swapped) = n
      /\ \A i \in 1..n : swapped[i] = IF i = freed THEN domainNames[n] ELSE domainNames[i]
  BY <1>1, <1>3, <1>4, ExceptSeq
<1>6. domainNames' = SubSeq(swapped, 1, n - 1)
  BY DEF RemoveDomain, Last
<1> HIDE DEF n, freed, swapped
<1>7. domainNames' = [i \in 1..(n - 1) |-> swapped[i]]
  BY <1>3, <1>5, <1>6
<1>8. \A i \in 1..(n - 1) : swapped[i] \in Domain
  BY <1>2, <1>5, ElementOfSeq
<1>9. [i \in 1..(n - 1) |-> swapped[i]] \in Seq(Domain)
  BY <1>2, <1>3, <1>8, IsASeq
<1> QED
  BY <1>2, <1>3, <1>5, <1>7, <1>9 DEF n, freed

\* A removal gives the moved name the freed slot and leaves every other
\* domain's index alone.
LEMMA RemoveIndex ==
  ASSUME IInv, NEW dn \in Domain, RemoveDomain(dn)
  PROVE  /\ domainIndex' \in [Domain -> Nat]
         /\ \A d \in Domain :
              domainIndex'[d] = IF d = dn THEN 0
                                ELSE IF d = domainNames[Len(domainNames)]
                                THEN domainIndex[dn]
                                ELSE domainIndex[d]
<1> DEFINE n == Len(domainNames)
<1>1. domainNames \in Seq(Domain) /\ domainIndex \in [Domain -> Nat]
  BY DEF IInv, TypeOK
<1>2. n \in Nat /\ DOMAIN domainNames = 1..n
  BY <1>1, LenProperties
<1>3. domainIndex[dn] \in 1..n /\ n \in 1..n
  BY <1>2 DEF RemoveDomain
<1>4. domainNames[n] \in Domain
  BY <1>1, <1>3, ElementOfSeq
<1>5. domainNames[domainIndex[dn]] = dn
  BY DEF IInv, IndexInvertsArray, RemoveDomain
<1>6. domainIndex' = Reindex(dn)
  BY DEF RemoveDomain
<1> HIDE DEF n
<1>7. Reindex(dn) = IF domainIndex[dn] = n
                    THEN [domainIndex EXCEPT ![dn] = 0]
                    ELSE [domainIndex EXCEPT ![domainNames[n]] = domainIndex[dn], ![dn] = 0]
  BY DEF Reindex, n
<1>8. CASE domainIndex[dn] = n
  BY <1>1, <1>4, <1>5, <1>6, <1>7, <1>8 DEF n
<1>9. CASE domainIndex[dn] # n
  BY <1>1, <1>3, <1>4, <1>6, <1>7, <1>9 DEF n
<1> QED
  BY <1>8, <1>9

LEMMA InitIInv == Init => IInv
<1> SUFFICES ASSUME Init PROVE IInv
  OBVIOUS
<1>1. domainNames \in Seq(Domain) /\ blocks \in Seq(Event) /\ Len(domainNames) = 0
  BY EmptySeq DEF Init
<1> QED
  BY <1>1 DEF Init, IInv, TypeOK, IndexInvertsArray, NamesAreRegistered

LEMMA RegisterIInv ==
  ASSUME IInv, NEW dn \in Domain, NEW raw \in Metadata, RegisterDomain(dn, raw)
  PROVE  IInv'
<1> DEFINE n == Len(domainNames)
<1>1. n \in Nat /\ \A i \in 1..n : domainNames[i] \in Domain
  BY LenProperties, ElementOfSeq DEF IInv, TypeOK
<1>2. /\ domainIndex' \in [Domain -> Nat]
      /\ \A d \in Domain : domainIndex'[d] = IF d = dn THEN n + 1 ELSE domainIndex[d]
  BY <1>1 DEF IInv, TypeOK, RegisterDomain
<1>3. /\ domainExists' \in [Domain -> BOOLEAN]
      /\ \A d \in Domain : domainExists'[d] <=> d = dn \/ domainExists[d]
  BY DEF IInv, TypeOK, RegisterDomain
<1>4. /\ metadata' \in [Domain -> Metadata \cup {Unset}]
      /\ \A d \in Domain : metadata'[d] = IF d = dn THEN raw ELSE metadata[d]
  BY DEF IInv, TypeOK, RegisterDomain
<1>5. TypeOK'
  <2>1. blocks' \in Seq(Event)
    BY EmitTyped DEF IInv, RegisterDomain, EventName
  <2> QED
    BY <1>2, <1>3, <1>4, <2>1, RegisterArray DEF TypeOK
<1>6. n' = n + 1 /\ domainNames'[n + 1] = dn /\ \A i \in 1..n : domainNames'[i] = domainNames[i]
  BY RegisterArray
<1>7. ~domainExists[dn]
  BY DEF RegisterDomain
<1>8. \A d \in Domain :
        IF domainExists[d] THEN domainIndex[d] \in 1..n /\ domainNames[domainIndex[d]] = d
                           ELSE domainIndex[d] = 0
  BY DEF IInv, IndexInvertsArray
<1>9. \A i \in 1..n : domainExists[domainNames[i]] /\ domainIndex[domainNames[i]] = i
  BY DEF IInv, NamesAreRegistered
<1>10. IndexInvertsArray'
  <2> SUFFICES ASSUME NEW d \in Domain
               PROVE  IF domainExists'[d]
                      THEN domainIndex'[d] \in 1..n' /\ domainNames'[domainIndex'[d]] = d
                      ELSE domainIndex'[d] = 0
    BY DEF IndexInvertsArray
  <2> HIDE DEF n
  <2>1. CASE d = dn
    BY <1>1, <1>2, <1>3, <1>6, <2>1
  <2>2. CASE d # dn /\ domainExists[d]
    BY <1>1, <1>2, <1>3, <1>6, <1>8, <2>2
  <2>3. CASE d # dn /\ ~domainExists[d]
    BY <1>2, <1>3, <1>8, <2>3
  <2> QED
    BY <2>1, <2>2, <2>3
<1>11. NamesAreRegistered'
  <2>1. ASSUME NEW i \in 1..n'
        PROVE  domainExists'[domainNames'[i]] /\ domainIndex'[domainNames'[i]] = i
    <3> HIDE DEF n
    <3>1. CASE i = n + 1
      BY <1>2, <1>3, <1>6, <3>1
    <3>2. CASE i \in 1..n
      <4>1. domainNames'[i] = domainNames[i] /\ domainNames[i] \in Domain
        BY <1>1, <1>6, <3>2
      <4>2. domainExists[domainNames[i]] /\ domainIndex[domainNames[i]] = i
        BY <1>9, <3>2
      <4> QED
        BY <1>2, <1>3, <1>7, <4>1, <4>2
    <3> QED
      BY <1>1, <1>6, <2>1, <3>1, <3>2
  <2>2. \A d \in Domain : domainExists'[d] <=> metadata'[d] # Unset
    BY <1>3, <1>4, UnsetAssumption DEF IInv, NamesAreRegistered
  <2> QED
    BY <2>1, <2>2 DEF NamesAreRegistered
<1> QED
  BY <1>5, <1>10, <1>11 DEF IInv

LEMMA RemoveIInv ==
  ASSUME IInv, NEW dn \in Domain, RemoveDomain(dn)
  PROVE  IInv'
<1> DEFINE n     == Len(domainNames)
           freed == domainIndex[dn]
           last  == domainNames[n]
<1>1. n \in Nat /\ \A i \in 1..n : domainNames[i] \in Domain
  BY LenProperties, ElementOfSeq DEF IInv, TypeOK
<1>2. /\ domainIndex' \in [Domain -> Nat]
      /\ \A d \in Domain : domainIndex'[d] = IF d = dn THEN 0
                                                 ELSE IF d = last THEN freed ELSE domainIndex[d]
  BY RemoveIndex
<1>3. /\ domainExists' \in [Domain -> BOOLEAN]
      /\ \A d \in Domain : domainExists'[d] <=> d # dn /\ domainExists[d]
  BY DEF IInv, TypeOK, RemoveDomain
<1>4. /\ metadata' \in [Domain -> Metadata \cup {Unset}]
      /\ \A d \in Domain : metadata'[d] = IF d = dn THEN Unset ELSE metadata[d]
  BY DEF IInv, TypeOK, RemoveDomain
<1>5. TypeOK'
  <2>1. blocks' \in Seq(Event)
    BY EmitTyped DEF IInv, RemoveDomain, EventName
  <2> QED
    BY <1>2, <1>3, <1>4, <2>1, RemoveArray DEF TypeOK
<1>6. n' = n - 1 /\ \A i \in 1..(n - 1) : domainNames'[i] = IF i = freed THEN last ELSE domainNames[i]
  BY RemoveArray
<1>7. \A d \in Domain :
        IF domainExists[d] THEN domainIndex[d] \in 1..n /\ domainNames[domainIndex[d]] = d
                           ELSE domainIndex[d] = 0
  BY DEF IInv, IndexInvertsArray
<1>8. \A i \in 1..n : domainExists[domainNames[i]] /\ domainIndex[domainNames[i]] = i
  BY DEF IInv, NamesAreRegistered
<1>9. domainExists[dn] /\ freed \in 1..n /\ domainNames[freed] = dn
  BY <1>7 DEF RemoveDomain
<1>10. last \in Domain /\ domainExists[last] /\ domainIndex[last] = n
  BY <1>1, <1>8, <1>9
<1> HIDE DEF n, freed, last
<1>11. IndexInvertsArray'
  <2> SUFFICES ASSUME NEW d \in Domain
               PROVE  IF domainExists'[d]
                      THEN domainIndex'[d] \in 1..n' /\ domainNames'[domainIndex'[d]] = d
                      ELSE domainIndex'[d] = 0
    BY DEF IndexInvertsArray, n
  <2>1. CASE d = dn
    BY <1>2, <1>3, <2>1
  <2>2. CASE d # dn /\ ~domainExists[d]
    BY <1>2, <1>3, <1>7, <1>10, <2>2
  <2>3. CASE d # dn /\ d = last
    <3>1. freed # n
      BY <1>9, <2>3 DEF last
    <3>2. freed \in 1..(n - 1)
      BY <1>1, <1>9, <3>1
    <3> QED
      BY <1>2, <1>3, <1>6, <1>10, <2>3, <3>2
  <2>4. CASE d # dn /\ d # last /\ domainExists[d]
    <3>1. domainIndex[d] \in 1..n /\ domainNames[domainIndex[d]] = d
      BY <1>7, <2>4
    <3>2. domainIndex[d] # n /\ domainIndex[d] # freed
      BY <1>9, <2>4, <3>1 DEF last
    <3>3. domainIndex[d] \in 1..(n - 1)
      BY <1>1, <3>1, <3>2
    <3> QED
      BY <1>2, <1>3, <1>6, <2>4, <3>1, <3>2, <3>3
  <2> QED
    BY <2>1, <2>2, <2>3, <2>4
<1>12. NamesAreRegistered'
  <2>1. ASSUME NEW i \in 1..n'
        PROVE  domainExists'[domainNames'[i]] /\ domainIndex'[domainNames'[i]] = i
    <3>1. i \in 1..(n - 1) /\ i \in 1..n /\ i # n
      BY <1>1, <1>6
    <3>2. CASE i = freed
      <4>1. domainNames'[i] = last
        BY <1>6, <3>1, <3>2
      <4>2. last # dn
        BY <1>10, <3>1, <3>2 DEF freed
      <4> QED
        BY <1>2, <1>3, <1>10, <3>2, <4>1, <4>2
    <3>3. CASE i # freed
      <4>1. domainNames'[i] = domainNames[i] /\ domainNames[i] \in Domain
        BY <1>1, <1>6, <3>1, <3>3
      <4>2. domainExists[domainNames[i]] /\ domainIndex[domainNames[i]] = i
        BY <1>8, <3>1
      <4>3. domainNames[i] # dn /\ domainNames[i] # last
        BY <1>10, <3>1, <3>3, <4>2 DEF freed
      <4> QED
        BY <1>2, <1>3, <4>1, <4>2, <4>3
    <3> QED
      BY <3>2, <3>3
  <2>2. \A d \in Domain : domainExists'[d] <=> metadata'[d] # Unset
    BY <1>3, <1>4 DEF IInv, NamesAreRegistered
  <2> QED
    BY <2>1, <2>2 DEF NamesAreRegistered, n
<1> QED
  BY <1>5, <1>11, <1>12 DEF IInv

LEMMA NextIInv == IInv /\ [Next]_vars => IInv'
<1> SUFFICES ASSUME IInv, [Next]_vars PROVE IInv'
  OBVIOUS
<1>1. ASSUME NEW dn \in Domain, NEW raw \in Metadata, RegisterDomain(dn, raw)
      PROVE  IInv'
  BY <1>1, RegisterIInv
<1>2. ASSUME NEW dn \in Domain, RemoveDomain(dn)
      PROVE  IInv'
  BY <1>2, RemoveIInv
<1>3. ASSUME NEW dn \in Domain, NotifyKeyRotated(dn)
      PROVE  IInv'
  <2>1. blocks' \in Seq(Event)
    BY <1>3, EmitTyped DEF IInv, NotifyKeyRotated, EventName
  <2> QED
    BY <1>3, <2>1 DEF IInv, TypeOK, IndexInvertsArray, NamesAreRegistered, NotifyKeyRotated
<1>4. CASE UNCHANGED vars
  BY <1>4 DEF vars, IInv, TypeOK, IndexInvertsArray, NamesAreRegistered
<1> QED
  BY <1>1, <1>2, <1>3, <1>4 DEF Next

LEMMA Invariance == Spec => []IInv
<1> QED
  BY InitIInv, NextIInv, PTL DEF Spec

\* The state of the contract always has its type.
THEOREM TypeCorrectness == Spec => []TypeOK
<1>1. IInv => TypeOK
  BY DEF IInv
<1> QED
  BY <1>1, Invariance, PTL

\* Whatever is registered and removed, and in whatever order, the index of
\* every registered domain is the slot of its name: the O(1) removal always
\* frees the slot of the domain it was asked to remove.
THEOREM IndexAgreement == Spec => []IndexInvertsArray
<1>1. IInv => IndexInvertsArray
  BY DEF IInv
<1> QED
  BY <1>1, Invariance, PTL

\* The pages of getAllDomains never list a removed, repeated or blank domain.
THEOREM NamesAgreement == Spec => []NamesAreRegistered
<1>1. IInv => NamesAreRegistered
  BY DEF IInv
<1> QED
  BY <1>1, Invariance, PTL

-----------------------------------------------------------------------------
(* Refinement                                                              *)

\* The names in the array are the domains whose flag is set.
LEMMA ListsRegistered == IInv => Range(domainNames) = {dn \in Domain : domainExists[dn]}
<1> SUFFICES ASSUME IInv PROVE Range(domainNames) = {dn \in Domain : domainExists[dn]}
  OBVIOUS
<1>1. /\ DOMAIN domainNames = 1..Len(domainNames)
      /\ \A i \in 1..Len(domainNames) : domainNames[i] \in Domain
  BY LenProperties, ElementOfSeq DEF IInv, TypeOK
<1>2. \A i \in 1..Len(domainNames) : domainExists[domainNames[i]]
  BY DEF IInv, NamesAreRegistered
<1>3. \A dn \in Domain : domainExists[dn] =>
        domainIndex[dn] \in 1..Len(domainNames) /\ domainNames[domainIndex[dn]] = dn
  BY DEF IInv, IndexInvertsArray
<1> QED
  BY <1>1, <1>2, <1>3 DEF Range

\* The same of the state after a step.
LEMMA ListsRegisteredNext ==
  IInv' => (Range(domainNames) = {dn \in Domain : domainExists[dn]})'
<1> QED
  BY ListsRegistered, PTL

LEMMA InitRefines == Init => Directory!Init
<1> SUFFICES ASSUME Init PROVE Directory!Init
  OBVIOUS
<1>1. Range(domainNames) = {}
  BY DEF Init, Range
<1>2. Published = [dn \in {} |-> dn]
  BY <1>1 DEF Published
<1> QED
  BY <1>2 DEF Init, Directory!Init

LEMMA StepRefines == IInv /\ IInv' /\ [Next]_vars => [Directory!Next]_(Directory!vars)
<1> SUFFICES ASSUME IInv, IInv', [Next]_vars
             PROVE  [Directory!Next]_(Directory!vars)
  OBVIOUS
<1> DEFINE members == {d \in Domain : domainExists[d]}
<1>1. Range(domainNames) = members /\ DOMAIN Published = members
  BY ListsRegistered DEF Published
<1>2. Published' = [d \in members' |-> metadata'[d]]
  <2>1. Range(domainNames)' = members'
    BY ListsRegisteredNext
  <2> QED
    BY <2>1 DEF Published
<1>3. ASSUME NEW dn \in Domain, NEW raw \in Metadata, RegisterDomain(dn, raw)
      PROVE  Directory!Add(dn, raw)
  <2>1. dn \notin members /\ members' = members \cup {dn}
    BY <1>3 DEF IInv, TypeOK, RegisterDomain
  <2>2. \A d \in Domain : metadata'[d] = IF d = dn THEN raw ELSE metadata[d]
    BY <1>3 DEF IInv, TypeOK, RegisterDomain
  <2>3. Published' = [d \in members \cup {dn} |-> IF d = dn THEN raw ELSE Published[d]]
    BY <1>1, <1>2, <2>1, <2>2 DEF Published
  <2> QED
    BY <1>1, <1>3, <2>1, <2>3
       DEF Directory!Add, Directory!Registered, Directory!Announce, RegisterDomain, Emit
<1>4. ASSUME NEW dn \in Domain, RemoveDomain(dn)
      PROVE  Directory!Leave(dn)
  <2>1. dn \in members /\ members' = members \ {dn}
    BY <1>4 DEF IInv, TypeOK, RemoveDomain
  <2>2. \A d \in Domain : d # dn => metadata'[d] = metadata[d]
    BY <1>4 DEF IInv, TypeOK, RemoveDomain
  <2>3. Published' = Restrict(Published, members \ {dn})
    BY <1>1, <1>2, <2>1, <2>2 DEF Published, Restrict
  <2> QED
    BY <1>1, <1>4, <2>1, <2>3
       DEF Directory!Leave, Directory!Registered, Directory!Announce, Directory!Restrict,
           Restrict, RemoveDomain, Emit
<1>5. ASSUME NEW dn \in Domain, NotifyKeyRotated(dn)
      PROVE  Directory!Rotate(dn)
  <2>1. dn \in members
    BY <1>5 DEF NotifyKeyRotated
  <2>2. Published' = Published
    BY <1>5 DEF NotifyKeyRotated, Published
  <2> QED
    BY <1>1, <1>5, <2>1, <2>2
       DEF Directory!Rotate, Directory!Registered, Directory!Announce, NotifyKeyRotated, Emit
<1>6. CASE UNCHANGED vars
  BY <1>6 DEF vars, Directory!vars, Published
<1> QED
  BY <1>3, <1>4, <1>5, <1>6 DEF Next, Directory!Next

\* The contract implements the abstract metadata repository.
THEOREM Refinement == Spec => ImplementsDirectory
<1> QED
  BY InitRefines, StepRefines, Invariance, PTL
     DEF Spec, ImplementsDirectory, Directory!Spec

-----------------------------------------------------------------------------
\* Every step of the federation is a transaction, or leaves the contract alone.
LEMMA StepOfContract == [LedgerNext]_ledgerVars => [Next]_vars
<1> SUFFICES ASSUME LedgerNext \/ UNCHANGED ledgerVars PROVE [Next]_vars
  OBVIOUS
<1>1. CASE CreateEventFilters \/ ListMetadata \/ BeginWindow \/ NextLogs
  BY <1>1 DEF CreateEventFilters, ListMetadata, BeginWindow, NextLogs
<1>2. CASE Yield \/ ListenerStep \/ PollFails \/ Traffic
  BY <1>2 DEF Yield, ListenerStep, PollFails, Traffic
<1>3. ASSUME NEW d \in Domain, NEW raw \in Metadata, ScriptRegisters(d, raw)
      PROVE  Next
  BY <1>3 DEF ScriptRegisters, Next
<1>4. ASSUME NEW d \in Domain, ScriptDeletes(d) PROVE Next
  BY <1>4 DEF ScriptDeletes, Next
<1>5. ASSUME NEW d \in Domain, ScriptNotifies(d) PROVE Next
  BY <1>5 DEF ScriptNotifies, Next
<1>6. CASE \E d \in Rotating : ScriptRotates(d)
  BY <1>6 DEF ScriptRotates
<1>7. CASE UNCHANGED ledgerVars
  BY <1>7 DEF ledgerVars
<1> QED
  BY <1>1, <1>2, <1>3, <1>4, <1>5, <1>6, <1>7 DEF LedgerNext, ListenerGoesOn

\* The contract in the federation behaves as the contract on its own.
THEOREM ContractRefinement == LedgerSpec => Spec
<1>1. LedgerInit => Init
  BY DEF LedgerInit
<1> QED
  BY <1>1, StepOfContract, PTL DEF LedgerSpec, Spec

\* In the federation, domainIndex names the slot of every registered domain,
\* so that removeDomain frees the right one while listeners page through.
THEOREM LedgerIndex == LedgerSpec => []IndexInvertsArray
  BY ContractRefinement, IndexAgreement, PTL

\* In the federation, the pages that list_metadata reads never hold a
\* removed, repeated or blank domain.
THEOREM LedgerNames == LedgerSpec => []NamesAreRegistered
  BY ContractRefinement, NamesAgreement, PTL

\* The federation's contract keeps the promise of a metadata repository.
THEOREM LedgerDirectory == LedgerSpec => ImplementsDirectory
  BY ContractRefinement, Refinement, PTL
-----------------------------------------------------------------------------
(* The way of a log                                                        *)

\* The order in which a window's logs are yielded.
Turn(type) == CASE type = "domain_added" -> 1 [] type = "domain_removed" -> 2 [] OTHER -> 3

\* Block i holds a log of the type that is still to be yielded if it is there.
Ahead(type, i) ==
  /\ i > lastBlock
  /\ \/ window = NoWindow
     \/ i > window.end
     \/ Turn(type) > Turn(window.type)
     \/ type = window.type /\ i > window.at

Pending(type, d) ==
  \E i \in 1..Len(blocks) :
    blocks[i] = [type |-> LogName[type], domainName |-> d] /\ Ahead(type, i)

\* The window lies in the chain, and is open only while the listener polls.
Placed ==
  /\ lastBlock \in 0..Len(blocks)
  /\ window \in [end: Nat, type: EventType, at: Nat] \cup {NoWindow}
  /\ window # NoWindow =>
       /\ phase = "listening"
       /\ window.end \in (lastBlock + 1)..Len(blocks)
       /\ window.at \in lastBlock..window.end

\* How far list_metadata has come. As long as no removal moves entries under
\* it, it has read as many of them as its offset says.
Walked ==
  /\ walk \in [offset: Nat, out: Seq(Domain)]
  /\ phase \in {"starting", "subscribing"} => walk = NoWalk
  /\ phase \in {"backfill", "listening"} => walk = NoWalk
  /\ ~shuffled => walk.offset <= Len(domainNames) /\ Len(walk.out) = walk.offset

Found(d) == phase = "listing" /\ \E i \in 1..Len(walk.out) : walk.out[i] = d

\* Whom the listing has found, or the listener holds, is registered, or a
\* removal is still to be heard.
HeldIsRegistered(d) ==
  (Found(d) \/ (phase \in {"backfill", "listening"} /\ Held(d)))
    => domainExists[d] \/ Pending("domain_removed", d)

\* A registered domain will be read, or is held, or its addition is to come.
RegisteredIsHeld(d) ==
  domainExists[d] =>
    /\ phase = "listing" => Found(d) \/ domainIndex[d] > walk.offset
    /\ phase \in {"backfill", "listening"} => Held(d) \/ Pending("domain_added", d)

\* An outdated copy of d's keys will be fetched again.
RotationPending(d) == Outdated(d) => Pending("key_rotated", d)

LedgerPeerInv(d) ==
  d \notin harmed =>
    /\ HeldIsRegistered(d)
    /\ ~shuffled /\ d \notin Left => RegisteredIsHeld(d)
    /\ d \notin Left => Open(d)
    /\ d \notin unannounced => RotationPending(d)

LedgerInv ==
  /\ IInv /\ ListenerInv /\ Early
  /\ Placed /\ Walked
  /\ unannounced \subseteq Rotating
  /\ \A d \in Peer : LedgerPeerInv(d)

-----------------------------------------------------------------------------
(* What becomes of a log that is still to be yielded                       *)

USE RotatingAssumption, LimitAssumption

\* A step that mines nothing and does not poll.
LEMMA PendingKept ==
  ASSUME UNCHANGED <<blocks, lastBlock, window>>, NEW type, NEW d, Pending(type, d)
  PROVE  Pending(type, d)'
  BY DEF Pending, Ahead

\* A new block takes no log away, and its own log is yet to be yielded.
LEMMA PendingGrows ==
  ASSUME IInv, Placed, UNCHANGED <<lastBlock, window>>, NEW e \in Event,
         blocks' = Append(blocks, e), NEW type \in EventType, NEW d \in Domain
  PROVE  /\ Pending(type, d) => Pending(type, d)'
         /\ e = [type |-> LogName[type], domainName |-> d] => Pending(type, d)'
<1>1. blocks \in Seq(Event)
  BY DEF IInv, TypeOK
<1>2. /\ Len(blocks) \in Nat /\ Len(blocks') = Len(blocks) + 1
      /\ \A i \in 1..Len(blocks) : blocks'[i] = blocks[i]
      /\ blocks'[Len(blocks) + 1] = e
  BY <1>1
<1>3. lastBlock \in 0..Len(blocks) /\ (window # NoWindow => window.end \in 0..Len(blocks))
  BY <1>2 DEF Placed
<1>4. Ahead(type, Len(blocks) + 1)
  BY <1>2, <1>3 DEF Ahead
<1>5. ASSUME NEW i, Ahead(type, i) PROVE Ahead(type, i)'
  BY <1>5 DEF Ahead
<1>6. Len(blocks) + 1 \in 1..Len(blocks')
  BY <1>2
<1>7. ASSUME Pending(type, d) PROVE Pending(type, d)'
  BY <1>2, <1>5, <1>7 DEF Pending
<1>8. ASSUME e = [type |-> LogName[type], domainName |-> d] PROVE Pending(type, d)'
  BY <1>2, <1>4, <1>5, <1>6, <1>8 DEF Pending
<1> QED
  BY <1>7, <1>8

\* Opening a window, asking for the next type when the logs of one are
\* yielded, and giving a window up: none of them skips a log.
LEMMA PollingSkipsNothing ==
  ASSUME IInv, Placed, BeginWindow \/ NextLogs \/ PollFails,
         NEW type \in EventType, NEW d \in Domain, Pending(type, d)
  PROVE  Pending(type, d)'
<1>1. PICK i \in 1..Len(blocks) :
        blocks[i] = [type |-> LogName[type], domainName |-> d] /\ Ahead(type, i)
  BY DEF Pending
<1>2. blocks' = blocks /\ lastBlock \in Nat /\ i \in Nat /\ i > lastBlock
  BY <1>1 DEF BeginWindow, NextLogs, PollFails, vars, Placed, Ahead
<1>3. Turn(type) \in 1..3 /\ (Turn(type) = 1 <=> type = "domain_added")
      /\ (Turn(type) = 2 <=> type = "domain_removed")
      /\ (Turn(type) = 3 <=> type = "key_rotated")
  BY DEF Turn, EventType
<1>4. CASE BeginWindow
  <2>1. lastBlock' = lastBlock /\ window'.type = "domain_added" /\ window'.at = lastBlock
    BY <1>4 DEF BeginWindow, Opened
  <2>2. Turn("domain_added") = 1
    BY DEF Turn
  <2>3. Ahead(type, i)'
    BY <1>2, <1>3, <2>1, <2>2 DEF Ahead
  <2> QED BY <1>1, <1>2, <2>3 DEF Pending
<1>5. CASE PollFails
  <2>1. Ahead(type, i)'
    BY <1>2, <1>5 DEF PollFails, Ahead
  <2> QED BY <1>1, <1>2, <2>1 DEF Pending
<1>6. CASE NextLogs
  <2>1. /\ window # NoWindow /\ window.type \in EventType /\ window.end \in Nat /\ Rest = {}
        /\ window.end > lastBlock
    BY <1>6, <1>2 DEF NextLogs, Placed
  <2>2. i > window.end \/ Turn(type) > Turn(window.type)
    <3> SUFFICES ASSUME i <= window.end, type = window.type, i > window.at PROVE FALSE
      BY <1>1, <1>2, <2>1 DEF Ahead
    <3>1. i \in Rest
      BY <1>1, <1>2, <2>1 DEF Rest, Logs
    <3> QED BY <2>1, <3>1
  <2>3. CASE window.type = "key_rotated"
    <3>1. window' = NoWindow /\ lastBlock' = window.end
      BY <1>6, <2>3 DEF NextLogs
    <3>2. Turn(window.type) = 3
      BY <2>3 DEF Turn
    <3>3. Ahead(type, i)'
      BY <1>2, <1>3, <2>2, <3>1, <3>2 DEF Ahead
    <3> QED BY <1>1, <1>2, <3>3 DEF Pending
  <2>4. CASE window.type \in {"domain_added", "domain_removed"}
    <3>1. /\ lastBlock' = lastBlock /\ window'.end = window.end /\ window'.at = lastBlock
          /\ window.type = "domain_added" => window'.type = "domain_removed"
          /\ window.type = "domain_removed" => window'.type = "key_rotated"
      BY <1>6, <2>4 DEF NextLogs, Opened
    <3>2. /\ Turn("domain_added") = 1 /\ Turn("domain_removed") = 2 /\ Turn("key_rotated") = 3
      BY DEF Turn
    <3>3. Ahead(type, i)'
      BY <1>2, <1>3, <2>2, <2>4, <3>1, <3>2 DEF Ahead
    <3> QED BY <1>1, <1>2, <3>3 DEF Pending
  <2> QED BY <2>1, <2>3, <2>4 DEF EventType
<1> QED
  BY <1>4, <1>5, <1>6

\* Yielding a log takes that log alone.
LEMMA YieldTakesOne ==
  ASSUME IInv, Placed, window # NoWindow, NEW i \in Rest, \A j \in Rest : i <= j,
         window' = [window EXCEPT !.at = i], UNCHANGED <<blocks, lastBlock>>
  PROVE  /\ i \in 1..Len(blocks) /\ i \in (lastBlock + 1)..window.end
         /\ blocks[i] = [type |-> LogName[window.type], domainName |-> blocks[i].domainName]
         /\ blocks[i].domainName \in Domain
         /\ \A type \in EventType, d \in Domain :
              Pending(type, d) =>
                Pending(type, d)' \/ (type = window.type /\ d = blocks[i].domainName)
<1>1. /\ i \in 1..Len(blocks) /\ i \in (lastBlock + 1)..window.end
      /\ blocks[i].type = LogName[window.type] /\ lastBlock \in Nat
  BY DEF Rest, Logs, Placed
<1>2. blocks[i] \in Event
  BY <1>1 DEF IInv, TypeOK
<1>3. blocks[i] = [type |-> LogName[window.type], domainName |-> blocks[i].domainName]
      /\ blocks[i].domainName \in Domain
  BY <1>1, <1>2 DEF Event
<1>4. /\ window'.at = i /\ window'.end = window.end /\ window'.type = window.type
      /\ window' # NoWindow
  BY <1>1 DEF Placed, NoWindow
<1>5. ASSUME NEW type \in EventType, NEW d \in Domain, Pending(type, d),
             ~(type = window.type /\ d = blocks[i].domainName)
      PROVE  Pending(type, d)'
  <2>1. PICK k \in 1..Len(blocks) :
          blocks[k] = [type |-> LogName[type], domainName |-> d] /\ Ahead(type, k)
    BY <1>5 DEF Pending
  <2>2. ASSUME type = window.type, k > window.at, k <= window.end PROVE k > i
    <3>1. k \in Rest
      BY <2>1, <2>2, <1>1 DEF Rest, Logs, Ahead
    <3>2. k # i
      BY <1>5, <2>1, <2>2
    <3> QED BY <1>1, <3>1, <3>2
  <2>3. window.end \in Nat
    BY DEF Placed
  <2>4. Ahead(type, k)'
    BY <1>4, <2>1, <2>2, <2>3 DEF Ahead
  <2> QED
    BY <2>1, <2>4 DEF Pending
<1> QED
  BY <1>1, <1>3, <1>5

-----------------------------------------------------------------------------
(* The listener's steps                                                    *)

\* A page of an array: its entries after the first "from" up to "upto".
IsPage(page, names, from, upto) ==
  /\ page \in Seq(Domain)
  /\ Len(page) = IF from < upto THEN upto - from ELSE 0
  /\ \A i \in 1..(upto - from) : page[i] = names[from + i]

LEMMA PageOf ==
  ASSUME NEW names \in Seq(Domain), NEW from \in Nat, NEW upto \in 0..Len(names)
  PROVE  IsPage(SubSeq(names, from + 1, upto), names, from, upto)
<1> DEFINE page == SubSeq(names, from + 1, upto)
<1>1. \A i \in (from + 1)..upto : names[i] \in Domain
  OBVIOUS
<1>2. from + 1 \in Int /\ upto \in Int
  OBVIOUS
<1>3. /\ page \in Seq(Domain)
      /\ Len(page) = IF from + 1 <= upto THEN upto - (from + 1) + 1 ELSE 0
      /\ \A i \in 1..(upto - (from + 1) + 1) : page[i] = names[from + 1 + i - 1]
  BY <1>1, <1>2, SubSeqProperties
<1> HIDE DEF page
<1>4. Len(page) = IF from < upto THEN upto - from ELSE 0
  BY <1>2, <1>3
<1>5. \A i \in 1..(upto - from) : page[i] = names[from + i]
  <2> SUFFICES ASSUME NEW i \in 1..(upto - from) PROVE page[i] = names[from + i]
    OBVIOUS
  <2>1. i \in 1..(upto - (from + 1) + 1) /\ from + 1 + i - 1 = from + i
    BY <1>2
  <2> QED BY <1>3, <2>1
<1> QED
  BY <1>3, <1>4, <1>5 DEF page, IsPage

\* Whom a listing names after another page.
Extends(listing, before, names, from, upto) ==
  \A d : (\E i \in 1..Len(listing) : listing[i] = d) <=>
    \/ \E i \in 1..Len(before) : before[i] = d
    \/ \E k \in 1..Len(names) : k > from /\ k <= upto /\ names[k] = d

\* What one page adds to what was listed before.
LEMMA PageRead ==
  ASSUME NEW names \in Seq(Domain), NEW before \in Seq(Domain), NEW from \in Nat,
         NEW upto \in 0..Len(names), NEW page, IsPage(page, names, from, upto)
  PROVE  /\ before \o page \in Seq(Domain) /\ Len(before \o page) = Len(before) + Len(page)
         /\ Extends(before \o page, before, names, from, upto)
<1> USE DEF IsPage
<1> DEFINE listing == before \o page
<1>1. /\ listing \in Seq(Domain) /\ Len(listing) = Len(before) + Len(page)
      /\ \A i \in 1..Len(listing) :
           listing[i] = IF i <= Len(before) THEN before[i] ELSE page[i - Len(before)]
  BY ZenonT(30), ConcatProperties
<1>2. Len(before) \in Nat /\ Len(page) \in Nat /\ Len(names) \in Nat
  OBVIOUS
<1> HIDE DEF listing
<1>3. ASSUME NEW i \in 1..Len(before) PROVE i \in 1..Len(listing) /\ listing[i] = before[i]
  BY SMTT(20), <1>1, <1>2
<1>4. ASSUME NEW k \in 1..Len(names), k > from, k <= upto
      PROVE  \E i \in 1..Len(listing) : listing[i] = names[k]
  <2> DEFINE m == k - from
  <2>1. m \in 1..(upto - from) /\ m \in 1..Len(page) /\ from + m = k
    BY <1>2, <1>4
  <2>2. page[m] = names[k]
    BY <2>1
  <2> HIDE DEF m
  <2>3. Len(before) + m \in 1..Len(listing) /\ listing[Len(before) + m] = page[m]
    BY SMTT(20), <1>1, <1>2, <2>1
  <2> QED BY <2>2, <2>3
<1>5. ASSUME NEW i \in 1..Len(listing)
      PROVE  \/ \E j \in 1..Len(before) : before[j] = listing[i]
             \/ \E k \in 1..Len(names) : k > from /\ k <= upto /\ names[k] = listing[i]
  <2>1. CASE i <= Len(before)
    BY <1>1, <1>2, <2>1
  <2>2. CASE i > Len(before)
    <3> DEFINE m == i - Len(before)
    <3>1. m \in 1..Len(page) /\ listing[i] = page[m]
      BY <1>1, <1>2, <2>2
    <3> HIDE DEF m
    <3>2. m \in 1..(upto - from)
      BY <1>2, <3>1
    <3>3. page[m] = names[from + m]
      BY <3>2
    <3>4. from + m \in 1..Len(names) /\ from + m > from /\ from + m <= upto
      BY <1>2, <3>2
    <3> QED BY <3>1, <3>3, <3>4
  <2> QED BY <1>2, <2>1, <2>2
<1> QED
  BY ZenonT(30), <1>1, <1>3, <1>4, <1>5 DEF listing, Extends

\* list_metadata reads names of domains, page after page, and stops no sooner
\* than it has read, or been moved past, the last one.
LEMMA ListingStep ==
  ASSUME IInv, Walked, ListMetadata
  PROVE  \E listing \in Seq(Domain) :
           /\ Extends(listing, walk.out, domainNames, walk.offset, walk.offset + PageLimit)
           /\ \/ /\ Listed(listing) /\ walk' = NoWalk
                 /\ ~shuffled => walk.offset + PageLimit >= Len(domainNames)
              \/ /\ walk' = [offset |-> walk.offset + PageLimit, out |-> listing]
                 /\ UNCHANGED listenerVars
                 /\ ~shuffled => /\ Len(listing) = walk.offset + PageLimit
                                 /\ walk.offset + PageLimit <= Len(domainNames)
<1> DEFINE last == walk.offset + PageLimit
           upto == IF last > Len(domainNames) THEN Len(domainNames) ELSE last
           page == SubSeq(domainNames, walk.offset + 1, upto)
           listing == walk.out \o page
<1>1. /\ domainNames \in Seq(Domain) /\ Len(domainNames) \in Nat
      /\ walk.offset \in Nat /\ walk.out \in Seq(Domain) /\ last \in Nat /\ last > walk.offset
      /\ Len(walk.out) \in Nat
  BY DEF IInv, TypeOK, Walked
<1>2. upto \in 0..Len(domainNames) /\ (upto = last \/ (upto = Len(domainNames) /\ last > upto))
  BY <1>1
<1>3. IF Len(listing) >= Len(domainNames) \/ page = << >>
      THEN Listed(listing) /\ walk' = NoWalk
      ELSE walk' = [offset |-> last, out |-> listing] /\ UNCHANGED listenerVars
  BY DEF ListMetadata
<1> HIDE DEF last, upto
<1>4. IsPage(page, domainNames, walk.offset, upto)
  BY <1>1, <1>2, PageOf
<1> HIDE DEF page
<1>5. /\ listing \in Seq(Domain) /\ Len(listing) = Len(walk.out) + Len(page)
      /\ Extends(listing, walk.out, domainNames, walk.offset, upto)
  BY <1>1, <1>2, <1>4, PageRead
<1> HIDE DEF listing
<1>6. Extends(listing, walk.out, domainNames, walk.offset, last)
  <2>1. \A k \in 1..Len(domainNames) : k <= upto <=> k <= last
    BY <1>1, <1>2
  <2> QED BY <1>5, <2>1 DEF Extends
<1>7. ASSUME ~shuffled PROVE walk.offset <= Len(domainNames) /\ Len(walk.out) = walk.offset
  BY <1>7 DEF Walked
<1>8. /\ Len(page) = IF walk.offset < upto THEN upto - walk.offset ELSE 0
      /\ page = << >> <=> Len(page) = 0
  BY <1>4 DEF IsPage
<1>9. ASSUME ~shuffled, Len(listing) >= Len(domainNames) \/ page = << >>
      PROVE  last >= Len(domainNames)
  BY <1>1, <1>2, <1>4, <1>5, <1>7, <1>8, <1>9
<1>10. ASSUME ~shuffled, ~(Len(listing) >= Len(domainNames) \/ page = << >>)
       PROVE  Len(listing) = last /\ last <= Len(domainNames)
  BY <1>1, <1>2, <1>4, <1>5, <1>7, <1>8, <1>10
<1> QED
  BY <1>3, <1>5, <1>6, <1>9, <1>10 DEF last

\* Every step of the federation is a step of its listener under some
\* transport, or leaves it alone.
LEMMA StepOfListener ==
  IInv /\ Placed /\ Walked /\ [LedgerNext]_ledgerVars => [ListenerNext]_listenerVars
<1> SUFFICES ASSUME IInv, Placed, Walked, LedgerNext \/ UNCHANGED ledgerVars
             PROVE  [ListenerNext]_listenerVars
  OBVIOUS
<1> USE DEF ListenerNext
<1>1. CASE CreateEventFilters \/ BeginWindow \/ NextLogs \/ PollFails
  BY <1>1 DEF CreateEventFilters, BeginWindow, NextLogs, PollFails
<1>2. CASE ListMetadata
  BY <1>2, ListingStep DEF Listed
<1>3. CASE Yield
  <2>1. PICK i \in Rest :
          /\ \A j \in Rest : i <= j
          /\ window' = [window EXCEPT !.at = i]
          /\ IF window.type = "domain_added"
             THEN \/ domainExists[blocks[i].domainName]
                       /\ Dispatch("domain_added", blocks[i].domainName)
                  \/ ~domainExists[blocks[i].domainName] /\ Loop /\ UNCHANGED listenerVars
                  \/ EventLost(blocks[i].domainName)
             ELSE Dispatch(window.type, blocks[i].domainName)
    BY <1>3 DEF Yield
  <2>2. blocks[i].domainName \in Domain /\ window.type \in EventType
    BY <1>3, <2>1, YieldTakesOne DEF Yield, vars, Placed
  <2> QED
    BY <2>1, <2>2 DEF EventType
<1>4. CASE ListenerStep \/ Traffic
  BY <1>4 DEF ListenerStep, Traffic
<1>5. CASE \E d \in Domain : \/ \E raw \in Metadata : ScriptRegisters(d, raw)
                             \/ ScriptDeletes(d) \/ ScriptNotifies(d)
  BY <1>5 DEF ScriptRegisters, ScriptDeletes, ScriptNotifies
<1>6. CASE \E d \in Rotating : ScriptRotates(d)
  BY <1>6 DEF ScriptRotates
<1>7. CASE UNCHANGED ledgerVars
  BY <1>7 DEF ledgerVars
<1> QED
  BY <1>1, <1>2, <1>3, <1>4, <1>5, <1>6, <1>7 DEF LedgerNext, ListenerGoesOn

-----------------------------------------------------------------------------
(* What each step means for one peer                                       *)

\* A step that is no news about d, mines nothing and loses no log about d.
LEMMA NoNewsKeepsPeer ==
  ASSUME LedgerInv, NEW d \in Peer, NoNews(d) \/ d \in harmed', harmed \subseteq harmed',
         UNCHANGED <<blocks, domainExists, domainIndex, walk, shuffled, unannounced>>,
         phase' \in {"backfill", "listening"} => phase \in {"backfill", "listening"},
         phase' = "listing" => phase = "listing",
         \A type \in EventType : Pending(type, d) => Pending(type, d)'
  PROVE  LedgerPeerInv(d)'
<1> SUFFICES ASSUME d \notin harmed' PROVE LedgerPeerInv(d)'
  BY DEF LedgerPeerInv
<1>1. LedgerPeerInv(d) /\ d \notin harmed /\ NoNews(d)
  BY DEF LedgerInv
<1>2. /\ Pending("domain_added", d) => Pending("domain_added", d)'
      /\ Pending("domain_removed", d) => Pending("domain_removed", d)'
      /\ Pending("key_rotated", d) => Pending("key_rotated", d)'
  BY DEF EventType
<1>3. Left' = Left /\ (Found(d)' => Found(d)) /\ (phase' = "listing" => (Found(d) => Found(d)'))
  BY DEF Left, Found
<1>4. HeldIsRegistered(d)'
  BY <1>1, <1>2, <1>3 DEF LedgerPeerInv, HeldIsRegistered, NoNews
<1>5. ~shuffled /\ d \notin Left => RegisteredIsHeld(d)'
  BY <1>1, <1>2, <1>3 DEF LedgerPeerInv, RegisteredIsHeld, NoNews
<1>6. d \notin unannounced => RotationPending(d)'
  BY <1>1, <1>2 DEF LedgerPeerInv, RotationPending, NoNews
<1> QED
  BY <1>1, <1>3, <1>4, <1>5, <1>6 DEF LedgerPeerInv, NoNews

\* The window opens after what is mined when the listener subscribes: what is
\* older will be listed.
LEMMA SubscribingKeepsPeer ==
  ASSUME LedgerInv, NEW d \in Peer, CreateEventFilters, Early'
  PROVE  LedgerPeerInv(d)'
<1>1. /\ phase = "subscribing" /\ phase' = "listing" /\ walk = NoWalk /\ walk' = NoWalk
      /\ UNCHANGED <<domainExists, domainIndex>>
  BY DEF CreateEventFilters, Subscribed, LedgerInv, Walked, vars
<1>2. d \in Domain
  BY DEF Peer
<1>3. ~Found(d)'
  BY <1>1 DEF Found, NoWalk
<1>4. domainExists[d] => domainIndex[d] > 0
  BY <1>2 DEF LedgerInv, IInv, IndexInvertsArray
<1>5. Open(d)' /\ ~Outdated(d)'
  BY <1>1, <1>2 DEF Early, Open, Outdated, Handling, NoJob
<1> QED
  BY <1>1, <1>3, <1>4, <1>5
  DEF LedgerPeerInv, HeldIsRegistered, RegisteredIsHeld, RotationPending, NoWalk

\* A page of the listing, the last one included.
LEMMA ListingKeepsPeer ==
  ASSUME LedgerInv, NEW d \in Peer, ListMetadata
  PROVE  LedgerPeerInv(d)'
<1>0. /\ d \in Domain \ {Own} /\ phase = "listing" /\ domainIndex[d] \in Nat
      /\ UNCHANGED <<vars, lastBlock, window, shuffled, unannounced, harmed>>
  BY DEF Peer, LedgerInv, IInv, TypeOK, ListMetadata, Listed, listenerVars
<1> SUFFICES ASSUME d \notin harmed PROVE LedgerPeerInv(d)'
  BY <1>0 DEF LedgerPeerInv
<1>1. PICK listing \in Seq(Domain) :
        /\ Extends(listing, walk.out, domainNames, walk.offset, walk.offset + PageLimit)
        /\ \/ /\ Listed(listing) /\ walk' = NoWalk
              /\ ~shuffled => walk.offset + PageLimit >= Len(domainNames)
           \/ /\ walk' = [offset |-> walk.offset + PageLimit, out |-> listing]
              /\ UNCHANGED listenerVars
  BY ListingStep DEF LedgerInv
<1> DEFINE isListed == \E i \in 1..Len(listing) : listing[i] = d
<1>2. LedgerPeerInv(d) /\ (Found(d) <=> \E i \in 1..Len(walk.out) : walk.out[i] = d)
  BY <1>0 DEF LedgerInv, Found
<1>3. isListed => domainExists[d] \/ Pending("domain_removed", d)
  <2>1. ASSUME NEW k \in 1..Len(domainNames), domainNames[k] = d PROVE domainExists[d]
    BY <2>1 DEF LedgerInv, IInv, NamesAreRegistered
  <2> QED
    BY <1>1, <1>2, <2>1 DEF Extends, LedgerPeerInv, HeldIsRegistered
<1>4. domainExists[d] =>
        domainIndex[d] \in 1..Len(domainNames) /\ domainNames[domainIndex[d]] = d
  BY <1>0 DEF LedgerInv, IInv, IndexInvertsArray
<1>5. ASSUME domainExists[d], ~shuffled, d \notin Left, ~isListed
      PROVE  domainIndex[d] > walk.offset + PageLimit
  <2>1. domainIndex[d] > walk.offset
    BY <1>0, <1>1, <1>2, <1>5 DEF Extends, LedgerPeerInv, RegisteredIsHeld
  <2>2. walk.offset + PageLimit \in Nat
    BY DEF LedgerInv, Walked
  <2> QED
    BY <1>0, <1>1, <1>4, <1>5, <2>1, <2>2 DEF Extends
<1>6. /\ Left' = Left /\ domainExists' = domainExists /\ domainIndex' = domainIndex
      /\ UNCHANGED <<shuffled, unannounced>>
      /\ Pending("domain_removed", d) => Pending("domain_removed", d)'
      /\ Pending("key_rotated", d) => Pending("key_rotated", d)'
  BY <1>0, PendingKept DEF Left, vars
<1> HIDE DEF isListed
<1>7. CASE Listed(listing) /\ walk' = NoWalk
  <2>1. (Held(d)' <=> isListed) /\ Open(d)' /\ ~Outdated(d)' /\ phase' = "backfill"
    BY <1>0, <1>7, ListedEffect DEF LedgerInv, isListed, Listed
  <2>2. domainExists[d] /\ ~shuffled /\ d \notin Left => isListed
    <3>1. ~shuffled => walk.offset + PageLimit >= Len(domainNames)
      BY <1>0, <1>1, <1>7 DEF Listed, listenerVars
    <3>2. walk.offset + PageLimit \in Nat /\ Len(domainNames) \in Nat
      BY DEF LedgerInv, Walked, IInv, TypeOK
    <3> QED BY <1>4, <1>5, <3>1, <3>2
  <2> QED
    BY <1>3, <1>6, <2>1, <2>2
    DEF LedgerPeerInv, HeldIsRegistered, RegisteredIsHeld, RotationPending, Found
<1>8. CASE /\ walk' = [offset |-> walk.offset + PageLimit, out |-> listing]
           /\ UNCHANGED listenerVars
  <2>1. /\ Found(d)' <=> isListed
        /\ walk'.offset = walk.offset + PageLimit /\ phase' = "listing"
        /\ NoNews(d)
    BY <1>0, <1>8 DEF Found, isListed, listenerVars, NoNews, Held, Open, Outdated, Handling
  <2>2. HeldIsRegistered(d)'
    BY <1>3, <1>6, <2>1 DEF HeldIsRegistered
  <2>3. ~shuffled /\ d \notin Left => RegisteredIsHeld(d)'
    BY <1>5, <1>6, <2>1 DEF RegisteredIsHeld
  <2> QED
    BY <1>2, <1>6, <2>1, <2>2, <2>3 DEF LedgerPeerInv, RotationPending, NoNews
<1> QED
  BY <1>1, <1>7, <1>8

\* A log that is yielded settles what it is about, and is no news about others.
LEMMA YieldKeepsPeer ==
  ASSUME LedgerInv, NEW d \in Peer, Yield
  PROVE  LedgerPeerInv(d)'
<1>1. PICK i \in Rest :
        /\ \A j \in Rest : i <= j
        /\ window' = [window EXCEPT !.at = i]
        /\ IF window.type = "domain_added"
           THEN \/ domainExists[blocks[i].domainName]
                     /\ Dispatch("domain_added", blocks[i].domainName)
                \/ ~domainExists[blocks[i].domainName] /\ Loop /\ UNCHANGED listenerVars
                \/ EventLost(blocks[i].domainName)
           ELSE Dispatch(window.type, blocks[i].domainName)
  BY DEF Yield
<1> DEFINE p == blocks[i].domainName
<1>0. /\ window # NoWindow /\ window.type \in EventType
      /\ phase = "listening" /\ d \in Domain \ {Own}
      /\ UNCHANGED <<blocks, domainExists, domainIndex, lastBlock, walk, shuffled, unannounced>>
  BY DEF Yield, LedgerInv, Placed, Peer, vars
<1>2. /\ i \in 1..Len(blocks) /\ p \in Domain
      /\ blocks[i] = [type |-> LogName[window.type], domainName |-> p]
      /\ \A type \in EventType :
           Pending(type, d) => Pending(type, d)' \/ (type = window.type /\ d = p)
  BY <1>0, <1>1, YieldTakesOne DEF LedgerInv
<1> HIDE DEF p
<1>3. phase' = "listening" /\ harmed \subseteq harmed'
  BY <1>0, <1>1 DEF Dispatch, EventLost, listenerVars
<1>4. CASE p # d
  <2>1. NoNews(d) \/ d \in harmed'
    <3>1. CASE \E type \in EventType : Dispatch(type, p)
      BY <1>0, <1>2, <1>4, <3>1, DispatchEffect DEF NoNews, LedgerInv
    <3>2. CASE EventLost(p) \/ UNCHANGED listenerVars
      BY <3>2 DEF EventLost, listenerVars, NoNews, Held, Open, Outdated, Handling
    <3> QED BY <1>0, <1>1, <3>1, <3>2 DEF p, EventType
  <2> QED
    BY <1>0, <1>2, <1>3, <1>4, <2>1, NoNewsKeepsPeer
<1>5. CASE p = d
  <2> SUFFICES ASSUME d \notin harmed' PROVE LedgerPeerInv(d)'
    BY DEF LedgerPeerInv
  <2>1. LedgerPeerInv(d) /\ d \notin harmed /\ Left' = Left /\ ~Found(d)'
    BY <1>0, <1>3 DEF LedgerInv, Left, Found
  <2>2. CASE Dispatch("domain_added", d) /\ domainExists[d] /\ window.type = "domain_added"
    <3>1. Held(d)' /\ (Open(d) => Open(d)') /\ (Outdated(d)' => Outdated(d))
      BY <1>0, <2>2, DispatchEffect DEF LedgerInv, EventType
    <3>2. Pending("key_rotated", d) => Pending("key_rotated", d)'
      BY <1>2, <2>2 DEF EventType
    <3> QED
      BY <1>0, <1>3, <2>1, <2>2, <3>1, <3>2
      DEF LedgerPeerInv, HeldIsRegistered, RegisteredIsHeld, RotationPending
  <2>3. CASE ~domainExists[d] /\ UNCHANGED listenerVars /\ window.type = "domain_added"
    <3>1. NoNews(d)
      BY <2>3 DEF listenerVars, NoNews, Held, Open, Outdated, Handling
    <3>2. /\ Pending("key_rotated", d) => Pending("key_rotated", d)'
          /\ Pending("domain_removed", d) => Pending("domain_removed", d)'
      BY <1>2, <2>3 DEF EventType
    <3> QED
      BY <1>0, <1>3, <2>1, <2>3, <3>1, <3>2
      DEF LedgerPeerInv, HeldIsRegistered, RegisteredIsHeld, RotationPending, NoNews
  <2>4. CASE Dispatch("domain_removed", d) /\ window.type = "domain_removed"
    <3>1. ~Held(d)' /\ (Outdated(d)' => Outdated(d))
      BY <1>0, <2>4, DispatchEffect DEF LedgerInv, EventType
    <3>2. Pending("key_rotated", d) => Pending("key_rotated", d)'
      BY <1>2, <2>4 DEF EventType
    <3>3. d \in Left
      <4>1. LogName[window.type] = "DomainRemoved"
        BY <2>4 DEF LogName
      <4> QED BY <1>0, <1>2, <1>5, <4>1 DEF Left
    <3> QED
      BY <1>0, <1>3, <2>1, <3>1, <3>2, <3>3
      DEF LedgerPeerInv, HeldIsRegistered, RotationPending
  <2>5. CASE Dispatch("key_rotated", d) /\ window.type = "key_rotated"
    <3>1. (Held(d)' <=> Held(d)) /\ (Open(d) => Open(d)') /\ ~Outdated(d)'
      BY <1>0, <2>5, DispatchEffect DEF LedgerInv, EventType
    <3>2. /\ Pending("domain_added", d) => Pending("domain_added", d)'
          /\ Pending("domain_removed", d) => Pending("domain_removed", d)'
      BY <1>2, <2>5 DEF EventType
    <3> QED
      BY <1>0, <1>3, <2>1, <3>1, <3>2
      DEF LedgerPeerInv, HeldIsRegistered, RegisteredIsHeld, RotationPending
  <2>6. ~EventLost(d)
    BY DEF EventLost
  <2> QED
    BY <1>0, <1>1, <1>5, <2>2, <2>3, <2>4, <2>5, <2>6 DEF p, EventType
<1> QED
  BY <1>4, <1>5

-----------------------------------------------------------------------------
(* The scripts' steps                                                      *)

\* A transaction as the listener's side sees it: one more block, whose log is
\* still to be yielded, and nothing of the listener changed.
LEMMA TransactionEffect ==
  ASSUME LedgerInv, NEW type \in EventType, NEW p \in Domain, Emit(LogName[type], p),
         UNCHANGED <<listenerVars, pollVars>>, NEW d \in Peer
  PROVE  /\ d \in Domain /\ NoNews(d)
         /\ phase' = phase /\ walk' = walk /\ harmed' = harmed
         /\ \A t \in EventType : Pending(t, d) => Pending(t, d)'
         /\ p = d => Pending(type, d)'
         /\ Left \subseteq Left'
         /\ type = "domain_removed" => p \in Left'
         /\ LedgerPeerInv(d)
<1>1. d \in Domain /\ LedgerPeerInv(d) /\ NoNews(d)
      /\ phase' = phase /\ walk' = walk /\ harmed' = harmed
      /\ UNCHANGED <<lastBlock, window>>
  BY DEF Peer, LedgerInv, listenerVars, pollVars, NoNews, Held, Open, Outdated, Handling
<1> DEFINE e == [type |-> LogName[type], domainName |-> p]
<1>2. blocks' = Append(blocks, e) /\ e \in Event
  BY DEF Emit, Event, EventType, EventName, LogName
<1>3. /\ \A t \in EventType : Pending(t, d) => Pending(t, d)'
      /\ p = d => Pending(type, d)'
  BY <1>1, <1>2, PendingGrows DEF LedgerInv
<1>4. blocks \in Seq(Event)
  BY DEF LedgerInv, IInv, TypeOK
<1> HIDE DEF e
<1>5. /\ Len(blocks') = Len(blocks) + 1 /\ Len(blocks) \in Nat
      /\ \A i \in 1..Len(blocks) : blocks'[i] = blocks[i]
      /\ blocks'[Len(blocks) + 1] = e
  BY <1>2, <1>4
<1>6. Left \subseteq Left'
  BY <1>5 DEF Left
<1>7. type = "domain_removed" => p \in Left'
  <2>1. type = "domain_removed" => e = [type |-> "DomainRemoved", domainName |-> p]
    BY DEF e, LogName
  <2>2. Len(blocks) + 1 \in 1..Len(blocks')
    BY <1>5
  <2> QED BY <1>5, <2>1, <2>2 DEF Left
<1> QED
  BY <1>1, <1>3, <1>6, <1>7

LEMMA RegisteringKeepsPeer ==
  ASSUME LedgerInv, NEW p \in Domain, NEW raw \in Metadata, ScriptRegisters(p, raw),
         NEW d \in Peer
  PROVE  LedgerPeerInv(d)'
<1>1. Emit(LogName["domain_added"], p) /\ UNCHANGED <<listenerVars, pollVars>>
  BY DEF ScriptRegisters, RegisterDomain, LogName
<1>2. /\ d \in Domain /\ NoNews(d)
      /\ phase' = phase /\ walk' = walk /\ harmed' = harmed
      /\ \A t \in EventType : Pending(t, d) => Pending(t, d)'
      /\ p = d => Pending("domain_added", d)'
      /\ Left \subseteq Left'
      /\ LedgerPeerInv(d)
  BY <1>1, TransactionEffect DEF EventType
<1>3. /\ domainExists \in [Domain -> BOOLEAN] /\ domainIndex \in [Domain -> Nat]
      /\ Len(domainNames) \in Nat /\ walk.offset \in Nat
  BY DEF LedgerInv, IInv, TypeOK, Walked
<1>4. /\ p # d => domainExists'[d] = domainExists[d] /\ domainIndex'[d] = domainIndex[d]
      /\ p = d => domainExists'[d] /\ domainIndex'[d] = Len(domainNames) + 1
      /\ UNCHANGED <<shuffled, unannounced>>
  BY <1>2, <1>3 DEF ScriptRegisters, RegisterDomain
<1>5. ~shuffled => walk.offset <= Len(domainNames)
  BY DEF LedgerInv, Walked
<1>6. Found(d)' <=> Found(d)
  BY <1>2 DEF Found
<1>7. ASSUME d \notin harmed PROVE HeldIsRegistered(d)'
  BY <1>2, <1>4, <1>6, <1>7 DEF LedgerPeerInv, HeldIsRegistered, NoNews, EventType
<1>8. ASSUME d \notin harmed, ~shuffled, d \notin Left PROVE RegisteredIsHeld(d)'
  <2>1. CASE p = d
    <3>1. domainIndex'[d] > walk'.offset
      BY <1>2, <1>3, <1>4, <1>5, <1>8, <2>1
    <3> QED BY <1>2, <2>1, <3>1 DEF RegisteredIsHeld
  <2>2. CASE p # d
    <3>1. RegisteredIsHeld(d)
      BY <1>2, <1>8 DEF LedgerPeerInv
    <3>2. Pending("domain_added", d) => Pending("domain_added", d)'
      BY <1>2 DEF EventType
    <3> QED
      BY <1>2, <1>4, <1>6, <2>2, <3>1, <3>2 DEF RegisteredIsHeld, NoNews
  <2> QED BY <2>1, <2>2
<1>9. ASSUME d \notin harmed, d \notin unannounced PROVE RotationPending(d)'
  BY <1>2, <1>9 DEF LedgerPeerInv, RotationPending, NoNews, EventType
<1>10. d \notin Left' => d \notin Left
  BY <1>2
<1> QED
  BY <1>2, <1>4, <1>7, <1>8, <1>9, <1>10 DEF LedgerPeerInv, NoNews

LEMMA DeletingKeepsPeer ==
  ASSUME LedgerInv, IInv', NEW p \in Domain, ScriptDeletes(p), NEW d \in Peer
  PROVE  LedgerPeerInv(d)'
<1>1. Emit(LogName["domain_removed"], p) /\ UNCHANGED <<listenerVars, pollVars>>
  BY DEF ScriptDeletes, RemoveDomain, LogName
<1>2. /\ d \in Domain /\ NoNews(d)
      /\ phase' = phase /\ walk' = walk /\ harmed' = harmed
      /\ \A t \in EventType : Pending(t, d) => Pending(t, d)'
      /\ p = d => Pending("domain_removed", d)'
      /\ p \in Left'
      /\ Left \subseteq Left'
      /\ LedgerPeerInv(d)
  BY <1>1, TransactionEffect DEF EventType
<1>3. domainExists \in [Domain -> BOOLEAN]
  BY DEF LedgerInv, IInv, TypeOK
<1>4. /\ p # d => domainExists'[d] = domainExists[d]
      /\ p = d => ~domainExists'[d]
      /\ unannounced' = unannounced
      /\ ~shuffled' => ~shuffled /\ walk = NoWalk
  BY <1>2, <1>3 DEF ScriptDeletes, RemoveDomain
<1>5. domainExists'[d] => domainIndex'[d] > 0
  BY <1>2 DEF IInv, IndexInvertsArray
<1>6. Found(d)' <=> Found(d)
  BY <1>2 DEF Found
<1>7. ASSUME d \notin harmed PROVE HeldIsRegistered(d)'
  BY <1>2, <1>4, <1>6, <1>7 DEF LedgerPeerInv, HeldIsRegistered, NoNews, EventType
<1>8. ASSUME d \notin harmed, ~shuffled', d \notin Left' PROVE RegisteredIsHeld(d)'
  <2>1. p # d /\ d \notin Left
    BY <1>2, <1>8
  <2>2. walk'.offset = 0
    BY <1>2, <1>4, <1>8 DEF NoWalk
  <2> QED
    BY <1>2, <1>4, <1>5, <1>6, <1>8, <2>1, <2>2
    DEF LedgerPeerInv, RegisteredIsHeld, NoNews, EventType
<1>9. d \notin Left' => d \notin Left
  BY <1>2
<1> QED
  BY <1>2, <1>4, <1>7, <1>8, <1>9 DEF LedgerPeerInv, RotationPending, NoNews, EventType

LEMMA NotifyingKeepsPeer ==
  ASSUME LedgerInv, NEW p \in Domain, ScriptNotifies(p), NEW d \in Peer
  PROVE  LedgerPeerInv(d)'
<1>1. Emit(LogName["key_rotated"], p) /\ UNCHANGED <<listenerVars, pollVars>>
  BY DEF ScriptNotifies, NotifyKeyRotated, LogName
<1>2. /\ d \in Domain /\ NoNews(d)
      /\ phase' = phase /\ walk' = walk /\ harmed' = harmed
      /\ \A t \in EventType : Pending(t, d) => Pending(t, d)'
      /\ p = d => Pending("key_rotated", d)'
      /\ Left \subseteq Left'
      /\ LedgerPeerInv(d)
  BY <1>1, TransactionEffect DEF EventType
<1>3. UNCHANGED <<domainExists, domainIndex, shuffled>> /\ unannounced' = unannounced \ {p}
  BY DEF ScriptNotifies, NotifyKeyRotated
<1>4. Found(d)' <=> Found(d)
  BY <1>2 DEF Found
<1>5. ASSUME d \notin harmed PROVE HeldIsRegistered(d)'
  BY <1>2, <1>3, <1>4, <1>5 DEF LedgerPeerInv, HeldIsRegistered, NoNews, EventType
<1>6. ASSUME d \notin harmed, ~shuffled, d \notin Left PROVE RegisteredIsHeld(d)'
  BY <1>2, <1>3, <1>4, <1>6 DEF LedgerPeerInv, RegisteredIsHeld, NoNews, EventType
<1>7. ASSUME d \notin harmed, d \notin unannounced' PROVE RotationPending(d)'
  BY <1>2, <1>3, <1>7 DEF LedgerPeerInv, RotationPending, NoNews, EventType
<1> QED
  BY <1>2, <1>3, <1>5, <1>6, <1>7 DEF LedgerPeerInv, NoNews

LEMMA RotatingKeepsPeer ==
  ASSUME LedgerInv, NEW p \in Rotating, ScriptRotates(p), NEW d \in Peer
  PROVE  LedgerPeerInv(d)'
<1>1. p \in Domain /\ d \in Domain \ {Own} /\ RotateSigningKey(p)
  BY DEF ScriptRotates, Peer
<1>2. /\ Held(d)' <=> Held(d)
      /\ Open(d) => Open(d)'
      /\ p # d => (Outdated(d)' => Outdated(d))
  BY <1>1, RotateEffect DEF LedgerInv
<1>3. /\ UNCHANGED <<phase, harmed, walk, blocks, lastBlock, window>>
      /\ UNCHANGED <<domainExists, domainIndex, shuffled>>
      /\ unannounced' = unannounced \cup {p}
  BY DEF ScriptRotates, RotateSigningKey, vars, pollVars
<1>4. /\ Pending("domain_added", d) => Pending("domain_added", d)'
      /\ Pending("domain_removed", d) => Pending("domain_removed", d)'
      /\ Pending("key_rotated", d) => Pending("key_rotated", d)'
      /\ Left' = Left /\ (Found(d)' <=> Found(d))
  BY <1>3, PendingKept DEF Left, Found
<1>5. LedgerPeerInv(d)
  BY DEF LedgerInv
<1>6. ASSUME d \notin harmed PROVE HeldIsRegistered(d)'
  BY <1>2, <1>3, <1>4, <1>5, <1>6 DEF LedgerPeerInv, HeldIsRegistered
<1>7. ASSUME d \notin harmed, ~shuffled, d \notin Left PROVE RegisteredIsHeld(d)'
  BY <1>2, <1>3, <1>4, <1>5, <1>7 DEF LedgerPeerInv, RegisteredIsHeld
<1> QED
  BY <1>2, <1>3, <1>4, <1>5, <1>6, <1>7 DEF LedgerPeerInv, RotationPending

-----------------------------------------------------------------------------
(* The invariant                                                           *)

LEMMA LedgerInvInit == LedgerInit => LedgerInv
<1> SUFFICES ASSUME LedgerInit PROVE LedgerInv
  OBVIOUS
<1>1. IInv /\ ListenerInv /\ Early
  BY InitIInv, ListenerInitEstablishes, EarlyInit DEF LedgerInit
<1>2. Placed /\ Walked /\ unannounced \subseteq Rotating
  <2>1. << >> \in Seq(Domain) /\ Len(<< >>) = 0 /\ Len(blocks) \in Nat /\ Len(domainNames) \in Nat
    BY <1>1 DEF IInv, TypeOK
  <2> QED
    BY <2>1 DEF LedgerInit, ListenerInit, Placed, Walked, NoWindow, NoWalk
<1>3. ASSUME NEW d \in Peer PROVE LedgerPeerInv(d)
  <2>1. phase = "starting" /\ job = NoJob /\ realm[d] = Blank
    BY DEF LedgerInit, ListenerInit, Peer
  <2> QED
    BY <2>1 DEF LedgerPeerInv, HeldIsRegistered, RegisteredIsHeld, RotationPending, Found,
                Open, Outdated, Handling, Blank, NoJob
<1> QED
  BY <1>1, <1>2, <1>3 DEF LedgerInv

LEMMA PlacedStep ==
  ASSUME LedgerInv, [LedgerNext]_ledgerVars
  PROVE  Placed' /\ Walked' /\ (unannounced \subseteq Rotating)'
<1> USE DEF LedgerInv
<1>1. blocks \in Seq(Event) /\ Len(blocks) \in Nat /\ lastBlock \in 0..Len(blocks)
      /\ domainNames \in Seq(Domain) /\ Len(domainNames) \in Nat
  BY DEF IInv, TypeOK, Placed
<1>2. CASE CreateEventFilters
  BY <1>1, <1>2 DEF CreateEventFilters, Subscribed, Placed, Walked, vars
<1>3. CASE ListMetadata
  <2>1. PICK listing \in Seq(Domain) :
          \/ Listed(listing) /\ walk' = NoWalk
          \/ /\ walk' = [offset |-> walk.offset + PageLimit, out |-> listing]
             /\ UNCHANGED listenerVars
             /\ ~shuffled => /\ Len(listing) = walk.offset + PageLimit
                             /\ walk.offset + PageLimit <= Len(domainNames)
    BY <1>3, ListingStep
  <2>2. /\ phase = "listing" /\ phase' \in {"listing", "backfill"}
        /\ phase' = "backfill" => walk' = NoWalk
        /\ UNCHANGED <<blocks, domainNames, lastBlock, window, shuffled, unannounced>>
    BY <1>3, <2>1 DEF ListMetadata, Listed, listenerVars, vars
  <2>3. Placed'
    BY <2>2 DEF Placed
  <2>4. << >> \in Seq(Domain) /\ Len(<< >>) = 0
    OBVIOUS
  <2>5. Walked'
    <3>1. CASE walk' = NoWalk
      BY <1>1, <2>2, <2>4, <3>1 DEF Walked, NoWalk
    <3>2. CASE /\ walk' = [offset |-> walk.offset + PageLimit, out |-> listing]
               /\ UNCHANGED listenerVars
               /\ ~shuffled => /\ Len(listing) = walk.offset + PageLimit
                               /\ walk.offset + PageLimit <= Len(domainNames)
      <4>1. /\ walk' \in [offset: Nat, out: Seq(Domain)]
            /\ walk'.offset = walk.offset + PageLimit /\ walk'.out = listing
        BY <3>2 DEF Walked
      <4>2. phase' = "listing"
        BY <2>2, <3>2 DEF listenerVars
      <4> QED BY <2>2, <3>2, <4>1, <4>2 DEF Walked
    <3> QED BY <2>1, <3>1, <3>2
  <2> QED BY <2>2, <2>3, <2>5
<1>4. CASE BeginWindow \/ NextLogs \/ PollFails
  <2>1. /\ phase = "listening" /\ phase' = "listening"
        /\ UNCHANGED <<blocks, domainNames, walk, shuffled, unannounced>>
    BY <1>4 DEF BeginWindow, NextLogs, PollFails, Loop, TransportRetries, vars, listenerVars, Placed
  <2>2. Placed'
    <3>1. CASE BeginWindow
      BY <1>1, <2>1, <3>1 DEF BeginWindow, Placed, Opened, EventType
    <3>2. CASE NextLogs
      <4>1. /\ window.end \in (lastBlock + 1)..Len(blocks)
            /\ \/ /\ \E type \in EventType :
                       window' = [end |-> window.end, type |-> type, at |-> lastBlock]
                  /\ lastBlock' = lastBlock
               \/ window' = NoWindow /\ lastBlock' = window.end
        BY <3>2 DEF NextLogs, Placed, Opened, EventType
      <4> QED BY <1>1, <2>1, <4>1 DEF Placed
    <3>3. CASE PollFails
      BY <2>1, <3>3 DEF PollFails, Placed
    <3> QED BY <1>4, <3>1, <3>2, <3>3
  <2> QED BY <2>1, <2>2 DEF Walked
<1>5. CASE Yield
  <2>1. PICK i \in Rest :
          /\ \A j \in Rest : i <= j
          /\ window' = [window EXCEPT !.at = i]
          /\ \/ \E type, d : Dispatch(type, d)
             \/ UNCHANGED listenerVars
             \/ \E d : EventLost(d)
    BY <1>5 DEF Yield
  <2>2. /\ window # NoWindow /\ phase = "listening" /\ phase' = "listening"
        /\ UNCHANGED <<blocks, domainNames, lastBlock, walk, shuffled, unannounced>>
    BY <1>5, <2>1 DEF Yield, Placed, vars, Dispatch, EventLost, listenerVars
  <2>3. i \in (lastBlock + 1)..window.end
    BY <2>1, <2>2, YieldTakesOne
  <2>4. /\ window \in [end: Nat, type: EventType, at: Nat]
        /\ window.end \in (lastBlock + 1)..Len(blocks)
    BY <2>2 DEF Placed
  <2>5. /\ window' \in [end: Nat, type: EventType, at: Nat]
        /\ window'.end = window.end /\ window'.at = i
    BY <1>1, <2>1, <2>3, <2>4
  <2>6. Placed'
    BY <1>1, <2>2, <2>3, <2>4, <2>5 DEF Placed
  <2> QED BY <2>2, <2>6 DEF Walked
<1>6. CASE ListenerStep \/ Traffic
  <2>1. /\ \/ phase' = phase \/ phase' = "dead"
           \/ phase = "starting" /\ phase' = "subscribing"
           \/ phase = "backfill" /\ phase' = "listening"
        /\ phase = "listening" => phase' = "listening"
    BY <1>6, PhaseStep DEF ListenerStep, Traffic
  <2>2. UNCHANGED <<blocks, domainNames, lastBlock, window, walk, shuffled, unannounced>>
    BY <1>6 DEF ListenerStep, Traffic, vars, pollVars
  <2> QED BY <2>1, <2>2 DEF Placed, Walked
<1>7. CASE \E d \in Domain : \/ \E raw \in Metadata : ScriptRegisters(d, raw)
                             \/ ScriptDeletes(d) \/ ScriptNotifies(d)
  <2>1. PICK d \in Domain : \/ \E raw \in Metadata : ScriptRegisters(d, raw)
                            \/ ScriptDeletes(d) \/ ScriptNotifies(d)
    BY <1>7
  <2>2. /\ \E type \in EventName : Emit(type, d)
        /\ UNCHANGED <<phase, lastBlock, window, walk>>
        /\ unannounced' \subseteq unannounced
    BY <2>1 DEF ScriptRegisters, ScriptDeletes, ScriptNotifies, RegisterDomain, RemoveDomain,
                NotifyKeyRotated, EventName, listenerVars, pollVars
  <2>3. blocks' \in Seq(Event) /\ Len(blocks') = Len(blocks) + 1
    BY <1>1, <2>2, EmitTyped DEF Emit, IInv
  <2>4. Placed'
    BY <1>1, <2>2, <2>3 DEF Placed
  <2>5. \/ shuffled' = shuffled /\ Len(domainNames') >= Len(domainNames)
        \/ ~shuffled' => ~shuffled /\ walk = NoWalk
    <3>1. CASE \E raw \in Metadata : ScriptRegisters(d, raw)
      BY <1>1, <3>1, RegisterArray DEF ScriptRegisters
    <3>2. CASE ScriptDeletes(d)
      BY <3>2 DEF ScriptDeletes
    <3>3. CASE ScriptNotifies(d)
      BY <1>1, <3>3 DEF ScriptNotifies, NotifyKeyRotated
    <3> QED BY <2>1, <3>1, <3>2, <3>3
  <2>6. domainNames' \in Seq(Domain)
    BY <1>1, <2>1, RegisterArray, RemoveArray
    DEF ScriptRegisters, ScriptDeletes, ScriptNotifies, NotifyKeyRotated
  <2>7. Len(domainNames') \in Nat
    BY <2>6
  <2>8. Walked'
    <3>1. ASSUME ~shuffled' PROVE walk.offset <= Len(domainNames') /\ Len(walk.out) = walk.offset
      <4>1. CASE walk = NoWalk
        BY <2>7, <4>1 DEF NoWalk
      <4>2. CASE shuffled' = shuffled /\ Len(domainNames') >= Len(domainNames)
        BY <1>1, <2>7, <3>1, <4>2 DEF Walked
      <4> QED BY <2>5, <3>1, <4>1, <4>2
    <3> QED BY <2>2, <3>1 DEF Walked
  <2> QED BY <2>2, <2>4, <2>8
<1>8. CASE \E d \in Rotating : ScriptRotates(d)
  BY <1>8 DEF ScriptRotates, RotateSigningKey, vars, pollVars, Placed, Walked
<1>9. CASE UNCHANGED ledgerVars
  BY <1>9 DEF ledgerVars, vars, listenerVars, pollVars, Placed, Walked
<1> QED
  BY <1>2, <1>3, <1>4, <1>5, <1>6, <1>7, <1>8, <1>9 DEF LedgerNext, ListenerGoesOn

LEMMA LedgerInvStep == LedgerInv /\ [LedgerNext]_ledgerVars => LedgerInv'
<1> SUFFICES ASSUME LedgerInv, [LedgerNext]_ledgerVars PROVE LedgerInv'
  OBVIOUS
<1>1. [Next]_vars /\ [ListenerNext]_listenerVars
  BY StepOfContract, StepOfListener DEF LedgerInv
<1>2. IInv' /\ ListenerInv' /\ Early'
  BY <1>1, NextIInv, ListenerInductive, EarlyInductive DEF LedgerInv
<1>3. Placed' /\ Walked' /\ (unannounced \subseteq Rotating)'
  BY PlacedStep
<1>4. ASSUME NEW d \in Peer PROVE LedgerPeerInv(d)'
  <2>0. d \in Domain \ {Own}
    BY DEF Peer
  <2>1. CASE CreateEventFilters \/ ListMetadata \/ Yield
    BY <1>2, <2>1, SubscribingKeepsPeer, ListingKeepsPeer, YieldKeepsPeer
  <2>2. CASE BeginWindow \/ NextLogs \/ PollFails
    <3>1. NoNews(d) \/ d \in harmed'
      <4>1. CASE TransportRetries
        BY <2>0, <4>1, LoopIsNoNews DEF LedgerInv
      <4>2. CASE UNCHANGED listenerVars
        BY <4>2 DEF listenerVars, NoNews, Held, Open, Outdated, Handling
      <4> QED BY <2>2, <4>1, <4>2 DEF BeginWindow, NextLogs, PollFails
    <3>2. /\ phase' = phase /\ harmed' = harmed
          /\ UNCHANGED <<blocks, domainExists, domainIndex, walk, shuffled, unannounced>>
      BY <2>2 DEF BeginWindow, NextLogs, PollFails, TransportRetries, vars, listenerVars
    <3>3. \A type \in EventType : Pending(type, d) => Pending(type, d)'
      BY <2>0, <2>2, PollingSkipsNothing DEF LedgerInv
    <3> QED
      BY <3>1, <3>2, <3>3, NoNewsKeepsPeer
  <2>3. CASE ListenerStep \/ Traffic
    <3>1. Step \/ SetUpFails \/ TokenExpires \/ \E p \in Domain \ {Own} : FetchKeys(p)
      BY <2>3 DEF ListenerStep, Traffic
    <3>2. UNCHANGED <<vars, pollVars, shuffled, unannounced>>
      BY <2>3 DEF ListenerStep, Traffic
    <3>3. NoNews(d) \/ d \in harmed'
      BY <2>0, <3>1, HandleIsNoNews, LoopIsNoNews DEF LedgerInv, Step
    <3>4. /\ harmed \subseteq harmed'
          /\ phase' \in {"backfill", "listening"} => phase \in {"backfill", "listening"}
          /\ phase' = "listing" => phase = "listing"
      BY <3>1, PhaseStep
    <3>5. \A type \in EventType : Pending(type, d) => Pending(type, d)'
      BY <3>2, PendingKept DEF vars, pollVars
    <3> QED
      BY <3>2, <3>3, <3>4, <3>5, NoNewsKeepsPeer DEF vars, pollVars
  <2>4. CASE \E p \in Domain : \/ \E raw \in Metadata : ScriptRegisters(p, raw)
                               \/ ScriptDeletes(p) \/ ScriptNotifies(p)
    BY <1>2, <2>4, RegisteringKeepsPeer, DeletingKeepsPeer, NotifyingKeepsPeer
  <2>5. CASE \E p \in Rotating : ScriptRotates(p)
    BY <2>5, RotatingKeepsPeer
  <2>6. CASE UNCHANGED ledgerVars
    <3>1. NoNews(d) /\ UNCHANGED <<phase, harmed>>
      BY <2>6 DEF ledgerVars, listenerVars, NoNews, Held, Open, Outdated, Handling
    <3>2. UNCHANGED <<blocks, domainExists, domainIndex, walk, shuffled, unannounced,
                      lastBlock, window>>
      BY <2>6 DEF ledgerVars, vars, pollVars
    <3> QED
      BY <3>1, <3>2, PendingKept, NoNewsKeepsPeer
  <2> QED
    BY <2>1, <2>2, <2>3, <2>4, <2>5, <2>6 DEF LedgerNext, ListenerGoesOn
<1> QED
  BY <1>2, <1>3, <1>4 DEF LedgerInv

LEMMA LedgerInvariance == LedgerSpec => []LedgerInv
  BY LedgerInvInit, LedgerInvStep, PTL DEF LedgerSpec

\* The federation keeps its types.
THEOREM LedgerTypes == LedgerSpec => []LedgerTypeOK
<1>1. LedgerInv => LedgerTypeOK
  BY DEF LedgerInv, IInv, ListenerInv, Placed, Walked, LedgerTypeOK
<1> QED
  BY <1>1, LedgerInvariance, PTL

\* The listener that polls the ledger behaves as OAuthListener says: what it
\* is handed is always an event, and what it lists are domains.
THEOREM LedgerListener == LedgerSpec => ListenerSpec
<1>1. LedgerInit => ListenerInit
  BY DEF LedgerInit
<1>2. LedgerInv /\ [LedgerNext]_ledgerVars => [ListenerNext]_listenerVars
  BY StepOfListener DEF LedgerInv
<1> QED
  BY <1>1, <1>2, LedgerInvariance, PTL DEF LedgerSpec, ListenerSpec

\* A domain that the listener of the ledger variant holds as seen has
\* everything handle_add sets up.
THEOREM LedgerSeen == LedgerSpec => []SeenIsConfigured
  BY LedgerListener, SeenConfigured, PTL

\* A peer that the listener of the ledger variant has forgotten cannot use
\* the realm, unless a handler failed.
THEOREM LedgerNobodyForgotten == LedgerSpec => []UsableIsSeen
  BY LedgerListener, NobodyForgotten, PTL

\* When the whole log is handled, nothing is still to be yielded.
LEMMA QuietMeansYielded ==
  ASSUME LedgerInv, Quiet, NEW d \in Peer
  PROVE  /\ \A type : ~Pending(type, d)
         /\ LedgerPeerInv(d) /\ phase = "listening" /\ job = NoJob
         /\ Held(d) <=> d \in seen
<1>1. Len(blocks) \in Nat
  BY DEF LedgerInv, IInv, TypeOK
<1>2. \A type : ~Pending(type, d)
  BY <1>1 DEF Quiet, Pending, Ahead
<1>3. phase = "listening" /\ job = NoJob /\ todo = << >>
  BY DEF LedgerInv, Early, Quiet, Loop
<1> QED
  BY <1>2, <1>3 DEF LedgerInv, Held, Handling, NoJob

\* In every federation over the ledger, once the log is handled, a domain
\* that is not registered cannot use the realm unless one of its handlers
\* failed: neither the order in which a window's types are yielded nor a
\* window that is yielded again admits a domain that is gone.
THEOREM LedgerNoStaleAdmission == LedgerSpec => []NoStaleAdmission
<1>1. LedgerInv => NoStaleAdmission
  <2> SUFFICES ASSUME LedgerInv, Quiet, NEW d \in Peer \ (Registered \cup harmed)
               PROVE  ~Usable(d)
    BY DEF NoStaleAdmission
  <2>1. /\ d \in Domain \ {Own} /\ d \notin harmed /\ ~domainExists[d]
        /\ HeldIsRegistered(d) /\ ~Pending("domain_removed", d) /\ phase = "listening"
        /\ job = NoJob /\ (Held(d) <=> d \in seen)
    BY QuietMeansYielded DEF Peer, Registered, LedgerPeerInv
  <2>2. d \notin seen
    BY <2>1 DEF HeldIsRegistered
  <2> QED
    BY <2>1, <2>2 DEF LedgerInv, ListenerInv, Forgotten, Usable, NoJob
<1> QED
  BY <1>1, LedgerInvariance, PTL

\* In every federation over the ledger, once the log is handled, a registered
\* domain that never left can use the realm, but for the failures named and a
\* listing that a removal shuffled: no page size and no moment of registering
\* makes the listing and the windows together miss it.
THEOREM LedgerOnlyReturnersLockedOut == LedgerSpec => []OnlyReturnersLockedOut
<1>1. LedgerInv => OnlyReturnersLockedOut
  <2> SUFFICES ASSUME LedgerInv, Quiet, ~shuffled,
                      NEW d \in (Registered \ {Own}) \ (harmed \cup Left)
               PROVE  Usable(d)
    BY DEF OnlyReturnersLockedOut
  <2>0. d \in Peer /\ d \in Domain \ {Own} /\ domainExists[d] /\ d \notin harmed \cup Left
    BY DEF Registered, Peer
  <2>1. /\ RegisteredIsHeld(d) /\ Open(d) /\ ~Pending("domain_added", d) /\ phase = "listening"
        /\ (Held(d) <=> d \in seen)
    BY <2>0, QuietMeansYielded DEF LedgerPeerInv
  <2>2. d \in seen
    BY <2>0, <2>1 DEF RegisteredIsHeld
  <2>3. realm[d] \in Entry
    BY <2>0 DEF LedgerInv, ListenerInv, ListenerTypeOK
  <2> QED
    BY <2>0, <2>1, <2>2, <2>3 DEF LedgerInv, ListenerInv, SeenIsConfigured, Open, Usable,
                                   Entry, State
<1> QED
  BY <1>1, LedgerInvariance, PTL

\* In every federation over the ledger, once the log is handled, the realm
\* does not hold keys from before a rotation that was announced.
THEOREM LedgerKeysFollowRotations == LedgerSpec => []KeysFollowRotations
<1>1. LedgerInv => KeysFollowRotations
  <2> SUFFICES ASSUME LedgerInv, Quiet,
                      NEW d \in (Registered \ {Own}) \ (harmed \cup unannounced)
               PROVE  realm[d].keys # "stale"
    BY DEF KeysFollowRotations
  <2>0. d \in Peer /\ d \notin harmed \cup unannounced
    BY DEF Registered, Peer
  <2>1. RotationPending(d) /\ ~Pending("key_rotated", d) /\ job = NoJob
    BY <2>0, QuietMeansYielded DEF LedgerPeerInv
  <2> QED
    BY <2>1 DEF RotationPending, Outdated, Handling, NoJob
<1> QED
  BY <1>1, LedgerInvariance, PTL
=============================================================================
