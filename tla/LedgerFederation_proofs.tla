----------------------- MODULE LedgerFederation_proofs -----------------------
(***************************************************************************)
(* Proofs about the ledger federation, for every set of servers, page      *)
(* size, number of versions, faults and blocks.                            *)
(***************************************************************************)
EXTENDS LedgerFederation, SpiffeBundleStore_proofs, FiniteSetTheorems

-----------------------------------------------------------------------------
(* The contract, and the pages that get_bundles reads                      *)

\* The numbers of the model are numbers, and no version is "no bundle".
LEMMA Numbers ==
  /\ PageLimit \in Nat /\ PageLimit >= 1
  /\ RawBundle \subseteq Nat /\ Unset \notin RawBundle
  /\ 1 \in RawBundle
BY LimitAssumption, BoundsAssumption, VersionAssumption, UnsetAssumption

\* A page holds the array entries behind its offset, each with the bundle it
\* has now, and is short only at the end of the array.
LEMMA PageEntries ==
  ASSUME IInv, NEW offset \in Nat
  PROVE  /\ Page(offset, PageLimit) \in Seq(TrustDomain \X RawBundle)
         /\ Len(Page(offset, PageLimit)) =
              IF offset >= Total THEN 0
              ELSE IF offset + PageLimit <= Total THEN PageLimit ELSE Total - offset
         /\ \A k \in 1..Len(Page(offset, PageLimit)) :
              /\ offset + k \in 1..Total
              /\ Page(offset, PageLimit)[k][1] = trustDomains[offset + k]
              /\ Page(offset, PageLimit)[k][2] = bundles[trustDomains[offset + k]]
<1>1. PageLimit \in Nat \ {0}
  BY LimitAssumption
<1> QED
  BY <1>1, PageAt

\* What a walk has collected: the entries it had, then those of the page.
LEMMA CollectedEntries ==
  ASSUME ProcessTypeOK, IInv, NEW l \in Observed, NEW p \in Process
  PROVE  /\ Collected(l, p) \in Seq(TrustDomain \X RawBundle)
         /\ DOMAIN Collected(l, p) = 1..Len(Collected(l, p))
         /\ Len(Collected(l, p)) =
              Len(walk[l][p].out) + Len(Page(walk[l][p].offset, PageLimit))
         /\ \A k \in DOMAIN Collected(l, p) :
              \/ k \in DOMAIN walk[l][p].out /\ Collected(l, p)[k] = walk[l][p].out[k]
              \/ /\ k > Len(walk[l][p].out)
                 /\ walk[l][p].offset + (k - Len(walk[l][p].out)) \in 1..Total
                 /\ Collected(l, p)[k][1] =
                      trustDomains[walk[l][p].offset + (k - Len(walk[l][p].out))]
                 /\ Collected(l, p)[k][2] = bundles[Collected(l, p)[k][1]]
<1> DEFINE out    == walk[l][p].out
           offset == walk[l][p].offset
           page   == Page(offset, PageLimit)
           all    == Collected(l, p)
<1>1. out \in Seq(TrustDomain \X RawBundle) /\ offset \in Nat
  BY DEF ProcessTypeOK
<1>2. /\ page \in Seq(TrustDomain \X RawBundle)
      /\ \A k \in 1..Len(page) :
           /\ offset + k \in 1..Total
           /\ page[k][1] = trustDomains[offset + k]
           /\ page[k][2] = bundles[trustDomains[offset + k]]
  BY <1>1, PageEntries
<1>3. all = out \o page
  BY DEF Collected
<1> HIDE DEF out, offset, page, all
<1>4. /\ all \in Seq(TrustDomain \X RawBundle)
      /\ Len(all) = Len(out) + Len(page)
      /\ \A k \in 1..(Len(out) + Len(page)) :
           all[k] = IF k <= Len(out) THEN out[k] ELSE page[k - Len(out)]
  BY <1>1, <1>2, <1>3, ConcatProperties
<1>5. /\ Len(out) \in Nat /\ Len(page) \in Nat
      /\ DOMAIN out = 1..Len(out) /\ DOMAIN all = 1..Len(all)
  BY <1>1, <1>2, <1>4, LenProperties
<1>6. ASSUME NEW k \in DOMAIN all
      PROVE  \/ k \in DOMAIN out /\ all[k] = out[k]
             \/ /\ k > Len(out)
                /\ offset + (k - Len(out)) \in 1..Total
                /\ all[k][1] = trustDomains[offset + (k - Len(out))]
                /\ all[k][2] = bundles[all[k][1]]
  <2>1. CASE k <= Len(out)
    BY <1>4, <1>5, <2>1
  <2>2. CASE k > Len(out)
    <3>1. k - Len(out) \in 1..Len(page) /\ all[k] = page[k - Len(out)]
      BY <1>4, <1>5, <2>2
    <3> QED
      BY <1>2, <2>2, <3>1
  <2> QED
    BY <1>5, <2>1, <2>2
<1> QED
  BY <1>4, <1>5, <1>6 DEF out, offset, page, all

\* Every transaction mines one block behind the ones that are there.
LEMMA EmitMines ==
  ASSUME TypeOK, NEW type \in EventType, NEW td \in TrustDomain, Emit(type, td)
  PROVE  /\ Len(blocks) \in Nat
         /\ Len(blocks') = Len(blocks) + 1
         /\ \A i \in 1..Len(blocks) : blocks'[i] = blocks[i]
         /\ blocks'[Len(blocks) + 1].trustDomain = td
         /\ blocks'[Len(blocks) + 1].type = type
<1> DEFINE e == [type |-> type, trustDomain |-> td]
<1>1. e \in Event /\ e.type = type /\ e.trustDomain = td
  BY DEF Event
<1> HIDE DEF e
<1>2. blocks \in Seq(Event) /\ blocks' = Append(blocks, e)
  BY DEF TypeOK, Emit, e
<1>3. Len(blocks) \in Nat
  BY <1>2, LenProperties
<1> QED
  BY <1>1, <1>2, <1>3, AppendProperties

LEMMA PublishEffect ==
  ASSUME IInv, NEW td \in TrustDomain, NEW raw \in RawBundle,
         PostBundle(td, raw) \/ UpdateBundle(td, raw)
  PROVE  /\ IInv'
         /\ Len(blocks) \in Nat /\ Len(blocks') = Len(blocks) + 1
         /\ \A i \in 1..Len(blocks) : blocks'[i] = blocks[i]
         /\ blocks'[Len(blocks) + 1].trustDomain = td
         /\ blocks'[Len(blocks) + 1].type # "BundleDeleted"
         /\ \A t \in TrustDomain : bundles'[t] = IF t = td THEN raw ELSE bundles[t]
         /\ Total \in Nat /\ Total <= Total'
         /\ \A k \in 1..Total : trustDomains'[k] = trustDomains[k]
<1>1. IInv'
  BY NextIInv DEF Next
<1>2. PICK type \in EventType : type # "BundleDeleted" /\ Emit(type, td)
  BY DEF PostBundle, UpdateBundle, EventType
<1>3. \A t \in TrustDomain : bundles'[t] = IF t = td THEN raw ELSE bundles[t]
  BY DEF IInv, TypeOK, PostBundle, UpdateBundle
<1>4. Total \in Nat /\ Total = Len(trustDomains) /\ trustDomains \in Seq(TrustDomain)
  BY LenProperties DEF IInv, TypeOK, Total
<1>5. Total <= Total' /\ \A k \in 1..Total : trustDomains'[k] = trustDomains[k]
  <2>1. CASE PostBundle(td, raw)
    BY <1>4, <2>1, AppendProperties DEF PostBundle, Total
  <2>2. CASE UpdateBundle(td, raw)
    BY <1>4, <2>2 DEF UpdateBundle, Total
  <2> QED
    BY <2>1, <2>2
<1>6. TypeOK
  BY DEF IInv
<1> QED
  BY <1>1, <1>2, <1>3, <1>4, <1>5, <1>6, EmitMines

LEMMA DeleteEffect ==
  ASSUME IInv, NEW td \in TrustDomain, DeleteBundle(td)
  PROVE  /\ IInv'
         /\ Len(blocks) \in Nat /\ Len(blocks') = Len(blocks) + 1
         /\ \A i \in 1..Len(blocks) : blocks'[i] = blocks[i]
         /\ blocks'[Len(blocks) + 1].trustDomain = td
         /\ blocks'[Len(blocks) + 1].type = "BundleDeleted"
         /\ \A t \in TrustDomain : bundles'[t] = IF t = td THEN Unset ELSE bundles[t]
<1>1. IInv'
  BY NextIInv DEF Next
<1>2. Emit("BundleDeleted", td) /\ "BundleDeleted" \in EventType
  BY DEF DeleteBundle, EventType
<1>3. \A t \in TrustDomain : bundles'[t] = IF t = td THEN Unset ELSE bundles[t]
  BY DEF IInv, TypeOK, DeleteBundle
<1>4. TypeOK
  BY DEF IInv
<1> QED
  BY <1>1, <1>2, <1>3, <1>4, EmitMines

-----------------------------------------------------------------------------
(* Types                                                                   *)

ScriptState ==
  [pc: {"idle", "exists", "send", "fetch", "set", "crashed"},
   joining: BOOLEAN, present: BOOLEAN, files: [TrustDomain -> Bundle]]

WalkState ==
  [pc: {"idle", "paging", "applying"}, offset: Nat,
   out: Seq(TrustDomain \X RawBundle), began: Nat, found: Bundle]

\* What the state of one script can be: a server that fetches is joining, one
\* whose script is under way has a cluster, and the founders have joined.
ScriptFits(s, r, bundle) ==
  /\ r.pc \in {"fetch", "set"} => r.joining /\ s \in Observed
  /\ r.joining => r.pc \notin {"idle", "crashed"}
  /\ r.pc # "idle" => bundle # Unset
  /\ \A td \in TrustDomain : r.files[td] # Unset => r.pc = "set" /\ td # s
  /\ s \in Range(Founders) => bundle # Unset /\ ~r.joining

ScriptInv == \A s \in TrustDomain : ScriptFits(s, script[s], local[s])

\* The queue holds blocks of the windows polled so far.
QueueInv ==
  \A l \in Observed : lastBlock[l] <= Len(blocks) /\ queue[l] \subseteq 1..lastBlock[l]

BaseInv == ProcessTypeOK /\ ArrayMirrorsMappings /\ ScriptInv /\ QueueInv

LEMMA BaseContract == BaseInv => IInv
BY DEF BaseInv, ProcessTypeOK, IInv

LEMMA BaseBlocks ==
  ASSUME BaseInv
  PROVE  /\ Len(blocks) \in Nat
         /\ \A i \in 1..Len(blocks) : Subject(i) \in TrustDomain
         /\ \A l \in Observed : \A i \in queue[l] : i \in Nat /\ i \in 1..Len(blocks)
<1>1. blocks \in Seq(Event)
  BY BaseContract DEF IInv, TypeOK
<1>2. Len(blocks) \in Nat
  BY <1>1, LenProperties
<1>3. ASSUME NEW i \in 1..Len(blocks) PROVE Subject(i) \in TrustDomain
  <2>1. blocks[i] \in Event
    BY <1>1, ElementOfSeq
  <2> QED
    BY <2>1 DEF Event, Subject
<1>4. ASSUME NEW l \in Observed, NEW i \in queue[l] PROVE i \in Nat /\ i \in 1..Len(blocks)
  <2>1. lastBlock[l] \in Nat /\ lastBlock[l] <= Len(blocks) /\ i \in 1..lastBlock[l]
    BY DEF BaseInv, ProcessTypeOK, QueueInv
  <2> QED
    BY <1>2, <2>1
<1> QED
  BY <1>2, <1>3, <1>4

LEMMA NoFilesTyped == NoFiles \in [TrustDomain -> Bundle] /\ \A td \in TrustDomain : NoFiles[td] = Unset
BY DEF NoFiles, Bundle

LEMMA IdleTyped ==
  /\ Idle \in ScriptState
  /\ Idle.pc = "idle" /\ ~Idle.joining /\ \A td \in TrustDomain : Idle.files[td] = Unset
BY NoFilesTyped DEF Idle, ScriptState

LEMMA NoWalkTyped ==
  /\ NoWalk \in WalkState
  /\ NoWalk.pc = "idle" /\ NoWalk.out = << >> /\ NoWalk.offset = 0 /\ NoWalk.began = 0
  /\ NoWalk.found = Unset
BY EmptySeq DEF NoWalk, WalkState, Bundle

\* One script moves on, to a state that fits its server.
LEMMA ScriptMove ==
  ASSUME BaseInv, NEW s \in TrustDomain, NEW r \in ScriptState,
         script' = [script EXCEPT ![s] = r], ScriptFits(s, r, local'[s]),
         \A t \in TrustDomain \ {s} : local'[t] = local[t]
  PROVE  /\ script' \in [TrustDomain -> ScriptState]
         /\ \A t \in TrustDomain : script'[t] = IF t = s THEN r ELSE script[t]
         /\ ScriptInv'
<1>1. script \in [TrustDomain -> ScriptState]
  BY DEF BaseInv, ProcessTypeOK, ScriptState
<1>2. \A t \in TrustDomain : script'[t] = IF t = s THEN r ELSE script[t]
  BY <1>1
<1>3. script' \in [TrustDomain -> ScriptState]
  BY <1>1
<1>4. ASSUME NEW t \in TrustDomain PROVE ScriptFits(t, script'[t], local'[t])
  <2>1. CASE t = s
    BY <1>2, <2>1
  <2>2. CASE t # s
    BY <1>2, <2>2 DEF BaseInv, ScriptInv
  <2> QED
    BY <2>1, <2>2
<1> QED
  BY <1>2, <1>3, <1>4 DEF ScriptInv, ScriptFits

\* One walk moves on.
LEMMA WalkMove ==
  ASSUME BaseInv, NEW l \in Observed, NEW p \in Process, NEW w \in WalkState,
         walk' = [walk EXCEPT ![l][p] = w]
  PROVE  /\ walk' \in [Observed -> [Process -> WalkState]]
         /\ \A m \in Observed, q \in Process :
              walk'[m][q] = IF m = l /\ q = p THEN w ELSE walk[m][q]
<1>1. walk \in [Observed -> [Process -> WalkState]]
  BY DEF BaseInv, ProcessTypeOK, WalkState
<1> QED
  BY <1>1

LEMMA BeginWalkMove ==
  ASSUME BaseInv, NEW l \in Observed, NEW p \in Process, BeginWalk(l, p)
  PROVE  \E w \in WalkState :
           /\ walk' = [walk EXCEPT ![l][p] = w]
           /\ w.pc = "paging" /\ w.offset = 0 /\ w.out = << >> /\ w.began = Len(blocks)
<1> DEFINE w == [NoWalk EXCEPT !.pc = "paging", !.began = Len(blocks)]
<1>1. w \in WalkState /\ w.pc = "paging" /\ w.offset = 0 /\ w.out = << >> /\ w.began = Len(blocks)
  BY BaseBlocks, EmptySeq DEF NoWalk, WalkState, Bundle
<1> QED
  BY <1>1 DEF BeginWalk

LEMMA TurnPageMove ==
  ASSUME BaseInv, NEW l \in Observed, NEW p \in Process, TurnPage(l, p)
  PROVE  \E w \in WalkState :
           /\ walk' = [walk EXCEPT ![l][p] = w]
           /\ w.pc = "paging" /\ w.began = walk[l][p].began
           /\ w.offset = walk[l][p].offset + PageLimit /\ w.out = Collected(l, p)
<1> DEFINE w == [walk[l][p] EXCEPT !.out = Collected(l, p), !.offset = @ + PageLimit]
<1>1. walk \in [Observed -> [Process -> WalkState]]
  BY DEF BaseInv, ProcessTypeOK, WalkState
<1>2. walk[l][p] \in WalkState
  BY <1>1
<1>3. Collected(l, p) \in Seq(TrustDomain \X RawBundle)
  BY BaseContract, CollectedEntries DEF BaseInv
<1>4. /\ w \in WalkState
      /\ w.pc = walk[l][p].pc /\ w.began = walk[l][p].began
      /\ w.offset = walk[l][p].offset + PageLimit /\ w.out = Collected(l, p)
  <2>1. PICK old \in WalkState : old = walk[l][p]
    BY <1>2
  <2>2. PICK all \in Seq(TrustDomain \X RawBundle) : all = Collected(l, p)
    BY <1>3
  <2>3. old.offset \in Nat /\ old.offset + PageLimit \in Nat
    BY Numbers DEF WalkState
  <2> DEFINE first == [old EXCEPT !.out = all]
             next  == [first EXCEPT !.offset = old.offset + PageLimit]
  <2>4. /\ first \in WalkState
        /\ first.pc = old.pc /\ first.began = old.began /\ first.out = all
    BY DEF WalkState
  <2>5. w = next
    BY <2>1, <2>2
  <2> HIDE DEF first, w
  <2>6. /\ next \in WalkState
        /\ next.pc = first.pc /\ next.began = first.began /\ next.out = first.out
        /\ next.offset = old.offset + PageLimit
    BY <2>3, <2>4 DEF WalkState
  <2> QED
    BY <2>1, <2>2, <2>4, <2>5, <2>6
<1>5. walk' = [walk EXCEPT ![l][p] = w]
  BY <1>1 DEF TurnPage
<1> QED
  BY <1>4, <1>5 DEF TurnPage

LEMMA GotoMove ==
  ASSUME BaseInv, NEW s \in TrustDomain,
         NEW pc \in {"idle", "exists", "send", "fetch", "set", "crashed"}, Goto(s, pc)
  PROVE  \E r \in ScriptState :
           /\ script' = [script EXCEPT ![s] = r]
           /\ r.pc = pc /\ r.joining = script[s].joining
           /\ r.present = script[s].present /\ r.files = script[s].files
<1> DEFINE r == [script[s] EXCEPT !.pc = pc]
<1>1. script \in [TrustDomain -> ScriptState]
  BY DEF BaseInv, ProcessTypeOK, ScriptState
<1>2. script' = [script EXCEPT ![s] = r]
  BY <1>1 DEF Goto
<1>3. script[s] \in ScriptState
  BY <1>1
<1>4. /\ r \in ScriptState /\ r.pc = pc /\ r.joining = script[s].joining
      /\ r.present = script[s].present /\ r.files = script[s].files
  BY <1>3 DEF ScriptState
<1> QED
  BY <1>2, <1>4

LEMMA CheckMove ==
  ASSUME BaseInv, NEW s \in TrustDomain, CheckExists(s)
  PROVE  \E r \in ScriptState :
           /\ script' = [script EXCEPT ![s] = r]
           /\ r.pc = "send" /\ r.joining = script[s].joining
           /\ r.present = bundleExists[s] /\ r.files = script[s].files
<1> DEFINE first == [script[s] EXCEPT !.pc = "send"]
           r     == [first EXCEPT !.present = bundleExists[s]]
<1>1. script \in [TrustDomain -> ScriptState] /\ bundleExists[s] \in BOOLEAN
  BY DEF BaseInv, ProcessTypeOK, ScriptState, TypeOK
<1>2. script' = [script EXCEPT ![s] = r]
  BY <1>1 DEF CheckExists
<1>3. script[s] \in ScriptState
  BY <1>1
<1>4. /\ first \in ScriptState /\ first.pc = "send"
      /\ first.joining = script[s].joining /\ first.files = script[s].files
  BY <1>3 DEF ScriptState
<1> HIDE DEF first
<1>5. /\ r \in ScriptState /\ r.pc = first.pc /\ r.joining = first.joining
      /\ r.present = bundleExists[s] /\ r.files = first.files
  BY <1>1, <1>4 DEF ScriptState
<1> QED
  BY <1>2, <1>4, <1>5

LEMMA AdditionMove ==
  ASSUME BaseInv, NEW s \in TrustDomain, Addition(s)
  PROVE  \E r \in ScriptState :
           /\ script' = [script EXCEPT ![s] = r]
           /\ r.pc = "exists" /\ r.joining /\ r.files = script[s].files
<1> DEFINE first == [script[s] EXCEPT !.pc = "exists"]
           r     == [first EXCEPT !.joining = TRUE]
<1>1. script \in [TrustDomain -> ScriptState]
  BY DEF BaseInv, ProcessTypeOK, ScriptState
<1>2. script' = [script EXCEPT ![s] = r]
  BY <1>1 DEF Addition
<1>3. script[s] \in ScriptState
  BY <1>1
<1>4. first \in ScriptState /\ first.pc = "exists" /\ first.files = script[s].files
  BY <1>3 DEF ScriptState
<1> HIDE DEF first
<1>5. r \in ScriptState /\ r.pc = first.pc /\ r.joining /\ r.files = first.files
  BY <1>4 DEF ScriptState
<1> QED
  BY <1>2, <1>4, <1>5

LEMMA NextFileMove ==
  ASSUME BaseInv, NEW s \in TrustDomain, NEW files \in [TrustDomain -> Bundle],
         files[s] = Unset, script[s].joining, script[s].pc # "idle", s \in Observed
  PROVE  /\ NextFile(s, files) \in ScriptState
         /\ ScriptFits(s, NextFile(s, files), local[s])
         /\ \/ NextFile(s, files) = Idle /\ \A td \in TrustDomain : files[td] = Unset
            \/ /\ NextFile(s, files).pc = "set" /\ NextFile(s, files).joining
               /\ NextFile(s, files).files = files
<1>1. script[s] \in ScriptState /\ ScriptFits(s, script[s], local[s])
  BY DEF BaseInv, ProcessTypeOK, ScriptState, ScriptInv
<1>2. CASE \A td \in TrustDomain \ {s} : files[td] = Unset
  BY <1>1, <1>2, IdleTyped DEF NextFile, ScriptFits
<1>3. CASE ~(\A td \in TrustDomain \ {s} : files[td] = Unset)
  <2> DEFINE first == [script[s] EXCEPT !.pc = "set"]
             r     == [first EXCEPT !.files = files]
  <2>1. NextFile(s, files) = r
    BY <1>3 DEF NextFile
  <2>2. first \in ScriptState /\ first.pc = "set" /\ first.joining = script[s].joining
    BY <1>1 DEF ScriptState
  <2> HIDE DEF first
  <2>3. r \in ScriptState /\ r.pc = first.pc /\ r.joining = first.joining /\ r.files = files
    BY <2>2 DEF ScriptState
  <2> HIDE DEF r
  <2>4. ScriptFits(s, r, local[s])
    BY <1>1, <2>2, <2>3 DEF ScriptFits
  <2> QED
    BY <2>1, <2>2, <2>3, <2>4
<1> QED
  BY <1>2, <1>3

LEMMA AfterPublishMove ==
  ASSUME BaseInv, NEW s \in TrustDomain, script[s].pc \in {"exists", "send"}, AfterPublish(s)
  PROVE  \/ /\ script[s].joining /\ s \in Observed
            /\ BeginWalk(s, "driver")
            /\ \E r \in ScriptState :
                 /\ script' = [script EXCEPT ![s] = r]
                 /\ ScriptFits(s, r, local[s])
                 /\ r.pc = "fetch" /\ r.joining /\ r.files = script[s].files
         \/ /\ ~(script[s].joining /\ s \in Observed)
            /\ script' = [script EXCEPT ![s] = Idle]
            /\ UNCHANGED walk
<1>1. ScriptFits(s, script[s], local[s])
  BY DEF BaseInv, ScriptInv
<1>2. CASE script[s].joining /\ s \in Observed
  <2>1. Goto(s, "fetch") /\ BeginWalk(s, "driver")
    BY <1>2 DEF AfterPublish
  <2>2. PICK r \in ScriptState :
          /\ script' = [script EXCEPT ![s] = r]
          /\ r.pc = "fetch" /\ r.joining = script[s].joining /\ r.files = script[s].files
    BY <2>1, GotoMove
  <2>3. ScriptFits(s, r, local[s])
    BY <1>1, <1>2, <2>2 DEF ScriptFits
  <2> QED
    BY <1>2, <2>1, <2>2, <2>3
<1>3. CASE ~(script[s].joining /\ s \in Observed)
  BY <1>3 DEF AfterPublish
<1> QED
  BY <1>2, <1>3

-----------------------------------------------------------------------------
(* Every action keeps the types                                            *)

ServerType ==
  /\ local \in [TrustDomain -> Bundle]
  /\ status \in [TrustDomain -> {200, 500}]
  /\ held \in [Observed -> [TrustDomain -> Bundle]]
  /\ faults \in 0..MaxFaults

ListenerType ==
  /\ phase \in [Observed -> {"absent", "starting", "running", "exited"}]
  /\ lastBlock \in [Observed -> Nat]
  /\ queue \in [Observed -> SUBSET Nat]
  /\ failed \in [Observed -> SUBSET TrustDomain]
  /\ reordered \in [Observed -> SUBSET TrustDomain]

LEMMA BaseParts ==
  BaseInv <=> /\ IInv /\ ServerType /\ ListenerType
              /\ script \in [TrustDomain -> ScriptState]
              /\ walk \in [Observed -> [Process -> WalkState]]
              /\ ScriptInv /\ QueueInv
BY DEF BaseInv, ProcessTypeOK, IInv, ServerType, ListenerType, ScriptState, WalkState

LEMMA BaseKept ==
  /\ IInv' /\ ServerType' /\ ListenerType'
  /\ script' \in [TrustDomain -> ScriptState]
  /\ walk' \in [Observed -> [Process -> WalkState]]
  /\ ScriptInv' /\ QueueInv'
  => BaseInv'
BY DEF BaseInv, ProcessTypeOK, IInv, ServerType, ListenerType, ScriptState, WalkState

LEMMA FaultTyped == faults \in 0..MaxFaults /\ Fault => faults' \in 0..MaxFaults
BY BoundsAssumption DEF Fault

LEMMA AdditionBase == ASSUME BaseInv, NEW s \in TrustDomain, Addition(s) PROVE BaseInv'
<1>1. PICK r \in ScriptState :
        /\ script' = [script EXCEPT ![s] = r]
        /\ r.pc = "exists" /\ r.joining /\ r.files = script[s].files
  BY AdditionMove
<1>2. ServerType' /\ local'[s] = 1 /\ 1 # Unset /\ \A t \in TrustDomain \ {s} : local'[t] = local[t]
  BY BaseParts, Numbers DEF Addition, ServerType, Bundle
<1>3. ScriptFits(s, r, local'[s])
  BY <1>1, <1>2 DEF BaseInv, ScriptInv, ScriptFits, Addition
<1>4. script' \in [TrustDomain -> ScriptState] /\ ScriptInv'
  BY <1>1, <1>2, <1>3, ScriptMove
<1>5. IInv' /\ ListenerType' /\ QueueInv' /\ walk' \in [Observed -> [Process -> WalkState]]
  BY BaseParts DEF Addition, contractVars, vars, IInv, TypeOK, ArrayMirrorsMappings,
                   ListenerType, QueueInv
<1> QED
  BY <1>2, <1>4, <1>5, BaseKept

LEMMA RotationBase == ASSUME BaseInv, NEW s \in TrustDomain, Rotation(s) PROVE BaseInv'
<1>1. PICK r \in ScriptState :
        /\ script' = [script EXCEPT ![s] = r]
        /\ r.pc = "exists" /\ r.joining = script[s].joining /\ r.files = script[s].files
  BY GotoMove DEF Rotation
<1>2. ServerType' /\ local'[s] # Unset /\ \A t \in TrustDomain \ {s} : local'[t] = local[t]
  <2>1. local[s] \in 1..MaxVersion /\ local[s] < MaxVersion /\ local' = [local EXCEPT ![s] = local[s] + 1]
    BY BaseParts, VersionAssumption DEF Rotation, ServerType, Bundle
  <2>2. local[s] + 1 \in RawBundle
    BY <2>1, BoundsAssumption, VersionAssumption
  <2> QED
    BY <2>1, <2>2, BaseParts, Numbers DEF Rotation, ServerType, Bundle
<1>3. ScriptFits(s, r, local'[s])
  BY <1>1, <1>2 DEF BaseInv, ScriptInv, ScriptFits, Rotation
<1>4. script' \in [TrustDomain -> ScriptState] /\ ScriptInv'
  BY <1>1, <1>2, <1>3, ScriptMove
<1>5. IInv' /\ ListenerType' /\ QueueInv' /\ walk' \in [Observed -> [Process -> WalkState]]
  BY BaseParts DEF Rotation, contractVars, listenerVars, vars, IInv, TypeOK, ArrayMirrorsMappings,
                   ListenerType, QueueInv
<1> QED
  BY <1>2, <1>4, <1>5, BaseKept

LEMMA RemovalBase == ASSUME BaseInv, NEW s \in TrustDomain, Removal(s) PROVE BaseInv'
<1>1. IInv' /\ QueueInv'
  <2>1. CASE DeleteBundle(s)
    BY <2>1, BaseParts, DeleteEffect DEF Removal, listenerVars, QueueInv, ListenerType
  <2>2. CASE UNCHANGED contractVars
    BY <2>2, BaseParts DEF Removal, listenerVars, contractVars, vars, QueueInv,
                           IInv, TypeOK, ArrayMirrorsMappings
  <2> QED
    BY <2>1, <2>2 DEF Removal
<1>2. ServerType'
  BY BaseParts, FaultTyped DEF Removal, ServerType
<1>3. /\ ListenerType' /\ ScriptInv' /\ script' \in [TrustDomain -> ScriptState]
      /\ walk' \in [Observed -> [Process -> WalkState]]
  BY BaseParts DEF Removal, listenerVars, ListenerType, ScriptInv, ScriptFits
<1> QED
  BY <1>1, <1>2, <1>3, BaseKept

LEMMA CheckBase == ASSUME BaseInv, NEW s \in TrustDomain, CheckExists(s) PROVE BaseInv'
<1>1. PICK r \in ScriptState :
        /\ script' = [script EXCEPT ![s] = r]
        /\ r.pc = "send" /\ r.joining = script[s].joining /\ r.files = script[s].files
  BY CheckMove
<1>2. ScriptFits(s, r, local'[s])
  BY <1>1 DEF BaseInv, ScriptInv, ScriptFits, CheckExists
<1>3. script' \in [TrustDomain -> ScriptState] /\ ScriptInv'
  BY <1>1, <1>2, ScriptMove DEF CheckExists
<1>4. IInv' /\ ListenerType' /\ QueueInv' /\ ServerType' /\ walk' \in [Observed -> [Process -> WalkState]]
  BY BaseParts DEF CheckExists, contractVars, listenerVars, vars, IInv, TypeOK,
                   ArrayMirrorsMappings, ListenerType, QueueInv, ServerType
<1> QED
  BY <1>3, <1>4, BaseKept

\* What a script does once its publish is answered.
LEMMA AfterPublishBase ==
  ASSUME BaseInv, NEW s \in TrustDomain, script[s].pc \in {"exists", "send"}, AfterPublish(s),
         UNCHANGED local
  PROVE  /\ script' \in [TrustDomain -> ScriptState] /\ ScriptInv'
         /\ walk' \in [Observed -> [Process -> WalkState]]
<1>1. CASE script[s].joining /\ s \in Observed
  <2>1. BeginWalk(s, "driver") /\
        \E r \in ScriptState : script' = [script EXCEPT ![s] = r] /\ ScriptFits(s, r, local[s])
    BY <1>1, AfterPublishMove
  <2>2. PICK r \in ScriptState : script' = [script EXCEPT ![s] = r] /\ ScriptFits(s, r, local[s])
    BY <2>1
  <2>3. PICK w \in WalkState : walk' = [walk EXCEPT ![s]["driver"] = w]
    BY <1>1, <2>1, BeginWalkMove DEF Process
  <2>4. walk' \in [Observed -> [Process -> WalkState]]
    BY <1>1, <2>3, WalkMove DEF Process
  <2> QED
    BY <2>2, <2>4, ScriptMove
<1>2. CASE ~(script[s].joining /\ s \in Observed)
  <2>1. script' = [script EXCEPT ![s] = Idle] /\ UNCHANGED walk
    BY <1>2, AfterPublishMove
  <2>2. ScriptFits(s, Idle, local[s])
    BY IdleTyped DEF BaseInv, ScriptInv, ScriptFits
  <2>3. script' \in [TrustDomain -> ScriptState] /\ ScriptInv'
    BY <2>1, <2>2, IdleTyped, ScriptMove
  <2> QED
    BY <2>1, <2>3, BaseParts
<1> QED
  BY <1>1, <1>2

\* The transaction of an upsert publishes the server's current bundle.
LEMMA UpsertPublished ==
  ASSUME BaseInv, NEW s \in TrustDomain, script[s].pc = "send", UpsertTransaction(s)
  PROVE  local[s] \in RawBundle /\ (PostBundle(s, local[s]) \/ UpdateBundle(s, local[s]))
<1>1. local[s] \in RawBundle
  BY BaseParts DEF ScriptInv, ScriptFits, ServerType, Bundle
<1> QED
  BY <1>1 DEF UpsertTransaction

LEMMA SendBase == ASSUME BaseInv, NEW s \in TrustDomain, SendUpsert(s) PROVE BaseInv'
<1>1. IInv' /\ QueueInv'
  <2>1. local[s] \in RawBundle /\ (PostBundle(s, local[s]) \/ UpdateBundle(s, local[s]))
    BY UpsertPublished DEF SendUpsert
  <2> QED
    BY <2>1, BaseParts, PublishEffect DEF SendUpsert, listenerVars, QueueInv, ListenerType
<1>2. ServerType'
  BY BaseParts, FaultTyped DEF SendUpsert, ServerType
<1>3. /\ script' \in [TrustDomain -> ScriptState] /\ ScriptInv'
      /\ walk' \in [Observed -> [Process -> WalkState]]
  BY AfterPublishBase DEF SendUpsert
<1>4. ListenerType'
  BY BaseParts DEF SendUpsert, listenerVars, ListenerType
<1> QED
  BY <1>1, <1>2, <1>3, <1>4, BaseKept

LEMMA UnpublishedBase ==
  ASSUME BaseInv, NEW s \in TrustDomain, UpsertReverts(s) \/ UpsertFails(s)
  PROVE  BaseInv'
<1>1. /\ UNCHANGED <<contractVars, local, listenerVars, held>>
      /\ status' = [status EXCEPT ![s] = 500]
      /\ UNCHANGED faults \/ Fault
      /\ script[s].pc \in {"exists", "send"} /\ AfterPublish(s)
  BY DEF UpsertReverts, UpsertFails
<1>2. IInv' /\ QueueInv' /\ ListenerType'
  BY <1>1, BaseParts DEF contractVars, vars, IInv, TypeOK, ArrayMirrorsMappings, QueueInv,
                         listenerVars, ListenerType
<1>3. ServerType'
  BY <1>1, BaseParts, FaultTyped DEF ServerType
<1>4. /\ script' \in [TrustDomain -> ScriptState] /\ ScriptInv'
      /\ walk' \in [Observed -> [Process -> WalkState]]
  BY <1>1, AfterPublishBase
<1> QED
  BY <1>2, <1>3, <1>4, BaseKept

LEMMA TurnPageBase ==
  ASSUME BaseInv, NEW l \in Observed, NEW p \in Process, TurnPage(l, p) PROVE BaseInv'
<1>1. PICK w \in WalkState : walk' = [walk EXCEPT ![l][p] = w]
  BY TurnPageMove
<1>2. walk' \in [Observed -> [Process -> WalkState]]
  BY <1>1, WalkMove
<1>3. /\ IInv' /\ ListenerType' /\ QueueInv' /\ ServerType'
      /\ script' \in [TrustDomain -> ScriptState] /\ ScriptInv'
  BY BaseParts DEF TurnPage, contractVars, driverVars, listenerVars, vars, IInv, TypeOK,
       ArrayMirrorsMappings, ListenerType, QueueInv, ServerType, ScriptInv, ScriptFits
<1> QED
  BY <1>2, <1>3, BaseKept

LEMMA EndWalkTyped ==
  ASSUME BaseInv, NEW l \in Observed, NEW p \in Process, EndWalk(l, p)
  PROVE  walk' \in [Observed -> [Process -> WalkState]]
BY NoWalkTyped, WalkMove DEF EndWalk

LEMMA WriteBase == ASSUME BaseInv, NEW s \in TrustDomain, s \in Observed, WriteFiles(s) PROVE BaseInv'
<1>1. PICK files \in [TrustDomain -> Bundle] :
        files[s] = Unset /\ script' = [script EXCEPT ![s] = NextFile(s, files)]
  BY DEF WriteFiles
<1>2. script[s].joining /\ script[s].pc # "idle"
  BY BaseParts DEF WriteFiles, ScriptInv, ScriptFits
<1>3. NextFile(s, files) \in ScriptState /\ ScriptFits(s, NextFile(s, files), local[s])
  BY <1>1, <1>2, NextFileMove
<1>4. script' \in [TrustDomain -> ScriptState] /\ ScriptInv'
  BY <1>1, <1>3, ScriptMove DEF WriteFiles
<1>5. walk' \in [Observed -> [Process -> WalkState]]
  BY EndWalkTyped DEF WriteFiles, Process
<1>6. IInv' /\ ListenerType' /\ QueueInv' /\ ServerType'
  BY BaseParts DEF WriteFiles, contractVars, listenerVars, vars, IInv, TypeOK,
       ArrayMirrorsMappings, ListenerType, QueueInv, ServerType
<1> QED
  BY <1>4, <1>5, <1>6, BaseKept

\* Importing a file leaves the others to import.
LEMMA SetMove ==
  ASSUME BaseInv, NEW s \in TrustDomain, NEW td \in TrustDomain, s \in Observed,
         SetOneBundle(s, td)
  PROVE  /\ script[s].pc = "set" /\ script[s].joining
         /\ script[s].files[td] \in RawBundle /\ td # s
         /\ \A m \in Observed, t \in TrustDomain :
              held'[m][t] = IF m = s /\ t = td THEN script[s].files[td] ELSE held[m][t]
         /\ held' \in [Observed -> [TrustDomain -> Bundle]]
         /\ \E files \in [TrustDomain -> Bundle] :
              /\ files[s] = Unset
              /\ \A t \in TrustDomain : files[t] = IF t = td THEN Unset ELSE script[s].files[t]
              /\ script' = [script EXCEPT ![s] = NextFile(s, files)]
<1>1. script[s] \in ScriptState /\ ScriptFits(s, script[s], local[s])
  BY BaseParts DEF ScriptInv
<1>2. script[s].pc = "set" /\ script[s].files[td] # Unset
  BY DEF SetOneBundle
<1>3. script[s].files \in [TrustDomain -> Bundle] /\ script[s].files[td] \in RawBundle
  BY <1>1, <1>2 DEF ScriptState, Bundle
<1>4. script[s].joining /\ td # s /\ script[s].files[s] = Unset
  BY <1>1, <1>2 DEF ScriptFits
<1>5. held \in [Observed -> [TrustDomain -> Bundle]]
      /\ held' = [held EXCEPT ![s][td] = script[s].files[td]]
  BY BaseParts DEF ServerType, SetOneBundle
<1>6. /\ \A m \in Observed, t \in TrustDomain :
           held'[m][t] = IF m = s /\ t = td THEN script[s].files[td] ELSE held[m][t]
      /\ held' \in [Observed -> [TrustDomain -> Bundle]]
  BY <1>3, <1>5 DEF Bundle
<1> DEFINE files == [script[s].files EXCEPT ![td] = Unset]
<1>7. /\ files \in [TrustDomain -> Bundle]
      /\ \A t \in TrustDomain : files[t] = IF t = td THEN Unset ELSE script[s].files[t]
  BY <1>3 DEF Bundle
<1>8. script' = [script EXCEPT ![s] = NextFile(s, files)]
  BY DEF SetOneBundle
<1> HIDE DEF files
<1> QED
  BY <1>2, <1>3, <1>4, <1>6, <1>7, <1>8

LEMMA SetBase ==
  ASSUME BaseInv, NEW s \in TrustDomain, NEW td \in TrustDomain, s \in Observed,
         SetOneBundle(s, td)
  PROVE  BaseInv'
<1>1. PICK files \in [TrustDomain -> Bundle] :
        files[s] = Unset /\ script' = [script EXCEPT ![s] = NextFile(s, files)]
  BY SetMove
<1>2. /\ script[s].joining /\ script[s].pc # "idle"
      /\ held' \in [Observed -> [TrustDomain -> Bundle]]
  BY SetMove
<1>3. NextFile(s, files) \in ScriptState /\ ScriptFits(s, NextFile(s, files), local[s])
  BY <1>1, <1>2, NextFileMove
<1>4. script' \in [TrustDomain -> ScriptState] /\ ScriptInv'
  BY <1>1, <1>3, ScriptMove DEF SetOneBundle
<1>5. /\ IInv' /\ ListenerType' /\ QueueInv' /\ ServerType'
      /\ walk' \in [Observed -> [Process -> WalkState]]
  BY <1>2, BaseParts DEF SetOneBundle, contractVars, listenerVars, vars, IInv, TypeOK,
       ArrayMirrorsMappings, ListenerType, QueueInv, ServerType
<1> QED
  BY <1>4, <1>5, BaseKept

\* A script that crashed.
LEMMA CrashedTyped ==
  /\ [Idle EXCEPT !.pc = "crashed"] \in ScriptState
  /\ [Idle EXCEPT !.pc = "crashed"].pc = "crashed"
  /\ ~[Idle EXCEPT !.pc = "crashed"].joining
  /\ \A td \in TrustDomain : [Idle EXCEPT !.pc = "crashed"].files[td] = Unset
BY NoFilesTyped DEF Idle, ScriptState

LEMMA CrashBase == ASSUME BaseInv, NEW s \in Observed, FetchCrashes(s) PROVE BaseInv'
<1> DEFINE r == [Idle EXCEPT !.pc = "crashed"]
<1>1. s \in TrustDomain
  BY ServersAssumption
<1>2. r \in ScriptState /\ r.pc = "crashed" /\ ~r.joining /\ \A td \in TrustDomain : r.files[td] = Unset
  BY CrashedTyped
<1>3. script' = [script EXCEPT ![s] = r]
  BY DEF FetchCrashes
<1> HIDE DEF r
<1>4. ScriptFits(s, r, local[s])
  BY <1>1, <1>2, BaseParts DEF ScriptInv, ScriptFits, FetchCrashes
<1>5. script' \in [TrustDomain -> ScriptState] /\ ScriptInv'
  BY <1>1, <1>2, <1>3, <1>4, ScriptMove DEF FetchCrashes
<1>6. walk' \in [Observed -> [Process -> WalkState]]
  BY EndWalkTyped DEF FetchCrashes, Process
<1>7. IInv' /\ ListenerType' /\ QueueInv' /\ ServerType'
  BY BaseParts, FaultTyped DEF FetchCrashes, contractVars, listenerVars, vars, IInv, TypeOK,
       ArrayMirrorsMappings, ListenerType, QueueInv, ServerType
<1> QED
  BY <1>5, <1>6, <1>7, BaseKept

\* A step of the listener changes nothing of the contract or of the scripts.
LEMMA ListenerKept ==
  ASSUME BaseInv, UNCHANGED contractVars, UNCHANGED driverVars,
         ListenerType', QueueInv', walk' \in [Observed -> [Process -> WalkState]],
         held' \in [Observed -> [TrustDomain -> Bundle]], faults' \in 0..MaxFaults
  PROVE  BaseInv'
<1>1. IInv' /\ ServerType' /\ script' \in [TrustDomain -> ScriptState] /\ ScriptInv'
  BY BaseParts DEF contractVars, driverVars, vars, IInv, TypeOK, ArrayMirrorsMappings,
       ServerType, ScriptInv, ScriptFits
<1> QED
  BY <1>1, BaseKept

LEMMA SubscribeBase == ASSUME BaseInv, NEW l \in Observed, Subscribe(l) PROVE BaseInv'
<1>1. Len(blocks) \in Nat
  BY BaseBlocks
<1>2. ListenerType' /\ UNCHANGED <<contractVars, driverVars, walk, held, faults>>
  BY <1>1, BaseParts DEF Subscribe, ListenerType
<1>3. QueueInv'
  <2> SUFFICES ASSUME NEW m \in Observed
               PROVE  lastBlock'[m] <= Len(blocks)' /\ queue'[m] \subseteq 1..lastBlock'[m]
    BY DEF QueueInv
  <2>1. /\ lastBlock[m] \in Nat /\ lastBlock[m] <= Len(blocks) /\ queue[m] \subseteq 1..lastBlock[m]
        /\ lastBlock'[m] = IF m = l THEN Len(blocks) ELSE lastBlock[m]
        /\ queue' = queue /\ blocks' = blocks
    BY BaseParts DEF Subscribe, ListenerType, QueueInv, contractVars, vars
  <2> QED
    BY <1>1, <2>1
<1> QED
  BY <1>2, <1>3, BaseParts, ListenerKept DEF ServerType

\* The window of a poll.
LEMMA PollMove ==
  ASSUME BaseInv, NEW l \in Observed, Poll(l)
  PROVE  /\ ListenerType'
         /\ \A m \in Observed :
              /\ lastBlock'[m] = IF m = l THEN Len(blocks) ELSE lastBlock[m]
              /\ queue'[m] = IF m = l THEN (lastBlock[l] + 1)..Len(blocks) ELSE queue[m]
              /\ reordered'[m] =
                   IF m = l THEN (reordered[l] \ Touched(Window(l))) \cup PublishedAgain(Window(l))
                   ELSE reordered[m]
              /\ phase'[m] = phase[m] /\ failed'[m] = failed[m]
         /\ Window(l) = (lastBlock[l] + 1)..Len(blocks) /\ Window(l) \subseteq 1..Len(blocks)
         /\ queue[l] = {} /\ Running(l) /\ lastBlock[l] < Len(blocks)
         /\ lastBlock[l] \in Nat /\ Len(blocks) \in Nat
         /\ UNCHANGED <<contractVars, driverVars, walk, held, faults>>
<1>1. Len(blocks) \in Nat /\ lastBlock[l] \in Nat
  BY BaseBlocks, BaseParts DEF ListenerType
<1>2. Window(l) = (lastBlock[l] + 1)..Len(blocks) /\ Window(l) \subseteq 1..Len(blocks)
  BY <1>1 DEF Window
<1>3. PublishedAgain(Window(l)) \subseteq TrustDomain
  BY <1>2, BaseBlocks DEF PublishedAgain
<1>4. Window(l) \in SUBSET Nat
  BY <1>1, <1>2
<1> DEFINE again == PublishedAgain(Window(l))
           touched == Touched(Window(l))
<1> HIDE DEF again, touched
<1>5. ListenerType
  BY BaseParts
<1>6. /\ queue' = [queue EXCEPT ![l] = Window(l)]
      /\ lastBlock' = [lastBlock EXCEPT ![l] = Len(blocks)]
      /\ reordered' = [reordered EXCEPT ![l] = (@ \ touched) \cup again]
      /\ UNCHANGED <<phase, failed>>
  BY DEF Poll, again, touched
<1>7. (reordered[l] \ touched) \cup again \in SUBSET TrustDomain
  BY <1>3, <1>5 DEF ListenerType, again
<1>8. ListenerType'
  BY <1>1, <1>4, <1>5, <1>6, <1>7 DEF ListenerType
<1>9. \A m \in Observed :
        /\ lastBlock'[m] = IF m = l THEN Len(blocks) ELSE lastBlock[m]
        /\ queue'[m] = IF m = l THEN Window(l) ELSE queue[m]
        /\ reordered'[m] = IF m = l THEN (reordered[l] \ touched) \cup again ELSE reordered[m]
        /\ phase'[m] = phase[m] /\ failed'[m] = failed[m]
  BY <1>5, <1>6 DEF ListenerType
<1>10. /\ queue[l] = {} /\ Running(l) /\ lastBlock[l] < Len(blocks)
       /\ UNCHANGED <<contractVars, driverVars, walk, held, faults>>
  BY <1>1 DEF Poll
<1> QED
  BY <1>1, <1>2, <1>8, <1>9, <1>10 DEF again, touched

LEMMA PollBase == ASSUME BaseInv, NEW l \in Observed, Poll(l) PROVE BaseInv'
<1>1. QueueInv'
  <2> SUFFICES ASSUME NEW m \in Observed
               PROVE  lastBlock'[m] <= Len(blocks)' /\ queue'[m] \subseteq 1..lastBlock'[m]
    BY DEF QueueInv
  <2>1. /\ lastBlock'[m] = IF m = l THEN Len(blocks) ELSE lastBlock[m]
        /\ queue'[m] = IF m = l THEN Window(l) ELSE queue[m]
        /\ Window(l) \subseteq 1..Len(blocks)
        /\ Len(blocks) \in Nat
    BY PollMove
  <2>2. lastBlock[m] \in Nat /\ lastBlock[m] <= Len(blocks) /\ queue[m] \subseteq 1..lastBlock[m]
        /\ blocks' = blocks
    BY BaseParts DEF ListenerType, QueueInv, Poll, contractVars, vars
  <2> QED
    BY <2>1, <2>2
<1>2. ListenerType' /\ UNCHANGED <<contractVars, driverVars, walk, held, faults>>
  BY PollMove
<1> QED
  BY <1>1, <1>2, BaseParts, ListenerKept DEF ServerType

\* An event leaves the queue.
LEMMA DoneMove ==
  ASSUME BaseInv, NEW l \in Observed, NEW i \in queue[l], Done(l, i)
  PROVE  /\ queue' \in [Observed -> SUBSET Nat]
         /\ \A m \in Observed : queue'[m] = IF m = l THEN queue[l] \ {i} ELSE queue[m]
BY BaseParts DEF ListenerType, Done

LEMMA FailedMove ==
  ASSUME BaseInv, NEW l \in Observed, NEW i \in queue[l], Succeed(l, i) \/ LogError(l, i)
  PROVE  /\ Done(l, i)
         /\ failed' \in [Observed -> SUBSET TrustDomain]
         /\ \A m \in Observed : m # l => failed'[m] = failed[m]
         /\ Succeed(l, i) => failed'[l] = failed[l] \ {Subject(i)}
         /\ LogError(l, i) => failed'[l] = failed[l] \cup {Subject(i)}
<1>1. Subject(i) \in TrustDomain
  BY BaseBlocks
<1> DEFINE td == Subject(i)
<1> HIDE DEF td
<1>2. failed \in [Observed -> SUBSET TrustDomain] /\ td \in TrustDomain
  BY <1>1, BaseParts DEF ListenerType, td
<1>3. CASE Succeed(l, i)
  <2>1. failed' = [failed EXCEPT ![l] = @ \ {td}] /\ Done(l, i)
    BY <1>3 DEF Succeed, td
  <2>2. /\ failed' \in [Observed -> SUBSET TrustDomain]
        /\ \A m \in Observed : m # l => failed'[m] = failed[m]
        /\ failed'[l] = failed[l] \ {td}
    BY <1>2, <2>1
  <2>3. LogError(l, i) => failed'[l] = failed[l] \cup {td}
    BY <1>2 DEF LogError, td
  <2> QED
    BY <2>1, <2>2, <2>3 DEF td
<1>4. CASE LogError(l, i)
  <2>1. failed' = [failed EXCEPT ![l] = @ \cup {td}] /\ Done(l, i)
    BY <1>4 DEF LogError, td
  <2>2. /\ failed' \in [Observed -> SUBSET TrustDomain]
        /\ \A m \in Observed : m # l => failed'[m] = failed[m]
        /\ failed'[l] = failed[l] \cup {td}
    BY <1>2, <2>1
  <2>3. Succeed(l, i) => failed'[l] = failed[l] \ {td}
    BY <1>2 DEF Succeed, td
  <2> QED
    BY <2>1, <2>2, <2>3 DEF td
<1> QED
  BY <1>3, <1>4

LEMMA DoneQueue ==
  ASSUME BaseInv, NEW l \in Observed, NEW i \in queue[l], Done(l, i), UNCHANGED <<lastBlock, blocks>>
  PROVE  QueueInv'
<1>1. \A m \in Observed : queue'[m] \subseteq queue[m]
  BY DoneMove
<1> QED
  BY <1>1, BaseParts DEF QueueInv

\* The bundle that a completed walk finds is one it collected.
LEMMA FindsMove ==
  ASSUME BaseInv, NEW l \in Observed, NEW i \in queue[l], FetchFinds(l, i)
  PROVE  \E w \in WalkState, k \in DOMAIN Collected(l, "listener") :
           /\ walk' = [walk EXCEPT ![l]["listener"] = w]
           /\ w.pc = "applying" /\ w.out = << >> /\ w.began = 0
           /\ w.found = Collected(l, "listener")[k][2] /\ w.found \in RawBundle
           /\ Collected(l, "listener")[k][1] = Subject(i)
<1> DEFINE all == Collected(l, "listener")
<1>1. PICK k \in Named(all, Subject(i)) :
        walk' = [walk EXCEPT ![l]["listener"] = [NoWalk EXCEPT !.pc = "applying", !.found = all[k][2]]]
  BY DEF FetchFinds
<1>2. k \in DOMAIN all /\ all[k][1] = Subject(i)
  BY <1>1 DEF Named
<1>3. all \in Seq(TrustDomain \X RawBundle) /\ DOMAIN all = 1..Len(all)
  BY BaseContract, CollectedEntries DEF BaseInv, Process
<1>4. all[k] \in TrustDomain \X RawBundle
  BY <1>2, <1>3, ElementOfSeq
<1>5. PICK raw \in RawBundle : raw = all[k][2]
  BY <1>4
<1> DEFINE w == [NoWalk EXCEPT !.pc = "applying", !.found = raw]
<1>6. /\ w \in WalkState /\ w.pc = "applying" /\ w.out = << >> /\ w.began = 0 /\ w.found = raw
  BY EmptySeq DEF NoWalk, WalkState, Bundle
<1> QED
  BY <1>1, <1>2, <1>5, <1>6

LEMMA HandlerBase ==
  ASSUME BaseInv, NEW l \in Observed, NEW i \in queue[l],
         \/ IgnoreOwn(l, i) \/ BeginFetch(l, i) \/ FetchFinds(l, i) \/ FetchMisses(l, i)
         \/ ApplyBundle(l, i) \/ DeleteHeld(l, i) \/ HandlerFails(l, i)
  PROVE  BaseInv'
<1>1. /\ ListenerType /\ QueueInv /\ ServerType
      /\ walk \in [Observed -> [Process -> WalkState]]
  BY BaseParts
<1>2. UNCHANGED contractVars /\ UNCHANGED driverVars /\ UNCHANGED <<phase, lastBlock, reordered>>
  BY DEF IgnoreOwn, BeginFetch, FetchFinds, FetchMisses, ApplyBundle, DeleteHeld, HandlerFails,
         listenerVars
<1>3. UNCHANGED <<lastBlock, blocks>>
  BY <1>2 DEF contractVars, vars
<1>4. ASSUME UNCHANGED failed, Done(l, i)
      PROVE  ListenerType' /\ QueueInv'
  BY <1>1, <1>2, <1>3, <1>4, DoneMove, DoneQueue DEF ListenerType
<1>5. ASSUME Succeed(l, i) \/ LogError(l, i)
      PROVE  ListenerType' /\ QueueInv'
  BY <1>1, <1>2, <1>3, <1>5, FailedMove, DoneMove, DoneQueue DEF ListenerType
<1>6. ASSUME UNCHANGED <<queue, failed>>
      PROVE  ListenerType' /\ QueueInv'
  BY <1>1, <1>2, <1>3, <1>6 DEF ListenerType, QueueInv
<1>7. CASE IgnoreOwn(l, i)
  BY <1>1, <1>2, <1>4, <1>7, ListenerKept DEF IgnoreOwn, ServerType
<1>8. CASE BeginFetch(l, i)
  <2>1. PICK w \in WalkState : walk' = [walk EXCEPT ![l]["listener"] = w]
    BY <1>8, BeginWalkMove DEF BeginFetch, Process
  <2>2. walk' \in [Observed -> [Process -> WalkState]]
    BY <2>1, WalkMove DEF Process
  <2>3. UNCHANGED <<queue, failed>>
    BY <1>8 DEF BeginFetch, listenerVars
  <2> QED
    BY <1>1, <1>2, <1>6, <1>8, <2>2, <2>3, ListenerKept DEF BeginFetch, ServerType
<1>9. CASE FetchFinds(l, i)
  <2>1. PICK w \in WalkState : walk' = [walk EXCEPT ![l]["listener"] = w]
    BY <1>9, FindsMove
  <2>2. walk' \in [Observed -> [Process -> WalkState]]
    BY <2>1, WalkMove DEF Process
  <2>3. UNCHANGED <<queue, failed>>
    BY <1>9 DEF FetchFinds, listenerVars
  <2> QED
    BY <1>1, <1>2, <1>6, <1>9, <2>2, <2>3, ListenerKept DEF FetchFinds, ServerType
<1>10. CASE FetchMisses(l, i)
  <2>1. walk' \in [Observed -> [Process -> WalkState]]
    BY <1>10, EndWalkTyped DEF FetchMisses, Process
  <2> QED
    BY <1>1, <1>2, <1>5, <1>10, <2>1, ListenerKept DEF FetchMisses, ServerType
<1>11. CASE ApplyBundle(l, i)
  <2>1. walk' \in [Observed -> [Process -> WalkState]]
    BY <1>11, EndWalkTyped DEF ApplyBundle, Process
  <2>2. walk[l]["listener"].found \in Bundle
    BY <1>1 DEF WalkState, Process
  <2>3. held' \in [Observed -> [TrustDomain -> Bundle]]
    BY <1>1, <1>11, <2>2 DEF ApplyBundle, ServerType
  <2> QED
    BY <1>1, <1>2, <1>5, <1>11, <2>1, <2>3, ListenerKept DEF ApplyBundle, ServerType
<1>12. CASE DeleteHeld(l, i)
  <2>1. held' \in [Observed -> [TrustDomain -> Bundle]]
    BY <1>1, <1>12 DEF DeleteHeld, ServerType, Bundle
  <2>2. Succeed(l, i) \/ LogError(l, i)
    BY <1>12 DEF DeleteHeld
  <2> QED
    BY <1>1, <1>2, <1>5, <1>12, <2>1, <2>2, ListenerKept DEF DeleteHeld, ServerType
<1>13. CASE HandlerFails(l, i)
  <2>1. walk' \in [Observed -> [Process -> WalkState]]
    BY <1>13, EndWalkTyped DEF HandlerFails, Process
  <2> QED
    BY <1>1, <1>2, <1>5, <1>13, <2>1, ListenerKept, FaultTyped DEF HandlerFails, ServerType
<1> QED
  BY <1>7, <1>8, <1>9, <1>10, <1>11, <1>12, <1>13

LEMMA ExitBase == ASSUME BaseInv, NEW l \in Observed, ListenerExits(l) PROVE BaseInv'
<1>1. ListenerType' /\ QueueInv'
  BY BaseParts DEF ListenerExits, ListenerType, QueueInv, contractVars, vars
<1> QED
  BY <1>1, BaseParts, ListenerKept, FaultTyped DEF ListenerExits, ServerType

\* A step of the federation, by the server that takes it.
LEMMA Steps ==
  ASSUME FederationNext
  PROVE  \/ \E s \in TrustDomain : Addition(s) \/ Rotation(s) \/ Removal(s)
         \/ \E s \in TrustDomain :
              CheckExists(s) \/ SendUpsert(s) \/ UpsertReverts(s) \/ UpsertFails(s)
         \/ \E s \in TrustDomain :
              /\ s \in Observed
              /\ WriteFiles(s) \/ \E td \in TrustDomain : SetOneBundle(s, td)
         \/ \E l \in Observed : FetchCrashes(l) \/ Subscribe(l) \/ Poll(l) \/ ListenerExits(l)
         \/ \E l \in Observed, p \in Process : TurnPage(l, p)
         \/ \E l \in Observed : \E i \in queue[l] :
              /\ Handling(l, i)
              /\ \/ IgnoreOwn(l, i) \/ BeginFetch(l, i) \/ FetchFinds(l, i)
                 \/ FetchMisses(l, i) \/ ApplyBundle(l, i) \/ DeleteHeld(l, i)
                 \/ HandlerFails(l, i)
BY Zenon DEF FederationNext, DriverStep, ListenerStep, HandleEvent, Process

LEMMA BaseNext == BaseInv /\ [FederationNext]_federationVars => BaseInv'
<1> SUFFICES ASSUME BaseInv, [FederationNext]_federationVars PROVE BaseInv'
  OBVIOUS
<1>1. CASE FederationNext
  BY <1>1, Steps, AdditionBase, RotationBase, RemovalBase, CheckBase, SendBase, UnpublishedBase,
     WriteBase, SetBase, CrashBase, SubscribeBase, PollBase, ExitBase, TurnPageBase, HandlerBase
<1>2. CASE UNCHANGED federationVars
  <2>1. UNCHANGED contractVars /\ UNCHANGED driverVars /\ UNCHANGED listenerVars
        /\ UNCHANGED <<walk, held, faults>>
    BY <1>2 DEF federationVars
  <2>2. ListenerType' /\ QueueInv'
    BY <2>1, BaseParts DEF contractVars, vars, listenerVars, ListenerType, QueueInv
  <2> QED
    BY <2>1, <2>2, BaseParts, ListenerKept DEF ServerType
<1> QED
  BY <1>1, <1>2

\* The federation that the founders leave behind.
LEMMA Founded ==
  ASSUME FederationInit
  PROVE  /\ Range(Founders) \subseteq TrustDomain
         /\ Len(Founders) \in Nat /\ Len(blocks) = Len(Founders)
         /\ blocks \in Seq(Event)
         /\ \A i \in 1..Len(blocks) : ~IsDeletion(i)
         /\ \A td \in TrustDomain :
              /\ bundles[td] = IF td \in Range(Founders) THEN 1 ELSE Unset
              /\ local[td] = bundles[td]
              /\ bundleExists[td] = (td \in Range(Founders))
         /\ \A l \in Observed, td \in TrustDomain :
              held[l][td] = IF l \in Range(Founders) /\ td # l THEN bundles[td] ELSE Unset
         /\ trustDomains = Founders
<1> DEFINE n == Len(Founders)
           e(i) == [type |-> "BundlePosted", trustDomain |-> Founders[i]]
<1>1. Founders \in Seq(TrustDomain) /\ n \in Nat /\ DOMAIN Founders = 1..n
  BY FoundersAssumption, LenProperties
<1>2. Range(Founders) \subseteq TrustDomain
  BY <1>1, RangeOfSeq
<1>3. \A i \in 1..n : Founders[i] \in TrustDomain
  BY <1>1, ElementOfSeq
<1>4. \A i \in 1..n : e(i) \in Event /\ e(i).type = "BundlePosted"
  BY <1>3 DEF Event, EventType
<1>5. blocks = [i \in 1..n |-> e(i)]
  BY DEF FederationInit
<1> HIDE DEF e
<1>6. blocks \in Seq(Event)
  BY <1>1, <1>4, <1>5, IsASeq
<1>7. DOMAIN blocks = 1..n
  BY <1>5
<1>8. Len(blocks) = n
  BY <1>1, <1>6, <1>7, LenProperties
<1>9. \A i \in 1..n : ~IsDeletion(i)
  BY <1>4, <1>5 DEF IsDeletion
<1>10. \A td \in TrustDomain :
         /\ bundles[td] = IF td \in Range(Founders) THEN 1 ELSE Unset
         /\ local[td] = bundles[td]
         /\ bundleExists[td] = (td \in Range(Founders))
  BY DEF FederationInit
<1>11. \A l \in Observed, td \in TrustDomain :
         held[l][td] = IF l \in Range(Founders) /\ td # l THEN bundles[td] ELSE Unset
  BY DEF FederationInit
<1>12. trustDomains = Founders
  BY DEF FederationInit
<1> QED
  BY <1>1, <1>2, <1>6, <1>8, <1>9, <1>10, <1>11, <1>12

LEMMA BaseInit == FederationInit => BaseInv
<1> SUFFICES ASSUME FederationInit PROVE BaseInv
  OBVIOUS
<1>1. 1 \in Bundle /\ Unset \in Bundle /\ 1 # Unset /\ 0 \in 0..MaxFaults
  BY Numbers, BoundsAssumption DEF Bundle
<1>2. IInv
  <2>1. bundles \in [TrustDomain -> RawBundle \cup {Unset}] /\ bundleExists \in [TrustDomain -> BOOLEAN]
    BY Numbers DEF FederationInit
  <2>2. TypeOK
    BY <2>1, Founded, FoundersAssumption DEF TypeOK
  <2>3. ArrayMirrorsMappings
    BY <1>1, Founded, FoundersAssumption DEF ArrayMirrorsMappings
  <2> QED
    BY <2>2, <2>3 DEF IInv
<1>3. ServerType
  <2>1. /\ local \in [TrustDomain -> Bundle] /\ status \in [TrustDomain -> {200, 500}]
        /\ faults \in 0..MaxFaults
    BY <1>1 DEF FederationInit
  <2>2. \A td \in TrustDomain : (IF td \in Range(Founders) THEN 1 ELSE Unset) \in Bundle
    BY <1>1
  <2>3. held \in [Observed -> [TrustDomain -> Bundle]]
    BY <1>1, <2>2 DEF FederationInit
  <2> QED
    BY <2>1, <2>3 DEF ServerType
<1>4. ListenerType
  BY Founded DEF FederationInit, ListenerType
<1>5. script \in [TrustDomain -> ScriptState]
  BY IdleTyped DEF FederationInit
<1>6. walk \in [Observed -> [Process -> WalkState]]
  BY NoWalkTyped DEF FederationInit
<1>7. ScriptInv
  BY <1>1, IdleTyped, Founded DEF FederationInit, ScriptInv, ScriptFits
<1>8. QueueInv
  BY Founded DEF FederationInit, QueueInv
<1> QED
  BY <1>2, <1>3, <1>4, <1>5, <1>6, <1>7, <1>8, BaseParts

LEMMA BaseInvariance == FederationSpec => []BaseInv
<1> QED
  BY BaseInit, BaseNext, PTL DEF FederationSpec

LateType == late \in [Observed -> SUBSET TrustDomain]

\* The steps that change what is late, and how.
LEMMA LateSteps ==
  ASSUME FederationNext
  PROVE  \/ UNCHANGED late
         \/ \E s \in TrustDomain : (SendUpsert(s) \/ Removal(s)) /\ Changed(s)
         \/ \E s \in Observed : WriteFiles(s)
         \/ \E l \in Observed : \E i \in queue[l] :
              Handling(l, i) /\ (ApplyBundle(l, i) \/ DeleteHeld(l, i)) /\ Succeed(l, i)
<1>1. ASSUME NEW s \in TrustDomain,
             \/ Addition(s) \/ Rotation(s) \/ CheckExists(s) \/ UpsertReverts(s) \/ UpsertFails(s)
             \/ \E td \in TrustDomain : SetOneBundle(s, td)
      PROVE  UNCHANGED late
  BY <1>1 DEF Addition, Rotation, CheckExists, UpsertReverts, UpsertFails, SetOneBundle
<1>2. ASSUME NEW s \in TrustDomain, SendUpsert(s) PROVE Changed(s)
  BY <1>2 DEF SendUpsert
<1>3. ASSUME NEW s \in TrustDomain, Removal(s) PROVE UNCHANGED late \/ Changed(s)
  BY <1>3 DEF Removal
<1>4. ASSUME NEW l \in Observed,
             FetchCrashes(l) \/ Subscribe(l) \/ Poll(l) \/ ListenerExits(l)
             \/ \E p \in Process : TurnPage(l, p)
      PROVE  UNCHANGED late
  BY <1>4 DEF FetchCrashes, Subscribe, Poll, ListenerExits, TurnPage
<1>5. ASSUME NEW l \in Observed, NEW i \in queue[l],
             \/ IgnoreOwn(l, i) \/ BeginFetch(l, i) \/ FetchFinds(l, i) \/ FetchMisses(l, i)
             \/ HandlerFails(l, i)
      PROVE  UNCHANGED late
  BY <1>5 DEF IgnoreOwn, BeginFetch, FetchFinds, FetchMisses, HandlerFails
<1>6. ASSUME NEW l \in Observed, NEW i \in queue[l], ApplyBundle(l, i) \/ DeleteHeld(l, i)
      PROVE  UNCHANGED late \/ Succeed(l, i)
  BY <1>6 DEF ApplyBundle, DeleteHeld
<1> QED
  BY <1>1, <1>2, <1>3, <1>4, <1>5, <1>6, Steps, ServersAssumption

LEMMA LateNext == ASSUME BaseInv, LateType, [FederationNext]_federationVars PROVE LateType'
<1>1. CASE UNCHANGED federationVars
  BY <1>1 DEF federationVars, LateType
<1>2. ASSUME NEW s \in TrustDomain, Changed(s) PROVE LateType'
  BY <1>2 DEF Changed, LateType
<1>3. ASSUME NEW s \in Observed, WriteFiles(s) PROVE LateType'
  <2>1. late' = [late EXCEPT ![s] = @ \cup Overlooked(s)] /\ Overlooked(s) \subseteq TrustDomain
    BY <1>3 DEF WriteFiles, Overlooked
  <2> QED
    BY <2>1 DEF LateType
<1>4. ASSUME NEW l \in Observed, NEW i \in queue[l], Succeed(l, i) PROVE LateType'
  BY <1>4 DEF Succeed, LateType
<1> QED
  BY <1>1, <1>2, <1>3, <1>4, LateSteps DEF LateType

LEMMA LateInvariance == FederationSpec => []LateType
<1>1. FederationInit => LateType
  BY DEF FederationInit, LateType
<1> QED
  BY <1>1, LateNext, BaseInvariance, PTL DEF FederationSpec

\* The state of the federation always has its type, and the contract's array
\* agrees with its mappings under every interleaving of scripts and listeners.
THEOREM FederationTypes == FederationSpec => [](FederationTypeOK /\ ArrayMirrorsMappings)
<1>1. BaseInv /\ LateType => FederationTypeOK /\ ArrayMirrorsMappings
  BY DEF BaseInv, LateType, FederationTypeOK
<1> QED
  BY <1>1, BaseInvariance, LateInvariance, PTL


-----------------------------------------------------------------------------
(* What a step does to each part of the state                              *)

\* Server s publishes its current bundle, or withdraws it; the listeners and
\* their servers' stores do not notice.
Publication(s) ==
  /\ local[s] \in RawBundle
  /\ PostBundle(s, local[s]) \/ UpdateBundle(s, local[s])
  /\ UNCHANGED <<local, listenerVars, held>>

Withdrawal(s) ==
  /\ DeleteBundle(s)
  /\ UNCHANGED <<local, script, listenerVars, held, walk>>

LEMMA ContractSteps ==
  ASSUME BaseInv, FederationNext
  PROVE  \/ UNCHANGED contractVars
         \/ \E s \in TrustDomain : SendUpsert(s) /\ Publication(s)
         \/ \E s \in TrustDomain : Removal(s) /\ Withdrawal(s)
<1>1. ASSUME NEW s \in TrustDomain, SendUpsert(s) PROVE Publication(s)
  BY <1>1, UpsertPublished DEF SendUpsert, Publication
<1>2. ASSUME NEW s \in TrustDomain, Removal(s) PROVE UNCHANGED contractVars \/ Withdrawal(s)
  BY <1>2 DEF Removal, Withdrawal
<1>3. ASSUME NEW s \in TrustDomain,
             \/ Addition(s) \/ Rotation(s) \/ CheckExists(s) \/ UpsertReverts(s) \/ UpsertFails(s)
             \/ WriteFiles(s) \/ \E td \in TrustDomain : SetOneBundle(s, td)
      PROVE  UNCHANGED contractVars
  BY <1>3 DEF Addition, Rotation, CheckExists, UpsertReverts, UpsertFails, WriteFiles, SetOneBundle
<1>4. ASSUME NEW l \in Observed,
             FetchCrashes(l) \/ Subscribe(l) \/ Poll(l) \/ ListenerExits(l)
             \/ \E p \in Process : TurnPage(l, p)
      PROVE  UNCHANGED contractVars
  BY <1>4 DEF FetchCrashes, Subscribe, Poll, ListenerExits, TurnPage
<1>5. ASSUME NEW l \in Observed, NEW i \in queue[l],
             \/ IgnoreOwn(l, i) \/ BeginFetch(l, i) \/ FetchFinds(l, i) \/ FetchMisses(l, i)
             \/ ApplyBundle(l, i) \/ DeleteHeld(l, i) \/ HandlerFails(l, i)
      PROVE  UNCHANGED contractVars
  BY <1>5 DEF IgnoreOwn, BeginFetch, FetchFinds, FetchMisses, ApplyBundle, DeleteHeld, HandlerFails
<1> QED
  BY <1>1, <1>2, <1>3, <1>4, <1>5, Steps

\* What happens to a walk: it begins, turns a page, ends, or rests.
Begins(l, p) ==
  /\ walk'[l][p].pc = "paging" /\ walk'[l][p].offset = 0 /\ walk'[l][p].out = << >>
  /\ walk'[l][p].began = Len(blocks)

Ends(l, p) ==
  /\ walk'[l][p].pc # "paging" /\ walk'[l][p].out = << >> /\ walk'[l][p].began = 0
  /\ UNCHANGED contractVars

LEMMA BeginWalkEffect ==
  ASSUME BaseInv, NEW l \in Observed, NEW p \in Process, BeginWalk(l, p)
  PROVE  Begins(l, p) /\ \A m \in Observed, q \in Process :
                           m # l \/ q # p => walk'[m][q] = walk[m][q]
<1>1. PICK w \in WalkState :
        /\ walk' = [walk EXCEPT ![l][p] = w]
        /\ w.pc = "paging" /\ w.offset = 0 /\ w.out = << >> /\ w.began = Len(blocks)
  BY BeginWalkMove
<1>2. \A m \in Observed, q \in Process :
        walk'[m][q] = IF m = l /\ q = p THEN w ELSE walk[m][q]
  BY ZenonT(30), <1>1, WalkMove
<1> QED
  BY <1>1, <1>2 DEF Begins

LEMMA EndWalkEffect ==
  ASSUME BaseInv, NEW l \in Observed, NEW p \in Process, EndWalk(l, p)
  PROVE  /\ walk'[l][p] = NoWalk
         /\ \A m \in Observed, q \in Process : m # l \/ q # p => walk'[m][q] = walk[m][q]
BY NoWalkTyped, WalkMove DEF EndWalk

LEMMA TurnPageEffect ==
  ASSUME BaseInv, NEW l \in Observed, NEW p \in Process, TurnPage(l, p)
  PROVE  /\ walk'[l][p].pc = "paging" /\ walk'[l][p].began = walk[l][p].began
         /\ walk'[l][p].offset = walk[l][p].offset + PageLimit
         /\ walk'[l][p].out = Collected(l, p)
         /\ \A m \in Observed, q \in Process : m # l \/ q # p => walk'[m][q] = walk[m][q]
<1>1. PICK w \in WalkState :
        /\ walk' = [walk EXCEPT ![l][p] = w]
        /\ w.pc = "paging" /\ w.began = walk[l][p].began
        /\ w.offset = walk[l][p].offset + PageLimit /\ w.out = Collected(l, p)
  BY TurnPageMove
<1>2. \A m \in Observed, q \in Process :
        walk'[m][q] = IF m = l /\ q = p THEN w ELSE walk[m][q]
  BY <1>1, WalkMove
<1> QED
  BY <1>1, <1>2

LEMMA FindsEffect ==
  ASSUME BaseInv, NEW l \in Observed, NEW i \in queue[l], FetchFinds(l, i)
  PROVE  /\ walk'[l]["listener"].pc = "applying" /\ walk'[l]["listener"].out = << >>
         /\ walk'[l]["listener"].began = 0
         /\ \A m \in Observed, q \in Process :
              m # l \/ q # "listener" => walk'[m][q] = walk[m][q]
         /\ \E k \in DOMAIN Collected(l, "listener") :
              /\ Collected(l, "listener")[k][1] = Subject(i)
              /\ Collected(l, "listener")[k][2] = walk'[l]["listener"].found
              /\ walk'[l]["listener"].found \in RawBundle
<1>1. \E w \in WalkState, k \in DOMAIN Collected(l, "listener") :
           /\ walk' = [walk EXCEPT ![l]["listener"] = w]
           /\ w.pc = "applying" /\ w.out = << >> /\ w.began = 0
           /\ w.found = Collected(l, "listener")[k][2] /\ w.found \in RawBundle
           /\ Collected(l, "listener")[k][1] = Subject(i)
  BY FindsMove
<1>2. PICK w \in WalkState :
           /\ walk' = [walk EXCEPT ![l]["listener"] = w]
           /\ w.pc = "applying" /\ w.out = << >> /\ w.began = 0
           /\ \E k \in DOMAIN Collected(l, "listener") :
                /\ w.found = Collected(l, "listener")[k][2] /\ w.found \in RawBundle
                /\ Collected(l, "listener")[k][1] = Subject(i)
  BY <1>1
<1>3. \A m \in Observed, q \in Process :
        walk'[m][q] = IF m = l /\ q = "listener" THEN w ELSE walk[m][q]
  <2>1. "listener" \in Process
    BY DEF Process
  <2>2. walk' = [walk EXCEPT ![l]["listener"] = w]
    BY <1>2
  <2> QED
    BY <2>1, <2>2, WalkMove
<1>4. walk'[l]["listener"] = w
  BY <1>3 DEF Process
<1> QED
  BY <1>2, <1>3, <1>4

LEMMA AfterPublishWalk ==
  ASSUME BaseInv, NEW s \in TrustDomain, script[s].pc \in {"exists", "send"}, AfterPublish(s),
         NEW m \in Observed, NEW q \in Process
  PROVE  \/ walk'[m][q] = walk[m][q]
         \/ m = s /\ q = "driver" /\ Begins(m, q)
BY AfterPublishMove, BeginWalkEffect DEF Process

LEMMA WalkSteps ==
  ASSUME BaseInv, FederationNext, NEW m \in Observed, NEW q \in Process
  PROVE  \/ walk'[m][q] = walk[m][q]
         \/ Begins(m, q)
         \/ TurnPage(m, q)
         \/ Ends(m, q)
<1>1. ASSUME NEW s \in TrustDomain,
             Addition(s) \/ Rotation(s) \/ Removal(s) \/ CheckExists(s)
             \/ \E td \in TrustDomain : SetOneBundle(s, td)
      PROVE  walk'[m][q] = walk[m][q]
  BY <1>1 DEF Addition, Rotation, Removal, CheckExists, SetOneBundle
<1>2. ASSUME NEW s \in TrustDomain, SendUpsert(s) \/ UpsertReverts(s) \/ UpsertFails(s)
      PROVE  walk'[m][q] = walk[m][q] \/ Begins(m, q)
  <2>1. AfterPublish(s) /\ script[s].pc \in {"exists", "send"}
    BY <1>2 DEF SendUpsert, UpsertReverts, UpsertFails
  <2> QED
    BY <2>1, AfterPublishWalk
<1>3. ASSUME NEW s \in Observed, NEW p \in Process, EndWalk(s, p), UNCHANGED contractVars
      PROVE  walk'[m][q] = walk[m][q] \/ Ends(m, q)
  <2>1. walk'[s][p] = NoWalk /\ (m # s \/ q # p => walk'[m][q] = walk[m][q])
    BY <1>3, EndWalkEffect
  <2> QED
    BY <1>3, <2>1, NoWalkTyped DEF Ends
<1>4. ASSUME NEW s \in TrustDomain, s \in Observed, WriteFiles(s) \/ FetchCrashes(s)
      PROVE  walk'[m][q] = walk[m][q] \/ Ends(m, q)
  BY <1>3, <1>4 DEF WriteFiles, FetchCrashes, Process
<1>5. ASSUME NEW l \in Observed, Subscribe(l) \/ Poll(l) \/ ListenerExits(l)
      PROVE  walk'[m][q] = walk[m][q]
  BY <1>5 DEF Subscribe, Poll, ListenerExits
<1>6. ASSUME NEW l \in Observed, NEW p \in Process, TurnPage(l, p)
      PROVE  walk'[m][q] = walk[m][q] \/ TurnPage(m, q)
  <2>1. m # l \/ q # p => walk'[m][q] = walk[m][q]
    BY <1>6, TurnPageEffect
  <2> QED
    BY <1>6, <2>1
<1>7. ASSUME NEW l \in Observed, NEW i \in queue[l],
             IgnoreOwn(l, i) \/ DeleteHeld(l, i)
      PROVE  walk'[m][q] = walk[m][q]
  BY <1>7 DEF IgnoreOwn, DeleteHeld
<1>8. ASSUME NEW l \in Observed, NEW i \in queue[l], BeginFetch(l, i)
      PROVE  walk'[m][q] = walk[m][q] \/ Begins(m, q)
  <2>1. BeginWalk(l, "listener")
    BY <1>8 DEF BeginFetch
  <2>2. Begins(l, "listener") /\ (m # l \/ q # "listener" => walk'[m][q] = walk[m][q])
    BY <2>1, BeginWalkEffect DEF Process
  <2> QED
    BY <2>2
<1>9. ASSUME NEW l \in Observed, NEW i \in queue[l], FetchFinds(l, i)
      PROVE  walk'[m][q] = walk[m][q] \/ Ends(m, q)
  <2>1. /\ walk'[l]["listener"].pc = "applying" /\ walk'[l]["listener"].out = << >>
        /\ walk'[l]["listener"].began = 0
        /\ m # l \/ q # "listener" => walk'[m][q] = walk[m][q]
    BY <1>9, FindsEffect
  <2>2. UNCHANGED contractVars
    BY <1>9 DEF FetchFinds
  <2> QED
    BY <2>1, <2>2 DEF Ends
<1>10. ASSUME NEW l \in Observed, NEW i \in queue[l],
              FetchMisses(l, i) \/ ApplyBundle(l, i) \/ HandlerFails(l, i)
       PROVE  walk'[m][q] = walk[m][q] \/ Ends(m, q)
  BY <1>3, <1>10 DEF FetchMisses, ApplyBundle, HandlerFails, Process
<1>11. Observed \subseteq TrustDomain
  BY ServersAssumption
<1> QED
  BY <1>1, <1>2, <1>4, <1>5, <1>6, <1>7, <1>8, <1>9, <1>10, <1>11, Steps

LEMMA BlocksGrow ==
  ASSUME BaseInv, FederationNext
  PROVE  /\ Len(blocks) \in Nat /\ Len(blocks)' \in Nat /\ Len(blocks) <= Len(blocks)'
         /\ \A i \in 1..Len(blocks) : blocks'[i] = blocks[i]
<1>1. Len(blocks) \in Nat /\ IInv
  BY BaseBlocks, BaseContract
<1>2. CASE UNCHANGED contractVars
  BY <1>1, <1>2 DEF contractVars, vars
<1>3. CASE \E s \in TrustDomain : Publication(s)
  BY <1>1, <1>3, PublishEffect DEF Publication
<1>4. CASE \E s \in TrustDomain : Withdrawal(s)
  BY <1>1, <1>4, DeleteEffect DEF Withdrawal
<1> QED
  BY <1>2, <1>3, <1>4, ContractSteps

-----------------------------------------------------------------------------
(* Page walks                                                              *)

\* A walk during which nothing was deleted has read the array from its start
\* to its offset, entry by entry: the array only grows behind it.
Walked(l, p) ==
  /\ walk[l][p].began <= Len(blocks)
  /\ walk[l][p].pc = "paging" =>
       \/ \E i \in (walk[l][p].began + 1)..Len(blocks) : IsDeletion(i)
       \/ /\ walk[l][p].offset <= Total
          /\ Len(walk[l][p].out) = walk[l][p].offset
          /\ \A k \in 1..walk[l][p].offset : walk[l][p].out[k][1] = trustDomains[k]

WalkedInv == \A l \in Observed, p \in Process : Walked(l, p)

LEMMA WalkedInit == FederationInit => WalkedInv
<1> SUFFICES ASSUME FederationInit, NEW l \in Observed, NEW p \in Process PROVE Walked(l, p)
  BY DEF WalkedInv
<1>1. walk[l][p] = NoWalk /\ Len(blocks) \in Nat
  BY BaseInit, BaseBlocks DEF FederationInit
<1> QED
  BY <1>1, NoWalkTyped DEF Walked

\* A page that is not the last one is full.
LEMMA FullPage ==
  ASSUME BaseInv, NEW l \in Observed, NEW p \in Process,
         walk[l][p].pc = "paging", ~OnLastPage(l, p),
         Len(walk[l][p].out) = walk[l][p].offset
  PROVE  /\ walk[l][p].offset + PageLimit <= Total
         /\ Len(Collected(l, p)) = walk[l][p].offset + PageLimit
<1> DEFINE offset == walk[l][p].offset
           page   == Page(offset, PageLimit)
<1>1. offset \in Nat /\ IInv /\ ProcessTypeOK
  BY BaseParts, BaseContract DEF WalkState, BaseInv
<1>2. Total \in Nat
  BY <1>1, LenProperties DEF Total, IInv, TypeOK
<1>3. /\ page \in Seq(TrustDomain \X RawBundle)
      /\ Len(page) = IF offset >= Total THEN 0
                     ELSE IF offset + PageLimit <= Total THEN PageLimit ELSE Total - offset
  BY <1>1, PageEntries
<1>4. Len(Collected(l, p)) < Total /\ page # << >>
  <2>1. Len(Collected(l, p)) \in Nat
    BY <1>1, CollectedEntries, LenProperties
  <2> QED
    BY <1>2, <2>1 DEF OnLastPage
<1>5. Len(page) # 0
  BY <1>3, <1>4, EmptySeq
<1>6. Len(Collected(l, p)) = offset + Len(page)
  BY <1>1, CollectedEntries
<1> HIDE DEF offset, page
<1>7. Len(page) = PageLimit /\ offset + PageLimit <= Total
  BY <1>1, <1>2, <1>3, <1>4, <1>5, <1>6, Numbers
<1> QED
  BY <1>6, <1>7 DEF offset

LEMMA TurnPageWalked ==
  ASSUME BaseInv, NEW l \in Observed, NEW p \in Process, Walked(l, p), TurnPage(l, p)
  PROVE  Walked(l, p)'
<1>1. /\ walk'[l][p].pc = "paging" /\ walk'[l][p].began = walk[l][p].began
      /\ walk'[l][p].offset = walk[l][p].offset + PageLimit
      /\ walk'[l][p].out = Collected(l, p)
  BY TurnPageEffect
<1>2. UNCHANGED <<blocks, trustDomains>> /\ walk[l][p].pc = "paging" /\ ~OnLastPage(l, p)
  BY DEF TurnPage, contractVars, vars
<1>3. CASE \E i \in (walk[l][p].began + 1)..Len(blocks) : IsDeletion(i)
  BY <1>1, <1>2, <1>3 DEF Walked, IsDeletion
<1>4. CASE ~ \E i \in (walk[l][p].began + 1)..Len(blocks) : IsDeletion(i)
  <2>1. /\ walk[l][p].offset <= Total
        /\ Len(walk[l][p].out) = walk[l][p].offset
        /\ \A k \in 1..walk[l][p].offset : walk[l][p].out[k][1] = trustDomains[k]
    BY <1>2, <1>4 DEF Walked
  <2>2. /\ walk[l][p].offset + PageLimit <= Total
        /\ Len(Collected(l, p)) = walk[l][p].offset + PageLimit
    BY <1>2, <2>1, FullPage
  <2>3. walk[l][p].offset \in Nat /\ walk[l][p].out \in Seq(TrustDomain \X RawBundle)
    BY BaseParts DEF WalkState
  <2>4. ASSUME NEW k \in 1..(walk[l][p].offset + PageLimit)
        PROVE  Collected(l, p)[k][1] = trustDomains[k]
    <3>1. k \in DOMAIN Collected(l, p)
      BY <2>2, BaseContract, CollectedEntries DEF BaseInv
    <3>2. CASE k \in DOMAIN walk[l][p].out /\ Collected(l, p)[k] = walk[l][p].out[k]
      <4>1. k \in 1..walk[l][p].offset
        BY <2>1, <2>3, <3>2, LenProperties
      <4> QED
        BY <2>1, <3>2, <4>1
    <3>3. CASE /\ k > Len(walk[l][p].out)
               /\ Collected(l, p)[k][1] =
                    trustDomains[walk[l][p].offset + (k - Len(walk[l][p].out))]
      <4>1. walk[l][p].offset + (k - Len(walk[l][p].out)) = k
        BY <2>1, <2>3, Numbers
      <4> QED
        BY <3>3, <4>1
    <3> QED
      BY <3>1, <3>2, <3>3, BaseContract, CollectedEntries DEF BaseInv
  <2> QED
    BY <1>1, <1>2, <2>2, <2>4 DEF Walked, Total
<1> QED
  BY <1>3, <1>4

LEMMA WalkedNext ==
  ASSUME BaseInv, BaseInv', FederationNext, NEW l \in Observed, NEW p \in Process, Walked(l, p)
  PROVE  Walked(l, p)'
<1>1. /\ Len(blocks) \in Nat /\ Len(blocks)' \in Nat /\ Len(blocks) <= Len(blocks)'
      /\ \A i \in 1..Len(blocks) : blocks'[i] = blocks[i]
  BY BlocksGrow
<1>2. walk[l][p].began \in Nat /\ walk[l][p].offset \in Nat /\ Total \in Nat /\ Total' \in Nat
  BY BaseParts, BaseContract, LenProperties DEF WalkState, IInv, TypeOK, Total, BaseInv, ProcessTypeOK
<1>3. CASE Begins(l, p)
  BY <1>1, <1>2, <1>3, EmptySeq DEF Begins, Walked
<1>4. CASE Ends(l, p)
  BY <1>1, <1>4 DEF Ends, Walked
<1>5. CASE TurnPage(l, p)
  BY <1>5, TurnPageWalked
<1>6. CASE walk'[l][p] = walk[l][p]
  <2>1. CASE UNCHANGED contractVars
    BY <1>6, <2>1 DEF contractVars, vars, Walked, Total, IsDeletion
  <2>2. ASSUME NEW s \in TrustDomain, Publication(s) PROVE Walked(l, p)'
    <3>1. /\ Total <= Total' /\ \A k \in 1..Total : trustDomains'[k] = trustDomains[k]
      BY <2>2, BaseContract, PublishEffect DEF Publication
    <3>2. CASE \E i \in (walk[l][p].began + 1)..Len(blocks) : IsDeletion(i)
      <4>1. PICK i \in (walk[l][p].began + 1)..Len(blocks) : IsDeletion(i)
        BY <3>2
      <4>2. i \in 1..Len(blocks) /\ i \in (walk[l][p].began + 1)..Len(blocks)'
        BY <1>1, <1>2
      <4>3. IsDeletion(i)'
        BY <1>1, <4>1, <4>2 DEF IsDeletion
      <4> QED
        BY <1>1, <1>2, <1>6, <4>2, <4>3 DEF Walked
    <3>3. CASE ~ \E i \in (walk[l][p].began + 1)..Len(blocks) : IsDeletion(i)
      <4>1. walk[l][p].began <= Len(blocks)'
        BY <1>1, <1>2 DEF Walked
      <4>2. CASE walk[l][p].pc = "paging"
        <5>1. /\ walk[l][p].offset <= Total
              /\ Len(walk[l][p].out) = walk[l][p].offset
              /\ \A k \in 1..walk[l][p].offset : walk[l][p].out[k][1] = trustDomains[k]
          BY <3>3, <4>2 DEF Walked
        <5>2. walk[l][p].offset <= Total'
          BY <1>2, <3>1, <5>1
        <5>3. ASSUME NEW k \in 1..walk[l][p].offset PROVE walk[l][p].out[k][1] = trustDomains'[k]
          BY <1>2, <3>1, <5>1
        <5> QED
          BY <1>6, <4>1, <5>1, <5>2, <5>3 DEF Walked
      <4> QED
        BY <1>6, <4>1, <4>2 DEF Walked
    <3> QED
      BY <3>2, <3>3
  <2>3. ASSUME NEW s \in TrustDomain, Withdrawal(s) PROVE Walked(l, p)'
    <3>1. PICK i \in Nat : i = Len(blocks) + 1
      BY <1>1
    <3>2. Len(blocks)' = i /\ blocks'[i].type = "BundleDeleted"
      BY <2>3, <3>1, BaseContract, DeleteEffect DEF Withdrawal
    <3>3. i \in (walk[l][p].began + 1)..Len(blocks)' /\ IsDeletion(i)'
      BY <1>1, <1>2, <3>1, <3>2 DEF Walked, IsDeletion
    <3> QED
      BY <1>1, <1>2, <1>6, <3>3 DEF Walked
  <2> QED
    BY <2>1, <2>2, <2>3, ContractSteps
<1> QED
  BY <1>3, <1>4, <1>5, <1>6, WalkSteps

LEMMA WalkedInvariance == FederationSpec => []WalkedInv
<1>1. BaseInv /\ BaseInv' /\ WalkedInv /\ [FederationNext]_federationVars => WalkedInv'
  <2> SUFFICES ASSUME BaseInv, BaseInv', WalkedInv, [FederationNext]_federationVars,
                      NEW l \in Observed, NEW p \in Process
               PROVE  Walked(l, p)'
    BY DEF WalkedInv
  <2>1. Walked(l, p)
    BY DEF WalkedInv
  <2>2. CASE UNCHANGED federationVars
    BY <2>1, <2>2 DEF federationVars, contractVars, vars, Walked, Total, IsDeletion
  <2> QED
    BY <2>1, <2>2, WalkedNext
<1> QED
  BY <1>1, WalkedInit, BaseInvariance, PTL DEF FederationSpec

\* A walk whose last page is there overlooks a member that was on the contract
\* from its first page on only if something was deleted meanwhile.
LEMMA WalkComplete ==
  ASSUME BaseInv, NEW l \in Observed, NEW p \in Process, Walked(l, p), OnLastPage(l, p),
         ~ \E i \in (walk[l][p].began + 1)..Len(blocks) : IsDeletion(i)
  PROVE  /\ Total \in Nat /\ Len(Collected(l, p)) = Total
         /\ \A k \in 1..Total : Collected(l, p)[k][1] = trustDomains[k]
<1> DEFINE offset == walk[l][p].offset
           out    == walk[l][p].out
           all    == Collected(l, p)
<1>1. /\ offset <= Total /\ Len(out) = offset
      /\ \A k \in 1..offset : out[k][1] = trustDomains[k]
  BY DEF Walked, OnLastPage
<1>2. offset \in Nat /\ IInv /\ ProcessTypeOK
  BY BaseParts, BaseContract DEF WalkState, BaseInv
<1>3. Total \in Nat
  BY <1>2, LenProperties DEF Total, IInv, TypeOK
<1>4. /\ Len(Page(offset, PageLimit)) =
           IF offset >= Total THEN 0
           ELSE IF offset + PageLimit <= Total THEN PageLimit ELSE Total - offset
  BY <1>2, PageEntries
<1>5. Len(all) = offset + Len(Page(offset, PageLimit))
  <2>1. Len(Collected(l, p)) = Len(walk[l][p].out) + Len(Page(walk[l][p].offset, PageLimit))
    BY <1>2, CollectedEntries
  <2> QED
    BY <1>1, <2>1
<1>6. Len(all) >= Total \/ Len(Page(offset, PageLimit)) = 0
  BY EmptySeq DEF OnLastPage
<1> HIDE DEF offset, out, all
<1>7. Len(all) = Total
  BY <1>1, <1>2, <1>3, <1>4, <1>5, <1>6, Numbers
<1>8. ASSUME NEW k \in 1..Total PROVE all[k][1] = trustDomains[k]
  <2>1. \/ k \in DOMAIN out /\ all[k] = out[k]
        \/ k > Len(out) /\ all[k][1] = trustDomains[offset + (k - Len(out))]
    BY <1>2, <1>7, CollectedEntries DEF offset, out, all
  <2>2. DOMAIN out = 1..Len(out)
    BY BaseParts, LenProperties DEF WalkState, out
  <2>3. offset + (k - offset) = k
    BY <1>2
  <2> QED
    BY <1>1, <1>2, <2>1, <2>2, <2>3
<1> QED
  BY <1>3, <1>7, <1>8 DEF all

\* get_bundles overlooks a member only when a deletion moves array entries
\* while it turns pages, whatever the page size and however long the walk.
THEOREM OnlyRemovalsHideMembers == FederationSpec => []PageMissNeedsRemoval
<1>1. BaseInv /\ WalkedInv => PageMissNeedsRemoval
  <2> SUFFICES ASSUME BaseInv, WalkedInv, NEW l \in Observed, NEW p \in Process,
                      OnLastPage(l, p), NEW td \in Missed(l, p),
                      ~ \E i \in (walk[l][p].began + 1)..Len(blocks) : IsDeletion(i)
               PROVE  FALSE
    BY DEF PageMissNeedsRemoval, IsDeletion
  <2>1. Walked(l, p)
    BY DEF WalkedInv
  <2>2. /\ Total \in Nat /\ Len(Collected(l, p)) = Total
        /\ \A k \in 1..Total : Collected(l, p)[k][1] = trustDomains[k]
    BY <2>1, WalkComplete
  <2>3. DOMAIN Collected(l, p) = 1..Total
    BY <2>2, BaseContract, CollectedEntries DEF BaseInv
  <2>4. td \in TrustDomain /\ bundleExists[td]
        /\ \A i \in DOMAIN Collected(l, p) : Collected(l, p)[i][1] # td
    BY DEF Missed, Throughout
  <2>5. DOMAIN trustDomains = 1..Total
    BY BaseContract, LenProperties DEF IInv, TypeOK, Total
  <2>6. PICK k \in 1..Total : trustDomains[k] = td
    BY <2>4, <2>5 DEF BaseInv, ArrayMirrorsMappings, Range
  <2> QED
    BY <2>2, <2>3, <2>4, <2>6
<1> QED
  BY <1>1, BaseInvariance, WalkedInvariance, PTL

-----------------------------------------------------------------------------
(* What a step does to one listener                                        *)

\* Neither listener m nor its process moves.
Rests(m) ==
  /\ phase'[m] = phase[m] /\ lastBlock'[m] = lastBlock[m] /\ queue'[m] = queue[m]
  /\ failed'[m] = failed[m] /\ reordered'[m] = reordered[m]
  /\ walk'[m]["listener"] = walk[m]["listener"]

Handles(l, i) ==
  \/ IgnoreOwn(l, i) \/ BeginFetch(l, i) \/ FetchFinds(l, i) \/ FetchMisses(l, i)
  \/ ApplyBundle(l, i) \/ DeleteHeld(l, i) \/ HandlerFails(l, i)

\* A handler leaves the contract, the scripts and the polling alone, and what
\* it does to the queue, the failed domains and the walk it does to its own.
LEMMA HandlerEffect ==
  ASSUME BaseInv, NEW l \in Observed, NEW i \in queue[l], Handles(l, i)
  PROVE  /\ UNCHANGED contractVars /\ UNCHANGED driverVars
         /\ UNCHANGED <<phase, lastBlock, reordered>>
         /\ \A m \in Observed : m # l =>
              /\ queue'[m] = queue[m] /\ failed'[m] = failed[m]
              /\ walk'[m]["listener"] = walk[m]["listener"]
         /\ \A m \in Observed : walk'[m]["driver"] = walk[m]["driver"]
         /\ UNCHANGED queue \/ queue'[l] = queue[l] \ {i}
         /\ failed'[l] \subseteq failed[l] \cup {Subject(i)}
         /\ failed[l] \ {Subject(i)} \subseteq failed'[l]
<1>1. UNCHANGED contractVars /\ UNCHANGED driverVars /\ UNCHANGED <<phase, lastBlock, reordered>>
  BY DEF Handles, IgnoreOwn, BeginFetch, FetchFinds, FetchMisses, ApplyBundle, DeleteHeld,
         HandlerFails, listenerVars
<1>2. \/ UNCHANGED <<queue, failed>>
      \/ Done(l, i) /\ UNCHANGED failed
      \/ Succeed(l, i) \/ LogError(l, i)
  BY DEF Handles, IgnoreOwn, BeginFetch, FetchFinds, FetchMisses, ApplyBundle, DeleteHeld,
         HandlerFails, listenerVars
<1>3. /\ \A m \in Observed : m # l => queue'[m] = queue[m] /\ failed'[m] = failed[m]
      /\ UNCHANGED queue \/ queue'[l] = queue[l] \ {i}
      /\ failed'[l] \subseteq failed[l] \cup {Subject(i)}
      /\ failed[l] \ {Subject(i)} \subseteq failed'[l]
  <2>1. CASE UNCHANGED <<queue, failed>>
    BY <2>1
  <2>2. CASE Done(l, i) /\ UNCHANGED failed
    BY <2>2, DoneMove
  <2>3. CASE Succeed(l, i) \/ LogError(l, i)
    <3>1. /\ Done(l, i)
          /\ \A m \in Observed : m # l => failed'[m] = failed[m]
          /\ \/ failed'[l] = failed[l] \ {Subject(i)}
             \/ failed'[l] = failed[l] \cup {Subject(i)}
      BY <2>3, FailedMove
    <3>2. \A m \in Observed : queue'[m] = IF m = l THEN queue[l] \ {i} ELSE queue[m]
      BY <3>1, DoneMove
    <3> QED
      BY <3>1, <3>2
  <2> QED
    BY <1>2, <2>1, <2>2, <2>3
<1>4. \/ UNCHANGED walk
      \/ BeginWalk(l, "listener") \/ EndWalk(l, "listener") \/ FetchFinds(l, i)
  BY DEF Handles, IgnoreOwn, BeginFetch, FetchMisses, ApplyBundle, DeleteHeld, HandlerFails
<1>5. \A m \in Observed, q \in Process :
        m # l \/ q # "listener" => walk'[m][q] = walk[m][q]
  BY <1>4, BeginWalkEffect, EndWalkEffect, FindsEffect DEF Process
<1>6. \A m \in Observed :
        /\ m # l => walk'[m]["listener"] = walk[m]["listener"]
        /\ walk'[m]["driver"] = walk[m]["driver"]
  BY <1>5 DEF Process
<1> QED
  BY <1>1, <1>3, <1>6

LEMMA ListenerSteps ==
  ASSUME BaseInv, FederationNext, NEW m \in Observed
  PROVE  \/ Rests(m)
         \/ Addition(m)
         \/ Subscribe(m) \/ Poll(m) \/ ListenerExits(m)
         \/ TurnPage(m, "listener")
         \/ \E i \in queue[m] : Handling(m, i) /\ Handles(m, i)
<1>1. ASSUME NEW s \in TrustDomain, Addition(s) PROVE Rests(m) \/ Addition(m)
  <2>1. phase' = [l \in Observed |-> IF l = s THEN "starting" ELSE phase[l]]
        /\ UNCHANGED <<lastBlock, queue, failed, reordered, walk>>
    BY <1>1 DEF Addition
  <2>2. m # s => phase'[m] = phase[m]
    BY <2>1
  <2> QED
    BY <1>1, <2>1, <2>2 DEF Rests
<1>2. ASSUME UNCHANGED listenerVars, UNCHANGED walk PROVE Rests(m)
  BY <1>2 DEF Rests, listenerVars
<1>3. ASSUME NEW s \in TrustDomain,
             Rotation(s) \/ Removal(s) \/ CheckExists(s) \/ \E td \in TrustDomain : SetOneBundle(s, td)
      PROVE  Rests(m)
  BY <1>2, <1>3 DEF Rotation, Removal, CheckExists, SetOneBundle
<1>4. ASSUME NEW s \in TrustDomain, SendUpsert(s) \/ UpsertReverts(s) \/ UpsertFails(s)
      PROVE  Rests(m)
  <2>1. /\ AfterPublish(s) /\ script[s].pc \in {"exists", "send"}
        /\ UNCHANGED listenerVars
    BY <1>4 DEF SendUpsert, UpsertReverts, UpsertFails
  <2>2. walk'[m]["listener"] = walk[m]["listener"]
    BY <2>1, AfterPublishWalk DEF Process
  <2> QED
    BY <2>1, <2>2 DEF Rests, listenerVars
<1>5. ASSUME NEW s \in TrustDomain, s \in Observed, WriteFiles(s) \/ FetchCrashes(s)
      PROVE  Rests(m)
  <2>1. EndWalk(s, "driver") /\ UNCHANGED listenerVars
    BY <1>5 DEF WriteFiles, FetchCrashes
  <2>2. walk'[m]["listener"] = walk[m]["listener"]
    BY <1>5, <2>1, EndWalkEffect DEF Process
  <2> QED
    BY <2>1, <2>2 DEF Rests, listenerVars
<1>6. ASSUME NEW l \in Observed, Subscribe(l) PROVE Rests(m) \/ Subscribe(m)
  <2>1. m # l => phase'[m] = phase[m] /\ lastBlock'[m] = lastBlock[m]
    BY <1>6 DEF Subscribe
  <2> QED
    BY <1>6, <2>1 DEF Subscribe, Rests
<1>7. ASSUME NEW l \in Observed, Poll(l) PROVE Rests(m) \/ Poll(m)
  <2>1. m # l => Rests(m)
    BY <1>7, PollMove DEF Rests
  <2> QED
    BY <1>7, <2>1
<1>8. ASSUME NEW l \in Observed, ListenerExits(l) PROVE Rests(m) \/ ListenerExits(m)
  <2>1. m # l => phase'[m] = phase[m]
    BY <1>8 DEF ListenerExits
  <2> QED
    BY <1>8, <2>1 DEF ListenerExits, Rests
<1>9. ASSUME NEW l \in Observed, NEW p \in Process, TurnPage(l, p)
      PROVE  Rests(m) \/ TurnPage(m, "listener")
  <2>1. m # l \/ p # "listener" => walk'[m]["listener"] = walk[m]["listener"]
    BY <1>9, TurnPageEffect DEF Process
  <2>2. UNCHANGED listenerVars
    BY <1>9 DEF TurnPage
  <2> QED
    BY <1>9, <2>1, <2>2 DEF Rests, listenerVars
<1>10. ASSUME NEW l \in Observed, NEW i \in queue[l], Handling(l, i), Handles(l, i)
       PROVE  Rests(m) \/ \E j \in queue[m] : Handling(m, j) /\ Handles(m, j)
  BY <1>10, HandlerEffect DEF Rests
<1>11. Observed \subseteq TrustDomain
  BY ServersAssumption
<1>12. FederationNext =>
         \/ \E s \in TrustDomain :
              \/ Addition(s) \/ Rotation(s) \/ Removal(s) \/ CheckExists(s)
              \/ SendUpsert(s) \/ UpsertReverts(s) \/ UpsertFails(s)
              \/ s \in Observed /\ (WriteFiles(s) \/ FetchCrashes(s))
              \/ \E td \in TrustDomain : SetOneBundle(s, td)
         \/ \E l \in Observed :
              \/ Subscribe(l) \/ Poll(l) \/ ListenerExits(l)
              \/ \E p \in Process : TurnPage(l, p)
              \/ \E i \in queue[l] : Handling(l, i) /\ Handles(l, i)
  BY Zenon, Steps, <1>11 DEF Handles
<1> QED
  BY <1>1, <1>3, <1>4, <1>5, <1>6, <1>7, <1>8, <1>9, <1>10, <1>12

-----------------------------------------------------------------------------
(* The event that is being handled                                         *)

LEMMA BlockKept ==
  ASSUME BaseInv, FederationNext, NEW i \in 1..Len(blocks)
  PROVE  Subject(i)' = Subject(i) /\ IsDeletion(i)' = IsDeletion(i) /\ i \in 1..Len(blocks)'
<1>1. blocks'[i] = blocks[i] /\ Len(blocks) \in Nat /\ Len(blocks)' \in Nat /\ Len(blocks) <= Len(blocks)'
  BY BlocksGrow
<1> QED
  BY <1>1 DEF Subject, IsDeletion

\* The order in which a window's events are yielded is total: at most one
\* event is being handled.
LEMMA OneHandled ==
  ASSUME BaseInv, NEW l \in Observed, NEW i \in queue[l], NEW j \in queue[l],
         Handling(l, i), Handling(l, j)
  PROVE  i = j
<1>1. i \in Nat /\ j \in Nat /\ i \in 1..Len(blocks) /\ j \in 1..Len(blocks)
  BY BaseBlocks
<1>2. blocks \in Seq(Event)
  BY BaseContract DEF IInv, TypeOK
<1>3. blocks[i] \in Event /\ blocks[j] \in Event
  BY <1>1, <1>2, ElementOfSeq
<1>4. blocks[i].type \in EventType /\ blocks[j].type \in EventType
  BY <1>3 DEF Event
<1>5. \A type \in EventType : Turn[type] \in Nat
  BY DEF EventType, Turn
<1> DEFINE ti == Turn[blocks[i].type]
           tj == Turn[blocks[j].type]
<1>6. ti \in Nat /\ tj \in Nat
  BY <1>4, <1>5
<1>7. i # j => YieldedBefore(i, j) /\ YieldedBefore(j, i)
  BY DEF Handling
<1>8. YieldedBefore(i, j) <=> (ti < tj \/ (ti = tj /\ i < j))
  BY DEF YieldedBefore
<1>9. YieldedBefore(j, i) <=> (tj < ti \/ (tj = ti /\ j < i))
  BY DEF YieldedBefore
<1> HIDE DEF ti, tj
<1> QED
  BY <1>1, <1>6, <1>7, <1>8, <1>9

LEMMA HandlingKept ==
  ASSUME BaseInv, FederationNext, NEW l \in Observed, NEW i \in queue[l],
         phase'[l] = phase[l], queue'[l] = queue[l]
  PROVE  Handling(l, i)' <=> Handling(l, i)
<1>1. \A j \in queue[l] : blocks'[j] = blocks[j]
  BY BaseBlocks, BlocksGrow
<1>2. \A j \in queue[l] : YieldedBefore(i, j)' <=> YieldedBefore(i, j)
  BY <1>1 DEF YieldedBefore
<1> QED
  BY <1>2 DEF Handling, Running

\* A listener has no events before it is subscribed, and turns pages only for
\* the publish of a peer that it is handling, since after the poll.
Serves(l) ==
  /\ phase[l] \in {"absent", "starting"} =>
       queue[l] = {} /\ failed[l] = {} /\ walk[l]["listener"].pc = "idle"
  /\ local[l] = Unset => phase[l] = "absent"
  /\ l \in Range(Founders) => phase[l] \notin {"absent", "starting"}
  /\ walk[l]["listener"].pc # "idle" =>
       \E i \in queue[l] : Handling(l, i) /\ Subject(i) # l /\ ~IsDeletion(i)
  /\ walk[l]["listener"].pc = "paging" => lastBlock[l] <= walk[l]["listener"].began

ServesInv == \A l \in Observed : Serves(l)

LEMMA ServesInit == FederationInit => ServesInv
<1> SUFFICES ASSUME FederationInit, NEW l \in Observed PROVE Serves(l)
  BY DEF ServesInv
<1>1. walk[l]["listener"] = NoWalk /\ queue[l] = {} /\ failed[l] = {}
      /\ phase[l] = IF l \in Range(Founders) THEN "running" ELSE "absent"
  BY DEF FederationInit, Process
<1>2. l \in TrustDomain /\ 1 # Unset /\ local[l] = IF l \in Range(Founders) THEN 1 ELSE Unset
  BY Founded, ServersAssumption, Numbers
<1> QED
  BY <1>1, <1>2, NoWalkTyped DEF Serves

LEMMA LocalSteps ==
  ASSUME BaseInv, FederationNext, NEW td \in TrustDomain
  PROVE  \/ local'[td] = local[td]
         \/ local[td] = Unset /\ Addition(td)
         \/ local[td] # Unset /\ local'[td] = local[td] + 1 /\ Rotation(td)
<1>0. local \in [TrustDomain -> Bundle]
  BY BaseParts DEF ServerType
<1>1. ASSUME NEW s \in TrustDomain, Addition(s) \/ Rotation(s)
      PROVE  \/ local'[td] = local[td]
             \/ local[td] = Unset /\ Addition(td)
             \/ local[td] # Unset /\ local'[td] = local[td] + 1 /\ Rotation(td)
  BY <1>0, <1>1 DEF Addition, Rotation
<1>2. ASSUME NEW s \in TrustDomain,
             \/ Removal(s) \/ CheckExists(s) \/ SendUpsert(s) \/ UpsertReverts(s) \/ UpsertFails(s)
             \/ WriteFiles(s) \/ \E t \in TrustDomain : SetOneBundle(s, t)
      PROVE  UNCHANGED local
  BY <1>2 DEF Removal, CheckExists, SendUpsert, UpsertReverts, UpsertFails, WriteFiles, SetOneBundle
<1>3. ASSUME NEW l \in Observed,
             FetchCrashes(l) \/ Subscribe(l) \/ Poll(l) \/ ListenerExits(l)
             \/ \E p \in Process : TurnPage(l, p)
      PROVE  UNCHANGED local
  BY <1>3 DEF FetchCrashes, Subscribe, Poll, ListenerExits, TurnPage, driverVars
<1>4. ASSUME NEW l \in Observed, NEW i \in queue[l], Handles(l, i)
      PROVE  UNCHANGED local
  BY <1>4, HandlerEffect DEF driverVars
<1> QED
  BY <1>1, <1>2, <1>3, <1>4, Steps DEF Handles

LEMMA HandlesServes ==
  ASSUME BaseInv, FederationNext, NEW m \in Observed, Serves(m),
         NEW i \in queue[m], Handling(m, i), Handles(m, i)
  PROVE  Serves(m)'
<1>1. /\ phase'[m] = phase[m] /\ phase[m] = "running" /\ lastBlock'[m] = lastBlock[m]
      /\ local'[m] = local[m] /\ UNCHANGED blocks
  BY HandlerEffect DEF Handling, Running, driverVars, contractVars, vars
<1>2. local[m] # Unset
  BY <1>1 DEF Serves
<1>3. CASE IgnoreOwn(m, i) \/ DeleteHeld(m, i)
  <2>1. Subject(i) = m \/ IsDeletion(i)
    BY <1>3 DEF IgnoreOwn, DeleteHeld
  <2>2. walk[m]["listener"].pc = "idle"
    BY <2>1, OneHandled DEF Serves
  <2>3. walk'[m]["listener"] = walk[m]["listener"]
    BY <1>3 DEF IgnoreOwn, DeleteHeld
  <2> QED
    BY <1>1, <1>2, <2>2, <2>3 DEF Serves
<1>4. CASE BeginFetch(m, i)
  <2>1. BeginWalk(m, "listener") /\ queue'[m] = queue[m] /\ Subject(i) # m /\ ~IsDeletion(i)
    BY <1>4 DEF BeginFetch, listenerVars
  <2>2. walk'[m]["listener"].pc = "paging" /\ walk'[m]["listener"].began = Len(blocks)
    BY <2>1, BeginWalkEffect DEF Process, Begins
  <2>3. Handling(m, i)' /\ lastBlock[m] <= Len(blocks)
    BY <1>1, <2>1, HandlingKept, BaseParts DEF QueueInv
  <2>4. Subject(i)' # m /\ ~IsDeletion(i)'
    BY <1>1, <2>1 DEF Subject, IsDeletion
  <2> QED
    BY <1>1, <1>2, <2>1, <2>2, <2>3, <2>4 DEF Serves
<1>5. CASE FetchFinds(m, i)
  <2>1. queue'[m] = queue[m] /\ walk[m]["listener"].pc = "paging"
    BY <1>5 DEF FetchFinds, listenerVars, OnLastPage
  <2>2. walk'[m]["listener"].pc = "applying"
    BY <1>5, FindsEffect
  <2>3. Subject(i) # m /\ ~IsDeletion(i)
    BY <2>1, OneHandled DEF Serves
  <2>4. Handling(m, i)' /\ Subject(i)' # m /\ ~IsDeletion(i)'
    BY <1>1, <2>1, <2>3, HandlingKept DEF Subject, IsDeletion
  <2> QED
    BY <1>1, <1>2, <2>1, <2>2, <2>4 DEF Serves
<1>6. CASE FetchMisses(m, i) \/ ApplyBundle(m, i) \/ HandlerFails(m, i)
  <2>1. EndWalk(m, "listener")
    BY <1>6 DEF FetchMisses, ApplyBundle, HandlerFails
  <2>2. walk'[m]["listener"].pc = "idle"
    BY <2>1, EndWalkEffect, NoWalkTyped DEF Process
  <2> QED
    BY <1>1, <1>2, <2>2 DEF Serves
<1> QED
  BY <1>3, <1>4, <1>5, <1>6 DEF Handles

LEMMA ServesNext ==
  ASSUME BaseInv, FederationNext, NEW m \in Observed, Serves(m)
  PROVE  Serves(m)'
<1>1. m \in TrustDomain /\ (local'[m] = Unset => local[m] = Unset)
  <2>1. m \in TrustDomain
    BY ServersAssumption
  <2>2. 1 # Unset /\ \A v \in RawBundle : v + 1 # Unset \/ v + 1 \notin Bundle \/ v + 1 = Unset
    BY Numbers
  <2>3. CASE Addition(m)
    BY <2>1, <2>3, Numbers, BaseParts DEF Addition, ServerType
  <2>4. CASE Rotation(m)
    <3>1. local[m] \in 1..MaxVersion /\ local[m] < MaxVersion /\ local' = [local EXCEPT ![m] = local[m] + 1]
      BY <2>1, <2>4, BaseParts, VersionAssumption DEF Rotation, ServerType, Bundle
    <3>2. local[m] + 1 \in RawBundle
      BY <3>1, BoundsAssumption, VersionAssumption
    <3> QED
      BY <2>1, <3>1, <3>2, BaseParts, Numbers DEF ServerType
  <2> QED
    BY <2>1, <2>3, <2>4, LocalSteps
<1>2. \A i \in queue[m] : Subject(i)' = Subject(i) /\ IsDeletion(i)' = IsDeletion(i)
  BY BaseBlocks, BlockKept
<1>3. CASE Rests(m)
  <2>1. phase'[m] = phase[m] /\ queue'[m] = queue[m] /\ failed'[m] = failed[m]
        /\ lastBlock'[m] = lastBlock[m] /\ walk'[m]["listener"] = walk[m]["listener"]
    BY <1>3 DEF Rests
  <2>2. \A i \in queue[m] : Handling(m, i)' <=> Handling(m, i)
    BY <2>1, HandlingKept
  <2> QED
    BY <1>1, <1>2, <2>1, <2>2 DEF Serves
<1>4. CASE Addition(m)
  <2>1. local[m] = Unset /\ UNCHANGED <<queue, failed, walk>> /\ phase'[m] = "starting" /\ local'[m] = 1
    BY <1>1, <1>4, BaseParts DEF Addition, ServerType
  <2>2. m \notin Range(Founders)
    BY <1>1, <2>1, BaseParts DEF ScriptInv, ScriptFits
  <2> QED
    BY <2>1, <2>2, Numbers DEF Serves
<1>5. CASE Subscribe(m)
  <2>1. phase[m] = "starting" /\ phase'[m] = "running" /\ UNCHANGED <<queue, walk, failed, local>>
    BY <1>5, BaseParts DEF Subscribe, ListenerType, driverVars
  <2> QED
    BY <2>1 DEF Serves
<1>6. CASE Poll(m)
  <2>1. queue[m] = {} /\ phase[m] = "running" /\ phase'[m] = phase[m] /\ UNCHANGED <<walk, local>>
    BY <1>6, PollMove DEF Running, driverVars
  <2>2. walk[m]["listener"].pc = "idle"
    BY <2>1 DEF Serves
  <2> QED
    BY <2>1, <2>2 DEF Serves
<1>7. CASE ListenerExits(m)
  <2>1. phase[m] # "absent" /\ phase'[m] = "exited" /\ UNCHANGED <<walk, local>>
        /\ walk[m]["listener"].pc = "idle"
    BY <1>7, BaseParts DEF ListenerExits, ListenerType, driverVars
  <2> QED
    BY <2>1 DEF Serves
<1>8. CASE TurnPage(m, "listener")
  <2>1. /\ UNCHANGED <<phase, queue, failed, local, lastBlock>>
        /\ walk[m]["listener"].pc = "paging"
    BY <1>8 DEF TurnPage, listenerVars, driverVars
  <2>2. /\ walk'[m]["listener"].pc = "paging"
        /\ walk'[m]["listener"].began = walk[m]["listener"].began
    BY <1>8, TurnPageEffect DEF Process
  <2>3. \A i \in queue[m] : Handling(m, i)' <=> Handling(m, i)
    BY <2>1, HandlingKept
  <2> QED
    BY <1>2, <2>1, <2>2, <2>3 DEF Serves
<1>9. CASE \E i \in queue[m] : Handling(m, i) /\ Handles(m, i)
  BY <1>9, HandlesServes
<1> QED
  BY <1>3, <1>4, <1>5, <1>6, <1>7, <1>8, <1>9, ListenerSteps

LEMMA ServesInvariance == FederationSpec => []ServesInv
<1>1. BaseInv /\ ServesInv /\ [FederationNext]_federationVars => ServesInv'
  <2> SUFFICES ASSUME BaseInv, ServesInv, [FederationNext]_federationVars, NEW l \in Observed
               PROVE  Serves(l)'
    BY DEF ServesInv
  <2>1. Serves(l)
    BY DEF ServesInv
  <2>2. CASE UNCHANGED federationVars
    BY <2>1, <2>2 DEF federationVars, contractVars, driverVars, listenerVars, vars, Serves,
                      Handling, Running, YieldedBefore, Subject, IsDeletion
  <2> QED
    BY <2>1, <2>2, ServesNext
<1> QED
  BY <1>1, ServesInit, BaseInvariance, PTL DEF FederationSpec

-----------------------------------------------------------------------------
(* What the bundles that are under way are worth                           *)

\* A transaction of the ledger: server s publishes its bundle or withdraws it.
LEMMA Transactions ==
  ASSUME BaseInv, FederationNext
  PROVE  \/ UNCHANGED contractVars
         \/ \E s \in TrustDomain, n \in Nat :
              /\ n = Len(blocks) + 1 /\ Len(blocks)' = n
              /\ Subject(n)' = s
              /\ UNCHANGED <<local, listenerVars, held>>
              /\ \A t \in TrustDomain \ {s} : bundles'[t] = bundles[t]
              /\ \/ /\ SendUpsert(s) /\ ~IsDeletion(n)'
                    /\ bundles'[s] = local[s] /\ local[s] \in RawBundle
                 \/ /\ Removal(s) /\ IsDeletion(n)'
                    /\ bundles'[s] = Unset /\ UNCHANGED <<script, walk>>
<1>1. PICK n \in Nat : n = Len(blocks) + 1
  BY BaseBlocks
<1>2. ASSUME NEW s \in TrustDomain, SendUpsert(s), Publication(s)
      PROVE  /\ Len(blocks)' = n /\ Subject(n)' = s /\ ~IsDeletion(n)'
             /\ \A t \in TrustDomain : bundles'[t] = IF t = s THEN local[s] ELSE bundles[t]
             /\ local[s] \in RawBundle
  BY <1>1, <1>2, BaseContract, PublishEffect DEF Publication, Subject, IsDeletion
<1>3. ASSUME NEW s \in TrustDomain, Removal(s), Withdrawal(s)
      PROVE  /\ Len(blocks)' = n /\ Subject(n)' = s /\ IsDeletion(n)'
             /\ \A t \in TrustDomain : bundles'[t] = IF t = s THEN Unset ELSE bundles[t]
  BY <1>1, <1>3, BaseContract, DeleteEffect DEF Withdrawal, Subject, IsDeletion
<1>4. CASE \E s \in TrustDomain : SendUpsert(s) /\ Publication(s)
  <2>1. PICK s \in TrustDomain : SendUpsert(s) /\ Publication(s)
    BY <1>4
  <2> QED
    BY <1>1, <1>2, <2>1 DEF Publication
<1>5. CASE \E s \in TrustDomain : Removal(s) /\ Withdrawal(s)
  <2>1. PICK s \in TrustDomain : Removal(s) /\ Withdrawal(s)
    BY <1>5
  <2> QED
    BY <1>1, <1>3, <2>1 DEF Withdrawal
<1> QED
  BY <1>4, <1>5, ContractSteps

\* v is td's bundle on the ledger, unless a block behind `since` changed that.
Fresh(v, td, since) ==
  v = bundles[td] \/ \E i \in (since + 1)..Len(blocks) : Subject(i) = td

LEMMA FreshKept ==
  ASSUME BaseInv, FederationNext, NEW td \in TrustDomain, NEW v, NEW since \in Nat,
         since <= Len(blocks), Fresh(v, td, since)
  PROVE  Fresh(v, td, since)'
<1>1. /\ Len(blocks) \in Nat /\ Len(blocks)' \in Nat /\ Len(blocks) <= Len(blocks)'
      /\ \A i \in 1..Len(blocks) : blocks'[i] = blocks[i]
  BY BlocksGrow
<1>2. CASE \E i \in (since + 1)..Len(blocks) : Subject(i) = td
  <2>1. PICK i \in (since + 1)..Len(blocks) : Subject(i) = td
    BY <1>2
  <2>2. i \in 1..Len(blocks) /\ i \in (since + 1)..Len(blocks)'
    BY <1>1
  <2>3. Subject(i)' = td
    BY <1>1, <2>1, <2>2 DEF Subject
  <2> QED
    BY <2>2, <2>3 DEF Fresh
<1>3. CASE v = bundles[td]
  <2>1. CASE UNCHANGED contractVars
    BY <1>3, <2>1 DEF Fresh, contractVars, vars
  <2>2. ASSUME NEW s \in TrustDomain, NEW n \in Nat, n = Len(blocks) + 1, Len(blocks)' = n,
               Subject(n)' = s, \A t \in TrustDomain \ {s} : bundles'[t] = bundles[t]
        PROVE  Fresh(v, td, since)'
    <3>1. CASE s = td
      <4>1. n \in (since + 1)..Len(blocks)'
        BY <1>1, <2>2
      <4> QED
        BY <2>2, <3>1, <4>1 DEF Fresh
    <3>2. CASE s # td
      BY <1>3, <2>2, <3>2 DEF Fresh
    <3> QED
      BY <3>1, <3>2
  <2> QED
    BY <2>1, <2>2, Transactions
<1> QED
  BY <1>2, <1>3 DEF Fresh

\* No bundle is newer than its owner's authority, nor than what is published:
\* v was td's own once.
Past(v, td) ==
  v # Unset =>
    /\ local[td] # Unset /\ v <= local[td]
    /\ bundles[td] # Unset => v <= bundles[td]

LEMMA LocalRises ==
  ASSUME BaseInv, FederationNext, NEW td \in TrustDomain, local[td] # Unset
  PROVE  /\ local[td] \in Nat /\ local'[td] \in Nat /\ local[td] <= local'[td]
         /\ local'[td] # Unset
<1>1. local[td] \in 1..MaxVersion /\ MaxVersion \in Nat /\ local \in [TrustDomain -> Bundle]
  BY BaseParts, VersionAssumption, BoundsAssumption DEF ServerType, Bundle
<1>2. CASE Rotation(td)
  <2>1. local' = [local EXCEPT ![td] = local[td] + 1] /\ local[td] < MaxVersion
    BY <1>2 DEF Rotation
  <2> QED
    BY <1>1, <2>1, VersionAssumption, UnsetAssumption
<1> QED
  BY <1>1, <1>2, LocalSteps, VersionAssumption, UnsetAssumption

LEMMA PastKept ==
  ASSUME BaseInv, FederationNext, NEW td \in TrustDomain, NEW v \in Bundle, Past(v, td)
  PROVE  Past(v, td)'
<1> SUFFICES ASSUME v # Unset
             PROVE  /\ local'[td] # Unset /\ v <= local'[td]
                    /\ bundles'[td] # Unset => v <= bundles'[td]
  BY DEF Past
<1>1. v \in Nat /\ local[td] # Unset /\ v <= local[td] /\ (bundles[td] # Unset => v <= bundles[td])
  BY Numbers DEF Past, Bundle
<1>2. local[td] \in Nat /\ local'[td] \in Nat /\ local[td] <= local'[td] /\ local'[td] # Unset
  BY <1>1, LocalRises
<1>3. local'[td] # Unset /\ v <= local'[td]
  BY <1>1, <1>2
<1>4. bundles'[td] # Unset => v <= bundles'[td]
  <2>1. CASE UNCHANGED contractVars
    BY <1>1, <2>1 DEF contractVars, vars
  <2>2. ASSUME NEW s \in TrustDomain, \A t \in TrustDomain \ {s} : bundles'[t] = bundles[t],
               bundles'[s] = Unset \/ bundles'[s] = local[s]
        PROVE  bundles'[td] # Unset => v <= bundles'[td]
    <3>1. CASE s = td
      BY <1>1, <2>2, <3>1
    <3>2. CASE s # td
      BY <1>1, <2>2, <3>2
    <3> QED
      BY <3>1, <3>2
  <2> QED
    BY <2>1, <2>2, Transactions
<1> QED
  BY <1>3, <1>4

\* What is published is not newer than its owner, and a member that was
\* deleted has been published since.
LedgerValues ==
  /\ \A td \in TrustDomain : Past(bundles[td], td)
  /\ \A td \in TrustDomain, d \in 1..Len(blocks) :
       bundles[td] # Unset /\ Subject(d) = td /\ IsDeletion(d) =>
         \E k \in (d + 1)..Len(blocks) : Subject(k) = td /\ ~IsDeletion(k)

LEMMA PublishedPast ==
  ASSUME BaseInv, FederationNext, NEW td \in TrustDomain, Past(bundles[td], td)
  PROVE  Past(bundles[td], td)'
<1>1. bundles[td] \in Bundle
  BY BaseContract DEF IInv, TypeOK, Bundle
<1>2. CASE bundles'[td] = bundles[td]
  <2>1. PICK v \in Bundle : v = bundles[td]
    BY <1>1
  <2>2. Past(v, td)'
    BY <2>1, PastKept
  <2> QED
    BY <1>2, <2>1, <2>2 DEF Past
<1>3. CASE bundles'[td] = Unset
  BY <1>3 DEF Past
<1>4. CASE bundles'[td] = local[td] /\ local'[td] = local[td] /\ local[td] \in RawBundle
  <2>1. local[td] \in Nat /\ local[td] # Unset
    BY <1>4, Numbers
  <2> QED
    BY <1>4, <2>1 DEF Past
<1> QED
  BY <1>2, <1>3, <1>4, Transactions DEF contractVars, vars

LEMMA LedgerValuesNext == ASSUME BaseInv, FederationNext, LedgerValues PROVE LedgerValues'
<1>1. /\ Len(blocks) \in Nat /\ Len(blocks)' \in Nat /\ Len(blocks) <= Len(blocks)'
      /\ \A i \in 1..Len(blocks) : blocks'[i] = blocks[i]
  BY BlocksGrow
<1>2. \A td \in TrustDomain : Past(bundles[td], td)'
  BY PublishedPast DEF LedgerValues
<1>3. ASSUME NEW td \in TrustDomain, NEW d \in 1..Len(blocks)',
             bundles'[td] # Unset, Subject(d)' = td, IsDeletion(d)'
      PROVE  \E k \in (d + 1)..Len(blocks)' : Subject(k)' = td /\ ~IsDeletion(k)'
  <2>1. CASE d \in 1..Len(blocks) /\ bundles[td] # Unset
    <3>1. Subject(d) = td /\ IsDeletion(d)
      BY <1>1, <1>3, <2>1 DEF Subject, IsDeletion
    <3>2. PICK k \in (d + 1)..Len(blocks) : Subject(k) = td /\ ~IsDeletion(k)
      BY <2>1, <3>1 DEF LedgerValues
    <3>3. k \in 1..Len(blocks) /\ k \in (d + 1)..Len(blocks)'
      BY <1>1, <2>1
    <3> QED
      BY <1>1, <3>2, <3>3 DEF Subject, IsDeletion
  <2>2. CASE UNCHANGED contractVars
    BY <1>3, <2>1, <2>2 DEF contractVars, vars
  <2>3. ASSUME NEW s \in TrustDomain, NEW n \in Nat, n = Len(blocks) + 1, Len(blocks)' = n,
               Subject(n)' = s, \A t \in TrustDomain \ {s} : bundles'[t] = bundles[t],
               ~IsDeletion(n)' \/ bundles'[s] = Unset
        PROVE  \E k \in (d + 1)..Len(blocks)' : Subject(k)' = td /\ ~IsDeletion(k)'
    <3>1. CASE s = td
      <4>1. ~IsDeletion(n)'
        BY <1>3, <2>3, <3>1
      <4>2. d # n
        BY <1>3, <4>1
      <4>3. n \in (d + 1)..Len(blocks)'
        BY <1>1, <1>3, <2>3, <4>2
      <4> QED
        BY <2>3, <3>1, <4>1, <4>3
    <3>2. CASE s # td
      <4>1. d # n /\ bundles[td] # Unset
        BY <1>3, <2>3, <3>2
      <4>2. d \in 1..Len(blocks)
        BY <1>1, <1>3, <2>3, <4>1
      <4> QED
        BY <2>1, <4>1, <4>2
    <3> QED
      BY <3>1, <3>2
  <2> QED
    BY <2>2, <2>3, Transactions
<1> QED
  BY <1>2, <1>3 DEF LedgerValues

\* Every entry a walk has collected was its owner's bundle when it was read.
Entries(l, p) ==
  \A k \in DOMAIN walk[l][p].out :
    /\ Fresh(walk[l][p].out[k][2], walk[l][p].out[k][1], walk[l][p].began)
    /\ Past(walk[l][p].out[k][2], walk[l][p].out[k][1])

LEMMA CollectedValues ==
  ASSUME BaseInv, LedgerValues, NEW l \in Observed, NEW p \in Process, Entries(l, p),
         NEW k \in DOMAIN Collected(l, p)
  PROVE  /\ Collected(l, p)[k][1] \in TrustDomain /\ Collected(l, p)[k][2] \in RawBundle
         /\ Fresh(Collected(l, p)[k][2], Collected(l, p)[k][1], walk[l][p].began)
         /\ Past(Collected(l, p)[k][2], Collected(l, p)[k][1])
<1> DEFINE all == Collected(l, p)
<1>1. ProcessTypeOK /\ IInv
  BY BaseContract DEF BaseInv
<1>2. all \in Seq(TrustDomain \X RawBundle) /\ k \in 1..Len(all)
  BY <1>1, CollectedEntries
<1>3. all[k] \in TrustDomain \X RawBundle
  BY <1>2, ElementOfSeq
<1>4. CASE k \in DOMAIN walk[l][p].out /\ all[k] = walk[l][p].out[k]
  BY <1>3, <1>4 DEF Entries
<1>5. CASE all[k][2] = bundles[all[k][1]]
  BY <1>3, <1>5 DEF LedgerValues, Fresh, Past
<1> QED
  BY <1>1, <1>4, <1>5, CollectedEntries

LEMMA EntriesNext ==
  ASSUME BaseInv, FederationNext, LedgerValues, NEW l \in Observed, NEW p \in Process,
         walk[l][p].began <= Len(blocks), Entries(l, p)
  PROVE  Entries(l, p)'
<1>1. CASE walk'[l][p].out = << >>
  BY <1>1, EmptySeq DEF Entries
<1>2. PICK since \in Nat : since = walk[l][p].began
  BY BaseParts DEF WalkState
<1>3. ASSUME NEW td \in TrustDomain, NEW v \in Bundle, Fresh(v, td, since), Past(v, td)
      PROVE  Fresh(v, td, since)' /\ Past(v, td)'
  BY <1>2, <1>3, FreshKept, PastKept
<1>4. CASE walk'[l][p] = walk[l][p]
  <2> SUFFICES ASSUME NEW k \in DOMAIN walk[l][p].out
               PROVE  /\ Fresh(walk[l][p].out[k][2], walk[l][p].out[k][1], walk[l][p].began)'
                      /\ Past(walk[l][p].out[k][2], walk[l][p].out[k][1])'
    BY <1>4 DEF Entries
  <2>1. walk[l][p].out \in Seq(TrustDomain \X RawBundle)
    BY BaseParts DEF WalkState
  <2>2. k \in 1..Len(walk[l][p].out)
    BY <2>1, LenProperties
  <2>3. PICK td \in TrustDomain, v \in RawBundle : walk[l][p].out[k] = <<td, v>>
    BY <2>1, <2>2, ElementOfSeq
  <2>4. Fresh(v, td, since) /\ Past(v, td) /\ v \in Bundle
    BY <1>2, <2>3 DEF Entries, Bundle
  <2>5. Fresh(v, td, since)' /\ Past(v, td)'
    BY <1>3, <2>4
  <2> QED
    BY <1>2, <1>4, <2>3, <2>5 DEF Fresh, Past
<1>5. CASE TurnPage(l, p)
  <2>1. walk'[l][p].out = Collected(l, p) /\ walk'[l][p].began = walk[l][p].began
    BY <1>5, TurnPageEffect
  <2>2. UNCHANGED <<contractVars, local>>
    BY <1>5 DEF TurnPage, driverVars
  <2> SUFFICES ASSUME NEW k \in DOMAIN Collected(l, p)
               PROVE  /\ Fresh(walk[l][p].out[k][2], walk[l][p].out[k][1], walk[l][p].began)'
                      /\ Past(walk[l][p].out[k][2], walk[l][p].out[k][1])'
    BY <2>1 DEF Entries
  <2>3. PICK td \in TrustDomain, v \in RawBundle :
          Collected(l, p)[k][1] = td /\ Collected(l, p)[k][2] = v
    BY CollectedValues
  <2>4. Fresh(v, td, since) /\ Past(v, td)
    BY <1>2, <2>3, CollectedValues
  <2>5. v \in Bundle
    BY DEF Bundle
  <2>6. Fresh(v, td, since)' /\ Past(v, td)'
    BY <1>3, <2>4, <2>5
  <2> QED
    BY <1>2, <2>1, <2>3, <2>6 DEF Fresh, Past
<1> QED
  BY <1>1, <1>4, <1>5, WalkSteps DEF Begins, Ends

\* The listener applies a bundle only after the walk that found it, and goes
\* on to nothing else meanwhile.
LEMMA ApplyingSteps ==
  ASSUME BaseInv, FederationNext, NEW m \in Observed, Serves(m),
         walk'[m]["listener"].pc = "applying"
  PROVE  \/ Rests(m)
         \/ \E i \in queue[m] : Handling(m, i) /\ FetchFinds(m, i)
<1>1. CASE Addition(m)
  <2>1. local[m] = Unset /\ UNCHANGED walk
    BY <1>1 DEF Addition
  <2> QED
    BY <2>1 DEF Serves
<1>2. CASE Subscribe(m) \/ ListenerExits(m)
  BY <1>2 DEF Subscribe, ListenerExits, Serves
<1>3. CASE Poll(m)
  BY <1>3 DEF Poll, Serves
<1>4. CASE TurnPage(m, "listener")
  BY <1>4, TurnPageEffect DEF Process
<1>5. ASSUME NEW i \in queue[m], Handling(m, i), Handles(m, i)
      PROVE  FetchFinds(m, i)
  <2>1. CASE IgnoreOwn(m, i) \/ DeleteHeld(m, i)
    <3>1. Subject(i) = m \/ IsDeletion(i)
      BY <2>1 DEF IgnoreOwn, DeleteHeld
    <3>2. walk[m]["listener"].pc = "idle"
      BY <1>5, <3>1, OneHandled DEF Serves
    <3> QED
      BY <2>1, <3>2 DEF IgnoreOwn, DeleteHeld
  <2>2. CASE BeginFetch(m, i)
    BY <2>2, BeginWalkEffect DEF BeginFetch, Begins, Process
  <2>3. CASE FetchMisses(m, i) \/ ApplyBundle(m, i) \/ HandlerFails(m, i)
    <3>1. EndWalk(m, "listener")
      BY <2>3 DEF FetchMisses, ApplyBundle, HandlerFails
    <3> QED
      BY <3>1, EndWalkEffect, NoWalkTyped DEF Process
  <2> QED
    BY <1>5, <2>1, <2>2, <2>3 DEF Handles
<1> QED
  BY <1>1, <1>2, <1>3, <1>4, <1>5, ListenerSteps

\* So is the bundle that a listener is about to apply.
Found(l) ==
  walk[l]["listener"].pc = "applying" =>
    \A i \in queue[l] : Handling(l, i) =>
      /\ walk[l]["listener"].found \in RawBundle
      /\ Fresh(walk[l]["listener"].found, Subject(i), lastBlock[l])
      /\ Past(walk[l]["listener"].found, Subject(i))

LEMMA FoundNext ==
  ASSUME BaseInv, FederationNext, LedgerValues, NEW l \in Observed, Serves(l),
         walk[l]["listener"].began <= Len(blocks), Entries(l, "listener"), Found(l)
  PROVE  Found(l)'
<1> SUFFICES ASSUME walk'[l]["listener"].pc = "applying", NEW i \in queue'[l], Handling(l, i)'
             PROVE  /\ walk'[l]["listener"].found \in RawBundle
                    /\ Fresh(walk[l]["listener"].found, Subject(i), lastBlock[l])'
                    /\ Past(walk[l]["listener"].found, Subject(i))'
  BY DEF Found
<1>1. lastBlock[l] \in Nat /\ lastBlock[l] <= Len(blocks)
  BY BaseParts DEF ListenerType, QueueInv
<1>2. PICK since \in Nat : since = lastBlock[l]
  BY <1>1
<1>3. "listener" \in Process
  BY DEF Process
<1>4. CASE Rests(l)
  <2>1. /\ i \in queue[l] /\ queue'[l] = queue[l] /\ lastBlock'[l] = lastBlock[l]
        /\ phase'[l] = phase[l] /\ walk'[l]["listener"] = walk[l]["listener"]
    BY <1>4 DEF Rests
  <2>2. Handling(l, i) /\ Subject(i)' = Subject(i) /\ Subject(i) \in TrustDomain
    BY <2>1, HandlingKept, BaseBlocks, BlockKept
  <2>3. PICK td \in TrustDomain, v \in RawBundle :
          td = Subject(i) /\ v = walk[l]["listener"].found
    BY <2>1, <2>2 DEF Found
  <2>4. v \in Bundle /\ Fresh(v, td, since) /\ Past(v, td)
    BY <1>2, <2>1, <2>2, <2>3 DEF Found, Bundle
  <2>5. Fresh(v, td, since)' /\ Past(v, td)'
    BY <1>1, <1>2, <2>4, FreshKept, PastKept
  <2> QED
    BY <1>2, <2>1, <2>2, <2>3, <2>5 DEF Fresh, Past
<1>5. ASSUME NEW j \in queue[l], Handling(l, j), FetchFinds(l, j)
      PROVE  /\ walk'[l]["listener"].found \in RawBundle
             /\ Fresh(walk[l]["listener"].found, Subject(i), lastBlock[l])'
             /\ Past(walk[l]["listener"].found, Subject(i))'
  <2>1. UNCHANGED contractVars /\ UNCHANGED local /\ UNCHANGED listenerVars
    BY <1>5 DEF FetchFinds, driverVars
  <2>2. UNCHANGED <<phase, queue, lastBlock, blocks, bundles, local>>
    BY <2>1 DEF contractVars, vars, listenerVars
  <2>3. i \in queue[l] /\ Handling(l, i)
    BY <2>2, HandlingKept
  <2>4. i = j
    BY <1>5, <2>3, OneHandled
  <2>5. PICK k \in DOMAIN Collected(l, "listener") :
          /\ Collected(l, "listener")[k][1] = Subject(j)
          /\ Collected(l, "listener")[k][2] = walk'[l]["listener"].found
    BY <1>5, FindsEffect
  <2>6. PICK td \in TrustDomain, v \in RawBundle :
          Collected(l, "listener")[k][1] = td /\ Collected(l, "listener")[k][2] = v
    BY <1>3, CollectedValues
  <2>7. Past(v, td) /\ Fresh(v, td, walk[l]["listener"].began)
    BY <1>3, <2>6, CollectedValues
  <2>8. walk[l]["listener"].pc = "paging"
    BY <1>5 DEF FetchFinds, OnLastPage
  <2>9. lastBlock[l] <= walk[l]["listener"].began /\ walk[l]["listener"].began \in Nat
    BY <1>3, <2>8, BaseParts DEF Serves, WalkState
  <2>10. Fresh(v, td, since)
    BY <1>1, <1>2, <2>7, <2>9, BaseBlocks DEF Fresh
  <2>11. Subject(i)' = td
    BY <2>2, <2>4, <2>5, <2>6 DEF Subject
  <2>12. Past(v, td)' /\ Fresh(v, td, since)'
    BY <2>2, <2>7, <2>10 DEF Past, Fresh, Subject
  <2> QED
    BY <1>2, <2>2, <2>5, <2>6, <2>11, <2>12 DEF Fresh, Past
<1> QED
  BY <1>4, <1>5, ApplyingSteps

-----------------------------------------------------------------------------
(* What a step does to one script and to one server's store                *)

\* The next action of the script that works for server s.
Acts(s) ==
  \/ Addition(s) \/ Rotation(s) \/ CheckExists(s)
  \/ SendUpsert(s) \/ UpsertReverts(s) \/ UpsertFails(s)
  \/ s \in Observed /\ \/ WriteFiles(s) \/ FetchCrashes(s)
                       \/ \E td \in TrustDomain : SetOneBundle(s, td)

LEMMA ScriptSteps ==
  ASSUME BaseInv, FederationNext, NEW t \in TrustDomain
  PROVE  script'[t] = script[t] \/ Acts(t)
<1>1. script \in [TrustDomain -> ScriptState]
  BY BaseParts
<1>2. ASSUME NEW s \in TrustDomain, s # t, Addition(s) PROVE script'[t] = script[t]
  BY <1>1, <1>2, AdditionMove
<1>3. ASSUME NEW s \in TrustDomain, s # t, Rotation(s) PROVE script'[t] = script[t]
  BY <1>1, <1>3, GotoMove DEF Rotation
<1>4. ASSUME NEW s \in TrustDomain, s # t, CheckExists(s) PROVE script'[t] = script[t]
  BY <1>1, <1>4, CheckMove
<1>5. ASSUME NEW s \in TrustDomain, s # t, SendUpsert(s) \/ UpsertReverts(s) \/ UpsertFails(s)
      PROVE  script'[t] = script[t]
  <2>1. AfterPublish(s) /\ script[s].pc \in {"exists", "send"}
    BY <1>5 DEF SendUpsert, UpsertReverts, UpsertFails
  <2> QED
    BY <1>1, <1>5, <2>1, AfterPublishMove
<1>6. ASSUME NEW s \in TrustDomain, s # t, NEW td \in TrustDomain,
             WriteFiles(s) \/ SetOneBundle(s, td) \/ FetchCrashes(s)
      PROVE  script'[t] = script[t]
  BY <1>1, <1>6 DEF WriteFiles, SetOneBundle, FetchCrashes
<1>7. ASSUME NEW s \in TrustDomain, Removal(s) PROVE script'[t] = script[t]
  BY <1>7 DEF Removal
<1>8. ASSUME NEW l \in Observed, Subscribe(l) \/ Poll(l) \/ ListenerExits(l)
                                 \/ \E p \in Process : TurnPage(l, p)
      PROVE  script'[t] = script[t]
  BY <1>8 DEF Subscribe, Poll, ListenerExits, TurnPage, driverVars
<1>9. ASSUME NEW l \in Observed, NEW i \in queue[l], Handles(l, i)
      PROVE  script'[t] = script[t]
  BY <1>9, HandlerEffect DEF driverVars
<1>10. Observed \subseteq TrustDomain
  BY ServersAssumption
<1>11. FederationNext =>
         \/ \E s \in TrustDomain : Acts(s) \/ Removal(s)
         \/ \E l \in Observed :
              \/ Subscribe(l) \/ Poll(l) \/ ListenerExits(l)
              \/ \E p \in Process : TurnPage(l, p)
              \/ \E i \in queue[l] : Handles(l, i)
  BY Zenon, Steps, <1>10 DEF Handles, Acts
<1>12. ASSUME NEW s \in TrustDomain, Acts(s), s # t PROVE script'[t] = script[t]
  BY <1>2, <1>3, <1>4, <1>5, <1>6, <1>12 DEF Acts
<1> QED
  BY <1>7, <1>8, <1>9, <1>11, <1>12

\* The files of a completed walk: one for each name it collected, holding the
\* bundle of one of its entries.
LEMMA WriteEffect ==
  ASSUME BaseInv, NEW s \in TrustDomain, s \in Observed, WriteFiles(s)
  PROVE  /\ script[s].pc = "fetch" /\ script[s].joining /\ OnLastPage(s, "driver")
         /\ UNCHANGED <<contractVars, local, status, listenerVars, held, faults>>
         /\ \E files \in [TrustDomain -> Bundle] :
              /\ files[s] = Unset
              /\ \A td \in TrustDomain \ {s} :
                   IF \A k \in DOMAIN Collected(s, "driver") : Collected(s, "driver")[k][1] # td
                   THEN files[td] = Unset
                   ELSE \E k \in DOMAIN Collected(s, "driver") :
                          /\ Collected(s, "driver")[k][1] = td
                          /\ Collected(s, "driver")[k][2] = files[td]
              /\ \/ script'[s] = Idle /\ \A td \in TrustDomain : files[td] = Unset
                 \/ script'[s].pc = "set" /\ script'[s].joining /\ script'[s].files = files
<1> DEFINE out == Collected(s, "driver")
<1>1. PICK files \in [TrustDomain -> Bundle] :
        /\ \A td \in TrustDomain :
             IF td = s \/ Named(out, td) = {}
             THEN files[td] = Unset
             ELSE \E k \in Named(out, td) :
                    /\ \A j \in Named(out, td) : j <= k
                    /\ files[td] = out[k][2]
        /\ script' = [script EXCEPT ![s] = NextFile(s, files)]
  BY DEF WriteFiles
<1>2. script[s].pc = "fetch" /\ script[s].joining
  BY BaseParts DEF WriteFiles, ScriptInv, ScriptFits
<1>3. files[s] = Unset
  BY <1>1
<1>4. ASSUME NEW td \in TrustDomain \ {s}
      PROVE  IF \A k \in DOMAIN out : out[k][1] # td
             THEN files[td] = Unset
             ELSE \E k \in DOMAIN out : out[k][1] = td /\ out[k][2] = files[td]
  BY <1>1 DEF Named
<1>5. script'[s] = NextFile(s, files)
  BY <1>1, BaseParts
<1>6. \/ script'[s] = Idle /\ \A td \in TrustDomain : files[td] = Unset
      \/ script'[s].pc = "set" /\ script'[s].joining /\ script'[s].files = files
  BY <1>2, <1>3, <1>5, NextFileMove
<1>7. OnLastPage(s, "driver") /\ UNCHANGED <<contractVars, local, status, listenerVars, held, faults>>
  BY DEF WriteFiles
<1> HIDE DEF out
<1> QED
  BY <1>2, <1>3, <1>4, <1>6, <1>7 DEF out

LEMMA SetEffect ==
  ASSUME BaseInv, NEW s \in TrustDomain, s \in Observed, NEW td \in TrustDomain,
         SetOneBundle(s, td)
  PROVE  \/ /\ script'[s] = Idle
            /\ \A t \in TrustDomain \ {td} : script[s].files[t] = Unset
         \/ /\ script'[s].pc = "set" /\ script'[s].joining
            /\ \A t \in TrustDomain :
                 script'[s].files[t] = IF t = td THEN Unset ELSE script[s].files[t]
<1>1. PICK files \in [TrustDomain -> Bundle] :
        /\ files[s] = Unset
        /\ \A t \in TrustDomain : files[t] = IF t = td THEN Unset ELSE script[s].files[t]
        /\ script' = [script EXCEPT ![s] = NextFile(s, files)]
  BY SetMove
<1>2. script'[s] = NextFile(s, files)
  BY <1>1, BaseParts
<1>3. script[s].joining /\ script[s].pc # "idle"
  BY SetMove
<1> QED
  BY <1>1, <1>2, <1>3, NextFileMove

\* A file holds what it held, nothing, or an entry that the walk collected.
LEMMA FilesSteps ==
  ASSUME BaseInv, FederationNext, NEW s \in TrustDomain, NEW td \in TrustDomain
  PROVE  \/ script'[s].files[td] \in {Unset, script[s].files[td]}
         \/ /\ s \in Observed /\ WriteFiles(s)
            /\ \E k \in DOMAIN Collected(s, "driver") :
                 /\ Collected(s, "driver")[k][1] = td
                 /\ Collected(s, "driver")[k][2] = script'[s].files[td]
<1>0. script \in [TrustDomain -> ScriptState]
  BY BaseParts
<1>1. CASE Addition(s)
  BY <1>0, <1>1, AdditionMove
<1>2. CASE Rotation(s)
  BY <1>0, <1>2, GotoMove DEF Rotation
<1>3. CASE CheckExists(s)
  BY <1>0, <1>3, CheckMove
<1>4. CASE SendUpsert(s) \/ UpsertReverts(s) \/ UpsertFails(s)
  <2>1. AfterPublish(s) /\ script[s].pc \in {"exists", "send"}
    BY <1>4 DEF SendUpsert, UpsertReverts, UpsertFails
  <2> QED
    BY <1>0, <2>1, AfterPublishMove, IdleTyped
<1>5. CASE s \in Observed /\ WriteFiles(s)
  <2>1. script[s].files[s] = Unset
    BY BaseParts DEF ScriptInv, ScriptFits
  <2> QED
    BY <1>5, <2>1, WriteEffect, IdleTyped
<1>6. CASE s \in Observed /\ FetchCrashes(s)
  <2>1. script' = [script EXCEPT ![s] = [Idle EXCEPT !.pc = "crashed"]]
    BY <1>6 DEF FetchCrashes
  <2> QED
    BY <1>0, <2>1, CrashedTyped
<1>7. CASE s \in Observed /\ \E t \in TrustDomain : SetOneBundle(s, t)
  BY <1>7, SetEffect, IdleTyped
<1> QED
  BY <1>1, <1>2, <1>3, <1>4, <1>5, <1>6, <1>7, ScriptSteps DEF Acts

\* A store changes only when a script imports a file into it, or when its
\* listener handles the event of that trust domain.
LEMMA HeldSteps ==
  ASSUME BaseInv, FederationNext, NEW m \in Observed, NEW td \in TrustDomain
  PROVE  \/ held'[m][td] = held[m][td]
         \/ /\ SetOneBundle(m, td) /\ m \in TrustDomain
            /\ held'[m][td] = script[m].files[td]
         \/ \E i \in queue[m] :
              /\ Handling(m, i) /\ Subject(i) = td
              /\ \/ ApplyBundle(m, i) /\ held'[m][td] = walk[m]["listener"].found
                 \/ DeleteHeld(m, i) /\ held'[m][td] = Unset
<1>0. held \in [Observed -> [TrustDomain -> Bundle]] /\ Observed \subseteq TrustDomain
  BY BaseParts, ServersAssumption DEF ServerType
<1>1. ASSUME NEW s \in TrustDomain, s \in Observed, NEW t \in TrustDomain, SetOneBundle(s, t)
      PROVE  \/ held'[m][td] = held[m][td]
             \/ SetOneBundle(m, td) /\ held'[m][td] = script[m].files[td]
  BY <1>1, SetMove
<1>2. ASSUME NEW l \in Observed, NEW i \in queue[l], Handling(l, i), ApplyBundle(l, i)
      PROVE  \/ held'[m][td] = held[m][td]
             \/ m = l /\ Subject(i) = td /\ held'[m][td] = walk[m]["listener"].found
  BY <1>0, <1>2 DEF ApplyBundle
<1>3. ASSUME NEW l \in Observed, NEW i \in queue[l], Handling(l, i), DeleteHeld(l, i)
      PROVE  \/ held'[m][td] = held[m][td]
             \/ m = l /\ Subject(i) = td /\ held'[m][td] = Unset
  BY <1>0, <1>3 DEF DeleteHeld
<1>4. ASSUME NEW l \in Observed, NEW i \in queue[l],
             IgnoreOwn(l, i) \/ BeginFetch(l, i) \/ FetchFinds(l, i) \/ FetchMisses(l, i)
             \/ HandlerFails(l, i)
      PROVE  UNCHANGED held
  BY <1>4 DEF IgnoreOwn, BeginFetch, FetchFinds, FetchMisses, HandlerFails
<1>5. ASSUME NEW s \in TrustDomain,
             Addition(s) \/ Rotation(s) \/ Removal(s) \/ CheckExists(s) \/ SendUpsert(s)
             \/ UpsertReverts(s) \/ UpsertFails(s) \/ WriteFiles(s)
      PROVE  UNCHANGED held
  BY <1>5 DEF Addition, Rotation, Removal, CheckExists, SendUpsert, UpsertReverts, UpsertFails,
              WriteFiles
<1>6. ASSUME NEW l \in Observed,
             FetchCrashes(l) \/ Subscribe(l) \/ Poll(l) \/ ListenerExits(l)
             \/ \E p \in Process : TurnPage(l, p)
      PROVE  UNCHANGED held
  BY <1>6 DEF FetchCrashes, Subscribe, Poll, ListenerExits, TurnPage
<1> QED
  BY <1>0, <1>1, <1>2, <1>3, <1>4, <1>5, <1>6, Steps

-----------------------------------------------------------------------------
(* Every bundle was its owner's own once                                   *)

ValuesInv ==
  /\ LedgerValues
  /\ \A l \in Observed, p \in Process : Entries(l, p)
  /\ \A l \in Observed : Found(l)
  /\ \A s \in TrustDomain, td \in TrustDomain : Past(script[s].files[td], td)
  /\ \A l \in Observed, td \in TrustDomain : Past(held[l][td], td)

LEMMA FilesPast ==
  ASSUME BaseInv, FederationNext, ValuesInv, NEW s \in TrustDomain, NEW td \in TrustDomain
  PROVE  Past(script[s].files[td], td)'
<1>1. CASE script'[s].files[td] = Unset
  BY <1>1 DEF Past
<1>2. CASE script'[s].files[td] = script[s].files[td]
  <2>1. script[s].files[td] \in Bundle
    BY BaseParts DEF ScriptState
  <2>2. PICK v \in Bundle : v = script[s].files[td]
    BY <2>1
  <2>3. Past(v, td)'
    BY <2>2, PastKept DEF ValuesInv
  <2> QED
    BY <1>2, <2>2, <2>3 DEF Past
<1>3. ASSUME s \in Observed, WriteFiles(s), NEW k \in DOMAIN Collected(s, "driver"),
             Collected(s, "driver")[k][1] = td,
             Collected(s, "driver")[k][2] = script'[s].files[td]
      PROVE  Past(script[s].files[td], td)'
  <2>1. "driver" \in Process
    BY DEF Process
  <2>2. PICK v \in RawBundle : Collected(s, "driver")[k][2] = v
    BY <1>3, <2>1, CollectedValues DEF ValuesInv
  <2>3. Past(v, td) /\ v \in Bundle
    BY <1>3, <2>1, <2>2, CollectedValues DEF ValuesInv, Bundle
  <2>4. Past(v, td)'
    BY <2>3, PastKept
  <2> QED
    BY <1>3, <2>2, <2>4 DEF Past
<1> QED
  BY <1>1, <1>2, <1>3, FilesSteps

LEMMA HeldPast ==
  ASSUME BaseInv, FederationNext, ServesInv, ValuesInv,
         NEW m \in Observed, NEW td \in TrustDomain
  PROVE  Past(held[m][td], td)'
<1>1. ASSUME NEW v \in Bundle, Past(v, td), held'[m][td] = v
      PROVE  Past(held[m][td], td)'
  <2>1. Past(v, td)'
    BY <1>1, PastKept
  <2> QED
    BY <1>1, <2>1 DEF Past
<1>2. CASE held'[m][td] = held[m][td]
  <2>1. PICK v \in Bundle : v = held[m][td]
    BY BaseParts DEF ServerType
  <2> QED
    BY <1>1, <1>2, <2>1 DEF ValuesInv
<1>3. CASE m \in TrustDomain /\ held'[m][td] = script[m].files[td]
  <2>1. PICK v \in Bundle : v = script[m].files[td]
    BY <1>3, BaseParts DEF ScriptState
  <2> QED
    BY <1>1, <1>3, <2>1 DEF ValuesInv
<1>4. ASSUME NEW i \in queue[m], Handling(m, i), Subject(i) = td, ApplyBundle(m, i),
             held'[m][td] = walk[m]["listener"].found
      PROVE  Past(held[m][td], td)'
  <2>1. walk[m]["listener"].pc = "applying"
    BY <1>4 DEF ApplyBundle
  <2>2. PICK v \in RawBundle : v = walk[m]["listener"].found
    BY <1>4, <2>1 DEF ValuesInv, Found
  <2> QED
    BY <1>1, <1>4, <2>1, <2>2 DEF ValuesInv, Found, Bundle
<1>5. CASE held'[m][td] = Unset
  BY <1>5 DEF Past
<1> QED
  BY <1>2, <1>3, <1>4, <1>5, HeldSteps

LEMMA ValuesInit == FederationInit => ValuesInv
<1> SUFFICES ASSUME FederationInit PROVE ValuesInv
  OBVIOUS
<1>1. \A td \in TrustDomain : Past(bundles[td], td)
  <2>1. \A td \in TrustDomain : bundles[td] \in {1, Unset} /\ local[td] = bundles[td]
    BY Founded
  <2>2. 1 <= 1
    OBVIOUS
  <2> QED
    BY <2>1, <2>2 DEF Past
<1>2. LedgerValues
  BY <1>1, Founded DEF LedgerValues
<1>3. \A l \in Observed, p \in Process : walk[l][p] = NoWalk
  BY DEF FederationInit
<1>4. \A l \in Observed, p \in Process : Entries(l, p)
  BY <1>3, NoWalkTyped, EmptySeq DEF Entries
<1>5. \A l \in Observed : Found(l)
  BY <1>3, NoWalkTyped DEF Found, Process
<1>6. \A s \in TrustDomain, td \in TrustDomain : Past(script[s].files[td], td)
  BY IdleTyped DEF FederationInit, Past
<1>7. \A l \in Observed, td \in TrustDomain : Past(held[l][td], td)
  BY <1>1, Founded DEF Past
<1> QED
  BY <1>2, <1>4, <1>5, <1>6, <1>7 DEF ValuesInv

LEMMA ValuesNext ==
  ASSUME BaseInv, FederationNext, ServesInv, WalkedInv, ValuesInv PROVE ValuesInv'
<1>1. LedgerValues /\ LedgerValues'
  BY LedgerValuesNext DEF ValuesInv
<1>2. ASSUME NEW l \in Observed, NEW p \in Process PROVE Entries(l, p)'
  <2>1. walk[l][p].began <= Len(blocks)
    BY DEF WalkedInv, Walked
  <2> QED
    BY <1>1, <2>1, EntriesNext DEF ValuesInv
<1>3. ASSUME NEW l \in Observed PROVE Found(l)'
  <2>1. "listener" \in Process
    BY DEF Process
  <2>2. walk[l]["listener"].began <= Len(blocks) /\ Entries(l, "listener")
    BY <2>1 DEF WalkedInv, Walked, ValuesInv
  <2> QED
    BY <1>1, <2>2, FoundNext DEF ValuesInv, ServesInv
<1>4. /\ \A s \in TrustDomain, td \in TrustDomain : Past(script[s].files[td], td)'
      /\ \A l \in Observed, td \in TrustDomain : Past(held[l][td], td)'
  BY FilesPast, HeldPast
<1> QED
  BY <1>1, <1>2, <1>3, <1>4 DEF ValuesInv

LEMMA ValuesInvariance == FederationSpec => []ValuesInv
<1>1. BaseInv /\ ServesInv /\ WalkedInv /\ ValuesInv /\ [FederationNext]_federationVars => ValuesInv'
  <2> SUFFICES ASSUME BaseInv, ServesInv, WalkedInv, ValuesInv, [FederationNext]_federationVars
               PROVE  ValuesInv'
    OBVIOUS
  <2>1. CASE UNCHANGED federationVars
    <3>1. /\ bundles' = bundles /\ blocks' = blocks /\ local' = local /\ script' = script
          /\ held' = held /\ walk' = walk /\ phase' = phase /\ queue' = queue /\ lastBlock' = lastBlock
      BY <2>1 DEF federationVars, contractVars, driverVars, listenerVars, vars
    <3>2. LedgerValues'
      BY <3>1 DEF ValuesInv, LedgerValues, Past, Subject, IsDeletion
    <3>3. ASSUME NEW l \in Observed PROVE Found(l)' /\ \A p \in Process : Entries(l, p)'
      <4>1. Found(l) /\ \A p \in Process : Entries(l, p)
        BY DEF ValuesInv
      <4>2. Found(l)'
        BY <3>1, <4>1 DEF Found, Past, Fresh, Handling, Running, YieldedBefore, Subject
      <4>3. \A p \in Process : Entries(l, p)'
        BY <3>1, <4>1 DEF Entries, Past, Fresh, Subject
      <4> QED
        BY <4>2, <4>3
    <3>4. /\ \A s \in TrustDomain, td \in TrustDomain : Past(script[s].files[td], td)'
          /\ \A l \in Observed, td \in TrustDomain : Past(held[l][td], td)'
      BY <3>1 DEF ValuesInv, Past
    <3> QED
      BY <3>2, <3>3, <3>4 DEF ValuesInv
  <2> QED
    BY <2>1, ValuesNext
<1> QED
  BY <1>1, ValuesInit, BaseInvariance, ServesInvariance, WalkedInvariance, PTL DEF FederationSpec

-----------------------------------------------------------------------------
(* Answers of exists() and their transactions                              *)

Deleted(s) == \E i \in 1..Len(blocks) : IsDeletion(i) /\ Subject(i) = s

\* Only the server's own script publishes it, so exists() can be outdated in
\* one way: the server was on the contract and has been deleted.
Answered(s) ==
  script[s].pc = "send" =>
    IF script[s].present THEN bundleExists[s] \/ Deleted(s) ELSE ~bundleExists[s]

AnswerInv == \A s \in TrustDomain : Answered(s)

LEMMA AnsweredNext ==
  ASSUME BaseInv, BaseInv', FederationNext, NEW s \in TrustDomain, Answered(s)
  PROVE  Answered(s)'
<1>0. /\ script \in [TrustDomain -> ScriptState]
      /\ bundleExists[s] \in BOOLEAN /\ bundleExists'[s] \in BOOLEAN
      /\ bundleExists[s] <=> bundles[s] # Unset
      /\ bundleExists'[s] <=> bundles'[s] # Unset
  BY BaseParts, BaseContract DEF IInv, TypeOK, BaseInv, ArrayMirrorsMappings, ProcessTypeOK
<1>1. CASE script'[s] = script[s] /\ script[s].pc = "send"
  <2>1. Deleted(s) => Deleted(s)'
    BY BlockKept DEF Deleted
  <2>2. ~SendUpsert(s)
    <3>1. SendUpsert(s) => script'[s].pc \in {"idle", "fetch"}
      BY <1>0, AfterPublishMove, IdleTyped DEF SendUpsert
    <3> QED
      BY <1>1, <3>1
  <2>3. CASE UNCHANGED contractVars
    BY <1>1, <2>1, <2>3 DEF contractVars, vars, Answered
  <2>4. ASSUME NEW n \in Nat, Len(blocks)' = n, n = Len(blocks) + 1, Subject(n)' = s,
               IsDeletion(n)', bundles'[s] = Unset
        PROVE  Answered(s)'
    <3>1. n \in 1..Len(blocks)'
      BY <2>4, BaseBlocks
    <3>2. Deleted(s)' /\ ~bundleExists'[s]
      BY <1>0, <2>4, <3>1 DEF Deleted
    <3> QED
      BY <3>2 DEF Answered
  <2>5. CASE bundles'[s] = bundles[s]
    BY <1>0, <1>1, <2>1, <2>5 DEF Answered
  <2> QED
    BY <2>2, <2>3, <2>4, <2>5, Transactions
<1>2. CASE CheckExists(s)
  <2>1. script'[s].present = bundleExists[s] /\ UNCHANGED bundleExists
    BY <1>0, <1>2, CheckMove DEF CheckExists, contractVars, vars
  <2> QED
    BY <2>1 DEF Answered
<1>3. ASSUME Acts(s), ~CheckExists(s) PROVE script'[s].pc # "send"
  <2>1. CASE Addition(s)
    BY <1>0, <2>1, AdditionMove
  <2>2. CASE Rotation(s)
    BY <1>0, <2>2, GotoMove DEF Rotation
  <2>3. CASE SendUpsert(s) \/ UpsertReverts(s) \/ UpsertFails(s)
    <3>1. AfterPublish(s) /\ script[s].pc \in {"exists", "send"}
      BY <2>3 DEF SendUpsert, UpsertReverts, UpsertFails
    <3> QED
      BY <1>0, <3>1, AfterPublishMove, IdleTyped
  <2>4. CASE s \in Observed /\ WriteFiles(s)
    BY <2>4, WriteEffect, IdleTyped
  <2>5. CASE s \in Observed /\ FetchCrashes(s)
    BY <1>0, <2>5, CrashedTyped DEF FetchCrashes
  <2>6. CASE s \in Observed /\ \E td \in TrustDomain : SetOneBundle(s, td)
    BY <2>6, SetEffect, IdleTyped
  <2> QED
    BY <1>3, <2>1, <2>2, <2>3, <2>4, <2>5, <2>6 DEF Acts
<1> QED
  BY <1>1, <1>2, <1>3, ScriptSteps DEF Answered

LEMMA AnswerInvariance == FederationSpec => []AnswerInv
<1>1. FederationInit => AnswerInv
  BY IdleTyped DEF FederationInit, AnswerInv, Answered
<1>2. BaseInv /\ BaseInv' /\ AnswerInv /\ [FederationNext]_federationVars => AnswerInv'
  <2>1. AnswerInv /\ UNCHANGED federationVars => AnswerInv'
    BY DEF federationVars, contractVars, driverVars, vars, AnswerInv, Answered, Deleted,
           Subject, IsDeletion
  <2> QED
    BY <2>1, AnsweredNext DEF AnswerInv
<1> QED
  BY <1>1, <1>2, BaseInvariance, PTL DEF FederationSpec

\* However many scripts run, an upsert that is answered has published the
\* server's current bundle, or has failed for a server that is removed: a
\* second script can outdate the answer of exists() only by removing it.
THEOREM AnsweredUpsertsPublish == FederationSpec => UpsertPublishes
<1> DEFINE Publishes ==
      \A s \in TrustDomain :
        script[s].pc = "send" /\ script'[s].pc # "send" /\ UNCHANGED faults =>
          \/ status'[s] = 200 /\ bundles'[s] = local[s]
          \/ /\ status'[s] = 500 /\ ~bundleExists'[s]
             /\ \E i \in DOMAIN blocks : IsDeletion(i) /\ Subject(i) = s
<1>1. ASSUME BaseInv, AnswerInv, FederationNext, NEW s \in TrustDomain,
             script[s].pc = "send", script'[s].pc # "send", UNCHANGED faults
      PROVE  \/ status'[s] = 200 /\ bundles'[s] = local[s]
             \/ /\ status'[s] = 500 /\ ~bundleExists'[s]
                /\ \E i \in DOMAIN blocks : IsDeletion(i) /\ Subject(i) = s
  <2>1. ~Fault
    BY <1>1, BaseParts, BoundsAssumption DEF Fault, ServerType
  <2>2. SendUpsert(s) \/ UpsertReverts(s)
    <3>1. local[s] # Unset
      BY <1>1, BaseParts DEF ScriptInv, ScriptFits
    <3>2. Acts(s)
      BY <1>1, ScriptSteps
    <3> QED
      BY <1>1, <2>1, <3>1, <3>2 DEF Acts, Addition, Rotation, CheckExists, UpsertFails, WriteFiles,
                                    SetOneBundle, FetchCrashes
  <2>3. CASE SendUpsert(s)
    <3>1. status' = [status EXCEPT ![s] = 200]
      BY <2>1, <2>3 DEF SendUpsert
    <3>2. bundles'[s] = local[s]
      BY <1>1, <2>3, BaseContract, UpsertPublished, PublishEffect DEF SendUpsert
    <3> QED
      BY <1>1, <3>1, <3>2, BaseParts DEF ServerType
  <2>4. CASE UpsertReverts(s)
    <3>1. /\ status'[s] = 500 /\ script[s].present # bundleExists[s]
          /\ bundleExists'[s] = bundleExists[s]
      BY <1>1, <2>4, BaseParts DEF UpsertReverts, ServerType, contractVars, vars
    <3>2. script[s].present \in BOOLEAN /\ bundleExists[s] \in BOOLEAN
      BY <1>1, BaseParts, BaseContract DEF ScriptState, IInv, TypeOK
    <3>3. ~bundleExists[s] /\ Deleted(s)
      BY <1>1, <3>1, <3>2 DEF AnswerInv, Answered
    <3>4. DOMAIN blocks = 1..Len(blocks)
      BY <1>1, BaseContract, LenProperties DEF IInv, TypeOK
    <3> QED
      BY <3>1, <3>3, <3>4 DEF Deleted
  <2> QED
    BY <2>2, <2>3, <2>4
<1>2. BaseInv /\ AnswerInv /\ [FederationNext]_federationVars => [Publishes]_script
  <2>1. UNCHANGED federationVars => UNCHANGED script
    BY DEF federationVars, driverVars
  <2>2. BaseInv /\ AnswerInv /\ FederationNext => Publishes
    BY <1>1
  <2> QED
    BY <2>1, <2>2
<1>3. FederationSpec => [][Publishes]_script
  BY <1>2, BaseInvariance, AnswerInvariance, PTL DEF FederationSpec
<1> QED
  BY <1>3 DEF UpsertPublishes

-----------------------------------------------------------------------------
(* What a server joins with                                                *)

\* A driver's walk is the fetch of its script.
LEMMA DriverSteps ==
  ASSUME BaseInv, FederationNext, NEW m \in Observed
  PROVE  \/ /\ walk'[m]["driver"] = walk[m]["driver"]
            /\ script[m].pc = "fetch" <=> script'[m].pc = "fetch"
         \/ Begins(m, "driver") /\ script[m].pc \in {"exists", "send"} /\ script'[m].pc = "fetch"
         \/ TurnPage(m, "driver") /\ script'[m] = script[m]
         \/ walk'[m]["driver"] = NoWalk /\ script'[m].pc # "fetch"
<1>0. m \in TrustDomain /\ Observed \subseteq TrustDomain /\ "driver" \in Process
      /\ script \in [TrustDomain -> ScriptState]
  BY ServersAssumption, BaseParts DEF Process
<1>1. ASSUME Addition(m) \/ Rotation(m) \/ CheckExists(m)
      PROVE  /\ walk'[m]["driver"] = walk[m]["driver"]
             /\ script[m].pc # "fetch" /\ script'[m].pc # "fetch"
  <2>1. UNCHANGED walk
    BY <1>1 DEF Addition, Rotation, CheckExists
  <2>2. script[m].pc # "fetch"
    BY <1>0, <1>1, BaseParts DEF Addition, Rotation, CheckExists, ScriptInv, ScriptFits
  <2>3. CASE Addition(m)
    BY <1>0, <2>1, <2>2, <2>3, AdditionMove
  <2>4. CASE Rotation(m)
    BY <1>0, <2>1, <2>2, <2>4, GotoMove DEF Rotation
  <2>5. CASE CheckExists(m)
    BY <1>0, <2>1, <2>2, <2>5, CheckMove
  <2> QED
    BY <1>1, <2>3, <2>4, <2>5
<1>2. ASSUME SendUpsert(m) \/ UpsertReverts(m) \/ UpsertFails(m)
      PROVE  \/ Begins(m, "driver") /\ script[m].pc \in {"exists", "send"} /\ script'[m].pc = "fetch"
             \/ /\ walk'[m]["driver"] = walk[m]["driver"]
                /\ script[m].pc # "fetch" /\ script'[m].pc # "fetch"
  <2>1. AfterPublish(m) /\ script[m].pc \in {"exists", "send"}
    BY <1>2 DEF SendUpsert, UpsertReverts, UpsertFails
  <2> QED
    BY <1>0, <2>1, AfterPublishMove, BeginWalkEffect, IdleTyped
<1>3. ASSUME WriteFiles(m)
      PROVE  walk'[m]["driver"] = NoWalk /\ script'[m].pc # "fetch"
  <2>1. EndWalk(m, "driver")
    BY <1>3 DEF WriteFiles
  <2>2. walk'[m]["driver"] = NoWalk
    BY <1>0, <2>1, EndWalkEffect
  <2>3. script'[m] = Idle \/ script'[m].pc = "set"
    BY <1>0, <1>3, WriteEffect
  <2> QED
    BY <2>2, <2>3, IdleTyped
<1>4. ASSUME FetchCrashes(m)
      PROVE  walk'[m]["driver"] = NoWalk /\ script'[m].pc # "fetch"
  BY <1>0, <1>4, EndWalkEffect, CrashedTyped DEF FetchCrashes
<1>5. ASSUME NEW td \in TrustDomain, SetOneBundle(m, td)
      PROVE  /\ walk'[m]["driver"] = walk[m]["driver"]
             /\ script[m].pc # "fetch" /\ script'[m].pc # "fetch"
  BY <1>0, <1>5, SetEffect, IdleTyped DEF SetOneBundle
<1>6. ASSUME NEW s \in TrustDomain, s # m, Acts(s)
      PROVE  walk'[m]["driver"] = walk[m]["driver"]
  <2>1. CASE SendUpsert(s) \/ UpsertReverts(s) \/ UpsertFails(s)
    <3>1. AfterPublish(s) /\ script[s].pc \in {"exists", "send"}
      BY <2>1 DEF SendUpsert, UpsertReverts, UpsertFails
    <3> QED
      BY <1>0, <1>6, <3>1, AfterPublishWalk
  <2>2. CASE s \in Observed /\ (WriteFiles(s) \/ FetchCrashes(s))
    BY <1>0, <1>6, <2>2, EndWalkEffect DEF WriteFiles, FetchCrashes
  <2>3. CASE Addition(s) \/ Rotation(s) \/ CheckExists(s) \/ \E td \in TrustDomain : SetOneBundle(s, td)
    BY <2>3 DEF Addition, Rotation, CheckExists, SetOneBundle
  <2> QED
    BY <1>6, <2>1, <2>2, <2>3 DEF Acts
<1>7. ASSUME NEW l \in Observed, NEW p \in Process, TurnPage(l, p)
      PROVE  \/ TurnPage(m, "driver") /\ script'[m] = script[m]
             \/ walk'[m]["driver"] = walk[m]["driver"] /\ script'[m] = script[m]
  <2>1. m # l \/ p # "driver" => walk'[m]["driver"] = walk[m]["driver"]
    BY <1>0, <1>7, TurnPageEffect
  <2> QED
    BY <1>7, <2>1 DEF TurnPage, driverVars
<1>8. ASSUME NEW s \in TrustDomain, Removal(s)
      PROVE  walk'[m]["driver"] = walk[m]["driver"] /\ script'[m] = script[m]
  BY <1>8 DEF Removal
<1>9. ASSUME NEW l \in Observed, Subscribe(l) \/ Poll(l) \/ ListenerExits(l)
      PROVE  walk'[m]["driver"] = walk[m]["driver"] /\ script'[m] = script[m]
  BY <1>9 DEF Subscribe, Poll, ListenerExits, driverVars
<1>10. ASSUME NEW l \in Observed, NEW i \in queue[l], Handles(l, i)
       PROVE  walk'[m]["driver"] = walk[m]["driver"] /\ script'[m] = script[m]
  BY <1>10, HandlerEffect DEF driverVars
<1>11. FederationNext =>
         \/ \E s \in TrustDomain : Acts(s) \/ Removal(s)
         \/ \E l \in Observed :
              \/ Subscribe(l) \/ Poll(l) \/ ListenerExits(l)
              \/ \E p \in Process : TurnPage(l, p)
              \/ \E i \in queue[l] : Handles(l, i)
  BY Zenon, Steps, <1>0 DEF Handles, Acts
<1>12. CASE Acts(m)
  BY <1>1, <1>2, <1>3, <1>4, <1>5, <1>12 DEF Acts
<1>13. CASE ~Acts(m)
  <2>1. script'[m] = script[m]
    BY <1>0, <1>13, ScriptSteps
  <2> QED
    BY <1>6, <1>7, <1>8, <1>9, <1>10, <1>11, <1>13, <2>1
<1> QED
  BY <1>12, <1>13

\* A server that joins has been joining, or has just been added.
LEMMA JoiningSteps ==
  ASSUME BaseInv, FederationNext, NEW l \in TrustDomain, script'[l].joining
  PROVE  script[l].joining \/ Addition(l)
<1>0. script \in [TrustDomain -> ScriptState]
  BY BaseParts
<1>1. CASE script'[l] = script[l]
  BY <1>1
<1>2. CASE Rotation(l)
  BY <1>0, <1>2, GotoMove DEF Rotation
<1>3. CASE CheckExists(l)
  BY <1>0, <1>3, CheckMove
<1>4. CASE SendUpsert(l) \/ UpsertReverts(l) \/ UpsertFails(l)
  <2>1. AfterPublish(l) /\ script[l].pc \in {"exists", "send"}
    BY <1>4 DEF SendUpsert, UpsertReverts, UpsertFails
  <2> QED
    BY <1>0, <2>1, AfterPublishMove, IdleTyped
<1>5. CASE l \in Observed /\ (WriteFiles(l) \/ \E td \in TrustDomain : SetOneBundle(l, td))
  BY <1>5, WriteEffect, SetMove
<1>6. CASE l \in Observed /\ FetchCrashes(l)
  BY <1>0, <1>6, CrashedTyped DEF FetchCrashes
<1> QED
  BY <1>1, <1>2, <1>3, <1>4, <1>5, <1>6, ScriptSteps DEF Acts

\* What is late stays so until the listener handles a later event of it, which
\* counts only once the server has joined.
LEMMA LateKept ==
  ASSUME BaseInv, LateType, FederationNext, NEW l \in Observed, NEW td \in late[l]
  PROVE  \/ td \in late'[l]
         \/ /\ ~Joining(l)
            /\ \E i \in queue[l] :
                 Handling(l, i) /\ Subject(i) = td /\ (ApplyBundle(l, i) \/ DeleteHeld(l, i))
<1>1. ASSUME NEW s \in TrustDomain, Changed(s) PROVE td \in late'[l]
  BY <1>1 DEF Changed
<1>2. ASSUME NEW s \in Observed, WriteFiles(s) PROVE td \in late'[l]
  <2>1. late' = [late EXCEPT ![s] = @ \cup Overlooked(s)]
    BY <1>2 DEF WriteFiles
  <2> QED
    BY <2>1 DEF LateType
<1>3. ASSUME NEW m \in Observed, NEW i \in queue[m], Succeed(m, i)
      PROVE  td \in late'[l] \/ (m = l /\ Subject(i) = td /\ ~Joining(l))
  BY <1>3 DEF Succeed, LateType
<1> QED
  BY <1>1, <1>2, <1>3, LateSteps

\* While a server joins, what is mined is late for it.
LEMMA MinedLate ==
  ASSUME BaseInv, LateType, FederationNext, NEW l \in Observed, Joining(l),
         NEW i \in (Len(blocks) + 1)..Len(blocks)'
  PROVE  Subject(i)' \in late'[l]
<1>1. ~UNCHANGED contractVars
  BY BaseBlocks DEF contractVars, vars
<1>2. PICK s \in TrustDomain, n \in Nat :
        /\ n = Len(blocks) + 1 /\ Len(blocks)' = n /\ Subject(n)' = s
        /\ SendUpsert(s) \/ Removal(s)
  BY <1>1, Transactions
<1>3. i = n
  BY <1>2, BaseBlocks
<1>4. Changed(s)
  BY <1>1, <1>2 DEF SendUpsert, Removal
<1>5. s \in late'[l]
  BY <1>4 DEF Changed
<1> QED
  BY <1>2, <1>3, <1>5

LEMMA SinceLate ==
  ASSUME BaseInv, LateType, FederationNext, NEW l \in Observed, Joining(l), NEW since \in Nat,
         \A i \in (since + 1)..Len(blocks) : Subject(i) \in late[l],
         NEW i \in (since + 1)..Len(blocks)'
  PROVE  Subject(i)' \in late'[l]
<1>1. Len(blocks) \in Nat /\ Len(blocks)' \in Nat
  BY BlocksGrow
<1>2. CASE i <= Len(blocks)
  <2>1. i \in 1..Len(blocks) /\ i \in (since + 1)..Len(blocks)
    BY <1>1, <1>2
  <2>2. Subject(i)' = Subject(i) /\ Subject(i) \in late[l]
    BY <2>1, BlockKept
  <2> QED
    BY <2>2, LateKept
<1>3. CASE ~(i <= Len(blocks))
  <2>1. i \in (Len(blocks) + 1)..Len(blocks)'
    BY <1>1, <1>3
  <2> QED
    BY <2>1, MinedLate
<1> QED
  BY <1>2, <1>3

\* A server that is joining has heard of late trust domains only, its walk has
\* been overtaken by them only, and its other files are what is published.
Joins(l) ==
  script[l].joining =>
    /\ Running(l) => /\ \A i \in queue[l] : Subject(i) \in late[l]
                     /\ \A i \in (lastBlock[l] + 1)..Len(blocks) : Subject(i) \in late[l]
    /\ script[l].pc = "fetch" =>
         \A i \in (walk[l]["driver"].began + 1)..Len(blocks) : Subject(i) \in late[l]
    /\ \A td \in TrustDomain :
         script[l].files[td] \in {Unset, bundles[td]} \/ td \in late[l]

JoinInv == \A l \in Observed : Joins(l)

LEMMA AddedJoins ==
  ASSUME BaseInv, FederationNext, NEW l \in Observed, Addition(l)
  PROVE  Joins(l)'
<1>1. l \in TrustDomain /\ local[l] = Unset /\ phase'[l] = "starting"
  BY ServersAssumption DEF Addition
<1>2. \A td \in TrustDomain : script[l].files[td] = Unset
  BY <1>1, BaseParts DEF ScriptInv, ScriptFits
<1>3. script'[l].pc = "exists" /\ script'[l].files = script[l].files
  BY <1>1, AdditionMove, BaseParts
<1> QED
  BY <1>1, <1>2, <1>3 DEF Joins, Running

LEMMA JoiningListener ==
  ASSUME BaseInv, LateType, FederationNext, NEW l \in Observed, Serves(l),
         script[l].joining, Joins(l), Running(l)'
  PROVE  /\ \A i \in queue'[l] : Subject(i)' \in late'[l]
         /\ \A i \in (lastBlock'[l] + 1)..Len(blocks)' : Subject(i)' \in late'[l]
<1>0. /\ Joining(l) /\ late[l] \subseteq late'[l]
      /\ Len(blocks) \in Nat /\ lastBlock[l] \in Nat
      /\ \A i \in queue[l] : i \in 1..Len(blocks)
  BY LateKept, BaseBlocks, BaseParts DEF ListenerType, Joining
<1>1. ASSUME Running(l), queue'[l] \subseteq queue[l], lastBlock'[l] = lastBlock[l]
      PROVE  /\ \A i \in queue'[l] : Subject(i)' \in late'[l]
             /\ \A i \in (lastBlock'[l] + 1)..Len(blocks)' : Subject(i)' \in late'[l]
  <2>1. ASSUME NEW i \in queue'[l] PROVE Subject(i)' \in late'[l]
    <3>1. i \in queue[l] /\ i \in 1..Len(blocks)
      BY <1>0, <1>1, <2>1
    <3>2. Subject(i)' = Subject(i) /\ Subject(i) \in late[l]
      BY <1>1, <3>1, BlockKept DEF Joins
    <3> QED
      BY <1>0, <3>2
  <2>2. \A i \in (lastBlock[l] + 1)..Len(blocks) : Subject(i) \in late[l]
    BY <1>1 DEF Joins
  <2>3. \A i \in (lastBlock[l] + 1)..Len(blocks)' : Subject(i)' \in late'[l]
    BY <1>0, <2>2, SinceLate
  <2> QED
    BY <1>1, <2>1, <2>3
<1>2. CASE Rests(l)
  BY <1>1, <1>2 DEF Rests, Running
<1>3. ~Addition(l)
  BY DEF Addition, Running
<1>4. CASE Subscribe(l)
  <2>1. queue[l] = {} /\ UNCHANGED <<queue, contractVars>> /\ lastBlock'[l] = Len(blocks)
    BY <1>4, BaseParts DEF Subscribe, Serves, ListenerType
  <2>2. Len(blocks)' = Len(blocks)
    BY <2>1 DEF contractVars, vars
  <2> QED
    BY <1>0, <2>1, <2>2
<1>5. CASE Poll(l)
  <2>1. /\ queue'[l] = (lastBlock[l] + 1)..Len(blocks) /\ lastBlock'[l] = Len(blocks)
        /\ UNCHANGED contractVars /\ Running(l)
    BY <1>5, PollMove
  <2>2. \A i \in (lastBlock[l] + 1)..Len(blocks) : Subject(i) \in late[l]
    BY <2>1 DEF Joins
  <2>3. \A i \in queue'[l] : Subject(i)' \in late'[l]
    BY <1>0, <2>1, <2>2 DEF contractVars, vars, Subject
  <2>4. Len(blocks)' = Len(blocks)
    BY <2>1 DEF contractVars, vars
  <2> QED
    BY <1>0, <2>1, <2>3, <2>4
<1>6. ~ListenerExits(l)
  <2>1. ListenerType
    BY BaseParts
  <2> QED
    BY <2>1 DEF ListenerExits, ListenerType, Running
<1>7. CASE TurnPage(l, "listener")
  BY <1>1, <1>7 DEF TurnPage, listenerVars, Running
<1>8. ASSUME NEW i \in queue[l], Handling(l, i), Handles(l, i)
      PROVE  Running(l) /\ queue'[l] \subseteq queue[l] /\ lastBlock'[l] = lastBlock[l]
  BY <1>8, HandlerEffect DEF Handling
<1> QED
  BY <1>1, <1>2, <1>3, <1>4, <1>5, <1>6, <1>7, <1>8, ListenerSteps

LEMMA JoiningFetch ==
  ASSUME BaseInv, LateType, FederationNext, NEW l \in Observed, script[l].joining, Joins(l),
         script'[l].pc = "fetch", NEW i \in (walk'[l]["driver"].began + 1)..Len(blocks)'
  PROVE  Subject(i)' \in late'[l]
<1>0. /\ Joining(l) /\ Len(blocks) \in Nat /\ walk[l]["driver"].began \in Nat
  BY BaseBlocks, BaseParts DEF WalkState, Process, Joining
<1>1. \/ walk'[l]["driver"].began = walk[l]["driver"].began /\ script[l].pc = "fetch"
      \/ walk'[l]["driver"].began = Len(blocks)
  BY DriverSteps, TurnPageEffect DEF Begins, Process
<1>2. CASE walk'[l]["driver"].began = walk[l]["driver"].began /\ script[l].pc = "fetch"
  <2>1. \A j \in (walk[l]["driver"].began + 1)..Len(blocks) : Subject(j) \in late[l]
    BY <1>2 DEF Joins
  <2>2. i \in (walk[l]["driver"].began + 1)..Len(blocks)'
    BY <1>2
  <2> QED
    BY <1>0, <2>1, <2>2, SinceLate
<1>3. CASE walk'[l]["driver"].began = Len(blocks)
  BY <1>0, <1>3, MinedLate
<1> QED
  BY <1>1, <1>2, <1>3

LEMMA JoiningFiles ==
  ASSUME BaseInv, LateType, FederationNext, ValuesInv, NEW l \in Observed, script[l].joining,
         Joins(l), NEW td \in TrustDomain
  PROVE  script'[l].files[td] \in {Unset, bundles'[td]} \/ td \in late'[l]
<1>0. /\ l \in TrustDomain /\ "driver" \in Process /\ Joining(l)
      /\ late[l] \subseteq late'[l]
  BY ServersAssumption, LateKept DEF Process, Joining
<1>1. bundles'[td] = bundles[td] \/ td \in late'[l]
  <2>1. CASE UNCHANGED contractVars
    BY <2>1 DEF contractVars, vars
  <2>2. ASSUME NEW s \in TrustDomain, NEW n \in Nat, n = Len(blocks) + 1, Len(blocks)' = n,
               Subject(n)' = s, \A t \in TrustDomain \ {s} : bundles'[t] = bundles[t]
        PROVE  bundles'[td] = bundles[td] \/ td \in late'[l]
    <3>1. n \in (Len(blocks) + 1)..Len(blocks)'
      BY <2>2
    <3>2. s \in late'[l]
      BY <1>0, <2>2, <3>1, MinedLate
    <3> QED
      BY <2>2, <3>2
  <2> QED
    BY <2>1, <2>2, Transactions
<1>2. CASE script'[l].files[td] \in {Unset, script[l].files[td]}
  <2>1. script[l].files[td] \in {Unset, bundles[td]} \/ td \in late[l]
    BY DEF Joins
  <2> QED
    BY <1>0, <1>1, <1>2, <2>1
<1>3. ASSUME WriteFiles(l), NEW k \in DOMAIN Collected(l, "driver"),
             Collected(l, "driver")[k][1] = td,
             Collected(l, "driver")[k][2] = script'[l].files[td]
      PROVE  script'[l].files[td] = bundles[td] \/ td \in late[l]
  <2>1. script[l].pc = "fetch"
    BY <1>0, <1>3, WriteEffect
  <2>2. Fresh(Collected(l, "driver")[k][2], Collected(l, "driver")[k][1], walk[l]["driver"].began)
    BY <1>0, <1>3, CollectedValues DEF ValuesInv
  <2>3. \A i \in (walk[l]["driver"].began + 1)..Len(blocks) : Subject(i) \in late[l]
    BY <2>1 DEF Joins
  <2> QED
    BY <1>3, <2>2, <2>3 DEF Fresh
<1> QED
  BY <1>0, <1>1, <1>2, <1>3, FilesSteps

LEMMA JoinInvariance == FederationSpec => []JoinInv
<1>1. FederationInit => JoinInv
  BY IdleTyped, ServersAssumption DEF FederationInit, JoinInv, Joins
<1>2. BaseInv /\ LateType /\ ServesInv /\ ValuesInv /\ JoinInv
        /\ [FederationNext]_federationVars => JoinInv'
  <2> SUFFICES ASSUME BaseInv, LateType, ServesInv, ValuesInv, JoinInv,
                      [FederationNext]_federationVars, NEW l \in Observed
               PROVE  Joins(l)'
    BY DEF JoinInv
  <2>0. l \in TrustDomain /\ Serves(l) /\ Joins(l)
    BY ServersAssumption DEF ServesInv, JoinInv
  <2>1. CASE UNCHANGED federationVars
    BY <2>0, <2>1 DEF federationVars, contractVars, driverVars, listenerVars, vars, Joins,
                      Running, Subject
  <2>2. CASE FederationNext /\ script[l].joining
    <3>1. Running(l)' => /\ \A i \in queue'[l] : Subject(i)' \in late'[l]
                         /\ \A i \in (lastBlock'[l] + 1)..Len(blocks)' : Subject(i)' \in late'[l]
      BY <2>0, <2>2, JoiningListener
    <3>2. script'[l].pc = "fetch" =>
            \A i \in (walk'[l]["driver"].began + 1)..Len(blocks)' : Subject(i)' \in late'[l]
      BY <2>0, <2>2, JoiningFetch
    <3>3. \A td \in TrustDomain :
            script'[l].files[td] \in {Unset, bundles'[td]} \/ td \in late'[l]
      BY <2>0, <2>2, JoiningFiles
    <3> QED
      BY <3>1, <3>2, <3>3 DEF Joins
  <2>3. CASE FederationNext /\ Addition(l)
    BY <2>3, AddedJoins
  <2>4. CASE FederationNext /\ ~script'[l].joining
    BY <2>4 DEF Joins
  <2> QED
    BY <2>0, <2>1, <2>2, <2>3, <2>4, JoiningSteps
<1> QED
  BY <1>1, <1>2, BaseInvariance, LateInvariance, ServesInvariance, ValuesInvariance, PTL
     DEF FederationSpec

-----------------------------------------------------------------------------
(* No server goes back to an older bundle                                  *)

\* What a script imports is what is published at that moment, or late.
LEMMA Imports ==
  ASSUME BaseInv, JoinInv, NEW l \in Observed, NEW td \in TrustDomain, SetOneBundle(l, td)
  PROVE  /\ script[l].joining /\ td # l
         /\ script[l].files[td] \in RawBundle
         /\ script[l].files[td] = bundles[td] \/ td \in late[l]
<1>1. script[l].joining /\ script[l].files[td] \in RawBundle /\ td # l
  BY ServersAssumption, SetMove
<1> QED
  BY <1>1, Numbers DEF JoinInv, Joins

\* While a listener turns pages, and until it applies what it has found, the
\* bundles it has read are not older than those the server holds, or late.
Rises(l) ==
  /\ walk[l]["listener"].pc = "paging" =>
       \A k \in DOMAIN walk[l]["listener"].out :
         LET e == walk[l]["listener"].out[k]
         IN  held[l][e[1]] # Unset => held[l][e[1]] <= e[2] \/ e[1] \in late[l]
  /\ walk[l]["listener"].pc = "applying" =>
       \A i \in queue[l] : Handling(l, i) =>
         (held[l][Subject(i)] # Unset =>
            held[l][Subject(i)] <= walk[l]["listener"].found \/ Subject(i) \in late[l])

RiseInv == \A l \in Observed : Rises(l)

\* An event that is applied ends the listener's walk.
LEMMA AppliedIdle ==
  ASSUME BaseInv, NEW l \in Observed, Serves(l), NEW i \in queue[l], Handling(l, i),
         ApplyBundle(l, i) \/ DeleteHeld(l, i)
  PROVE  walk'[l]["listener"].pc = "idle"
<1>1. CASE ApplyBundle(l, i)
  <2>1. EndWalk(l, "listener") /\ "listener" \in Process
    BY <1>1 DEF ApplyBundle, Process
  <2> QED
    BY <2>1, EndWalkEffect, NoWalkTyped
<1>2. CASE DeleteHeld(l, i)
  <2>1. IsDeletion(i) /\ UNCHANGED walk
    BY <1>2 DEF DeleteHeld
  <2>2. \A j \in queue[l] : Handling(l, j) => j = i
    BY OneHandled
  <2> QED
    BY <2>1, <2>2 DEF Serves
<1> QED
  BY <1>1, <1>2

\* The entries of a page are not older than what the server holds.
LEMMA CollectedRise ==
  ASSUME BaseInv, ValuesInv, NEW l \in Observed, Rises(l), walk[l]["listener"].pc = "paging",
         NEW k \in DOMAIN Collected(l, "listener"),
         NEW td, NEW v, td = Collected(l, "listener")[k][1], v = Collected(l, "listener")[k][2]
  PROVE  /\ td \in TrustDomain
         /\ held[l][td] # Unset => held[l][td] <= v \/ td \in late[l]
<1>1. "listener" \in Process
  BY DEF Process
<1>2. td \in TrustDomain /\ v \in RawBundle
  BY <1>1, CollectedValues DEF ValuesInv
<1>3. CASE k \in DOMAIN walk[l]["listener"].out
           /\ Collected(l, "listener")[k] = walk[l]["listener"].out[k]
  BY <1>2, <1>3 DEF Rises
<1>4. CASE v = bundles[td]
  BY <1>2, <1>4, Numbers DEF ValuesInv, Past
<1> QED
  BY <1>1, <1>2, <1>3, <1>4, BaseContract, CollectedEntries DEF BaseInv

\* A file that is imported in the middle of the listener's walk is as new as
\* the entries of the walk, or late.
LEMMA RisesImport ==
  ASSUME BaseInv, ValuesInv, JoinInv, NEW l \in Observed, Serves(l), Rises(l),
         NEW td \in TrustDomain, SetOneBundle(l, td)
  PROVE  Rises(l)'
<1>0. "listener" \in Process /\ l \in TrustDomain
  BY ServersAssumption DEF Process
<1>1. /\ UNCHANGED contractVars /\ UNCHANGED listenerVars /\ UNCHANGED <<walk, late>>
      /\ \A t \in TrustDomain : held'[l][t] = IF t = td THEN script[l].files[td] ELSE held[l][t]
  BY BaseParts DEF SetOneBundle, ServerType
<1>2. /\ script[l].joining /\ script[l].files[td] \in RawBundle
      /\ script[l].files[td] = bundles[td] \/ td \in late[l]
  BY Imports
<1>3. Joins(l)
  BY DEF JoinInv
<1>4. walk[l]["listener"].pc # "idle" => Running(l)
  BY DEF Serves, Handling
<1>5. ASSUME walk[l]["listener"].pc = "paging", NEW k \in DOMAIN walk[l]["listener"].out,
             NEW e, e = walk[l]["listener"].out[k]
      PROVE  held'[l][e[1]] # Unset => held'[l][e[1]] <= e[2] \/ e[1] \in late[l]
  <2>0. /\ walk[l]["listener"].out \in Seq(TrustDomain \X RawBundle)
        /\ walk[l]["listener"].began \in Nat /\ lastBlock[l] \in Nat
    BY <1>0, BaseParts DEF WalkState, ListenerType
  <2>1. e[1] \in TrustDomain /\ e[2] \in RawBundle
    BY <1>5, <2>0, ElementOfSeq
  <2>2. CASE e[1] # td
    BY <1>1, <1>5, <2>1, <2>2 DEF Rises
  <2>3. CASE e[1] = td /\ e[2] = bundles[td]
    BY <1>1, <1>2, <2>1, <2>3, Numbers
  <2>4. ASSUME e[1] = td, NEW i \in (walk[l]["listener"].began + 1)..Len(blocks), Subject(i) = td
        PROVE  td \in late[l]
    <3>1. lastBlock[l] <= walk[l]["listener"].began
      BY <1>5 DEF Serves
    <3>2. i \in (lastBlock[l] + 1)..Len(blocks)
      BY <2>0, <3>1, BaseBlocks
    <3> QED
      BY <1>2, <1>3, <1>4, <1>5, <2>4, <3>2 DEF Joins
  <2>5. Fresh(e[2], e[1], walk[l]["listener"].began)
    BY <1>0, <1>5 DEF ValuesInv, Entries
  <2> QED
    BY <2>2, <2>3, <2>4, <2>5 DEF Fresh
<1>6. ASSUME walk[l]["listener"].pc = "applying", NEW i \in queue[l] PROVE Subject(i) \in late[l]
  BY <1>2, <1>3, <1>4, <1>6 DEF Joins
<1>7. /\ walk'[l]["listener"] = walk[l]["listener"] /\ queue'[l] = queue[l] /\ late'[l] = late[l]
      /\ \A i \in queue[l] : Subject(i)' = Subject(i)
  BY <1>1 DEF listenerVars, contractVars, vars, Subject
<1> QED
  BY <1>5, <1>6, <1>7 DEF Rises

LEMMA RisesNext ==
  ASSUME BaseInv, LateType, FederationNext, ValuesInv, JoinInv, NEW l \in Observed, Serves(l), Rises(l)
  PROVE  Rises(l)'
<1> "listener" \in Process
  BY DEF Process
<1>1. CASE \E td \in TrustDomain : SetOneBundle(l, td)
  BY <1>1, RisesImport
<1>2. CASE walk'[l]["listener"].pc = "idle"
  BY <1>2 DEF Rises
<1>3. CASE /\ walk'[l]["listener"].pc # "idle"
           /\ ~ \E td \in TrustDomain : SetOneBundle(l, td)
  <2>0. /\ \A td \in TrustDomain : held'[l][td] = held[l][td]
        /\ late[l] \subseteq late'[l]
    BY <1>3, HeldSteps, LateKept, AppliedIdle
  <2>1. ASSUME walk'[l]["listener"].pc = "paging", NEW k \in DOMAIN walk'[l]["listener"].out,
               NEW e, e = walk'[l]["listener"].out[k]
        PROVE  held'[l][e[1]] # Unset => held'[l][e[1]] <= e[2] \/ e[1] \in late'[l]
    <3>1. CASE walk'[l]["listener"] = walk[l]["listener"]
      <4>1. walk[l]["listener"].out \in Seq(TrustDomain \X RawBundle)
        BY BaseParts DEF WalkState
      <4>2. e[1] \in TrustDomain
        BY <2>1, <3>1, <4>1, ElementOfSeq
      <4> QED
        BY <2>0, <2>1, <3>1, <4>2 DEF Rises
    <3>2. CASE TurnPage(l, "listener")
      <4>1. walk'[l]["listener"].out = Collected(l, "listener") /\ walk[l]["listener"].pc = "paging"
        BY <3>2, TurnPageEffect DEF TurnPage
      <4>2. k \in DOMAIN Collected(l, "listener") /\ e = Collected(l, "listener")[k]
        BY <2>1, <4>1
      <4> HIDE DEF Rises
      <4>3. /\ e[1] \in TrustDomain
            /\ held[l][e[1]] # Unset => held[l][e[1]] <= e[2] \/ e[1] \in late[l]
        BY <4>1, <4>2, CollectedRise
      <4> QED
        BY <2>0, <4>3
    <3>3. CASE Begins(l, "listener") \/ Ends(l, "listener")
      BY <2>1, <3>3 DEF Begins, Ends
    <3> QED
      BY <3>1, <3>2, <3>3, WalkSteps
  <2>2. ASSUME walk'[l]["listener"].pc = "applying", NEW i \in queue'[l], Handling(l, i)'
        PROVE  LET td == Subject(i)'
               IN  held'[l][td] # Unset =>
                     held'[l][td] <= walk'[l]["listener"].found \/ td \in late'[l]
    <3>1. CASE Rests(l)
      <4>1. i \in queue[l] /\ phase'[l] = phase[l] /\ queue'[l] = queue[l]
            /\ walk'[l]["listener"] = walk[l]["listener"]
        BY <2>2, <3>1 DEF Rests
      <4>2. Handling(l, i) /\ Subject(i)' = Subject(i) /\ Subject(i) \in TrustDomain
        BY <2>2, <4>1, HandlingKept, BlockKept, BaseBlocks
      <4> QED
        BY <2>0, <2>2, <4>1, <4>2 DEF Rises
    <3>2. ASSUME NEW j \in queue[l], Handling(l, j), FetchFinds(l, j)
          PROVE  LET td == Subject(i)'
                 IN  held'[l][td] # Unset =>
                       held'[l][td] <= walk'[l]["listener"].found \/ td \in late'[l]
      <4>1. UNCHANGED <<queue, phase>> /\ walk[l]["listener"].pc = "paging"
        BY <3>2 DEF FetchFinds, listenerVars, OnLastPage
      <4>2. i \in queue[l] /\ Handling(l, i)
        BY <2>2, <4>1, HandlingKept
      <4>3. i = j /\ Subject(i)' = Subject(i)
        BY <3>2, <4>2, OneHandled, BlockKept, BaseBlocks
      <4>4. PICK k \in DOMAIN Collected(l, "listener") :
              /\ Collected(l, "listener")[k][1] = Subject(j)
              /\ Collected(l, "listener")[k][2] = walk'[l]["listener"].found
        BY <3>2, FindsEffect
      <4>5. /\ Subject(j) \in TrustDomain
            /\ held[l][Subject(j)] # Unset =>
                 held[l][Subject(j)] <= walk'[l]["listener"].found \/ Subject(j) \in late[l]
        BY <4>1, <4>4, CollectedRise
      <4> QED
        BY <2>0, <4>3, <4>5
    <3> QED
      BY <2>2, <3>1, <3>2, ApplyingSteps
  <2> QED
    BY <2>1, <2>2 DEF Rises
<1> QED
  BY <1>1, <1>2, <1>3

LEMMA RiseInvariance == FederationSpec => []RiseInv
<1>1. FederationInit => RiseInv
  BY NoWalkTyped DEF FederationInit, RiseInv, Rises, Process
<1>2. BaseInv /\ LateType /\ JoinInv /\ ServesInv /\ ValuesInv /\ RiseInv
        /\ [FederationNext]_federationVars => RiseInv'
  <2> SUFFICES ASSUME BaseInv, LateType, JoinInv, ServesInv, ValuesInv, RiseInv,
                      [FederationNext]_federationVars
               PROVE  RiseInv'
    OBVIOUS
  <2>1. CASE UNCHANGED federationVars
    BY <2>1 DEF federationVars, contractVars, listenerVars, vars, RiseInv, Rises,
                Handling, Running, YieldedBefore, Subject
  <2> QED
    BY <2>1, RisesNext DEF RiseInv, ServesInv
<1> QED
  BY <1>1, <1>2, BaseInvariance, LateInvariance, JoinInvariance, ServesInvariance,
     ValuesInvariance, PTL DEF FederationSpec

\* A server never goes back to an older bundle of a peer, although a rotation
\* may be mined between the page that a listener reads and the set_bundle it
\* runs: for any page size and any number of scripts, and for a newcomer too,
\* unless the peer rotated while the newcomer was joining.
THEOREM NoBundleIsReinstated == FederationSpec => NoRollback
<1> DEFINE NotOlder ==
      \A l \in Observed, td \in TrustDomain :
        held[l][td] # Unset /\ held'[l][td] # Unset =>
          held'[l][td] >= held[l][td] \/ td \in late[l]
<1>1. ASSUME BaseInv, BaseInv', JoinInv, ValuesInv, RiseInv, FederationNext,
             NEW l \in Observed, NEW td \in TrustDomain,
             held[l][td] # Unset, held'[l][td] # Unset
      PROVE  held'[l][td] >= held[l][td] \/ td \in late[l]
  <2>2. held[l][td] \in RawBundle /\ held'[l][td] \in RawBundle
    BY <1>1 DEF BaseInv, ProcessTypeOK, Bundle
  <2>3. CASE held'[l][td] = held[l][td]
    <3>1. held[l][td] \in Nat
      BY <2>2, Numbers
    <3> QED
      BY <2>3, <3>1
  <2>4. CASE SetOneBundle(l, td) /\ held'[l][td] = script[l].files[td]
    <3>1. held'[l][td] = bundles[td] \/ td \in late[l]
      BY <1>1, <2>4, Imports
    <3>2. bundles[td] \in RawBundle => held[l][td] <= bundles[td]
      BY <1>1, Numbers DEF ValuesInv, Past
    <3> QED
      BY <2>2, <3>1, <3>2, Numbers
  <2>5. ASSUME NEW i \in queue[l], Handling(l, i), Subject(i) = td, ApplyBundle(l, i),
               held'[l][td] = walk[l]["listener"].found
        PROVE  held'[l][td] >= held[l][td] \/ td \in late[l]
    <3>1. walk[l]["listener"].pc = "applying"
      BY <2>5 DEF ApplyBundle
    <3>2. held[l][td] <= walk[l]["listener"].found \/ td \in late[l]
      BY <1>1, <2>5, <3>1 DEF RiseInv, Rises
    <3> QED
      BY <2>2, <2>5, <3>2, Numbers
  <2> QED
    BY <1>1, <2>3, <2>4, <2>5, HeldSteps
<1>2. BaseInv /\ BaseInv' /\ JoinInv /\ ValuesInv /\ RiseInv /\ [FederationNext]_federationVars
        => [NotOlder]_held
  <2>1. UNCHANGED federationVars => UNCHANGED held
    BY DEF federationVars
  <2>2. BaseInv /\ BaseInv' /\ JoinInv /\ ValuesInv /\ RiseInv /\ FederationNext => NotOlder
    BY <1>1
  <2> QED
    BY <2>1, <2>2
<1>3. FederationSpec => [][NotOlder]_held
  BY <1>2, BaseInvariance, JoinInvariance, ValuesInvariance, RiseInvariance, PTL DEF FederationSpec
<1> QED
  BY <1>3 DEF NoRollback

-----------------------------------------------------------------------------
(* A store that has caught up trusts nothing stale and misses no member    *)

\* The listener has an event of td to handle, or to poll.
Pending(l, td) ==
  /\ Running(l)
  /\ \E i \in 1..Len(blocks) : (i \in queue[l] \/ i > lastBlock[l]) /\ Subject(i) = td

Excused(l, td) == td \in failed[l] \cup late[l] \/ Pending(l, td)

\* No script of l is about to import a bundle of td or gave up doing so, and
\* td was not deleted and published again within the last window it was in.
Settled(l, td) ==
  /\ local[l] # Unset /\ td \notin reordered[l]
  /\ script[l].pc # "crashed"
  /\ script[l].joining => script[l].pc = "set" /\ script[l].files[td] = Unset

StoreFits(l, td) ==
  phase[l] # "exited" =>
    /\ held[l][td] \in {Unset, bundles[td]} \/ Excused(l, td)
    /\ Settled(l, td) => held[l][td] = bundles[td] \/ Excused(l, td)

\* A server without a listener has no cluster yet; a deletion that is handled
\* behind the publish that follows it is marked.
Arrives(l) ==
  phase[l] = "absent" => local[l] = Unset /\ \A td \in TrustDomain : held[l][td] = Unset

Marks(l) ==
  \A d \in queue[l] : \A j \in 1..lastBlock[l] :
    d < j /\ IsDeletion(d) /\ Subject(j) = Subject(d) /\ ~IsDeletion(j) =>
      Subject(d) \in reordered[l]

StoreInv ==
  \A l \in Observed :
    /\ Arrives(l) /\ Marks(l)
    /\ \A td \in TrustDomain \ {l} : StoreFits(l, td)

LEMMA ArrivesNext ==
  ASSUME BaseInv, FederationNext, NEW l \in Observed, Serves(l), Arrives(l)
  PROVE  Arrives(l)'
<1> SUFFICES ASSUME phase'[l] = "absent"
             PROVE  local'[l] = Unset /\ \A td \in TrustDomain : held'[l][td] = Unset
  BY DEF Arrives
<1>1. l \in TrustDomain /\ ListenerType
  BY ServersAssumption, BaseParts
<1>2. ~Addition(l)
  BY DEF Addition
<1>3. phase[l] = "absent"
  <2>1. ~Subscribe(l) /\ ~ListenerExits(l)
    BY <1>1 DEF Subscribe, ListenerExits, ListenerType
  <2>2. Poll(l) \/ TurnPage(l, "listener") => phase'[l] = phase[l]
    BY DEF Poll, TurnPage, listenerVars
  <2>3. ASSUME NEW i \in queue[l], Handles(l, i) PROVE phase'[l] = phase[l]
    BY <2>3, HandlerEffect
  <2> QED
    BY <1>2, <2>1, <2>2, <2>3, ListenerSteps DEF Rests
<1>4. local[l] = Unset /\ \A td \in TrustDomain : held[l][td] = Unset
  BY <1>3 DEF Arrives
<1>5. local'[l] = Unset
  BY <1>1, <1>2, <1>4, LocalSteps
<1>6. ASSUME NEW td \in TrustDomain PROVE held'[l][td] = Unset
  <2>1. ~SetOneBundle(l, td)
    <3>1. script[l].pc = "idle"
      BY <1>1, <1>4, BaseParts DEF ScriptInv, ScriptFits
    <3> QED
      BY <3>1 DEF SetOneBundle
  <2>2. \A i \in queue[l] : ~Handling(l, i)
    BY <1>3 DEF Handling, Running
  <2> QED
    BY <1>4, <2>1, <2>2, HeldSteps
<1> QED
  BY <1>5, <1>6

LEMMA MarksNext ==
  ASSUME BaseInv, FederationNext, NEW l \in Observed, Serves(l), Marks(l)
  PROVE  Marks(l)'
<1>1. CASE queue'[l] \subseteq queue[l] /\ lastBlock'[l] = lastBlock[l] /\ reordered'[l] = reordered[l]
  <2> SUFFICES ASSUME NEW d \in queue'[l], NEW j \in 1..lastBlock'[l],
                      d < j, IsDeletion(d)', Subject(j)' = Subject(d)', ~IsDeletion(j)'
               PROVE  Subject(d)' \in reordered'[l]
    BY DEF Marks
  <2>1. d \in queue[l] /\ j \in 1..lastBlock[l]
    BY <1>1
  <2>2. d \in 1..Len(blocks) /\ j \in 1..Len(blocks)
    BY <2>1, BaseBlocks, BaseParts DEF QueueInv, ListenerType
  <2>3. /\ Subject(d)' = Subject(d) /\ IsDeletion(d)' = IsDeletion(d)
        /\ Subject(j)' = Subject(j) /\ IsDeletion(j)' = IsDeletion(j)
    BY <2>2, BlockKept
  <2> QED
    BY <1>1, <2>1, <2>3 DEF Marks
<1>2. CASE Rests(l) \/ Addition(l) \/ ListenerExits(l) \/ TurnPage(l, "listener")
  BY <1>1, <1>2 DEF Rests, Addition, ListenerExits, TurnPage, listenerVars
<1>3. CASE Subscribe(l)
  <2>1. queue'[l] = {}
    BY <1>3 DEF Subscribe, Serves
  <2> QED
    BY <2>1 DEF Marks
<1>4. CASE Poll(l)
  <2>1. /\ queue'[l] = (lastBlock[l] + 1)..Len(blocks) /\ lastBlock'[l] = Len(blocks)
        /\ PublishedAgain(Window(l)) \subseteq reordered'[l]
        /\ Window(l) = (lastBlock[l] + 1)..Len(blocks) /\ lastBlock[l] \in Nat
        /\ UNCHANGED blocks /\ Len(blocks) \in Nat
    BY <1>4, PollMove DEF contractVars, vars
  <2> SUFFICES ASSUME NEW d \in queue'[l], NEW j \in 1..Len(blocks),
                      d < j, IsDeletion(d), Subject(j) = Subject(d), ~IsDeletion(j)
               PROVE  Subject(d) \in reordered'[l]
    BY <2>1 DEF Marks, IsDeletion, Subject
  <2>2. d \in Window(l) /\ j \in Window(l)
    BY <2>1
  <2> QED
    BY <2>1, <2>2 DEF PublishedAgain
<1>5. ASSUME NEW i \in queue[l], Handles(l, i) PROVE Marks(l)'
  <2>1. queue'[l] \subseteq queue[l] /\ lastBlock'[l] = lastBlock[l] /\ reordered'[l] = reordered[l]
    BY <1>5, HandlerEffect
  <2> QED
    BY <1>1, <2>1
<1> QED
  BY <1>2, <1>3, <1>4, <1>5, ListenerSteps

\* A listener loses an excuse only by handling the event that is one.
LEMMA ExcusedKept ==
  ASSUME BaseInv, LateType, FederationNext, NEW l \in Observed, NEW td \in TrustDomain, Serves(l),
         Excused(l, td), phase'[l] # "exited"
  PROVE  \/ Excused(l, td)'
         \/ \E i \in queue[l] : Handling(l, i) /\ Subject(i) = td /\ Handles(l, i)
<1> SUFFICES ASSUME td \in failed[l] \/ Pending(l, td)
             PROVE  \/ Excused(l, td)'
                    \/ \E i \in queue[l] : Handling(l, i) /\ Subject(i) = td /\ Handles(l, i)
  BY LateKept DEF Excused, Handles
<1>0. /\ Len(blocks) \in Nat /\ Len(blocks)' \in Nat /\ Len(blocks) <= Len(blocks)'
      /\ lastBlock[l] \in Nat /\ lastBlock[l] <= Len(blocks)
      /\ \A i \in 1..Len(blocks) : Subject(i)' = Subject(i) /\ i \in 1..Len(blocks)'
  BY BlocksGrow, BlockKept, BaseParts DEF ListenerType, QueueInv
<1>1. ASSUME phase'[l] = phase[l], lastBlock'[l] = lastBlock[l], queue'[l] = queue[l],
             failed'[l] = failed[l]
      PROVE  Excused(l, td)'
  BY <1>0, <1>1 DEF Excused, Pending, Running
<1>2. CASE Rests(l) \/ TurnPage(l, "listener")
  BY <1>1, <1>2 DEF Rests, TurnPage, listenerVars
<1>3. ~Addition(l) /\ ~Subscribe(l)
  BY DEF Pending, Running, Serves, Addition, Subscribe
<1>4. CASE Poll(l)
  <2>1. /\ lastBlock'[l] = Len(blocks) /\ queue'[l] = (lastBlock[l] + 1)..Len(blocks)
        /\ queue[l] = {} /\ phase'[l] = phase[l] /\ failed'[l] = failed[l]
    BY <1>4, PollMove
  <2>2. CASE Pending(l, td)
    <3>1. PICK i \in 1..Len(blocks) : i > lastBlock[l] /\ Subject(i) = td
      BY <2>1, <2>2 DEF Pending
    <3>2. i \in queue'[l] /\ i \in 1..Len(blocks)' /\ Subject(i)' = td
      BY <1>0, <2>1, <3>1
    <3> QED
      BY <2>1, <2>2, <3>2 DEF Excused, Pending, Running
  <2> QED
    BY <2>1, <2>2 DEF Excused
<1>5. ~ListenerExits(l)
  <2>1. ListenerType
    BY BaseParts
  <2> QED
    BY <2>1 DEF ListenerExits, ListenerType
<1>6. ASSUME NEW i \in queue[l], Handling(l, i), Handles(l, i), Subject(i) # td
      PROVE  Excused(l, td)'
  <2>1. /\ phase'[l] = phase[l] /\ lastBlock'[l] = lastBlock[l]
        /\ queue'[l] = queue[l] \/ queue'[l] = queue[l] \ {i}
        /\ failed[l] \ {Subject(i)} \subseteq failed'[l]
    BY <1>6, HandlerEffect
  <2>2. CASE td \in failed[l]
    BY <1>6, <2>1, <2>2 DEF Excused
  <2>3. CASE Pending(l, td)
    <3>1. PICK k \in 1..Len(blocks) : (k \in queue[l] \/ k > lastBlock[l]) /\ Subject(k) = td
      BY <2>3 DEF Pending
    <3>2. (k \in queue'[l] \/ k > lastBlock'[l]) /\ k \in 1..Len(blocks)' /\ Subject(k)' = td
      BY <1>0, <1>6, <2>1, <3>1
    <3> QED
      BY <2>1, <2>3, <3>2 DEF Excused, Pending, Running
  <2> QED
    BY <2>2, <2>3 DEF Excused
<1> QED
  BY <1>2, <1>3, <1>4, <1>5, <1>6, ListenerSteps

\* How a server comes to be settled with a trust domain.
LEMMA SettledSteps ==
  ASSUME BaseInv, FederationNext, NEW l \in Observed, NEW td \in TrustDomain, Serves(l),
         Settled(l, td)'
  PROVE  \/ Settled(l, td)
         \/ WriteFiles(l) \/ SetOneBundle(l, td)
         \/ Poll(l) /\ td \in Touched(Window(l))
<1> SUFFICES ASSUME ~WriteFiles(l), ~SetOneBundle(l, td), ~(Poll(l) /\ td \in Touched(Window(l)))
             PROVE  Settled(l, td)
  OBVIOUS
<1>0. l \in TrustDomain
  BY ServersAssumption
<1>1. ~Addition(l)
  <2>1. ASSUME Addition(l) PROVE FALSE
    <3>1. PICK r \in ScriptState :
            script' = [script EXCEPT ![l] = r] /\ r.pc = "exists" /\ r.joining
      BY <1>0, <2>1, AdditionMove
    <3>2. script'[l] = r
      BY <1>0, <3>1, BaseParts
    <3> QED
      BY <3>1, <3>2 DEF Settled
  <2> QED
    BY <2>1
<1>2. local[l] # Unset
  BY <1>0, <1>1, LocalSteps DEF Settled
<1>3. td \notin reordered[l]
  <2>1. CASE Poll(l)
    BY <2>1, PollMove DEF Settled
  <2>2. CASE Rests(l) \/ Subscribe(l) \/ ListenerExits(l) \/ TurnPage(l, "listener")
    BY <2>2 DEF Settled, Rests, Subscribe, ListenerExits, TurnPage, listenerVars
  <2>3. ASSUME NEW i \in queue[l], Handles(l, i) PROVE td \notin reordered[l]
    BY <2>3, HandlerEffect DEF Settled
  <2> QED
    BY <1>1, <2>1, <2>2, <2>3, ListenerSteps
<1>4. /\ script[l].pc # "crashed"
      /\ script[l].joining => script[l].pc = "set" /\ script[l].files[td] = Unset
  <2>0. script \in [TrustDomain -> ScriptState] /\ ScriptFits(l, script[l], local[l])
    BY <1>0, BaseParts DEF ScriptInv
  <2>1. CASE script'[l] = script[l]
    BY <2>1 DEF Settled
  <2>2. CASE Rotation(l)
    <3>1. script[l].pc = "idle"
      BY <2>2 DEF Rotation
    <3> QED
      BY <2>0, <3>1 DEF ScriptFits
  <2>3. CASE CheckExists(l)
    <3>1. PICK r \in ScriptState :
            /\ script' = [script EXCEPT ![l] = r]
            /\ r.pc = "send" /\ r.joining = script[l].joining
      BY <1>0, <2>3, CheckMove
    <3>2. script'[l] = r
      BY <1>0, <2>0, <3>1
    <3>3. script[l].pc = "exists"
      BY <2>3 DEF CheckExists
    <3> QED
      BY <3>1, <3>2, <3>3 DEF Settled
  <2>4. CASE SendUpsert(l) \/ UpsertReverts(l) \/ UpsertFails(l)
    <3>1. AfterPublish(l) /\ script[l].pc \in {"exists", "send"}
      BY <2>4 DEF SendUpsert, UpsertReverts, UpsertFails
    <3>2. CASE ~script[l].joining
      BY <3>1, <3>2
    <3>3. CASE script[l].joining
      <4>1. PICK r \in ScriptState :
              script' = [script EXCEPT ![l] = r] /\ r.pc = "fetch" /\ r.joining
        BY <1>0, <3>1, <3>3, AfterPublishMove
      <4>2. script'[l] = r
        BY <1>0, <2>0, <4>1
      <4> QED
        BY <4>1, <4>2 DEF Settled
    <3> QED
      BY <3>2, <3>3
  <2>5. ~FetchCrashes(l)
    BY <1>0, <2>0, CrashedTyped DEF FetchCrashes, Settled
  <2>6. ASSUME NEW t \in TrustDomain, SetOneBundle(l, t)
        PROVE  /\ script[l].pc # "crashed"
               /\ script[l].joining => script[l].pc = "set" /\ script[l].files[td] = Unset
    <3>1. td # t
      BY <2>6
    <3>2. script[l].pc = "set"
      BY <2>6 DEF SetOneBundle
    <3>3. CASE /\ script'[l] = Idle
               /\ \A u \in TrustDomain \ {t} : script[l].files[u] = Unset
      BY <3>1, <3>2, <3>3
    <3>4. CASE /\ script'[l].pc = "set" /\ script'[l].joining
               /\ \A u \in TrustDomain :
                    script'[l].files[u] = IF u = t THEN Unset ELSE script[l].files[u]
      BY <3>1, <3>2, <3>4 DEF Settled
    <3> QED
      BY <1>0, <2>6, <3>3, <3>4, SetEffect
  <2> QED
    BY <1>0, <1>1, <2>1, <2>2, <2>3, <2>4, <2>5, <2>6, ScriptSteps DEF Acts
<1> QED
  BY <1>2, <1>3, <1>4 DEF Settled

\* When the files of a joining server are written, a name without a file is
\* not a member, or is late because a deletion has hidden it from the walk.
LEMMA WrittenAll ==
  ASSUME BaseInv, LateType, WalkedInv, NEW l \in Observed, WriteFiles(l),
         NEW td \in TrustDomain \ {l}, Settled(l, td)'
  PROVE  bundles[td] = Unset \/ td \in late'[l]
<1>0. l \in TrustDomain /\ "driver" \in Process /\ IInv
  BY ServersAssumption, BaseContract DEF Process
<1>1. /\ script[l].pc = "fetch" /\ script[l].joining /\ OnLastPage(l, "driver")
      /\ \E files \in [TrustDomain -> Bundle] :
           /\ \A t \in TrustDomain \ {l} :
                IF \A k \in DOMAIN Collected(l, "driver") : Collected(l, "driver")[k][1] # t
                THEN files[t] = Unset
                ELSE \E k \in DOMAIN Collected(l, "driver") :
                       /\ Collected(l, "driver")[k][1] = t
                       /\ Collected(l, "driver")[k][2] = files[t]
           /\ \/ script'[l] = Idle /\ \A t \in TrustDomain : files[t] = Unset
              \/ script'[l].pc = "set" /\ script'[l].joining /\ script'[l].files = files
  BY <1>0, WriteEffect
<1>2. PICK files \in [TrustDomain -> Bundle] :
           /\ \A t \in TrustDomain \ {l} :
                \/ \A k \in DOMAIN Collected(l, "driver") : Collected(l, "driver")[k][1] # t
                \/ \E k \in DOMAIN Collected(l, "driver") :
                       /\ Collected(l, "driver")[k][1] = t
                       /\ Collected(l, "driver")[k][2] = files[t]
           /\ \/ script'[l] = Idle /\ \A t \in TrustDomain : files[t] = Unset
              \/ script'[l].pc = "set" /\ script'[l].joining /\ script'[l].files = files
  BY <1>1
<1>3. files[td] = Unset
  BY <1>2 DEF Settled
<1>4. \A k \in DOMAIN Collected(l, "driver") : Collected(l, "driver")[k][2] # Unset
  <2>1. ProcessTypeOK
    BY DEF BaseInv
  <2>2. Collected(l, "driver") \in Seq(TrustDomain \X RawBundle)
    BY <1>0, <2>1, CollectedEntries
  <2>3. \A k \in DOMAIN Collected(l, "driver") : Collected(l, "driver")[k] \in TrustDomain \X RawBundle
    BY <2>2, ElementOfSeq
  <2> QED
    BY <2>3, Numbers
<1>5. \A k \in DOMAIN Collected(l, "driver") : Collected(l, "driver")[k][1] # td
  BY <1>2, <1>3, <1>4
<1>6. late'[l] = late[l] \cup Overlooked(l)
  BY DEF WriteFiles, LateType
<1>7. CASE \E i \in (walk[l]["driver"].began + 1)..Len(blocks) : IsDeletion(i)
  <2>1. bundleExists[td] => td \in Overlooked(l)
    BY <1>5, <1>7 DEF Overlooked, Named, IsDeletion
  <2> QED
    BY <1>6, <2>1, <1>0 DEF BaseInv, ArrayMirrorsMappings
<1>8. CASE ~ \E i \in (walk[l]["driver"].began + 1)..Len(blocks) : IsDeletion(i)
  <2>1. /\ Total \in Nat /\ Len(Collected(l, "driver")) = Total
        /\ \A k \in 1..Total : Collected(l, "driver")[k][1] = trustDomains[k]
    <3>1. Walked(l, "driver")
      BY <1>0 DEF WalkedInv
    <3> QED
      BY <1>0, <1>1, <1>8, <3>1, WalkComplete
  <2>2. DOMAIN Collected(l, "driver") = 1..Total /\ DOMAIN trustDomains = 1..Total
    BY <1>0, <2>1, CollectedEntries, LenProperties DEF BaseInv, IInv, TypeOK, Total
  <2>3. \A k \in 1..Total : trustDomains[k] # td
    BY <1>5, <2>1, <2>2
  <2> QED
    BY <1>0, <2>2, <2>3 DEF IInv, ArrayMirrorsMappings, Range
<1> QED
  BY <1>7, <1>8

\* The event of td that a listener handles leaves the server's store as the
\* ledger has it, or leaves an ERROR, or a later event to come.
LEMMA HandledFits ==
  ASSUME BaseInv, ValuesInv, NEW l \in Observed, NEW td \in TrustDomain \ {l}, Marks(l),
         StoreFits(l, td), NEW i \in queue[l], Handling(l, i), Subject(i) = td, Handles(l, i)
  PROVE  StoreFits(l, td)'
<1>0. /\ UNCHANGED contractVars /\ UNCHANGED driverVars
      /\ UNCHANGED <<phase, lastBlock, reordered>> /\ Running(l)
  BY HandlerEffect DEF Handling
<1>1. CASE IgnoreOwn(l, i)
  BY <1>1 DEF IgnoreOwn
<1>2. CASE BeginFetch(l, i) \/ FetchFinds(l, i)
  BY <1>0, <1>2 DEF BeginFetch, FetchFinds, contractVars, vars, driverVars, listenerVars,
     StoreFits, Settled, Excused, Pending, Running, Subject
<1>3. CASE FetchMisses(l, i) \/ HandlerFails(l, i)
  <2>1. LogError(l, i)
    BY <1>3 DEF FetchMisses, HandlerFails
  <2>2. td \in failed'[l]
    BY <2>1, FailedMove
  <2> QED
    BY <2>2 DEF StoreFits, Excused
<1>4. CASE ApplyBundle(l, i)
  <2>1. walk[l]["listener"].pc = "applying"
    BY <1>4 DEF ApplyBundle
  <2>2. held'[l][td] = walk[l]["listener"].found
    BY <1>4, BaseParts DEF ApplyBundle, ServerType
  <2>3. Fresh(held'[l][td], td, lastBlock[l])
    BY <2>1, <2>2 DEF ValuesInv, Found
  <2>4. CASE held'[l][td] = bundles[td]
    BY <1>0, <2>4 DEF StoreFits, contractVars, vars
  <2>5. ASSUME NEW j \in (lastBlock[l] + 1)..Len(blocks), Subject(j) = td
        PROVE  StoreFits(l, td)'
    <3>1. j \in 1..Len(blocks) /\ j > lastBlock[l]
      BY BaseBlocks, BaseParts DEF ListenerType
    <3>2. Pending(l, td)'
      BY <1>0, <2>5, <3>1 DEF Pending, Running, Subject, contractVars, vars
    <3> QED
      BY <3>2 DEF StoreFits, Excused
  <2> QED
    BY <2>3, <2>4, <2>5 DEF Fresh
<1>5. CASE DeleteHeld(l, i)
  <2>1. held'[l][td] = Unset /\ IsDeletion(i)
    BY <1>5, BaseParts DEF DeleteHeld, ServerType
  <2>2. CASE bundles[td] = Unset
    BY <1>0, <2>1, <2>2 DEF StoreFits, contractVars, vars
  <2>3. CASE bundles[td] # Unset
    <3>1. i \in 1..Len(blocks) /\ i \in Nat /\ Len(blocks) \in Nat
      BY BaseBlocks
    <3>2. PICK k \in (i + 1)..Len(blocks) : Subject(k) = td /\ ~IsDeletion(k)
      BY <2>1, <2>3, <3>1 DEF ValuesInv, LedgerValues
    <3>3. k \in 1..Len(blocks) /\ i < k /\ lastBlock[l] \in Nat
      BY <3>1, BaseParts DEF ListenerType
    <3>4. CASE k > lastBlock[l]
      <4>1. Pending(l, td)'
        BY <1>0, <3>2, <3>3, <3>4 DEF Pending, Running, Subject, contractVars, vars
      <4> QED
        BY <4>1 DEF StoreFits, Excused
    <3>5. CASE ~(k > lastBlock[l])
      <4>1. k \in 1..lastBlock[l]
        BY <3>3, <3>5
      <4>2. td \in reordered[l]
        BY <2>1, <3>2, <3>3, <4>1 DEF Marks
      <4>3. ~Settled(l, td)'
        BY <1>0, <4>2 DEF Settled
      <4> QED
        BY <2>1, <4>3 DEF StoreFits
    <3> QED
      BY <3>4, <3>5
  <2> QED
    BY <2>2, <2>3
<1> QED
  BY <1>1, <1>2, <1>3, <1>4, <1>5 DEF Handles

\* A transaction about td is news to every listener that runs, and late for a
\* server whose listener is not up.
LEMMA TransactionFits ==
  ASSUME BaseInv, LateType, FederationNext, NEW l \in Observed, Serves(l), Arrives(l),
         NEW td \in TrustDomain \ {l}, StoreFits(l, td), ~UNCHANGED contractVars
  PROVE  StoreFits(l, td)'
<1> SUFFICES ASSUME phase'[l] # "exited"
             PROVE  /\ held'[l][td] \in {Unset, bundles'[td]} \/ Excused(l, td)'
                    /\ Settled(l, td)' => held'[l][td] = bundles'[td] \/ Excused(l, td)'
  BY DEF StoreFits
<1>0. PICK s \in TrustDomain, n \in Nat :
        /\ n = Len(blocks) + 1 /\ Len(blocks)' = n /\ Subject(n)' = s
        /\ UNCHANGED <<local, listenerVars, held>>
        /\ \A t \in TrustDomain \ {s} : bundles'[t] = bundles[t]
        /\ SendUpsert(s) \/ Removal(s)
  BY Transactions
<1>1. UNCHANGED <<phase, lastBlock, queue, failed, reordered>>
  BY <1>0 DEF listenerVars
<1>2. /\ Len(blocks) \in Nat /\ lastBlock[l] \in Nat /\ lastBlock[l] <= Len(blocks)
      /\ \A i \in 1..Len(blocks) : Subject(i)' = Subject(i) /\ i \in 1..Len(blocks)'
  BY BlockKept, BaseBlocks, BaseParts DEF ListenerType, QueueInv
<1>3. CASE td # s
  <2>1. Excused(l, td) => Excused(l, td)'
    <3>1. Pending(l, td) => Pending(l, td)'
      BY <1>1, <1>2 DEF Pending, Running
    <3>2. td \in late[l] => td \in late'[l]
      <4>1. \A i \in queue[l] : ~ApplyBundle(l, i) /\ ~DeleteHeld(l, i)
        BY DEF ApplyBundle, DeleteHeld
      <4> QED
        BY <4>1, LateKept
    <3> QED
      BY <1>1, <3>1, <3>2 DEF Excused
  <2>2. Settled(l, td)' => Settled(l, td)
    <3>1. ~WriteFiles(l) /\ ~SetOneBundle(l, td) /\ ~Poll(l)
      BY DEF WriteFiles, SetOneBundle, Poll
    <3> QED
      BY <3>1, SettledSteps
  <2>3. held'[l][td] = held[l][td] /\ bundles'[td] = bundles[td] /\ phase[l] # "exited"
    BY <1>0, <1>1, <1>3
  <2> QED
    BY <2>1, <2>2, <2>3 DEF StoreFits
<1>4. CASE td = s /\ Running(l)
  <2>1. n \in 1..Len(blocks)' /\ n > lastBlock'[l]
    BY <1>0, <1>1, <1>2
  <2>2. Pending(l, td)'
    BY <1>0, <1>1, <1>4, <2>1 DEF Pending, Running
  <2> QED
    BY <2>2 DEF Excused
<1>5. CASE phase[l] = "absent"
  <2>1. local'[l] = Unset /\ held'[l][td] = Unset
    BY <1>0, <1>5 DEF Arrives
  <2> QED
    BY <2>1 DEF Settled
<1>6. CASE td = s /\ phase[l] = "starting"
  <2>1. Joining(l) /\ n \in (Len(blocks) + 1)..Len(blocks)'
    BY <1>0, <1>6, ServersAssumption DEF Joining, Starting
  <2>2. td \in late'[l]
    BY <1>0, <1>6, <2>1, MinedLate
  <2> QED
    BY <2>2 DEF Excused
<1>7. phase[l] \in {"absent", "starting", "running", "exited"}
  BY BaseParts DEF ListenerType
<1> QED
  BY <1>1, <1>3, <1>4, <1>5, <1>6, <1>7 DEF Running

LEMMA StoreFitsNext ==
  ASSUME BaseInv, LateType, FederationNext, JoinInv, WalkedInv, ValuesInv, NEW l \in Observed,
         Serves(l), Arrives(l), Marks(l),
         NEW td \in TrustDomain \ {l}, StoreFits(l, td)
  PROVE  StoreFits(l, td)'
<1>1. CASE ~UNCHANGED contractVars
  BY <1>1, TransactionFits
<1>2. CASE UNCHANGED contractVars /\ SetOneBundle(l, td)
  <2>1. held'[l][td] = bundles[td] \/ td \in late[l]
    BY <1>2, Imports, SetMove, ServersAssumption
  <2>2. UNCHANGED late
    BY <1>2 DEF SetOneBundle
  <2> QED
    BY <1>2, <2>1, <2>2 DEF StoreFits, Excused, contractVars, vars
<1>3. CASE \E i \in queue[l] : Handling(l, i) /\ Subject(i) = td /\ Handles(l, i)
  BY <1>3, HandledFits
<1>4. CASE /\ UNCHANGED contractVars /\ ~SetOneBundle(l, td)
           /\ ~ \E i \in queue[l] : Handling(l, i) /\ Subject(i) = td /\ Handles(l, i)
  <2> SUFFICES ASSUME phase'[l] # "exited"
               PROVE  /\ held'[l][td] \in {Unset, bundles'[td]} \/ Excused(l, td)'
                      /\ Settled(l, td)' => held'[l][td] = bundles'[td] \/ Excused(l, td)'
    BY DEF StoreFits
  <2>1. held'[l][td] = held[l][td] /\ bundles'[td] = bundles[td]
    <3>1. held'[l][td] = held[l][td]
      BY <1>4, HeldSteps DEF Handles
    <3> QED
      BY <1>4, <3>1 DEF contractVars, vars
  <2>2. Excused(l, td) => Excused(l, td)'
    BY <1>4, ExcusedKept
  <2>3. phase[l] # "exited"
    <3>1. CASE Addition(l)
      BY <3>1 DEF Addition, Serves
    <3>2. CASE Rests(l) \/ TurnPage(l, "listener")
      BY <3>2 DEF Rests, TurnPage, listenerVars
    <3>3. CASE Subscribe(l) \/ Poll(l) \/ ListenerExits(l)
      BY <3>3 DEF Subscribe, Poll, ListenerExits, Running
    <3>4. CASE \E i \in queue[l] : Handling(l, i)
      BY <3>4 DEF Handling, Running
    <3> QED
      BY <3>1, <3>2, <3>3, <3>4, ListenerSteps
  <2>4. ASSUME WriteFiles(l), Settled(l, td)'
        PROVE  held'[l][td] = bundles'[td] \/ Excused(l, td)'
    <3>1. bundles[td] = Unset \/ td \in late'[l]
      BY <2>4, WrittenAll
    <3> QED
      BY <2>1, <2>2, <2>3, <3>1 DEF StoreFits, Excused
  <2>5. ASSUME Poll(l), td \in Touched(Window(l)) PROVE Excused(l, td)'
    <3>1. /\ queue'[l] = Window(l) /\ Window(l) \subseteq 1..Len(blocks)
          /\ Running(l) /\ UNCHANGED <<blocks, phase>>
      BY ZenonT(30), <2>5, PollMove DEF Poll, contractVars, vars
    <3>2. PICK i \in Window(l) : Subject(i) = td
      BY <2>5 DEF Touched
    <3>3. Pending(l, td)'
      BY <3>1, <3>2 DEF Pending, Running, Subject
    <3> QED
      BY <3>3 DEF Excused
  <2>6. Settled(l, td)' => held'[l][td] = bundles'[td] \/ Excused(l, td)'
    BY <1>4, <2>1, <2>2, <2>3, <2>4, <2>5, SettledSteps DEF StoreFits
  <2> QED
    BY <2>1, <2>2, <2>3, <2>6 DEF StoreFits
<1> QED
  BY <1>1, <1>2, <1>3, <1>4

LEMMA StoreInit == FederationInit => StoreInv
<1> SUFFICES ASSUME FederationInit, NEW l \in Observed
             PROVE  /\ Arrives(l) /\ Marks(l)
                    /\ \A td \in TrustDomain \ {l} : StoreFits(l, td)
  BY DEF StoreInv
<1>1. l \in TrustDomain /\ queue[l] = {}
      /\ phase[l] = IF l \in Range(Founders) THEN "running" ELSE "absent"
  BY ServersAssumption DEF FederationInit
<1>2. /\ local[l] = IF l \in Range(Founders) THEN 1 ELSE Unset
      /\ \A td \in TrustDomain :
           held[l][td] = IF l \in Range(Founders) /\ td # l THEN bundles[td] ELSE Unset
  BY <1>1, Founded
<1>3. Arrives(l)
  BY <1>1, <1>2 DEF Arrives
<1>4. Marks(l)
  BY <1>1 DEF Marks
<1>5. ASSUME NEW td \in TrustDomain \ {l} PROVE StoreFits(l, td)
  BY <1>2 DEF StoreFits, Settled
<1> QED
  BY <1>3, <1>4, <1>5

LEMMA StoreInvariance == FederationSpec => []StoreInv
<1>1. BaseInv /\ LateType /\ JoinInv /\ ServesInv /\ WalkedInv /\ ValuesInv /\ StoreInv
        /\ [FederationNext]_federationVars => StoreInv'
  <2> SUFFICES ASSUME BaseInv, LateType, JoinInv, ServesInv, WalkedInv, ValuesInv, StoreInv,
                      [FederationNext]_federationVars
               PROVE  StoreInv'
    OBVIOUS
  <2>1. CASE UNCHANGED federationVars
    BY <2>1 DEF federationVars, contractVars, driverVars, listenerVars, vars, StoreInv, Arrives,
                Marks, StoreFits, Settled, Excused, Pending, Running, Subject, IsDeletion
  <2>2. CASE FederationNext
    <3>1. ASSUME NEW l \in Observed PROVE Arrives(l)' /\ Marks(l)'
      BY <2>2, <3>1, ArrivesNext, MarksNext DEF StoreInv, ServesInv
    <3>2. ASSUME NEW l \in Observed, NEW td \in TrustDomain \ {l}
          PROVE  StoreFits(l, td)'
      <4>1. Serves(l) /\ Arrives(l) /\ Marks(l) /\ StoreFits(l, td)
        BY <3>2 DEF StoreInv, ServesInv
      <4> QED
        BY <2>2, <3>2, <4>1, StoreFitsNext
    <3> QED
      BY <3>1, <3>2 DEF StoreInv
  <2> QED
    BY <2>1, <2>2
<1> QED
  BY <1>1, StoreInit, BaseInvariance, LateInvariance, JoinInvariance, ServesInvariance,
     WalkedInvariance, ValuesInvariance, PTL DEF FederationSpec

\* A listener that has caught up has nothing pending.
LEMMA CaughtUpStore ==
  ASSUME BaseInv, StoreInv, NEW l \in Observed, CaughtUp(l),
         NEW td \in TrustDomain \ ({l} \cup failed[l] \cup late[l])
  PROVE  /\ held[l][td] \in {Unset, bundles[td]}
         /\ td \notin reordered[l] => held[l][td] = bundles[td]
<1>1. l \in TrustDomain
  BY ServersAssumption
<1>2. StoreFits(l, td) /\ phase[l] # "exited"
  BY <1>1 DEF StoreInv, CaughtUp, Running
<1>3. ~Excused(l, td)
  <2>1. queue[l] = {} /\ lastBlock[l] = Len(blocks) /\ Len(blocks) \in Nat
    BY BaseBlocks DEF CaughtUp
  <2> QED
    BY <2>1 DEF Excused, Pending
<1>4. td \notin reordered[l] => Settled(l, td)
  <2>1. ScriptFits(l, script[l], local[l])
    BY <1>1, BaseParts DEF ScriptInv
  <2> QED
    BY <2>1 DEF CaughtUp, Settled, ScriptFits
<1> QED
  BY <1>2, <1>3, <1>4 DEF StoreFits

\* A server that has caught up with the ledger trusts no withdrawn and no
\* replaced bundle, unless it logged an ERROR for its owner or the owner
\* changed it while the server was joining: deletions are handled behind
\* publishes, and a publish mined behind a page read is still to come.
THEOREM CaughtUpTrustsNothingStale == FederationSpec => []NoStaleTrust
<1>1. BaseInv /\ StoreInv => NoStaleTrust
  BY CaughtUpStore DEF NoStaleTrust
<1> QED
  BY <1>1, BaseInvariance, StoreInvariance, PTL

\* A server that has caught up misses no member's current bundle, unless it
\* logged an ERROR for it, handled its deletion behind its next publish, or
\* had it changed or hidden while it was joining.
THEOREM CaughtUpMissesOnlyReordered == FederationSpec => []MissesOnlyReordered
<1>1. BaseInv /\ StoreInv => MissesOnlyReordered
  BY CaughtUpStore DEF MissesOnlyReordered
<1> QED
  BY <1>1, BaseInvariance, StoreInvariance, PTL
=============================================================================
