-------------------------- MODULE LedgerFederation --------------------------
(***************************************************************************)
(* The SPIFFE federation over the ledger: the contract, the driver scripts *)
(* that publish and remove bundles through spiffe/ledger/repo_client.py,   *)
(* and, per SPIRE server, the detached listener process that turns the     *)
(* contract's events into changes of the server's own bundle store.        *)
(*                                                                         *)
(* Listeners never write to the contract, so they do not affect each       *)
(* other: only the servers in Observed have a listener and a bundle store  *)
(* here. Server s publishes under the trust domain it is named after, so   *)
(* servers and trust domains are the same set.                             *)
(***************************************************************************)
EXTENDS SpiffeBundleStore, FiniteSets

CONSTANTS
  Founders,     \* sequence of the servers 1_run_creation.py federated
  Observed,     \* the servers whose listener and SPIRE server are modelled
  PageLimit,    \* page size of get_bundles (50 in the code)
  MaxVersion,   \* bound: authorities a server goes through, 1, 2, ...
  MaxDrivers,   \* how many driver scripts run at the same time
  MaxFaults     \* bound on failing RPC and spire-server calls

ASSUME ServersAssumption == IsFiniteSet(TrustDomain) /\ Observed \subseteq TrustDomain
ASSUME FoundersAssumption == Founders \in Seq(TrustDomain) /\ IsInjective(Founders)
ASSUME LimitAssumption == PageLimit \in Nat \ {0}
ASSUME BoundsAssumption == MaxVersion \in Nat \ {0} /\ MaxDrivers \in Nat /\ MaxFaults \in Nat

\* A bundle is named by the version of the authority it carries.
ASSUME VersionAssumption == RawBundle = 1..MaxVersion

Bundle == RawBundle \cup {Unset}

VARIABLES
  local,    \* each server's own bundle; Unset while the server has no cluster
  script,   \* the driver script working for each server
  status,   \* what the last publish of each server returned
  phase,    \* the life of the listener process
  lastBlock,\* last_block of stream_events
  queue,    \* the blocks of the polled window whose event is not handled yet
  walk,     \* the get_bundles call in progress, of the listener and of the driver
  held,     \* peer bundles in the SPIRE server's store
  failed,   \* trust domains whose last handled event was logged as ERROR
  reordered,\* history: deleted, then published again within one polled window
  late,     \* history: changed on the contract while the server was joining
  faults    \* calls that failed so far

contractVars == vars
driverVars == <<local, script, status>>
listenerVars == <<phase, lastBlock, queue, failed, reordered>>
federationVars == <<contractVars, driverVars, listenerVars, walk, held, faults, late>>

Process == {"listener", "driver"}

NoWalk == [pc |-> "idle", offset |-> 0, out |-> << >>, began |-> 0, found |-> Unset]
NoFiles == [td \in TrustDomain |-> Unset]
Idle == [pc |-> "idle", joining |-> FALSE, present |-> FALSE, files |-> NoFiles]

ProcessTypeOK ==
  /\ TypeOK
  /\ local \in [TrustDomain -> Bundle]
  /\ script \in [TrustDomain -> [pc: {"idle", "exists", "send", "fetch", "set", "crashed"},
                                 joining: BOOLEAN, present: BOOLEAN,
                                 files: [TrustDomain -> Bundle]]]
  /\ status \in [TrustDomain -> {200, 500}]
  /\ phase \in [Observed -> {"absent", "starting", "running", "exited"}]
  /\ lastBlock \in [Observed -> Nat]
  /\ queue \in [Observed -> SUBSET Nat]
  /\ walk \in [Observed -> [Process -> [pc: {"idle", "paging", "applying"}, offset: Nat,
                                        out: Seq(TrustDomain \X RawBundle),
                                        began: Nat, found: Bundle]]]
  /\ held \in [Observed -> [TrustDomain -> Bundle]]
  /\ failed \in [Observed -> SUBSET TrustDomain]
  /\ reordered \in [Observed -> SUBSET TrustDomain]
  /\ faults \in 0..MaxFaults

FederationTypeOK == ProcessTypeOK /\ late \in [Observed -> SUBSET TrustDomain]

\* The federation 1_run_creation.py leaves behind: the founders have posted in
\* order, fetched every bundle and drained their event streams.
FederationInit ==
  LET founder == Range(Founders)
      initial == [td \in TrustDomain |-> IF td \in founder THEN 1 ELSE Unset]
  IN  /\ bundles = initial
      /\ bundleExists = [td \in TrustDomain |-> td \in founder]
      /\ trustDomains = Founders
      /\ blocks = [i \in 1..Len(Founders) |-> [type |-> "BundlePosted", trustDomain |-> Founders[i]]]
      /\ local = initial
      /\ script = [s \in TrustDomain |-> Idle]
      /\ status = [s \in TrustDomain |-> 200]
      /\ phase = [l \in Observed |-> IF l \in founder THEN "running" ELSE "absent"]
      /\ lastBlock = [l \in Observed |-> Len(Founders)]
      /\ queue = [l \in Observed |-> {}]
      /\ walk = [l \in Observed |-> [p \in Process |-> NoWalk]]
      /\ held = [l \in Observed |-> [td \in TrustDomain |->
                   IF l \in founder /\ td # l THEN initial[td] ELSE Unset]]
      /\ failed = [l \in Observed |-> {}]
      /\ reordered = [l \in Observed |-> {}]
      /\ late = [l \in Observed |-> {}]
      /\ faults = 0

-----------------------------------------------------------------------------
(* Faults: an RPC to the node or a spire-server command raises             *)

Fault ==
  /\ faults < MaxFaults
  /\ faults' = faults + 1

-----------------------------------------------------------------------------
(* get_bundles: one eth_call per page, until as many entries are collected *)
(* as the last page said there are, or a page comes back empty             *)

BeginWalk(l, p) ==
  walk' = [walk EXCEPT ![l][p] = [NoWalk EXCEPT !.pc = "paging", !.began = Len(blocks)]]

EndWalk(l, p) == walk' = [walk EXCEPT ![l][p] = NoWalk]

\* Mutant: every page replaces the entries of the one before.
CollectedLastPage(l, p) == Page(walk[l][p].offset, PageLimit)

Collected(l, p) == walk[l][p].out \o Page(walk[l][p].offset, PageLimit)

OnLastPage(l, p) ==
  /\ walk[l][p].pc = "paging"
  /\ \/ Len(Collected(l, p)) >= Total
     \/ Page(walk[l][p].offset, PageLimit) = << >>

\* Mutant: the next offset is one too far.
TurnPageTooFar(l, p) ==
  /\ walk[l][p].pc = "paging"
  /\ ~OnLastPage(l, p)
  /\ walk' = [walk EXCEPT ![l][p].out = Collected(l, p),
                          ![l][p].offset = @ + PageLimit + 1]
  /\ UNCHANGED <<contractVars, driverVars, listenerVars, held, faults, late>>

TurnPage(l, p) ==
  /\ walk[l][p].pc = "paging"
  /\ ~OnLastPage(l, p)
  /\ walk' = [walk EXCEPT ![l][p].out = Collected(l, p),
                          ![l][p].offset = @ + PageLimit]
  /\ UNCHANGED <<contractVars, driverVars, listenerVars, held, faults, late>>

\* The entries of a completed walk that carry td. The listener takes the first
\* of them; the driver's files, one per name, keep the last.
Named(out, td) == {k \in DOMAIN out : out[k][1] = td}

-----------------------------------------------------------------------------
(* Driver scripts                                                          *)

Starting(s) == s \in Observed /\ phase[s] = "starting"

\* A script starts its listener half a second before it publishes and does not
\* wait for it; it is assumed only that the listener is up when the script is
\* long over.
Active == {s \in TrustDomain : script[s].pc \notin {"idle", "crashed"} \/ Starting(s)}

\* Another script may be started, and the chain has room for its transaction.
MayStart ==
  /\ Cardinality(Active) < MaxDrivers
  /\ Len(blocks) + Cardinality(Active) < MaxBlocks

\* History: the server is joining from the start of its script until the script
\* has ended and the listener is up. The script imports what it read earlier,
\* and may do so after the listener has handled a later transaction; a
\* transaction mined before the listener is up has no event.
Joining(l) == script[l].joining \/ Starting(l)

Changed(td) ==
  late' = [l \in Observed |-> IF Joining(l) THEN late[l] \cup {td} ELSE late[l]]

Goto(s, pc) == script' = [script EXCEPT ![s].pc = pc]

\* run_addition: a new cluster comes up, its listener process is spawned, then
\* the script publishes the new server's bundle.
Addition(s) ==
  /\ MayStart
  /\ local[s] = Unset
  /\ local' = [local EXCEPT ![s] = 1]
  /\ script' = [script EXCEPT ![s].pc = "exists", ![s].joining = TRUE]
  /\ phase' = [l \in Observed |-> IF l = s THEN "starting" ELSE phase[l]]
  /\ UNCHANGED <<contractVars, status, lastBlock, queue, failed, reordered, walk, held, faults, late>>

\* Mutant: the rotation activates the retired authority again.
RotationBackAndForth(s) ==
  /\ MayStart
  /\ script[s].pc = "idle"
  /\ local[s] # Unset
  /\ local' = [local EXCEPT ![s] = 3 - @]
  /\ Goto(s, "exists")
  /\ UNCHANGED <<contractVars, status, listenerVars, walk, held, faults, late>>

\* run_rotation: a new authority is prepared and activated and the old one
\* tainted, then the script publishes the server's new bundle.
Rotation(s) ==
  /\ MayStart
  /\ script[s].pc = "idle"
  /\ local[s] # Unset /\ local[s] < MaxVersion
  /\ local' = [local EXCEPT ![s] = @ + 1]
  /\ Goto(s, "exists")
  /\ UNCHANGED <<contractVars, status, listenerVars, walk, held, faults, late>>

\* run_removal: delete_bundle, its outcome printed and ignored.
Removal(s) ==
  /\ MayStart
  /\ local[s] # Unset
  /\ \/ /\ DeleteBundle(s) /\ Changed(s)
        /\ status' = [status EXCEPT ![s] = 200]
        /\ UNCHANGED faults
     \/ /\ (~bundleExists[s] /\ UNCHANGED faults) \/ Fault
        /\ status' = [status EXCEPT ![s] = 500]
        /\ UNCHANGED <<contractVars, late>>
  /\ UNCHANGED <<local, script, listenerVars, walk, held>>

\* Mutant: every publish after creation is taken for an update.
CheckNothing(s) ==
  /\ script[s].pc = "exists"
  /\ script' = [script EXCEPT ![s].pc = "send", ![s].present = TRUE]
  /\ UNCHANGED <<contractVars, local, status, listenerVars, walk, held, faults, late>>

\* upsert_bundle, first call: exists().
CheckExists(s) ==
  /\ script[s].pc = "exists"
  /\ script' = [script EXCEPT ![s].pc = "send", ![s].present = bundleExists[s]]
  /\ UNCHANGED <<contractVars, local, status, listenerVars, walk, held, faults, late>>

\* The script goes on to fetch_bundles when it is adding the server; nobody
\* looks at the status of the publish.
AfterPublish(s) ==
  IF script[s].joining /\ s \in Observed
  THEN Goto(s, "fetch") /\ BeginWalk(s, "driver")
  ELSE script' = [script EXCEPT ![s] = Idle] /\ UNCHANGED walk

UpsertTransaction(s) ==
  IF script[s].present THEN UpdateBundle(s, local[s]) ELSE PostBundle(s, local[s])

\* upsert_bundle, second call: the transaction that exists() selected. It may
\* be mined although waiting for its receipt fails.
SendUpsert(s) ==
  /\ script[s].pc = "send"
  /\ UpsertTransaction(s) /\ Changed(s)
  /\ \/ status' = [status EXCEPT ![s] = 200] /\ UNCHANGED faults
     \/ status' = [status EXCEPT ![s] = 500] /\ Fault
  /\ AfterPublish(s)
  /\ UNCHANGED <<local, listenerVars, held>>

\* The transaction reverts because the answer of exists() is out of date.
UpsertReverts(s) ==
  /\ script[s].pc = "send"
  /\ script[s].present # bundleExists[s]
  /\ status' = [status EXCEPT ![s] = 500]
  /\ AfterPublish(s)
  /\ UNCHANGED <<contractVars, local, listenerVars, held, faults, late>>

\* Either call of upsert_bundle raises before anything is mined.
UpsertFails(s) ==
  /\ script[s].pc \in {"exists", "send"}
  /\ Fault
  /\ status' = [status EXCEPT ![s] = 500]
  /\ AfterPublish(s)
  /\ UNCHANGED <<contractVars, local, listenerVars, held, late>>

\* Only files of other members are left to be set.
NextFile(s, files) ==
  IF \A td \in TrustDomain \ {s} : files[td] = Unset
  THEN Idle
  ELSE [script[s] EXCEPT !.pc = "set", !.files = files]

\* History: members that the page walk has not found because a deletion moved
\* array entries while it was turning pages.
Overlooked(s) ==
  {td \in TrustDomain :
     /\ bundleExists[td] /\ Named(Collected(s, "driver"), td) = {}
     /\ \E i \in (walk[s]["driver"].began + 1)..Len(blocks) : blocks[i].type = "BundleDeleted"}

\* fetch_bundles: the last page has arrived and every entry is in a file.
WriteFiles(s) ==
  /\ script[s].pc = "fetch"
  /\ OnLastPage(s, "driver")
  /\ LET out == Collected(s, "driver")
     IN  \E files \in [TrustDomain -> Bundle] :
           /\ \A td \in TrustDomain :
                IF td = s \/ Named(out, td) = {}
                THEN files[td] = Unset
                ELSE \E k \in Named(out, td) :
                       /\ \A j \in Named(out, td) : j <= k
                       /\ files[td] = out[k][2]
           /\ script' = [script EXCEPT ![s] = NextFile(s, files)]
  /\ EndWalk(s, "driver")
  /\ late' = [late EXCEPT ![s] = @ \cup Overlooked(s)]
  /\ UNCHANGED <<contractVars, local, status, listenerVars, held, faults>>

\* set_bundle: the files in whatever order the directory lists them.
SetOneBundle(s, td) ==
  /\ script[s].pc = "set"
  /\ script[s].files[td] # Unset
  /\ held' = [held EXCEPT ![s][td] = script[s].files[td]]
  /\ script' = [script EXCEPT ![s] = NextFile(s, [script[s].files EXCEPT ![td] = Unset])]
  /\ UNCHANGED <<contractVars, local, status, listenerVars, walk, faults, late>>

\* An exception in fetch_bundles ends the script.
FetchCrashes(s) ==
  /\ script[s].pc \in {"fetch", "set"}
  /\ Fault
  /\ script' = [script EXCEPT ![s] = [Idle EXCEPT !.pc = "crashed"]]
  /\ EndWalk(s, "driver")
  /\ UNCHANGED <<contractVars, local, status, listenerVars, held, late>>

DriverStep(s) ==
  \/ CheckExists(s) \/ SendUpsert(s) \/ UpsertReverts(s)
  \/ s \in Observed /\ \/ TurnPage(s, "driver") \/ WriteFiles(s)
                       \/ \E td \in TrustDomain : SetOneBundle(s, td)

-----------------------------------------------------------------------------
(* Listener process                                                        *)

Running(l) == phase[l] = "running"

\* Mutant: no filter for deletions.
WindowWithoutDeletions(l) ==
  {i \in (lastBlock[l] + 1)..Len(blocks) : blocks[i].type # "BundleDeleted"}

Window(l) == (lastBlock[l] + 1)..Len(blocks)

Subject(i) == blocks[i].trustDomain
IsDeletion(i) == blocks[i].type = "BundleDeleted"

\* stream_events asks for the window's logs one event type at a time.
Turn == [BundlePosted |-> 1, BundleUpdated |-> 2, BundleDeleted |-> 3]

YieldedBefore(i, j) ==
  LET ti == Turn[blocks[i].type]
      tj == Turn[blocks[j].type]
  IN  ti < tj \/ (ti = tj /\ i < j)

Touched(window) == {Subject(i) : i \in window}

PublishedAgain(window) ==
  {Subject(i) : i \in {d \in window :
     IsDeletion(d) /\ \E j \in window : d < j /\ Subject(j) = Subject(d) /\ ~IsDeletion(j)}}

\* The process is up: stream_events begins at the block of this moment.
Subscribe(l) ==
  /\ phase[l] = "starting"
  /\ phase' = [phase EXCEPT ![l] = "running"]
  /\ lastBlock' = [lastBlock EXCEPT ![l] = Len(blocks)]
  /\ UNCHANGED <<contractVars, driverVars, queue, failed, reordered, walk, held, faults, late>>

Poll(l) ==
  /\ Running(l)
  /\ queue[l] = {}
  /\ Len(blocks) > lastBlock[l]
  /\ queue' = [queue EXCEPT ![l] = Window(l)]
  /\ lastBlock' = [lastBlock EXCEPT ![l] = Len(blocks)]
  /\ reordered' = [reordered EXCEPT ![l] = (@ \ Touched(Window(l))) \cup PublishedAgain(Window(l))]
  /\ UNCHANGED <<contractVars, driverVars, phase, failed, walk, held, faults, late>>

\* The event of block i is the next one to be yielded.
Handling(l, i) ==
  /\ Running(l)
  /\ i \in queue[l]
  /\ \A j \in queue[l] \ {i} : YieldedBefore(i, j)

Done(l, i) == queue' = [queue EXCEPT ![l] = @ \ {i}]

\* The bundle is current again, unless the script has an older one to import.
Succeed(l, i) ==
  /\ Done(l, i)
  /\ failed' = [failed EXCEPT ![l] = @ \ {Subject(i)}]
  /\ late' = IF Joining(l) THEN late ELSE [late EXCEPT ![l] = @ \ {Subject(i)}]

\* Mutant: an event that failed is tried again.
RetryAfterError(l, i) == failed' = [failed EXCEPT ![l] = @ \cup {Subject(i)}] /\ UNCHANGED queue

LogError(l, i) == Done(l, i) /\ failed' = [failed EXCEPT ![l] = @ \cup {Subject(i)}]

IgnoreOwn(l, i) ==
  /\ Subject(i) = l
  /\ Done(l, i)
  /\ UNCHANGED <<contractVars, driverVars, phase, lastBlock, failed, reordered, walk, held, faults, late>>

\* bundle_updated: fetch_and_apply_bundle starts a page walk.
BeginFetch(l, i) ==
  /\ Subject(i) # l /\ ~IsDeletion(i)
  /\ walk[l]["listener"].pc = "idle"
  /\ BeginWalk(l, "listener")
  /\ UNCHANGED <<contractVars, driverVars, listenerVars, held, faults, late>>

FetchFinds(l, i) ==
  /\ OnLastPage(l, "listener")
  /\ LET out == Collected(l, "listener")
     IN  \E k \in Named(out, Subject(i)) :
           /\ \A j \in Named(out, Subject(i)) : k <= j
           /\ walk' = [walk EXCEPT ![l]["listener"] =
                         [NoWalk EXCEPT !.pc = "applying", !.found = out[k][2]]]
  /\ UNCHANGED <<contractVars, driverVars, listenerVars, held, faults, late>>

\* "bundle for ... not found in repo": logged, not retried.
FetchMisses(l, i) ==
  /\ OnLastPage(l, "listener")
  /\ Named(Collected(l, "listener"), Subject(i)) = {}
  /\ LogError(l, i)
  /\ EndWalk(l, "listener")
  /\ UNCHANGED <<contractVars, driverVars, phase, lastBlock, reordered, held, faults, late>>

ApplyBundle(l, i) ==
  /\ walk[l]["listener"].pc = "applying"
  /\ held' = [held EXCEPT ![l][Subject(i)] = walk[l]["listener"].found]
  /\ Succeed(l, i)
  /\ EndWalk(l, "listener")
  /\ UNCHANGED <<contractVars, driverVars, phase, lastBlock, reordered, faults>>

\* bundle_deleted: spire-server refuses to delete a bundle it does not hold.
DeleteHeld(l, i) ==
  /\ Subject(i) # l /\ IsDeletion(i)
  /\ IF held[l][Subject(i)] # Unset THEN Succeed(l, i) ELSE LogError(l, i) /\ UNCHANGED late
  /\ held' = [held EXCEPT ![l][Subject(i)] = Unset]
  /\ UNCHANGED <<contractVars, driverVars, phase, lastBlock, reordered, walk, faults>>

\* A page read or a spire-server command raises: the event is given up.
HandlerFails(l, i) ==
  /\ Subject(i) # l
  /\ IsDeletion(i) \/ walk[l]["listener"].pc # "idle"
  /\ Fault
  /\ LogError(l, i)
  /\ EndWalk(l, "listener")
  /\ UNCHANGED <<contractVars, driverVars, phase, lastBlock, reordered, held, late>>

\* Reading the block number or the logs raises: the process exits for good.
ListenerExits(l) ==
  /\ phase[l] \in {"starting", "running"}
  /\ walk[l]["listener"].pc = "idle"
  /\ Fault
  /\ phase' = [phase EXCEPT ![l] = "exited"]
  /\ UNCHANGED <<contractVars, driverVars, lastBlock, queue, failed, reordered, walk, held, late>>

HandleEvent(l, i) ==
  /\ Handling(l, i)
  /\ \/ IgnoreOwn(l, i) \/ BeginFetch(l, i) \/ FetchFinds(l, i)
     \/ FetchMisses(l, i) \/ ApplyBundle(l, i) \/ DeleteHeld(l, i)

ListenerStep(l) ==
  \/ Subscribe(l) \/ Poll(l) \/ TurnPage(l, "listener")
  \/ \E i \in queue[l] : HandleEvent(l, i)

-----------------------------------------------------------------------------

FederationNext ==
  \/ \E s \in TrustDomain :
       \/ Addition(s) \/ Rotation(s) \/ Removal(s)
       \/ DriverStep(s) \/ UpsertFails(s)
  \/ \E l \in Observed :
       \/ ListenerStep(l) \/ FetchCrashes(l) \/ ListenerExits(l)
       \/ \E i \in queue[l] : Handling(l, i) /\ HandlerFails(l, i)

FederationSpec == FederationInit /\ [][FederationNext]_federationVars

\* The listener is a loop around time.sleep and a started script runs to its
\* end; commands and faults need never happen.
Fairness ==
  /\ \A s \in TrustDomain : WF_federationVars(DriverStep(s))
  /\ \A l \in Observed : WF_federationVars(ListenerStep(l))

FairSpec == FederationSpec /\ Fairness

-----------------------------------------------------------------------------
(* Properties                                                              *)

\* The listener has handled every mined event and no script is filling the
\* server's store: what it holds now is what it will go on trusting.
CaughtUp(l) ==
  /\ Running(l)
  /\ queue[l] = {}
  /\ lastBlock[l] = Len(blocks)
  /\ local[l] # Unset /\ script[l].pc = "idle"

\* A caught-up server trusts no bundle that its owner has withdrawn or
\* replaced, unless it logged an ERROR for that trust domain or the owner did
\* so while the server was joining: neither the reordering of a window nor a
\* bundle read before, and applied after, a transaction leaves a departed
\* member or a tainted authority trusted.
NoStaleTrust ==
  \A l \in Observed : CaughtUp(l) =>
    \A td \in TrustDomain \ ({l} \cup failed[l] \cup late[l]) :
      held[l][td] \in {Unset, bundles[td]}

\* A caught-up server holds every member's current bundle, unless it logged
\* an ERROR for it, the member was deleted and published again within one
\* polled window, or it was changed or overlooked while the server was
\* joining: the only ways in which a listener loses a member.
MissesOnlyReordered ==
  \A l \in Observed : CaughtUp(l) =>
    \A td \in TrustDomain \ ({l} \cup failed[l] \cup reordered[l] \cup late[l]) :
      held[l][td] = bundles[td]

\* A server never goes back to an older bundle of a peer than the one it
\* holds, although fetch and apply are separate steps and rotations go on
\* between them: a tainted authority is not reinstated, except that of a peer
\* which rotated while the server was joining.
NoRollback ==
  [][\A l \in Observed, td \in TrustDomain :
       held[l][td] # Unset /\ held'[l][td] # Unset =>
         held'[l][td] >= held[l][td] \/ td \in late[l]]_held

Throughout(td, since) ==
  /\ bundleExists[td]
  /\ \A i \in (since + 1)..Len(blocks) :
       blocks[i].trustDomain = td => blocks[i].type = "BundleUpdated"

Missed(l, p) ==
  {td \in TrustDomain :
     /\ Throughout(td, walk[l][p].began)
     /\ \A i \in DOMAIN Collected(l, p) : Collected(l, p)[i][1] # td}

\* get_bundles overlooks a member that was on the contract all along only if
\* a deletion moved array entries while it was turning pages.
PageMissNeedsRemoval ==
  \A l \in Observed, p \in Process :
    OnLastPage(l, p) /\ Missed(l, p) # {} =>
      \E i \in (walk[l][p].began + 1)..Len(blocks) : blocks[i].type = "BundleDeleted"

\* An upsert whose transaction is answered leaves the server's current bundle
\* on the contract and returns 200; the only other outcome is a 500 for a
\* server that has been removed and stays so. However the scripts interleave,
\* an outdated exists() fails no server that is still a member, and leaves no
\* older bundle behind a 200.
UpsertPublishes ==
  [][\A s \in TrustDomain :
       script[s].pc = "send" /\ script'[s].pc # "send" /\ UNCHANGED faults =>
         \/ status'[s] = 200 /\ bundles'[s] = local[s]
         \/ /\ status'[s] = 500 /\ ~bundleExists'[s]
            /\ \E i \in DOMAIN blocks : IsDeletion(i) /\ Subject(i) = s]_script

\* Every listener keeps returning to a state in which it has handled all
\* events, unless its process has exited: the page walk ends even when the
\* array shrinks under it, and no event blocks the ones behind it.
ListenerDrains ==
  \A l \in Observed :
    []<>(~Running(l) \/ (queue[l] = {} /\ lastBlock[l] = Len(blocks)))
=============================================================================
