# A TLA+ model of the federation testbed

The repository compares two ways of federating trust between administrative
domains, SPIFFE trust bundles and OAuth token exchange, each over two ways of
sharing the federation's metadata: a central HTTP server that pushes events
(SSE), and a Solidity contract on a Hardhat chain that clients poll. This
directory models the programs that keep the domains' views of each other
consistent. Measuring, plotting and starting processes are left out.

## 1. Inventory

| Component | Source | State | Operations |
|---|---|---|---|
| SPIFFE bundle contract | `spiffe/ledger/SpiffeBundleStore.sol` | two mappings, the array `trustDomains`, the event log | `postBundle`, `updateBundle`, `deleteBundle`, `exists`, `getAllBundles` |
| SPIFFE ledger client | `spiffe/ledger/repo_client.py` | `last_block` | `upsert_bundle` (two calls), `delete_bundle`, `get_bundles` (page walk), `stream_events` (window polling) |
| SPIFFE central repository | `spiffe/centralized/centralized-db/main.go` | a slice of bundles per federation, the set of SSE channels | `postBundle`, `upsertBundle`, `getBundles`, `deleteBundle`, `streamEvents`, `broadcast` |
| SPIFFE central client | `spiffe/centralized/repo_client.py` | - | HTTP calls, SSE subscription |
| SPIFFE listener, one process per server | `federation_runtime/listen_and_react.py` | the event in hand | `handle_event`, `fetch_and_apply_bundle` |
| SPIFFE drivers | `federation_runtime/run_*.py`, `fetch_bundles.py`, `orchestration.py`, `common/set_bundle.py`, `spiffe/*/1_run_creation.py` | files in the working directory, `.epoch` sentinels | creation, addition, rotation, removal, `poll_until` |
| SPIFFE workload | `src/example-workload/main.go` | last seen serials, `experiementFinished` | bundle watcher, initial mesh, periodic sends |
| OAuth metadata contract | `oauth/ledger/OAuthMetadataStore.sol` | three mappings, the array `domainNames`, the event log | `registerDomain`, `removeDomain`, `notifyKeyRotated`, `getAllDomains`, `getDomain` |
| OAuth ledger client | `oauth/ledger/repo_client.py` | `last_block` | `register`, `delete`, `list_metadata`, `poll_events` |
| OAuth central repository | `oauth/centralized/metadata-repo/main.go` | locked map, buffered SSE channels | `register`, `del`, `keyRotated`, `list`, `broadcast` |
| OAuth listener and realm | `oauth/*/listen_and_react.py`, `oauth/listener_handlers.py`, `oauth/centralized/keycloak.py` | `seen`, `peers`, the identity providers and exchange clients of a Keycloak realm | `handle_add`, `handle_remove`, `handle_key_rotated` |
| OAuth workload | `oauth/workload/main.go` | own token, exchanged tokens, metadata cache | `handleCall`, `handleAPI` |
| Measurement | `federation_runtime/measure_*_end.py` | logs and epochs | end conditions polled by the drivers |

How they interact. A driver changes a SPIRE server (a new authority, a new
cluster), publishes its bundle to the repository and, when it adds a server,
fetches every bundle and imports it. The repository announces each change.
Every server's listener, a process of its own, reads the announcement, reads
the repository again for the bundle itself and imports it into its SPIRE
server, or deletes it. Drivers and listeners share the repository and the
SPIRE servers' bundle stores; nothing synchronises them. OAuth is built the
same way, with Keycloak realms in the place of SPIRE servers.

What is hard, and what correctness means:

* An announcement carries only a name; the bundle is read later, and imported
  later still. A server must not end up trusting a departed member or a
  tainted authority, and must not go back to an older bundle.
* The ledger client reads a window of blocks event type by event type, so that
  the order of different kinds of event is lost.
* A paged read is not a snapshot, and the contract moves entries.
* A driver imports bundles into the store its listener is working on.
* A failing call is logged and forgotten: the model records for which trust
  domains that happened, and the properties speak of the others.
* The central servers push events to subscribers that may not be ready, and
  one of them takes no lock.

The file `PROJECT.json` lists every hazard with its line and the properties that
watch it.

## 2. Modules

    BundleDirectory              what a bundle repository promises
      ^ implemented by
    SpiffeBundleStore            the bundle contract          (+ _proofs)
      v extended by
    LedgerFederation             drivers + contract + listeners, call by call
                                 (+ _proofs)

    BundleRepo                   the central bundle server, access by access
                                 (+ _proofs)

    SpiffeWorkload               ports, mesh, bundle watcher, periodic sends
      v extended by
    SpiffeScripts                creation, addition, rotation, removal, their
                                 measurements, SPIRE servers, listeners
                                 (+ _proofs)

    MetadataDirectory            what a metadata repository promises
      ^ implemented by
    OAuthMetadataStore           the metadata contract
    OAuthListener                listener + realm, any transport (+ _proofs)
    OAuthDomains                 the set of domains these two share
    MetadataRepo                 the central metadata server
    OAuthLedger   = OAuthMetadataStore + OAuthListener + scripts
                                 (+ _proofs, the contract's own among them)
    OAuthCentral  = MetadataRepo + OAuthListener + scripts        (+ _proofs)

    OAuthWorkload                token caches, metadata cache, calls
      v extended by
    OAuthDrivers                 the four measurement scripts of one domain
                                 (+ _proofs, the workload's own among them)

`MC*.tla` modules give the constants of their module finite values; the `.cfg`
files of the runs give the bounds. Operators whose comment begins with "Mutant:"
are variants of the definition below them with a plausible mistake in it. They
are no part of a specification: they exist to show that the properties notice
the mistake. Every specification bounds failures in the same way: a failing call
is an action guarded by `faults < MaxFaults`. The `TypeOK` of a module states
the types of its variables for the reader; a run checks that of
`OAuthWorkload`, the proofs those of every module with variables but the two
abstract directories; `MetadataRepo` is typed by
`CentralTypeOK`, `SpiffeWorkload` by `ScriptsTypeOK`. Where a module
joins two others by `EXTENDS`, the names say whose they are (`ListenerTypeOK`,
`LedgerSpec`, `CentralInit`, `FederationTypeOK`).

### SpiffeBundleStore

One action per transaction. A transaction that reverts changes nothing, so a
failing `require` is a disabled action; an accepted one is atomic. Hardhat mines
one transaction per block, so the sequence `blocks` of emitted events is at the
same time the event log and the chain, and its length is the block number.
`DeleteBundle` keeps the contract's linear scan and its swap-and-pop; it leaves
the array alone when the scan finds nothing, as the code would.
`Page` is `getAllBundles`. Raw bundles and names are opaque values; `Unset` is
the empty string Solidity returns for an absent key.

`BundleDirectory` is the contract seen from outside: a partial function from
members to bundles and a list of announcements. The refinement mapping takes the
directory from the array and the mapping together (`Published`), because that is
what a reader of the pages sees: a ghost entry or a repeated one would break it.

### OAuthMetadataStore

The same for the metadata contract, which replaces the scan by `domainIndex`.
`RemoveDomain` is guarded by the index lying in the array, since Solidity's
checked arithmetic and bounds checks revert otherwise; `IndexInvertsArray`
implies that this guard never refuses a member's removal.
`MetadataDirectory` is its abstract specification; there a registration never
overwrites, and only a registered domain can announce a rotation.

### LedgerFederation

The contract comes in by `EXTENDS`. Every remote call is an action of its own,
and so is everything that happens between two of them.

| Code | Model |
|---|---|
| a server's own bundle | `local[s]`, an increasing version number per rotation |
| `run_addition` up to the publish; spawning the listener | `Addition`, `phase = "starting"` |
| start of `stream_events` | `Subscribe` |
| `upsert_bundle`: `exists()`, then the transaction it selects | `CheckExists`; `SendUpsert`, `UpsertReverts`, `UpsertFails` |
| `fetch_bundles`: pages, files, imports | `TurnPage`, `WriteFiles`, `SetOneBundle`, `FetchCrashes` |
| `run_rotation`, `run_removal` | `Rotation`, `Removal` |
| one polling round of `stream_events` | `Poll`: the blocks of the window; `Handling` picks them in the order `stream_events` yields them, type by type (`YieldedBefore`) |
| `handle_event` | `IgnoreOwn`, `BeginFetch`, `TurnPage`, `FetchFinds`, `FetchMisses`, `ApplyBundle`, `DeleteHeld` |
| an exception in a handler, in the polling loop | `HandlerFails`, `ListenerExits` |

`held[s]` is the bundle store of SPIRE server `s`, restricted to its peers.
`failed`, `reordered` and `late` are history variables: the trust domains whose
last handled event ended in an ERROR line of the listener's log, those that the
last window touching them showed deleted and published again, and those that
changed on the contract while the server was joining (`Joining`: from the start of
`run_addition` until its import is over and the listener is up), or that a
deletion hid from the script's page walk (`Overlooked`). A peer stays `late` until
the listener has handled an event of it after that.

Abstractions, all of them deliberate:

* Listeners only read the repository, so they cannot influence each other; a
  run observes one server's listener and lets the others' drivers act.
* The driver script of `Addition` is followed to the end of `fetch_bundles`.
  It then creates federation relationships and waits for the workloads, for
  seconds at least. The model uses one consequence of that: the script counts as
  running until its listener has started (in `Active`). No property relies on
  `sleep(0.5)`: the listener may subscribe after the publish and after the fetch,
  and another script may do its work in between.
* SPIRE itself may refresh a federated bundle from its peer's bundle endpoint.
  That happens outside this code and is not modelled.
* Files that a crashed `set_bundle` leaves behind are not carried over to later
  scripts (listed as an uncovered hazard).

### BundleRepo

The central bundle server has no lock around `storage`, so its unit of atomicity
is an access to shared memory. Heap, slices and map are explicit: `arrays` are
backing arrays with their capacity (`append` grows them 0, 1, 2, 4, ... as Go
does for entries of this size), `storage` is a slice header, and each handler
copies a header once and goes on using it while others change what it refers to.

| Code | Model |
|---|---|
| `if _, ok := storage[id]; !ok` | `Lookup`, `StoreEmpty` |
| `bundles := storage[id]` | `ReadHeader` |
| the range loops | `ScanNext`, `ScanFinds`, `ScanEnds` |
| `storage[id][i] = ...` | `Locate` (the second read of the map, and its bounds check), `WriteCell` |
| `append(bundles, ...)` | `AppendSlot`, `WriteCell`, `StoreHeader` |
| `append(bundles[:i], bundles[i+1:]...)` | `ShiftCell`, `StoreHeader` |
| `json.NewEncoder(w).Encode` | `EncodeCell` |
| `broadcast` and the answer | `Broadcast` |
| `streamEvents` | `Subscribe`, `WaitForEvent`, `Unsubscribe` |
| the runtime's check on maps | `ConcurrentMapFatal`, possible whenever a map write and another map access are both due |

`published` and `audit` are history variables: the entries that the answered
requests leave, in order (`After`: a POST adds one whatever there is, a PUT
replaces and a DELETE removes the first of its name), and for each GET the bundles that were current while it ran (`valid`), the
members that no deletion touched meanwhile (`kept`) and whether a deletion
overlapped it (`disturbed`).

`postBundle` does not look whether the name is there, although
`spiffe/centralized/repo_client.py:30` says of a POST that it "fails if it
exists": two of them leave two entries, and a DELETE after that leaves the name
listed. The requests of the model are therefore any of the three, for any name,
and no property says that names are unique.

`CleanReads` has the condition it needs: a deletion moves entries in the array
that a GET is encoding, and an append may then reuse the slot it freed, so a GET
that overlaps a deletion can miss a member, or return one domain's bundle under
another's name. `ReadsWereCurrent` is what remains true of such a GET.

Abstractions: one federation, as the clients have; a request is used once, and
writes are numbered in the order they arrive; a string and a slice header are read and written whole (torn ones refer to memory
outside the model); a growing `append` copies its array in one step, which only
another writer could notice; requests that are rejected for their form change
nothing and are left out.

### OAuthListener

One listener process and the realm it administers, under an arbitrary transport.
The realm keeps per peer what the admin API is used for: the state of the
identity provider and of the exchange client, whether the exchange permission is
bound, whether `notBefore` is set, and whether its copy of the peer's keys is the
current one.

| Code | Model |
|---|---|
| `admin_token`, `bump_master_token_lifespan` | `Start`; `TokenExpires` a day later |
| `listen_and_react.main` up to the loop | `Subscribed`, `Listed`, `Backfill`, `BackfillDone`, `SetUpFails` |
| one event | `Dispatch`, the handler's calls, `Handled`, `WritePeersFile` |
| `handle_add` | `CreateIdpAlias`, `CreatePublicExchangeClient`, `AllowClientToExchange` |
| `handle_remove` | `DisableIdp`, `SetClientNotBefore`, `DisableClient` |
| `handle_key_rotated` | `ReloadIdpKeys`, `ReloadRefused` |
| `except Exception` in the loop; none in the backfill | `Raise` |
| `write_peers_file`: truncate, then fill | `peersFile = {Torn}`, then `WritePeersFile` |

Each admin call succeeds, fails before or after Keycloak has done the work, or is
turned away because the token has ended (`Call`). `create_idp_alias` and
`create_public_exchange_client` take a 409 for success and change nothing then:
that is why a peer which comes back after a removal finds its provider and
client disabled. `harmed` is a history variable: the peers for which a handler
was cut short. `allow_client_to_exchange` is six requests that can be repeated
and of which only the last opens anything; it is one action.

### MetadataRepo and OAuthCentral

`storage` is the map; a handler is two steps, the change under `storageMux`
(`Register`, `Del`, `KeyRotated`) and the later `Broadcast` under
`sseClientsMux`, so that two handlers may announce in the opposite order. A
channel holds `Capacity` events (32 in the code) and `Broadcast` drops what does
not fit. `Forward` is the stream's goroutine, `Receive` the client's `iter_events`.
`overtaken`, `dropped` and `left` are history variables.

`OAuthCentral` instantiates it with one subscriber, this domain's listener, which
`OAuthListener` supplies by `EXTENDS`. Two details of the code matter here. The
listing may come in any order, since Go iterates over a map. And `requests.get`
returns with the response header, which the repository does not write before the
first event: the listener leaves `open_event_stream` only when somebody
registers, leaves or rotates (`StreamEvents`).

### OAuthLedger

The same listener over the contract, both by `EXTENDS`. `CreateEventFilters` takes the block number
before the listing; `ListMetadata` is one call of `getAllDomains`, so that the
array may change between two pages (`shuffled` remembers it). `BeginWindow`,
`Yield` and `NextLogs` are the loop of `poll_events`: additions of a window, then
its removals, then its rotations. What is left of a window is not kept as a
sequence of events but read off the chain (`Rest`): the last block of the window
(`end`), the type being yielded and the block of the last log handed out (`at`).
`PollFails` is the exception that leaves
`last_block` alone, so that the window is delivered again, longer. `Yield` asks
the contract for an added domain's metadata and skips the event when that fails.

### OAuthWorkload and OAuthDrivers

`OAuthWorkload` is the HTTP server of a domain: `ownToken` under `ownTokenMu`,
`exchange` under a mutex that is not held over the request, `metaCache` without
an expiry, and one goroutine per `POST /call` with its two attempts. A token has
a name (call and attempt that fetched it), an end and the key it is signed with;
time is a counter. `OwnTokenArrives` and `ExchangedTokenArrives` count a token's
life from the arrival of the answer, however much later than the realm that is:
the requests for tokens have no timeout. `Fresh` subtracts the margin. A token
carries the time of its arrival (`Arrived`), which no code keeps, for
`LateByDelayOnly`. The peer's `validateToken` is `ValidateToken`, with
and without introspection. The realms are external: a realm grants an exchange
while the provider and the client are open, the token has not ended and the key
is one it knows.

`OAuthDrivers` puts the scripts around it. `step` is the line the running script
has reached, `todo` the peers it still has to deal with, `waiting` the calls it
has sent, `cleaned` and `zero` what `4_run_removal.py` records. The two variants
(central, ledger) share these scripts but for the Hardhat stages; `adding`
distinguishes 2 from 1. The peer's listener is reduced to the order in which it
changes the realm (`Listeners`); its failures are in `OAuthListener`.

### SpiffeWorkload and SpiffeScripts

`SpiffeWorkload` is `src/example-workload`: the port arithmetic (`MakeArray`,
`GetPortsForServer`, `GenerateExternalPorts` against `Port`, which is what
`set_up_cluster.sh` assigns; `DialBase` and `ListenBase` are the first ports
the two programs count from), the internal and the external mesh (`Talk`), the
bundle watcher (`OnX509BundlesUpdate`), the renewed dials after a rotation
(`TalkAgain`) and the periodic sends of a removal. A dial proves the dialled
side's certificate (`Dials`); the accepting side's verdict on the client is
`HandleConnection`. A bundle is the number of its newest authority. The bundles
a workload dials with are those of its agent (`view`), which a restart of the
workload leaves alone; the restarted watcher still has to hear of them
(`Unseen`), and the agent may deliver them, or those of the entry, first
(`Deliverable`).

`SpiffeScripts` adds SPIRE servers, registration entries and the scripts, from
`1_run_creation.py` on. Each script is a sequence of steps (`script.step`) and
ends in a poll for one of the four measurements; the history variables `meshed`,
`remeshed`, `sent`, `silent`, `applied` and `deleted` are the log lines these
count. The repository is one current bundle per member and an ordered stream of
events, any of which may miss any of the subscribed listeners (`Announce`, counted
with the faults, as `broadcast` drops what a stream is not waiting for); the two
transports are in `LedgerFederation` and `BundleRepo`. A poll may give up at any
moment (`PollTimesOut`, the 300 s of `poll_until`): the row of scripts ends there,
and listeners and workloads, being processes of their own, go on. After a failing
command nothing is looked at any more.
`count`, the number of servers a script is told of, is the number there are;
given less, as `run_ledger.sh` does after an addition, the measurements poll
fewer peers. The composition assumes that SPIRE offers a workload the bundles its
entry federates with, refuses an entry whose bundle is missing, and may refresh a
federated bundle from its peer's endpoint (counted with the faults).

## 3. Runs

| Run | Shows | Bounds |
|---|---|---|
| `spiffe_contract` | `ArrayMirrorsMappings`, `PagesPartitionMembers`, refinement of `BundleDirectory` | 3 trust domains, 2 bundles, 6 transactions |
| `ledger_newcomer` | `NoStaleTrust`, `MissesOnlyReordered`, `PageMissNeedsRemoval`, `NoRollback`, `UpsertPublishes`, `ListenerDrains` | 2 founders, 1 newcomer, which is observed, pages of 1, 2 versions, 2 scripts at a time, 5 blocks, 1 failing call |
| `repo_answers` | `StoresWhatItAnswered`, `CleanReads`, `ReadsWereCurrent`, `HeardIsVisible`, `EveryRequestEnds` | 3 writes one at a time, 1 GET, 1 subscriber, 2 trust domains |
| `repo_two_writers` | violated: `UpsertIsStored` | 2 writes, both at a time, 2 trust domains |
| `oauth_ledger` | `IndexInvertsArray`, refinement of `MetadataDirectory`, `NoStaleAdmission`, `OnlyReturnersLockedOut`, `KeysFollowRotations`, `CatchesUp` | this domain and 2 peers, one of which rotates, pages of 1, 4 transactions, 1 failing call |
| `oauth_central` | `SeenIsConfigured`, `UsableIsSeen`, `NoStaleAdmission`, `OnlyReturnersLockedOut`, `KeysFollowRotations`, `EventuallyAdmitted` | this domain and 1 peer, 2 overlapping callers, channel of 1, 3 requests, 1 failing call |
| `oauth_calls` | `TypeOK`, `RetryIsFresh`, `EveryCallAnswered` | 1 peer, 2 overlapping calls, token life 1, no margin, clock 1, 1 failing request |
| `oauth_scripts` | `PropagatedIsAccepted`, `CleanIsShut`, `LateByDelayOnly` | 1 peer, 3 calls, token life 2, margin 1, clock 2, 1 failing request |
| `spiffe_scripts` | `CreationIsMutual`, `AdditionReachesAll`, `RotationHasArrived`, `RemovalIsSilence`, `StallsAreExplained` | 2 founders, 1 newcomer, 1 workload each, equal first ports, 1 rotation per server, 2 scripts after creation, 1 fault, 2 end markers per workload |
| `spiffe_mesh` | `MeshCompletes` | 2 founders with 2 workloads each, equal first ports, creation only |
| `spiffe_ports` | violated: `MeshCompletes` | 2 servers with 2 workloads, the ports as in the sources |
| `spiffe_addition` | violated: `AdditionIsMutual` | 2 founders, 1 newcomer, 1 workload each, equal first ports, 1 script after creation |

Why the bounds are enough.

* Three names let a deletion hit the first, a middle and the last slot of an
  array; six transactions are three registrations and three removals of the full
  array. Page size 1 puts a page boundary between any two entries, which is what
  the 50 of the code does to a larger federation.
* Three transactions after the founders' two (`ledger_newcomer`) are the newcomer's
  own and two of a second script: a rotation between the newcomer's page read
  and its import, a removal under its page walk or between `exists()` and the
  transaction, a removal and a publication in one window. The newcomer is
  observed because its store has every writer: the script and the listener.
  Founders, whose stores have only the listener, are covered by the proofs.
* Three requests on the central bundle server take the array through two
  reallocations, and let a name be posted twice, or an entry be deleted, or the
  freed slot be used again, under a GET. `Overlap` 1 is what the scripts do, 2
  two scripts side by side, where trust domains are interchangeable (`Symmetry`).
* A realm's entries are independent of each other, so one peer is enough for
  `oauth_central`; three requests allow register, remove, register, and two
  callers let one announcement overtake another. A channel of capacity 1 is
  full after one event, so that a drop is as near as it is not in 32.
* Four transactions in `oauth_ledger` let both peers register, one leave and come
  back, within one window or two. One failing call cuts a handler in two, drops
  one event or replays one window.
* Two calls are what the caches of `oauth_calls` need for one to overwrite or
  invalidate what the other relies on; three let the removal script of
  `oauth_scripts` warm the caches and look again. The clock runs as long as one
  token lives, so that an answer may be on the way for a whole life.
* A rotated and a removed server, and an addition before or after, are the pairs
  of scripts the `run_*.sh` files chain. `spiffe_scripts` has one workload per
  server, because four only multiply interleavings; `spiffe_mesh` and
  `spiffe_ports` have the two that the internal mesh needs. Wherever the first
  ports are equal it is because nothing is ever measured otherwise
  (`FarPortsNeverMeasure`): these runs show what the scripts do once the two
  programs agree, and `spiffe_ports` that they do not.

The versions, blocks, scripts, calls, ticks and failing calls are bounded in the
guards, so that every specification comes to rest: deadlock is not checked.

Symmetry apart, no run reduces anything. No run replaces a definition.

Fairness, stated only where a liveness property needs it:

* `LedgerFederation!FairSpec`: every listener's steps, a loop around `time.sleep`
  whose remote calls return or raise, and every started driver's steps.
* `BundleRepo!FairSpec`: every handler's steps, which is the Go scheduler's
  business. Subscribers owe nothing, so a stuck one holds up nobody.
* `OAuthLedger!FairLedgerSpec`: the listener's steps; `PollFails` is no part of it.
* `OAuthCentral!FairCentralSpec`: the stream's goroutine, the repository's
  handlers and the listener's steps. Nobody has to register or to leave.
* `OAuthWorkload!FairSpec`: each call's steps, which includes that Keycloak
  answers. The code puts no timeout on token requests, and a Keycloak that hangs
  would hold `ownTokenMu` for ever: `EveryCallAnswered` holds only without that.
* `SpiffeScripts!FairSpec`: one weak fairness condition for all progress taken
  together (`Progress`): something is done while something can be. A poll, whose
  deadline always comes, does not go on for ever. No operator has to start
  another script.

### What the violated runs say

* `repo_two_writers`. The lost update of two overlapping PUTs, the only two
  requests there are: both servers have been told 200 and one is in nobody's list.
* `spiffe_ports`. `set_up_cluster.sh` starts the workloads of server 1 from port
  9103, in blocks of six, and `main.go` counts blocks of six from 8085. As 9103 is
  four ports into such a block, `makeArray(9103)` is 9099..9102, where no workload
  listens: the internal mesh never ends and "All messages sent" is never logged.
  The script of the creation gives up after its 300 s; the workloads dial on.
* `spiffe_addition`. `measure_addition_end.py:17-21` says that the success of the
  newcomer's dials proves trust "in BOTH directions". The entries of the
  older servers are not updated, their workloads never verify the newcomer
  (`AdditionIsOneWay`, which is proved), and the dials succeed all the same.

### What the properties' exceptions say

Properties that hold name the cases the code leaves open. They are results too:

* `MissesOnlyReordered` (`reordered`): a server that is removed and publishes
  again before a listener polls is applied first and deleted last, without an
  ERROR line. `failed`: an event whose handler raised is never tried again.
* `NoStaleTrust`, `NoRollback`, `MissesOnlyReordered` (`late`): next to a second
  script a newcomer may import a file whose owner has replaced or withdrawn the
  bundle since the page was read, when the newcomer's listener has handled that
  event already or subscribed after it: nothing is left then to correct the
  store. Without this exception the run violates all three.
* `UpsertPublishes`: a script whose `exists()` is outdated by another script's
  removal is told 500, which nobody looks at, and its server stays removed.
* `LateByDelayOnly`: an answer of Keycloak that was longer on its way than the
  margin puts a token into the cache that is taken after it has ended.
  `RetryIsFresh` is what the code has for it: the refusal leads to a fresh one.
* `PageMissNeedsRemoval`: a removal between two page reads makes `get_bundles`
  miss a member that nobody touched; nothing else does.
* `OnlyReturnersLockedOut` (`left`): a domain that was removed and registers
  again is not admitted, because the 409 of the two creations counts as success
  and the disabled provider stays disabled. Until it is admitted its calls fail
  and the script of an addition repeats them. `shuffled`: a removal under the
  page walk of the listing hides a domain from a new listener.
* `NoStaleAdmission` (`overtaken`, `dropped`): an announcement that is overtaken
  by a later one, or dropped by a full buffer, is not made up for.
* `CleanIsShut`: without introspection a removed domain's tokens are accepted
  until they end.
* `StallsAreExplained` (`overlooked`): a workload that notices the new bundle
  before `event_fired` is written, before its mesh is finished, or together with
  a later server's, leaves no marker that counts, and the poll gives up.
* After a rotation the mesh that `3_rotate_key.py` drives may succeed with cached
  tokens signed by the old key: `PropagatedIsAccepted` rests on the exchange
  that the script makes itself.
* The central bundle server drops events of a subscriber that is still writing
  the event before (`Broadcast`). A listener that misses an event keeps the old
  bundle: the poll of the rotation or removal then gives up, and no measurement
  is satisfied by it (`RotationHasArrived`, `RemovalIsSilence`).

## 4. Proofs

| Theorem | Statement |
|---|---|
| `SpiffeBundleStore_proofs!TypeCorrectness` | `Spec => []TypeOK` |
| `SpiffeBundleStore_proofs!ArrayAgreement` | `Spec => []ArrayMirrorsMappings` |
| `SpiffeBundleStore_proofs!PagesAreExact` | `Spec => []PagesPartitionMembers` |
| `SpiffeBundleStore_proofs!Refinement` | `Spec => ImplementsDirectory` |
| `LedgerFederation_proofs!FederationTypes` | `FederationSpec => [](FederationTypeOK /\ ArrayMirrorsMappings)` |
| `LedgerFederation_proofs!OnlyRemovalsHideMembers` | `FederationSpec => []PageMissNeedsRemoval` |
| `LedgerFederation_proofs!AnsweredUpsertsPublish` | `FederationSpec => UpsertPublishes` |
| `LedgerFederation_proofs!NoBundleIsReinstated` | `FederationSpec => NoRollback` |
| `LedgerFederation_proofs!CaughtUpTrustsNothingStale` | `FederationSpec => []NoStaleTrust` |
| `LedgerFederation_proofs!CaughtUpMissesOnlyReordered` | `FederationSpec => []MissesOnlyReordered` |
| `SpiffeScripts_proofs!CreationMeshes` | `Spec => []CreationIsMutual` |
| `SpiffeScripts_proofs!FarPortsNeverMeasure` | `ListenBase > DialBase + 2 /\ Founders > 1 => (Spec => [](script.step # "measured"))` |
| `SpiffeScripts_proofs!AdditionsReachAll` | `Spec => []AdditionReachesAll` |
| `SpiffeScripts_proofs!AdditionsMeshOneWay` | `Spec => []AdditionIsOneWay` |
| `SpiffeScripts_proofs!RotationsArrive` | `Spec => []RotationHasArrived` |
| `SpiffeScripts_proofs!RotationsStallForCause` | `Spec => []StallsAreExplained` |
| `SpiffeScripts_proofs!RemovalsSilence` | `Spec => []RemovalIsSilence` |
| `SpiffeScripts_proofs!TypeCorrectness` | `Spec => []ScriptsTypeOK` |
| `BundleRepo_proofs!RepoTypesHold` (W) | `Spec => []TypeOK` |
| `BundleRepo_proofs!SliceMatchesAnswers` (W) | `Spec => []StoresWhatItAnswered` |
| `BundleRepo_proofs!EventsFollowChanges` (W) | `Spec => HeardIsVisible` |
| `BundleRepo_proofs!ReadsAreClean` (W) | `Spec => []CleanReads` |
| `BundleRepo_proofs!ReadsAreCurrent` (W) | `Spec => []ReadsWereCurrent` |
| `OAuthLedger_proofs!TypeCorrectness` | `Spec => []TypeOK` |
| `OAuthLedger_proofs!IndexAgreement` | `Spec => []IndexInvertsArray` |
| `OAuthLedger_proofs!NamesAgreement` | `Spec => []NamesAreRegistered` |
| `OAuthLedger_proofs!Refinement` | `Spec => ImplementsDirectory` |
| `OAuthListener_proofs!ListenerTypes` | `ListenerSpec => []ListenerTypeOK` |
| `OAuthListener_proofs!SeenConfigured` | `ListenerSpec => []SeenIsConfigured` |
| `OAuthListener_proofs!NobodyForgotten` | `ListenerSpec => []UsableIsSeen` |
| `OAuthCentral_proofs!ListenerRefinement` | `CentralSpec => ListenerSpec` |
| `OAuthCentral_proofs!CentralTypes` | `CentralSpec => []CentralTypeOK` |
| `OAuthCentral_proofs!CentralSeen` | `CentralSpec => []SeenIsConfigured` |
| `OAuthCentral_proofs!CentralNobodyForgotten` | `CentralSpec => []UsableIsSeen` |
| `OAuthCentral_proofs!CentralNoStaleAdmission` | `CentralSpec => []NoStaleAdmission` |
| `OAuthCentral_proofs!CentralOnlyReturnersLockedOut` | `CentralSpec => []OnlyReturnersLockedOut` |
| `OAuthCentral_proofs!CentralKeysFollowRotations` | `CentralSpec => []KeysFollowRotations` |
| `OAuthLedger_proofs!ContractRefinement` | `LedgerSpec => Spec` |
| `OAuthLedger_proofs!LedgerIndex` | `LedgerSpec => []IndexInvertsArray` |
| `OAuthLedger_proofs!LedgerNames` | `LedgerSpec => []NamesAreRegistered` |
| `OAuthLedger_proofs!LedgerDirectory` | `LedgerSpec => ImplementsDirectory` |
| `OAuthLedger_proofs!LedgerTypes` | `LedgerSpec => []LedgerTypeOK` |
| `OAuthLedger_proofs!LedgerListener` | `LedgerSpec => ListenerSpec` |
| `OAuthLedger_proofs!LedgerSeen` | `LedgerSpec => []SeenIsConfigured` |
| `OAuthLedger_proofs!LedgerNobodyForgotten` | `LedgerSpec => []UsableIsSeen` |
| `OAuthLedger_proofs!LedgerNoStaleAdmission` | `LedgerSpec => []NoStaleAdmission` |
| `OAuthLedger_proofs!LedgerOnlyReturnersLockedOut` | `LedgerSpec => []OnlyReturnersLockedOut` |
| `OAuthLedger_proofs!LedgerKeysFollowRotations` | `LedgerSpec => []KeysFollowRotations` |
| `OAuthDrivers_proofs!TypeCorrectness` | `Spec => []TypeOK` |
| `OAuthDrivers_proofs!TakenTokensLateByDelay` | `DriversSpec => LateByDelayOnly` |
| `OAuthDrivers_proofs!RetriesAreFresh` | `Spec => []RetryIsFresh` |
| `OAuthDrivers_proofs!DriversTypes` | `DriversSpec => []DriversTypeOK` |
| `OAuthDrivers_proofs!RotationPropagates` | `DriversSpec => []PropagatedIsAccepted` |
| `OAuthDrivers_proofs!RemovalIsShut` | `DriversSpec => CleanIsShut` |

Every safety property that a passing run checks is stated by one of these. They
hold for every set of names, every number of servers, scripts, requests, calls,
readers and subscribers, every capacity, page size and bound. The assumptions:

* the empty string is not a bundle or a metadata document (`UnsetAssumption`; the
  clients never send one);
* the trust domains are finitely many, the founders different ones, and bundles
  are named by version numbers (`ServersAssumption`, `FoundersAssumption`,
  `VersionAssumption`);
* a server runs one to four workloads, the block of six ports being what the two
  programs agree on, and the founders are among the servers (`SizesAssumption`,
  `ScriptsAssumption`);
* the listener's own domain is a domain, and the mark of a torn file is not
  (`OwnAssumption`, `TornAssumption`); only peers are rotated under the eyes of
  the listener (`RotatingAssumption`);
* the bounds are natural numbers, a channel holds an event and a page an entry
  (`BoundsAssumption`, `FaultsAssumption`, `RepoAssumption`, `NumbersAssumption`,
  `LimitAssumption`);
* there is a peer to call (`PeerAssumption`);
* a request is a read or a write, writes are numbers, and the mark for "nothing"
  is no request and no name (`RequestAssumption`, `NoneAssumption`).

The theorems marked (W) have a hypothesis about the constants besides,
`Overlap <= 1`: at most one write at a time, with any number of reads beside
it. That is how the scripts use the server, one after the other; the server
does not enforce it, and `repo_two_writers` shows that with two writes at a
time the statements are false. None of the others has one: those about the
ledger hold for any number of scripts at a time, those about the SPIFFE scripts
whatever ports the two programs count from.

Bundle contract. `IInv` is `TypeOK /\ ArrayMirrorsMappings`. The array without
the mappings is not inductive: that the scan finds a slot needs the mapping to
agree with the array, that it finds only one needs injectivity. Two lemmas about
sequences carry the argument: `PushFresh` (pushing a new element) and
`SwapAndPopRemoves` (exactly one element disappears, the last slot included).
`PostArray` and `DeleteArray` restate the transactions in terms of the set the
array lists, and both the invariant and the refinement follow from those.
For the pages, `PageAt` says which slots of the array a page shows, `PageOf`
(division with remainder, from the well-foundedness of the naturals) that every
slot is on some page, `PagesApart` that it is on one only.

Ledger federation. The contract's invariant carries over, since every step is a
transaction or leaves the contract alone. On it rest, in this order:

* `BaseInv`: types, and what a script's step implies (`ScriptInv`): who fetches is
  joining, files exist only while they are being set.
* `WalkedInv`: a walk during which nothing was deleted has read the array from its
  start to its offset. `PageMissNeedsRemoval` is what its last page makes of that.
* `ServesInv`: a listener turns pages only for the publish it handles, and since
  after the poll that brought it.
* `ValuesInv`: every bundle on the contract, in a page, in a file or in a store
  was its owner's once (`Past`), so that "older" means something.
* `AnswerInv`: between `exists()` and the transaction it selects, the answer can be
  outdated in one way, by a deletion of the server, since nobody else publishes
  it. `UpsertPublishes` follows, for any number of scripts.
* `JoinInv`: while a server is joining, whatever its script has read in pages and
  files is what is published *unless* the trust domain is `late`, and so is every
  trust domain that its listener has an event of, or that was changed since the
  walk began.
* `RiseInv`: what a listener has read is not older than what its server holds, or
  is `late`. Only a handler of the same listener, or the import of a newcomer,
  changes the store, and no handler does while pages are being turned.
  `NoRollback` follows.
* `StoreInv`: a store holds a peer's current bundle or none *unless* an ERROR was
  logged for the peer, it is `late`, or an event of it is still to be polled or
  handled (`Excused`); and it holds that bundle, with the same excuses, unless a
  deletion was handled behind the next publish (`Marks` ties that to `reordered`).
  `NoStaleTrust` and `MissesOnlyReordered` are `StoreInv` at the moment at which
  nothing is left to poll or handle.

SPIFFE scripts. `Inv` has two layers, both claimed only while no script has
failed or given up (`Running`), since no measurement is satisfied after that.

* `Core` ties the scripts to what they leave behind. `Shape` says which steps and
  arguments a script has, `Ups` which servers it has started, `Stores` that an
  entry names only peers the server federates with and holds a bundle of, and
  `Ledger` that a server whose deletion is still to be heard of has not published
  again and that the repository is current but for the window of a rotation. `Mesh` follows a
  server's workloads while it is set up: bundles and agents have a peer's own
  bundle or none, and a workload that has done with a server of the mesh has its
  bundle. `Watching` says that the watcher's serial numbers are those the agent
  has delivered. `CreationIsMutual`, `AdditionReachesAll` and `AdditionIsOneWay`
  follow, because a dial counted while a server joins proves that the dialling agent had the bundle, and
  an entry of an older server never names the newcomer.
* `Marks` is about the markers. `Arrived` and `Silence`: a marker that counts was
  written after the script's own publish or deletion, so that the store it speaks
  of has the new bundle or none. `Stalls` has `StallsAreExplained` from the moment
  the new authority is prepared, not only during the poll: at that moment no
  workload has been given the new bundle. `Quiet` and `Cut` are what remains
  without faults: every bundle anywhere is the server's own, or the one before
  during its rotation (`QuietStores`); a workload dials again once, for the server
  that is rotated, and only after it was given the bundle (`QuietRotation`), so
  that no marker is left over from an earlier rotation; and a restarted workload
  whose round fails throughout has no bundle of those it could not reach.

The theorems make no assumption about the port numbers; the proofs split on them.
Where the ports that are dialled for a server lie in its block of six (`Near`), a
dial that succeeds has met a workload of that server, which is what `Mesh`, `Stalls`
and `Cut` say under that condition. Otherwise `Apart` is invariant: nobody listens
on the first port that is dialled for server 1, so no other server's workload
finishes its mesh and no measurement but that of a lone founder is ever satisfied
(`FarPortsNeverMeasure`). The second case is the one of the sources, the first the
one that makes the measurements mean something. `TypeCorrectness` of the scripts
adds `Dialled`: the ports a workload still has to reach are among `DialPorts`.

Central bundle server. `RepoInv` has three parts. `RepoTypes` keeps every slice
header, also the copies the handlers hold, within its backing array.
`WriterInv` says how far the one write in progress has come: `Writing` has a
disjunct for each phase. The stored slice lists what is published (`Stored`)
until the access that makes the change, and what will be published (`After`)
after it; `Finds` says that the slot a search has stopped at is the first of its
name, which is what makes a slice with repeated names come out right. On the way there `Filling` confines an append to a slot no
reader of the stored slice counts, and `Shifting` keeps a hole: the slots without
it list what will be published, and the hole's cells repeat the next slot's.
`ReadersInv` is what `CleanReads` and `ReadsWereCurrent` need. It has to hold for
an array the reader walks while it may have been left behind by an append, so it
is stated cell by cell: every cell of the slots a reader walks holds something
that was current during its request (`Walking`), and so does every cell it has
read (`ReadSoFar`); if no deletion overlaps, names stay where they are and pairs
belong together. `Witnessed` says that what is published and what the write in
progress publishes is in the reader's `valid` already: whatever the write stores
or moves, it may store (`MayTake`). `HeardIsVisible` follows from the writer's
last phase alone.

Metadata contract. `IInv` is `TypeOK /\ IndexInvertsArray /\ NamesAreRegistered`.
Each half needs the other: a removal clears the slot that the index names, so
that slot must hold the domain; it re-indexes the last name, so that name must be
registered there. `RegisterArray`, `RemoveArray` and `RemoveIndex` say entry by
entry what the transactions do. The refinement also settles what the event log
says: a domain registers, rotates only while it is registered, and leaves, in
that order. In the federation over the ledger every step is a transaction or
leaves the contract alone (`StepOfContract`), so all of this carries over.

Listener. `ListenerInv` is `ListenerTypeOK /\ Progress /\ SeenIsConfigured /\
Forgotten`. `SeenIsConfigured` needs to know what the running handler has already
done (`Progress`: past call 2 the provider exists, past call 3 the client, past
call 4 the permission), because `seen` is written when the handler returns.
`UsableIsSeen` needs the stronger `Forgotten`: the provider of a peer that is
neither seen nor being added is not *enabled*, which is what the first call of a
removal secures, whatever the others do. All seven admin calls go through
`CallPreserves`, which reduces a call to its effect on one entry.

The listener is proved against any transport, in which `Listed` takes any
sequence of domains and `Dispatch` any event. To use that, `StepOfListener` shows,
for each of the two federations, that every step is a step of `OAuthListener` or
leaves it alone. What that needs of the transport is that it delivers well-formed
events and that a listing is a sequence of domains.

Federations. The three properties that relate the realm to the repository
(`NoStaleAdmission`, `OnlyReturnersLockedOut`, `KeysFollowRotations`) speak of
moments at which nothing is on its way (`Quiet`), and those are not inductive.
Their invariants say for each peer that the listener agrees with the repository
*unless* something that will make it agree is still to come.

* `CentralInv`, central: a change of the map waits in a handler, then in the
  peer's channel, then on the wire. `RequestsAgree` says that of the handlers
  still to announce, the newest agrees with the map; `StreamAgrees`, that once all
  have announced, the last event of the stream does; `ListenerAgrees`, that once
  all is heard, the listener does. A handler that announces after a newer one
  makes the peer `overtaken`, a full buffer makes it `dropped`, and for those
  peers nothing is claimed. `Faithful` says that whoever never left was never
  announced to have left, which keeps its provider from being disabled.
* `LedgerInv`, ledger: everything to come is in the chain. `Pending(type, d)` says
  that a log lies ahead of the polling loop: beyond the window, of a type the
  window yields later, or of this type behind `at`. A listing adds `Walked`:
  while no removal moves entries, the walk has read as many as its offset says.
  `HeldIsRegistered` and `RegisteredIsHeld` relate the listener to the contract up
  to pending logs. Replaying a window after an exception only puts logs ahead
  again, which is why `PollFails` does no harm; and since additions are yielded
  before removals, a peer that has left and come back is excepted by `Left`.

Workload. `TakenTokensLateByDelay` rests on `Arrivals`: whichever call stores or
invalidates, a cache keeps an entry for at most a life from the arrival of its own
token. `RetriesAreFresh` rests on
`RetryInv`. A token is named by the call and attempt that requested it; `Settled`
says that no answer still to come bears a name, and never becomes false again
(`ForwardSettles`). Whatever a cache holds, a call presents or a call was refused
with bears a settled name, an answer on its way does not, so an answer that
another call stores after an invalidation is never the token that was refused
(`OnTheWayIsNew`), although the caches are filled outside `exchangeMu`. What
remains is the order of the two invalidations (`CallFresh`), and that the two
caches never hold each other's kind of token (`OldKinds`).

Orchestration. `DriversInv` ties the script to what it has left behind.
`ScriptOrder`: no peer is recorded clean, and no call is sent, outside the steps
that do so. `Propagation`: the peers the rotation script has done with hold the
new key, which no listener takes from them again. `CleanStaysShut`: a peer that
was recorded clean stays clean, because no listener opens what a removal has
shut. `Lives` bounds every exchanged token, whether in the cache, in a goroutine
or at the peer, by the last tick in which the peer's realm granted an exchange
(`LastGrant`) and one life; `CleanIsShut` is what the peer's check makes of that.

Only model-checked: the liveness properties (`ListenerDrains`, `EveryRequestEnds`,
`CatchesUp`, `EventuallyAdmitted`, `EveryCallAnswered`, `MeshCompletes`), since
fairness and `ENABLED` are out of the proof system's reach. `UpsertIsStored`,
`AdditionIsMutual` and `MeshCompletes` under the sources' ports are violated, as
a run of each shows.

## 5. Plan

1. Compose `BundleRepo`, seen from outside, with `SpiffeScripts` in the place of
   the stream that drops what it likes, so that the measurements depend on when
   a subscriber is not waiting.
2. Keep the files that a failed bundle import leaves behind.
3. Show that the repository `SpiffeScripts` assumes is implemented by
   `LedgerFederation` while scripts run one at a time; at present the two are
   tied by their descriptions only.

## 6. Not modelled

* Set-up scripts, the port check, the aggregation of measurements and the plans
  in `docs/`: input and output, no protocol state. The port numbers that
  `set_up_cluster.sh` assigns are in `SpiffeWorkload`.
* The time stamps and durations the measurements compute from the logs: only the
  conditions that end a measurement matter to the programs.
* SPIRE, Keycloak, Hardhat and the Go runtime: external, modelled from how
  this code uses them, where they are.
* Requests that are rejected for their form, and the formatting and printing of
  bundles: they change nothing that is shared.
