--------------------------- MODULE SpiffeScripts ---------------------------
(***************************************************************************)
(* The SPIFFE driver scripts around the workloads: creation of the         *)
(* federation, addition of a server, rotation of an authority and removal  *)
(* of a member, each followed by a poll of its measurement. The scripts    *)
(* act on the SPIRE servers and on the bundle repository; the listeners    *)
(* of the servers follow the repository in their own time.                 *)
(*                                                                         *)
(* The repository is what its clients see of it: one current bundle per    *)
(* member and an event for every change, in order, that may miss some of   *)
(* the listeners. LedgerFederation and BundleRepo have its two transports  *)
(* in detail, and the listener's fetch and import as two steps.            *)
(***************************************************************************)
EXTENDS SpiffeWorkload

CONSTANTS
  Founders,    \* the n of 1_run_creation
  MaxScripts,  \* bound: scripts that are run after the creation
  MaxFaults    \* bound: failing commands, events that miss listeners, dials that time out,
               \* refreshes by SPIRE

ASSUME ScriptsAssumption == Founders \in Server /\ MaxScripts \in Nat /\ MaxFaults \in Nat

VARIABLES
  script,     \* the running script: what it does, its step and its arguments
  ran,        \* scripts run after the creation
  own,        \* per server, its own bundle: the newest prepared authority
  active,     \* per server, its active authority
  held,       \* per server and peer, the bundle in the server's store
  federated,  \* per server, the federation relationships created
  entry,      \* per workload, the federatesWith of its registration entry
  published,  \* per server, its bundle in the repository
  listener,   \* per server: "off", "starting" or "on"
  events,     \* per listener, what the stream still has to deliver
  applied,    \* <<listener, server>>: bundle_applied since event_fired
  deleted,    \* <<listener, server>>: bundle_deleted since removal_start
  overlooked, \* workloads that noticed the rotation and will log no fresh marker
  faults

scriptVars == <<script, ran>>
spireVars == <<own, active, held, federated, entry>>
listenerVars == <<listener, events, applied, deleted>>
vars == <<workloadVars, scriptVars, spireVars, published, listenerVars, overlooked, faults>>

Event == [type : {"bundle_updated", "bundle_deleted"}, server : Server]
Script == {"creation", "addition", "rotation", "removal"}
Step == {"clusters", "listeners", "post", "fetch", "federate", "entries", "poll", "measured",
         "publish", "prepare", "activate", "fire", "kill", "respawn", "record", "delete",
         "clean", "failed", "gaveup"}
Founder == 1..Founders
Newest == IF \E w \in Workload : reach[w] > 0 /\ w[1] > Founders THEN Founders + 1 ELSE Founders

ScriptsTypeOK ==
  /\ WorkloadTypeOK
  /\ script \in [op : Script, step : Step, num : Server, count : Server]
  /\ ran \in 0..MaxScripts /\ faults \in 0..MaxFaults
  /\ own \in [Server -> 0..MaxVersion] /\ active \in [Server -> 0..MaxVersion]
  /\ held \in [Server -> [Server -> Version]]
  /\ federated \in [Server -> SUBSET Server]
  /\ entry \in [Workload -> SUBSET Server]
  /\ published \in [Server -> Version]
  /\ listener \in [Server -> {"off", "starting", "on"}]
  /\ events \in [Server -> Seq(Event)]
  /\ applied \subseteq Server \X Server /\ deleted \subseteq Server \X Server
  /\ overlooked \subseteq Workload
  \* The SVIDs in use and the bundle in the repository trail the server's own.
  /\ \A s \in Server : svid[s] <= active[s] /\ active[s] <= own[s] /\ published[s] <= own[s]

ScriptsInit ==
  /\ WorkloadInit
  /\ script = [op |-> "creation", step |-> "clusters", num |-> 1, count |-> Founders]
  /\ ran = 0
  /\ own = [s \in Server |-> 0] /\ active = [s \in Server |-> 0]
  /\ held = [s \in Server |-> NoBundles]
  /\ federated = [s \in Server |-> {}] /\ entry = [w \in Workload |-> {}]
  /\ published = NoBundles
  /\ listener = [s \in Server |-> "off"] /\ events = [s \in Server |-> <<>>]
  /\ applied = {} /\ deleted = {} /\ overlooked = {} /\ faults = 0

\* What goes on after a command has failed is not looked at. A script that gives
\* up waiting leaves all the other processes running.
Alive == script.step # "failed"

Fault == faults < MaxFaults /\ faults' = faults + 1

At(op, step) == script.op = op /\ script.step = step
Goto(step) == script' = [script EXCEPT !.step = step] /\ UNCHANGED ran

\* The script's loop over the servers: num is the one it has reached.
NextServer(step, then) ==
  /\ script' = IF script.op = "addition" \/ script.num = script.count
               THEN [script EXCEPT !.step = then, !.num = IF script.op = "addition" THEN @ ELSE 1]
               ELSE [script EXCEPT !.num = @ + 1]
  /\ UNCHANGED ran

\* The events that reach the listeners which are subscribed; a listener's own
\* server's only leave a line in its log. The centralized server drops the event
\* of a stream that is not waiting for one.
Announce(type, s) ==
  LET Subscribed == {i \in Server \ {s} : listener[i] = "on"} IN
    \E missed \in SUBSET Subscribed :
      /\ events' = [i \in Server |-> IF i \in Subscribed \ missed
                                    THEN Append(events[i], [type |-> type, server |-> s])
                                    ELSE events[i]]
      /\ IF missed = {} THEN UNCHANGED faults ELSE Fault

PublishBundleForServer(s) ==
  /\ published' = [published EXCEPT ![s] = own[s]]
  /\ Announce("bundle_updated", s)
  /\ UNCHANGED <<listener, applied, deleted>>

-----------------------------------------------------------------------------
(* Creation and addition                                                   *)

SetupNClusters ==
  /\ At("creation", "clusters")
  /\ LET up == {w \in Workload : w[1] \in Founder} IN
       /\ stage' = [w \in Workload |-> IF w \in up THEN "internal" ELSE stage[w]]
       /\ todo' = [w \in Workload |-> IF w \in up THEN MakeArray(Port(w)) ELSE todo[w]]
       /\ reach' = [w \in Workload |-> IF w \in up THEN Founders ELSE 0]
  /\ Goto("listeners")
  /\ UNCHANGED <<allFailed, again, view, previous, svid, logVars, spireVars, published,
                 listenerVars, overlooked, faults>>

SetupNewCluster ==
  /\ At("addition", "clusters")
  /\ StartWorkloads(script.num, script.num, FALSE)
  /\ Goto("listeners")
  /\ UNCHANGED <<logVars, spireVars, published, listenerVars, overlooked, faults>>

\* The listener is a process of its own: it subscribes some time later.
StartListeners ==
  /\ script.step = "listeners"
  /\ listener' = [s \in Server |->
       IF IF script.op = "creation" THEN s \in Founder ELSE s = script.num
       THEN "starting" ELSE listener[s]]
  /\ Goto(IF script.op = "creation" THEN "post" ELSE "publish")
  /\ UNCHANGED <<workloadVars, spireVars, published, events, applied, deleted, overlooked, faults>>

PostBundles ==
  /\ At("creation", "post")
  /\ PublishBundleForServer(script.num)
  /\ NextServer("post", "fetch")
  /\ UNCHANGED <<workloadVars, spireVars, overlooked>>

PutBundle ==
  /\ script.step = "publish"
  /\ PublishBundleForServer(script.num)
  /\ Goto(IF script.op = "addition" THEN "fetch" ELSE "fire")
  /\ UNCHANGED <<workloadVars, spireVars, overlooked>>

\* No federation relationship is created.
FetchBundlesOnly ==
  /\ script.step = "fetch"
  /\ held' = [held EXCEPT ![script.num] =
       [t \in Server |-> IF t = script.num \/ published[t] = Missing THEN @[t] ELSE published[t]]]
  /\ NextServer("fetch", "entries")
  /\ UNCHANGED <<workloadVars, own, active, federated, entry, published, listenerVars, overlooked,
                 faults>>

FetchBundles ==
  /\ script.step = "fetch"
  /\ held' = [held EXCEPT ![script.num] =
       [t \in Server |-> IF t = script.num \/ published[t] = Missing THEN @[t] ELSE published[t]]]
  /\ NextServer("fetch", "federate")
  /\ UNCHANGED <<workloadVars, own, active, federated, entry, published, listenerVars, overlooked,
                 faults>>

\* An addition federates the new server with the lower ones, not them with it.
CreateFederations ==
  /\ script.step = "federate"
  /\ federated' = [federated EXCEPT ![script.num] = (1..script.count) \ {script.num}]
  /\ NextServer("federate", "entries")
  /\ UNCHANGED <<workloadVars, own, active, held, entry, published, listenerVars, overlooked,
                 faults>>

\* SPIRE refuses an entry that federates with a domain it holds no bundle of.
Federatable(s) == \A t \in federated[s] : held[s][t] # Missing

UpdateRegistrationEntries ==
  /\ script.step = "entries" /\ Federatable(script.num)
  /\ entry' = [w \in Workload |-> IF w[1] = script.num THEN federated[script.num] ELSE entry[w]]
  /\ NextServer("entries", "poll")
  /\ UNCHANGED <<workloadVars, own, active, held, federated, published, listenerVars, overlooked,
                 faults>>

EntryRefused ==
  /\ script.step = "entries" /\ ~ Federatable(script.num)
  /\ Goto("failed")
  /\ UNCHANGED <<workloadVars, spireVars, published, listenerVars, overlooked, faults>>

-----------------------------------------------------------------------------
(* Rotation                                                                *)

PrepareX509Authority ==
  /\ At("rotation", "prepare")
  /\ own' = [own EXCEPT ![script.num] = @ + 1]
  /\ Goto("activate")
  /\ UNCHANGED <<workloadVars, active, held, federated, entry, published, listenerVars,
                 overlooked, faults>>

\* Activated, the old one tainted: the SVIDs will be signed again.
ActivateX509Authority ==
  /\ At("rotation", "activate")
  /\ active' = [active EXCEPT ![script.num] = own[script.num]]
  /\ Goto("publish")
  /\ UNCHANGED <<workloadVars, own, held, federated, entry, published, listenerVars, overlooked,
                 faults>>

\* The time stamps of an earlier rotation are taken for fresh ones.
RecordNothing ==
  /\ At("rotation", "fire")
  /\ Goto("poll")
  /\ UNCHANGED <<workloadVars, spireVars, published, listenerVars, overlooked, faults>>

\* From here on a marker in a log is fresh. The logs are read by time stamp.
RecordEventFired ==
  /\ At("rotation", "fire")
  /\ applied' = {a \in applied : a[2] # script.num}
  /\ remeshed' = [w \in Workload |-> 0]
  /\ Goto("poll")
  /\ UNCHANGED <<processVars, svid, meshed, sent, silent, spireVars, published, listener, events,
                 deleted, overlooked, faults>>

-----------------------------------------------------------------------------
(* Removal                                                                 *)

KillForRestart ==
  /\ At("removal", "kill")
  /\ KillWorkloads(script.num)
  /\ Goto("respawn")
  /\ UNCHANGED <<logVars, spireVars, published, listenerVars, overlooked, faults>>

RestartWorkloads ==
  /\ At("removal", "respawn")
  /\ StartWorkloads(script.num, script.count, TRUE)
  /\ Goto("record")
  /\ UNCHANGED <<logVars, spireVars, published, listenerVars, overlooked, faults>>

RecordRemovalStart ==
  /\ At("removal", "record")
  /\ sent' = {}
  /\ deleted' = {d \in deleted : d[2] # script.num}
  /\ Goto("delete")
  /\ UNCHANGED <<processVars, svid, meshed, remeshed, silent, spireVars, published, listener,
                 events, applied, overlooked, faults>>

DeleteBundle ==
  /\ At("removal", "delete")
  /\ published' = [published EXCEPT ![script.num] = Missing]
  /\ Announce("bundle_deleted", script.num)
  /\ Goto("clean")
  /\ UNCHANGED <<workloadVars, spireVars, listener, applied, deleted, overlooked>>

\* One entry after the other loses its federatesWith.
CleanLocalEntry ==
  /\ At("removal", "clean")
  /\ \E w \in Of(script.num) : entry[w] # {} /\ entry' = [entry EXCEPT ![w] = {}]
  /\ Goto("clean")
  /\ UNCHANGED <<workloadVars, own, active, held, federated, published, listenerVars, overlooked,
                 faults>>

EntriesClean ==
  /\ At("removal", "clean") /\ \A w \in Of(script.num) : entry[w] = {}
  /\ Goto("poll")
  /\ UNCHANGED <<workloadVars, spireVars, published, listenerVars, overlooked, faults>>

-----------------------------------------------------------------------------
(* Measurements                                                            *)

\* As many markers as one server has workloads.
MeasureCreationEndPerServer ==
  Cardinality({w \in meshed : w[1] <= script.count}) >= Size

MeasureCreationEnd ==
  Cardinality({w \in meshed : w[1] <= script.count}) = script.count * Size

\* The markers of all servers are counted.
MeasureAnyAdditionEnd == Cardinality(meshed) >= Size

MeasureAdditionEnd == Cardinality(meshed \cap Of(script.num)) = Size

Peers == (1..script.count) \ {script.num}
PeerWorkload == {w \in Workload : w[1] \in Peers}

MeasureRotationEnd ==
  /\ Peers \X {script.num} \subseteq applied
  /\ Cardinality({m \in PeerWorkload \X (1..MaxMarks) : m[2] <= remeshed[m[1]]})
       = Cardinality(Peers) * Size

\* The propagation to the peers is not asked for.
MeasureSilenceOnly ==
  /\ Of(script.num) \subseteq silent
  /\ sent \cap Of(script.num) # {}

MeasureRemovalEnd ==
  /\ Peers \X {script.num} \subseteq deleted
  /\ Of(script.num) \subseteq silent
  /\ sent \cap Of(script.num) # {}

EndReached ==
  CASE script.op = "creation" -> MeasureCreationEnd
    [] script.op = "addition" -> MeasureAdditionEnd
    [] script.op = "rotation" -> MeasureRotationEnd
    [] script.op = "removal" -> MeasureRemovalEnd

\* poll_until: the markers are there, or 300 s have passed and it raises.
PollUntil ==
  /\ script.step = "poll" /\ EndReached
  /\ Goto("measured")
  /\ UNCHANGED <<workloadVars, spireVars, published, listenerVars, overlooked, faults>>

PollTimesOut ==
  /\ script.step = "poll"
  /\ Goto("gaveup")
  /\ UNCHANGED <<workloadVars, spireVars, published, listenerVars, overlooked, faults>>

-----------------------------------------------------------------------------
(* The scripts in a row: set -e ends it at a script that failed or gave up *)

Begin(op, step, num, count) ==
  /\ script.step = "measured" /\ ran < MaxScripts
  /\ script' = [op |-> op, step |-> step, num |-> num, count |-> count]
  /\ ran' = ran + 1
  /\ overlooked' = {}
  /\ UNCHANGED <<workloadVars, spireVars, published, listenerVars, faults>>

RunAddition == Newest = Founders /\ Founders < MaxServer /\ Begin("addition", "clusters", Founders + 1, Founders + 1)

\* Rotation and removal are given the number of the servers there are. Given
\* less, as run_ledger.sh does after an addition, they poll fewer peers.
RunRotation == \E s \in 1..Newest :
  /\ Newest > 1 /\ published[s] # Missing /\ own[s] < MaxVersion
  /\ Begin("rotation", "prepare", s, Newest)

RunRemoval == \E s \in 1..Newest :
  /\ Newest > 1 /\ published[s] # Missing
  /\ Begin("removal", "kill", s, Newest)

\* A spire-server command or a request of the script raises.
CommandFails ==
  /\ script.step \notin {"poll", "measured", "failed", "gaveup"} /\ Fault
  /\ Goto("failed")
  /\ UNCHANGED <<workloadVars, spireVars, published, listenerVars, overlooked>>

-----------------------------------------------------------------------------
(* Listeners                                                               *)

Subscribe(s) ==
  /\ Alive /\ listener[s] = "starting"
  /\ listener' = [listener EXCEPT ![s] = "on"]
  /\ UNCHANGED <<workloadVars, scriptVars, spireVars, published, events, applied, deleted,
                 overlooked, faults>>

\* A bundle that is deleted with -mode dissociate leaves the entries too.
Dissociate(s, t) ==
  /\ held' = [held EXCEPT ![s][t] = Missing]
  /\ entry' = [w \in Workload |-> IF w[1] = s THEN entry[w] \ {t} ELSE entry[w]]

HandleEvent(s) ==
  /\ Alive /\ events[s] # <<>>
  /\ events' = [events EXCEPT ![s] = Tail(@)]
  /\ LET e == Head(events[s])
         t == e.server
     IN  \/ /\ \* nothing to apply or to delete: an ERROR is logged
               \/ e.type = "bundle_updated" /\ published[t] = Missing
               \/ e.type = "bundle_deleted" /\ held[s][t] = Missing
            /\ UNCHANGED <<held, entry, applied, deleted>>
         \/ /\ e.type = "bundle_updated" /\ published[t] # Missing
            /\ held' = [held EXCEPT ![s][t] = published[t]]
            /\ applied' = applied \cup {<<s, t>>}
            /\ UNCHANGED <<entry, deleted>>
         \/ /\ e.type = "bundle_deleted" /\ held[s][t] # Missing
            /\ Dissociate(s, t)
            /\ deleted' = deleted \cup {<<s, t>>}
            /\ UNCHANGED applied
  /\ UNCHANGED <<workloadVars, scriptVars, own, active, federated, published, listener,
                 overlooked, faults>>

\* A call of the handler fails: an ERROR is logged, the event is given up.
HandlerFails(s) ==
  /\ Alive /\ events[s] # <<>> /\ Fault
  /\ events' = [events EXCEPT ![s] = Tail(@)]
  /\ UNCHANGED <<workloadVars, scriptVars, spireVars, published, listener, applied, deleted,
                 overlooked>>

-----------------------------------------------------------------------------
(* SPIRE                                                                   *)

\* A taint, or age: the workloads of the server get new SVIDs.
RenewSvids(s) ==
  /\ Alive /\ svid[s] # active[s]
  /\ svid' = [svid EXCEPT ![s] = active[s]]
  /\ UNCHANGED <<processVars, logVars, scriptVars, spireVars, published, listenerVars,
                 overlooked, faults>>

\* The server polls the bundle endpoint of a domain it federates with, as long
\* as the bundle it holds verifies that endpoint. Every five minutes: counted
\* with the faults, since it disturbs what the scripts measure.
RefreshBundle(s, t) ==
  /\ Alive /\ t \in federated[s] /\ svid[t] \in 0..held[s][t] /\ held[s][t] # own[t] /\ Fault
  /\ held' = [held EXCEPT ![s][t] = own[t]]
  /\ UNCHANGED <<workloadVars, scriptVars, own, active, federated, entry, published,
                 listenerVars, overlooked>>

Offered(w) == [t \in Server |-> IF t \in entry[w] THEN held[w[1]][t] ELSE Missing]

\* The agent delivers the bundle sets that have changed, and the first one.
Deliverable(w) == IF Unseen(w) THEN {view[w], Offered(w)} ELSE {Offered(w)} \ {view[w]}

DeliverBundles(w) ==
  /\ Alive /\ stage[w] # "off"
  /\ \E bundles \in Deliverable(w) :
       /\ OnX509BundlesUpdate(w, bundles)
       /\ overlooked' = IF script.op = "rotation" /\ script.num \in Updated(w, bundles)
                           /\ (~ Finished(w) \/ Max(Updated(w, bundles)) # script.num)
                        THEN overlooked \cup {w} ELSE overlooked
  /\ UNCHANGED <<scriptVars, spireVars, published, listenerVars, faults>>

-----------------------------------------------------------------------------
(* The workloads                                                           *)

SendsBy(w) ==
  \/ PeriodicSend(w, Dials(w, Min(todo[w]))) /\ UNCHANGED faults
  \/ PeriodicSend(w, FALSE) /\ Dials(w, Min(todo[w])) /\ Fault

\* A goroutine that ends before event_fired leaves no fresh marker.
TalkedAgain(w, i) ==
  /\ CommunicatedAgain(w, i)
  /\ overlooked' = IF script.op = "rotation" /\ script.step # "poll"
                      /\ again[w][i].target = script.num
                   THEN overlooked \cup {w} ELSE overlooked

\* What a workload does by itself leaves scripts, stores and listeners alone.
ByItself == Alive /\ UNCHANGED <<scriptVars, spireVars, published, listenerVars>>

Works(w) ==
  \/ \E p \in todo[w] : Talk(w, p) /\ ByItself /\ UNCHANGED <<overlooked, faults>>
  \/ InternalDone(w) /\ ByItself /\ UNCHANGED <<overlooked, faults>>
  \/ MeshDone(w) /\ ByItself /\ UNCHANGED <<overlooked, faults>>
  \/ \E i \in DOMAIN again[w] :
       \/ \E p \in again[w][i].todo :
            TalkAgain(w, i, p) /\ ByItself /\ UNCHANGED <<overlooked, faults>>
       \/ TalkedAgain(w, i) /\ ByItself /\ UNCHANGED faults
  \/ todo[w] # {} /\ SendsBy(w) /\ ByItself /\ UNCHANGED overlooked
  \/ RoundDone(w) /\ ByItself /\ UNCHANGED <<overlooked, faults>>

ScriptStep ==
  \/ SetupNClusters \/ SetupNewCluster \/ StartListeners \/ PostBundles \/ PutBundle
  \/ FetchBundles \/ CreateFederations \/ UpdateRegistrationEntries \/ EntryRefused
  \/ PrepareX509Authority \/ ActivateX509Authority \/ RecordEventFired
  \/ KillForRestart \/ RestartWorkloads \/ RecordRemovalStart \/ DeleteBundle
  \/ CleanLocalEntry \/ EntriesClean \/ PollUntil

Next ==
  \/ ScriptStep \/ CommandFails \/ PollTimesOut
  \/ RunAddition \/ RunRotation \/ RunRemoval
  \/ \E s \in Server : Subscribe(s) \/ HandleEvent(s) \/ HandlerFails(s) \/ RenewSvids(s)
  \/ \E s \in Server : \E t \in Server : RefreshBundle(s, t)
  \/ \E w \in Workload : DeliverBundles(w) \/ Works(w)

Spec == ScriptsInit /\ [][Next]_vars

\* Whatever the script, a listener, an agent or a goroutine of the mesh can do,
\* something of it is done: nobody has to be favoured. A poll does not go on for
\* ever. Nothing makes an operator start another script.
Progress ==
  \/ ScriptStep
  \/ \E s \in Server : Subscribe(s) \/ HandleEvent(s)
  \/ \E w \in Workload : DeliverBundles(w) \/ Works(w)

FairSpec == Spec /\ WF_vars(Progress) /\ WF_vars(PollTimesOut)
-----------------------------------------------------------------------------
(* Properties                                                              *)

Measured(op) == script.op = op /\ script.step = "measured"
Trusts(w, s) == HandleConnection(w, s)

\* When measure_creation_end is satisfied, every workload of every founder
\* verifies every other founder's certificates, so that any two of them can
\* connect whichever side verifies first, although what was counted are dials.
CreationIsMutual ==
  Measured("creation") => \A w \in Workload : \A s \in Founder \ {w[1]} :
                            w[1] \in Founder => Trusts(w, s)

\* When measure_rotation_end is satisfied, the store of every peer that was
\* polled holds the rotated server's new bundle, whatever older event its
\* listener handled on the way; its workloads have it too, unless SPIRE's own
\* refresh had brought it first and the listener put the old one back.
RotationHasArrived ==
  Measured("rotation") => \A w \in PeerWorkload :
    /\ held[w[1]][script.num] = own[script.num]
    /\ faults > 0 \/ view[w][script.num] = own[script.num]

\* When measure_removal_end is satisfied, no peer's store holds the removed
\* server's bundle, no agent will offer it, the removed workloads have stopped
\* sending and, unless a dial timed out, could not reach anybody.
RemovalIsSilence ==
  Measured("removal") =>
    /\ \A w \in PeerWorkload : held[w[1]][script.num] = Missing /\ script.num \notin entry[w]
    /\ \A w \in Of(script.num) :
         /\ stage[w] = "silent"
         /\ faults > 0 \/ \A s \in Peers : ~ Trusts(w, s)

\* While a rotation is being polled for, a peer's workload has its fresh
\* marker, is dialling, or has yet to be given the bundle. The exceptions are
\* its cause to fail: an entry that does not federate with the server, and an
\* update that the workload had done with before event_fired was written, or
\* saw together with a later server's.
StallsAreExplained ==
  At("rotation", "poll") => \A w \in PeerWorkload :
    \/ remeshed[w] > 0
    \/ \E i \in DOMAIN again[w] : again[w][i].target = script.num
    \/ view[w][script.num] # own[script.num]
    \/ script.num \notin entry[w]
    \/ w \in overlooked

\* Unless a command of the script fails, every founder's workload gets to dial
\* every workload of the other founders, whether or not the script still waits
\* for it: the mesh does not hang on the order in which clusters, bundles,
\* federations and entries come up, nor on an event.
MeshCompletes ==
  <>(script.step = "failed" \/ \A w \in Workload : w[1] \in Founder => w \in meshed)

\* When measure_addition_end is satisfied, every workload of the new server
\* verifies every founder's certificates, although the markers are looked for in
\* logs that others write too and the entries are updated last.
AdditionReachesAll ==
  Measured("addition") => \A v \in Of(script.num) : \A s \in Founder : Trusts(v, s)

\* As measure_addition_end puts it, the success of the dials proves that trust
\* was established in both directions for every pair with the new cluster.
AdditionIsMutual ==
  Measured("addition") => \A v \in Of(script.num) : \A w \in Workload :
    w[1] \in Founder => Trusts(v, w[1]) /\ Trusts(w, v[1])

\* What it proves is one direction: no founder's workload verifies the new
\* server, since no entry but the new server's is updated.
AdditionIsOneWay ==
  Measured("addition") => \A w \in Workload : w[1] \in Founder => ~ Trusts(w, script.num)
=============================================================================
