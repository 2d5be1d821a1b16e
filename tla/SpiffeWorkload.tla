--------------------------- MODULE SpiffeWorkload ---------------------------
(***************************************************************************)
(* The example workload of the SPIFFE variants (src/example-workload).     *)
(* Every server runs Size of them. A workload first dials its siblings,    *)
(* then every workload of the other servers; afterwards it watches the     *)
(* bundles that its agent delivers and dials a server again whose bundle   *)
(* has changed. Restarted for a removal it skips the mesh and sends        *)
(* periodically, until a whole round of sends fails.                       *)
(*                                                                         *)
(* A bundle is the number of its newest authority: older authorities stay  *)
(* in it, so bundle b verifies what authority a signed iff a <= b.         *)
(***************************************************************************)
EXTENDS Integers, Sequences, SequencesExt, FiniteSets, FiniteSetsExt

CONSTANTS
  MaxServer,   \* highest server number
  Size,        \* workloads per server, 4 in the code
  ListenBase,  \* first workload port of server 1 in set_up_cluster.sh
  DialBase,    \* first workload port of server 1 in main.go
  MaxVersion,  \* bound: rotations of one server
  MaxMarks     \* bound: end markers counted per workload

ASSUME SizesAssumption ==
  /\ MaxServer \in Nat \ {0} /\ Size \in 1..4
  /\ ListenBase \in Nat /\ DialBase \in 0..ListenBase
  /\ MaxVersion \in Nat /\ MaxMarks \in Nat \ {0}

Server == 1..MaxServer
Workload == Server \X (0..Size - 1)
Missing == -1
Version == Missing..MaxVersion
NoBundles == [t \in Server |-> Missing]
Of(s) == {w \in Workload : w[1] = s}

VARIABLES
  stage,     \* per workload, where its main goroutine is
  todo,      \* ports the stage has yet to reach
  reach,     \* maxServerNumber
  allFailed, \* of the current round of periodic sends
  again,     \* running communicateAgainAfterKeyRotation goroutines
  view,      \* the bundle set that the agent hands out, to a dial and to the watcher
  previous,  \* previousBundleSerials
  svid,      \* per server, the authority that signed its current SVIDs
  meshed,    \* logs with "All messages sent"
  remeshed,  \* "Finished special communication" lines since event_fired
  sent,      \* logs with a periodic_send_success since removal_start
  silent     \* logs with zero_communication_achieved

processVars == <<stage, todo, reach, allFailed, again, view, previous>>
logVars == <<meshed, remeshed, sent, silent>>
workloadVars == <<processVars, svid, logVars>>

Stage == {"off", "internal", "external", "idle", "periodic", "silent"}
Finished(w) == stage[w] \in {"idle", "periodic", "silent"}  \* experiementFinished

-----------------------------------------------------------------------------
(* Ports                                                                   *)

\* The ports that set_up_cluster.sh gives the workloads, and, below them in
\* the block of six, SPIRE's own two.
Port(w) == ListenBase + (w[1] - 1) * 6 + w[2]
SpirePorts(s) == LET first == ListenBase + (s - 1) * 6 IN {first - 2, first - 1}

\* The other ports of the block that the workload believes to be in.
MakeArray(port) ==
  LET base == DialBase + ((port - DialBase) \div 6) * 6
  IN  (base .. base + Size - 1) \ {port}

GetPortsForServer(s) == LET base == DialBase + (s - 1) * 6 IN base .. base + Size - 1

GenerateExternalPorts(me, max) == UNION {GetPortsForServer(s) : s \in (1..max) \ {me}}

DialPorts == DialBase .. ListenBase + MaxServer * 6

WorkloadTypeOK ==
  /\ stage \in [Workload -> Stage]
  /\ \A w \in Workload : todo[w] \subseteq DialPorts
  /\ reach \in [Workload -> 0..MaxServer] /\ allFailed \in [Workload -> BOOLEAN]
  /\ \A w \in Workload : \A i \in DOMAIN again[w] :
       again[w][i].target \in Server \ {w[1]} /\ again[w][i].todo \subseteq DialPorts
  /\ view \in [Workload -> [Server -> Version]]
  /\ previous \in [Workload -> [Server -> Version]]
  /\ svid \in [Server -> 0..MaxVersion]
  /\ meshed \subseteq Workload /\ sent \subseteq Workload /\ silent \subseteq Workload
  /\ remeshed \in [Workload -> 0..MaxMarks]

WorkloadInit ==
  /\ stage = [w \in Workload |-> "off"]
  /\ todo = [w \in Workload |-> {}]
  /\ reach = [w \in Workload |-> 0]
  /\ allFailed = [w \in Workload |-> TRUE]
  /\ again = [w \in Workload |-> <<>>]
  /\ view = [w \in Workload |-> NoBundles]
  /\ previous = [w \in Workload |-> NoBundles]
  /\ svid = [s \in Server |-> 0]
  /\ meshed = {} /\ sent = {} /\ silent = {}
  /\ remeshed = [w \in Workload |-> 0]

-----------------------------------------------------------------------------
(* Connections                                                             *)

\* The certificates of s chain up to an authority that w was given.
Verifies(w, s) == s = w[1] \/ svid[s] \in 0..view[w][s]

\* Server s, or a workload of it, accepts connections on the port.
Listens(s, port) ==
  /\ \E w \in Of(s) : stage[w] # "off"
  /\ port \in SpirePorts(s) \cup {Port(w) : w \in {v \in Of(s) : stage[v] # "off"}}

\* TLS 1.3: a dial returns when the dialling side has verified the peer. The
\* peer's verdict on the client certificate comes afterwards.
Dials(w, port) == \E s \in Server : Listens(s, port) /\ Verifies(w, s)

\* The accepting side reads the message only if it verifies the client.
HandleConnection(w, from) == Verifies(w, from)

-----------------------------------------------------------------------------
(* The initial mesh                                                        *)

\* The workloads of a server come up, with or without SKIP_INITIAL_MESH. The
\* agent has not been restarted with them: its bundles serve the first dial.
StartWorkloads(s, max, skip) ==
  LET mine == Of(s) IN
    /\ stage' = [w \in Workload |-> IF w \notin mine THEN stage[w]
                                    ELSE IF skip THEN "periodic" ELSE "internal"]
    /\ todo' = [w \in Workload |-> IF w \notin mine THEN todo[w]
                                   ELSE IF skip THEN GenerateExternalPorts(s, max)
                                   ELSE MakeArray(Port(w))]
    /\ reach' = [w \in Workload |-> IF w \in mine THEN max ELSE reach[w]]
    /\ allFailed' = [w \in Workload |-> w \in mine \/ allFailed[w]]
    /\ again' = [w \in Workload |-> IF w \in mine THEN <<>> ELSE again[w]]
    /\ previous' = [w \in Workload |-> IF w \in mine THEN NoBundles ELSE previous[w]]
    /\ UNCHANGED <<view, svid>>

KillWorkloads(s) ==
  /\ stage' = [w \in Workload |-> IF w[1] = s THEN "off" ELSE stage[w]]
  /\ todo' = [w \in Workload |-> IF w[1] = s THEN {} ELSE todo[w]]
  /\ again' = [w \in Workload |-> IF w[1] = s THEN <<>> ELSE again[w]]
  /\ UNCHANGED <<reach, allFailed, view, previous, svid>>

\* A dial that fails is repeated every 500 ms, for ever.
Talk(w, port) ==
  /\ stage[w] \in {"internal", "external"}
  /\ port \in todo[w] /\ Dials(w, port)
  /\ todo' = [todo EXCEPT ![w] = @ \ {port}]
  /\ UNCHANGED <<stage, reach, allFailed, again, view, previous, svid, logVars>>

InternalDone(w) ==
  /\ stage[w] = "internal" /\ todo[w] = {}
  /\ stage' = [stage EXCEPT ![w] = "external"]
  /\ todo' = [todo EXCEPT ![w] = GenerateExternalPorts(w[1], reach[w])]
  /\ UNCHANGED <<reach, allFailed, again, view, previous, svid, logVars>>

MeshDone(w) ==
  /\ stage[w] = "external" /\ todo[w] = {}
  /\ stage' = [stage EXCEPT ![w] = "idle"]
  /\ meshed' = meshed \cup {w}
  /\ UNCHANGED <<todo, reach, allFailed, again, view, previous, svid, remeshed, sent, silent>>

-----------------------------------------------------------------------------
(* The bundle watcher                                                      *)

WatchedShort(w) == (1..reach[w] - 1) \ {w[1]}
Watched(w) == (1..reach[w]) \ {w[1]}

\* The servers whose serial numbers differ from the ones last seen; a bundle
\* that is seen for the first time is no update.
Updated(w, bundles) ==
  {t \in Watched(w) : Missing \notin {bundles[t], previous[w][t]} /\ bundles[t] # previous[w][t]}

\* A watcher that was restarted has yet to hear of the agent's bundles.
Unseen(w) == \E t \in Watched(w) : view[w][t] # Missing /\ previous[w][t] = Missing

\* Only the last server of the loop is dialled again, and only by a workload
\* that is past its mesh; the serial numbers are remembered all the same.
OnX509BundlesUpdate(w, bundles) ==
  /\ stage[w] # "off"
  /\ view' = [view EXCEPT ![w] = bundles]
  /\ previous' = [previous EXCEPT ![w] =
       [t \in Server |-> IF t \in Watched(w) /\ bundles[t] # Missing THEN bundles[t] ELSE @[t]]]
  /\ again' = IF Updated(w, bundles) # {} /\ Finished(w)
              THEN LET last == Max(Updated(w, bundles)) IN
                     [again EXCEPT ![w] =
                        Append(@, [target |-> last, todo |-> GetPortsForServer(last)])]
              ELSE again
  /\ UNCHANGED <<stage, todo, reach, allFailed, svid, logVars>>

TalkAgain(w, i, port) ==
  /\ port \in again[w][i].todo /\ Dials(w, port)
  /\ again' = [again EXCEPT ![w][i].todo = @ \ {port}]
  /\ UNCHANGED <<stage, todo, reach, allFailed, view, previous, svid, logVars>>

CommunicatedAgain(w, i) ==
  /\ again[w][i].todo = {} /\ remeshed[w] < MaxMarks
  /\ again' = [again EXCEPT ![w] = RemoveAt(@, i)]
  /\ remeshed' = [remeshed EXCEPT ![w] = @ + 1]
  /\ UNCHANGED <<stage, todo, reach, allFailed, view, previous, svid, meshed, sent, silent>>

-----------------------------------------------------------------------------
(* Periodic sends                                                          *)

\* The next target of the round; a dial gives up after two seconds.
PeriodicSend(w, reached) ==
  /\ stage[w] = "periodic" /\ todo[w] # {}
  /\ todo' = [todo EXCEPT ![w] = @ \ {Min(@)}]
  /\ allFailed' = [allFailed EXCEPT ![w] = @ /\ ~ reached]
  /\ sent' = IF reached THEN sent \cup {w} ELSE sent
  /\ UNCHANGED <<stage, reach, again, view, previous, svid, meshed, remeshed, silent>>

\* A round that failed throughout ends the sends for good.
RoundDone(w) ==
  /\ stage[w] = "periodic" /\ todo[w] = {}
  /\ IF allFailed[w]
     THEN /\ stage' = [stage EXCEPT ![w] = "silent"]
          /\ silent' = silent \cup {w}
          /\ UNCHANGED <<todo, allFailed>>
     ELSE /\ todo' = [todo EXCEPT ![w] = GenerateExternalPorts(w[1], reach[w])]
          /\ allFailed' = [allFailed EXCEPT ![w] = TRUE]
          /\ UNCHANGED <<stage, silent>>
  /\ UNCHANGED <<reach, again, view, previous, svid, meshed, remeshed, sent>>
=============================================================================
