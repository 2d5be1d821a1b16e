---------------------------- MODULE OAuthDrivers ----------------------------
(***************************************************************************)
(* The measurement scripts of the OAuth variants around one workload       *)
(* domain: its set-up and registration (1_run_creation, 2_run_addition),   *)
(* the rotation of its key (3_rotate_key) and its removal (4_run_removal). *)
(* The scripts talk to the workload over HTTP and poll the realms of the   *)
(* peers, while the listeners change these realms in their own time.       *)
(***************************************************************************)
EXTENDS OAuthWorkload

VARIABLES
  step,     \* where the running script is
  adding,   \* the script is 2_run_addition: the federation exists already
  record,   \* what the metadata repository holds of this domain
  todo,     \* peers the current step still has to deal with
  waiting,  \* per peer, the call whose answer the script waits for
  anySuccess,  \* a call of the current polling round was answered 200
  cleaned,  \* per peer, when the removal was found done
  zero      \* t_zero, whether communication was found to have stopped

driverVars == <<step, adding, record, todo, waiting, anySuccess, cleaned, zero>>
vars == <<workloadVars, environmentVars, driverVars>>

SetUpSteps == {"backend", "keycloak", "ready", "realm", "clients", "files", "listener",
               "workloads", "register"}
MeshSteps == {"mesh", "remesh"}
Step == SetUpSteps \cup MeshSteps \cup
        {"await", "meshed", "notify", "propagate", "rotated", "warm", "delete",
         "check", "round", "removed", "failed"}

DriversTypeOK ==
  /\ TypeOK
  /\ step \in Step /\ adding \in BOOLEAN
  /\ record \in {"none", "registered", "notified", "removed"}
  /\ todo \subseteq Peer
  /\ waiting \in [Peer -> Call \cup {Nobody}]
  /\ anySuccess \in BOOLEAN
  /\ cleaned \in [Peer -> 0..Never] /\ zero \in BOOLEAN

DriversInit ==
  /\ Init
  /\ adding \in BOOLEAN
  /\ step = IF adding THEN "keycloak" ELSE "backend"
  /\ record = "none" /\ todo = {}
  /\ waiting = [p \in Peer |-> Nobody]
  /\ anySuccess = FALSE
  /\ cleaned = [p \in Peer |-> Never] /\ zero = FALSE

\* sys.exit(1) or an exception: nobody waits for the answers any more.
Exit ==
  /\ step' = "failed"
  /\ todo' = {} /\ waiting' = [p \in Peer |-> Nobody] /\ anySuccess' = FALSE
  /\ UNCHANGED <<adding, record, cleaned>>

Fails(s) ==
  /\ step = s /\ Fault
  /\ Exit
  /\ UNCHANGED <<workloadVars, now, noIntrospection, realmVars, zero>>

Goto(s) == step' = s /\ UNCHANGED <<adding, record, waiting, cleaned, zero>>

-----------------------------------------------------------------------------
(* Set-up                                                                  *)

\* A stage of the set-up: done, or raising, which ends the script.
Stage(from, to) ==
  \/ /\ step = from /\ Goto(to)
     /\ UNCHANGED <<workloadVars, environmentVars, todo, anySuccess>>
  \/ Fails(from)

StartHardhatNode == Stage("backend", "keycloak")
StartKeycloak == Stage("keycloak", "ready")
WaitReady == Stage("ready", "realm")
CreateRealm == Stage("realm", "clients")
CreateServiceAccountClient == Stage("clients", "files")

\* The empty peers file is written before the listener starts.
WriteEmptyPeersFile ==
  /\ step = "files" /\ Goto("listener")
  /\ PeersFileChanges({})
  /\ UNCHANGED <<todo, anySuccess>>

StartListener == Stage("listener", "workloads")
StartWorkload == Stage("workloads", "register")

SelfRegister ==
  \/ /\ step = "register" /\ step' = "await"
     /\ record' = "registered"
     /\ todo' = Peer
     /\ UNCHANGED <<workloadVars, environmentVars, adding, waiting, anySuccess,
                    cleaned, zero>>
  \/ Fails("register")

\* The provider is created first: its client may still be missing.
WaitPeerRegisteredAt(p) ==
  /\ step = "await" /\ p \in todo /\ realm[p] # "absent"
  /\ todo' = IF todo = {p} THEN Peer ELSE todo \ {p}
  /\ Goto(IF todo = {p} THEN "mesh" ELSE "await")
  /\ UNCHANGED <<workloadVars, environmentVars, anySuccess>>

\* A script gives up waiting. The mesh of an addition never does.
GiveUp ==
  /\ \/ step \in {"await", "propagate", "remesh"}
     \/ step = "mesh" /\ ~ adding
  /\ Exit /\ Fault
  /\ UNCHANGED <<workloadVars, now, noIntrospection, realmVars, zero>>

-----------------------------------------------------------------------------
(* Calls                                                                   *)

\* call_pair: POST /call, unless the pair is waiting for an earlier one.
CallPair(p) ==
  /\ step \in MeshSteps \cup {"warm", "round"}
  /\ p \in todo /\ waiting[p] = Nobody
  /\ step \in MeshSteps \/ \A q \in Peer : waiting[q] = Nobody
  /\ \E c \in Call : Receive(c, p) /\ waiting' = [waiting EXCEPT ![p] = c]
  /\ UNCHANGED <<step, adding, record, todo, anySuccess, cleaned, zero>>

\* The answer arrives, or the script stops waiting and the call goes on alone.
\* The mesh repeats a pair until it succeeds; the removal calls it once.
PairReturns(p) ==
  /\ waiting[p] # Nobody
  /\ \/ call[waiting[p]].pc = "answered" /\ UNCHANGED faults
     \/ call[waiting[p]].pc # "answered" /\ Fault
  /\ LET ok == call[waiting[p]].status = 200 IN
       /\ waiting' = [waiting EXCEPT ![p] = Nobody]
       /\ todo' = IF ok \/ step \notin MeshSteps THEN todo \ {p} ELSE todo
       /\ call' = IF call[waiting[p]].pc = "answered"
                  THEN [call EXCEPT ![waiting[p]] = Gone] ELSE call
       /\ anySuccess' = (anySuccess \/ (ok /\ step = "round"))
  /\ UNCHANGED <<ownToken, ownTokenMu, exchange, metaCache, now, noIntrospection, realmVars,
                 step, adding, record, cleaned, zero>>

DriveFullMesh ==
  /\ step \in MeshSteps /\ todo = {}
  /\ step' = IF step = "mesh" THEN "meshed" ELSE "rotated"
  /\ adding' = FALSE /\ anySuccess' = FALSE
  /\ UNCHANGED <<workloadVars, environmentVars, record, todo, waiting, cleaned, zero>>

-----------------------------------------------------------------------------
(* Rotation                                                                *)

\* The script waits until the new kid is the active one.
Rotate ==
  /\ step = "meshed" /\ Goto("notify")
  /\ RotateSigningKey
  /\ UNCHANGED <<todo, anySuccess>>

NotifyKeyRotated ==
  \/ /\ step = "notify" /\ step' = "propagate"
     /\ record' = "notified"
     /\ todo' = Peer
     /\ UNCHANGED <<workloadVars, environmentVars, adding, waiting, anySuccess,
                    cleaned, zero>>
  \/ Fails("notify")

\* Mutant: a peer counts as reached although its realm refused the token.
ExchangeTried(p) ==
  /\ step = "propagate" /\ p \in todo
  /\ todo' = IF todo = {p} THEN Peer ELSE todo \ {p}
  /\ Goto(IF todo = {p} THEN "remesh" ELSE "propagate")
  /\ UNCHANGED <<workloadVars, environmentVars, anySuccess>>

\* The script exchanges a token minted for the purpose, outside the workload.
TryExchangeAtPeer(p) ==
  /\ step = "propagate" /\ p \in todo
  /\ realm[p] = "open" /\ signing \in Known(p)
  /\ knows' = [knows EXCEPT ![p] = Known(p)]
  /\ todo' = IF todo = {p} THEN Peer ELSE todo \ {p}
  /\ Goto(IF todo = {p} THEN "remesh" ELSE "propagate")
  /\ UNCHANGED <<workloadVars, now, noIntrospection, peersFile, signing, realm,
                 faults, anySuccess>>

-----------------------------------------------------------------------------
(* Removal                                                                 *)

\* The caches are warmed with one call per peer, whatever comes of it.
StartRemoval ==
  /\ step = "meshed" /\ Goto("warm")
  /\ todo' = Peer
  /\ UNCHANGED <<workloadVars, environmentVars, anySuccess>>

Warmed ==
  /\ step = "warm" /\ todo = {} /\ Goto("delete")
  /\ UNCHANGED <<workloadVars, environmentVars, todo, anySuccess>>

Uncleaned == {p \in Peer : cleaned[p] = Never}

Delete ==
  \/ /\ step = "delete" /\ step' = "check"
     /\ record' = "removed"
     /\ todo' = Uncleaned
     /\ UNCHANGED <<workloadVars, environmentVars, adding, waiting, anySuccess,
                    cleaned, zero>>
  \/ Fails("delete")

\* Mutant: a disabled provider is enough.
ProviderDisabled(p) == realm[p] \in {"absent", "idpDisabled", "notBefore", "closed"}

\* Disabled provider, disabled client and notBefore; a provider that is not
\* there counts as clean.
PeerStateClean(p) == realm[p] \in {"absent", "closed"}

CheckPeer(p) ==
  /\ step = "check" /\ p \in todo
  /\ todo' = todo \ {p}
  /\ cleaned' = IF PeerStateClean(p) THEN [cleaned EXCEPT ![p] = now] ELSE cleaned
  /\ UNCHANGED <<workloadVars, environmentVars, step, adding, record, waiting, anySuccess, zero>>

\* Unless t_zero is known already, one call per peer follows.
Checked ==
  /\ step = "check" /\ todo = {}
  /\ todo' = IF zero THEN {} ELSE Peer
  /\ anySuccess' = FALSE
  /\ Goto("round")
  /\ UNCHANGED <<workloadVars, environmentVars>>

\* The first round without a success sets t_zero, whatever made it fail.
EndOfRound ==
  /\ step = "round" /\ todo = {}
  /\ zero' = (zero \/ ~ anySuccess)
  /\ IF Uncleaned = {} /\ zero'
     THEN step' = "removed" /\ UNCHANGED todo
     ELSE step' = "check" /\ todo' = Uncleaned
  /\ UNCHANGED <<workloadVars, environmentVars, adding, record, waiting, anySuccess,
                 cleaned>>

\* At the deadline a missing t_zero is recorded as the current time.
Deadline ==
  /\ step = "check" /\ Exit /\ Fault
  /\ zero' = (zero \/ Uncleaned = {})
  /\ UNCHANGED <<workloadVars, now, noIntrospection, realmVars>>

RunRemoval ==
  \/ StartRemoval \/ Warmed \/ Delete
  \/ \E p \in Peer : CheckPeer(p)
  \/ Checked \/ EndOfRound \/ Deadline

-----------------------------------------------------------------------------
(* The listeners, and the whole                                            *)

\* The own listener adds the peers to its file; a peer's reacts to what the
\* repository says of this domain.
Listeners ==
  /\ \/ /\ step \notin SetUpSteps
        /\ \/ peersFile # {Torn} /\ peersFile # Peer /\ PeersFileChanges({Torn})
           \/ peersFile = {Torn} /\ PeersFileChanges(Peer)
     \/ \E p \in Peer :
          \/ record \in {"registered", "notified"} /\ RealmFollows(p, "absent", "idp")
          \/ RealmFollows(p, "idp", "open")
          \/ record = "removed" /\ \/ RealmFollows(p, "open", "idpDisabled")
                                   \/ RealmFollows(p, "idpDisabled", "notBefore")
                                   \/ RealmFollows(p, "notBefore", "closed")
          \/ ReloadKeys(p)
  /\ UNCHANGED driverVars

Workload == (\E c \in Call : HandleCall(c)) /\ UNCHANGED driverVars

\* The clock starts when the domain is set up.
Clock == step \notin SetUpSteps /\ Tick /\ UNCHANGED driverVars

SetUp ==
  \/ StartHardhatNode \/ StartKeycloak \/ WaitReady \/ CreateRealm
  \/ CreateServiceAccountClient \/ WriteEmptyPeersFile \/ StartListener \/ StartWorkload
  \/ SelfRegister

Script ==
  \/ SetUp \/ GiveUp \/ DriveFullMesh \/ Rotate \/ NotifyKeyRotated \/ RunRemoval
  \/ \E p \in Peer : \/ WaitPeerRegisteredAt(p) \/ CallPair(p) \/ PairReturns(p)
                     \/ TryExchangeAtPeer(p)

DriversNext == Script \/ Listeners \/ Workload \/ Clock
DriversSpec == DriversInit /\ [][DriversNext]_vars

-----------------------------------------------------------------------------
(* Properties                                                              *)

\* From when the removal script counts a peer as clean on, that peer accepts
\* no call of the removed domain; without introspection, none once a token's
\* life has passed.
CleanIsShut ==
  [][\A c \in Call :
       call[c].pc = "peer" /\ call'[c].status = 200 =>
         now <= cleaned[call[c].peer] + (IF noIntrospection THEN Life - 1 ELSE 0)
    ]_workloadVars

\* Once the script has recorded that the rotation has propagated, every peer
\* accepts a token signed with the new key.
PropagatedIsAccepted ==
  step \in {"remesh", "rotated"} => \A p \in Peer : signing \in knows[p]
=============================================================================
