--------------------------- MODULE OAuthListener ---------------------------
(***************************************************************************)
(* One OAuth listener process and the Keycloak realm it administers, under *)
(* an arbitrary transport: which events arrive, and what the first listing *)
(* of the repository holds, is left to the modules that compose this one   *)
(* with the metadata repository (OAuthCentral) and with the contract       *)
(* (OAuthLedger).                                                          *)
(*                                                                         *)
(* Every admin call may fail, before or after Keycloak has done the work.  *)
(* A failure during the first listing ends the process; in the event loop  *)
(* it is logged and the event is given up.                                 *)
(***************************************************************************)
EXTENDS OAuthDomains, Naturals, Sequences

CONSTANTS
  Own,        \* the domain of this listener
  Torn,       \* the only "entry" of the peers file while it is rewritten
  MaxFaults   \* bound on failing calls, the token's end included

ASSUME OwnAssumption == Own \in Domain
ASSUME TornAssumption == Torn \notin Domain
ASSUME FaultsAssumption == MaxFaults \in Nat

VARIABLES
  phase,      \* where the process is
  token,      \* the admin token: fetched once, never refreshed
  todo,       \* listed domains that are still to be backfilled
  job,        \* the handler that runs, and which of its admin calls is next
  seen,       \* seen, which is also the key set of peers
  peersFile,  \* the file the domain's workloads read
  realm,      \* per peer, its identity provider and its exchange client
  harmed,     \* history: peers for which a handler was cut short or refused
  faults      \* calls that failed so far, and the token's end

listenerVars == <<phase, token, todo, job, seen, peersFile, realm, harmed, faults>>

Phase == {"starting", "subscribing", "listing", "backfill", "listening", "dead"}
EventType == {"domain_added", "domain_removed", "key_rotated"}
State == {"absent", "enabled", "disabled"}

\* What a realm holds for a peer: provider and client <fid>-<peer>, whether
\* the client's policy is bound to the exchange permission of the provider,
\* whether notBefore is set, and the provider's copy of the peer's keys.
Entry == [idp: State, client: State, granted: BOOLEAN, notBefore: BOOLEAN,
          keys: {"none", "fresh", "stale"}]

Blank == [idp |-> "absent", client |-> "absent", granted |-> FALSE,
          notBefore |-> FALSE, keys |-> "none"]

\* How many admin calls each handler makes.
Calls == [domain_added |-> 3, domain_removed |-> 3, key_rotated |-> 1]

NoJob == [type |-> "none", peer |-> Own, at |-> 0]
Writing == [type |-> "write_peers_file", peer |-> Own, at |-> 0]

ListenerTypeOK ==
  /\ phase \in Phase
  /\ token \in {"none", "valid", "expired"}
  /\ todo \in Seq(Domain)
  /\ job \in [type: EventType, peer: Domain, at: 1..4] \cup {NoJob, Writing}
  /\ seen \subseteq Domain
  /\ peersFile \in (SUBSET Domain) \cup {{Torn}}
  /\ realm \in [Domain -> Entry]
  /\ harmed \subseteq Domain
  /\ faults \in Nat

\* setup_domain leaves an empty peers file for the listener to replace.
ListenerInit ==
  /\ phase = "starting"
  /\ token = "none"
  /\ todo = << >>
  /\ job = NoJob
  /\ seen = {}
  /\ peersFile = {}
  /\ realm = [d \in Domain |-> Blank]
  /\ harmed = {}
  /\ faults = 0

-----------------------------------------------------------------------------
(* Admin calls                                                             *)

\* A handler that raises is logged and its event forgotten; during the
\* backfill nothing catches the exception and the process ends.
Raise ==
  /\ phase' = IF phase = "backfill" THEN "dead" ELSE phase
  /\ job' = NoJob
  /\ harmed' = harmed \cup {job.peer}
  /\ UNCHANGED <<token, todo, seen, peersFile>>

\* Call number i of a handler, which leaves the peer's entry as "after".
\* It succeeds; or it fails, having done its work or not; or Keycloak turns
\* the expired token away.
Call(type, i, after) ==
  LET done == [realm EXCEPT ![job.peer] = after]
  IN  /\ job.type = type /\ job.at = i /\ job.peer # Own
      /\ \/ /\ token = "valid"
            /\ realm' = done
            /\ job' = [job EXCEPT !.at = i + 1]
            /\ UNCHANGED <<phase, token, todo, seen, peersFile, harmed, faults>>
         \/ /\ token = "valid" /\ faults < MaxFaults
            /\ realm' \in {realm, done}
            /\ faults' = faults + 1
            /\ Raise
         \/ /\ token = "expired"
            /\ Raise
            /\ UNCHANGED <<realm, faults>>

Subject == realm[job.peer]

\* POST of a provider or a client: 409 counts as success and changes nothing.
CreateIdpAlias ==
  Call("domain_added", 1,
       IF Subject.idp = "absent" THEN [Subject EXCEPT !.idp = "enabled", !.keys = "none"]
                                 ELSE Subject)

CreatePublicExchangeClient ==
  Call("domain_added", 2,
       IF Subject.client = "absent" THEN [Subject EXCEPT !.client = "enabled"] ELSE Subject)

\* Six requests, of which the last binds the policy. A failure of an earlier
\* one leaves nothing the next attempt would trip over.
AllowClientToExchange ==
  Call("domain_added", 3, [Subject EXCEPT !.granted = TRUE])

\* A provider that was never created (404) is left alone.
DisableIdp ==
  Call("domain_removed", 1,
       IF Subject.idp = "absent" THEN Subject ELSE [Subject EXCEPT !.idp = "disabled"])

SetClientNotBefore ==
  Call("domain_removed", 2,
       IF Subject.client = "absent" THEN Subject ELSE [Subject EXCEPT !.notBefore = TRUE])

DisableClient ==
  Call("domain_removed", 3,
       IF Subject.client = "absent" THEN Subject ELSE [Subject EXCEPT !.client = "disabled"])

\* Keycloak answers something other than 200: reload_idp_keys returns False,
\* nobody looks at it and the handler goes on as if the keys were reloaded.
ReloadRefused ==
  /\ job.type = "key_rotated" /\ job.at = 1 /\ job.peer # Own
  /\ \/ token = "expired" /\ UNCHANGED faults
     \/ token = "valid" /\ faults < MaxFaults /\ faults' = faults + 1
  /\ job' = [job EXCEPT !.at = 2]
  /\ harmed' = harmed \cup {job.peer}
  /\ UNCHANGED <<phase, token, todo, seen, peersFile, realm>>

\* Mutant: the provider's cached keys are looked at, not fetched again.
ReloadIdpKeysFromCache ==
  Call("key_rotated", 1, Subject) \/ ReloadRefused

ReloadIdpKeys ==
  \/ Call("key_rotated", 1,
          IF Subject.idp = "absent" THEN Subject ELSE [Subject EXCEPT !.keys = "fresh"])
  \/ ReloadRefused

\* handle_add, handle_remove and handle_key_rotated.
Handle ==
  \/ CreateIdpAlias \/ CreatePublicExchangeClient \/ AllowClientToExchange
  \/ DisableIdp \/ SetClientNotBefore \/ DisableClient
  \/ ReloadIdpKeys

-----------------------------------------------------------------------------
(* The process                                                             *)

\* Fetch the admin token and bump its lifespan to a day; failing ends it.
Start ==
  /\ phase = "starting"
  /\ \/ phase' = "subscribing" /\ token' = "valid" /\ UNCHANGED faults
     \/ /\ faults < MaxFaults
        /\ faults' = faults + 1
        /\ phase' = "dead"
        /\ UNCHANGED token
  /\ UNCHANGED <<todo, job, seen, peersFile, realm, harmed>>

\* A day later the token is void; nothing fetches another.
TokenExpires ==
  /\ token = "valid" /\ phase = "listening" /\ faults < MaxFaults
  /\ token' = "expired"
  /\ faults' = faults + 1
  /\ UNCHANGED <<phase, todo, job, seen, peersFile, realm, harmed>>

Subscribed ==
  /\ phase = "subscribing"
  /\ phase' = "listing"
  /\ UNCHANGED <<token, todo, job, seen, peersFile, realm, harmed, faults>>

\* list_metadata returns.
Listed(listing) ==
  /\ phase = "listing"
  /\ phase' = "backfill"
  /\ todo' = listing
  /\ UNCHANGED <<token, job, seen, peersFile, realm, harmed, faults>>

\* Subscribing or listing raises, and no try catches it.
SetUpFails ==
  /\ phase \in {"subscribing", "listing"} /\ faults < MaxFaults
  /\ phase' = "dead"
  /\ faults' = faults + 1
  /\ UNCHANGED <<token, todo, job, seen, peersFile, realm, harmed>>

Backfill ==
  /\ phase = "backfill" /\ job = NoJob /\ todo # << >>
  /\ todo' = Tail(todo)
  /\ job' = IF Head(todo) = Own \/ Head(todo) \in seen THEN NoJob
            ELSE [type |-> "domain_added", peer |-> Head(todo), at |-> 1]
  /\ UNCHANGED <<phase, token, seen, peersFile, realm, harmed, faults>>

BackfillDone ==
  /\ phase = "backfill" /\ job = NoJob /\ todo = << >>
  /\ phase' = "listening"
  /\ job' = Writing
  /\ peersFile' = {Torn}
  /\ UNCHANGED <<token, todo, seen, realm, harmed, faults>>

\* Mutant: the domain is marked as seen before its handler has run.
DispatchMarksSeen(type, peer) ==
  /\ phase = "listening" /\ job = NoJob
  /\ job' = IF type = "domain_added" /\ peer \in seen THEN NoJob
            ELSE [type |-> type, peer |-> peer, at |-> 1]
  /\ seen' = IF type = "domain_added" THEN seen \cup {peer} ELSE seen
  /\ UNCHANGED <<phase, token, todo, peersFile, realm, harmed, faults>>

\* The loop hands an event to its handler, or skips a domain it has seen.
Dispatch(type, peer) ==
  /\ phase = "listening" /\ job = NoJob
  /\ job' = IF type = "domain_added" /\ peer \in seen THEN NoJob
            ELSE [type |-> type, peer |-> peer, at |-> 1]
  /\ UNCHANGED <<phase, token, todo, seen, peersFile, realm, harmed, faults>>

\* A transport gives an event up for good because a call of its own failed.
EventLost(d) ==
  /\ phase = "listening" /\ job = NoJob /\ faults < MaxFaults
  /\ faults' = faults + 1
  /\ harmed' = harmed \cup {d}
  /\ UNCHANGED <<phase, token, todo, job, seen, peersFile, realm>>

\* A transport has to repeat a call.
TransportRetries ==
  /\ phase = "listening" /\ job = NoJob /\ faults < MaxFaults
  /\ faults' = faults + 1
  /\ UNCHANGED <<phase, token, todo, job, seen, peersFile, realm, harmed>>

\* Mutant: the bookkeeping does not wait for the handler's admin calls.
HandledAtOnce ==
  /\ job.type \in EventType
  /\ seen' = CASE job.type = "domain_added"   -> seen \cup {job.peer}
               [] job.type = "domain_removed" -> seen \ {job.peer}
               [] OTHER                       -> seen
  /\ job' = NoJob
  /\ UNCHANGED <<phase, token, todo, peersFile, realm, harmed, faults>>

\* The handler has returned, at once when the event is about the own domain:
\* seen, peers and the peers file follow, the file only in the loop.
Handled ==
  /\ job.type \in EventType
  /\ job.peer = Own \/ job.at > Calls[job.type]
  /\ seen' = CASE job.type = "domain_added"   -> seen \cup {job.peer}
               [] job.type = "domain_removed" -> seen \ {job.peer}
               [] OTHER                       -> seen
  /\ IF phase = "listening" /\ job.type # "key_rotated"
     THEN job' = Writing /\ peersFile' = {Torn}
     ELSE job' = NoJob /\ UNCHANGED peersFile
  /\ UNCHANGED <<phase, token, todo, realm, harmed, faults>>

\* write_peers_file truncates the file when it opens it and fills it later.
WritePeersFile ==
  /\ job = Writing
  /\ job' = NoJob
  /\ peersFile' = seen
  /\ UNCHANGED <<phase, token, todo, seen, realm, harmed, faults>>

Step ==
  \/ Start \/ Backfill \/ BackfillDone
  \/ Handle \/ Handled \/ WritePeersFile

-----------------------------------------------------------------------------
(* The realm's other users                                                 *)

\* Domain d makes a new key its active one: the copy the realm holds is stale.
RotateSigningKey(d) ==
  /\ realm' = [realm EXCEPT ![d].keys = IF @ = "fresh" THEN "stale" ELSE @]
  /\ UNCHANGED <<phase, token, todo, job, seen, peersFile, harmed, faults>>

\* A workload of the peer can exchange its token for one of this realm.
Usable(d) ==
  realm[d].idp = "enabled" /\ realm[d].client = "enabled" /\ realm[d].granted

\* The first exchange makes Keycloak fetch the peer's keys.
FetchKeys(d) ==
  /\ Usable(d) /\ realm[d].keys = "none"
  /\ realm' = [realm EXCEPT ![d].keys = "fresh"]
  /\ UNCHANGED <<phase, token, todo, job, seen, peersFile, harmed, faults>>

ListenerNext ==
  \/ Step \/ TokenExpires \/ Subscribed \/ SetUpFails \/ TransportRetries
  \/ \E d \in Domain : EventLost(d)
  \/ todo' \in Seq(Domain) /\ Listed(todo')
  \/ \E type \in EventType, d \in Domain : Dispatch(type, d)
  \/ \E d \in Domain \ {Own} : RotateSigningKey(d) \/ FetchKeys(d)

ListenerSpec == ListenerInit /\ [][ListenerNext]_listenerVars

-----------------------------------------------------------------------------
(* Properties                                                              *)

\* A domain in seen has all that handle_add sets up, whatever failed on the
\* way and however often it left and came back: the loop skips the additions
\* of such a domain, so nothing would complete a half-made entry.
SeenIsConfigured ==
  \A d \in seen \ {Own} :
    realm[d].idp # "absent" /\ realm[d].client # "absent" /\ realm[d].granted

\* A peer the listener does not hold as seen, and is not adding, cannot use
\* the realm, unless one of its handlers failed: the handler of a removal
\* and the bookkeeping after it never leave an entry open that is forgotten.
UsableIsSeen ==
  \A d \in Domain \ (seen \cup harmed \cup {Own}) :
    Usable(d) => job.type = "domain_added" /\ job.peer = d
=============================================================================
