------------------------ MODULE OAuthListener_proofs ------------------------
(***************************************************************************)
(* What holds of an OAuth listener and its realm whatever the transport    *)
(* delivers, in whatever order, and whichever admin calls fail.            *)
(***************************************************************************)
EXTENDS OAuthListener, TLAPS

\* How far the running handler has come shows in the realm.
Progress ==
  /\ (job.type = "domain_added" /\ job.peer # Own) =>
       /\ job.at >= 2 => realm[job.peer].idp # "absent"
       /\ job.at >= 3 => realm[job.peer].client # "absent"
       /\ job.at >= 4 => realm[job.peer].granted
  /\ (job.type = "domain_removed" /\ job.peer # Own) =>
       (job.at >= 2 => realm[job.peer].idp # "enabled")

\* The provider of a peer that is neither seen, nor being added, nor harmed
\* is not enabled: what UsableIsSeen needs of the past.
Forgotten ==
  \A d \in Domain \ (seen \cup harmed \cup {Own}) :
    realm[d].idp = "enabled" => job.type = "domain_added" /\ job.peer = d

ListenerInv == ListenerTypeOK /\ Progress /\ SeenIsConfigured /\ Forgotten

USE OwnAssumption, FaultsAssumption

\* The initial realm is blank.
LEMMA ListenerInitEstablishes == ListenerInit => ListenerInv
  BY DEF ListenerInit, ListenerInv, ListenerTypeOK, Progress, SeenIsConfigured, Forgotten, NoJob, Writing,
         Blank, Entry, State, Phase, EventType

\* A call either moves the handler on, or ends it and harms its peer: all the
\* invariant has to know of the call is its effect on the one entry.
LEMMA CallPreserves ==
  ASSUME NEW type \in EventType, NEW i \in 1..Calls[type], NEW after \in Entry,
         ListenerInv, Call(type, i, after),
         realm[job.peer].granted => after.granted,
         realm[job.peer].client # "absent" => after.client # "absent",
         realm[job.peer].idp # "absent" => after.idp # "absent",
         after.idp = "enabled" => realm[job.peer].idp = "enabled" \/ type = "domain_added",
         type = "domain_added" => /\ i = 1 => after.idp # "absent"
                                  /\ i = 2 => after.client # "absent"
                                  /\ i = 3 => after.granted,
         type = "domain_removed" => (i = 1 => after.idp # "enabled")
  PROVE  ListenerInv'
<1> DEFINE done == [realm EXCEPT ![job.peer] = after]
<1>1. /\ job.type = type /\ job.at = i /\ job.peer \in Domain \ {Own}
      /\ i \in 1..3
  BY DEF Call, ListenerInv, ListenerTypeOK, NoJob, Writing, EventType, Calls
<1>2. done \in [Domain -> Entry]
  BY <1>1 DEF ListenerInv, ListenerTypeOK
<1>3. CASE /\ token = "valid" /\ realm' = done
           /\ job' = [job EXCEPT !.at = i + 1]
           /\ UNCHANGED <<phase, token, todo, seen, peersFile, harmed, faults>>
  <2>1. job \in [type: EventType, peer: Domain, at: 1..4]
    BY <1>1 DEF ListenerInv, ListenerTypeOK, NoJob, Writing, EventType
  <2>2. job' \in [type: EventType, peer: Domain, at: 1..4]
        /\ job'.type = type /\ job'.peer = job.peer /\ job'.at = i + 1
    BY <1>1, <1>3, <2>1
  <2>3. ListenerTypeOK'
    BY <1>2, <1>3, <2>2 DEF ListenerInv, ListenerTypeOK
  <2>4. /\ realm'[job.peer] = after
        /\ \A d \in Domain \ {job.peer} : realm'[d] = realm[d]
    BY <1>1, <1>3 DEF ListenerInv, ListenerTypeOK
  <2>5. Progress'
    BY <1>1, <2>2, <2>4 DEF Progress, ListenerInv
  <2>6. SeenIsConfigured'
    BY <1>1, <1>3, <2>4 DEF SeenIsConfigured, ListenerInv, ListenerTypeOK
  <2>7. Forgotten'
    BY <1>1, <1>3, <2>2, <2>4 DEF Forgotten, ListenerInv, ListenerTypeOK
  <2> QED BY <2>3, <2>5, <2>6, <2>7 DEF ListenerInv
<1>4. CASE Raise /\ realm' \in {realm, done} /\ faults' \in {faults, faults + 1}
  <2>1. ListenerTypeOK'
    BY <1>1, <1>2, <1>4 DEF Raise, ListenerInv, ListenerTypeOK, NoJob, Phase
  <2>2. \A d \in Domain \ {job.peer} : realm'[d] = realm[d]
    BY <1>1, <1>4 DEF ListenerInv, ListenerTypeOK
  <2>3. realm'[job.peer] \in {realm[job.peer], after}
    BY <1>1, <1>4 DEF ListenerInv, ListenerTypeOK
  <2>4. Progress'
    BY <1>4 DEF Raise, Progress, NoJob
  <2>5. SeenIsConfigured'
    BY <1>1, <1>4, <2>2, <2>3 DEF Raise, SeenIsConfigured, ListenerInv, ListenerTypeOK
  <2>6. Forgotten'
    BY <1>1, <1>4, <2>2 DEF Raise, Forgotten, ListenerInv, ListenerTypeOK, NoJob
  <2> QED BY <2>1, <2>4, <2>5, <2>6 DEF ListenerInv
<1> QED
  BY <1>1, <1>3, <1>4 DEF Call, ListenerInv, ListenerTypeOK

\* Each of the seven admin calls does what its handler relies on.
LEMMA HandlePreserves == ASSUME ListenerInv, Handle PROVE ListenerInv'
<1> USE DEF Subject, Entry, State, EventType, Calls
<1>1. CASE CreateIdpAlias
  <2> DEFINE after == IF Subject.idp = "absent"
                      THEN [Subject EXCEPT !.idp = "enabled", !.keys = "none"] ELSE Subject
  <2>0. job.peer \in Domain /\ realm[job.peer] \in Entry
    BY <1>1 DEF CreateIdpAlias, Call, ListenerInv, ListenerTypeOK, NoJob, Writing
  <2>1. Subject \in Entry /\ after \in Entry
    BY <2>0
  <2>2. Call("domain_added", 1, after)
    BY <1>1 DEF CreateIdpAlias
  <2>3. /\ after.idp # "absent"
        /\ after.granted = realm[job.peer].granted
        /\ after.client = realm[job.peer].client
    BY <2>0
  <2>4. "domain_added" \in EventType /\ 1 \in 1..Calls["domain_added"]
    OBVIOUS
  <2> HIDE DEF after
  <2> QED BY <2>1, <2>2, <2>3, <2>4, CallPreserves
<1>2. CASE CreatePublicExchangeClient
  <2> DEFINE after == IF Subject.client = "absent"
                      THEN [Subject EXCEPT !.client = "enabled"] ELSE Subject
  <2>1. job.peer \in Domain /\ Subject \in Entry /\ after \in Entry
    BY <1>2 DEF CreatePublicExchangeClient, Call, ListenerInv, ListenerTypeOK, NoJob, Writing
  <2> QED BY <1>2, <2>1, CallPreserves DEF CreatePublicExchangeClient
<1>3. CASE AllowClientToExchange
  <2> DEFINE after == [Subject EXCEPT !.granted = TRUE]
  <2>0. job.peer \in Domain /\ realm[job.peer] \in Entry
    BY <1>3 DEF AllowClientToExchange, Call, ListenerInv, ListenerTypeOK, NoJob, Writing
  <2>1. Subject \in Entry /\ after \in Entry
    BY <2>0
  <2> QED BY <1>3, <2>0, <2>1, CallPreserves DEF AllowClientToExchange
<1>4. CASE DisableIdp
  <2> DEFINE after == IF Subject.idp = "absent" THEN Subject
                      ELSE [Subject EXCEPT !.idp = "disabled"]
  <2>1. job.peer \in Domain /\ Subject \in Entry /\ after \in Entry
    BY <1>4 DEF DisableIdp, Call, ListenerInv, ListenerTypeOK, NoJob, Writing
  <2> QED BY <1>4, <2>1, CallPreserves DEF DisableIdp
<1>5. CASE SetClientNotBefore
  <2> DEFINE after == IF Subject.client = "absent" THEN Subject
                      ELSE [Subject EXCEPT !.notBefore = TRUE]
  <2>0. job.peer \in Domain /\ realm[job.peer] \in Entry
    BY <1>5 DEF SetClientNotBefore, Call, ListenerInv, ListenerTypeOK, NoJob, Writing
  <2>1. Subject \in Entry /\ after \in Entry
    BY <2>0
  <2> QED BY <1>5, <2>0, <2>1, CallPreserves DEF SetClientNotBefore
<1>6. CASE DisableClient
  <2> DEFINE after == IF Subject.client = "absent" THEN Subject
                      ELSE [Subject EXCEPT !.client = "disabled"]
  <2>1. job.peer \in Domain /\ Subject \in Entry /\ after \in Entry
    BY SMTT(20), <1>6 DEF DisableClient, Call, ListenerInv, ListenerTypeOK, NoJob, Writing
  <2> QED BY <1>6, <2>1, CallPreserves DEF DisableClient
<1>7. CASE Call("key_rotated", 1,
                IF Subject.idp = "absent" THEN Subject ELSE [Subject EXCEPT !.keys = "fresh"])
  <2> DEFINE after == IF Subject.idp = "absent" THEN Subject
                      ELSE [Subject EXCEPT !.keys = "fresh"]
  <2>1. job.peer \in Domain /\ Subject \in Entry /\ after \in Entry
    BY <1>7 DEF Call, ListenerInv, ListenerTypeOK, NoJob, Writing
  <2> QED BY <1>7, <2>1, CallPreserves
<1>8. CASE ReloadRefused
  <2>1. job \in [type: EventType, peer: Domain, at: 1..4]
    BY <1>8 DEF ReloadRefused, ListenerInv, ListenerTypeOK, NoJob, Writing
  <2>2. job' \in [type: EventType, peer: Domain, at: 1..4] /\ job'.type = "key_rotated"
    BY <1>8, <2>1 DEF ReloadRefused
  <2>3. ListenerTypeOK'
    BY <1>8, <2>1, <2>2 DEF ReloadRefused, ListenerInv, ListenerTypeOK
  <2> QED
    BY <1>8, <2>2, <2>3 DEF ReloadRefused, ListenerInv, Progress, SeenIsConfigured, Forgotten
<1> QED
  BY <1>1, <1>2, <1>3, <1>4, <1>5, <1>6, <1>7, <1>8 DEF Handle, ReloadIdpKeys

\* The steps of the process around its handlers.
LEMMA LoopPreserves ==
  ASSUME ListenerInv, Start \/ Backfill \/ BackfillDone \/ Handled \/ WritePeersFile
  PROVE  ListenerInv'
<1> USE DEF NoJob, Writing, Phase, EventType
<1>1. CASE Start
  BY <1>1 DEF Start, ListenerInv, ListenerTypeOK, Progress, SeenIsConfigured, Forgotten
<1>2. CASE Backfill
  <2>1. Head(todo) \in Domain /\ Tail(todo) \in Seq(Domain)
    BY <1>2 DEF Backfill, ListenerInv, ListenerTypeOK
  <2> QED
    BY <1>2, <2>1 DEF Backfill, ListenerInv, ListenerTypeOK, Progress, SeenIsConfigured, Forgotten
<1>3. CASE BackfillDone
  BY <1>3 DEF BackfillDone, ListenerInv, ListenerTypeOK, Progress, SeenIsConfigured, Forgotten
<1>4. CASE Handled
  <2>1. job \in [type: EventType, peer: Domain, at: 1..4]
    BY <1>4 DEF Handled, ListenerInv, ListenerTypeOK
  <2>2. job.peer # Own => /\ job.type = "domain_added" => job.at = 4
                          /\ job.type = "domain_removed" => job.at = 4
    BY <1>4, <2>1 DEF Handled, Calls
  <2>3. job' \in {NoJob, Writing} /\ UNCHANGED <<phase, token, todo, realm, harmed, faults>>
    BY <1>4 DEF Handled
  <2>4. ListenerTypeOK'
    BY <1>4, <2>1, <2>3 DEF Handled, ListenerInv, ListenerTypeOK
  <2>5. Progress'
    BY <2>3 DEF Progress
  <2>6. CASE job.type = "domain_added"
    <3>1. seen' = seen \cup {job.peer}
      BY <1>4, <2>6 DEF Handled
    <3>2. SeenIsConfigured'
      BY <2>1, <2>2, <2>3, <2>6, <3>1 DEF ListenerInv, Progress, SeenIsConfigured
    <3>3. Forgotten'
      BY <2>1, <2>3, <2>6, <3>1 DEF ListenerInv, Forgotten
    <3> QED BY <2>4, <2>5, <3>2, <3>3 DEF ListenerInv
  <2>7. CASE job.type = "domain_removed"
    <3>1. seen' = seen \ {job.peer}
      BY <1>4, <2>7 DEF Handled
    <3>2. SeenIsConfigured'
      BY <2>3, <3>1 DEF ListenerInv, SeenIsConfigured
    <3>3. Forgotten'
      BY <2>1, <2>2, <2>3, <2>7, <3>1 DEF ListenerInv, Progress, Forgotten
    <3> QED BY <2>4, <2>5, <3>2, <3>3 DEF ListenerInv
  <2>8. CASE job.type = "key_rotated"
    <3>1. seen' = seen
      BY <1>4, <2>8 DEF Handled
    <3> QED
      BY <2>3, <2>4, <2>5, <2>8, <3>1 DEF ListenerInv, SeenIsConfigured, Forgotten
  <2> QED BY <2>1, <2>6, <2>7, <2>8
<1>5. CASE WritePeersFile
  BY <1>5 DEF WritePeersFile, ListenerInv, ListenerTypeOK, Progress, SeenIsConfigured, Forgotten
<1> QED BY <1>1, <1>2, <1>3, <1>4, <1>5

\* What the transport and the realm's other users do.
LEMMA EnvironmentPreserves ==
  ASSUME ListenerInv,
         \/ TokenExpires \/ Subscribed \/ SetUpFails \/ TransportRetries
         \/ \E d \in Domain : EventLost(d)
         \/ todo' \in Seq(Domain) /\ Listed(todo')
         \/ \E type \in EventType, d \in Domain : Dispatch(type, d)
         \/ \E d \in Domain \ {Own} : RotateSigningKey(d) \/ FetchKeys(d)
  PROVE  ListenerInv'
<1> USE DEF NoJob, Writing, Phase, EventType
<1>1. CASE TokenExpires \/ Subscribed \/ SetUpFails \/ TransportRetries
  BY <1>1 DEF TokenExpires, Subscribed, SetUpFails, TransportRetries,
              ListenerInv, ListenerTypeOK, Progress, SeenIsConfigured, Forgotten
<1>2. CASE \E d \in Domain : EventLost(d)
  BY <1>2 DEF EventLost, ListenerInv, ListenerTypeOK, Progress, SeenIsConfigured, Forgotten
<1>3. CASE todo' \in Seq(Domain) /\ Listed(todo')
  BY <1>3 DEF Listed, ListenerInv, ListenerTypeOK, Progress, SeenIsConfigured, Forgotten
<1>4. ASSUME NEW type \in EventType, NEW d \in Domain, Dispatch(type, d) PROVE ListenerInv'
  BY <1>4 DEF Dispatch, ListenerInv, ListenerTypeOK, Progress, SeenIsConfigured, Forgotten
<1>5. ASSUME NEW d \in Domain, RotateSigningKey(d) \/ FetchKeys(d) PROVE ListenerInv'
  <2>1. \E k \in {"none", "fresh", "stale"} : realm' = [realm EXCEPT ![d].keys = k]
    BY <1>5 DEF RotateSigningKey, FetchKeys, ListenerInv, ListenerTypeOK, Entry
  <2>2. /\ realm' \in [Domain -> Entry]
        /\ \A e \in Domain : /\ realm'[e].idp = realm[e].idp
                             /\ realm'[e].client = realm[e].client
                             /\ realm'[e].granted = realm[e].granted
    BY <2>1 DEF ListenerInv, ListenerTypeOK, Entry
  <2>3. UNCHANGED <<phase, token, todo, job, seen, peersFile, harmed, faults>>
    BY <1>5 DEF RotateSigningKey, FetchKeys
  <2>4. ListenerTypeOK'
    BY <2>2, <2>3 DEF ListenerInv, ListenerTypeOK
  <2>5. Progress'
    BY <2>2, <2>3 DEF ListenerInv, ListenerTypeOK, Progress
  <2>6. SeenIsConfigured'
    BY <2>2, <2>3 DEF ListenerInv, ListenerTypeOK, SeenIsConfigured
  <2>7. Forgotten'
    BY <2>2, <2>3 DEF ListenerInv, Forgotten
  <2> QED
    BY <2>4, <2>5, <2>6, <2>7 DEF ListenerInv
<1> QED BY <1>1, <1>2, <1>3, <1>4, <1>5

LEMMA ListenerInductive == ListenerInv /\ [ListenerNext]_listenerVars => ListenerInv'
<1> SUFFICES ASSUME ListenerInv, [ListenerNext]_listenerVars PROVE ListenerInv'
  OBVIOUS
<1>1. CASE ListenerNext
  BY <1>1, HandlePreserves, LoopPreserves, EnvironmentPreserves DEF ListenerNext, Step
<1>2. CASE UNCHANGED listenerVars
  BY <1>2 DEF listenerVars, ListenerInv, ListenerTypeOK, Progress, SeenIsConfigured, Forgotten
<1> QED BY <1>1, <1>2

LEMMA ListenerInvariance == ListenerSpec => []ListenerInv
  BY ListenerInitEstablishes, ListenerInductive, PTL DEF ListenerSpec

\* The listener's state and the realm keep their types.
THEOREM ListenerTypes == ListenerSpec => []ListenerTypeOK
<1>1. ListenerInv => ListenerTypeOK BY DEF ListenerInv
<1> QED BY <1>1, ListenerInvariance, PTL

\* No sequence of events and failing calls puts a domain in seen before its
\* provider, its client and the permission that ties them together exist.
THEOREM SeenConfigured == ListenerSpec => []SeenIsConfigured
<1>1. ListenerInv => SeenIsConfigured BY DEF ListenerInv
<1> QED BY <1>1, ListenerInvariance, PTL

\* No sequence of events makes the listener forget a peer that can still use
\* the realm, failing calls for that peer apart.
THEOREM NobodyForgotten == ListenerSpec => []UsableIsSeen
<1>1. ListenerInv => UsableIsSeen BY DEF ListenerInv, Forgotten, UsableIsSeen, Usable
<1> QED BY <1>1, ListenerInvariance, PTL
-----------------------------------------------------------------------------
(* What one step means for one peer: lemmas for the modules that know the  *)
(* transport                                                               *)

\* The handler that runs is about d.
Handling(type, d) == job.type = type /\ job.peer = d

\* Unless an event says otherwise, d ends up in seen.
Held(d) ==
  \/ \E i \in 1..Len(todo) : todo[i] = d
  \/ Handling("domain_added", d)
  \/ d \in seen /\ ~Handling("domain_removed", d)

\* Nothing of d was disabled, and nothing is being disabled.
Open(d) ==
  /\ realm[d].idp # "disabled" /\ realm[d].client # "disabled"
  /\ ~Handling("domain_removed", d)

\* The realm's copy of d's keys is old, and the handler that runs will not
\* fetch them again.
Outdated(d) ==
  realm[d].keys = "stale" /\ ~(Handling("key_rotated", d) /\ job.at = 1)

\* Before the listing nothing has been done, after the backfill nothing of it
\* is left, and only a provider has keys.
Early ==
  /\ phase \in {"starting", "subscribing", "listing"} =>
       /\ seen = {} /\ job = NoJob /\ todo = << >>
       /\ \A d \in Domain : realm[d].idp = "absent" /\ realm[d].client = "absent"
  /\ phase = "listening" => todo = << >>
  /\ \A d \in Domain : realm[d].idp = "absent" => realm[d].keys = "none"

\* A step that is no news about d: it neither changes what the listener holds,
\* nor shuts d out, nor lets its keys grow old.
NoNews(d) ==
  /\ Held(d)' <=> Held(d)
  /\ Open(d) => Open(d)'
  /\ Outdated(d)' => Outdated(d)

\* A call that does not fail moves the handler of its peer on, and leaves the
\* other peers alone.
LEMMA CallEffect ==
  ASSUME ListenerInv, NEW type \in EventType, NEW i \in 1..Calls[type], NEW after \in Entry,
         Call(type, i, after), NEW d \in Domain \ {Own}, d \notin harmed'
  PROVE  /\ UNCHANGED <<todo, seen>>
         /\ job.type = type /\ job.at = i
         /\ job.peer = d => /\ realm'[d] = after
                            /\ job'.type = type /\ job'.peer = d /\ job'.at = i + 1
         /\ job.peer # d => realm'[d] = realm[d] /\ job'.peer # d
<1>1. /\ job.type = type /\ job.at = i /\ job.peer \in Domain \ {Own}
      /\ job \in [type: EventType, peer: Domain, at: 1..4]
  BY DEF Call, ListenerInv, ListenerTypeOK, NoJob, Writing, EventType, Calls
<1>2. realm \in [Domain -> Entry]
  BY DEF ListenerInv, ListenerTypeOK
<1>3. CASE job' = [job EXCEPT !.at = i + 1]
           /\ realm' = [realm EXCEPT ![job.peer] = after] /\ UNCHANGED <<todo, seen>>
  BY <1>1, <1>2, <1>3
<1>4. CASE Raise /\ realm' \in {realm, [realm EXCEPT ![job.peer] = after]}
  <2>1. job.peer # d /\ job' = NoJob /\ UNCHANGED <<todo, seen>>
    BY <1>1, <1>4 DEF Raise
  <2> QED
    BY <1>1, <1>2, <1>4, <2>1 DEF NoJob
<1> QED
  BY <1>1, <1>3, <1>4 DEF Call

\* So a call is no news when it keeps what it should of the entry.
LEMMA CallIsNoNews ==
  ASSUME ListenerInv, NEW type \in EventType, NEW i \in 1..Calls[type], NEW after \in Entry,
         Call(type, i, after), NEW d \in Domain \ {Own}, d \notin harmed',
         type # "domain_removed" =>
           /\ after.idp = "disabled" => realm[job.peer].idp = "disabled"
           /\ after.client = "disabled" => realm[job.peer].client = "disabled",
         after.keys = "stale" => realm[job.peer].keys = "stale" /\ type # "key_rotated"
  PROVE  NoNews(d)
<1>1. CASE job.peer = d
  BY <1>1, CallEffect DEF NoNews, Held, Open, Outdated, Handling
<1>2. CASE job.peer # d
  BY <1>2, CallEffect DEF NoNews, Held, Open, Outdated, Handling
<1> QED BY <1>1, <1>2

\* No admin call is news about a peer that it does not harm.
LEMMA HandleIsNoNews ==
  ASSUME ListenerInv, Early, Handle, NEW d \in Domain \ {Own}, d \notin harmed'
  PROVE  NoNews(d)
<1> USE DEF Subject, Entry, State, EventType, Calls
<1>0. ASSUME NEW type, NEW i \in Nat, NEW after, Call(type, i, after)
      PROVE  job.peer \in Domain /\ realm[job.peer] \in Entry
  BY <1>0 DEF Call, ListenerInv, ListenerTypeOK, NoJob, Writing
<1>1. CASE CreateIdpAlias
  <2> DEFINE after == IF Subject.idp = "absent"
                      THEN [Subject EXCEPT !.idp = "enabled", !.keys = "none"] ELSE Subject
  <2>1. Call("domain_added", 1, after)
    BY <1>1 DEF CreateIdpAlias
  <2>2. Subject \in Entry
    <3> HIDE DEF after
    <3> QED BY <1>0, <2>1
  <2>3. /\ after \in Entry /\ after.client = Subject.client
        /\ after.idp = "disabled" => Subject.idp = "disabled"
        /\ after.keys = "stale" => Subject.keys = "stale"
    BY <2>2
  <2> HIDE DEF after
  <2> QED BY <2>1, <2>3, CallIsNoNews
<1>2. CASE CreatePublicExchangeClient
  <2> DEFINE after == IF Subject.client = "absent"
                      THEN [Subject EXCEPT !.client = "enabled"] ELSE Subject
  <2>1. Call("domain_added", 2, after)
    BY <1>2 DEF CreatePublicExchangeClient
  <2>2. Subject \in Entry
    <3> HIDE DEF after
    <3> QED BY <1>0, <2>1
  <2>3. /\ after \in Entry /\ after.idp = Subject.idp /\ after.keys = Subject.keys
        /\ after.client = "disabled" => Subject.client = "disabled"
    BY <2>2
  <2> HIDE DEF after
  <2> QED BY <2>1, <2>3, CallIsNoNews
<1>3. CASE AllowClientToExchange
  <2> DEFINE after == [Subject EXCEPT !.granted = TRUE]
  <2>1. Call("domain_added", 3, after)
    BY <1>3 DEF AllowClientToExchange
  <2>2. Subject \in Entry
    <3> HIDE DEF after
    <3> QED BY <1>0, <2>1
  <2>3. after \in Entry /\ after.idp = Subject.idp /\ after.keys = Subject.keys
        /\ after.client = Subject.client
    BY <2>2
  <2> HIDE DEF after
  <2> QED BY <2>1, <2>3, CallIsNoNews
<1>4. CASE DisableIdp
  <2> DEFINE after == IF Subject.idp = "absent" THEN Subject
                      ELSE [Subject EXCEPT !.idp = "disabled"]
  <2>1. Call("domain_removed", 1, after)
    BY <1>4 DEF DisableIdp
  <2>2. Subject \in Entry
    <3> HIDE DEF after
    <3> QED BY <1>0, <2>1
  <2>3. after \in Entry /\ after.keys = Subject.keys
    BY <2>2
  <2> HIDE DEF after
  <2> QED BY <2>1, <2>3, CallIsNoNews
<1>5. CASE SetClientNotBefore
  <2> DEFINE after == IF Subject.client = "absent" THEN Subject
                      ELSE [Subject EXCEPT !.notBefore = TRUE]
  <2>1. Call("domain_removed", 2, after)
    BY <1>5 DEF SetClientNotBefore
  <2>2. Subject \in Entry
    <3> HIDE DEF after
    <3> QED BY <1>0, <2>1
  <2>3. after \in Entry /\ after.keys = Subject.keys
    BY <2>2
  <2> HIDE DEF after
  <2> QED BY <2>1, <2>3, CallIsNoNews
<1>6. CASE DisableClient
  <2> DEFINE after == IF Subject.client = "absent" THEN Subject
                      ELSE [Subject EXCEPT !.client = "disabled"]
  <2>1. Call("domain_removed", 3, after)
    BY <1>6 DEF DisableClient
  <2>2. Subject \in Entry
    <3> HIDE DEF after
    <3> QED BY <1>0, <2>1
  <2>3. after \in Entry /\ after.keys = Subject.keys
    BY <2>2
  <2> HIDE DEF after
  <2> QED BY <2>1, <2>3, CallIsNoNews
<1>7. CASE Call("key_rotated", 1,
                IF Subject.idp = "absent" THEN Subject ELSE [Subject EXCEPT !.keys = "fresh"])
  <2> DEFINE after == IF Subject.idp = "absent" THEN Subject
                      ELSE [Subject EXCEPT !.keys = "fresh"]
  <2>1. Call("key_rotated", 1, after)
    BY <1>7
  <2>2. Subject \in Entry /\ (Subject.idp = "absent" => Subject.keys = "none")
    <3> HIDE DEF after
    <3> QED BY <1>0, <2>1 DEF Early
  <2>3. after \in Entry /\ after.idp = Subject.idp /\ after.client = Subject.client
        /\ after.keys # "stale"
    BY <2>2
  <2> HIDE DEF after
  <2> QED BY <2>1, <2>3, CallIsNoNews
<1>8. CASE ReloadRefused
  <2>1. job.peer # d /\ job'.type = job.type /\ job'.peer = job.peer
        /\ UNCHANGED <<todo, seen, realm>>
    BY <1>8 DEF ReloadRefused, ListenerInv, ListenerTypeOK, NoJob, Writing
  <2> QED
    BY <2>1 DEF NoNews, Held, Open, Outdated, Handling
<1> QED
  BY <1>1, <1>2, <1>3, <1>4, <1>5, <1>6, <1>7, <1>8 DEF Handle, ReloadIdpKeys

\* Nor are the steps of the process around its handlers, the end of a handler
\* included: it enters in seen what the handler was about.
LEMMA LoopIsNoNews ==
  ASSUME ListenerInv, NEW d \in Domain \ {Own}, d \notin harmed',
         \/ Start \/ Backfill \/ BackfillDone \/ Handled \/ WritePeersFile
         \/ SetUpFails \/ TokenExpires \/ Subscribed \/ TransportRetries
         \/ \E p \in Domain \ {Own} : FetchKeys(p)
  PROVE  NoNews(d)
<1> USE DEF NoNews, Held, Open, Outdated, Handling, NoJob, Writing
<1>1. CASE Start \/ SetUpFails \/ TokenExpires \/ Subscribed \/ TransportRetries
  BY <1>1 DEF Start, SetUpFails, TokenExpires, Subscribed, TransportRetries
<1>2. CASE Backfill
  <2>1. /\ todo \in Seq(Domain) /\ todo # << >> /\ todo' = Tail(todo)
        /\ job = NoJob /\ UNCHANGED <<seen, realm>>
    BY <1>2 DEF Backfill, ListenerInv, ListenerTypeOK
  <2>2. Len(todo) \in Nat /\ Len(todo') = Len(todo) - 1
        /\ \A i \in 1..Len(todo') : todo'[i] = todo[i + 1]
    BY <2>1
  <2>3. (\E i \in 1..Len(todo) : todo[i] = d)
          <=> Head(todo) = d \/ \E i \in 1..Len(todo') : todo'[i] = d
    BY <2>1, <2>2
  <2>4. \/ job' = NoJob /\ (Head(todo) = Own \/ Head(todo) \in seen)
        \/ job' = [type |-> "domain_added", peer |-> Head(todo), at |-> 1]
    BY <1>2 DEF Backfill
  <2> QED
    BY <2>1, <2>3, <2>4
<1>3. CASE BackfillDone \/ WritePeersFile
  BY <1>3 DEF BackfillDone, WritePeersFile
<1>4. CASE Handled
  <2>0. job \in [type: EventType, peer: Domain, at: 1..4]
    BY <1>4 DEF Handled, ListenerInv, ListenerTypeOK, EventType
  <2>1. /\ job.type = "key_rotated" /\ job.peer = d => job.at # 1
        /\ job' \in {NoJob, Writing} /\ UNCHANGED <<todo, realm>>
    BY <1>4, <2>0 DEF Handled, Calls
  <2>2. seen' = CASE job.type = "domain_added"   -> seen \cup {job.peer}
                  [] job.type = "domain_removed" -> seen \ {job.peer}
                  [] OTHER                       -> seen
    BY <1>4 DEF Handled
  <2>3. CASE job.type = "domain_added"
    BY <2>1, <2>2, <2>3
  <2>4. CASE job.type = "domain_removed"
    BY <2>1, <2>2, <2>4
  <2>5. CASE job.type = "key_rotated"
    BY <2>1, <2>2, <2>5
  <2> QED
    BY <2>0, <2>3, <2>4, <2>5 DEF EventType
<1>5. CASE \E p \in Domain \ {Own} : FetchKeys(p)
  BY <1>5 DEF FetchKeys, ListenerInv, ListenerTypeOK, Entry
<1> QED BY <1>1, <1>2, <1>3, <1>4, <1>5

\* Such a step enters no phase but the next one, or dies, though not
\* once the listener listens; nobody is forgiven.
LEMMA PhaseStep ==
  ASSUME Step \/ SetUpFails \/ TokenExpires \/ \E p \in Domain \ {Own} : FetchKeys(p)
  PROVE  /\ \/ phase' = phase \/ phase' = "dead"
            \/ phase = "starting" /\ phase' = "subscribing"
            \/ phase = "backfill" /\ phase' = "listening"
         /\ phase = "listening" => phase' = "listening"
         /\ harmed \subseteq harmed'
  BY DEF Step, Start, Backfill, BackfillDone, Handled, WritePeersFile, SetUpFails, TokenExpires,
         FetchKeys, Handle, CreateIdpAlias, CreatePublicExchangeClient, AllowClientToExchange,
         DisableIdp, SetClientNotBefore, DisableClient, ReloadIdpKeys, ReloadRefused, Call, Raise

\* The news itself: an event that is handed over settles what becomes of its
\* subject and is no news about the others.
LEMMA DispatchEffect ==
  ASSUME ListenerInv, Early, NEW type \in EventType, NEW p \in Domain, Dispatch(type, p),
         NEW d \in Domain \ {Own}
  PROVE  /\ type = "domain_added" /\ p = d => Held(d)'
         /\ type = "domain_removed" /\ p = d => ~Held(d)'
         /\ type = "key_rotated" \/ p # d => (Held(d)' <=> Held(d))
         /\ ~(type = "domain_removed" /\ p = d) => (Open(d) => Open(d)')
         /\ Outdated(d)' => Outdated(d)
         /\ type = "key_rotated" /\ p = d => ~Outdated(d)'
<1>1. /\ phase = "listening" /\ job = NoJob /\ todo = << >>
      /\ UNCHANGED <<todo, seen, realm>>
      /\ \/ job' = [type |-> type, peer |-> p, at |-> 1]
         \/ job' = NoJob /\ type = "domain_added" /\ p \in seen
  BY DEF Dispatch, Early
<1> QED
  BY <1>1 DEF Held, Open, Outdated, Handling, NoJob, EventType

\* A listing is what the listener then holds.
LEMMA ListedEffect ==
  ASSUME Early, NEW listing \in Seq(Domain), Listed(listing), NEW d \in Domain \ {Own}
  PROVE  /\ Held(d)' <=> \E i \in 1..Len(listing) : listing[i] = d
         /\ Open(d)' /\ ~Outdated(d)'
  BY DEF Early, Listed, Held, Open, Outdated, Handling, NoJob

\* A key that changes is news about nobody else.
LEMMA RotateEffect ==
  ASSUME ListenerInv, NEW p \in Domain, RotateSigningKey(p), NEW d \in Domain \ {Own}
  PROVE  /\ Held(d)' <=> Held(d)
         /\ Open(d) => Open(d)'
         /\ p # d => (Outdated(d)' => Outdated(d))
  BY DEF RotateSigningKey, ListenerInv, ListenerTypeOK, Entry, Held, Open, Outdated, Handling

\* No step of the listener, under any transport, disturbs this division of its
\* life.
LEMMA EarlyInit == ListenerInit => Early
  BY DEF ListenerInit, Early, Blank, NoJob

LEMMA EarlyInductive == ListenerInv /\ Early /\ [ListenerNext]_listenerVars => Early'
<1> SUFFICES ASSUME ListenerInv, Early, [ListenerNext]_listenerVars PROVE Early'
  OBVIOUS
<1> USE DEF Early, NoJob, Writing
<1>1. ASSUME NEW type \in EventType, NEW i \in Nat, NEW after \in Entry, Call(type, i, after),
             realm[job.peer].keys = "none" /\ after.idp = "absent" => after.keys = "none",
             after.idp = "absent" => realm[job.peer].idp = "absent"
      PROVE  Early'
  <2>1. job.type \in EventType /\ job.peer \in Domain /\ realm \in [Domain -> Entry]
    BY <1>1 DEF Call, ListenerInv, ListenerTypeOK, EventType
  <2>2. phase \notin {"starting", "subscribing", "listing"} /\ todo' = todo
    BY <1>1, <2>1 DEF Call, Raise, EventType
  <2>3. phase' = phase \/ phase' = "dead"
    BY <1>1 DEF Call, Raise
  <2>4. \A d \in Domain : realm'[d].idp = "absent" => realm'[d].keys = "none"
    BY <1>1, <2>1 DEF Call
  <2> QED
    BY <2>2, <2>3, <2>4
<1>2. CASE Handle
  <2> USE DEF Subject, Entry, State, EventType
  <2>0. ASSUME NEW type, NEW i \in Nat, NEW after, Call(type, i, after)
        PROVE  realm[job.peer] \in Entry
    BY <2>0 DEF Call, ListenerInv, ListenerTypeOK
  <2>1. CASE CreateIdpAlias
    BY <1>1, <2>0, <2>1 DEF CreateIdpAlias
  <2>2. CASE CreatePublicExchangeClient
    BY <1>1, <2>0, <2>2 DEF CreatePublicExchangeClient
  <2>3. CASE AllowClientToExchange
    BY <1>1, <2>0, <2>3 DEF AllowClientToExchange
  <2>4. CASE DisableIdp
    BY <1>1, <2>0, <2>4 DEF DisableIdp
  <2>5. CASE SetClientNotBefore
    BY <1>1, <2>0, <2>5 DEF SetClientNotBefore
  <2>6. CASE DisableClient
    BY <1>1, <2>0, <2>6 DEF DisableClient
  <2>7. CASE ReloadIdpKeys
    BY <1>1, <2>0, <2>7 DEF ReloadIdpKeys, ReloadRefused
  <2> QED
    BY <1>2, <2>1, <2>2, <2>3, <2>4, <2>5, <2>6, <2>7 DEF Handle
<1>3. CASE Start \/ SetUpFails \/ TokenExpires \/ Subscribed \/ TransportRetries
  BY <1>3 DEF Start, SetUpFails, TokenExpires, Subscribed, TransportRetries
<1>4. CASE Backfill \/ BackfillDone \/ WritePeersFile
  BY <1>4 DEF Backfill, BackfillDone, WritePeersFile
<1>5. CASE Handled
  BY <1>5 DEF Handled, EventType
<1>6. CASE \E d \in Domain : EventLost(d)
  BY <1>6 DEF EventLost
<1>7. CASE todo' \in Seq(Domain) /\ Listed(todo')
  BY <1>7 DEF Listed
<1>8. ASSUME NEW type \in EventType, NEW d \in Domain, Dispatch(type, d) PROVE Early'
  BY <1>8 DEF Dispatch
<1>9. ASSUME NEW d \in Domain, RotateSigningKey(d) \/ FetchKeys(d) PROVE Early'
  BY <1>9 DEF RotateSigningKey, FetchKeys, Usable, ListenerInv, ListenerTypeOK, Entry
<1>10. CASE UNCHANGED listenerVars
  BY <1>10 DEF listenerVars
<1> QED
  BY <1>2, <1>3, <1>4, <1>5, <1>6, <1>7, <1>8, <1>9, <1>10 DEF ListenerNext, Step

=============================================================================
