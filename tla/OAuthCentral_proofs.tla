------------------------ MODULE OAuthCentral_proofs ------------------------
(***************************************************************************)
(* Proofs about the centralized federation. Its listener behaves as        *)
(* OAuthListener says, behind the repository's event stream; and when all  *)
(* is announced and handled the realm agrees with the repository's map,    *)
(* apart from the domains of which an announcement was dropped or          *)
(* overtaken, or whose handler failed. For every number of domains,        *)
(* requests and failures, and every capacity of the event channel.         *)
(***************************************************************************)
EXTENDS OAuthCentral, OAuthListener_proofs, SequenceTheorems, FiniteSetTheorems

-----------------------------------------------------------------------------
(* The repository                                                          *)

\* The listing is a sequence only because the repository's map is finite.
RepoInv == Repo!TypeOK /\ IsFiniteSet(storage)

LEMMA RepoInit == Repo!Init => RepoInv
<1> SUFFICES ASSUME Repo!Init PROVE RepoInv
  OBVIOUS
<1>1. << >> \in Seq(Repo!Event)
  BY EmptySeq
<1> QED
  BY <1>1, RepoAssumption, FS_EmptySet DEF Repo!Init, RepoInv, Repo!TypeOK, Repo!None

\* A request that is accepted is well formed, and changes the map by one domain.
LEMMA AcceptTyped ==
  ASSUME RepoInv, NEW c \in Caller, NEW d \in Domain,
         Repo!Register(c, d) \/ Repo!Del(c, d) \/ Repo!KeyRotated(c, d)
  PROVE  RepoInv'
<1> USE RepoAssumption
<1> DEFINE Slot == [type: Repo!EventType, domain: Domain, nth: 1..MaxRequests] \cup {Repo!None}
<1>1. PICK type \in Repo!EventType : Repo!Accept(c, type, d)
  BY DEF Repo!Register, Repo!Del, Repo!KeyRotated, Repo!EventType
<1>2. accepted \in 0..MaxRequests /\ accepted < MaxRequests /\ accepted' = accepted + 1
  BY <1>1 DEF Repo!Accept, RepoInv, Repo!TypeOK
<1>3. accepted + 1 \in 1..MaxRequests /\ accepted' \in 0..MaxRequests
  BY <1>2
<1>4. request' \in [Caller -> Slot]
  <2>1. request \in [Caller -> Slot]
    BY DEF RepoInv, Repo!TypeOK
  <2>2. [type |-> type, domain |-> d, nth |-> accepted + 1] \in Slot
    BY <1>3
  <2>3. request' = [request EXCEPT ![c] = [type |-> type, domain |-> d, nth |-> accepted + 1]]
    BY <1>1 DEF Repo!Accept
  <2> HIDE DEF Slot
  <2> QED
    BY <2>1, <2>2, <2>3
<1>5. storage' \subseteq Domain /\ IsFiniteSet(storage') /\ left' \subseteq Domain
  BY FS_AddElement, FS_RemoveElement
  DEF RepoInv, Repo!TypeOK, Repo!Register, Repo!Del, Repo!KeyRotated
<1>6. UNCHANGED <<sseClients, channel, wire, overtaken, dropped>>
  BY <1>1 DEF Repo!Accept
<1> QED
  BY <1>3, <1>4, <1>5, <1>6 DEF RepoInv, Repo!TypeOK

\* An announcement is made of an accepted request.
LEMMA BroadcastTyped ==
  ASSUME RepoInv, NEW c \in Caller, Repo!Broadcast(c)
  PROVE  RepoInv'
<1> DEFINE ev == [type |-> request[c].type, domain |-> request[c].domain]
<1>1. request[c] # Repo!None /\ request[c] \in [type: Repo!EventType, domain: Domain, nth: 1..MaxRequests]
  BY DEF Repo!Broadcast, RepoInv, Repo!TypeOK
<1>2. ev \in Repo!Event /\ request[c].domain \in Domain
  BY <1>1 DEF Repo!Event
<1>3. channel' \in [{Own} -> Seq(Repo!Event)]
  <2>1. \A s \in {Own} : Append(channel[s], ev) \in Seq(Repo!Event)
    BY <1>2, AppendProperties DEF RepoInv, Repo!TypeOK
  <2> QED
    BY <2>1 DEF Repo!Broadcast, RepoInv, Repo!TypeOK
<1>4. dropped' \subseteq Domain /\ overtaken' \subseteq Domain
  BY <1>2 DEF Repo!Broadcast, RepoInv, Repo!TypeOK
<1>5. /\ request' = [request EXCEPT ![c] = Repo!None]
      /\ UNCHANGED <<storage, sseClients, wire, accepted, left>>
  BY DEF Repo!Broadcast
<1> QED
  BY <1>3, <1>4, <1>5 DEF RepoInv, Repo!TypeOK

\* What the stream does to the buffer and to the wire.
LEMMA StreamTyped ==
  ASSUME RepoInv, NEW s \in {Own},
         Repo!Subscribe(s) \/ Repo!Forward(s) \/ Repo!Unsubscribe(s) \/ Repo!Receive(s)
  PROVE  RepoInv'
<1> USE DEF RepoInv, Repo!TypeOK
<1>1. << >> \in Seq(Repo!Event)
  BY EmptySeq
<1>2. CASE Repo!Subscribe(s) \/ Repo!Unsubscribe(s)
  BY <1>1, <1>2 DEF Repo!Subscribe, Repo!Unsubscribe
<1>3. CASE Repo!Forward(s)
  <2>1. channel[s] \in Seq(Repo!Event) /\ channel[s] # << >> /\ wire[s] \in Seq(Repo!Event)
    BY <1>3 DEF Repo!Forward
  <2>2. Head(channel[s]) \in Repo!Event /\ Tail(channel[s]) \in Seq(Repo!Event)
    BY <2>1, HeadTailProperties
  <2>3. Append(wire[s], Head(channel[s])) \in Seq(Repo!Event)
    BY <2>1, <2>2, AppendProperties
  <2> QED
    BY <1>3, <2>2, <2>3 DEF Repo!Forward
<1>4. CASE Repo!Receive(s)
  <2>1. wire[s] \in Seq(Repo!Event) /\ wire[s] # << >>
    BY <1>4 DEF Repo!Receive
  <2>2. Tail(wire[s]) \in Seq(Repo!Event)
    BY <2>1, HeadTailProperties
  <2> QED
    BY <1>4, <2>2 DEF Repo!Receive
<1> QED
  BY <1>2, <1>3, <1>4

LEMMA RepoInductive == RepoInv /\ [Repo!Next]_repoVars => RepoInv'
<1> SUFFICES ASSUME RepoInv, [Repo!Next]_repoVars PROVE RepoInv'
  OBVIOUS
<1>1. CASE UNCHANGED repoVars
  BY <1>1 DEF repoVars, RepoInv, Repo!TypeOK
<1>2. CASE Repo!Next
  BY <1>2, AcceptTyped, BroadcastTyped, StreamTyped DEF Repo!Next
<1> QED
  BY <1>1, <1>2

-----------------------------------------------------------------------------
(* The composition                                                         *)

\* Every step of the federation is a step of the repository, or leaves it alone.
LEMMA StepOfRepo == [CentralNext]_vars => [Repo!Next]_repoVars
<1> SUFFICES ASSUME CentralNext \/ UNCHANGED vars PROVE [Repo!Next]_repoVars
  OBVIOUS
<1> USE DEF Repo!Next
<1>1. CASE OpenEventStream \/ StreamEvents \/ IterEvents \/ Leave
  BY <1>1 DEF OpenEventStream, StreamEvents, IterEvents, Leave
<1>2. CASE ListMetadata \/ ListenerStep \/ Traffic
  BY <1>2 DEF ListMetadata, ListenerStep, Traffic
<1>3. CASE Announce
  BY <1>3 DEF Announce
<1>4. CASE \E c \in Caller, d \in Domain :
             ScriptRegisters(c, d) \/ ScriptDeletes(c, d) \/ ScriptNotifies(c, d)
  BY <1>4 DEF ScriptRegisters, ScriptDeletes, ScriptNotifies
<1>5. CASE \E d \in Domain : ScriptRotates(d)
  BY <1>5 DEF ScriptRotates
<1>6. CASE UNCHANGED vars
  BY <1>6 DEF vars
<1> QED
  BY <1>1, <1>2, <1>3, <1>4, <1>5, <1>6 DEF CentralNext

\* The repository lists every registered domain and nothing else, in whatever
\* order the map is iterated.
LEMMA ListingComplete ==
  ASSUME RepoInv, NEW listing \in SetToSeqs(storage)
  PROVE  /\ listing \in Seq(Domain)
         /\ \A d : (\E i \in 1..Len(listing) : listing[i] = d) <=> d \in storage
<1> DEFINE n == Cardinality(storage)
<1>1. n \in Nat /\ storage \subseteq Domain /\ IsFiniteSet(storage)
  BY FS_CardinalityType DEF RepoInv, Repo!TypeOK
<1>2. /\ listing \in [1..n -> storage]
      /\ \A i, j \in 1..n : i # j => listing[i] # listing[j]
  BY DEF SetToSeqs
<1>3. listing \in Injection(1..n, storage)
  BY <1>2 DEF Injection, IsInjective
<1>4. IsFiniteSet(1..n) /\ Cardinality(1..n) = n
  BY <1>1, FS_Interval
<1>5. listing \in Surjection(1..n, storage)
  BY <1>1, <1>3, <1>4, FS_Injection
<1>6. Len(listing) = n /\ listing \in Seq(Domain)
  <2>1. listing \in [1..n -> Domain]
    BY <1>1, <1>2
  <2> HIDE DEF n
  <2> QED BY <1>1, <2>1
<1> QED
  BY <1>2, <1>5, <1>6 DEF Surjection

\* Every step of the federation is a step of its listener under some
\* transport, or leaves it alone.
LEMMA StepOfListener == RepoInv /\ [CentralNext]_vars => [ListenerNext]_listenerVars
<1> SUFFICES ASSUME RepoInv, CentralNext \/ UNCHANGED vars PROVE [ListenerNext]_listenerVars
  OBVIOUS
<1> USE DEF ListenerNext
<1>1. CASE OpenEventStream \/ Leave \/ Announce
  BY <1>1 DEF OpenEventStream, Leave, Announce
<1>2. CASE StreamEvents
  BY <1>2 DEF StreamEvents
<1>3. CASE ListMetadata
  <2>1. PICK listing \in SetToSeqs(storage) : Listed(listing)
    BY <1>3 DEF ListMetadata
  <2>2. todo' = listing /\ listing \in Seq(Domain)
    BY <2>1, ListingComplete DEF Listed
  <2> QED
    BY <2>1, <2>2
<1>4. CASE IterEvents
  <2>1. wire[Own] \in Seq(Repo!Event) /\ wire[Own] # << >>
    BY <1>4 DEF IterEvents, Repo!Receive, RepoInv, Repo!TypeOK
  <2>2. Head(wire[Own]) \in [type: EventType, domain: Domain]
    BY <2>1, HeadTailProperties DEF Repo!Event, Repo!EventType, EventType
  <2>3. \E type \in EventType, d \in Domain : Dispatch(type, d)
    BY <1>4, <2>2 DEF IterEvents
  <2> QED
    BY <2>3
<1>5. CASE ListenerStep
  BY <1>5 DEF ListenerStep
<1>6. CASE Traffic
  BY <1>6 DEF Traffic, Peer
<1>7. CASE \E c \in Caller, d \in Domain :
             ScriptRegisters(c, d) \/ ScriptDeletes(c, d) \/ ScriptNotifies(c, d)
  BY <1>7 DEF ScriptRegisters, ScriptDeletes, ScriptNotifies
<1>8. CASE \E d \in Domain : ScriptRotates(d)
  BY <1>8 DEF ScriptRotates, Peer
<1>9. CASE UNCHANGED vars
  BY <1>9 DEF vars
<1> QED
  BY <1>1, <1>2, <1>3, <1>4, <1>5, <1>6, <1>7, <1>8, <1>9 DEF CentralNext

LEMMA RepoInvariance == CentralSpec => []RepoInv
<1>1. CentralInit => RepoInv
  BY RepoInit DEF CentralInit
<1>2. RepoInv /\ [CentralNext]_vars => RepoInv'
  BY StepOfRepo, RepoInductive
<1> QED
  BY <1>1, <1>2, PTL DEF CentralSpec

\* The listener behind the repository's stream behaves as OAuthListener says:
\* what it is handed is always an event, and what it lists are domains.
THEOREM ListenerRefinement == CentralSpec => ListenerSpec
<1>1. CentralInit => ListenerInit
  BY DEF CentralInit
<1> QED
  BY <1>1, StepOfListener, RepoInvariance, PTL DEF CentralSpec, ListenerSpec

\* A domain that the listener of the centralized variant holds as seen has
\* everything handle_add sets up.
THEOREM CentralSeen == CentralSpec => []SeenIsConfigured
  BY ListenerRefinement, SeenConfigured, PTL

\* A peer that the listener of the centralized variant has forgotten cannot
\* use the realm, unless a handler failed.
THEOREM CentralNobodyForgotten == CentralSpec => []UsableIsSeen
  BY ListenerRefinement, NobodyForgotten, PTL

\* The federation keeps its types.
THEOREM CentralTypes == CentralSpec => []CentralTypeOK
<1> DEFINE OfPeers == unannounced \subseteq Peer
<1>1. CentralInit => OfPeers
  BY DEF CentralInit
<1>2. OfPeers /\ [CentralNext]_vars => OfPeers'
  BY DEF CentralNext, vars, OpenEventStream, StreamEvents, ListMetadata, IterEvents, Leave,
         ListenerStep, Announce, Traffic, ScriptRegisters, ScriptDeletes, ScriptNotifies,
         ScriptRotates
<1>3. ListenerTypeOK /\ RepoInv /\ OfPeers => CentralTypeOK
  BY DEF RepoInv, CentralTypeOK
<1> HIDE DEF OfPeers
<1>4. CentralSpec => []OfPeers
  BY <1>1, <1>2, PTL DEF CentralSpec
<1> QED
  BY <1>3, <1>4, ListenerRefinement, ListenerTypes, RepoInvariance, PTL
-----------------------------------------------------------------------------
(* The way of an announcement                                              *)

\* What has been announced to the listener and is not handled yet.
Stream == wire[Own] \o channel[Own]

\* A request or an event is about the membership of d.
Membership(e, d) == e.type \in {"domain_added", "domain_removed"} /\ e.domain = d

\* What a membership change says of d agrees with the map.
Agrees(e, d) == e.type = "domain_added" <=> d \in storage

\* Requests are numbered in the order in which they changed the map.
Numbered ==
  /\ \A c \in Caller : request[c] # Repo!None => request[c].nth <= accepted
  /\ \A b, c \in Caller :
       request[b] # Repo!None /\ request[c] # Repo!None /\ request[b].nth = request[c].nth
         => b = c

\* Of the changes of d that are still to be announced the newest agrees with
\* the map: an older one that is announced after it makes d overtaken.
RequestsAgree(d) ==
  \A c \in Caller : Membership(request[c], d) =>
    \/ Agrees(request[c], d)
    \/ \E b \in Caller : Membership(request[b], d) /\ request[b].nth > request[c].nth

Unasked(d) == \A c \in Caller : ~Membership(request[c], d)

\* When all of them are announced, the last announcement agrees with the map.
StreamAgrees(d) ==
  Unasked(d) =>
    \A i \in 1..Len(Stream) : Membership(Stream[i], d) =>
      \/ Agrees(Stream[i], d)
      \/ \E j \in 1..Len(Stream) : Membership(Stream[j], d) /\ j > i

Unheard(d) == \A i \in 1..Len(Stream) : ~Membership(Stream[i], d)

\* When all of them are heard, the listener agrees with the map.
ListenerAgrees(d) ==
  Unasked(d) /\ Unheard(d) /\ phase \in {"backfill", "listening"} =>
    (Held(d) <=> d \in storage)

\* A domain that never left was never announced to have left.
Faithful(d) ==
  /\ \A c \in Caller : ~(request[c].type = "domain_removed" /\ request[c].domain = d)
  /\ \A i \in 1..Len(Stream) : ~(Stream[i].type = "domain_removed" /\ Stream[i].domain = d)
  /\ Open(d)

\* An outdated copy of d's keys is about to be fetched again.
RotationOnItsWay(d) ==
  Outdated(d) =>
    \/ \E c \in Caller : request[c].type = "key_rotated" /\ request[c].domain = d
    \/ \E i \in 1..Len(Stream) : Stream[i].type = "key_rotated" /\ Stream[i].domain = d

\* The stream is open from before the listing on; before that it is empty.
Connected ==
  /\ phase \in {"listing", "backfill", "listening"} => Own \in sseClients
  /\ phase # "dead" /\ Own \notin sseClients => wire[Own] = << >> /\ channel[Own] = << >>

\* What holds of every peer while the listener is alive.
PeerInv(d) ==
  /\ d \notin overtaken \cup dropped => RequestsAgree(d) /\ StreamAgrees(d)
  /\ d \notin Excused => ListenerAgrees(d)
  /\ d \notin left \cup harmed => Faithful(d)
  /\ d \notin harmed \cup dropped \cup unannounced => RotationOnItsWay(d)

CentralInv ==
  /\ ListenerInv /\ Early /\ RepoInv
  /\ Numbered /\ Connected
  /\ phase # "dead" => \A d \in Peer : PeerInv(d)

-----------------------------------------------------------------------------
(* What the repository's steps do to it                                    *)

LEMMA StreamIsSeq == RepoInv => Stream \in Seq(Repo!Event)
  BY ConcatProperties DEF RepoInv, Repo!TypeOK, Stream

\* Writing an event to the connection delivers nothing.
LEMMA ForwardKeepsStream == ASSUME RepoInv, Repo!Forward(Own) PROVE Stream' = Stream
<1> DEFINE w == wire[Own]
           c == channel[Own]
<1>1. w \in Seq(Repo!Event) /\ c \in Seq(Repo!Event) /\ c # << >>
  BY DEF RepoInv, Repo!TypeOK, Repo!Forward
<1>2. wire'[Own] = Append(w, Head(c)) /\ channel'[Own] = Tail(c)
  BY DEF RepoInv, Repo!TypeOK, Repo!Forward
<1> HIDE DEF w, c
<1>3. Append(w, Head(c)) \o Tail(c) = w \o c
  <2>1. Head(c) \in Repo!Event /\ Tail(c) \in Seq(Repo!Event) /\ c = <<Head(c)>> \o Tail(c)
    BY <1>1, HeadTailProperties
  <2>2. <<Head(c)>> \in Seq(Repo!Event) /\ Append(w, Head(c)) = w \o <<Head(c)>>
    BY <1>1, <2>1, AppendIsConcat
  <2> QED
    BY <1>1, <2>1, <2>2, ConcatAssociative
<1> QED
  BY <1>2, <1>3 DEF Stream, w, c

\* What is read off the connection is the head of the stream.
LEMMA ReceiveTakesHead ==
  ASSUME RepoInv, Repo!Receive(Own)
  PROVE  /\ Stream # << >> /\ Head(wire[Own]) = Head(Stream)
         /\ Stream' = Tail(Stream)
<1> DEFINE w == wire[Own]
           c == channel[Own]
<1>1. w \in Seq(Repo!Event) /\ c \in Seq(Repo!Event) /\ w # << >>
  BY DEF RepoInv, Repo!TypeOK, Repo!Receive
<1>2. wire'[Own] = Tail(w) /\ channel'[Own] = c
  BY DEF RepoInv, Repo!TypeOK, Repo!Receive
<1> HIDE DEF w, c
<1>3. w \o c # << >> /\ Head(w) = Head(w \o c) /\ Tail(w) \o c = Tail(w \o c)
  BY <1>1
<1> QED
  BY <1>2, <1>3 DEF Stream, w, c

\* An announcement ends up at the end of the stream, or its subject is dropped.
LEMMA BroadcastAppends ==
  ASSUME RepoInv, NEW c \in Caller, Repo!Broadcast(c)
  PROVE  LET ev == [type |-> request[c].type, domain |-> request[c].domain]
         IN  \/ Own \notin sseClients /\ Stream' = Stream
             \/ Own \in sseClients /\ Stream' = Append(Stream, ev)
             \/ ev.domain \in dropped' /\ Stream' = Stream
<1> DEFINE ev == [type |-> request[c].type, domain |-> request[c].domain]
           w == wire[Own]
           q == channel[Own]
<1>1. /\ w \in Seq(Repo!Event) /\ q \in Seq(Repo!Event)
      /\ request[c] \in [type: Repo!EventType, domain: Domain, nth: 1..MaxRequests]
      /\ sseClients \subseteq {Own}
  BY DEF RepoInv, Repo!TypeOK, Repo!Broadcast
<1>2. ev \in Repo!Event
  BY <1>1 DEF Repo!Event
<1>3. wire' = wire /\ channel'[Own] = IF Repo!Room(Own) THEN Append(q, ev) ELSE q
  BY DEF Repo!Broadcast
<1>4. Own \in sseClients /\ ~Repo!Room(Own) => request[c].domain \in dropped'
  BY DEF Repo!Broadcast
<1>5. Repo!Room(Own) => Own \in sseClients
  BY DEF Repo!Room
<1>6. w \o Append(q, ev) = Append(w \o q, ev)
  <2> HIDE DEF ev, w, q
  <2> QED BY <1>1, <1>2
<1> QED
  BY <1>3, <1>4, <1>5, <1>6 DEF Stream

-----------------------------------------------------------------------------
(* One peer, step by step                                                  *)

\* A step of the listener that is no news.
LEMMA NoNewsKeeps ==
  ASSUME NEW d \in Peer, PeerInv(d), NoNews(d) \/ d \in harmed',
         harmed \subseteq harmed', Stream' = Stream,
         UNCHANGED <<storage, request, left, overtaken, dropped, unannounced>>,
         phase' \in {"backfill", "listening"} => phase \in {"backfill", "listening"}
  PROVE  PeerInv(d)'
<1>1. d \notin (overtaken \cup dropped)' => RequestsAgree(d)' /\ StreamAgrees(d)'
  BY DEF PeerInv, RequestsAgree, StreamAgrees, Unasked, Agrees, Membership
<1>2. d \notin Excused' => ListenerAgrees(d)'
  BY DEF PeerInv, Excused, ListenerAgrees, Unasked, Unheard, Membership, NoNews
<1>3. d \notin (left \cup harmed)' => Faithful(d)'
  BY DEF PeerInv, Faithful, NoNews
<1>4. d \notin (harmed \cup dropped \cup unannounced)' => RotationOnItsWay(d)'
  BY DEF PeerInv, RotationOnItsWay, NoNews
<1> QED
  BY <1>1, <1>2, <1>3, <1>4 DEF PeerInv

\* The listing: the map itself is what the listener takes over.
LEMMA ListingKeeps ==
  ASSUME NEW d \in Peer, PeerInv(d), UNCHANGED <<repoVars, unannounced>>,
         Held(d)' <=> d \in storage, Open(d)', ~Outdated(d)', harmed' = harmed
  PROVE  PeerInv(d)'
<1>0. Stream' = Stream /\ UNCHANGED <<storage, request, left, overtaken, dropped>>
  BY DEF repoVars, Stream
<1>1. d \notin (overtaken \cup dropped)' => RequestsAgree(d)' /\ StreamAgrees(d)'
  BY <1>0 DEF PeerInv, RequestsAgree, StreamAgrees, Unasked, Agrees, Membership
<1>2. ListenerAgrees(d)'
  BY <1>0 DEF ListenerAgrees
<1>3. d \notin (left \cup harmed)' => Faithful(d)'
  BY <1>0 DEF PeerInv, Faithful
<1>4. RotationOnItsWay(d)'
  BY DEF RotationOnItsWay
<1> QED
  BY <1>1, <1>2, <1>3, <1>4 DEF PeerInv

\* The listener hears the head of the stream.
LEMMA HearingKeeps ==
  ASSUME ListenerInv, Early, RepoInv, NEW d \in Peer, PeerInv(d), Repo!Receive(Own),
         Dispatch(Head(wire[Own]).type, Head(wire[Own]).domain), UNCHANGED unannounced
  PROVE  PeerInv(d)'
<1> DEFINE e == Head(Stream)
<1>1. /\ Stream \in Seq(Repo!Event) /\ Stream # << >> /\ Stream' = Tail(Stream)
      /\ e = Head(wire[Own])
  BY StreamIsSeq, ReceiveTakesHead
<1>2. e \in Repo!Event /\ e.type \in EventType /\ e.domain \in Domain
  <2>1. e \in Repo!Event
    BY <1>1, HeadTailProperties
  <2> HIDE DEF e
  <2> QED BY <2>1 DEF Repo!Event, Repo!EventType, EventType
<1>3. /\ Len(Stream) \in Nat /\ Len(Stream') = Len(Stream) - 1 /\ Stream[1] = e
      /\ \A i \in 1..Len(Stream') : Stream'[i] = Stream[i + 1]
      /\ \A i \in 2..Len(Stream) : i - 1 \in 1..Len(Stream') /\ Stream[i] = Stream'[i - 1]
  BY <1>1
<1>4. UNCHANGED <<storage, request, left, overtaken, dropped, unannounced, phase, harmed>>
  BY DEF Repo!Receive, Dispatch
<1>5. Dispatch(e.type, e.domain) /\ phase = "listening" /\ d \in Domain \ {Own}
  BY <1>1 DEF Dispatch, Peer
<1>6. /\ e.type = "domain_added" /\ e.domain = d => Held(d)'
      /\ e.type = "domain_removed" /\ e.domain = d => ~Held(d)'
      /\ e.type = "key_rotated" \/ e.domain # d => (Held(d)' <=> Held(d))
      /\ ~(e.type = "domain_removed" /\ e.domain = d) => (Open(d) => Open(d)')
      /\ Outdated(d)' => Outdated(d)
      /\ e.type = "key_rotated" /\ e.domain = d => ~Outdated(d)'
  <2> HIDE DEF e
  <2> QED BY <1>2, <1>5, DispatchEffect
<1> HIDE DEF e
<1>7. d \notin (overtaken \cup dropped)' => RequestsAgree(d)' /\ StreamAgrees(d)'
  <2>1. RequestsAgree(d) => RequestsAgree(d)'
    BY <1>4 DEF RequestsAgree, Agrees, Membership
  <2>2. StreamAgrees(d) => StreamAgrees(d)'
    <3> SUFFICES ASSUME StreamAgrees(d), Unasked(d)',
                        NEW i \in 1..Len(Stream'), Membership(Stream[i], d)', ~Agrees(Stream[i], d)'
                 PROVE  \E j \in 1..Len(Stream') : Membership(Stream'[j], d) /\ j > i
      BY DEF StreamAgrees, Membership
    <3>1. Unasked(d) /\ i + 1 \in 1..Len(Stream) /\ Stream[i + 1] = Stream'[i]
      BY <1>3, <1>4 DEF Unasked, Membership
    <3>2. Membership(Stream[i + 1], d) /\ ~Agrees(Stream[i + 1], d)
      BY <1>4, <3>1 DEF Agrees, Membership
    <3>3. PICK j \in 1..Len(Stream) : Membership(Stream[j], d) /\ j > i + 1
      BY <3>1, <3>2 DEF StreamAgrees
    <3> QED
      BY <1>3, <3>3
  <2> QED
    BY <1>4, <2>1, <2>2 DEF PeerInv
<1>8. d \notin Excused' => ListenerAgrees(d)'
  <2> SUFFICES ASSUME d \notin Excused', Unasked(d)', Unheard(d)'
               PROVE  Held(d)' <=> d \in storage'
    BY DEF ListenerAgrees
  <2>1. Unasked(d) /\ d \notin Excused /\ \A i \in 2..Len(Stream) : ~Membership(Stream[i], d)
    BY <1>3, <1>4 DEF Unasked, Unheard, Membership, Excused
  <2>2. CASE Membership(e, d)
    <3>1. Agrees(e, d)
      BY <1>3, <2>1, <2>2 DEF PeerInv, Excused, StreamAgrees
    <3> QED
      BY <1>4, <1>6, <2>2, <3>1 DEF Agrees, Membership
  <2>3. CASE ~Membership(e, d)
    <3>1. Unheard(d)
      BY <1>3, <2>1, <2>3 DEF Unheard
    <3>2. Held(d) <=> d \in storage
      BY <1>5, <2>1, <3>1 DEF PeerInv, ListenerAgrees
    <3> QED
      BY <1>2, <1>4, <1>6, <2>3, <3>2 DEF Membership, EventType
  <2> QED BY <2>2, <2>3
<1>9. d \notin (left \cup harmed)' => Faithful(d)'
  BY <1>3, <1>4, <1>6 DEF PeerInv, Faithful
<1>10. d \notin (harmed \cup dropped \cup unannounced)' => RotationOnItsWay(d)'
  BY <1>3, <1>4, <1>6 DEF PeerInv, RotationOnItsWay
<1> QED
  BY <1>7, <1>8, <1>9, <1>10 DEF PeerInv

\* The numbers of the requests only grow.
LEMMA NumbersGrow ==
  ASSUME RepoInv, Numbered, [Repo!Next]_repoVars
  PROVE  Numbered'
<1>0. /\ accepted \in Nat
      /\ \A b \in Caller : request[b] = Repo!None \/ request[b].nth \in Nat
      /\ request \in [Caller -> [type: Repo!EventType, domain: Domain, nth: 1..MaxRequests]
                                  \cup {Repo!None}]
  BY RepoAssumption DEF RepoInv, Repo!TypeOK
<1>1. ASSUME NEW c \in Caller, NEW type, NEW d \in Domain, Repo!Accept(c, type, d)
      PROVE  Numbered'
  <2> DEFINE r == [type |-> type, domain |-> d, nth |-> accepted + 1]
  <2>1. /\ request'[c].nth = accepted + 1 /\ accepted' = accepted + 1
        /\ \A b \in Caller \ {c} : request'[b] = request[b]
    BY <1>0, <1>1 DEF Repo!Accept
  <2> HIDE DEF r
  <2>2. \A b \in Caller : request'[b] # Repo!None => request'[b].nth <= accepted'
    BY <1>0, <2>1 DEF Numbered
  <2>3. ASSUME NEW a \in Caller, NEW b \in Caller, request'[a] # Repo!None,
               request'[b] # Repo!None, request'[a].nth = request'[b].nth
        PROVE  a = b
    BY <1>0, <2>1, <2>3 DEF Numbered
  <2> QED BY <2>2, <2>3 DEF Numbered
<1>2. ASSUME NEW c \in Caller, Repo!Broadcast(c) PROVE Numbered'
  <2>1. /\ request'[c] = Repo!None /\ \A b \in Caller \ {c} : request'[b] = request[b]
        /\ accepted' = accepted
    BY <1>0, <1>2 DEF Repo!Broadcast
  <2> QED BY <2>1 DEF Numbered
<1>3. CASE UNCHANGED <<request, accepted>>
  BY <1>3 DEF Numbered
<1> QED
  BY <1>1, <1>2, <1>3
  DEF Repo!Next, Repo!Register, Repo!Del, Repo!KeyRotated, Repo!Subscribe, Repo!Forward,
      Repo!Unsubscribe, Repo!Receive, repoVars

\* A request that is accepted is the newest change of its domain.
LEMMA AcceptKeeps ==
  ASSUME RepoInv, Numbered, NEW d \in Peer, PeerInv(d), NEW c \in Caller, NEW p \in Domain,
         ScriptRegisters(c, p) \/ ScriptDeletes(c, p) \/ ScriptNotifies(c, p)
  PROVE  PeerInv(d)'
<1>1. PICK type \in Repo!EventType :
        /\ Repo!Accept(c, type, p)
        /\ type = "domain_added" => storage' = storage \cup {p} /\ UNCHANGED <<left, unannounced>>
        /\ type = "domain_removed" => /\ storage' = storage \ {p} /\ left' = left \cup {p}
                                      /\ UNCHANGED unannounced
        /\ type = "key_rotated" => /\ UNCHANGED <<storage, left>>
                                   /\ unannounced' = unannounced \ {p}
  BY DEF ScriptRegisters, ScriptDeletes, ScriptNotifies, Repo!Register, Repo!Del,
         Repo!KeyRotated, Repo!EventType
<1> DEFINE r == [type |-> type, domain |-> p, nth |-> accepted + 1]
<1>2. /\ accepted \in Nat /\ accepted' = accepted + 1
      /\ \A b \in Caller : request[b] = Repo!None \/ request[b].nth \in Nat
      /\ request \in [Caller -> [type: Repo!EventType, domain: Domain, nth: 1..MaxRequests]
                                  \cup {Repo!None}]
  BY <1>1, RepoAssumption DEF RepoInv, Repo!TypeOK, Repo!Accept
<1>3. /\ request[c] = Repo!None /\ request' = [request EXCEPT ![c] = r]
      /\ Stream' = Stream /\ UNCHANGED <<overtaken, dropped, listenerVars>>
  BY <1>1 DEF Repo!Accept, Stream, ScriptRegisters, ScriptDeletes, ScriptNotifies
<1>4. /\ request'[c] = r /\ r.type = type /\ r.domain = p /\ r.nth = accepted + 1
      /\ \A b \in Caller \ {c} : request'[b] = request[b]
      /\ request[c].type = "none" /\ r # Repo!None
  BY <1>2, <1>3 DEF Repo!None
<1> HIDE DEF r
<1>5. (Held(d)' <=> Held(d)) /\ (Open(d)' <=> Open(d)) /\ (Outdated(d)' <=> Outdated(d))
      /\ UNCHANGED <<phase, harmed>>
  BY <1>3 DEF listenerVars, Held, Open, Outdated, Handling
<1>6. CASE Membership(r, d)
  <2>1. ~Unasked(d)'
    BY <1>4, <1>6 DEF Unasked, Membership
  <2>2. RequestsAgree(d)'
    <3>1. r.type = "domain_added" <=> d \in storage'
      BY <1>1, <1>4, <1>6 DEF Membership
    <3>2. \A b \in Caller : Membership(request[b], d) => request[b].nth < r.nth
      BY <1>2, <1>4 DEF Numbered, Membership, Repo!None
    <3> QED
      BY <1>4, <1>6, <3>1, <3>2 DEF RequestsAgree, Membership, Agrees
  <2>3. d \notin (left \cup harmed)' => Faithful(d)'
    BY <1>1, <1>3, <1>4, <1>5, <1>6 DEF PeerInv, Faithful, Membership
  <2>4. d \notin (harmed \cup dropped \cup unannounced)' => RotationOnItsWay(d)'
    BY <1>1, <1>3, <1>4, <1>5, <1>6 DEF PeerInv, RotationOnItsWay, Membership
  <2> QED
    BY <2>1, <2>2, <2>3, <2>4 DEF PeerInv, StreamAgrees, ListenerAgrees
<1>7. CASE ~Membership(r, d)
  <2>0. type = "key_rotated" \/ p # d
    BY <1>4, <1>7 DEF Membership, Repo!EventType
  <2>1. d \in storage' <=> d \in storage
    BY <1>1, <2>0 DEF Repo!EventType
  <2>2. \A b \in Caller : /\ Membership(request'[b], d) <=> Membership(request[b], d)
                          /\ Membership(request[b], d) => request'[b] = request[b]
    BY <1>4, <1>7 DEF Membership
  <2>3. d \notin (overtaken \cup dropped)' => RequestsAgree(d)' /\ StreamAgrees(d)'
    <3>1. RequestsAgree(d) => RequestsAgree(d)'
      BY <2>1, <2>2 DEF RequestsAgree, Agrees, Membership
    <3>2. StreamAgrees(d) => StreamAgrees(d)'
      BY <1>3, <2>1, <2>2 DEF StreamAgrees, Unasked, Agrees, Membership
    <3> QED BY <1>3, <3>1, <3>2 DEF PeerInv
  <2>4. d \notin Excused' => ListenerAgrees(d)'
    BY <1>3, <1>5, <2>1, <2>2 DEF PeerInv, Excused, ListenerAgrees, Unasked, Unheard, Membership
  <2>5. d \notin (left \cup harmed)' => Faithful(d)'
    BY <1>1, <1>3, <1>4, <1>5, <2>0 DEF PeerInv, Faithful, Repo!EventType
  <2>6. d \notin (harmed \cup dropped \cup unannounced)' => RotationOnItsWay(d)'
    <3>1. CASE type = "key_rotated" /\ p = d
      BY <1>4, <3>1 DEF RotationOnItsWay
    <3>2. CASE ~(type = "key_rotated" /\ p = d)
      BY <1>1, <1>3, <1>4, <1>5, <3>2 DEF PeerInv, RotationOnItsWay, Repo!EventType
    <3> QED BY <3>1, <3>2
  <2> QED
    BY <2>3, <2>4, <2>5, <2>6 DEF PeerInv
<1> QED BY <1>6, <1>7

\* A key that a peer rotates is not announced yet.
LEMMA RotatingKeeps ==
  ASSUME ListenerInv, NEW d \in Peer, PeerInv(d), NEW p \in Domain, ScriptRotates(p)
  PROVE  PeerInv(d)'
<1>1. /\ Stream' = Stream /\ unannounced' = unannounced \cup {p}
      /\ UNCHANGED <<storage, request, left, overtaken, dropped, phase, harmed>>
  BY DEF ScriptRotates, repoVars, RotateSigningKey, Stream
<1>2. /\ Held(d)' <=> Held(d)
      /\ Open(d) => Open(d)'
      /\ p # d => (Outdated(d)' => Outdated(d))
  BY RotateEffect DEF ScriptRotates, Peer
<1>3. d \notin (overtaken \cup dropped)' => RequestsAgree(d)' /\ StreamAgrees(d)'
  BY <1>1 DEF PeerInv, RequestsAgree, StreamAgrees, Unasked, Agrees, Membership
<1>4. d \notin Excused' => ListenerAgrees(d)'
  BY <1>1, <1>2 DEF PeerInv, Excused, ListenerAgrees, Unasked, Unheard, Membership
<1>5. d \notin (left \cup harmed)' => Faithful(d)'
  BY <1>1, <1>2 DEF PeerInv, Faithful
<1>6. d \notin (harmed \cup dropped \cup unannounced)' => RotationOnItsWay(d)'
  BY <1>1, <1>2 DEF PeerInv, RotationOnItsWay
<1> QED
  BY <1>3, <1>4, <1>5, <1>6 DEF PeerInv

\* An announcement that overtakes none of its domain is the last word on it.
LEMMA BroadcastKeeps ==
  ASSUME ListenerInv, Early, RepoInv, Numbered, Connected, phase # "dead",
         NEW d \in Peer, PeerInv(d), NEW c \in Caller, Repo!Broadcast(c),
         UNCHANGED <<listenerVars, unannounced>>
  PROVE  PeerInv(d)'
<1> DEFINE r == request[c]
           ev == [type |-> r.type, domain |-> r.domain]
<1>1. /\ r \in [type: Repo!EventType, domain: Domain, nth: 1..MaxRequests]
      /\ request'[c] = Repo!None /\ \A b \in Caller \ {c} : request'[b] = request[b]
      /\ UNCHANGED <<storage, left, sseClients>>
  BY DEF Repo!Broadcast, RepoInv, Repo!TypeOK
<1>2. /\ overtaken \subseteq overtaken' /\ dropped \subseteq dropped'
      /\ Repo!Overtakes(c) => r.domain \in overtaken'
  BY DEF Repo!Broadcast
<1>3. /\ Held(d)' <=> Held(d)
      /\ Open(d)' <=> Open(d)
      /\ Outdated(d)' <=> Outdated(d)
      /\ UNCHANGED <<phase, harmed>>
  BY DEF listenerVars, Held, Open, Outdated, Handling
<1>4. \/ Own \notin sseClients /\ Stream' = Stream
      \/ Own \in sseClients /\ Stream' = Append(Stream, ev)
      \/ ev.domain \in dropped' /\ Stream' = Stream
  BY BroadcastAppends
<1>5. Own \notin sseClients => /\ Stream = << >> /\ ~Outdated(d)
                               /\ phase \notin {"backfill", "listening"}
  <2> SUFFICES ASSUME Own \notin sseClients
               PROVE  /\ Stream = << >> /\ ~Outdated(d)
                      /\ phase \notin {"backfill", "listening"}
    OBVIOUS
  <2>1. wire[Own] = << >> /\ channel[Own] = << >> /\ << >> \in Seq(Repo!Event)
    BY DEF Connected
  <2>2. Stream = << >>
    BY <2>1, ConcatEmptySeq DEF Stream
  <2>3. phase \in {"starting", "subscribing"} \/ phase \notin Phase
    BY DEF Connected, Phase
  <2>4. phase \in {"starting", "subscribing"} => realm[d].keys = "none"
    BY DEF Early, Peer
  <2> QED BY <2>2, <2>3, <2>4 DEF Connected, Outdated, ListenerInv, ListenerTypeOK
<1>6. /\ Stream \in Seq(Repo!Event) /\ ev \in Repo!Event
      /\ ev.type = r.type /\ ev.domain = r.domain
  BY <1>1, StreamIsSeq DEF Repo!Event
<1>7. Stream' = Append(Stream, ev) =>
        /\ Len(Stream) \in Nat /\ Len(Stream') = Len(Stream) + 1
        /\ \A i \in 1..Len(Stream) : Stream'[i] = Stream[i]
        /\ Stream'[Len(Stream) + 1] = ev
  <2> HIDE DEF ev
  <2> QED BY <1>6
<1>8. \A b \in Caller \ {c} : Membership(request'[b], d) <=> Membership(request[b], d)
  BY <1>1 DEF Membership
<1>9. ~Membership(request'[c], d)
  BY <1>1 DEF Membership, Repo!None
<1>10. Membership(ev, d) <=> Membership(r, d)
  BY <1>6 DEF Membership
<1> HIDE DEF r, ev
<1>11. RequestsAgree(d) /\ Unasked(d)' /\ Membership(r, d) => Agrees(r, d)
  <2> SUFFICES ASSUME RequestsAgree(d), Unasked(d)', Membership(r, d), ~Agrees(r, d) PROVE FALSE
    OBVIOUS
  <2>1. PICK b \in Caller : Membership(request[b], d) /\ request[b].nth > r.nth
    BY DEF RequestsAgree, r
  <2>2. b # c
    BY <1>1, <2>1 DEF r
  <2> QED
    BY <1>8, <2>1, <2>2 DEF Unasked, Membership
<1>12. d \notin (overtaken \cup dropped)' => RequestsAgree(d)'
  <2> SUFFICES ASSUME d \notin (overtaken \cup dropped)', NEW b \in Caller \ {c},
                      Membership(request[b], d), ~Agrees(request[b], d)
               PROVE  \E a \in Caller \ {c} : /\ Membership(request[a], d)
                                               /\ request[a].nth > request[b].nth
    BY <1>1, <1>8, <1>9 DEF RequestsAgree, Membership, Agrees
  <2>1. RequestsAgree(d)
    BY <1>2 DEF PeerInv
  <2>2. PICK a \in Caller : Membership(request[a], d) /\ request[a].nth > request[b].nth
    BY <2>1 DEF RequestsAgree
  <2>3. CASE a # c
    BY <2>2, <2>3
  <2>4. CASE a = c
    <3>1. Agrees(r, d) => Repo!Overtakes(c)
      <4>1. Agrees(r, d) => {request[b].type, r.type} = {"domain_added", "domain_removed"}
        BY <2>2, <2>4 DEF Agrees, Membership, r
      <4>2. request[b] # Repo!None /\ request[b].domain = r.domain /\ request[b].nth < r.nth
        <5>1. request[b] \in [type: Repo!EventType, domain: Domain, nth: 1..MaxRequests] \cup {Repo!None}
          BY DEF RepoInv, Repo!TypeOK
        <5> QED BY <1>1, <2>2, <2>4, <5>1 DEF Membership, Repo!None, r
      <4> QED BY <4>1, <4>2 DEF Repo!Overtakes, r
    <3>2. ~Agrees(r, d)
      BY <1>2, <2>2, <2>4, <3>1 DEF Membership, r
    <3>3. PICK e \in Caller : Membership(request[e], d) /\ request[e].nth > r.nth
      BY <2>1, <2>2, <2>4, <3>2 DEF RequestsAgree, r
    <3>4. \A x \in Caller : Membership(request[x], d) => request[x].nth \in Nat
      BY RepoAssumption DEF RepoInv, Repo!TypeOK, Membership, Repo!None
    <3> QED
      BY <2>2, <2>4, <3>3, <3>4 DEF r
  <2> QED BY <2>3, <2>4
<1>13. d \notin (overtaken \cup dropped)' => StreamAgrees(d)'
  <2> SUFFICES ASSUME d \notin (overtaken \cup dropped)', Unasked(d)' PROVE StreamAgrees(d)'
    BY DEF StreamAgrees
  <2>0. RequestsAgree(d) /\ StreamAgrees(d)
    BY <1>2 DEF PeerInv
  <2>1. CASE Stream' = << >>
    BY <2>1 DEF StreamAgrees
  <2>2. CASE Membership(r, d) /\ Stream' = Append(Stream, ev)
    BY <1>1, <1>6, <1>7, <1>10, <1>11, <2>0, <2>2 DEF StreamAgrees, Agrees, Membership
  <2>3. CASE ~Membership(r, d) /\ Stream' = Append(Stream, ev)
    <3>1. Unasked(d)
      BY <1>8, <2>3 DEF Unasked, Membership, r
    <3> SUFFICES ASSUME NEW i \in 1..Len(Stream'), Membership(Stream'[i], d)
                 PROVE  \/ Stream'[i].type = "domain_added" <=> d \in storage
                        \/ \E j \in 1..Len(Stream') : Membership(Stream'[j], d) /\ j > i
      BY <1>1 DEF StreamAgrees, Agrees, Membership
    <3>2. i \in 1..Len(Stream) /\ Membership(Stream[i], d) /\ Stream[i] = Stream'[i]
      BY <1>7, <1>10, <2>3
    <3>3. \/ Agrees(Stream[i], d)
          \/ \E j \in 1..Len(Stream) : Membership(Stream[j], d) /\ j > i
      BY <2>0, <3>1, <3>2 DEF StreamAgrees
    <3> QED
      BY <1>7, <2>3, <3>2, <3>3 DEF Agrees
  <2>4. CASE ~Membership(r, d) /\ Stream' = Stream
    <3>1. Unasked(d)
      BY <1>8, <2>4 DEF Unasked, Membership, r
    <3> QED
      BY <1>1, <2>0, <2>4, <3>1 DEF StreamAgrees, Agrees, Membership
  <2> QED
    BY <1>4, <1>5, <1>6, <2>1, <2>2, <2>3, <2>4 DEF Membership
<1>14. d \notin Excused' => ListenerAgrees(d)'
  <2> SUFFICES ASSUME d \notin Excused', Unasked(d)', Unheard(d)',
                      phase' \in {"backfill", "listening"}
               PROVE  Held(d)' <=> d \in storage'
    BY DEF ListenerAgrees
  <2>1. ~Membership(r, d)
    BY <1>3, <1>4, <1>5, <1>6, <1>7, <1>10 DEF Excused, Unheard, Membership
  <2>2. Unasked(d) /\ Unheard(d)
    BY <1>4, <1>6, <1>7, <1>8, <2>1 DEF Unasked, Unheard, Membership, r
  <2> QED
    BY <1>1, <1>2, <1>3, <2>2 DEF PeerInv, Excused, ListenerAgrees
<1>15. d \notin (left \cup harmed)' => Faithful(d)'
  <2> SUFFICES ASSUME d \notin left \cup harmed PROVE Faithful(d)'
    BY <1>1, <1>3
  <2>1. Faithful(d) /\ ~(r.type = "domain_removed" /\ r.domain = d)
    BY DEF PeerInv, Faithful, r
  <2>2. \A b \in Caller : ~(request'[b].type = "domain_removed" /\ request'[b].domain = d)
    BY <1>1, <2>1 DEF Faithful, Repo!None
  <2> QED
    BY <1>3, <1>4, <1>6, <1>7, <2>1, <2>2 DEF Faithful
<1>16. d \notin (harmed \cup dropped \cup unannounced)' => RotationOnItsWay(d)'
  <2> SUFFICES ASSUME d \notin (harmed \cup dropped \cup unannounced)', Outdated(d)
               PROVE  RotationOnItsWay(d)'
    BY <1>3 DEF RotationOnItsWay
  <2>1. RotationOnItsWay(d)
    BY <1>2, <1>3 DEF PeerInv
  <2> QED
    BY <1>1, <1>4, <1>5, <1>6, <1>7, <2>1 DEF RotationOnItsWay, r
<1> QED
  BY <1>12, <1>13, <1>14, <1>15, <1>16 DEF PeerInv

-----------------------------------------------------------------------------
(* The federation                                                          *)

LEMMA CentralInvInit == CentralInit => CentralInv
<1> SUFFICES ASSUME CentralInit PROVE CentralInv
  OBVIOUS
<1>1. ListenerInv /\ Early /\ RepoInv
  BY ListenerInitEstablishes, EarlyInit, RepoInit DEF CentralInit
<1>2. Stream = << >>
  BY ConcatEmptySeq, EmptySeq DEF CentralInit, Repo!Init, Stream
<1>3. Numbered /\ Connected
  BY DEF CentralInit, ListenerInit, Repo!Init, Numbered, Connected
<1>4. ASSUME NEW d \in Peer PROVE PeerInv(d)
  <2>1. Open(d) /\ ~Outdated(d)
    BY DEF CentralInit, ListenerInit, Open, Outdated, Handling, NoJob, Blank, Peer
  <2>2. \A c \in Caller : request[c].type = "none"
    BY DEF CentralInit, Repo!Init, Repo!None
  <2> QED
    BY <1>2, <2>1, <2>2 DEF PeerInv, RequestsAgree, StreamAgrees, ListenerAgrees, Faithful,
       RotationOnItsWay, Membership, CentralInit, ListenerInit
<1> QED BY <1>1, <1>3, <1>4 DEF CentralInv

\* The stream is opened before the listing and stays open.
LEMMA ConnectedStep == ASSUME ListenerInv, RepoInv, Connected, [CentralNext]_vars PROVE Connected'
<1> USE DEF Connected
<1>0. sseClients \subseteq {Own} /\ channel \in [{Own} -> Seq(Repo!Event)]
      /\ wire \in [{Own} -> Seq(Repo!Event)]
  BY DEF RepoInv, Repo!TypeOK
<1>1. CASE OpenEventStream
  BY <1>0, <1>1 DEF OpenEventStream, Repo!Subscribe, listenerVars
<1>2. CASE StreamEvents
  BY <1>0, <1>2 DEF StreamEvents, Repo!Forward, Subscribed, listenerVars
<1>3. CASE ListMetadata
  BY <1>3 DEF ListMetadata, Listed, repoVars
<1>4. CASE IterEvents
  BY <1>0, <1>4 DEF IterEvents, Repo!Receive, Dispatch
<1>5. CASE Leave
  BY <1>5 DEF Leave, listenerVars
<1>6. CASE ListenerStep \/ Traffic
  <2>1. UNCHANGED repoVars
    BY <1>6 DEF ListenerStep, Traffic
  <2>2. \/ phase' = phase \/ phase' = "dead"
        \/ phase = "starting" /\ phase' = "subscribing"
        \/ phase = "backfill" /\ phase' = "listening"
    BY <1>6, PhaseStep DEF ListenerStep, Traffic, Peer
  <2> QED BY <2>1, <2>2 DEF repoVars
<1>7. CASE Announce
  BY <1>0, <1>7 DEF Announce, Repo!Broadcast, Repo!Room, listenerVars
<1>8. CASE \E c \in Caller, d \in Domain :
             ScriptRegisters(c, d) \/ ScriptDeletes(c, d) \/ ScriptNotifies(c, d)
  BY <1>8 DEF ScriptRegisters, ScriptDeletes, ScriptNotifies, Repo!Register, Repo!Del,
              Repo!KeyRotated, Repo!Accept, listenerVars
<1>9. CASE \E d \in Domain : ScriptRotates(d)
  BY <1>9 DEF ScriptRotates, RotateSigningKey, repoVars
<1>10. CASE UNCHANGED vars
  BY <1>10 DEF vars, listenerVars, repoVars
<1> QED
  BY <1>1, <1>2, <1>3, <1>4, <1>5, <1>6, <1>7, <1>8, <1>9, <1>10 DEF CentralNext

LEMMA CentralInvStep == CentralInv /\ [CentralNext]_vars => CentralInv'
<1> SUFFICES ASSUME CentralInv, [CentralNext]_vars PROVE CentralInv'
  OBVIOUS
<1> USE DEF CentralInv
<1>1. [ListenerNext]_listenerVars /\ [Repo!Next]_repoVars
  BY StepOfListener, StepOfRepo
<1>2. ListenerInv' /\ Early' /\ RepoInv'
  BY <1>1, ListenerInductive, EarlyInductive, RepoInductive
<1>3. Numbered' /\ Connected'
  BY <1>1, NumbersGrow, ConnectedStep
<1>4. ASSUME NEW d \in Peer, phase' # "dead" PROVE PeerInv(d)'
  <2>0. d \in Domain \ {Own}
    BY DEF Peer
  <2>1. CASE OpenEventStream
    <3>1. /\ phase # "dead" /\ UNCHANGED <<listenerVars, unannounced>>
          /\ wire' = wire /\ channel[Own] = << >> /\ channel'[Own] = << >>
          /\ UNCHANGED <<storage, request, left, overtaken, dropped>>
      BY <2>1 DEF OpenEventStream, Repo!Subscribe, Connected, RepoInv, Repo!TypeOK
    <3>2. Stream' = Stream
      BY <3>1 DEF Stream
    <3>3. NoNews(d) /\ UNCHANGED <<phase, harmed>>
      BY <3>1 DEF listenerVars, NoNews, Held, Open, Outdated, Handling
    <3> QED BY <3>1, <3>2, <3>3, NoNewsKeeps
  <2>2. CASE StreamEvents
    <3>1. /\ Stream' = Stream
          /\ UNCHANGED <<storage, request, left, overtaken, dropped, unannounced>>
      BY <2>2, ForwardKeepsStream DEF StreamEvents, Repo!Forward
    <3>2. CASE Subscribed
      <4>1. NoNews(d) \/ d \in harmed'
        BY <2>0, <3>2, LoopIsNoNews
      <4>2. phase # "dead" /\ phase' = "listing" /\ harmed' = harmed
        BY <3>2 DEF Subscribed
      <4> QED BY <3>1, <4>1, <4>2, NoNewsKeeps
    <3>3. CASE UNCHANGED listenerVars
      <4>1. NoNews(d) /\ UNCHANGED <<phase, harmed>>
        BY <3>3 DEF listenerVars, NoNews, Held, Open, Outdated, Handling
      <4> QED BY <1>4, <3>1, <4>1, NoNewsKeeps
    <3> QED BY <2>2, <3>2, <3>3 DEF StreamEvents
  <2>3. CASE ListMetadata
    <3>1. PICK listing \in SetToSeqs(storage) : Listed(listing)
      BY <2>3 DEF ListMetadata
    <3>2. phase # "dead" /\ harmed' = harmed /\ UNCHANGED <<repoVars, unannounced>>
      BY <2>3, <3>1 DEF Listed, ListMetadata
    <3>3. (Held(d)' <=> d \in storage) /\ Open(d)' /\ ~Outdated(d)'
      BY <2>0, <3>1, ListingComplete, ListedEffect
    <3> QED BY <3>2, <3>3, ListingKeeps
  <2>4. CASE IterEvents
    <3>1. phase # "dead"
      BY <2>4 DEF IterEvents, Dispatch
    <3> QED BY <2>4, <3>1, HearingKeeps DEF IterEvents
  <2>5. CASE Leave
    BY <1>4, <2>5 DEF Leave, listenerVars
  <2>6. CASE ListenerStep \/ Traffic
    <3>1. Step \/ SetUpFails \/ TokenExpires \/ \E p \in Domain \ {Own} : FetchKeys(p)
      BY <2>6 DEF ListenerStep, Traffic, Peer
    <3>2. UNCHANGED <<repoVars, unannounced>>
      BY <2>6 DEF ListenerStep, Traffic
    <3>3. Stream' = Stream /\ UNCHANGED <<storage, request, left, overtaken, dropped>>
      BY <3>2 DEF repoVars, Stream
    <3>4. NoNews(d) \/ d \in harmed'
      BY <2>0, <3>1, HandleIsNoNews, LoopIsNoNews DEF Step
    <3>5. /\ harmed \subseteq harmed'
          /\ phase' \in {"backfill", "listening"} => phase \in {"backfill", "listening"}
          /\ phase # "dead" \/ phase' = phase
      BY <1>4, <3>1, PhaseStep
    <3> QED BY <1>4, <3>2, <3>3, <3>4, <3>5, NoNewsKeeps
  <2>7. CASE Announce
    <3>1. phase # "dead"
      BY <1>4, <2>7 DEF Announce, listenerVars
    <3> QED BY <2>7, <3>1, BroadcastKeeps DEF Announce
  <2>8. CASE \E c \in Caller, p \in Domain :
               ScriptRegisters(c, p) \/ ScriptDeletes(c, p) \/ ScriptNotifies(c, p)
    <3>1. phase # "dead"
      BY <1>4, <2>8 DEF ScriptRegisters, ScriptDeletes, ScriptNotifies, listenerVars
    <3> QED BY <2>8, <3>1, AcceptKeeps
  <2>9. CASE \E p \in Domain : ScriptRotates(p)
    <3>1. phase # "dead"
      BY <1>4, <2>9 DEF ScriptRotates, RotateSigningKey
    <3> QED BY <2>9, <3>1, RotatingKeeps
  <2>10. CASE UNCHANGED vars
    <3>1. NoNews(d) /\ Stream' = Stream
          /\ UNCHANGED <<phase, harmed, storage, request, left, overtaken, dropped, unannounced>>
      BY <2>10 DEF vars, repoVars, listenerVars, NoNews, Held, Open, Outdated, Handling, Stream
    <3> QED BY <1>4, <3>1, NoNewsKeeps
  <2> QED
    BY <2>1, <2>2, <2>3, <2>4, <2>5, <2>6, <2>7, <2>8, <2>9, <2>10 DEF CentralNext
<1> QED
  BY <1>2, <1>3, <1>4

LEMMA CentralInvariance == CentralSpec => []CentralInv
  BY CentralInvInit, CentralInvStep, PTL DEF CentralSpec

\* When all is announced and heard, nothing is left in the stream.
LEMMA QuietMeansHeard ==
  ASSUME CentralInv, Quiet, NEW d \in Peer
  PROVE  /\ Unasked(d) /\ Unheard(d) /\ PeerInv(d) /\ phase = "listening" /\ job = NoJob
         /\ Stream = << >> /\ \A c \in Caller : request[c].type = "none"
         /\ Held(d) <=> d \in seen
<1>1. Stream = << >>
  BY EmptySeq, ConcatEmptySeq DEF Quiet, Stream
<1>2. \A c \in Caller : request[c].type = "none"
  BY DEF Quiet, Repo!None
<1>3. todo = << >>
  BY DEF CentralInv, Early, Quiet
<1> QED
  BY <1>1, <1>2, <1>3 DEF CentralInv, Quiet, Unasked, Unheard, Membership, Held, Handling, NoJob

\* In every federation, once everything is announced and handled, a domain
\* that is not registered cannot use the realm unless one of its handlers
\* failed or an announcement of it was lost or overtaken.
THEOREM CentralNoStaleAdmission == CentralSpec => []NoStaleAdmission
<1>1. CentralInv => NoStaleAdmission
  <2> SUFFICES ASSUME CentralInv, Quiet, NEW d \in Peer \ (storage \cup Excused)
               PROVE  ~Usable(d)
    BY DEF NoStaleAdmission
  <2>1. /\ ListenerAgrees(d) /\ Unasked(d) /\ Unheard(d) /\ phase = "listening"
        /\ job = NoJob /\ (Held(d) <=> d \in seen)
    BY QuietMeansHeard DEF PeerInv
  <2>2. d \notin seen /\ d \notin harmed /\ d \in Domain \ {Own}
    BY <2>1 DEF ListenerAgrees, Excused, Peer
  <2> QED
    BY <2>1, <2>2 DEF CentralInv, ListenerInv, Forgotten, Usable, NoJob
<1> QED
  BY <1>1, CentralInvariance, PTL

\* In every federation, once everything is announced and handled, a
\* registered domain that never left can use the realm, but for the failures
\* named: an addition during the set-up of the listener is not missed.
THEOREM CentralOnlyReturnersLockedOut == CentralSpec => []OnlyReturnersLockedOut
<1>1. CentralInv => OnlyReturnersLockedOut
  <2> SUFFICES ASSUME CentralInv, Quiet, NEW d \in (storage \ {Own}) \ (Excused \cup left)
               PROVE  Usable(d)
    BY DEF OnlyReturnersLockedOut
  <2>0. d \in Peer
    BY DEF CentralInv, RepoInv, Repo!TypeOK, Peer
  <2>1. /\ ListenerAgrees(d) /\ Unasked(d) /\ Unheard(d) /\ phase = "listening"
        /\ (Held(d) <=> d \in seen) /\ Faithful(d)
    BY <2>0, QuietMeansHeard DEF PeerInv, Excused
  <2>2. d \in seen
    BY <2>1 DEF ListenerAgrees
  <2>3. realm[d] \in Entry
    BY <2>0 DEF CentralInv, ListenerInv, ListenerTypeOK, Peer
  <2> QED
    BY <2>0, <2>1, <2>2, <2>3 DEF CentralInv, ListenerInv, SeenIsConfigured, Faithful, Open, Usable,
                                   Peer, Entry, State
<1> QED
  BY <1>1, CentralInvariance, PTL

\* In every federation, once everything is announced and handled, the realm
\* does not hold keys from before a rotation that was announced.
THEOREM CentralKeysFollowRotations == CentralSpec => []KeysFollowRotations
<1>1. CentralInv => KeysFollowRotations
  <2> SUFFICES ASSUME CentralInv, Quiet,
                      NEW d \in (storage \ {Own}) \ (harmed \cup dropped \cup unannounced)
               PROVE  realm[d].keys # "stale"
    BY DEF KeysFollowRotations
  <2>0. d \in Peer
    BY DEF CentralInv, RepoInv, Repo!TypeOK, Peer
  <2>1. RotationOnItsWay(d) /\ Stream = << >> /\ job = NoJob
        /\ \A c \in Caller : request[c].type = "none"
    BY <2>0, QuietMeansHeard DEF PeerInv
  <2> QED
    BY <2>1 DEF RotationOnItsWay, Outdated, Handling, NoJob
<1> QED
  BY <1>1, CentralInvariance, PTL
=============================================================================
