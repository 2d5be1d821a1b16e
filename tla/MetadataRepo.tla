---------------------------- MODULE MetadataRepo ----------------------------
(***************************************************************************)
(* The HTTP repository of the centralized OAuth variant: a map of the      *)
(* registered domains under one mutex, and the event streams under         *)
(* another. A handler changes the map, releases the first mutex, and only  *)
(* then broadcasts, so that handlers may announce out of order.            *)
(*                                                                         *)
(* All requests use one federation id, and a domain always registers the   *)
(* same addresses: the map is the set of registered domains. Requests with *)
(* a missing field change nothing and are left out.                        *)
(***************************************************************************)
EXTENDS Naturals, Sequences, FiniteSets

CONSTANTS
  Domain,
  Caller,       \* the clients whose requests may overlap
  Subscriber,
  Capacity,     \* buffer of a subscriber's channel (32 in the code)
  MaxRequests   \* bound on the requests that are accepted

VARIABLES
  storage,     \* the registered domains
  request,     \* per caller, the accepted request that is to be broadcast
  sseClients,  \* the subscribers whose channel is registered
  channel,     \* per subscriber, the buffered events
  wire,        \* per subscriber, the events written to its connection
  accepted,    \* requests accepted so far
  left,        \* history: domains that were removed at least once
  overtaken,   \* history: domains two of whose changes were announced in reverse
  dropped      \* history: domains an announcement of which was dropped

repoVars == <<storage, request, sseClients, channel, wire, accepted, left, overtaken, dropped>>

EventType == {"domain_added", "domain_removed", "key_rotated"}
Event == [type: EventType, domain: Domain]
None == [type |-> "none", nth |-> 0]

TypeOK ==
  /\ storage \subseteq Domain
  /\ request \in [Caller -> [type: EventType, domain: Domain, nth: 1..MaxRequests] \cup {None}]
  /\ sseClients \subseteq Subscriber
  /\ channel \in [Subscriber -> Seq(Event)]
  /\ wire \in [Subscriber -> Seq(Event)]
  /\ accepted \in 0..MaxRequests
  /\ left \subseteq Domain /\ overtaken \subseteq Domain /\ dropped \subseteq Domain

Init ==
  /\ storage = {}
  /\ request = [c \in Caller |-> None]
  /\ sseClients = {}
  /\ channel = [s \in Subscriber |-> << >>]
  /\ wire = [s \in Subscriber |-> << >>]
  /\ accepted = 0
  /\ left = {} /\ overtaken = {} /\ dropped = {}

-----------------------------------------------------------------------------
(* Requests, up to the release of storageMux                               *)

Accept(c, type, d) ==
  /\ request[c] = None /\ accepted < MaxRequests
  /\ accepted' = accepted + 1
  /\ request' = [request EXCEPT ![c] = [type |-> type, domain |-> d, nth |-> accepted + 1]]
  /\ UNCHANGED <<sseClients, channel, wire, overtaken, dropped>>

\* A domain that is registered already is registered again.
Register(c, d) ==
  /\ Accept(c, "domain_added", d)
  /\ storage' = storage \cup {d}
  /\ UNCHANGED left

\* 404 when the domain is not registered: nothing changes. Otherwise:
Del(c, d) ==
  /\ d \in storage
  /\ Accept(c, "domain_removed", d)
  /\ storage' = storage \ {d}
  /\ left' = left \cup {d}

KeyRotated(c, d) ==
  /\ d \in storage
  /\ Accept(c, "key_rotated", d)
  /\ UNCHANGED <<storage, left>>

-----------------------------------------------------------------------------
(* Announcements                                                           *)

Room(s) == s \in sseClients /\ Len(channel[s]) < Capacity

\* A change of membership of the same domain that was made before this one
\* and is still to be announced.
Overtakes(c) ==
  \E b \in Caller :
    /\ request[b] # None
    /\ request[b].nth < request[c].nth
    /\ request[b].domain = request[c].domain
    /\ {request[b].type, request[c].type} = {"domain_added", "domain_removed"}

\* The caller's handler offers its event to every channel; one without room
\* does not get it.
Broadcast(c) ==
  LET r  == request[c]
      ev == [type |-> r.type, domain |-> r.domain]
  IN  /\ r # None
      /\ channel' = [s \in Subscriber |-> IF Room(s) THEN Append(channel[s], ev) ELSE channel[s]]
      /\ dropped' = IF \A s \in sseClients : Room(s) THEN dropped ELSE dropped \cup {r.domain}
      /\ overtaken' = IF Overtakes(c) THEN overtaken \cup {r.domain} ELSE overtaken
      /\ request' = [request EXCEPT ![c] = None]
      /\ UNCHANGED <<storage, sseClients, wire, accepted, left>>

Subscribe(s) ==
  /\ s \notin sseClients
  /\ sseClients' = sseClients \cup {s}
  /\ channel' = [channel EXCEPT ![s] = << >>]
  /\ UNCHANGED <<storage, request, wire, accepted, left, overtaken, dropped>>

\* The stream's goroutine writes and flushes the next event. Nothing was
\* written before the first one, the response header neither.
Forward(s) ==
  /\ s \in sseClients /\ channel[s] # << >>
  /\ wire' = [wire EXCEPT ![s] = Append(@, Head(channel[s]))]
  /\ channel' = [channel EXCEPT ![s] = Tail(@)]
  /\ UNCHANGED <<storage, request, sseClients, accepted, left, overtaken, dropped>>

\* The client is gone.
Unsubscribe(s) ==
  /\ s \in sseClients
  /\ sseClients' = sseClients \ {s}
  /\ channel' = [channel EXCEPT ![s] = << >>]
  /\ UNCHANGED <<storage, request, wire, accepted, left, overtaken, dropped>>

\* iter_events takes the next line off the connection.
Receive(s) ==
  /\ wire[s] # << >>
  /\ wire' = [wire EXCEPT ![s] = Tail(@)]
  /\ UNCHANGED <<storage, request, sseClients, channel, accepted, left, overtaken, dropped>>

Next ==
  \/ \E c \in Caller, d \in Domain : Register(c, d) \/ Del(c, d) \/ KeyRotated(c, d)
  \/ \E c \in Caller : Broadcast(c)
  \/ \E s \in Subscriber : Subscribe(s) \/ Forward(s) \/ Unsubscribe(s) \/ Receive(s)

Spec == Init /\ [][Next]_repoVars
=============================================================================
