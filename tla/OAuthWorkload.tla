--------------------------- MODULE OAuthWorkload ---------------------------
(***************************************************************************)
(* One OAuth workload, calling workloads of peer domains: its two token    *)
(* caches, its cache of the peers file, and one goroutine per POST /call.  *)
(* A call makes at most two attempts, and each attempt fetches at most one *)
(* token of the own realm and one of the peer's: kind, call and attempt    *)
(* name a token.                                                           *)
(*                                                                         *)
(* The realms are external: the own one issues tokens signed with its      *)
(* active key; a peer's exchanges them while it holds the caller's         *)
(* provider and client open and knows the key, and introspects its own.    *)
(***************************************************************************)
EXTENDS Naturals

CONSTANTS
  Peer,       \* the workloads called, each of another domain
  MaxCalls,   \* bound on the POST /call requests
  Torn,       \* the only "entry" of the peers file while it is rewritten
  Life,       \* ticks a token lives
  Margin,     \* ticks before its end a cached token is no longer taken
  MaxTime,    \* bound on the clock
  MaxFaults   \* bound on requests that fail without a reason of their own

ASSUME NumbersAssumption ==
  {MaxCalls, Life, Margin, MaxTime, MaxFaults} \subseteq Nat
ASSUME TornAssumption == Torn \notin Peer
ASSUME PeerAssumption == Peer # {}

VARIABLES
  now,              \* the clock
  noIntrospection,  \* cfg.noIntrospection, of the whole federation
  ownToken,         \* the cached token of the own realm
  ownTokenMu,       \* the call that holds it over its request, or Nobody
  exchange,         \* the cached exchanged token, per peer
  metaCache,        \* peers whose Keycloak is known: never dropped
  call,             \* per call, its goroutine
  peersFile,        \* written by the listener of the own domain
  signing,          \* the active signing key of the own realm
  knows,            \* per peer, the keys of this domain its realm holds
  realm,            \* per peer, its provider and client for this domain
  faults            \* requests that failed for no reason of their own

workloadVars == <<ownToken, ownTokenMu, exchange, metaCache, call>>
realmVars == <<peersFile, signing, knows, realm>>
environmentVars == <<now, noIntrospection, realmVars, faults>>

Call == 1..MaxCalls
Nobody == 0
Key == {0, 1}
Never == MaxTime + Life + 1
Token == [id: ({"own", "exchanged"} \X Call \X {0, 1}) \cup {<< >>}, end: 0..(MaxTime + Life),
          arrived: 0..MaxTime, key: Key]
NoToken == [id |-> << >>, end |-> 0, arrived |-> 0, key |-> 0]
Entry == [token: Token, until: 0..(MaxTime + Life)]
Empty == [token |-> NoToken, until |-> 0]

Pc == {"idle", "own", "ownReply", "exchange", "exPost", "exReply",
       "peer", "dropOwn", "dropBoth", "dropExchange", "answered"}

\* The provider alone exists; the client may exchange; the provider is
\* disabled; the tokens issued so far are void; the client is disabled too.
Realm == {"absent", "idp", "open", "idpDisabled", "notBefore", "closed"}

Goroutine == [pc: Pc, peer: Peer, attempt: {0, 1}, tok: Token, exTok: Token,
              refused: SUBSET Token, status: {0, 200, 502}, key: Key]

NoCall == [pc |-> "idle", peer |-> CHOOSE p \in Peer : TRUE, attempt |-> 0, tok |-> NoToken,
           exTok |-> NoToken, refused |-> {}, status |-> 0, key |-> 0]
Gone == [NoCall EXCEPT !.pc = "answered"]

TypeOK ==
  /\ now \in 0..MaxTime /\ noIntrospection \in BOOLEAN
  /\ ownToken \in Entry /\ exchange \in [Peer -> Entry]
  /\ ownTokenMu \in Call \cup {Nobody}
  /\ metaCache \subseteq Peer
  /\ DOMAIN call = Call /\ \A c \in Call : call[c] \in Goroutine
  /\ peersFile \in (SUBSET Peer) \cup {{Torn}}
  /\ signing \in Key /\ knows \in [Peer -> SUBSET Key]
  /\ realm \in [Peer -> Realm]
  /\ faults \in 0..MaxFaults

Init ==
  /\ now = 0 /\ noIntrospection \in BOOLEAN
  /\ ownToken = Empty /\ ownTokenMu = Nobody
  /\ exchange = [p \in Peer |-> Empty]
  /\ metaCache = {}
  /\ call = [c \in Call |-> NoCall]
  /\ peersFile = {}
  /\ signing = 0 /\ knows = [p \in Peer |-> {}]
  /\ realm = [p \in Peer |-> "absent"]
  /\ faults = 0

-----------------------------------------------------------------------------
(* The goroutine of a call                                                 *)

\* Mutant: a token is taken from the cache until its very end.
FreshToTheEnd(entry) == now < entry.until

\* A cached token is taken while its end is more than the margin away.
Fresh(entry) == now + Margin < entry.until

Goes(c, pc) == call' = [call EXCEPT ![c].pc = pc]

\* The goroutine ends; of a success it is remembered which key signed the
\* token that was exchanged.
Answers(c, status) ==
  call' = [call EXCEPT ![c] = [Gone EXCEPT
             !.status = status, !.key = IF status = 200 THEN call[c].exTok.key ELSE 0]]

\* What is left of the first attempt is dropped, and the token it was refused
\* with remembered; a second attempt that is refused answers 502.
Refused(c, token, drop) ==
  IF call[c].attempt = 0
  THEN call' = [call EXCEPT ![c].pc = drop, ![c].refused = @ \cup {token}]
  ELSE Answers(c, 502)

Fault == faults < MaxFaults /\ faults' = faults + 1

\* Calls are numbered in the order in which they come.
Receive(c, p) ==
  /\ call[c].pc = "idle" /\ \A d \in 1..(c - 1) : call[d].pc # "idle"
  /\ call' = [call EXCEPT ![c].pc = "own", ![c].peer = p]
  /\ UNCHANGED <<ownToken, ownTokenMu, exchange, metaCache, environmentVars>>

Issued(kind, c, key) ==
  [id |-> <<kind, c, call[c].attempt>>, end |-> now + Life, arrived |-> 0, key |-> key]

\* The token with the time of its arrival, which no code keeps.
Arrived(token) == [token EXCEPT !.arrived = now]

\* A cached token is taken, or ownTokenMu is held over a request: the own realm
\* issues a token, whose answer is on the way.
GetOwnToken(c) ==
  /\ call[c].pc = "own" /\ ownTokenMu = Nobody
  /\ \/ /\ Fresh(ownToken)
        /\ call' = [call EXCEPT ![c].pc = "exchange", ![c].tok = ownToken.token]
        /\ UNCHANGED ownTokenMu
     \/ /\ ~ Fresh(ownToken)
        /\ ownTokenMu' = c
        /\ call' = [call EXCEPT ![c].pc = "ownReply", ![c].tok = Issued("own", c, signing)]
  /\ UNCHANGED <<ownToken, exchange, metaCache, environmentVars>>

\* The life of a cached token is counted from when the answer arrives.
OwnTokenArrives(c) ==
  /\ call[c].pc = "ownReply"
  /\ ownToken' = [token |-> Arrived(call[c].tok), until |-> now + Life]
  /\ ownTokenMu' = Nobody
  /\ call' = [call EXCEPT ![c].pc = "exchange", ![c].tok = Arrived(@)]
  /\ UNCHANGED <<exchange, metaCache, environmentVars>>

\* Mutant: the early return of a failure forgets the deferred unlock.
OwnTokenFailsLocked(c) ==
  /\ call[c].pc = "ownReply" /\ Fault
  /\ Refused(c, NoToken, "dropOwn") \/ Answers(c, 502)
  /\ UNCHANGED <<ownToken, ownTokenMu, exchange, metaCache, now, noIntrospection, realmVars>>

\* The own realm answers 400 or 401, which is tried again once, or the request
\* fails in another way, which is not.
OwnTokenFails(c) ==
  /\ call[c].pc = "ownReply" /\ Fault
  /\ Refused(c, NoToken, "dropOwn") \/ Answers(c, 502)
  /\ ownTokenMu' = Nobody
  /\ UNCHANGED <<ownToken, exchange, metaCache, now, noIntrospection, realmVars>>

InvalidateOwnToken(c) ==
  /\ call[c].pc \in {"dropOwn", "dropBoth"} /\ ownTokenMu = Nobody
  /\ ownToken' = Empty
  /\ call' = IF call[c].pc = "dropBoth" THEN [call EXCEPT ![c].pc = "dropExchange"]
             ELSE [call EXCEPT ![c].pc = "own", ![c].attempt = 1]
  /\ UNCHANGED <<ownTokenMu, exchange, metaCache, environmentVars>>

\* Mutant: the second attempt starts with the cache as it is.
InvalidateNothing(c) ==
  /\ call[c].pc = "dropExchange"
  /\ call' = [call EXCEPT ![c].pc = "own", ![c].attempt = 1]
  /\ UNCHANGED <<ownToken, ownTokenMu, exchange, metaCache, environmentVars>>

InvalidateExchange(c) ==
  /\ call[c].pc = "dropExchange"
  /\ exchange' = [exchange EXCEPT ![call[c].peer] = Empty]
  /\ call' = [call EXCEPT ![c].pc = "own", ![c].attempt = 1]
  /\ UNCHANGED <<ownToken, ownTokenMu, metaCache, environmentVars>>

\* Mutant: the error of a file that does not parse is ignored.
LookupTorn(p) == IF p \in metaCache THEN metaCache ELSE metaCache \cup peersFile

\* What is known of the peers' Keycloaks after a look at the peers file: one
\* that is being rewritten does not parse.
LookupKeycloakURL(p) ==
  IF p \in metaCache \/ peersFile = {Torn} THEN metaCache ELSE metaCache \cup peersFile

\* exchangeMu is not held over the request: two calls may both miss. A peer
\* whose Keycloak is not known ends the call.
GetExchangedToken(c) ==
  LET p == call[c].peer IN
  /\ call[c].pc = "exchange"
  /\ \/ /\ Fresh(exchange[p])
        /\ call' = [call EXCEPT ![c].pc = "peer", ![c].exTok = exchange[p].token]
        /\ UNCHANGED metaCache
     \/ /\ ~ Fresh(exchange[p])
        /\ metaCache' = LookupKeycloakURL(p)
        /\ IF p \in metaCache' THEN Goes(c, "exPost") ELSE Answers(c, 502)
  /\ UNCHANGED <<ownToken, ownTokenMu, exchange, environmentVars>>

\* A realm that holds no key yet fetches what the own realm publishes, the
\* keys that are no longer active included.
Known(p) == IF knows[p] = {} THEN 0..signing ELSE knows[p]

ExchangeGranted(c) ==
  LET p == call[c].peer
  IN  /\ call[c].pc = "exPost"
      /\ realm[p] = "open" /\ now < call[c].tok.end /\ call[c].tok.key \in Known(p)
      /\ knows' = [knows EXCEPT ![p] = Known(p)]
      /\ call' = [call EXCEPT ![c].pc = "exReply", ![c].exTok = Issued("exchanged", c, call[c].tok.key)]
      /\ UNCHANGED <<ownToken, ownTokenMu, exchange, metaCache, now, noIntrospection,
                     peersFile, signing, realm, faults>>

ExchangeRefused(c) ==
  /\ call[c].pc = "exPost"
  /\ \/ realm[call[c].peer] # "open"
     \/ now >= call[c].tok.end
     \/ call[c].tok.key \notin Known(call[c].peer)
  /\ Refused(c, call[c].tok, "dropBoth")
  /\ UNCHANGED <<ownToken, ownTokenMu, exchange, metaCache, environmentVars>>

\* A failure that is not one of authorisation ends the call.
ExchangeFails(c) ==
  /\ call[c].pc = "exPost" /\ Fault
  /\ Answers(c, 502)
  /\ UNCHANGED <<ownToken, ownTokenMu, exchange, metaCache, now, noIntrospection, realmVars>>

\* The answer overwrites whatever another call has stored, or invalidated.
ExchangedTokenArrives(c) ==
  /\ call[c].pc = "exReply"
  /\ exchange' = [exchange EXCEPT ![call[c].peer] =
                    [token |-> Arrived(call[c].exTok), until |-> now + Life]]
  /\ call' = [call EXCEPT ![c].pc = "peer", ![c].exTok = Arrived(@)]
  /\ UNCHANGED <<ownToken, ownTokenMu, metaCache, environmentVars>>

ValidateTokenStateless(token) == now < token.end

\* The peer's realm calls a token active that has not ended, whose client is
\* enabled and which was issued after the client's notBefore.
ValidateToken(p, token) ==
  /\ ValidateTokenStateless(token)
  /\ noIntrospection \/ realm[p] \in {"open", "idpDisabled"}

\* GET /api at the peer. An introspection that fails is answered 401 too.
HandleAPI(c) ==
  /\ call[c].pc = "peer"
  /\ \/ /\ ValidateToken(call[c].peer, call[c].exTok)
        /\ Answers(c, 200)
        /\ UNCHANGED faults
     \/ /\ ~ ValidateToken(call[c].peer, call[c].exTok)
        /\ Refused(c, call[c].exTok, "dropExchange")
        /\ UNCHANGED faults
     \/ /\ ~ noIntrospection /\ Fault
        /\ Refused(c, call[c].exTok, "dropExchange")
  /\ UNCHANGED <<ownToken, ownTokenMu, exchange, metaCache, now, noIntrospection, realmVars>>

CallPeerFails(c) ==
  /\ call[c].pc = "peer" /\ Fault
  /\ Answers(c, 502)
  /\ UNCHANGED <<ownToken, ownTokenMu, exchange, metaCache, now, noIntrospection, realmVars>>

\* What a call does once it is received, failures apart.
Advance(c) ==
  \/ GetOwnToken(c) \/ OwnTokenArrives(c)
  \/ InvalidateOwnToken(c) \/ InvalidateExchange(c)
  \/ GetExchangedToken(c)
  \/ ExchangeGranted(c) \/ ExchangeRefused(c) \/ ExchangedTokenArrives(c)
  \/ HandleAPI(c)

HandleCall(c) ==
  Advance(c) \/ OwnTokenFails(c) \/ ExchangeFails(c) \/ CallPeerFails(c)

-----------------------------------------------------------------------------
(* Time, the listeners and the realms                                      *)

\* An answer of Keycloak may be on the way for any number of ticks: the
\* requests for tokens have no timeout.
Tick ==
  /\ now < MaxTime
  /\ now' = now + 1
  /\ UNCHANGED <<workloadVars, noIntrospection, realmVars, faults>>

\* The listener of the own domain rewrites the peers file in place.
PeersFileChanges(content) ==
  /\ peersFile' = content
  /\ UNCHANGED <<workloadVars, now, noIntrospection, signing, knows, realm, faults>>

\* The listener of a peer takes one step of handle_add or handle_remove.
RealmFollows(p, from, to) ==
  /\ realm[p] = from
  /\ realm' = [realm EXCEPT ![p] = to]
  /\ UNCHANGED <<workloadVars, now, noIntrospection, peersFile, signing, knows, faults>>

\* reload-keys, by the listener of a peer or by Keycloak itself.
ReloadKeys(p) ==
  /\ knows[p] # {} /\ knows[p] # 0..signing
  /\ knows' = [knows EXCEPT ![p] = 0..signing]
  /\ UNCHANGED <<workloadVars, now, noIntrospection, peersFile, signing, realm, faults>>

RotateSigningKey ==
  /\ signing = 0
  /\ signing' = 1
  /\ UNCHANGED <<workloadVars, now, noIntrospection, peersFile, knows, realm, faults>>

\* The workload alone: the peers' file is written once, and a peer's realm
\* opens and shuts, whenever they please.
Next ==
  \/ \E c \in Call : HandleCall(c) \/ \E p \in Peer : Receive(c, p)
  \/ Tick
  \/ peersFile = {} /\ PeersFileChanges({Torn})
  \/ peersFile = {Torn} /\ PeersFileChanges(Peer)
  \/ \E p \in Peer :
       RealmFollows(p, "absent", "open") \/ RealmFollows(p, "open", "closed")

Spec == Init /\ [][Next]_<<workloadVars, environmentVars>>

\* Goroutines run, and Keycloak and the peer answer. The code has no timeout
\* on the requests for tokens: a Keycloak that hangs is outside the fairness,
\* and would hold ownTokenMu for ever.
FairSpec ==
  Spec /\ \A c \in Call : WF_<<workloadVars, environmentVars>>(Advance(c))

-----------------------------------------------------------------------------
(* Properties                                                              *)

\* Every call is answered: neither the retry nor the mutex loses one.
EveryCallAnswered ==
  \A c \in Call : call[c].pc # "idle" ~> call[c].pc = "answered"

\* The second attempt of a call presents neither the token of the own realm
\* nor the exchanged token that the first attempt was refused with, whatever
\* other calls fetch, store and invalidate in between.
RetryIsFresh ==
  \A c \in Call :
    /\ call[c].pc = "exPost" => call[c].tok \notin call[c].refused
    /\ call[c].pc = "peer" => call[c].exTok \notin call[c].refused

\* A realm counts a token's life from its issue, the workload from the arrival
\* of the answer, however late that is: a token that has ended may be taken
\* from a cache. It has arrived more than the margin less than a life ago, so
\* that it has ended, if at all, for less than the delay of its own answer
\* exceeds the margin, whichever calls stored it over another's, overwrote it or
\* invalidated the cache in between.
LateByDelayOnly ==
  [][\A c \in Call :
       /\ call[c].pc = "own" /\ call'[c].pc = "exchange" => now + Margin < call'[c].tok.arrived + Life
       /\ call[c].pc = "exchange" /\ call'[c].pc = "peer" => now + Margin < call'[c].exTok.arrived + Life
    ]_workloadVars
=============================================================================
