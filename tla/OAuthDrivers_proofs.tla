------------------------ MODULE OAuthDrivers_proofs ------------------------
(***************************************************************************)
(* Proofs about the measurement scripts of one OAuth domain, for every     *)
(* number of peers and calls: a rotation that a script has recorded as     *)
(* propagated is accepted everywhere, and a peer that the removal script   *)
(* counts as clean accepts no call of the removed domain any more.         *)
(***************************************************************************)
EXTENDS OAuthDrivers, TLAPS

envVars == <<workloadVars, environmentVars>>

LEMMA Numbers == /\ MaxCalls \in Nat /\ Life \in Nat /\ Margin \in Nat
                 /\ MaxTime \in Nat /\ MaxFaults \in Nat
  BY NumbersAssumption

-----------------------------------------------------------------------------
(* Types                                                                   *)

\* A blank goroutine, running or gone.
LEMMA BlankTyped == /\ NoToken \in Token /\ Empty \in Entry
                    /\ NoCall \in Goroutine /\ Gone \in Goroutine
<1>1. NoToken \in Token
  BY Numbers DEF NoToken, Token, Key
<1>2. Empty \in Entry
  BY <1>1, Numbers DEF Empty, Entry
<1>3. (CHOOSE p \in Peer : TRUE) \in Peer
  BY PeerAssumption
<1>4. NoCall \in Goroutine
  BY <1>1, <1>3 DEF NoCall, Goroutine, Pc, Key
<1> QED
  BY <1>1, <1>2, <1>4 DEF Gone, Goroutine, Pc

\* What a realm issues is a token.
LEMMA IssuedTyped ==
  ASSUME TypeOK, NEW kind \in {"own", "exchanged"}, NEW c \in Call, NEW key \in Key
  PROVE  Issued(kind, c, key) \in Token
<1>1. call[c].attempt \in {0, 1}
  BY DEF TypeOK, Goroutine
<1>2. now + Life \in 0..(MaxTime + Life)
  BY Numbers DEF TypeOK
<1>3. <<kind, c, call[c].attempt>> \in {"own", "exchanged"} \X Call \X {0, 1}
  BY <1>1
<1> QED
  BY <1>2, <1>3, Numbers DEF Issued, Token

LEMMA AnswersTyped ==
  ASSUME TypeOK, NEW c \in Call, NEW status \in {0, 200, 502}, Answers(c, status)
  PROVE  DOMAIN call' = Call /\ \A d \in Call : call'[d] \in Goroutine
<1> DEFINE key == IF status = 200 THEN call[c].exTok.key ELSE 0
           gone == [Gone EXCEPT !.status = status, !.key = key]
<1> HIDE DEF key
<1>1. key \in Key
  <2>1. call[c] \in Goroutine
    BY DEF TypeOK
  <2>2. call[c].exTok.key \in Key
    BY <2>1 DEF Goroutine, Token
  <2> QED
    BY <2>2 DEF key, Key
<1>2. gone \in Goroutine
  <2>1. Gone \in Goroutine
    BY BlankTyped
  <2> QED
    BY ZenonT(30), <1>1, <2>1 DEF Goroutine
<1>3. call' = [call EXCEPT ![c] = gone]
  BY DEF Answers, key
<1> QED
  BY <1>2, <1>3 DEF TypeOK

LEMMA RefusedTyped ==
  ASSUME TypeOK, NEW c \in Call, NEW token \in Token,
         NEW drop \in {"dropOwn", "dropBoth", "dropExchange"}, Refused(c, token, drop)
  PROVE  DOMAIN call' = Call /\ \A d \in Call : call'[d] \in Goroutine
<1>1. CASE call[c].attempt = 0
  <2>1. call' = [call EXCEPT ![c].pc = drop, ![c].refused = @ \cup {token}]
    BY <1>1 DEF Refused
  <2>2. [call[c] EXCEPT !.pc = drop, !.refused = @ \cup {token}] \in Goroutine
    <3> DEFINE both == call[c].refused \cup {token}
    <3>1. call[c] \in Goroutine
      BY DEF TypeOK
    <3>2. both \in SUBSET Token /\ drop \in Pc
      BY <3>1 DEF Goroutine, Pc
    <3> HIDE DEF both
    <3>3. [call[c] EXCEPT !.pc = drop, !.refused = both] \in Goroutine
      BY ZenonT(30), <3>1, <3>2 DEF Goroutine
    <3> QED
      BY <3>3 DEF both
  <2> QED
    BY <2>1, <2>2 DEF TypeOK
<1>2. CASE call[c].attempt # 0
  BY <1>2, AnswersTyped DEF Refused
<1> QED
  BY <1>1, <1>2

\* A token that arrives keeps its identity, its end and its key.
LEMMA ArrivedFields ==
  ASSUME TypeOK, NEW token \in Token
  PROVE  /\ Arrived(token) \in Token /\ Arrived(token).arrived = now
         /\ Arrived(token).id = token.id /\ Arrived(token).end = token.end
         /\ Arrived(token).key = token.key
  BY DEF Arrived, Token, TypeOK

LEMMA InitTyped == Init => TypeOK
  BY BlankTyped, Numbers DEF Init, TypeOK, Key, Realm, Call, Nobody

\* One step of a call.
LEMMA HandleCallTyped == ASSUME TypeOK, NEW c \in Call, HandleCall(c) PROVE TypeOK'
<1> USE Numbers
<1>1. call[c] \in Goroutine /\ call[c].tok \in Token /\ call[c].exTok \in Token /\ call[c].peer \in Peer
  BY DEF TypeOK, Goroutine
<1>2. CASE GetOwnToken(c)
  <2>1. signing \in Key /\ Issued("own", c, signing) \in Token /\ ownToken.token \in Token
    BY IssuedTyped DEF TypeOK, Entry
  <2>2. /\ [call[c] EXCEPT !.pc = "exchange", !.tok = ownToken.token] \in Goroutine
        /\ [call[c] EXCEPT !.pc = "ownReply", !.tok = Issued("own", c, signing)] \in Goroutine
    BY ZenonT(30), <1>1, <2>1 DEF Goroutine, Pc
  <2> QED
    BY <1>2, <2>2 DEF GetOwnToken, TypeOK, environmentVars, realmVars, Call, Nobody
<1>3. CASE OwnTokenArrives(c)
  <2> DEFINE t == Arrived(call[c].tok)
  <2>1. t \in Token
    BY <1>1, ArrivedFields
  <2>2. call' = [call EXCEPT ![c].pc = "exchange", ![c].tok = t]
    BY <1>3 DEF OwnTokenArrives
  <2>3. ownToken' = [token |-> t, until |-> now + Life]
    BY <1>3 DEF OwnTokenArrives
  <2> HIDE DEF t
  <2>4. [token |-> t, until |-> now + Life] \in Entry
    BY <2>1 DEF Entry, TypeOK
  <2>5. [call[c] EXCEPT !.pc = "exchange", !.tok = t] \in Goroutine
    BY ZenonT(30), <1>1, <2>1 DEF Goroutine, Pc
  <2> QED
    BY <1>3, <2>2, <2>3, <2>4, <2>5 DEF OwnTokenArrives, TypeOK, environmentVars, realmVars
<1>4. CASE InvalidateOwnToken(c)
  <2>1. /\ [call[c] EXCEPT !.pc = "dropExchange"] \in Goroutine
        /\ [call[c] EXCEPT !.pc = "own", !.attempt = 1] \in Goroutine
    BY ZenonT(30), <1>1 DEF Goroutine, Pc
  <2> QED
    BY <1>4, <2>1, BlankTyped DEF InvalidateOwnToken, TypeOK, environmentVars, realmVars
<1>5. CASE InvalidateExchange(c)
  <2>1. [call[c] EXCEPT !.pc = "own", !.attempt = 1] \in Goroutine
    BY ZenonT(30), <1>1 DEF Goroutine, Pc
  <2> QED
    BY <1>1, <1>5, <2>1, BlankTyped DEF InvalidateExchange, TypeOK, environmentVars, realmVars
<1>6. CASE GetExchangedToken(c)
  <2> DEFINE cached == exchange[call[c].peer].token
  <2>0. cached \in Token
    BY <1>1 DEF TypeOK, Entry
  <2> HIDE DEF cached
  <2>1. /\ [call[c] EXCEPT !.pc = "peer", !.exTok = cached] \in Goroutine
        /\ [call[c] EXCEPT !.pc = "exPost"] \in Goroutine
    BY ZenonT(30), <1>1, <2>0 DEF Goroutine, Pc
  <2>2. LookupKeycloakURL(call[c].peer) \subseteq Peer
    BY DEF LookupKeycloakURL, TypeOK
  <2>3. /\ DOMAIN call' = Call /\ \A d \in Call : call'[d] \in Goroutine
        /\ metaCache' \subseteq Peer
    <3>1. CASE Answers(c, 502)
      BY <1>6, <2>2, <3>1, AnswersTyped DEF GetExchangedToken, TypeOK
    <3>2. CASE Goes(c, "exPost")
      BY <1>6, <2>1, <2>2, <3>2 DEF GetExchangedToken, Goes, TypeOK
    <3>3. CASE call' = [call EXCEPT ![c].pc = "peer", ![c].exTok = cached]
      BY <1>6, <2>1, <2>2, <3>3 DEF GetExchangedToken, TypeOK
    <3> QED
      BY <1>6, <3>1, <3>2, <3>3 DEF GetExchangedToken, cached
  <2> QED
    BY <1>6, <2>3 DEF GetExchangedToken, TypeOK, environmentVars, realmVars
<1>7. CASE ExchangeGranted(c)
  <2>1. Issued("exchanged", c, call[c].tok.key) \in Token
    BY <1>1, IssuedTyped DEF Token
  <2>2. [call[c] EXCEPT !.pc = "exReply", !.exTok = Issued("exchanged", c, call[c].tok.key)] \in Goroutine
    BY ZenonT(30), <1>1, <2>1 DEF Goroutine, Pc
  <2>3. Known(call[c].peer) \subseteq Key
    BY <1>1 DEF Known, TypeOK, Key
  <2> QED
    BY <1>1, <1>7, <2>2, <2>3 DEF ExchangeGranted, TypeOK
<1>8. CASE ExchangedTokenArrives(c)
  <2> DEFINE t == Arrived(call[c].exTok)
  <2>1. t \in Token
    BY <1>1, ArrivedFields
  <2>2. call' = [call EXCEPT ![c].pc = "peer", ![c].exTok = t]
    BY <1>8 DEF ExchangedTokenArrives
  <2>3. exchange' = [exchange EXCEPT ![call[c].peer] = [token |-> t, until |-> now + Life]]
    BY <1>8 DEF ExchangedTokenArrives
  <2> HIDE DEF t
  <2>4. [token |-> t, until |-> now + Life] \in Entry
    BY <2>1 DEF Entry, TypeOK
  <2>5. [call[c] EXCEPT !.pc = "peer", !.exTok = t] \in Goroutine
    BY ZenonT(30), <1>1, <2>1 DEF Goroutine, Pc
  <2>6. DOMAIN call' = Call /\ \A d \in Call : call'[d] \in Goroutine
    BY <2>2, <2>5 DEF TypeOK
  <2>7. exchange' \in [Peer -> Entry]
    BY <1>1, <2>3, <2>4 DEF TypeOK
  <2> QED
    BY <1>8, <2>6, <2>7 DEF ExchangedTokenArrives, TypeOK, environmentVars, realmVars
<1>9. CASE ExchangeRefused(c)
  <2>1. DOMAIN call' = Call /\ \A d \in Call : call'[d] \in Goroutine
    BY <1>1, <1>9, RefusedTyped DEF ExchangeRefused
  <2> QED
    BY <1>9, <2>1 DEF ExchangeRefused, TypeOK, environmentVars, realmVars
<1>10. CASE HandleAPI(c)
  <2>1. DOMAIN call' = Call /\ \A d \in Call : call'[d] \in Goroutine
    BY <1>1, <1>10, RefusedTyped, AnswersTyped DEF HandleAPI
  <2> QED
    BY <1>10, <2>1 DEF HandleAPI, Fault, TypeOK, realmVars
<1>11. CASE OwnTokenFails(c)
  <2>1. DOMAIN call' = Call /\ \A d \in Call : call'[d] \in Goroutine
    BY <1>11, RefusedTyped, AnswersTyped, BlankTyped DEF OwnTokenFails
  <2> QED
    BY <1>11, <2>1 DEF OwnTokenFails, Fault, TypeOK, realmVars
<1>12. CASE ExchangeFails(c) \/ CallPeerFails(c)
  <2>1. DOMAIN call' = Call /\ \A d \in Call : call'[d] \in Goroutine
    BY <1>12, AnswersTyped DEF ExchangeFails, CallPeerFails
  <2> QED
    BY <1>12, <2>1 DEF ExchangeFails, CallPeerFails, Fault, TypeOK, realmVars
<1> QED
  BY <1>2, <1>3, <1>4, <1>5, <1>6, <1>7, <1>8, <1>9, <1>10, <1>11, <1>12 DEF HandleCall, Advance

\* Requests, the clock, the listeners and the realms.
LEMMA NextTyped == TypeOK /\ [Next]_envVars => TypeOK'
<1> SUFFICES ASSUME TypeOK, [Next]_envVars PROVE TypeOK'
  OBVIOUS
<1> USE Numbers
<1>1. ASSUME NEW c \in Call, HandleCall(c) PROVE TypeOK'
  BY <1>1, HandleCallTyped
<1>2. ASSUME NEW c \in Call, NEW p \in Peer, Receive(c, p) PROVE TypeOK'
  <2>1. [call[c] EXCEPT !.pc = "own", !.peer = p] \in Goroutine
    <3>1. call[c] \in Goroutine
      BY DEF TypeOK
    <3> QED
      BY ZenonT(30), <3>1 DEF Goroutine, Pc
  <2> QED
    BY <1>2, <2>1 DEF Receive, TypeOK, environmentVars, realmVars
<1>3. CASE Tick
  BY <1>3 DEF Tick, TypeOK, workloadVars, realmVars
<1>4. CASE PeersFileChanges({Torn}) \/ PeersFileChanges(Peer)
  BY <1>4 DEF PeersFileChanges, TypeOK, workloadVars
<1>5. ASSUME NEW p \in Peer, RealmFollows(p, "absent", "open") \/ RealmFollows(p, "open", "closed")
      PROVE  TypeOK'
  BY <1>5 DEF RealmFollows, TypeOK, workloadVars, Realm
<1>6. CASE UNCHANGED envVars
  BY <1>6 DEF envVars, workloadVars, environmentVars, realmVars, TypeOK
<1> QED
  BY <1>1, <1>2, <1>3, <1>4, <1>5, <1>6 DEF Next

\* The workload's caches, its goroutines and the realms keep their types; no
\* torn entry of the peers file ever reaches the metadata cache.
THEOREM TypeCorrectness == Spec => []TypeOK
  BY InitTyped, NextTyped, PTL DEF Spec, envVars

-----------------------------------------------------------------------------
(* Tokens that are taken are late by their delay only                      *)

\* A cached entry is kept for a life from the arrival of its own token.
Arrivals ==
  /\ ownToken.until <= ownToken.token.arrived + Life
  /\ \A p \in Peer : exchange[p].until <= exchange[p].token.arrived + Life

\* A goroutine that answers is blank, and no other goroutine moves.
LEMMA AnswersLeaves ==
  ASSUME TypeOK, NEW c \in Call, NEW status, Answers(c, status)
  PROVE  /\ \A d \in Call : d # c => call'[d] = call[d]
         /\ call'[c].pc = "answered" /\ call'[c].attempt = 0 /\ call'[c].refused = {}
  BY DEF TypeOK, Answers, Gone, NoCall

\* A goroutine that is refused either answers or starts to drop its tokens.
LEMMA RefusedLeaves ==
  ASSUME TypeOK, NEW c \in Call, NEW token, NEW drop, Refused(c, token, drop)
  PROVE  /\ \A d \in Call : d # c => call'[d] = call[d]
         /\ \/ call'[c].pc = "answered" /\ call'[c].attempt = 0 /\ call'[c].refused = {}
            \/ /\ call'[c].pc = drop
               /\ call[c].attempt = 0 /\ call'[c].attempt = 0
               /\ call'[c].refused = call[c].refused \cup {token}
<1>1. CASE call[c].attempt = 0
  <2>1. call' = [call EXCEPT ![c].pc = drop, ![c].refused = @ \cup {token}]
    BY <1>1 DEF Refused
  <2>2. call[c] \in Goroutine /\ c \in DOMAIN call /\ DOMAIN call = Call
    BY DEF TypeOK
  <2>3. call'[c] = [call[c] EXCEPT !.pc = drop, !.refused = call[c].refused \cup {token}]
    BY <2>1, <2>2
  <2>4. /\ call'[c].pc = drop /\ call'[c].attempt = call[c].attempt
        /\ call'[c].refused = call[c].refused \cup {token}
    BY <2>2, <2>3 DEF Goroutine
  <2>5. \A d \in Call : d # c => call'[d] = call[d]
    BY <2>1, <2>2
  <2> QED
    BY <1>1, <2>4, <2>5
<1>2. CASE call[c].attempt # 0
  BY <1>2, AnswersLeaves DEF Refused
<1> QED
  BY <1>1, <1>2

\* The fields of a token that is issued.
LEMMA IssuedFields ==
  ASSUME NEW kind, NEW c \in Call, NEW key
  PROVE  /\ Issued(kind, c, key).end = now + Life
         /\ Issued(kind, c, key).id = <<kind, c, call[c].attempt>>
  BY DEF Issued

\* A step of a call moves no other call.
LEMMA MovesAlone ==
  ASSUME TypeOK, NEW c \in Call, HandleCall(c)
  PROVE  \A d \in Call : d # c => call'[d] = call[d]
<1>1. DOMAIN call = Call
  BY DEF TypeOK
<1>2. \/ GetOwnToken(c) \/ OwnTokenArrives(c) \/ InvalidateOwnToken(c) \/ InvalidateExchange(c)
      \/ ExchangeGranted(c) \/ ExchangedTokenArrives(c)
      => \A d \in Call : d # c => call'[d] = call[d]
  BY <1>1 DEF GetOwnToken, OwnTokenArrives, InvalidateOwnToken, InvalidateExchange, ExchangeGranted,
              ExchangedTokenArrives, Goes
<1>3. GetExchangedToken(c) => \A d \in Call : d # c => call'[d] = call[d]
  BY <1>1, AnswersLeaves DEF GetExchangedToken, Goes
<1>4. ExchangeRefused(c) \/ HandleAPI(c) \/ OwnTokenFails(c) \/ ExchangeFails(c) \/ CallPeerFails(c)
      => \A d \in Call : d # c => call'[d] = call[d]
  BY AnswersLeaves, RefusedLeaves
  DEF ExchangeRefused, HandleAPI, OwnTokenFails, ExchangeFails, CallPeerFails
<1> QED
  BY <1>2, <1>3, <1>4 DEF HandleCall, Advance

LEMMA InitArrivals == Init => Arrivals
<1>1. Empty.until = 0 /\ Empty.token.arrived = 0
  BY DEF Empty, NoToken
<1> QED
  BY <1>1, Numbers DEF Init, Arrivals

\* A step of a call keeps the entries in step with their tokens.
LEMMA HandleCallArrivals ==
  ASSUME TypeOK, Arrivals, NEW c \in Call, HandleCall(c) PROVE Arrivals'
<1> USE Numbers
<1>1. Empty.until = 0 /\ Empty.token.arrived = 0
  BY DEF Empty, NoToken
<1>2. /\ call[c].tok \in Token /\ call[c].exTok \in Token /\ call[c].peer \in Peer
      /\ exchange \in [Peer -> Entry] /\ now \in Nat
  BY DEF TypeOK, Goroutine
<1>3. CASE OwnTokenArrives(c)
  <2>1. /\ ownToken'.until = now + Life /\ ownToken'.token = Arrived(call[c].tok)
        /\ exchange' = exchange
    BY <1>3 DEF OwnTokenArrives
  <2> QED
    BY <1>2, <2>1, ArrivedFields DEF Arrivals
<1>4. CASE ExchangedTokenArrives(c)
  <2> DEFINE entry == [token |-> Arrived(call[c].exTok), until |-> now + Life]
  <2>1. ownToken' = ownToken /\ exchange' = [exchange EXCEPT ![call[c].peer] = entry]
    BY <1>4 DEF ExchangedTokenArrives
  <2>2. entry.until <= entry.token.arrived + Life
    BY <1>2, ArrivedFields
  <2> QED
    BY <1>2, <2>1, <2>2 DEF Arrivals
<1>5. CASE InvalidateOwnToken(c)
  BY <1>1, <1>5 DEF InvalidateOwnToken, Arrivals
<1>6. CASE InvalidateExchange(c)
  BY <1>1, <1>2, <1>6 DEF InvalidateExchange, Arrivals
<1>7. CASE UNCHANGED <<ownToken, exchange>>
  BY <1>7 DEF Arrivals
<1>8. GetOwnToken(c) \/ GetExchangedToken(c) \/ ExchangeGranted(c) \/ ExchangeRefused(c)
      \/ HandleAPI(c) \/ OwnTokenFails(c) \/ ExchangeFails(c) \/ CallPeerFails(c)
      => UNCHANGED <<ownToken, exchange>>
  BY DEF GetOwnToken, GetExchangedToken, ExchangeGranted, ExchangeRefused, HandleAPI,
         OwnTokenFails, ExchangeFails, CallPeerFails
<1> QED
  BY <1>3, <1>4, <1>5, <1>6, <1>7, <1>8 DEF HandleCall, Advance

\* A call takes from a cache what has more than the margin to its entry's end,
\* which is a life after the arrival of its token.
LEMMA HandleCallTakesFresh ==
  ASSUME TypeOK, Arrivals, NEW c \in Call, HandleCall(c)
  PROVE  /\ call[c].pc = "own" /\ call'[c].pc = "exchange" => now + Margin < call'[c].tok.arrived + Life
         /\ call[c].pc = "exchange" /\ call'[c].pc = "peer" => now + Margin < call'[c].exTok.arrived + Life
<1> USE Numbers
<1>0. /\ call[c] \in Goroutine /\ DOMAIN call = Call /\ call[c].peer \in Peer
      /\ now \in Nat
  BY DEF TypeOK, Goroutine
<1>1. ASSUME NEW e \in Entry, Fresh(e), e.until <= e.token.arrived + Life
      PROVE  now + Margin < e.token.arrived + Life
  <2>1. e.until \in Nat /\ e.token.arrived \in Nat
    BY DEF Entry, Token
  <2> QED
    BY <1>0, <1>1, <2>1 DEF Fresh
<1>2. now + Margin < ownToken.token.arrived + Life \/ ~ Fresh(ownToken)
  BY <1>1 DEF Arrivals, TypeOK
<1>3. \A p \in Peer : now + Margin < exchange[p].token.arrived + Life \/ ~ Fresh(exchange[p])
  BY <1>1 DEF Arrivals, TypeOK
<1>4. CASE GetOwnToken(c)
  BY <1>0, <1>2, <1>4 DEF GetOwnToken, Goroutine
<1>5. CASE GetExchangedToken(c)
  <2>1. CASE Answers(c, 502)
    BY <1>5, <2>1, AnswersLeaves DEF GetExchangedToken
  <2>2. CASE Goes(c, "exPost")
    BY <1>0, <1>5, <2>2 DEF GetExchangedToken, Goes, Goroutine
  <2>3. CASE /\ Fresh(exchange[call[c].peer])
             /\ call' = [call EXCEPT ![c].pc = "peer", ![c].exTok = exchange[call[c].peer].token]
    BY <1>0, <1>3, <1>5, <2>3 DEF GetExchangedToken, Goroutine
  <2> QED
    BY <1>5, <2>1, <2>2, <2>3 DEF GetExchangedToken
<1> QED
  BY <1>4, <1>5
  DEF HandleCall, Advance, OwnTokenArrives, InvalidateOwnToken, InvalidateExchange, ExchangeGranted,
      ExchangeRefused, ExchangedTokenArrives, HandleAPI, OwnTokenFails, ExchangeFails, CallPeerFails

-----------------------------------------------------------------------------
(* The second attempt                                                      *)

Drops == {"dropOwn", "dropBoth", "dropExchange"}

\* No answer that is still to come bears this name.
Settled(kind, d, a) ==
  \/ call[d].pc = "answered"
  \/ a < call[d].attempt
  \/ /\ a = call[d].attempt
     /\ \/ call[d].pc \in Drops \cup {"peer"}
        \/ kind = "own" /\ call[d].pc \in {"exchange", "exPost", "exReply"}

\* A token of this kind that has been stored.
Old(kind, t) == \E d \in Call, a \in {0, 1} : t.id = <<kind, d, a>> /\ Settled(kind, d, a)

\* Both caches hold old tokens, when they hold any.
CachesOld ==
  /\ ownToken.until > 0 => Old("own", ownToken.token)
  /\ \A p \in Peer : exchange[p].until > 0 => Old("exchanged", exchange[p].token)

\* A token on the way bears the name of its call and attempt; what a call
\* presents, and what it was refused with, is old.
CallOld(c) ==
  /\ call[c].pc = "ownReply" => call[c].tok.id = <<"own", c, call[c].attempt>>
  /\ call[c].pc = "exReply" => call[c].exTok.id = <<"exchanged", c, call[c].attempt>>
  /\ call[c].pc \in {"exchange", "exPost"} => Old("own", call[c].tok)
  /\ call[c].pc = "peer" => Old("exchanged", call[c].exTok)
  /\ \A t \in call[c].refused : t.id = << >> \/ Old("own", t) \/ Old("exchanged", t)

\* What a call was refused with leaves the caches before the second attempt.
CallFresh(c) ==
  /\ call[c].pc \in Drops \cup {"idle"} => call[c].attempt = 0
  /\ call[c].pc \notin Drops /\ call[c].attempt = 0 => call[c].refused = {}
  /\ call[c].pc = "dropOwn" => \A t \in call[c].refused : t.id = << >>
  /\ (call[c].pc = "dropExchange" \/ call[c].attempt = 1) /\ ownToken.until > 0 =>
       ownToken.token \notin call[c].refused
  /\ call[c].attempt = 1 /\ exchange[call[c].peer].until > 0 =>
       exchange[call[c].peer].token \notin call[c].refused
  /\ call[c].pc \in {"exchange", "exPost"} => call[c].tok \notin call[c].refused
  /\ call[c].pc = "peer" => call[c].exTok \notin call[c].refused

RetryInv == CachesOld /\ \A c \in Call : CallOld(c) /\ CallFresh(c)

\* A call only moves forward: its attempt, and where it stands in it.
Forward(c) ==
  \/ call'[c].pc = "answered"
  \/ call[c].attempt = 0 /\ call'[c].pc = "own" /\ call'[c].attempt = 1
  \/ /\ call'[c].attempt = call[c].attempt
     /\ \/ call[c].pc \in {"idle", "own", "ownReply"}
        \/ /\ call[c].pc \in {"exchange", "exPost", "exReply"}
           /\ call'[c].pc \in {"exchange", "exPost", "exReply", "peer"} \cup Drops
        \/ call[c].pc \in Drops \cup {"peer"} /\ call'[c].pc \in Drops \cup {"peer"}

\* What has settled stays so.
LEMMA ForwardSettles ==
  ASSUME TypeOK, NEW c \in Call, Forward(c), call[c].pc # "answered",
         \A d \in Call : d # c => call'[d] = call[d],
         NEW kind, NEW d \in Call, NEW a \in {0, 1}, Settled(kind, d, a)
  PROVE  Settled(kind, d, a)'
<1>1. CASE d # c
  BY <1>1 DEF Settled
<1>2. CASE d = c
  BY <1>2 DEF Settled, Forward, Drops
<1> QED
  BY <1>1, <1>2

LEMMA ForwardOld ==
  ASSUME TypeOK, NEW c \in Call, Forward(c), call[c].pc # "answered",
         \A d \in Call : d # c => call'[d] = call[d],
         NEW kind, NEW t, Old(kind, t)
  PROVE  Old(kind, t)'
  BY ForwardSettles DEF Old

\* The token of an answer on the way is in no cache, and nobody was refused it.
LEMMA OnTheWayIsNew ==
  ASSUME NEW c \in Call, NEW kind \in {"own", "exchanged"}, NEW t,
         t.id = <<kind, c, call[c].attempt>>, ~ Settled(kind, c, call[c].attempt)
  PROVE  t.id # << >> /\ ~ Old("own", t) /\ ~ Old("exchanged", t)
  BY DEF Old

\* A stored token of one kind is none of the other, nor the absent one.
LEMMA OldKinds ==
  ASSUME NEW t
  PROVE  /\ Old("own", t) => ~ Old("exchanged", t)
         /\ Old("own", t) \/ Old("exchanged", t) => t.id # << >>
  BY DEF Old

LEMMA InitRetry == Init => RetryInv
<1>1. /\ NoCall.pc = "idle" /\ NoCall.attempt = 0 /\ NoCall.refused = {}
      /\ Empty.until = 0
  BY DEF NoCall, Empty
<1> QED
  BY <1>1 DEF Init, RetryInv, CachesOld, CallOld, CallFresh, Drops

\* The other calls, while this one moves forward: a token that reaches a cache
\* is none they were refused with.
LEMMA OthersKeep ==
  ASSUME TypeOK, RetryInv, NEW c \in Call, Forward(c), call[c].pc # "answered",
         \A d \in Call : d # c => call'[d] = call[d],
         NEW d \in Call, d # c,
         ownToken' \in {ownToken, Empty} \/ ownToken'.token \notin call[d].refused,
         \A p \in Peer : exchange'[p] \in {exchange[p], Empty}
                         \/ exchange'[p].token \notin call[d].refused
  PROVE  CallOld(d)' /\ CallFresh(d)'
<1>1. call'[d] = call[d] /\ CallOld(d) /\ CallFresh(d)
  BY DEF RetryInv
<1>2. CallOld(d)'
  <2>1. \A kind, t : Old(kind, t) => Old(kind, t)'
    BY ForwardOld
  <2>2. /\ Old("own", call[d].tok) => Old("own", call[d].tok)'
        /\ Old("exchanged", call[d].exTok) => Old("exchanged", call[d].exTok)'
    BY <1>1, <2>1
  <2> QED
    BY <1>1, <2>1, <2>2 DEF CallOld
<1>3. CallFresh(d)'
  <2>1. call[d].peer \in Peer
    <3>1. call[d] \in Goroutine
      BY DEF TypeOK
    <3> QED
      BY <3>1 DEF Goroutine
  <2>2. Empty.until = 0
    BY DEF Empty
  <2>3. ownToken' = ownToken \/ ownToken'.until = 0 \/ ownToken'.token \notin call[d].refused
    BY <2>2
  <2>4. LET p == call[d].peer IN
          exchange'[p] = exchange[p] \/ exchange'[p].until = 0 \/ exchange'[p].token \notin call[d].refused
    BY <2>1, <2>2
  <2> QED
    BY <1>1, <2>3, <2>4 DEF CallFresh
<1> QED
  BY <1>2, <1>3

\* A step that stores nothing: the caches keep what they hold, or are emptied.
LEMMA StoresNothing ==
  ASSUME TypeOK, RetryInv, NEW c \in Call, Forward(c), call[c].pc # "answered",
         \A d \in Call : d # c => call'[d] = call[d],
         ownToken' \in {ownToken, Empty},
         \A p \in Peer : exchange'[p] \in {exchange[p], Empty},
         CallOld(c)', CallFresh(c)'
  PROVE  RetryInv'
<1>1. \A d \in Call : CallOld(d)' /\ CallFresh(d)'
  BY OthersKeep
<1>2. CachesOld'
  <2>1. \A kind, t : Old(kind, t) => Old(kind, t)'
    BY ForwardOld
  <2>2. Empty.until = 0
    BY DEF Empty
  <2>3. CachesOld
    BY DEF RetryInv
  <2>4. ownToken'.until > 0 => Old("own", ownToken.token)'
    BY <2>1, <2>2, <2>3 DEF CachesOld
  <2>5. \A p \in Peer : exchange'[p].until > 0 => Old("exchanged", exchange[p].token)'
    BY <2>1, <2>2, <2>3 DEF CachesOld
  <2> QED
    BY <2>4, <2>5 DEF CachesOld
<1> QED
  BY <1>1, <1>2 DEF RetryInv

\* A call that answers.
LEMMA AnswersRetry ==
  ASSUME TypeOK, RetryInv, NEW c \in Call, NEW status, Answers(c, status),
         call[c].pc # "answered", UNCHANGED <<ownToken, exchange>>
  PROVE  RetryInv'
<1>1. /\ \A d \in Call : d # c => call'[d] = call[d]
      /\ call'[c].pc = "answered" /\ call'[c].attempt = 0 /\ call'[c].refused = {}
  BY AnswersLeaves
<1>2. Forward(c)
  BY <1>1 DEF Forward
<1>3. CallOld(c)' /\ CallFresh(c)'
  BY <1>1 DEF CallOld, CallFresh, Drops
<1> QED
  BY <1>1, <1>2, <1>3, StoresNothing

\* A call that is refused with a token: it answers, or drops what the token
\* was taken from.
LEMMA RefusedRetry ==
  ASSUME TypeOK, RetryInv, NEW c \in Call, NEW token, NEW drop \in Drops, Refused(c, token, drop),
         call[c].pc \in {"ownReply", "exPost", "peer"}, UNCHANGED <<ownToken, exchange>>,
         drop = "dropOwn" => token.id = << >> /\ call[c].pc = "ownReply",
         drop = "dropBoth" => Old("own", token),
         drop = "dropExchange" => Old("exchanged", token) /\ call[c].pc = "peer",
         Forward(c)
  PROVE  RetryInv'
<1>1. /\ \A d \in Call : d # c => call'[d] = call[d]
      /\ \/ call'[c].pc = "answered" /\ call'[c].attempt = 0 /\ call'[c].refused = {}
         \/ /\ call'[c].pc = drop
            /\ call[c].attempt = 0 /\ call'[c].attempt = 0
            /\ call'[c].refused = call[c].refused \cup {token}
  BY RefusedLeaves
<1>2. CASE call'[c].pc = "answered" /\ call'[c].attempt = 0 /\ call'[c].refused = {}
  <2>1. CallOld(c)' /\ CallFresh(c)'
    BY <1>2 DEF CallOld, CallFresh, Drops
  <2> QED
    BY <1>1, <2>1, StoresNothing
<1>3. CASE /\ call'[c].pc = drop
           /\ call[c].attempt = 0 /\ call'[c].attempt = 0
           /\ call'[c].refused = call[c].refused \cup {token}
  <2>1. call'[c].refused = {token}
    BY <1>3 DEF RetryInv, CallFresh, Drops
  <2>2. CallOld(c)'
    <3>1. Old("own", token)' \/ Old("exchanged", token)' \/ token.id = << >>
      BY <1>1, ForwardOld DEF Drops
    <3> QED
      BY <1>3, <2>1, <3>1 DEF CallOld, Drops
  <2>3. CallFresh(c)'
    <3>1. drop = "dropExchange" /\ ownToken.until > 0 => ownToken.token # token
      BY OldKinds DEF RetryInv, CachesOld
    <3> QED
      BY <1>3, <2>1, <3>1 DEF CallFresh, Drops
  <2> QED
    BY <1>1, <2>2, <2>3, StoresNothing
<1> QED
  BY <1>1, <1>2, <1>3

\* A token of the own realm arrives.
LEMMA OwnArrivesRetry ==
  ASSUME TypeOK, RetryInv, NEW c \in Call, OwnTokenArrives(c) PROVE RetryInv'
<1> DEFINE t == Arrived(call[c].tok)
<1>1. /\ call[c] \in Goroutine /\ c \in DOMAIN call /\ DOMAIN call = Call
      /\ CachesOld /\ CallOld(c) /\ CallFresh(c)
  BY DEF TypeOK, RetryInv
<1>0. t.id = call[c].tok.id
  BY <1>1, ArrivedFields DEF Goroutine
<1>2. /\ call[c].pc = "ownReply"
      /\ call'[c] = [call[c] EXCEPT !.pc = "exchange", !.tok = t]
      /\ \A d \in Call : d # c => call'[d] = call[d]
      /\ ownToken'.token = t /\ exchange' = exchange
  BY <1>1 DEF OwnTokenArrives
<1> HIDE DEF t
<1>3. /\ call'[c].pc = "exchange" /\ call'[c].tok = t
      /\ call'[c].attempt = call[c].attempt /\ call'[c].refused = call[c].refused
      /\ call'[c].peer = call[c].peer /\ call[c].attempt \in {0, 1}
  BY <1>1, <1>2 DEF Goroutine
<1>4. Forward(c) /\ call[c].pc # "answered"
  BY <1>2, <1>3 DEF Forward
<1>5. t.id = <<"own", c, call[c].attempt>> /\ ~ Settled("own", c, call[c].attempt)
  BY <1>0, <1>1, <1>2, <1>3 DEF CallOld, Settled, Drops
<1>6. Settled("own", c, call[c].attempt)'
  BY <1>3 DEF Settled
<1>7. Old("own", call[c].tok)'
  BY <1>3, <1>5, <1>6 DEF Old
<1>8. \A d \in Call : t \notin call[d].refused
  BY <1>5, OnTheWayIsNew DEF RetryInv, CallOld
<1>9. \A kind, u : Old(kind, u) => Old(kind, u)'
  BY <1>2, <1>4, ForwardOld
<1>10. CachesOld'
  BY <1>1, <1>2, <1>7, <1>9 DEF CachesOld
<1>11. CallOld(c)'
  BY <1>1, <1>3, <1>7, <1>9 DEF CallOld
<1>12. CallFresh(c)'
  BY <1>1, <1>2, <1>3, <1>8 DEF CallFresh, Drops
<1>13. \A d \in Call : d # c => CallOld(d)' /\ CallFresh(d)'
  BY <1>2, <1>4, <1>8, OthersKeep
<1> QED
  BY <1>10, <1>11, <1>12, <1>13 DEF RetryInv

\* An exchanged token arrives.
LEMMA ExchangedArrivesRetry ==
  ASSUME TypeOK, RetryInv, NEW c \in Call, ExchangedTokenArrives(c) PROVE RetryInv'
<1> DEFINE t == Arrived(call[c].exTok)
<1>1. /\ call[c] \in Goroutine /\ c \in DOMAIN call /\ DOMAIN call = Call
      /\ exchange \in [Peer -> Entry]
      /\ CachesOld /\ CallOld(c) /\ CallFresh(c)
  BY DEF TypeOK, RetryInv
<1>0. t.id = call[c].exTok.id
  BY <1>1, ArrivedFields DEF Goroutine
<1>2. /\ call[c].pc = "exReply" /\ call[c].peer \in Peer
      /\ call'[c] = [call[c] EXCEPT !.pc = "peer", !.exTok = t]
      /\ \A d \in Call : d # c => call'[d] = call[d]
      /\ ownToken' = ownToken
      /\ exchange'[call[c].peer].token = t
      /\ \A p \in Peer : p # call[c].peer => exchange'[p] = exchange[p]
  BY <1>1 DEF ExchangedTokenArrives, Goroutine
<1> HIDE DEF t
<1>3. /\ call'[c].pc = "peer" /\ call'[c].exTok = t
      /\ call'[c].attempt = call[c].attempt /\ call'[c].refused = call[c].refused
      /\ call'[c].peer = call[c].peer /\ call[c].attempt \in {0, 1}
  BY <1>1, <1>2 DEF Goroutine
<1>4. Forward(c) /\ call[c].pc # "answered"
  BY <1>2, <1>3 DEF Forward
<1>5. t.id = <<"exchanged", c, call[c].attempt>> /\ ~ Settled("exchanged", c, call[c].attempt)
  BY <1>0, <1>1, <1>2, <1>3 DEF CallOld, Settled, Drops
<1>6. Settled("exchanged", c, call[c].attempt)'
  BY <1>3 DEF Settled
<1>7. Old("exchanged", call[c].exTok)'
  BY <1>3, <1>5, <1>6 DEF Old
<1>8. \A d \in Call : t \notin call[d].refused
  BY <1>5, OnTheWayIsNew DEF RetryInv, CallOld
<1>9. \A kind, u : Old(kind, u) => Old(kind, u)'
  BY <1>2, <1>4, ForwardOld
<1>10. CachesOld'
  BY <1>1, <1>2, <1>7, <1>9 DEF CachesOld
<1>11. CallOld(c)'
  BY <1>1, <1>3, <1>7, <1>9 DEF CallOld
<1>12. CallFresh(c)'
  BY <1>1, <1>2, <1>3, <1>8 DEF CallFresh, Drops
<1>13. \A d \in Call : d # c => CallOld(d)' /\ CallFresh(d)'
  BY <1>2, <1>4, <1>8, OthersKeep
<1> QED
  BY <1>10, <1>11, <1>12, <1>13 DEF RetryInv

\* A token is taken from a cache, requested, or a cache is emptied.
LEMMA HandleCallRetry ==
  ASSUME TypeOK, RetryInv, NEW c \in Call, HandleCall(c) PROVE RetryInv'
<1>0. /\ call[c] \in Goroutine /\ c \in DOMAIN call /\ DOMAIN call = Call
      /\ call[c].peer \in Peer /\ call[c].attempt \in {0, 1}
      /\ exchange \in [Peer -> Entry] /\ now \in Nat
      /\ CachesOld /\ CallOld(c) /\ CallFresh(c)
  BY DEF TypeOK, Goroutine, RetryInv
<1>1. \A d \in Call : d # c => call'[d] = call[d]
  BY MovesAlone
<1>2. ASSUME NEW e \in Entry, Fresh(e) PROVE e.until > 0
  BY <1>0, <1>2, Numbers DEF Fresh, Entry
<1>3. CASE GetOwnToken(c)
  <2>0. UNCHANGED <<ownToken, exchange>> /\ call[c].pc = "own"
    BY <1>3 DEF GetOwnToken, environmentVars
  <2>1. CASE Fresh(ownToken) /\ call' = [call EXCEPT ![c].pc = "exchange", ![c].tok = ownToken.token]
    <3>1. /\ call'[c].pc = "exchange" /\ call'[c].tok = ownToken.token
          /\ call'[c].attempt = call[c].attempt /\ call'[c].refused = call[c].refused
          /\ call'[c].peer = call[c].peer
      BY <1>0, <2>1 DEF Goroutine
    <3>2. ownToken.until > 0
      BY <1>2, <2>1 DEF TypeOK
    <3>3. Forward(c)
      BY <2>0, <3>1 DEF Forward
    <3>4. \A kind, t : Old(kind, t) => Old(kind, t)'
      BY <1>1, <2>0, <3>3, ForwardOld
    <3>5. Old("own", ownToken.token)
      BY <1>0, <3>2 DEF CachesOld
    <3>6. CallOld(c)'
      BY <1>0, <3>1, <3>4, <3>5 DEF CallOld
    <3>7. CallFresh(c)'
      BY <1>0, <2>0, <3>1, <3>2 DEF CallFresh, Drops
    <3> QED
      BY <1>1, <2>0, <3>3, <3>6, <3>7, StoresNothing
  <2>2. CASE call' = [call EXCEPT ![c].pc = "ownReply", ![c].tok = Issued("own", c, signing)]
    <3>1. /\ call'[c].pc = "ownReply" /\ call'[c].tok = Issued("own", c, signing)
          /\ call'[c].attempt = call[c].attempt /\ call'[c].refused = call[c].refused
          /\ call'[c].peer = call[c].peer
      BY <1>0, <2>2 DEF Goroutine
    <3>2. Forward(c)
      BY <2>0, <3>1 DEF Forward
    <3>3. \A kind, t : Old(kind, t) => Old(kind, t)'
      BY <1>1, <2>0, <3>2, ForwardOld
    <3>4. call'[c].tok.id = <<"own", c, call'[c].attempt>>
      BY <3>1, IssuedFields
    <3>5. CallOld(c)'
      BY <1>0, <3>1, <3>3, <3>4 DEF CallOld
    <3>6. CallFresh(c)'
      BY <1>0, <2>0, <3>1 DEF CallFresh, Drops
    <3> QED
      BY <1>1, <2>0, <3>2, <3>5, <3>6, StoresNothing
  <2> QED
    BY <1>3, <2>1, <2>2 DEF GetOwnToken
<1>4. CASE InvalidateOwnToken(c)
  <2>1. /\ ownToken' = Empty /\ exchange' = exchange
        /\ call[c].pc \in Drops /\ Empty.until = 0
    BY <1>4 DEF InvalidateOwnToken, Drops, environmentVars, Empty
  <2>2. CASE call[c].pc = "dropBoth" /\ call' = [call EXCEPT ![c].pc = "dropExchange"]
    <3>1. /\ call'[c].pc = "dropExchange"
          /\ call'[c].attempt = call[c].attempt /\ call'[c].refused = call[c].refused
      BY <1>0, <2>2 DEF Goroutine
    <3>2. Forward(c)
      BY <2>1, <3>1 DEF Forward, Drops
    <3>3. CallOld(c)'
      BY <1>0, <1>1, <2>1, <3>1, <3>2, ForwardOld DEF CallOld, Drops
    <3>4. CallFresh(c)'
      BY <1>0, <2>1, <3>1 DEF CallFresh, Drops
    <3> QED
      BY <1>1, <2>1, <3>2, <3>3, <3>4, StoresNothing DEF Drops
  <2>3. CASE call[c].pc = "dropOwn" /\ call' = [call EXCEPT ![c].pc = "own", ![c].attempt = 1]
    <3>1. /\ call'[c].pc = "own" /\ call'[c].attempt = 1
          /\ call'[c].refused = call[c].refused /\ call'[c].peer = call[c].peer
      BY <1>0, <2>3 DEF Goroutine
    <3>2. Forward(c)
      BY <1>0, <2>1, <3>1 DEF Forward, CallFresh
    <3>3. CallOld(c)'
      BY <1>0, <1>1, <2>1, <3>1, <3>2, ForwardOld DEF CallOld, Drops
    <3>4. exchange[call[c].peer].until > 0 => exchange[call[c].peer].token \notin call[c].refused
      BY <1>0, <2>3, OldKinds DEF CachesOld, CallFresh
    <3>5. CallFresh(c)'
      BY <2>1, <3>1, <3>4 DEF CallFresh, Drops
    <3> QED
      BY <1>1, <2>1, <3>2, <3>3, <3>5, StoresNothing DEF Drops
  <2> QED
    BY <1>4, <2>2, <2>3 DEF InvalidateOwnToken
<1>5. CASE InvalidateExchange(c)
  <2>1. /\ ownToken' = ownToken /\ exchange'[call[c].peer] = Empty
        /\ \A p \in Peer : exchange'[p] \in {exchange[p], Empty}
        /\ call[c].pc = "dropExchange" /\ Empty.until = 0
    BY <1>0, <1>5 DEF InvalidateExchange, environmentVars, Empty
  <2>2. /\ call'[c].pc = "own" /\ call'[c].attempt = 1
        /\ call'[c].refused = call[c].refused /\ call'[c].peer = call[c].peer
    BY <1>0, <1>5 DEF InvalidateExchange, Goroutine
  <2>3. Forward(c)
    BY <1>0, <2>1, <2>2 DEF Forward, CallFresh, Drops
  <2>4. CallOld(c)'
    BY <1>0, <1>1, <2>1, <2>2, <2>3, ForwardOld DEF CallOld
  <2>5. CallFresh(c)'
    BY <1>0, <2>1, <2>2 DEF CallFresh, Drops
  <2> QED
    BY <1>1, <2>1, <2>3, <2>4, <2>5, StoresNothing
<1>6. CASE GetExchangedToken(c)
  <2>0. UNCHANGED <<ownToken, exchange>> /\ call[c].pc = "exchange"
    BY <1>6 DEF GetExchangedToken, environmentVars
  <2>1. CASE Answers(c, 502)
    BY <2>0, <2>1, AnswersRetry
  <2>2. CASE Goes(c, "exPost")
    <3>1. /\ call'[c].pc = "exPost" /\ call'[c].tok = call[c].tok
          /\ call'[c].attempt = call[c].attempt /\ call'[c].refused = call[c].refused
          /\ call'[c].peer = call[c].peer
      BY <1>0, <2>2 DEF Goes, Goroutine
    <3>2. Forward(c)
      BY <2>0, <3>1 DEF Forward
    <3>3. \A kind, t : Old(kind, t) => Old(kind, t)'
      BY <1>1, <2>0, <3>2, ForwardOld
    <3>4. CallOld(c)'
      BY <1>0, <2>0, <3>1, <3>3 DEF CallOld
    <3>5. CallFresh(c)'
      BY <1>0, <2>0, <3>1 DEF CallFresh, Drops
    <3> QED
      BY <1>1, <2>0, <3>2, <3>4, <3>5, StoresNothing
  <2>3. CASE /\ Fresh(exchange[call[c].peer])
             /\ call' = [call EXCEPT ![c].pc = "peer", ![c].exTok = exchange[call[c].peer].token]
    <3> DEFINE cached == exchange[call[c].peer]
    <3>1. /\ call'[c].pc = "peer" /\ call'[c].exTok = cached.token
          /\ call'[c].attempt = call[c].attempt /\ call'[c].refused = call[c].refused
          /\ call'[c].peer = call[c].peer
      BY <1>0, <2>3 DEF Goroutine
    <3>2. cached.until > 0
      BY <1>0, <1>2, <2>3
    <3>3. Forward(c)
      BY <2>0, <3>1 DEF Forward, Drops
    <3>4. \A kind, t : Old(kind, t) => Old(kind, t)'
      BY <1>1, <2>0, <3>3, ForwardOld
    <3>5. Old("exchanged", cached.token)
      BY <1>0, <3>2 DEF CachesOld
    <3>6. CallOld(c)'
      BY <1>0, <3>1, <3>4, <3>5 DEF CallOld
    <3>7. CallFresh(c)'
      BY <1>0, <2>0, <3>1, <3>2 DEF CallFresh, Drops
    <3> QED
      BY <1>1, <2>0, <3>3, <3>6, <3>7, StoresNothing
  <2> QED
    BY <1>6, <2>1, <2>2, <2>3 DEF GetExchangedToken
<1>7. CASE ExchangeGranted(c)
  <2>1. UNCHANGED <<ownToken, exchange>> /\ call[c].pc = "exPost"
    BY <1>7 DEF ExchangeGranted
  <2>2. /\ call'[c].pc = "exReply" /\ call'[c].exTok = Issued("exchanged", c, call[c].tok.key)
        /\ call'[c].attempt = call[c].attempt /\ call'[c].refused = call[c].refused
        /\ call'[c].peer = call[c].peer
    BY <1>0, <1>7 DEF ExchangeGranted, Goroutine
  <2>3. Forward(c)
    BY <2>1, <2>2 DEF Forward
  <2>4. call'[c].exTok.id = <<"exchanged", c, call'[c].attempt>>
    BY <2>2, IssuedFields
  <2>5. CallOld(c)'
    BY <1>0, <1>1, <2>1, <2>2, <2>3, <2>4, ForwardOld DEF CallOld
  <2>6. CallFresh(c)'
    BY <1>0, <2>1, <2>2 DEF CallFresh, Drops
  <2> QED
    BY <1>1, <2>1, <2>3, <2>5, <2>6, StoresNothing
<1>8. CASE OwnTokenArrives(c) \/ ExchangedTokenArrives(c)
  BY <1>8, OwnArrivesRetry, ExchangedArrivesRetry
<1>9. ASSUME NEW token, NEW drop \in Drops, Refused(c, token, drop), call[c].pc \in {"ownReply", "exPost", "peer"}
      PROVE  Forward(c)
  BY <1>9, RefusedLeaves DEF Forward
<1>10. CASE ExchangeRefused(c)
  BY <1>0, <1>9, <1>10, RefusedRetry DEF ExchangeRefused, environmentVars, CallOld, Drops
<1>11. CASE HandleAPI(c)
  <2>1. CASE Refused(c, call[c].exTok, "dropExchange")
    BY <1>0, <1>9, <1>11, <2>1, RefusedRetry DEF HandleAPI, CallOld, Drops
  <2> QED
    BY <1>11, <2>1, AnswersRetry DEF HandleAPI
<1>12. CASE OwnTokenFails(c)
  <2>1. CASE Refused(c, NoToken, "dropOwn")
    BY <1>9, <1>12, <2>1, RefusedRetry DEF OwnTokenFails, NoToken, Drops
  <2> QED
    BY <1>12, <2>1, AnswersRetry DEF OwnTokenFails
<1>13. CASE ExchangeFails(c) \/ CallPeerFails(c)
  BY <1>13, AnswersRetry DEF ExchangeFails, CallPeerFails
<1> QED
  BY <1>3, <1>4, <1>5, <1>6, <1>7, <1>8, <1>10, <1>11, <1>12, <1>13 DEF HandleCall, Advance

LEMMA NextRetry == TypeOK /\ RetryInv /\ [Next]_envVars => RetryInv'
<1> SUFFICES ASSUME TypeOK, RetryInv, [Next]_envVars PROVE RetryInv'
  OBVIOUS
<1>1. ASSUME NEW c \in Call, HandleCall(c) PROVE RetryInv'
  BY <1>1, HandleCallRetry
<1>2. ASSUME NEW c \in Call, NEW p \in Peer, Receive(c, p) PROVE RetryInv'
  <2>1. call[c] \in Goroutine /\ DOMAIN call = Call /\ CallOld(c) /\ CallFresh(c)
    BY DEF TypeOK, RetryInv
  <2>2. /\ \A d \in Call : d # c => call'[d] = call[d]
        /\ call[c].pc = "idle" /\ call'[c].pc = "own"
        /\ call'[c].attempt = call[c].attempt /\ call'[c].refused = call[c].refused
    BY <1>2, <2>1 DEF Receive, Goroutine
  <2>3. UNCHANGED <<ownToken, exchange>> /\ Forward(c)
    BY <1>2, <2>2 DEF Receive, environmentVars, Forward
  <2>4. CallOld(c)'
    BY <2>1, <2>2, <2>3, ForwardOld DEF CallOld
  <2>5. CallFresh(c)'
    BY <2>1, <2>2 DEF CallFresh, Drops
  <2> QED
    BY <2>2, <2>3, <2>4, <2>5, StoresNothing
<1>3. CASE UNCHANGED workloadVars
  BY <1>3 DEF workloadVars, RetryInv, CachesOld, CallOld, CallFresh, Old, Settled
<1> QED
  BY <1>1, <1>2, <1>3
  DEF Next, Tick, PeersFileChanges, RealmFollows, envVars

\* The second attempt of a call presents no token the first was refused with,
\* for every number of calls: no other call can bring such a token back.
THEOREM RetriesAreFresh == Spec => []RetryIsFresh
<1>1. RetryInv => RetryIsFresh
  BY DEF RetryInv, CallFresh, RetryIsFresh
<1> QED
  BY InitTyped, NextTyped, InitRetry, NextRetry, <1>1, PTL DEF Spec, envVars

-----------------------------------------------------------------------------
\* What a step of the script means for the repository's record of the domain,
\* and for the calls it waits for. A removal is final: only a script that has
\* deleted the record counts peers as clean.
ScriptOrder ==
  /\ step \in {"check", "round", "removed"} => record = "removed"
  /\ record = "removed" => step \in {"check", "round", "removed", "failed"}
  /\ \A p \in Peer : cleaned[p] # Never => record = "removed"
  /\ \A p \in Peer : waiting[p] # Nobody => /\ p \in todo
                                            /\ step \in MeshSteps \cup {"warm", "round"}

\* The peers that the script has tried its new token at hold the new key.
Propagation ==
  /\ step = "propagate" => \A p \in Peer \ todo : signing \in knows[p]
  /\ step \in {"remesh", "rotated"} => \A p \in Peer : signing \in knows[p]

\* The tick after which a peer's realm exchanges no more tokens.
LastGrant(p) == IF cleaned[p] = Never THEN now ELSE cleaned[p]

\* A peer that counts as clean stays shut.
CleanStaysShut ==
  \A p \in Peer : cleaned[p] # Never => PeerStateClean(p) /\ cleaned[p] <= now

\* Neither the cache nor a goroutine has a token that lives longer than one
\* that the peer's realm issued in its last open tick.
Lives ==
  /\ \A p \in Peer :
       /\ exchange[p].token.end <= LastGrant(p) + Life
       /\ \A c \in Call : call[c].peer = p => call[c].exTok.end <= LastGrant(p) + Life
  /\ \A c \in Call : call[c].pc = "idle" => call[c].exTok = NoToken

\* Only a call that is answered has a status.
StatusOfAnswer == \A c \in Call : call[c].pc # "answered" => call[c].status = 0

DriversInv ==
  DriversTypeOK /\ ScriptOrder /\ Propagation /\ CleanStaysShut /\ Lives /\ StatusOfAnswer

-----------------------------------------------------------------------------
(* What the actions leave alone                                            *)

\* Nothing happens in the workload, the realms or their keys.
Idle == UNCHANGED <<workloadVars, now, noIntrospection, signing, knows, realm>>

\* Script steps other than calls, the rotation and the trial of the new token
\* are seen by nobody else.
LEMMA ScriptIsIdle ==
  ASSUME \/ SetUp \/ GiveUp \/ DriveFullMesh \/ NotifyKeyRotated \/ RunRemoval
         \/ \E p \in Peer : WaitPeerRegisteredAt(p)
  PROVE  Idle
<1>1. CASE SetUp
  BY <1>1 DEF SetUp, StartHardhatNode, StartKeycloak, WaitReady, CreateRealm,
     CreateServiceAccountClient, WriteEmptyPeersFile, StartListener, StartWorkload, SelfRegister,
     Stage, Fails, PeersFileChanges, Idle, environmentVars, realmVars
<1>2. CASE GiveUp \/ DriveFullMesh \/ NotifyKeyRotated
  BY <1>2 DEF GiveUp, DriveFullMesh, NotifyKeyRotated, Fails, Idle, environmentVars, realmVars
<1>3. CASE RunRemoval
  BY <1>3 DEF RunRemoval, StartRemoval, Warmed, Delete, CheckPeer, Checked, EndOfRound, Deadline,
     Fails, Idle, environmentVars, realmVars
<1>4. CASE \E p \in Peer : WaitPeerRegisteredAt(p)
  BY <1>4 DEF WaitPeerRegisteredAt, Idle, environmentVars, realmVars
<1> QED
  BY <1>1, <1>2, <1>3, <1>4

\* Of the rest, the keys that realms hold are changed by an exchange and by
\* ReloadKeys alone, and never towards fewer.
LEMMA CallKnows ==
  ASSUME TypeOK, NEW c \in Call, HandleCall(c)
  PROVE  /\ UNCHANGED <<now, noIntrospection, realm, signing>>
         /\ \A p \in Peer : signing \in knows[p] => signing \in knows'[p]
<1>1. CASE ExchangeGranted(c)
  BY <1>1 DEF ExchangeGranted, Known, TypeOK
<1>2. CASE ~ ExchangeGranted(c)
  <2>1. UNCHANGED <<now, noIntrospection, realmVars>>
    BY <1>2 DEF HandleCall, Advance, GetOwnToken, OwnTokenArrives, InvalidateOwnToken,
       InvalidateExchange, GetExchangedToken, ExchangeRefused, ExchangedTokenArrives, HandleAPI,
       OwnTokenFails, ExchangeFails, CallPeerFails, environmentVars
  <2> QED
    BY <2>1 DEF realmVars
<1> QED
  BY <1>1, <1>2

LEMMA ListenersKnow ==
  ASSUME TypeOK, Listeners
  PROVE  /\ UNCHANGED <<now, noIntrospection, signing, workloadVars, driverVars>>
         /\ \A p \in Peer : signing \in knows[p] => signing \in knows'[p]
<1>1. UNCHANGED <<now, noIntrospection, signing, workloadVars, driverVars>>
  BY DEF Listeners, PeersFileChanges, RealmFollows, ReloadKeys
<1>2. ASSUME NEW p \in Peer, ReloadKeys(p)
      PROVE  \A q \in Peer : signing \in knows[q] => signing \in knows'[q]
  BY <1>2 DEF ReloadKeys, TypeOK, Key
<1>3. (\A p \in Peer : ~ ReloadKeys(p)) => UNCHANGED knows
  BY DEF Listeners, PeersFileChanges, RealmFollows
<1> QED
  BY <1>1, <1>2, <1>3

-----------------------------------------------------------------------------
(* Types                                                                   *)

\* A step that leaves the workload and the realms alone but for the peers file
\* and a fault.
LEMMA IdleTyped ==
  ASSUME TypeOK, Idle, faults' = faults \/ Fault,
         peersFile' \in (SUBSET Peer) \cup {{Torn}}
  PROVE  TypeOK'
  BY Numbers DEF TypeOK, Idle, Fault, workloadVars

LEMMA SetUpTyped == ASSUME DriversTypeOK, SetUp PROVE DriversTypeOK'
<1>1. TypeOK'
  <2>1. Idle
    BY ScriptIsIdle
  <2>2. faults' = faults \/ Fault
    BY DEF SetUp, StartHardhatNode, StartKeycloak, WaitReady, CreateRealm,
       CreateServiceAccountClient, WriteEmptyPeersFile, StartListener, StartWorkload,
       SelfRegister, Stage, Fails, PeersFileChanges, environmentVars
  <2>3. peersFile' = peersFile \/ peersFile' = {}
    BY DEF SetUp, StartHardhatNode, StartKeycloak, WaitReady, CreateRealm,
       CreateServiceAccountClient, WriteEmptyPeersFile, StartListener, StartWorkload,
       SelfRegister, Stage, Fails, PeersFileChanges, environmentVars, realmVars
  <2> QED
    BY <2>1, <2>2, <2>3, IdleTyped DEF DriversTypeOK, TypeOK
<1>2. CASE \E s \in SetUpSteps : Fails(s)
  BY <1>1, <1>2 DEF Fails, Exit, DriversTypeOK, Step
<1>3. CASE ~ \E s \in SetUpSteps : Fails(s)
  BY <1>1, <1>3 DEF SetUp, StartHardhatNode, StartKeycloak, WaitReady, CreateRealm,
     CreateServiceAccountClient, WriteEmptyPeersFile, StartListener, StartWorkload,
     SelfRegister, Stage, Goto, DriversTypeOK, Step, SetUpSteps
<1> QED
  BY <1>2, <1>3

LEMMA RemovalTyped == ASSUME DriversTypeOK, RunRemoval PROVE DriversTypeOK'
<1>1. TypeOK'
  <2>1. Idle
    BY ScriptIsIdle
  <2>2. (faults' = faults \/ Fault) /\ peersFile' = peersFile
    BY DEF RunRemoval, StartRemoval, Warmed, Delete, CheckPeer, Checked, EndOfRound, Deadline,
       Fails, environmentVars, realmVars
  <2> QED
    BY <2>1, <2>2, IdleTyped DEF DriversTypeOK, TypeOK
<1>2. ASSUME NEW p \in Peer, CheckPeer(p) PROVE DriversTypeOK'
  <2>1. now \in 0..Never
    BY Numbers DEF DriversTypeOK, TypeOK, Never
  <2>2. cleaned' \in [Peer -> 0..Never]
    BY <1>2, <2>1 DEF CheckPeer, DriversTypeOK
  <2> QED
    BY <1>1, <1>2, <2>2 DEF CheckPeer, DriversTypeOK
<1>3. CASE StartRemoval \/ Warmed \/ Delete \/ Checked
  BY <1>1, <1>3 DEF StartRemoval, Warmed, Delete, Checked, Fails, Exit, Goto, Uncleaned,
     DriversTypeOK, Step
<1>4. CASE EndOfRound
  BY <1>1, <1>4 DEF EndOfRound, Uncleaned, DriversTypeOK, Step
<1>5. CASE Deadline
  <2>1. zero' \in BOOLEAN
    BY <1>5 DEF Deadline
  <2> QED
    BY <1>1, <1>5, <2>1 DEF Deadline, Exit, DriversTypeOK, Step
<1> QED
  BY <1>2, <1>3, <1>4, <1>5 DEF RunRemoval

\* A pair: the request and its answer.
LEMMA CallPairTyped ==
  ASSUME DriversTypeOK, NEW p \in Peer, CallPair(p) PROVE DriversTypeOK'
<1>1. PICK c \in Call : Receive(c, p) /\ waiting' = [waiting EXCEPT ![p] = c]
  BY DEF CallPair
<1>2. [call[c] EXCEPT !.pc = "own", !.peer = p] \in Goroutine
  <2>1. call[c] \in Goroutine
    BY DEF DriversTypeOK, TypeOK
  <2> QED
    BY ZenonT(30), <2>1 DEF Goroutine, Pc
<1>3. TypeOK'
  BY <1>1, <1>2 DEF Receive, DriversTypeOK, TypeOK, environmentVars, realmVars
<1> QED
  BY <1>1, <1>3 DEF CallPair, DriversTypeOK

LEMMA PairReturnsTyped ==
  ASSUME DriversTypeOK, NEW p \in Peer, PairReturns(p) PROVE DriversTypeOK'
<1>1. waiting[p] \in Call
  BY DEF PairReturns, DriversTypeOK
<1>2. DOMAIN call' = Call /\ \A c \in Call : call'[c] \in Goroutine
  BY <1>1, BlankTyped DEF PairReturns, DriversTypeOK, TypeOK
<1>3. faults' \in 0..MaxFaults
  BY Numbers DEF PairReturns, Fault, DriversTypeOK, TypeOK
<1>4. TypeOK'
  BY <1>2, <1>3 DEF PairReturns, realmVars, DriversTypeOK, TypeOK
<1>5. todo' \subseteq todo /\ waiting' = [waiting EXCEPT ![p] = Nobody]
  BY DEF PairReturns
<1>6. anySuccess' \in BOOLEAN
  BY DEF PairReturns
<1> QED
  BY <1>4, <1>5, <1>6 DEF PairReturns, DriversTypeOK

LEMMA DriversTyped == DriversTypeOK /\ [DriversNext]_vars => DriversTypeOK'
<1> SUFFICES ASSUME DriversTypeOK, [DriversNext]_vars PROVE DriversTypeOK'
  OBVIOUS
<1>1. CASE SetUp \/ RunRemoval
  BY <1>1, SetUpTyped, RemovalTyped
<1>2. CASE \E p \in Peer : CallPair(p) \/ PairReturns(p)
  BY <1>2, CallPairTyped, PairReturnsTyped
<1>3. CASE GiveUp \/ DriveFullMesh \/ NotifyKeyRotated \/ \E p \in Peer : WaitPeerRegisteredAt(p)
  <2>1. Idle
    BY <1>3, ScriptIsIdle
  <2>2. (faults' = faults \/ Fault) /\ peersFile' = peersFile
    BY <1>3 DEF GiveUp, DriveFullMesh, NotifyKeyRotated, WaitPeerRegisteredAt, Fails,
       environmentVars, realmVars
  <2>3. TypeOK'
    BY <2>1, <2>2, IdleTyped DEF DriversTypeOK, TypeOK
  <2> QED
    BY <1>3, <2>3 DEF GiveUp, DriveFullMesh, NotifyKeyRotated, WaitPeerRegisteredAt, Fails, Exit,
       Goto, DriversTypeOK, Step, MeshSteps
<1>4. CASE Rotate
  BY <1>4 DEF Rotate, RotateSigningKey, Goto, DriversTypeOK, TypeOK, Step, Key, workloadVars
<1>5. ASSUME NEW p \in Peer, TryExchangeAtPeer(p) PROVE DriversTypeOK'
  <2>1. Known(p) \subseteq Key
    BY DEF Known, DriversTypeOK, TypeOK, Key
  <2>2. TypeOK'
    BY <1>5, <2>1 DEF TryExchangeAtPeer, DriversTypeOK, TypeOK, workloadVars
  <2> QED
    BY <1>5, <2>2 DEF TryExchangeAtPeer, Goto, DriversTypeOK, Step, MeshSteps
<1>6. CASE Listeners
  <2>1. /\ UNCHANGED <<now, noIntrospection, signing, workloadVars, driverVars>>
        /\ faults' = faults
    BY <1>6, ListenersKnow DEF DriversTypeOK, Listeners, PeersFileChanges, RealmFollows, ReloadKeys
  <2>2. peersFile' \in {peersFile, {Torn}, Peer}
    BY <1>6 DEF Listeners, PeersFileChanges, RealmFollows, ReloadKeys
  <2>3. realm' \in [Peer -> Realm]
    BY <1>6 DEF Listeners, PeersFileChanges, RealmFollows, ReloadKeys, DriversTypeOK, TypeOK, Realm
  <2>4. knows' \in [Peer -> SUBSET Key]
    BY <1>6 DEF Listeners, PeersFileChanges, RealmFollows, ReloadKeys, DriversTypeOK, TypeOK, Key
  <2>5. TypeOK'
    BY <2>1, <2>2, <2>3, <2>4 DEF DriversTypeOK, TypeOK, workloadVars
  <2> QED
    BY <2>1, <2>5 DEF DriversTypeOK, driverVars
<1>7. CASE Workload
  BY <1>7, HandleCallTyped DEF Workload, DriversTypeOK, driverVars
<1>8. CASE Clock
  <2>1. TypeOK'
    BY <1>8, NextTyped DEF Clock, Next, DriversTypeOK
  <2> QED
    BY <1>8, <2>1 DEF Clock, DriversTypeOK, driverVars
<1>9. CASE UNCHANGED vars
  <2>1. UNCHANGED envVars
    BY <1>9 DEF vars, envVars
  <2>2. TypeOK'
    BY <2>1, NextTyped DEF DriversTypeOK
  <2> QED
    BY <1>9, <2>2 DEF vars, driverVars, DriversTypeOK
<1> QED
  BY <1>1, <1>2, <1>3, <1>4, <1>5, <1>6, <1>7, <1>8, <1>9 DEF DriversNext, Script

-----------------------------------------------------------------------------
(* The order of a script's steps                                           *)

\* A script that ends early waits for nobody.
LEMMA ExitOrder ==
  ASSUME DriversTypeOK, ScriptOrder, Exit PROVE ScriptOrder'
  BY DEF Exit, ScriptOrder, MeshSteps

LEMMA SetUpOrder == ASSUME DriversTypeOK, ScriptOrder, SetUp PROVE ScriptOrder'
<1>1. CASE \E s \in SetUpSteps : Fails(s)
  BY <1>1, ExitOrder DEF Fails
<1>2. CASE ~ \E s \in SetUpSteps : Fails(s)
  <2>1. step \in SetUpSteps /\ step' \in SetUpSteps \cup {"await"}
    BY <1>2 DEF SetUp, StartHardhatNode, StartKeycloak, WaitReady, CreateRealm,
       CreateServiceAccountClient, WriteEmptyPeersFile, StartListener, StartWorkload,
       SelfRegister, Stage, Goto, SetUpSteps
  <2>2. UNCHANGED <<waiting, cleaned>> /\ record' \in {record, "registered"}
    BY <1>2 DEF SetUp, StartHardhatNode, StartKeycloak, WaitReady, CreateRealm,
       CreateServiceAccountClient, WriteEmptyPeersFile, StartListener, StartWorkload,
       SelfRegister, Stage, Goto, SetUpSteps
  <2> QED
    BY <2>1, <2>2 DEF ScriptOrder, SetUpSteps, MeshSteps
<1> QED
  BY <1>1, <1>2

LEMMA RemovalOrder == ASSUME DriversTypeOK, ScriptOrder, RunRemoval PROVE ScriptOrder'
<1>1. CASE Fails("delete") \/ Deadline
  BY <1>1, ExitOrder DEF Fails, Deadline
<1>2. CASE StartRemoval
  BY <1>2 DEF StartRemoval, Goto, ScriptOrder, MeshSteps
<1>3. CASE Warmed
  BY <1>3 DEF Warmed, Goto, ScriptOrder, MeshSteps
<1>4. CASE Delete /\ ~ Fails("delete")
  BY <1>4 DEF Delete, ScriptOrder, MeshSteps
<1>5. ASSUME NEW p \in Peer, CheckPeer(p) PROVE ScriptOrder'
  BY <1>5 DEF CheckPeer, ScriptOrder, DriversTypeOK, MeshSteps
<1>6. CASE Checked
  BY <1>6 DEF Checked, Goto, ScriptOrder, MeshSteps
<1>7. CASE EndOfRound
  BY <1>7 DEF EndOfRound, ScriptOrder, MeshSteps
<1> QED
  BY <1>1, <1>2, <1>3, <1>4, <1>5, <1>6, <1>7 DEF RunRemoval

LEMMA OrderStep ==
  ASSUME DriversTypeOK, ScriptOrder, [DriversNext]_vars PROVE ScriptOrder'
<1>1. CASE SetUp \/ RunRemoval
  BY <1>1, SetUpOrder, RemovalOrder
<1>2. CASE GiveUp \/ Fails("notify")
  BY <1>2, ExitOrder DEF GiveUp, Fails
<1>3. CASE DriveFullMesh
  BY <1>3 DEF DriveFullMesh, ScriptOrder, MeshSteps
<1>4. CASE Rotate \/ (NotifyKeyRotated /\ ~ Fails("notify"))
  BY <1>4 DEF Rotate, NotifyKeyRotated, Goto, ScriptOrder, MeshSteps
<1>5. ASSUME NEW p \in Peer, WaitPeerRegisteredAt(p) \/ TryExchangeAtPeer(p) PROVE ScriptOrder'
  BY <1>5 DEF WaitPeerRegisteredAt, TryExchangeAtPeer, Goto, ScriptOrder, MeshSteps
<1>6. ASSUME NEW p \in Peer, CallPair(p) PROVE ScriptOrder'
  BY <1>6 DEF CallPair, ScriptOrder, DriversTypeOK, MeshSteps
<1>7. ASSUME NEW p \in Peer, PairReturns(p) PROVE ScriptOrder'
  <2>1. waiting' = [waiting EXCEPT ![p] = Nobody] /\ todo \ {p} \subseteq todo'
    BY <1>7 DEF PairReturns
  <2>2. UNCHANGED <<step, record, cleaned>>
    BY <1>7 DEF PairReturns
  <2> QED
    BY <2>1, <2>2 DEF ScriptOrder, DriversTypeOK
<1>8. CASE UNCHANGED driverVars
  BY <1>8 DEF driverVars, ScriptOrder
<1> QED
  BY <1>1, <1>2, <1>3, <1>4, <1>5, <1>6, <1>7, <1>8
  DEF DriversNext, Script, Listeners, Workload, Clock, vars

-----------------------------------------------------------------------------
(* The rotation's arrival                                                  *)

\* Where a step of the script leads. Trials come after the notification, and a
\* peer is struck off only when its realm has taken the new token.
LEMMA PropagationStep ==
  ASSUME DriversTypeOK, ScriptOrder, Propagation, [DriversNext]_vars PROVE Propagation'
<1>1. CASE SetUp
  <2>1. step' \in SetUpSteps \cup {"await", "failed"}
    BY <1>1 DEF SetUp, StartHardhatNode, StartKeycloak, WaitReady, CreateRealm,
       CreateServiceAccountClient, WriteEmptyPeersFile, StartListener, StartWorkload,
       SelfRegister, Stage, Fails, Exit, Goto, SetUpSteps
  <2> QED
    BY <2>1 DEF Propagation, SetUpSteps
<1>2. CASE RunRemoval
  BY <1>2 DEF RunRemoval, StartRemoval, Warmed, Delete, CheckPeer, Checked, EndOfRound, Deadline,
     Fails, Exit, Goto, Propagation
<1>3. CASE GiveUp \/ Rotate
  BY <1>3 DEF GiveUp, Rotate, Exit, Goto, Propagation
<1>4. CASE DriveFullMesh
  <2>1. Idle
    BY <1>4, ScriptIsIdle
  <2> QED
    BY <1>4, <2>1 DEF DriveFullMesh, Idle, Propagation, MeshSteps
<1>5. CASE NotifyKeyRotated
  BY <1>5 DEF NotifyKeyRotated, Fails, Exit, Propagation
<1>6. ASSUME NEW p \in Peer, WaitPeerRegisteredAt(p) PROVE Propagation'
  BY <1>6 DEF WaitPeerRegisteredAt, Goto, Propagation
<1>7. ASSUME NEW p \in Peer, TryExchangeAtPeer(p) PROVE Propagation'
  BY <1>7 DEF TryExchangeAtPeer, Goto, Propagation, DriversTypeOK, TypeOK
<1>8. ASSUME NEW p \in Peer, CallPair(p) \/ PairReturns(p) PROVE Propagation'
  <2>1. UNCHANGED <<step, signing, knows>>
    BY <1>8 DEF CallPair, PairReturns, Receive, environmentVars, realmVars
  <2>2. step # "propagate"
    BY <1>8 DEF CallPair, PairReturns, ScriptOrder, MeshSteps
  <2> QED
    BY <2>1, <2>2 DEF Propagation
<1>9. CASE Listeners
  BY <1>9, ListenersKnow DEF DriversTypeOK, driverVars, Propagation
<1>10. CASE Workload
  BY <1>10, CallKnows DEF Workload, DriversTypeOK, driverVars, Propagation
<1>11. CASE Clock \/ UNCHANGED vars
  BY <1>11 DEF Clock, Tick, vars, driverVars, environmentVars, realmVars, Propagation
<1> QED
  BY <1>1, <1>2, <1>3, <1>4, <1>5, <1>6, <1>7, <1>8, <1>9, <1>10, <1>11 DEF DriversNext, Script

-----------------------------------------------------------------------------
(* Clean peers                                                             *)

\* Listeners of peers go through handle_remove once the record is gone, and
\* have nothing to undo what that leaves.
LEMMA CleanStep ==
  ASSUME DriversTypeOK, ScriptOrder, CleanStaysShut, [DriversNext]_vars
  PROVE  CleanStaysShut'
<1>0. now \in Nat /\ now < Never
  BY Numbers DEF DriversTypeOK, TypeOK, Never
<1>1. ASSUME UNCHANGED <<now, cleaned, realm>> PROVE CleanStaysShut'
  BY <1>1 DEF CleanStaysShut, PeerStateClean
<1>2. CASE SetUp \/ GiveUp \/ DriveFullMesh \/ NotifyKeyRotated \/ \E p \in Peer : WaitPeerRegisteredAt(p)
  <2>1. UNCHANGED <<now, realm>>
    BY <1>2, ScriptIsIdle DEF Idle
  <2>2. UNCHANGED cleaned
    BY <1>2 DEF SetUp, StartHardhatNode, StartKeycloak, WaitReady, CreateRealm,
       CreateServiceAccountClient, WriteEmptyPeersFile, StartListener, StartWorkload,
       SelfRegister, Stage, Fails, Exit, Goto, GiveUp, DriveFullMesh, NotifyKeyRotated,
       WaitPeerRegisteredAt
  <2> QED
    BY <1>1, <2>1, <2>2
<1>3. CASE RunRemoval
  <2>1. UNCHANGED <<now, realm>>
    BY <1>3, ScriptIsIdle DEF Idle
  <2>2. ASSUME NEW p \in Peer, CheckPeer(p) PROVE CleanStaysShut'
    BY <1>0, <2>1, <2>2 DEF CheckPeer, CleanStaysShut, PeerStateClean, DriversTypeOK
  <2>3. (\A p \in Peer : ~ CheckPeer(p)) => UNCHANGED cleaned
    BY <1>3 DEF RunRemoval, StartRemoval, Warmed, Delete, Checked, EndOfRound, Deadline, Fails,
       Exit, Goto
  <2> QED
    BY <1>1, <2>1, <2>2, <2>3
<1>4. CASE Rotate \/ \E p \in Peer : CallPair(p) \/ PairReturns(p) \/ TryExchangeAtPeer(p)
  BY <1>1, <1>4 DEF Rotate, RotateSigningKey, CallPair, Receive, PairReturns, TryExchangeAtPeer,
     Goto, environmentVars, realmVars
<1>5. CASE Listeners
  <2>1. UNCHANGED <<now, record, cleaned>>
    BY <1>5, ListenersKnow DEF DriversTypeOK, driverVars
  <2>2. ASSUME NEW p \in Peer, cleaned[p] # Never PROVE realm'[p] = realm[p]
    <3>1. record = "removed" /\ realm[p] \in {"absent", "closed"}
      BY <2>2 DEF ScriptOrder, CleanStaysShut, PeerStateClean
    <3> QED
      BY <1>5, <3>1 DEF Listeners, PeersFileChanges, RealmFollows, ReloadKeys, DriversTypeOK, TypeOK
  <2> QED
    BY <2>1, <2>2 DEF CleanStaysShut, PeerStateClean
<1>6. CASE Workload
  BY <1>1, <1>6, CallKnows DEF Workload, DriversTypeOK, driverVars
<1>7. CASE Clock
  <2>1. now' = now + 1 /\ UNCHANGED <<cleaned, realm>>
    BY <1>7 DEF Clock, Tick, driverVars, realmVars
  <2>2. \A p \in Peer : cleaned[p] \in Nat
    BY Numbers DEF DriversTypeOK, Never
  <2> QED
    BY <1>0, <2>1, <2>2 DEF CleanStaysShut, PeerStateClean
<1>8. CASE UNCHANGED vars
  BY <1>1, <1>8 DEF vars, environmentVars, realmVars, driverVars
<1> QED
  BY <1>2, <1>3, <1>4, <1>5, <1>6, <1>7, <1>8 DEF DriversNext, Script

-----------------------------------------------------------------------------
(* The tokens that are left                                                *)

\* The last tick of grants never moves back.
LEMMA GrantsMoveOn ==
  ASSUME DriversTypeOK, ScriptOrder, CleanStaysShut, [DriversNext]_vars
  PROVE  \A p \in Peer : /\ LastGrant(p) \in Nat /\ LastGrant(p)' \in Nat
                         /\ LastGrant(p) <= LastGrant(p)'
<1>0. /\ now \in Nat /\ now < Never /\ now' \in Nat /\ now' < Never
      /\ \A p \in Peer : cleaned[p] \in Nat /\ cleaned'[p] \in Nat
  BY Numbers, DriversTyped DEF DriversTypeOK, TypeOK, Never
<1>1. now <= now'
  <2>1. CASE Tick
    BY <1>0, <2>1 DEF Tick
  <2>2. CASE \E c \in Call : HandleCall(c)
    BY <1>0, <2>2, CallKnows DEF DriversTypeOK
  <2>3. CASE ~ Tick /\ ~ \E c \in Call : HandleCall(c)
    <3>1. CASE SetUp \/ GiveUp \/ DriveFullMesh \/ NotifyKeyRotated \/ RunRemoval
               \/ \E p \in Peer : WaitPeerRegisteredAt(p)
      BY <1>0, <3>1, ScriptIsIdle DEF Idle
    <3>2. CASE Rotate \/ UNCHANGED vars
               \/ \E p \in Peer : CallPair(p) \/ PairReturns(p) \/ TryExchangeAtPeer(p)
      <4>1. UNCHANGED now
        BY <3>2 DEF Rotate, RotateSigningKey, CallPair, Receive, PairReturns,
           TryExchangeAtPeer, environmentVars, vars
      <4> QED
        BY <1>0, <4>1
    <3>3. CASE Listeners
      BY <1>0, <3>3, ListenersKnow DEF DriversTypeOK
    <3> QED
      BY <2>3, <3>1, <3>2, <3>3 DEF DriversNext, Script, Workload, Clock
  <2> QED
    BY <2>1, <2>2, <2>3
<1>2. ASSUME NEW p \in Peer PROVE cleaned'[p] = cleaned[p] \/ cleaned'[p] = now
  <2>1. ASSUME NEW q \in Peer, CheckPeer(q) PROVE cleaned'[p] = cleaned[p] \/ cleaned'[p] = now
    BY <2>1 DEF CheckPeer, DriversTypeOK
  <2>2. (\A q \in Peer : ~ CheckPeer(q)) => UNCHANGED cleaned
    <3>1. SetUp => UNCHANGED cleaned
      BY DEF SetUp, StartHardhatNode, StartKeycloak, WaitReady, CreateRealm,
         CreateServiceAccountClient, WriteEmptyPeersFile, StartListener, StartWorkload,
         SelfRegister, Stage, Fails, Exit, Goto
    <3>2. RunRemoval /\ (\A q \in Peer : ~ CheckPeer(q)) => UNCHANGED cleaned
      BY DEF RunRemoval, StartRemoval, Warmed, Delete, Checked, EndOfRound, Deadline, Fails,
         Exit, Goto
    <3>3. GiveUp \/ DriveFullMesh \/ Rotate \/ NotifyKeyRotated => UNCHANGED cleaned
      BY DEF GiveUp, DriveFullMesh, Rotate, NotifyKeyRotated, Fails, Exit, Goto
    <3>4. ASSUME NEW q \in Peer, WaitPeerRegisteredAt(q) \/ CallPair(q) \/ PairReturns(q) \/ TryExchangeAtPeer(q)
          PROVE  UNCHANGED cleaned
      BY <3>4 DEF WaitPeerRegisteredAt, CallPair, PairReturns, TryExchangeAtPeer, Goto
    <3>5. Listeners \/ Workload \/ Clock \/ UNCHANGED vars => UNCHANGED cleaned
      BY DEF Listeners, Workload, Clock, driverVars, vars
    <3> QED
      BY <3>1, <3>2, <3>3, <3>4, <3>5 DEF DriversNext, Script
  <2> QED
    BY <2>1, <2>2
<1>3. ASSUME NEW p \in Peer, cleaned[p] # Never PROVE cleaned[p] <= now
  BY <1>3 DEF CleanStaysShut
<1> QED
  BY <1>0, <1>1, <1>2, <1>3 DEF LastGrant

\* Where a call's exchanged token, and the cached one of its peer, come from: a
\* peer issues one only while it is open.
LEMMA CallTokens ==
  ASSUME TypeOK, NEW c \in Call, HandleCall(c)
  PROVE  /\ call[c].pc # "idle" /\ call'[c].pc # "idle"
         /\ \/ call'[c].exTok = NoToken
            \/ /\ call'[c].peer = call[c].peer
               /\ \/ call'[c].exTok \in {call[c].exTok, exchange[call[c].peer].token}
                  \/ realm[call[c].peer] = "open" /\ call'[c].exTok.end = now + Life
         /\ \A p \in Peer :
              \/ exchange'[p].token \in {exchange[p].token, NoToken}
              \/ p = call[c].peer /\ exchange'[p].token = call[c].exTok
<1>0. /\ call[c] \in Goroutine /\ c \in DOMAIN call /\ DOMAIN call = Call /\ call[c].peer \in Peer
      /\ exchange \in [Peer -> Entry] /\ Empty.token = NoToken
  BY DEF TypeOK, Goroutine, Empty
<1>1. call[c].pc # "idle"
  BY DEF HandleCall, Advance, GetOwnToken, OwnTokenArrives, InvalidateOwnToken,
     InvalidateExchange, GetExchangedToken, ExchangeGranted, ExchangeRefused,
     ExchangedTokenArrives, HandleAPI, OwnTokenFails, ExchangeFails, CallPeerFails
<1>2. ASSUME NEW status, Answers(c, status) PROVE call'[c].exTok = NoToken /\ call'[c].pc = "answered"
  BY <1>0, <1>2 DEF Answers, Gone, NoCall
<1>3. ASSUME NEW token, NEW drop \in {"dropOwn", "dropBoth", "dropExchange"}, Refused(c, token, drop)
      PROVE  /\ call'[c].pc # "idle"
             /\ \/ call'[c].exTok = NoToken
                \/ call'[c].peer = call[c].peer /\ call'[c].exTok = call[c].exTok
  <2>1. CASE call[c].attempt = 0
    BY <1>0, <1>3, <2>1 DEF Refused, Goroutine
  <2>2. CASE call[c].attempt # 0
    BY <1>2, <1>3, <2>2 DEF Refused
  <2> QED
    BY <2>1, <2>2
<1>4. CASE GetOwnToken(c) \/ InvalidateOwnToken(c)
  <2>1. /\ call'[c].peer = call[c].peer /\ call'[c].exTok = call[c].exTok
        /\ call'[c].pc # "idle"
    BY <1>0, <1>4 DEF GetOwnToken, InvalidateOwnToken, Goroutine
  <2>2. UNCHANGED exchange
    BY <1>4 DEF GetOwnToken, InvalidateOwnToken
  <2> QED
    BY <1>1, <2>1, <2>2
<1>5. CASE OwnTokenArrives(c)
  BY <1>0, <1>1, <1>5 DEF OwnTokenArrives, Goes, Goroutine
<1>6. CASE InvalidateExchange(c)
  BY <1>0, <1>1, <1>6 DEF InvalidateExchange, Goroutine
<1>7. CASE ExchangedTokenArrives(c)
  BY <1>0, <1>1, <1>7 DEF ExchangedTokenArrives, Goes, Goroutine
<1>8. CASE GetExchangedToken(c)
  <2>1. UNCHANGED exchange
    BY <1>8 DEF GetExchangedToken
  <2>2. CASE Answers(c, 502)
    BY <1>1, <1>2, <2>1, <2>2
  <2>3. CASE \/ Goes(c, "exPost")
             \/ call' = [call EXCEPT ![c].pc = "peer", ![c].exTok = exchange[call[c].peer].token]
    BY <1>0, <1>1, <2>1, <2>3 DEF Goes, Goroutine
  <2> QED
    BY <1>8, <2>2, <2>3 DEF GetExchangedToken
<1>9. CASE ExchangeGranted(c)
  <2>1. /\ call'[c].pc = "exReply" /\ call'[c].peer = call[c].peer
        /\ call'[c].exTok = Issued("exchanged", c, call[c].tok.key)
    BY <1>0, <1>9 DEF ExchangeGranted, Goroutine
  <2>2. call'[c].exTok.end = now + Life
    BY <2>1, IssuedFields
  <2> QED
    BY <1>1, <1>9, <2>1, <2>2 DEF ExchangeGranted
<1>10. CASE ExchangeRefused(c) \/ HandleAPI(c) \/ OwnTokenFails(c) \/ ExchangeFails(c) \/ CallPeerFails(c)
  <2>1. UNCHANGED exchange
    BY <1>10 DEF ExchangeRefused, HandleAPI, OwnTokenFails, ExchangeFails, CallPeerFails
  <2>2. \/ \E status \in {200, 502} : Answers(c, status)
        \/ \E token \in {call[c].tok, call[c].exTok, NoToken},
              drop \in {"dropOwn", "dropBoth", "dropExchange"} : Refused(c, token, drop)
    BY <1>10 DEF ExchangeRefused, HandleAPI, OwnTokenFails, ExchangeFails, CallPeerFails
  <2> QED
    BY <1>1, <1>2, <1>3, <2>1, <2>2
<1> QED
  BY <1>4, <1>5, <1>6, <1>7, <1>8, <1>9, <1>10 DEF HandleCall, Advance

LEMMA LivesStep ==
  ASSUME DriversTypeOK, ScriptOrder, CleanStaysShut, Lives, [DriversNext]_vars
  PROVE  Lives'
<1>0. /\ TypeOK /\ Life \in Nat /\ NoToken.end = 0
      /\ DOMAIN call = Call /\ \A c \in Call : call[c] \in Goroutine /\ call[c].peer \in Peer
  BY Numbers DEF DriversTypeOK, TypeOK, Goroutine, NoToken
<1>1. \A p \in Peer : /\ LastGrant(p) \in Nat /\ LastGrant(p)' \in Nat
                      /\ LastGrant(p) <= LastGrant(p)'
  BY GrantsMoveOn
<1>2. /\ \A p \in Peer : exchange[p].token.end \in Nat
      /\ \A c \in Call : call[c].exTok.end \in Nat
  BY <1>0, Numbers DEF TypeOK, Entry, Token, Goroutine
<1>3. ASSUME UNCHANGED workloadVars PROVE Lives'
  BY <1>0, <1>1, <1>2, <1>3 DEF Lives, workloadVars
<1>4. ASSUME NEW c \in Call, HandleCall(c) PROVE Lives'
  <2>0. PICK p \in Peer : p = call[c].peer
    BY <1>0
  <2>1. /\ call[c].exTok.end <= LastGrant(p)' + Life
        /\ exchange[p].token.end <= LastGrant(p)' + Life
    BY <1>0, <1>1, <1>2, <2>0 DEF Lives
  <2>2. realm[p] = "open" => now + Life <= LastGrant(p)' + Life
    <3>1. realm[p] = "open" => LastGrant(p) = now
      BY DEF CleanStaysShut, PeerStateClean, LastGrant
    <3>2. now \in Nat
      BY DEF DriversTypeOK, TypeOK
    <3> QED
      BY <1>0, <1>1, <3>1, <3>2
  <2>3. /\ call'[c].pc # "idle"
        /\ \/ call'[c].exTok = NoToken
           \/ /\ call'[c].peer = p
              /\ \/ call'[c].exTok \in {call[c].exTok, exchange[p].token}
                 \/ realm[p] = "open" /\ call'[c].exTok.end = now + Life
        /\ \A q \in Peer :
             \/ exchange'[q].token \in {exchange[q].token, NoToken}
             \/ q = p /\ exchange'[q].token = call[c].exTok
    BY <1>0, <1>4, <2>0, CallTokens
  <2>4. ASSUME NEW q \in Peer, call'[c].peer = q
        PROVE  call'[c].exTok.end <= LastGrant(q)' + Life
    BY <1>0, <1>1, <2>1, <2>2, <2>3, <2>4
  <2>5. \A d \in Call : d # c => call'[d] = call[d]
    BY <1>0, <1>4, MovesAlone
  <2>6. ASSUME NEW q \in Peer PROVE exchange'[q].token.end <= LastGrant(q)' + Life
    BY <1>0, <1>1, <1>2, <2>1, <2>3 DEF Lives
  <2>7. ASSUME NEW q \in Peer, NEW d \in Call, call'[d].peer = q
        PROVE  call'[d].exTok.end <= LastGrant(q)' + Life
    <3>1. CASE d = c
      BY <2>4, <2>7, <3>1
    <3>2. CASE d # c
      BY <1>0, <1>1, <1>2, <2>5, <2>7, <3>2 DEF Lives
    <3> QED
      BY <3>1, <3>2
  <2>8. \A d \in Call : call'[d].pc = "idle" => call'[d].exTok = NoToken
    BY <2>3, <2>5 DEF Lives
  <2> QED
    BY <2>6, <2>7, <2>8 DEF Lives
<1>5. ASSUME NEW p \in Peer, CallPair(p) PROVE Lives'
  <2>1. PICK c \in Call : Receive(c, p)
    BY <1>5 DEF CallPair
  <2>2. call'[c].exTok = NoToken /\ call'[c].peer = p /\ call'[c].pc = "own"
    BY <1>0, <2>1 DEF Receive, Lives, Goroutine
  <2>3. (\A d \in Call : d # c => call'[d] = call[d]) /\ UNCHANGED exchange
    BY <1>0, <2>1 DEF Receive
  <2> QED
    BY <1>0, <1>1, <1>2, <2>2, <2>3 DEF Lives
<1>6. ASSUME NEW p \in Peer, PairReturns(p) PROVE Lives'
  <2>1. UNCHANGED exchange
    BY <1>6 DEF PairReturns
  <2>2. \A d \in Call : call'[d] = call[d] \/ call'[d] = Gone
    BY <1>0, <1>6 DEF PairReturns
  <2>3. Gone.pc = "answered" /\ Gone.exTok = NoToken
    BY DEF Gone, NoCall
  <2> QED
    BY <1>0, <1>1, <1>2, <2>1, <2>2, <2>3 DEF Lives
<1>7. CASE SetUp \/ GiveUp \/ DriveFullMesh \/ NotifyKeyRotated \/ RunRemoval
           \/ \E p \in Peer : WaitPeerRegisteredAt(p)
  BY <1>3, <1>7, ScriptIsIdle DEF Idle
<1>8. CASE Rotate \/ Clock \/ UNCHANGED vars \/ \E p \in Peer : TryExchangeAtPeer(p)
  BY <1>3, <1>8 DEF Rotate, RotateSigningKey, TryExchangeAtPeer, Clock, Tick, vars
<1>9. CASE Listeners
  BY <1>0, <1>3, <1>9, ListenersKnow
<1> QED
  BY <1>4, <1>5, <1>6, <1>7, <1>8, <1>9 DEF DriversNext, Script, Workload

-----------------------------------------------------------------------------
(* Statuses, and what a peer accepts                                       *)

\* A goroutine that has gone is blank.
LEMMA GoneBlank == Gone.pc = "answered" /\ Gone.status = 0 /\ Gone.exTok = NoToken
  BY DEF Gone, NoCall

\* A goroutine that answers has its status.
LEMMA AnswersStatus ==
  ASSUME TypeOK, NEW c \in Call, NEW status, Answers(c, status)
  PROVE  call'[c].pc = "answered" /\ call'[c].status = status
  BY DEF TypeOK, Answers, Gone, NoCall

\* A goroutine that is refused keeps its status or answers 502.
LEMMA RefusedStatus ==
  ASSUME TypeOK, NEW c \in Call, NEW token, NEW drop, Refused(c, token, drop)
  PROVE  \/ call'[c].pc = "answered" /\ call'[c].status = 502
         \/ call'[c].status = call[c].status
<1>0. call[c] \in Goroutine /\ DOMAIN call = Call
  BY DEF TypeOK
<1>1. CASE call[c].attempt = 0
  BY <1>0, <1>1 DEF Refused, Goroutine
<1>2. CASE call[c].attempt # 0
  BY <1>2, AnswersStatus DEF Refused
<1> QED
  BY <1>1, <1>2

\* A call is answered 200 by its peer alone, which then holds its token valid.
LEMMA CallStatus ==
  ASSUME TypeOK, NEW c \in Call, HandleCall(c)
  PROVE  /\ call[c].pc # "answered"
         /\ \/ call'[c].pc = "answered" /\ call'[c].status = 502
            \/ call'[c].status = call[c].status
            \/ /\ call'[c].pc = "answered" /\ call[c].pc = "peer"
               /\ ValidateToken(call[c].peer, call[c].exTok)
<1>0. call[c] \in Goroutine /\ DOMAIN call = Call
  BY DEF TypeOK
<1>1. call[c].pc # "answered"
  BY DEF HandleCall, Advance, GetOwnToken, OwnTokenArrives, InvalidateOwnToken,
     InvalidateExchange, GetExchangedToken, ExchangeGranted, ExchangeRefused,
     ExchangedTokenArrives, HandleAPI, OwnTokenFails, ExchangeFails, CallPeerFails
<1>2. ASSUME NEW status, Answers(c, status)
      PROVE  call'[c].pc = "answered" /\ call'[c].status = status
  BY <1>2, AnswersStatus
<1>3. CASE GetOwnToken(c) \/ OwnTokenArrives(c) \/ InvalidateOwnToken(c) \/ InvalidateExchange(c)
           \/ ExchangeGranted(c) \/ ExchangedTokenArrives(c)
  <2>1. call'[c].status = call[c].status
    BY <1>0, <1>3 DEF GetOwnToken, OwnTokenArrives, InvalidateOwnToken, InvalidateExchange,
       ExchangeGranted, ExchangedTokenArrives, Goes, Goroutine
  <2> QED
    BY <1>1, <2>1
<1>4. CASE GetExchangedToken(c)
  <2>1. CASE Answers(c, 502)
    BY <1>1, <1>2, <2>1
  <2>2. CASE \/ Goes(c, "exPost")
             \/ call' = [call EXCEPT ![c].pc = "peer", ![c].exTok = exchange[call[c].peer].token]
    BY <1>0, <1>1, <2>2 DEF Goes, Goroutine
  <2> QED
    BY <1>4, <2>1, <2>2 DEF GetExchangedToken
<1>5. CASE ExchangeRefused(c) \/ OwnTokenFails(c) \/ ExchangeFails(c) \/ CallPeerFails(c)
  BY <1>1, <1>2, <1>5, RefusedStatus
  DEF ExchangeRefused, OwnTokenFails, ExchangeFails, CallPeerFails
<1>6. CASE HandleAPI(c)
  BY <1>1, <1>2, <1>6, RefusedStatus DEF HandleAPI
<1> QED
  BY <1>3, <1>4, <1>5, <1>6 DEF HandleCall, Advance

\* What else happens to a goroutine: a request comes in, or the script has
\* read its answer.
LEMMA OtherMoves ==
  ASSUME DriversTypeOK, [DriversNext]_vars, \A c \in Call : ~ HandleCall(c)
  PROVE  \A c \in Call : \/ call'[c] = call[c]
                         \/ call'[c] = Gone
                         \/ call[c].pc = "idle" /\ call'[c].status = call[c].status
<1>0. DOMAIN call = Call /\ \A c \in Call : call[c] \in Goroutine
  BY DEF DriversTypeOK, TypeOK
<1>1. ASSUME NEW p \in Peer, CallPair(p), NEW c \in Call
      PROVE  call'[c] = call[c] \/ (call[c].pc = "idle" /\ call'[c].status = call[c].status)
  BY <1>0, <1>1 DEF CallPair, Receive, Goroutine
<1>2. ASSUME NEW p \in Peer, PairReturns(p), NEW c \in Call
      PROVE  call'[c] = call[c] \/ call'[c] = Gone
  BY <1>0, <1>2 DEF PairReturns
<1>3. CASE SetUp \/ GiveUp \/ DriveFullMesh \/ NotifyKeyRotated \/ RunRemoval
           \/ \E p \in Peer : WaitPeerRegisteredAt(p)
  BY <1>3, ScriptIsIdle DEF Idle, workloadVars
<1>4. CASE Rotate \/ Clock \/ UNCHANGED vars \/ \E p \in Peer : TryExchangeAtPeer(p)
  BY <1>4 DEF Rotate, RotateSigningKey, TryExchangeAtPeer, Clock, Tick, vars, workloadVars
<1>5. CASE Listeners
  BY <1>5, ListenersKnow DEF DriversTypeOK, workloadVars
<1> QED
  BY <1>1, <1>2, <1>3, <1>4, <1>5 DEF DriversNext, Script, Workload

LEMMA StatusStep ==
  ASSUME DriversTypeOK, StatusOfAnswer, [DriversNext]_vars PROVE StatusOfAnswer'
<1>1. ASSUME NEW c \in Call, HandleCall(c) PROVE StatusOfAnswer'
  <2>1. \A d \in Call : d # c => call'[d] = call[d]
    BY <1>1, MovesAlone DEF DriversTypeOK
  <2>2. call'[c].pc = "answered" \/ call'[c].status = call[c].status
    BY <1>1, CallStatus DEF DriversTypeOK
  <2>3. call[c].pc # "answered"
    BY <1>1, CallStatus DEF DriversTypeOK
  <2> QED
    BY <2>1, <2>2, <2>3 DEF StatusOfAnswer
<1>2. CASE \A c \in Call : ~ HandleCall(c)
  BY <1>2, OtherMoves, GoneBlank DEF StatusOfAnswer
<1> QED
  BY <1>1, <1>2

\* A call that a peer accepts presents a token that it has not outlived, and a
\* peer that is clean accepts none that can be introspected.
LEMMA StepIsShut ==
  ASSUME DriversInv, [DriversNext]_vars, NEW c \in Call,
         call[c].pc = "peer", call'[c].status = 200
  PROVE  now <= cleaned[call[c].peer] + (IF noIntrospection THEN Life - 1 ELSE 0)
<1>0. /\ DriversTypeOK /\ TypeOK /\ call[c].peer \in Peer /\ call[c].status = 0
      /\ now \in Nat /\ Life \in Nat /\ now < Never /\ call[c].exTok.end \in Nat
      /\ cleaned[call[c].peer] \in Nat
  BY Numbers DEF DriversInv, DriversTypeOK, TypeOK, Goroutine, Token, StatusOfAnswer, Never
<1>1. HandleCall(c)
  <2>1. ASSUME NEW d \in Call, HandleCall(d), d # c PROVE FALSE
    BY <1>0, <2>1, MovesAlone
  <2>2. CASE \A d \in Call : ~ HandleCall(d)
    <3>1. call'[c] = call[c] \/ call'[c] = Gone \/ call[c].pc = "idle"
      BY <1>0, <2>2, OtherMoves
    <3> QED
      BY <1>0, <3>1, GoneBlank
  <2> QED
    BY <2>1, <2>2
<1>2. ValidateToken(call[c].peer, call[c].exTok)
  BY <1>0, <1>1, CallStatus
<1>3. CASE cleaned[call[c].peer] = Never
  <2>1. now + 1 <= Never /\ Never \in Nat
    BY <1>0, Numbers DEF Never
  <2> QED
    BY <1>0, <1>3, <2>1
<1>4. CASE cleaned[call[c].peer] # Never
  <2>1. realm[call[c].peer] \in {"absent", "closed"}
    BY <1>0, <1>4 DEF DriversInv, CleanStaysShut, PeerStateClean
  <2>2. noIntrospection
    BY <1>2, <2>1 DEF ValidateToken
  <2>3. call[c].exTok.end <= cleaned[call[c].peer] + Life
    BY <1>0, <1>4 DEF DriversInv, Lives, LastGrant
  <2>4. now < call[c].exTok.end
    BY <1>2 DEF ValidateToken, ValidateTokenStateless
  <2> QED
    BY <1>0, <2>2, <2>3, <2>4
<1> QED
  BY <1>3, <1>4

-----------------------------------------------------------------------------
(* The theorems                                                            *)

LEMMA DriversEstablish == DriversInit => DriversInv
<1> SUFFICES ASSUME DriversInit PROVE DriversInv
  OBVIOUS
<1> USE Numbers
<1>1. TypeOK
  BY InitTyped DEF DriversInit
<1>2. DriversTypeOK /\ ScriptOrder /\ Propagation /\ CleanStaysShut
  <2>1. step \in {"keycloak", "backend"}
    BY DEF DriversInit
  <2>2. cleaned \in [Peer -> 0..Never] /\ \A p \in Peer : cleaned[p] = Never
    BY DEF DriversInit, Never
  <2>3. DriversTypeOK
    BY <1>1, <2>1, <2>2 DEF DriversInit, DriversTypeOK, Step, SetUpSteps
  <2>4. ScriptOrder
    BY <2>1, <2>2 DEF DriversInit, ScriptOrder
  <2>5. Propagation /\ CleanStaysShut
    BY <2>1, <2>2 DEF Propagation, CleanStaysShut
  <2> QED
    BY <2>3, <2>4, <2>5
<1>3. Lives /\ StatusOfAnswer
  <2>1. NoCall.exTok = NoToken /\ NoCall.status = 0
    BY DEF NoCall
  <2>2. NoToken.end = 0 /\ Empty.token = NoToken
    BY DEF NoToken, Empty
  <2>3. \A p \in Peer : LastGrant(p) = 0
    BY DEF DriversInit, Init, LastGrant
  <2>4. exchange = [p \in Peer |-> Empty] /\ call = [c \in Call |-> NoCall]
    BY DEF DriversInit, Init
  <2> QED
    BY <2>1, <2>2, <2>3, <2>4 DEF Lives, StatusOfAnswer
<1> QED
  BY <1>2, <1>3 DEF DriversInv

LEMMA DriversInductive == DriversInv /\ [DriversNext]_vars => DriversInv'
<1> SUFFICES ASSUME DriversInv, [DriversNext]_vars PROVE DriversInv'
  OBVIOUS
<1>1. DriversTypeOK' /\ ScriptOrder'
  BY DriversTyped, OrderStep DEF DriversInv
<1>2. Propagation'
  BY PropagationStep DEF DriversInv
<1>3. CleanStaysShut'
  BY CleanStep DEF DriversInv
<1>4. Lives'
  BY LivesStep DEF DriversInv
<1>5. StatusOfAnswer'
  BY StatusStep DEF DriversInv
<1> QED
  BY <1>1, <1>2, <1>3, <1>4, <1>5 DEF DriversInv

LEMMA DriversInvariance == DriversSpec => []DriversInv
  BY DriversEstablish, DriversInductive, PTL DEF DriversSpec

\* The scripts, the workload and the realms keep their types.
THEOREM DriversTypes == DriversSpec => []DriversTypeOK
<1>1. DriversInv => DriversTypeOK
  BY DEF DriversInv
<1> QED
  BY <1>1, DriversInvariance, PTL

\* Once the script of a rotation has recorded that it has propagated, every
\* peer's realm holds the new key.
THEOREM RotationPropagates == DriversSpec => []PropagatedIsAccepted
<1>1. DriversInv => PropagatedIsAccepted
  BY DEF DriversInv, Propagation, PropagatedIsAccepted
<1> QED
  BY <1>1, DriversInvariance, PTL

\* From when the removal script counts a peer as clean on, that peer accepts no
\* call; without introspection, none once a token's life has passed.
THEOREM RemovalIsShut == DriversSpec => CleanIsShut
<1>1. DriversInv /\ [DriversNext]_vars =>
        [\A c \in Call :
           call[c].pc = "peer" /\ call'[c].status = 200 =>
             now <= cleaned[call[c].peer] + (IF noIntrospection THEN Life - 1 ELSE 0)]_workloadVars
  BY StepIsShut
<1> QED
  BY <1>1, DriversInvariance, PTL DEF DriversSpec, CleanIsShut

-----------------------------------------------------------------------------
(* Tokens that are taken, under the scripts                                *)

\* Nothing but a call that goes on takes, stores or drops a token.
LEMMA ScriptsTakeNothing ==
  ASSUME TypeOK, [DriversNext]_vars, ~ Workload
  PROVE  /\ UNCHANGED <<ownToken, exchange>>
         /\ \A c \in Call : call'[c] = call[c] \/ call'[c].pc \in {"own", "answered"}
<1>1. CASE UNCHANGED workloadVars
  BY <1>1 DEF workloadVars
<1>2. CASE Idle
  BY <1>1, <1>2 DEF Idle
<1>3. CASE SetUp \/ GiveUp \/ DriveFullMesh \/ NotifyKeyRotated \/ RunRemoval
           \/ \E p \in Peer : WaitPeerRegisteredAt(p)
  BY <1>2, <1>3, ScriptIsIdle
<1>4. CASE Rotate \/ \E p \in Peer : TryExchangeAtPeer(p)
  BY <1>1, <1>4 DEF Rotate, RotateSigningKey, TryExchangeAtPeer
<1>5. ASSUME NEW p \in Peer, CallPair(p)
      PROVE  /\ UNCHANGED <<ownToken, exchange>>
             /\ \A c \in Call : call'[c] = call[c] \/ call'[c].pc \in {"own", "answered"}
  BY <1>5 DEF CallPair, Receive, TypeOK, Goroutine
<1>6. ASSUME NEW p \in Peer, PairReturns(p)
      PROVE  /\ UNCHANGED <<ownToken, exchange>>
             /\ \A c \in Call : call'[c] = call[c] \/ call'[c].pc \in {"own", "answered"}
  <2>1. Gone.pc = "answered"
    BY DEF Gone, NoCall
  <2> QED
    BY <1>6, <2>1 DEF PairReturns, TypeOK
<1>7. CASE Listeners
  BY <1>1, <1>7, ListenersKnow
<1>8. CASE Clock \/ UNCHANGED vars
  BY <1>1, <1>8 DEF Clock, Tick, vars
<1> QED
  BY <1>3, <1>4, <1>5, <1>6, <1>7, <1>8 DEF DriversNext, Script

\* A token taken from a cache arrived more than the margin less than a life
\* ago, so that it has ended, if at all, for less than the delay of its own
\* answer exceeds the margin: for every life, every margin and every delay,
\* whatever the calls, the scripts, the listeners and the realms do.
THEOREM TakenTokensLateByDelay == DriversSpec => LateByDelayOnly
<1>1. DriversInit => Arrivals
  BY InitArrivals DEF DriversInit
<1>2. ASSUME TypeOK, Arrivals, [DriversNext]_vars PROVE Arrivals'
  <2>1. CASE Workload
    BY <1>2, <2>1, HandleCallArrivals DEF Workload
  <2>2. CASE ~ Workload
    BY <1>2, <2>2, ScriptsTakeNothing DEF Arrivals
  <2> QED
    BY <2>1, <2>2
<1>3. ASSUME TypeOK, Arrivals, [DriversNext]_vars, NEW c \in Call
      PROVE  /\ call[c].pc = "own" /\ call'[c].pc = "exchange" => now + Margin < call'[c].tok.arrived + Life
             /\ call[c].pc = "exchange" /\ call'[c].pc = "peer" => now + Margin < call'[c].exTok.arrived + Life
  <2>1. CASE call'[c] = call[c] \/ call'[c].pc \in {"own", "answered"}
    BY <2>1
  <2>2. ASSUME NEW d \in Call, HandleCall(d) PROVE d = c \/ call'[c] = call[c]
    BY <1>3, <2>2, MovesAlone
  <2>3. CASE HandleCall(c)
    BY <1>3, <2>3, HandleCallTakesFresh
  <2> QED
    BY <1>3, <2>1, <2>2, <2>3, ScriptsTakeNothing DEF Workload
<1>4. TypeOK /\ Arrivals /\ [DriversNext]_vars =>
        [\A c \in Call :
           /\ call[c].pc = "own" /\ call'[c].pc = "exchange" => now + Margin < call'[c].tok.arrived + Life
           /\ call[c].pc = "exchange" /\ call'[c].pc = "peer" => now + Margin < call'[c].exTok.arrived + Life
        ]_workloadVars
  BY <1>3
<1>5. DriversTypeOK => TypeOK
  BY DEF DriversTypeOK
<1> QED
  BY DriversTypes, <1>1, <1>2, <1>4, <1>5, PTL DEF DriversSpec, LateByDelayOnly
=============================================================================
