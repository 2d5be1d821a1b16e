---------------------------- MODULE OAuthCentral ----------------------------
(***************************************************************************)
(* The centralized OAuth federation as one domain sees it: the repository, *)
(* the scripts that register, remove and announce, and this domain's       *)
(* listener behind its event stream.                                       *)
(*                                                                         *)
(* Listeners do not change the repository and each administers its own     *)
(* realm, so one listener stands for all of them.                          *)
(***************************************************************************)
EXTENDS OAuthListener, SequencesExt

CONSTANTS Caller, Capacity, MaxRequests

ASSUME RepoAssumption == Capacity \in Nat \ {0} /\ MaxRequests \in Nat

VARIABLES storage, request, sseClients, channel, wire, accepted, left, overtaken, dropped,
          unannounced  \* peers that rotated their key and have not told anyone

repoVars == <<storage, request, sseClients, channel, wire, accepted, left, overtaken, dropped>>
vars == <<listenerVars, repoVars, unannounced>>

Repo == INSTANCE MetadataRepo WITH Subscriber <- {Own}

Peer == Domain \ {Own}

CentralTypeOK ==
  /\ ListenerTypeOK
  /\ Repo!TypeOK
  /\ unannounced \subseteq Peer

CentralInit ==
  /\ ListenerInit
  /\ Repo!Init
  /\ unannounced = {}

-----------------------------------------------------------------------------
(* The listener's side of the stream                                       *)

\* requests.get reaches the repository, which registers the channel; it
\* returns with the response header, and that comes with the first event.
OpenEventStream ==
  /\ phase = "subscribing"
  /\ Repo!Subscribe(Own)
  /\ UNCHANGED <<listenerVars, unannounced>>

\* Mutant: the response header is never sent.
StreamEventsSilent ==
  /\ Repo!Forward(Own)
  /\ UNCHANGED <<listenerVars, unannounced>>

StreamEvents ==
  /\ Repo!Forward(Own)
  /\ IF phase = "subscribing" THEN Subscribed ELSE UNCHANGED listenerVars
  /\ UNCHANGED unannounced

\* Mutant: the listing is answered from before the subscription.
ListMetadataEarly ==
  /\ Listed(<< >>)
  /\ UNCHANGED <<repoVars, unannounced>>

\* Go iterates over a map in any order.
ListMetadata ==
  /\ \E listing \in SetToSeqs(storage) : Listed(listing)
  /\ UNCHANGED <<repoVars, unannounced>>

\* Mutant: the line read last is handled first.
IterEventsNewestFirst ==
  /\ wire[Own] # << >>
  /\ wire' = [wire EXCEPT ![Own] = Front(@)]
  /\ Dispatch(Last(wire[Own]).type, Last(wire[Own]).domain)
  /\ UNCHANGED <<storage, request, sseClients, channel, accepted, left, overtaken, dropped,
                 unannounced>>

IterEvents ==
  /\ Repo!Receive(Own)
  /\ Dispatch(Head(wire[Own]).type, Head(wire[Own]).domain)
  /\ UNCHANGED unannounced

Leave ==
  /\ phase = "dead"
  /\ Repo!Unsubscribe(Own)
  /\ UNCHANGED <<listenerVars, unannounced>>

ListenerStep ==
  /\ Step \/ SetUpFails \/ TokenExpires
  /\ UNCHANGED <<repoVars, unannounced>>

-----------------------------------------------------------------------------
(* The scripts' side                                                       *)

ScriptRegisters(c, d) ==
  /\ Repo!Register(c, d)
  /\ UNCHANGED <<listenerVars, unannounced>>

ScriptDeletes(c, d) ==
  /\ Repo!Del(c, d)
  /\ UNCHANGED <<listenerVars, unannounced>>

\* 3_rotate_key.py first makes the new key active, then tells the others.
ScriptRotates(d) ==
  /\ d \in Peer
  /\ RotateSigningKey(d)
  /\ unannounced' = unannounced \cup {d}
  /\ UNCHANGED repoVars

ScriptNotifies(c, d) ==
  /\ d \in unannounced
  /\ Repo!KeyRotated(c, d)
  /\ unannounced' = unannounced \ {d}
  /\ UNCHANGED listenerVars

Announce ==
  /\ \E c \in Caller : Repo!Broadcast(c)
  /\ UNCHANGED <<listenerVars, unannounced>>

Traffic ==
  /\ \E d \in Peer : FetchKeys(d)
  /\ UNCHANGED <<repoVars, unannounced>>

CentralNext ==
  \/ OpenEventStream \/ StreamEvents \/ ListMetadata \/ IterEvents \/ Leave
  \/ ListenerStep \/ Announce \/ Traffic
  \/ \E c \in Caller, d \in Domain :
       ScriptRegisters(c, d) \/ ScriptDeletes(c, d) \/ ScriptNotifies(c, d)
  \/ \E d \in Domain : ScriptRotates(d)

CentralSpec == CentralInit /\ [][CentralNext]_vars

\* The repository's goroutines and the listener's loop go on while they can;
\* nobody has to run a script.
FairCentralSpec ==
  /\ CentralSpec
  /\ WF_vars(OpenEventStream) /\ WF_vars(StreamEvents)
  /\ WF_vars(ListMetadata) /\ WF_vars(IterEvents)
  /\ WF_vars(Step /\ UNCHANGED <<repoVars, unannounced>>)
  /\ WF_vars(Announce)

-----------------------------------------------------------------------------
(* Properties                                                              *)

\* Every accepted change has been announced, and every announcement handled.
Quiet ==
  /\ phase = "listening" /\ job = NoJob
  /\ channel[Own] = << >> /\ wire[Own] = << >>
  /\ \A c \in Caller : request[c] = Repo!None

\* Peers of which an announcement was lost or overtaken by a later one, or
\* one of whose handlers failed.
Excused == harmed \cup overtaken \cup dropped

\* Once everything is handled, a domain that is not registered cannot use
\* the realm, with the exceptions named: a removal that is heard during the
\* backfill, twice, or before the addition it revokes is handled, included.
NoStaleAdmission ==
  Quiet => \A d \in Peer \ (storage \cup Excused) : ~Usable(d)

\* Once everything is handled, a registered domain can use the realm unless
\* it is one of the exceptions or had been removed before: additions during
\* the subscription and the backfill are neither missed nor half done.
OnlyReturnersLockedOut ==
  Quiet => \A d \in (storage \ {Own}) \ (Excused \cup left) : Usable(d)

\* Once everything is handled, the realm's copy of a registered domain's
\* keys is not one from before a rotation that was announced.
KeysFollowRotations ==
  Quiet => \A d \in (storage \ {Own}) \ (harmed \cup dropped \cup unannounced) :
             realm[d].keys # "stale"

\* A registered domain of which the listener has been told, or that it will
\* read in the listing, is eventually admitted, unless it leaves, an
\* announcement is lost or overtaken, a call fails or the listener is dead.
EventuallyAdmitted ==
  \A d \in Peer :
    (d \in storage /\ (phase \in {"listing", "backfill", "listening"} \/ channel[Own] # << >>))
      ~> (Usable(d) \/ d \in Excused \cup left \/ phase = "dead")
=============================================================================
