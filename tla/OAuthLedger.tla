---------------------------- MODULE OAuthLedger ----------------------------
(***************************************************************************)
(* The OAuth federation over the ledger as one domain sees it: the         *)
(* contract, the scripts that send transactions, and this domain's         *)
(* listener, which lists the contract page by page and then polls its      *)
(* event log in windows of blocks.                                         *)
(*                                                                         *)
(* poll_events yields a window's additions, then its removals, then its    *)
(* rotations. An exception between them leaves last_block alone: the next  *)
(* poll delivers the window, grown longer meanwhile, from its beginning.   *)
(***************************************************************************)
EXTENDS OAuthMetadataStore, OAuthListener, FiniteSets

CONSTANTS
  Rotating,    \* the domains 3_rotate_key.py is run for (ROTATE_DOMAIN)
  PageLimit    \* page size of list_metadata (50 in the code)

ASSUME LimitAssumption == PageLimit \in Nat \ {0}
ASSUME RotatingAssumption == Rotating \subseteq Domain \ {Own}

VARIABLES
  lastBlock,   \* last_block of poll_events
  window,      \* the polled window: its end, the type being yielded, the block of the last log
  walk,        \* list_metadata: the offset of the next page and what was read
  shuffled,    \* history: a removal moved entries while list_metadata ran
  unannounced  \* peers that rotated their key and have not told anyone

pollVars == <<lastBlock, window, walk>>
ledgerVars == <<vars, listenerVars, pollVars, shuffled, unannounced>>

Peer == Domain \ {Own}

NoWindow == [end |-> 0, type |-> "idle", at |-> 0]
NoWalk == [offset |-> 0, out |-> << >>]

LedgerTypeOK ==
  /\ TypeOK
  /\ ListenerTypeOK
  /\ lastBlock \in 0..Len(blocks)
  /\ window \in [end: Nat, type: EventType, at: Nat] \cup {NoWindow}
  /\ window # NoWindow =>
       /\ window.end \in (lastBlock + 1)..Len(blocks)
       /\ window.at \in lastBlock..window.end
  /\ walk \in [offset: Nat, out: Seq(Domain)]
  /\ unannounced \subseteq Rotating

LedgerInit ==
  /\ Init
  /\ ListenerInit
  /\ lastBlock = 0 /\ window = NoWindow /\ walk = NoWalk
  /\ shuffled = FALSE
  /\ unannounced = {}

-----------------------------------------------------------------------------
(* The listener's side of the chain                                        *)

\* The block number is taken before the listing.
CreateEventFilters ==
  /\ Subscribed
  /\ lastBlock' = Len(blocks)
  /\ UNCHANGED <<vars, window, walk, shuffled, unannounced>>

\* One getAllDomains call: list_metadata ends when it has read as many
\* entries as the contract reports now, or a page is empty.
ListMetadata ==
  LET last == walk.offset + PageLimit
      page == SubSeq(domainNames, walk.offset + 1,
                     IF last > Len(domainNames) THEN Len(domainNames) ELSE last)
      out  == walk.out \o page
  IN  /\ phase = "listing"
      /\ IF Len(out) >= Len(domainNames) \/ page = << >>
         THEN Listed(out) /\ walk' = NoWalk
         ELSE /\ walk' = [offset |-> last, out |-> out]
              /\ UNCHANGED listenerVars
      /\ UNCHANGED <<vars, lastBlock, window, shuffled, unannounced>>

Loop == phase = "listening" /\ job = NoJob

LogName == [domain_added |-> "DomainAdded", domain_removed |-> "DomainRemoved",
            key_rotated |-> "KeyRotated"]

\* Mutant: the first block of the window is skipped.
LogsExclusive(type, end) == {i \in (lastBlock + 2)..end : blocks[i].type = LogName[type]}

\* get_logs of one event type over the window, as the blocks that hold the
\* logs: what is mined stays as it is while they are yielded one by one.
Logs(type, end) == {i \in (lastBlock + 1)..end : blocks[i].type = LogName[type]}

Opened(type, end) == [end |-> end, type |-> type, at |-> lastBlock]

\* The logs that are still to be yielded.
Rest == {i \in Logs(window.type, window.end) : i > window.at}

BeginWindow ==
  /\ Loop /\ window = NoWindow /\ Len(blocks) > lastBlock
  /\ window' = Opened("domain_added", Len(blocks))
  /\ UNCHANGED <<vars, listenerVars, lastBlock, walk, shuffled, unannounced>>

\* Mutant: rotations are not asked for.
NextLogsOfTwoTypes ==
  /\ Loop /\ window # NoWindow /\ Rest = {}
  /\ IF window.type = "domain_added"
     THEN window' = Opened("domain_removed", window.end) /\ UNCHANGED lastBlock
     ELSE window' = NoWindow /\ lastBlock' = window.end
  /\ UNCHANGED <<vars, listenerVars, walk, shuffled, unannounced>>

\* Mutant: last_block is not moved when the window is done.
NextLogsAgain ==
  /\ Loop /\ window # NoWindow /\ Rest = {}
  /\ window' = CASE window.type = "domain_added"   -> Opened("domain_removed", window.end)
                 [] window.type = "domain_removed" -> Opened("key_rotated", window.end)
                 [] OTHER                          -> NoWindow
  /\ UNCHANGED <<vars, listenerVars, lastBlock, walk, shuffled, unannounced>>

NextLogs ==
  /\ Loop /\ window # NoWindow /\ Rest = {}
  /\ CASE window.type = "domain_added" ->
            window' = Opened("domain_removed", window.end) /\ UNCHANGED lastBlock
       [] window.type = "domain_removed" ->
            window' = Opened("key_rotated", window.end) /\ UNCHANGED lastBlock
       [] OTHER -> window' = NoWindow /\ lastBlock' = window.end
  /\ UNCHANGED <<vars, listenerVars, walk, shuffled, unannounced>>

\* Mutant: the blocks before a failure are taken as delivered.
PollFailsForward ==
  /\ window # NoWindow /\ window.type # "key_rotated" /\ Rest = {}
  /\ TransportRetries
  /\ window' = NoWindow /\ lastBlock' = window.end
  /\ UNCHANGED <<vars, walk, shuffled, unannounced>>

\* get_logs of the next type raises: the window is given up and polled again.
PollFails ==
  /\ window # NoWindow /\ window.type # "key_rotated" /\ Rest = {}
  /\ TransportRetries
  /\ window' = NoWindow
  /\ UNCHANGED <<vars, lastBlock, walk, shuffled, unannounced>>

\* The next log. An addition needs the domain's metadata: when getDomain
\* reverts, since it has left again, or fails, the event is skipped without a
\* trace.
Yield ==
  /\ window # NoWindow
  /\ \E i \in Rest :
       LET d == blocks[i].domainName
       IN  /\ \A j \in Rest : i <= j
           /\ window' = [window EXCEPT !.at = i]
           /\ IF window.type = "domain_added"
              THEN \/ domainExists[d] /\ Dispatch("domain_added", d)
                   \/ ~domainExists[d] /\ Loop /\ UNCHANGED listenerVars
                   \/ EventLost(d)
              ELSE Dispatch(window.type, d)
  /\ UNCHANGED <<vars, lastBlock, walk, shuffled, unannounced>>

ListenerStep ==
  /\ Step \/ SetUpFails \/ TokenExpires
  /\ UNCHANGED <<vars, pollVars, shuffled, unannounced>>

-----------------------------------------------------------------------------
(* The scripts' side                                                       *)

ScriptRegisters(d, raw) ==
  /\ RegisterDomain(d, raw)
  /\ UNCHANGED <<listenerVars, pollVars, shuffled, unannounced>>

ScriptDeletes(d) ==
  /\ RemoveDomain(d)
  /\ shuffled' = (shuffled \/ walk # NoWalk)
  /\ UNCHANGED <<listenerVars, pollVars, unannounced>>

\* 3_rotate_key.py first makes the new key active, then sends the
\* notification; when that reverts the script ends there.
ScriptRotates(d) ==
  /\ RotateSigningKey(d)
  /\ unannounced' = unannounced \cup {d}
  /\ UNCHANGED <<vars, pollVars, shuffled>>

ScriptNotifies(d) ==
  /\ d \in unannounced
  /\ NotifyKeyRotated(d)
  /\ unannounced' = unannounced \ {d}
  /\ UNCHANGED <<listenerVars, pollVars, shuffled>>

Traffic ==
  /\ \E d \in Rotating : FetchKeys(d)
  /\ UNCHANGED <<vars, pollVars, shuffled, unannounced>>

ListenerGoesOn ==
  CreateEventFilters \/ ListMetadata \/ BeginWindow \/ NextLogs \/ Yield \/ ListenerStep

LedgerNext ==
  \/ ListenerGoesOn \/ PollFails \/ Traffic
  \/ \E d \in Domain :
       \/ \E raw \in Metadata : ScriptRegisters(d, raw)
       \/ ScriptDeletes(d) \/ ScriptNotifies(d)
  \/ \E d \in Rotating : ScriptRotates(d)

LedgerSpec == LedgerInit /\ [][LedgerNext]_ledgerVars

\* The listener's loop goes on while it can.
FairLedgerSpec == LedgerSpec /\ WF_ledgerVars(ListenerGoesOn)

-----------------------------------------------------------------------------
(* Properties                                                              *)

Registered == {d \in Domain : domainExists[d]}
Left == {d \in Domain : \E i \in 1..Len(blocks) :
                              blocks[i] = [type |-> "DomainRemoved", domainName |-> d]}

\* The whole log has been handled.
Quiet == Loop /\ window = NoWindow /\ lastBlock = Len(blocks)

\* Once the log is handled, a domain that is not registered cannot use the
\* realm unless one of its handlers failed: neither handling a window's
\* additions before its removals nor replaying a window after an exception
\* admits a domain that is gone.
NoStaleAdmission ==
  Quiet => \A d \in Peer \ (Registered \cup harmed) : ~Usable(d)

\* Once the log is handled, a registered domain that never left can use the
\* realm, unless a handler or its getDomain call failed, or a removal moved
\* entries under the page walk of the listing.
OnlyReturnersLockedOut ==
  (Quiet /\ ~shuffled) =>
     \A d \in (Registered \ {Own}) \ (harmed \cup Left) : Usable(d)

\* Once the log is handled, the realm's copy of a registered domain's keys
\* is not one from before a rotation that was announced.
KeysFollowRotations ==
  Quiet => \A d \in (Registered \ {Own}) \ (harmed \cup unannounced) :
             realm[d].keys # "stale"

\* The listener, once it polls, keeps coming back to having handled
\* the whole log, although its polls fail and its windows are replayed.
CatchesUp == []<>(phase # "listening" \/ Quiet)
=============================================================================
