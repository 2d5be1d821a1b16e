----------------------------- MODULE BundleRepo -----------------------------
(***************************************************************************)
(* The central bundle repository (spiffe/centralized/centralized-db): an   *)
(* HTTP server that keeps the federation's bundles in one slice and pushes *)
(* an event to its subscribers after a change.                             *)
(*                                                                         *)
(* Every request has a goroutine of its own and no handler takes a lock on *)
(* `storage`, so the actions are the accesses the handlers make to shared  *)
(* memory: to the map's only entry (the clients use one federation), and   *)
(* to the cells of the slice's backing array, where slot i takes two       *)
(* cells, its RawBundle (2i-1) and its TrustDomainName (2i). A cell and a  *)
(* slice header are read and written whole: what a torn one refers to is   *)
(* memory outside this model.                                              *)
(*                                                                         *)
(* A request is its identifier, used once; writes are numbered in the      *)
(* order they arrive. The bundle a request publishes is named after it.    *)
(***************************************************************************)
EXTENDS Naturals, FiniteSets, Sequences, Functions, SequencesExt

CONSTANTS
  Write,       \* POST, PUT and DELETE requests
  Read,        \* GET requests
  Subscriber,  \* connections to /events
  TrustDomain,
  None,        \* nothing published, nothing known yet
  Overlap      \* bound: writes in progress at the same time

ASSUME RequestAssumption == Write \subseteq Nat /\ Write \cap Read = {}
ASSUME NoneAssumption == None \notin Write \cup TrustDomain

VARIABLES
  arrays,    \* the heap: every backing array allocated so far
  storage,   \* the slice stored for the federation
  handler,   \* the goroutine of each request
  stream,    \* the goroutine of each subscriber
  heard,     \* the writes whose event a subscriber was sent
  up,        \* FALSE once the runtime has stopped the process
  published, \* history: the entries the answered requests left, in order
  audit      \* history: what happened while each GET was in progress

serverVars == <<arrays, storage, handler, up>>
streamVars == <<stream, heard>>
vars == <<serverVars, streamVars, published, audit>>

-----------------------------------------------------------------------------
(* Memory. *)

NoSlice == [array |-> 0, len |-> 0]     \* the map has no such key
EmptySlice == [array |-> 1, len |-> 0]  \* []QualifiedBundle{}

Slots(s) == [i \in 1..s.len |-> <<arrays[s.array][2*i - 1], arrays[s.array][2*i]>>]
Cap(s) == Len(arrays[s.array]) \div 2

\* Mutant: the entries are not carried over.
GrownEmpty(s) ==
  LET room == IF Cap(s) = 0 THEN 2 ELSE 4 * Cap(s) IN
  [c \in 1..room |-> None]

\* The array a growing append copies to: room for twice as many entries.
Grown(s) ==
  LET room == IF Cap(s) = 0 THEN 2 ELSE 4 * Cap(s) IN
  [c \in 1..room |-> IF c <= 2 * s.len THEN arrays[s.array][c] ELSE None]

(* Requests. *)

Request == Write \cup Read
Fresh == [pc |-> "idle", op |-> "get", td |-> None, slice |-> NoSlice,
          i |-> 0, c |-> 0, found |-> FALSE, out |-> << >>, status |-> "none"]

At(h, pc) == up /\ handler[h].pc = pc
Goto(h, pc) == handler' = [handler EXCEPT ![h].pc = pc]

\* The handler returns; its local variables are gone.
Answer(h, status) ==
  handler' = [handler EXCEPT ![h] =
    [@ EXCEPT !.pc = "done", !.slice = NoSlice, !.i = 0, !.c = 0,
              !.found = FALSE, !.status = status]]

Active(h) == handler[h].pc \notin {"idle", "done"}
InProgress == {w \in Write : Active(w)}
Removes(w) == handler[w].op = "delete"

Members == {e[2] : e \in Range(published)}

\* What a request that is answered means. POST adds an entry, whatever there
\* is; PUT replaces, and DELETE removes, the first entry of that name.
First(td) ==
  CHOOSE i \in DOMAIN published :
    /\ published[i][2] = td
    /\ \A j \in DOMAIN published : published[j][2] = td => i <= j

After(w) ==
  LET td == handler[w].td
      e == <<w, td>>
  IN IF td \notin Members \/ handler[w].op = "post"
     THEN IF Removes(w) THEN published ELSE Append(published, e)
     ELSE IF Removes(w) THEN RemoveAt(published, First(td))
          ELSE [published EXCEPT ![First(td)] = e]

Init ==
  /\ arrays = << << >> >>
  /\ storage = NoSlice
  /\ handler = [h \in Request |-> Fresh]
  /\ stream = [s \in Subscriber |-> "away"]
  /\ heard = [s \in Subscriber |-> {}]
  /\ up = TRUE
  /\ published = << >>
  /\ audit = [r \in Read |-> [valid |-> {}, kept |-> {}, disturbed |-> FALSE]]

-----------------------------------------------------------------------------
(* Requests arrive. *)

\* The history of the reads that write w overlaps.
Overlapped(w, op, td) ==
  [r \in Read |->
     IF ~Active(r) THEN audit[r]
     ELSE IF op = "delete"
     THEN [audit[r] EXCEPT !.kept = @ \ {td}, !.disturbed = TRUE]
     ELSE [audit[r] EXCEPT !.valid = @ \cup {<<w, td>>}]]

StartWrite(w, op, td) ==
  /\ At(w, "idle") /\ \A v \in Write : v < w => handler[v].pc # "idle"
  /\ Cardinality(InProgress) < Overlap
  /\ handler' = [handler EXCEPT
       ![w].pc = IF op = "delete" THEN "header" ELSE "lookup",
       ![w].op = op, ![w].td = td]
  /\ audit' = Overlapped(w, op, td)
  /\ UNCHANGED <<arrays, storage, up, streamVars, published>>

StartRead(r) ==
  /\ At(r, "idle")
  /\ Goto(r, "header")
  /\ audit' = [audit EXCEPT ![r] =
       [valid |-> Range(published)
                    \cup {<<w, handler[w].td>> : w \in {v \in InProgress : ~Removes(v)}},
        kept |-> Members \ {handler[w].td : w \in {v \in InProgress : Removes(v)}},
        disturbed |-> \E w \in InProgress : Removes(w)]]
  /\ UNCHANGED <<arrays, storage, up, streamVars, published>>

-----------------------------------------------------------------------------
(* The steps of the handlers. *)

\* Is there an entry for the federation? If not, an empty one is stored.
Lookup(w) ==
  /\ At(w, "lookup")
  /\ Goto(w, IF storage = NoSlice THEN "create" ELSE "header")
  /\ UNCHANGED <<arrays, storage, up, streamVars, published, audit>>

StoreEmpty(w) ==
  /\ At(w, "create")
  /\ storage' = EmptySlice
  /\ Goto(w, "header")
  /\ UNCHANGED <<arrays, up, streamVars, published, audit>>

\* The slice header is copied; what it refers to stays shared.
ReadHeader(h) ==
  /\ At(h, "header")
  /\ IF handler[h].op = "delete" /\ storage = NoSlice
     THEN Answer(h, "not found")
     ELSE handler' = [handler EXCEPT
            ![h].slice = storage, ![h].i = 1, ![h].c = 1,
            ![h].pc = CASE handler[h].op = "post" -> "append"
                        [] handler[h].op = "get" -> "encode"
                        [] OTHER -> "scan"]
  /\ UNCHANGED <<arrays, storage, up, streamVars, published, audit>>

\* One iteration of the range loop over the slice that was copied.
ScanNext(w) ==
  /\ At(w, "scan")
  /\ handler[w].i <= handler[w].slice.len
  /\ arrays[handler[w].slice.array][2 * handler[w].i] # handler[w].td
  /\ handler' = [handler EXCEPT ![w].i = @ + 1]
  /\ UNCHANGED <<arrays, storage, up, streamVars, published, audit>>

ScanFinds(w) ==
  /\ At(w, "scan")
  /\ handler[w].i <= handler[w].slice.len
  /\ arrays[handler[w].slice.array][2 * handler[w].i] = handler[w].td
  /\ handler' = [handler EXCEPT
       ![w].found = TRUE,
       ![w].c = 2 * handler[w].i - 1,
       ![w].pc = CASE ~Removes(w) -> "locate"
                   [] Removes(w) /\ handler[w].i < handler[w].slice.len -> "shift"
                   [] OTHER -> "store"]
  /\ UNCHANGED <<arrays, storage, up, streamVars, published, audit>>

ScanEnds(w) ==
  /\ At(w, "scan")
  /\ handler[w].i > handler[w].slice.len
  /\ IF Removes(w) THEN Answer(w, "not found") ELSE Goto(w, "append")
  /\ UNCHANGED <<arrays, storage, up, streamVars, published, audit>>

\* storage[id][i] = ... reads the map again: the index comes from one slice,
\* the array from another. An index out of range panics, and net/http closes
\* the connection without an answer.
Locate(w) ==
  /\ At(w, "locate")
  /\ IF handler[w].i > storage.len
     THEN Answer(w, "aborted")
     ELSE handler' = [handler EXCEPT ![w].slice = storage, ![w].pc = "write"]
  /\ UNCHANGED <<arrays, storage, up, streamVars, published, audit>>

\* append(bundles, ...): the slot after the last one, in a copy if it is full.
AppendSlot(w) ==
  LET s == handler[w].slice
      full == s.len = Cap(s)
  IN /\ At(w, "append")
     /\ arrays' = IF full THEN Append(arrays, Grown(s)) ELSE arrays
     /\ handler' = [handler EXCEPT
          ![w].slice = [array |-> IF full THEN Len(arrays) + 1 ELSE s.array,
                        len |-> s.len + 1],
          ![w].c = 2 * s.len + 1,
          ![w].pc = "write"]
     /\ UNCHANGED <<storage, up, streamVars, published, audit>>

\* The entry is written, the bundle first.
WriteCell(w) ==
  LET c == handler[w].c
      raw == c % 2 = 1
  IN /\ At(w, "write")
     /\ arrays' = [arrays EXCEPT ![handler[w].slice.array][c] =
                     IF raw THEN w ELSE handler[w].td]
     /\ handler' = [handler EXCEPT
          ![w].c = c + 1,
          ![w].pc = CASE raw -> "write"
                      [] ~raw /\ handler[w].found -> "broadcast"
                      [] OTHER -> "store"]
     /\ UNCHANGED <<storage, up, streamVars, published, audit>>

\* Mutant: the last entry is cleared too, as slices.Delete does.
ShiftCellAndClear(w) ==
  LET s == handler[w].slice
      c == handler[w].c
  IN /\ At(w, "shift")
     /\ arrays' = [arrays EXCEPT
          ![s.array] = [@ EXCEPT ![c] = arrays[s.array][c + 2], ![c + 2] = None]]
     /\ handler' = [handler EXCEPT
          ![w].c = c + 1,
          ![w].pc = IF c + 2 = 2 * s.len THEN "store" ELSE "shift"]
     /\ UNCHANGED <<storage, up, streamVars, published, audit>>

\* append(bundles[:i], bundles[i+1:]...) moves the later entries down in the
\* shared array, cell by cell; the last slot keeps its old entry.
ShiftCell(w) ==
  LET s == handler[w].slice
      c == handler[w].c
  IN /\ At(w, "shift")
     /\ arrays' = [arrays EXCEPT ![s.array][c] = arrays[s.array][c + 2]]
     /\ handler' = [handler EXCEPT
          ![w].c = c + 1,
          ![w].pc = IF c + 2 = 2 * s.len THEN "store" ELSE "shift"]
     /\ UNCHANGED <<storage, up, streamVars, published, audit>>

\* Mutant: the slice keeps its length when an entry is removed.
StoreUnshrunk(w) ==
  /\ At(w, "store")
  /\ storage' = handler[w].slice
  /\ IF handler[w].op = "post"
     THEN /\ Answer(w, "ok")
          /\ published' = After(w)
     ELSE /\ Goto(w, "broadcast")
          /\ UNCHANGED published
  /\ UNCHANGED <<arrays, up, streamVars, audit>>

\* Mutant: the array that append returned is stored, its length is not.
StoreLengthStale(w) ==
  LET s == handler[w].slice
  IN /\ At(w, "store")
     /\ storage' = IF Removes(w) THEN [s EXCEPT !.len = @ - 1]
                   ELSE [storage EXCEPT !.array = s.array]
     /\ IF handler[w].op = "post"
        THEN /\ Answer(w, "ok")
             /\ published' = After(w)
        ELSE /\ Goto(w, "broadcast")
             /\ UNCHANGED published
     /\ UNCHANGED <<arrays, up, streamVars, audit>>

\* The map entry is replaced. POST is answered here: it announces nothing.
StoreHeader(w) ==
  LET s == handler[w].slice
  IN /\ At(w, "store")
     /\ storage' = [s EXCEPT !.len = IF Removes(w) THEN @ - 1 ELSE @]
     /\ IF handler[w].op = "post"
        THEN /\ Answer(w, "ok")
             /\ published' = After(w)
        ELSE /\ Goto(w, "broadcast")
             /\ UNCHANGED published
     /\ UNCHANGED <<arrays, up, streamVars, audit>>

\* Mutant: the sends block until the goroutine at the other end waits.
BroadcastBlocking(w) ==
  /\ At(w, "broadcast")
  /\ \A s \in Subscriber : stream[s] # "busy"
  /\ stream' = [s \in Subscriber |-> IF stream[s] = "waiting" THEN "busy" ELSE stream[s]]
  /\ heard' = [s \in Subscriber |->
       IF stream[s] = "waiting" THEN heard[s] \cup {w} ELSE heard[s]]
  /\ published' = After(w)
  /\ Answer(w, "ok")
  /\ UNCHANGED <<arrays, storage, up, audit>>

\* broadcast, under sseClientsMux: a send that does not block, to every
\* registered channel. The channels have no buffer, so only a goroutine that
\* waits in its select gets the event; any other misses it for good. Then the request is answered.
Broadcast(w) ==
  /\ At(w, "broadcast")
  /\ stream' = [s \in Subscriber |-> IF stream[s] = "waiting" THEN "busy" ELSE stream[s]]
  /\ heard' = [s \in Subscriber |->
       IF stream[s] = "waiting" THEN heard[s] \cup {w} ELSE heard[s]]
  /\ published' = After(w)
  /\ Answer(w, "ok")
  /\ UNCHANGED <<arrays, storage, up, audit>>

\* The encoder walks the slice field by field.
EncodeCell(r) ==
  LET s == handler[r].slice
      c == handler[r].c
  IN /\ At(r, "encode")
     /\ IF c <= 2 * s.len
        THEN handler' = [handler EXCEPT ![r].out = Append(@, arrays[s.array][c]),
                                        ![r].c = c + 1]
        ELSE Answer(r, "ok")
     /\ UNCHANGED <<arrays, storage, up, streamVars, published, audit>>

\* The runtime stops the process when it notices that one goroutine writes
\* the map while another one writes or reads it.
WritesMap(h) == handler[h].pc \in {"create", "store"}
ReadsMap(h) == handler[h].pc \in {"lookup", "header", "locate"}

ConcurrentMapFatal ==
  /\ up
  /\ \E g, h \in Request : g # h /\ WritesMap(g) /\ (WritesMap(h) \/ ReadsMap(h))
  /\ up' = FALSE
  /\ UNCHANGED <<arrays, storage, handler, streamVars, published, audit>>

-----------------------------------------------------------------------------
(* Subscribers. *)

\* The channel is registered before the goroutine first waits on it.
Subscribe(s) ==
  /\ up /\ stream[s] = "away"
  /\ stream' = [stream EXCEPT ![s] = "busy"]
  /\ UNCHANGED <<serverVars, heard, published, audit>>

\* The event is written and flushed, as fast as the client takes it.
WaitForEvent(s) ==
  /\ up /\ stream[s] = "busy"
  /\ stream' = [stream EXCEPT ![s] = "waiting"]
  /\ UNCHANGED <<serverVars, heard, published, audit>>

Unsubscribe(s) ==
  /\ up /\ stream[s] = "waiting"
  /\ stream' = [stream EXCEPT ![s] = "gone"]
  /\ UNCHANGED <<serverVars, heard, published, audit>>

-----------------------------------------------------------------------------
Handle(h) ==
  \/ ReadHeader(h)
  \/ h \in Read /\ EncodeCell(h)
  \/ /\ h \in Write
     /\ \/ Lookup(h) \/ StoreEmpty(h) \/ ScanNext(h) \/ ScanFinds(h)
        \/ ScanEnds(h) \/ Locate(h) \/ AppendSlot(h) \/ WriteCell(h)
        \/ ShiftCell(h) \/ StoreHeader(h) \/ Broadcast(h)

Next ==
  \/ \E w \in Write, td \in TrustDomain, op \in {"post", "put", "delete"} :
       StartWrite(w, op, td)
  \/ \E r \in Read : StartRead(r)
  \/ \E h \in Request : Handle(h)
  \/ ConcurrentMapFatal
  \/ \E s \in Subscriber : Subscribe(s) \/ WaitForEvent(s) \/ Unsubscribe(s)

Spec == Init /\ [][Next]_vars

\* The runtime schedules every goroutine; clients owe nothing.
FairSpec == Spec /\ \A h \in Request : WF_vars(Handle(h))

-----------------------------------------------------------------------------
(* Properties. *)

Slice == [array : 0..Len(arrays), len : Nat]

\* Every variable has its type, and every slice lies within its array.
TypeOK ==
  /\ \A k \in 1..Len(arrays) :
       arrays[k] \in Seq(Write \cup TrustDomain \cup {None})
  /\ storage \in Slice
  /\ \A h \in Request :
       /\ handler[h].slice \in Slice
       /\ handler[h].slice.array # 0 => handler[h].slice.len <= Cap(handler[h].slice)
       /\ handler[h].slice.array = 0 => handler[h].slice.len = 0
       /\ handler[h].td \in TrustDomain \cup {None}
       /\ handler[h].out \in Seq(Write \cup TrustDomain \cup {None})
       /\ handler[h].status \in {"none", "ok", "not found", "aborted"}
  /\ stream \in [Subscriber -> {"away", "busy", "waiting", "gone"}]
  /\ heard \in [Subscriber -> SUBSET Write]
  /\ published \in Seq(Write \X TrustDomain)
  /\ up \in BOOLEAN

\* While no write is in progress the slice is, entry by entry, what the
\* answered requests left: in-place overwrites, shifts and reallocations of the
\* shared array lose, repeat and exchange nothing. Nothing is said of names
\* being unique: a POST adds an entry, whatever the slice holds.
StoresWhatItAnswered ==
  up /\ InProgress = {} => Slots(storage) = published

\* What a GET returned, as pairs of a bundle and a name.
Returned(r) ==
  LET out == handler[r].out IN
  {<<out[2*i - 1], out[2*i]>> : i \in 1..(Len(out) \div 2)}
ReturnedNames(r) == {e[2] : e \in Returned(r)}
Answered(r) == handler[r].pc = "done"

\* A GET that no deletion overlaps returns each bundle under the name it was
\* published for, and misses no member, although appends and overwrites go on
\* in the array it walks.
CleanReads ==
  \A r \in Read : Answered(r) /\ ~audit[r].disturbed =>
    /\ Returned(r) \subseteq audit[r].valid
    /\ audit[r].kept \subseteq ReturnedNames(r)

\* Whatever overlaps a GET, each bundle and each name in its answer was current
\* at some moment of the request: it never returns a blank or a withdrawn one,
\* although it may walk past the end of the slice or in an array left behind.
ReadsWereCurrent ==
  \A r \in Read : Answered(r) =>
    /\ {e[1] : e \in Returned(r)} \subseteq {e[1] : e \in audit[r].valid}
    /\ ReturnedNames(r) \subseteq {e[2] : e \in audit[r].valid}

\* At the moment a subscriber is sent an event, the slice is what the answered
\* requests and the announced one leave: a listener that reads the repository
\* on an event sees the change, and it is not answered yet.
HeardIsVisible ==
  [][heard' # heard => Slots(storage) = published']_vars

\* Every handler returns, however slowly the subscribers read, unless the
\* runtime stops the server: requests being finitely many, none is left in
\* progress in the end.
EveryRequestEnds ==
  <>[](~up \/ \A h \in Request : ~Active(h))

(* What the client says of the server, and the server does not do. *)

\* PUT is "insert-or-update": as long as every request is a PUT answered 200
\* and no two concern the same trust domain, each one's bundle is stored.
UpsertIsStored ==
  /\ up
  /\ \A w \in Write : handler[w].pc # "idle" =>
       handler[w].op = "put" /\ handler[w].status = "ok"
  /\ \A v, w \in Write : v # w /\ handler[v].td = handler[w].td => handler[w].td = None
  => \A w \in Write : handler[w].pc = "done" =>
       <<w, handler[w].td>> \in Range(Slots(storage))
=============================================================================
