------------------------- MODULE BundleRepo_proofs -------------------------
(***************************************************************************)
(* Proofs about the central bundle repository, for every number of         *)
(* requests, subscribers and trust domains, when writes come one at a time *)
(* (Overlap <= 1), which is what the scripts do. Reads overlap them and    *)
(* each other freely: a GET walks an array that appends, overwrites and    *)
(* shifts change under it, cell by cell.                                   *)
(***************************************************************************)
EXTENDS BundleRepo, SequenceTheorems, FiniteSetTheorems, TLAPS

-----------------------------------------------------------------------------
(* The invariant: types                                                    *)

Cell == Write \cup TrustDomain \cup {None}
Bounds == [array: Nat, len: Nat]
WritePc == {"idle", "lookup", "create", "header", "scan", "locate", "append", "write", "shift",
            "store", "broadcast", "done"}
ReadPc == {"idle", "header", "encode", "done"}
Goroutine == [pc: WritePc \cup ReadPc, op: {"post", "put", "delete", "get"},
              td: TrustDomain \cup {None}, slice: Bounds, i: Nat, c: Nat, found: BOOLEAN,
              out: Seq(Cell), status: {"none", "ok", "not found", "aborted"}]
Entries == Seq(Write \X TrustDomain)
Audit == [valid: SUBSET (Write \X TrustDomain), kept: SUBSET TrustDomain, disturbed: BOOLEAN]

\* A slice lies within its array of the heap H; the absent one is empty.
Within(H, s) == /\ s.array \in 0..Len(H)
                /\ s.array = 0 => s.len = 0
                /\ s.array # 0 => 2 * s.len <= Len(H[s.array])

\* The heap: every slot of an array has its two cells.
Paired(H) == /\ H \in Seq(Seq(Cell)) /\ Len(H) >= 1
             /\ \A k \in 1..Len(H) : \E n \in Nat : Len(H[k]) = 2 * n

RepoTypes ==
  /\ Paired(arrays)
  /\ storage \in Bounds /\ Within(arrays, storage)
  /\ handler \in [Request -> Goroutine]
  /\ \A w \in Write : handler[w].pc \in WritePc
  /\ \A r \in Read : /\ handler[r].pc \in ReadPc /\ handler[r].op = "get"
                     /\ handler[r].pc = "encode" => handler[r].c >= 1
  /\ \A h \in Request : /\ Within(arrays, handler[h].slice)
                        /\ handler[h].pc = "idle" => handler[h] = Fresh
  /\ stream \in [Subscriber -> {"away", "busy", "waiting", "gone"}]
  /\ heard \in [Subscriber -> SUBSET Write]
  /\ published \in Entries
  /\ up \in BOOLEAN
  /\ audit \in [Read -> Audit]

-----------------------------------------------------------------------------
(* The invariant: the write in progress                                    *)

\* What slot i of an array's contents holds.
BundleAt(A, i) == A[2 * i - 1]
NameAt(A, i) == A[2 * i]

\* Slot by slot, the entries of P.
Lists(A, P) == \A j \in 1..Len(P) : BundleAt(A, j) = P[j][1] /\ NameAt(A, j) = P[j][2]

\* The same when slot m is left out.
ListsAround(A, P, m) ==
  \A j \in 1..Len(P) : /\ j < m => BundleAt(A, j) = P[j][1] /\ NameAt(A, j) = P[j][2]
                       /\ j >= m => BundleAt(A, j + 1) = P[j][1] /\ NameAt(A, j + 1) = P[j][2]

Contents == arrays[storage.array]
Stored(P) == storage.len = Len(P) /\ Lists(Contents, P)

\* What w does when it is answered: it adds an entry, or it has found the first
\* one of its name.
Adds(w) == ~ Removes(w) /\ (handler[w].op = "post" \/ handler[w].td \notin Members)
Finds(w, i) ==
  /\ handler[w].op # "post" /\ i \in 1..Len(published)
  /\ published[i][2] = handler[w].td
  /\ \A j \in 1..(i - 1) : published[j][2] # handler[w].td
Changes(w) == Adds(w) \/ \E i \in Nat : Finds(w, i)

\* Before the slice is searched.
Begun(w) ==
  /\ handler[w].pc \in {"lookup", "create", "header"} /\ ~ handler[w].found
  /\ handler[w].pc # "header" => ~ Removes(w)
  /\ handler[w].pc = "create" => storage = NoSlice
  /\ handler[w].pc = "header" /\ ~ Removes(w) => storage.array # 0
  /\ Stored(published)

\* The slots before i have been searched, in a slice that is still the stored one.
Searching(w) ==
  /\ handler[w].pc = "scan" /\ handler[w].op # "post" /\ ~ handler[w].found
  /\ handler[w].slice = storage /\ storage.array # 0
  /\ handler[w].i \in 1..(storage.len + 1)
  /\ \A j \in 1..(handler[w].i - 1) : NameAt(Contents, j) # handler[w].td
  /\ Stored(published)

\* PUT has found slot i, and overwrites its bundle.
Overwriting(w) ==
  /\ handler[w].pc \in {"locate", "write"} /\ handler[w].op = "put" /\ handler[w].found
  /\ handler[w].slice = storage /\ storage.array # 0
  /\ handler[w].i \in 1..storage.len /\ Finds(w, handler[w].i)
  /\ \/ handler[w].c = 2 * handler[w].i - 1 /\ Stored(published)
     \/ handler[w].c = 2 * handler[w].i /\ handler[w].pc = "write" /\ Stored(After(w))

Appending(w) ==
  /\ handler[w].pc = "append" /\ ~ Removes(w) /\ ~ handler[w].found
  /\ handler[w].slice = storage /\ storage.array # 0
  /\ Adds(w) /\ Stored(published)

\* The slot after the last one is being filled, in the stored array or in a
\* copy of it.
Filling(w) ==
  LET s == handler[w].slice
      n == storage.len
  IN  /\ handler[w].pc \in {"write", "store"} /\ ~ Removes(w) /\ ~ handler[w].found
      /\ s.array # 0 /\ s.len = n + 1
      /\ Adds(w) /\ Stored(published)
      /\ \A j \in 1..(2 * n) : arrays[s.array][j] = Contents[j]
      /\ handler[w].pc = "write" => handler[w].c \in {2 * n + 1, 2 * n + 2}
      /\ handler[w].pc = "store" \/ handler[w].c = 2 * n + 2 => BundleAt(arrays[s.array], n + 1) = w
      /\ handler[w].pc = "store" => NameAt(arrays[s.array], n + 1) = handler[w].td

\* While entries move, every cell holds something that is still published.
StillPublished ==
  \A i \in 1..storage.len : /\ \E e \in Range(published) : BundleAt(Contents, i) = e[1]
                            /\ NameAt(Contents, i) \in Members

\* The entries behind the deleted one move down. Slot m is the hole: what the
\* other slots list is what will be published.
Shifting(w) ==
  /\ handler[w].pc = "shift" /\ Removes(w) /\ StillPublished /\ Changes(w)
  /\ handler[w].slice = storage /\ storage.array # 0
  /\ storage.len = Len(After(w)) + 1
  /\ \E m \in 1..(storage.len - 1) :
       /\ handler[w].c \in {2 * m - 1, 2 * m}
       /\ ListsAround(Contents, After(w), m)
       /\ handler[w].c = 2 * m => BundleAt(Contents, m) = BundleAt(Contents, m + 1)

\* All that is left is to store the shorter slice.
Shifted(w) ==
  /\ handler[w].pc = "store" /\ Removes(w) /\ StillPublished /\ Changes(w)
  /\ handler[w].slice = storage /\ storage.array # 0
  /\ storage.len = Len(After(w)) + 1 /\ Lists(Contents, After(w))

Broadcasting(w) ==
  handler[w].pc = "broadcast" /\ handler[w].op # "post" /\ Changes(w) /\ Stored(After(w))

Writing(w) ==
  /\ handler[w].td \in TrustDomain /\ handler[w].op # "get"
  /\ \/ Begun(w) \/ Searching(w) \/ Overwriting(w) \/ Appending(w) \/ Filling(w)
     \/ Shifting(w) \/ Shifted(w) \/ Broadcasting(w)

WriterInv ==
  /\ \A v, w \in Write : Active(v) /\ Active(w) => v = w
  /\ (\A w \in Write : ~ Active(w)) => Stored(published)
  /\ \A w \in Write : Active(w) => Writing(w)

-----------------------------------------------------------------------------
(* The invariant: the reads                                                *)

\* A bundle, a name of V, the pairs that were current during the request.
BundleOf(V, v) == \E e \in V : e[1] = v
NameOf(V, v) == \E e \in V : e[2] = v

\* While r is in progress, V has everything published and everything being
\* published. If no deletion overlaps, everything r must not miss still is.
Witnessed(r) ==
  LET V == audit[r].valid IN
  Active(r) =>
    /\ Range(published) \subseteq V
    /\ \A w \in Write : Active(w) /\ ~ Removes(w) => <<w, handler[w].td>> \in V
    /\ ~ audit[r].disturbed => /\ \A w \in Write : Active(w) => ~ Removes(w)
                               /\ audit[r].kept \subseteq Members

\* Each cell of the slots that r walks was current. If no deletion overlaps, the
\* slots keep their names and what is appended lies behind them.
Walking(r) ==
  LET V == audit[r].valid
      s == handler[r].slice
      A == arrays[s.array]
      out == handler[r].out
  IN  handler[r].pc = "encode" =>
        /\ \A i \in 1..s.len : BundleOf(V, BundleAt(A, i)) /\ NameOf(V, NameAt(A, i))
        /\ handler[r].c = Len(out) + 1 /\ Len(out) <= 2 * s.len
        /\ ~ audit[r].disturbed =>
             /\ s.array = storage.array => s.len <= storage.len
             /\ \A w \in Write : handler[w].pc \in {"write", "store"} /\ handler[w].slice.array = s.array
                                   => s.len <= storage.len
             /\ \A i \in 1..s.len : <<BundleAt(A, i), NameAt(A, i)>> \in V
             /\ \A td \in audit[r].kept : \E i \in 1..s.len : NameAt(A, i) = td
             /\ \A i \in 1..s.len :
                  /\ 2 * i - 1 <= Len(out) => <<BundleAt(out, i), NameAt(A, i)>> \in V
                  /\ 2 * i <= Len(out) => NameAt(out, i) = NameAt(A, i)

\* The same of what r has read.
ReadSoFar(r) ==
  LET V == audit[r].valid
      out == handler[r].out
  IN  /\ handler[r].pc \in {"idle", "header"} => out = << >>
      /\ \A i \in Nat \ {0} : /\ 2 * i - 1 <= Len(out) => BundleOf(V, BundleAt(out, i))
                              /\ 2 * i <= Len(out) => NameOf(V, NameAt(out, i))
      /\ handler[r].pc = "done" => \E n \in Nat : Len(out) = 2 * n
      /\ handler[r].pc = "done" /\ ~ audit[r].disturbed =>
           /\ \A i \in Nat \ {0} : 2 * i <= Len(out) => <<BundleAt(out, i), NameAt(out, i)>> \in V
           /\ \A td \in audit[r].kept : \E i \in Nat \ {0} : 2 * i <= Len(out) /\ NameAt(out, i) = td

ReadersInv ==
  /\ storage.array = 0 => \A h \in Request : handler[h].slice.array = 0
  /\ \A r \in Read : Witnessed(r) /\ Walking(r) /\ ReadSoFar(r)

RepoInv == RepoTypes /\ WriterInv /\ ReadersInv

-----------------------------------------------------------------------------
(* The heap                                                                *)

LEMMA HeapShape ==
  ASSUME RepoTypes
  PROVE  /\ Len(arrays) \in Nat
         /\ \A k \in 1..Len(arrays) : /\ arrays[k] \in Seq(Cell) /\ Len(arrays[k]) \in Nat
                                      /\ \A c \in 1..Len(arrays[k]) : arrays[k][c] \in Cell
<1>1. arrays \in Seq(Seq(Cell))
  BY DEF RepoTypes, Paired
<1>2. Len(arrays) \in Nat /\ \A k \in 1..Len(arrays) : arrays[k] \in Seq(Cell)
  BY <1>1, LenProperties, ElementOfSeq
<1>3. ASSUME NEW k \in 1..Len(arrays)
      PROVE  /\ arrays[k] \in Seq(Cell) /\ Len(arrays[k]) \in Nat
             /\ \A c \in 1..Len(arrays[k]) : arrays[k][c] \in Cell
  <2>1. arrays[k] \in Seq(Cell)
    BY <1>2
  <2> QED
    BY <2>1, LenProperties, ElementOfSeq
<1> QED
  BY <1>2, <1>3

\* The cells of the slots.
LEMMA SlotCells ==
  ASSUME NEW n \in Nat, NEW L \in Nat, 2 * n <= L
  PROVE  /\ \A j \in 1..n : 2 * j - 1 \in 1..L /\ 2 * j \in 1..L
         /\ \A i, j \in Nat : 2 * i - 1 # 2 * j /\ (2 * i = 2 * j => i = j) /\ (2 * i - 1 = 2 * j - 1 => i = j)
  OBVIOUS

LEMMA Parity ==
  ASSUME NEW i \in Nat
  PROVE  /\ (2 * i) % 2 = 0 /\ (2 * i + 1) % 2 = 1 /\ (2 * i + 2) % 2 = 0
         /\ i >= 1 => (2 * i - 1) % 2 = 1
  OBVIOUS

\* A slice stays within an array that keeps its length.
LEMMA WithinKept ==
  ASSUME NEW H, NEW K, Len(H) \in Nat, Len(K) \in Nat, Len(H) <= Len(K),
         \A k \in 1..Len(H) : Len(K[k]) = Len(H[k]),
         NEW s \in Bounds, Within(H, s)
  PROVE  Within(K, s)
<1>1. s.array \in Nat /\ s.array \in 0..Len(K) /\ (s.array # 0 => s.array \in 1..Len(H))
  BY DEF Bounds, Within
<1> QED
  BY <1>1 DEF Within

\* A cell is written.
LEMMA HeapWrite ==
  ASSUME RepoTypes, NEW a \in 1..Len(arrays), NEW c \in 1..Len(arrays[a]), NEW v \in Cell,
         arrays' = [arrays EXCEPT ![a][c] = v]
  PROVE  /\ arrays' \in Seq(Seq(Cell)) /\ Len(arrays') = Len(arrays)
         /\ \A k \in 1..Len(arrays) : Len(arrays'[k]) = Len(arrays[k])
         /\ \A k \in 1..Len(arrays) : k # a => arrays'[k] = arrays[k]
         /\ arrays'[a][c] = v
         /\ \A j \in 1..Len(arrays[a]) : j # c => arrays'[a][j] = arrays[a][j]
<1> DEFINE new == [arrays[a] EXCEPT ![c] = v]
<1>1. arrays[a] \in Seq(Cell) /\ arrays \in Seq(Seq(Cell))
  BY HeapShape DEF RepoTypes, Paired
<1>2. /\ new \in Seq(Cell) /\ Len(new) = Len(arrays[a])
      /\ \A j \in 1..Len(arrays[a]) : new[j] = IF j = c THEN v ELSE arrays[a][j]
  BY <1>1, ExceptSeq
<1>3. arrays' = [arrays EXCEPT ![a] = new]
  OBVIOUS
<1> HIDE DEF new
<1>4. /\ arrays' \in Seq(Seq(Cell)) /\ Len(arrays') = Len(arrays)
      /\ \A k \in 1..Len(arrays) : arrays'[k] = IF k = a THEN new ELSE arrays[k]
  <2> DEFINE S == Seq(Cell)
  <2>1. arrays \in Seq(S) /\ new \in S
    BY <1>1, <1>2
  <2> HIDE DEF S
  <2>2. /\ [arrays EXCEPT ![a] = new] \in Seq(S)
        /\ Len([arrays EXCEPT ![a] = new]) = Len(arrays)
        /\ \A k \in 1..Len(arrays) : [arrays EXCEPT ![a] = new][k] = IF k = a THEN new ELSE arrays[k]
    BY <2>1, ExceptSeq
  <2> QED
    BY <1>3, <2>2 DEF S
<1> QED
  BY <1>2, <1>4

\* A full array is copied into one with room for more.
LEMMA HeapGrow ==
  ASSUME RepoTypes, NEW s \in Bounds, Within(arrays, s), s.array # 0, 2 * s.len = Len(arrays[s.array]),
         arrays' = Append(arrays, Grown(s))
  PROVE  /\ arrays' \in Seq(Seq(Cell)) /\ Len(arrays') = Len(arrays) + 1
         /\ \A k \in 1..Len(arrays) : arrays'[k] = arrays[k]
         /\ 2 * s.len + 2 <= Len(arrays'[Len(arrays) + 1])
         /\ \E n \in Nat : Len(arrays'[Len(arrays) + 1]) = 2 * n
         /\ \A j \in 1..(2 * s.len) : arrays'[Len(arrays) + 1][j] = arrays[s.array][j]
<1> DEFINE room == IF Cap(s) = 0 THEN 2 ELSE 4 * Cap(s)
           copy == [c \in 1..room |-> IF c <= 2 * s.len THEN arrays[s.array][c] ELSE None]
<1>1. /\ s.array \in 1..Len(arrays) /\ s.len \in Nat /\ arrays \in Seq(Seq(Cell))
      /\ Len(arrays[s.array]) \in Nat
      /\ \A c \in 1..(2 * s.len) : arrays[s.array][c] \in Cell
  BY SMTT(20), HeapShape DEF Within, Bounds, RepoTypes, Paired
<1>2. Cap(s) = s.len
  <2>1. \A n \in Nat : (2 * n) \div 2 = n
    OBVIOUS
  <2> QED
    BY <1>1, <2>1 DEF Cap
<1>3. room \in Nat /\ 2 * s.len + 2 <= room /\ \E n \in Nat : room = 2 * n
  <2>1. CASE s.len = 0
    BY <1>2, <2>1
  <2>2. CASE s.len # 0
    <3>1. room = 2 * (2 * s.len) /\ 2 * s.len \in Nat /\ s.len >= 1
      BY SMTT(20), <1>1, <1>2, <2>2
    <3> QED
      BY <1>1, <3>1
  <2> QED
    BY <2>1, <2>2
<1>4. Grown(s) = copy
  BY DEF Grown
<1> HIDE DEF room
<1>5. \A c \in 1..room : (IF c <= 2 * s.len THEN arrays[s.array][c] ELSE None) \in Cell
  <2>1. None \in Cell
    BY DEF Cell
  <2> QED
    BY <1>1, <1>3, <2>1
<1>6. copy \in Seq(Cell) /\ Len(copy) = room
  <2>1. copy \in [1..room -> Cell]
    BY <1>5
  <2>2. copy \in Seq(Cell)
    BY <1>3, <1>5, IsASeq
  <2> QED
    BY <1>3, <2>1, <2>2, LenProperties
<1>7. \A j \in 1..(2 * s.len) : copy[j] = arrays[s.array][j]
  BY <1>1, <1>3
<1> HIDE DEF copy
<1>8. /\ arrays' \in Seq(Seq(Cell)) /\ Len(arrays') = Len(arrays) + 1
      /\ \A k \in 1..Len(arrays) : arrays'[k] = arrays[k]
      /\ arrays'[Len(arrays) + 1] = copy
  BY <1>1, <1>4, <1>6, AppendProperties
<1> QED
  BY <1>3, <1>6, <1>7, <1>8

-----------------------------------------------------------------------------
(* What is published                                                       *)

LEMMA PublishedShape ==
  ASSUME RepoTypes
  PROVE  /\ published \in Entries /\ Len(published) \in Nat
         /\ \A j \in 1..Len(published) : /\ published[j] \in Write \X TrustDomain
                                         /\ published[j] \in Range(published)
                                         /\ published[j][2] \in Members
         /\ \A e \in Range(published) : e \in Write \X TrustDomain /\ \E j \in 1..Len(published) : e = published[j]
         /\ \A t \in Members : t \in TrustDomain /\ \E j \in 1..Len(published) : published[j][2] = t
<1>1. published \in Entries
  BY DEF RepoTypes
<1>2. /\ Len(published) \in Nat /\ DOMAIN published = 1..Len(published)
      /\ \A j \in 1..Len(published) : published[j] \in Write \X TrustDomain
  BY <1>1, LenProperties, ElementOfSeq DEF Entries
<1>3. Range(published) = {published[j] : j \in 1..Len(published)}
  BY <1>2 DEF Range
<1>4. Members = {published[j][2] : j \in 1..Len(published)}
  BY <1>3 DEF Members
<1> QED
  BY <1>1, <1>2, <1>3, <1>4

\* The entry that was found is the first one of its name.
LEMMA FirstFound ==
  ASSUME RepoTypes, NEW w \in Write, NEW i, Finds(w, i)
  PROVE  handler[w].td \in Members /\ First(handler[w].td) = i /\ i \in Nat
<1> DEFINE td == handler[w].td
           IsFirst(k) == /\ published[k][2] = td
                         /\ \A j \in DOMAIN published : published[j][2] = td => k <= j
<1>1. /\ i \in 1..Len(published) /\ published[i][2] = td
      /\ \A j \in 1..(i - 1) : published[j][2] # td
      /\ Len(published) \in Nat /\ DOMAIN published = 1..Len(published)
  BY PublishedShape, LenProperties DEF Finds, Entries
<1>2. IsFirst(i) /\ \A k \in DOMAIN published : IsFirst(k) => k = i
  <2>1. \A j \in 1..Len(published) : j \in 1..(i - 1) \/ i <= j
    BY <1>1
  <2> QED
    BY <1>1, <2>1
<1>3. First(td) = CHOOSE k \in DOMAIN published : IsFirst(k)
  BY DEF First
<1>4. First(td) = i
  <2> HIDE DEF IsFirst
  <2> QED
    BY <1>1, <1>2, <1>3
<1> QED
  BY <1>1, <1>4, PublishedShape

LEMMA AfterAdds ==
  ASSUME RepoTypes, NEW w \in Write, handler[w].td \in TrustDomain, Adds(w)
  PROVE  /\ After(w) = Append(published, <<w, handler[w].td>>)
         /\ After(w) \in Entries /\ Len(After(w)) = Len(published) + 1
         /\ \A j \in 1..Len(published) : After(w)[j] = published[j]
         /\ After(w)[Len(published) + 1] = <<w, handler[w].td>>
<1>1. After(w) = Append(published, <<w, handler[w].td>>)
  BY DEF After, Adds
<1>2. published \in Seq(Write \X TrustDomain) /\ <<w, handler[w].td>> \in Write \X TrustDomain
  BY PublishedShape DEF Entries
<1> QED
  BY <1>1, <1>2, AppendProperties DEF Entries

LEMMA AfterReplaces ==
  ASSUME RepoTypes, NEW w \in Write, handler[w].td \in TrustDomain, ~ Removes(w), NEW i, Finds(w, i)
  PROVE  /\ After(w) \in Entries /\ Len(After(w)) = Len(published)
         /\ \A j \in 1..Len(published) :
              After(w)[j] = IF j = i THEN <<w, handler[w].td>> ELSE published[j]
<1>1. After(w) = [published EXCEPT ![i] = <<w, handler[w].td>>]
  BY FirstFound DEF After, Finds
<1>2. /\ published \in Seq(Write \X TrustDomain) /\ <<w, handler[w].td>> \in Write \X TrustDomain
      /\ i \in 1..Len(published)
  BY PublishedShape DEF Entries, Finds
<1> QED
  BY <1>1, <1>2, ExceptSeq DEF Entries

\* What is left when one element is taken out.
LEMMA RemoveAtShape ==
  ASSUME NEW S, NEW P \in Seq(S), NEW i \in 1..Len(P)
  PROVE  /\ RemoveAt(P, i) \in Seq(S) /\ Len(P) = Len(RemoveAt(P, i)) + 1
         /\ \A j \in 1..Len(RemoveAt(P, i)) : RemoveAt(P, i)[j] = IF j < i THEN P[j] ELSE P[j + 1]
<1>1. PICK k \in Nat : k = Len(P)
  BY LenProperties
<1>2. /\ i \in 1..k /\ i - 1 \in Nat /\ k - i \in Nat /\ i \in Nat
      /\ \A j \in 1..k : P[j] \in S
  BY <1>1, ElementOfSeq
<1> DEFINE U == SubSeq(P, 1, i - 1)
           W == SubSeq(P, i + 1, k)
           Q == U \o W
<1>0. RemoveAt(P, i) = Q
  BY <1>1 DEF RemoveAt
<1>3. U \in Seq(S) /\ Len(U) = i - 1 /\ \A j \in 1..(i - 1) : U[j] = P[j]
  <2>1. /\ U \in Seq(S) /\ Len(U) = IF 1 <= i - 1 THEN (i - 1) - 1 + 1 ELSE 0
        /\ \A j \in 1..((i - 1) - 1 + 1) : U[j] = P[1 + j - 1]
    BY <1>2, SubSeqProperties
  <2>2. \A j \in 1..(i - 1) : 1 + j - 1 = j /\ j \in 1..((i - 1) - 1 + 1)
    BY <1>2
  <2> HIDE DEF U
  <2> QED
    BY <1>2, <2>1, <2>2
<1>4. W \in Seq(S) /\ Len(W) = k - i /\ \A j \in 1..(k - i) : W[j] = P[i + j]
  <2>1. /\ W \in Seq(S) /\ Len(W) = IF i + 1 <= k THEN k - (i + 1) + 1 ELSE 0
        /\ \A j \in 1..(k - (i + 1) + 1) : W[j] = P[(i + 1) + j - 1]
    BY <1>2, SubSeqProperties
  <2>2. \A j \in 1..(k - i) : (i + 1) + j - 1 = i + j /\ j \in 1..(k - (i + 1) + 1)
    BY <1>2
  <2> HIDE DEF W
  <2> QED
    BY <1>2, <2>1, <2>2
<1> HIDE DEF U, W
<1>5. /\ Q \in Seq(S) /\ Len(Q) = k - 1
      /\ \A j \in 1..(k - 1) : Q[j] = IF j <= i - 1 THEN U[j] ELSE W[j - (i - 1)]
  <2>1. /\ Q \in Seq(S) /\ Len(Q) = Len(U) + Len(W)
        /\ \A j \in 1..(Len(U) + Len(W)) : Q[j] = IF j <= Len(U) THEN U[j] ELSE W[j - Len(U)]
    BY <1>3, <1>4, ConcatProperties, Zenon
  <2>2. (i - 1) + (k - i) = k - 1
    BY <1>2
  <2> HIDE DEF Q
  <2> QED
    BY <1>3, <1>4, <2>1, <2>2
<1> HIDE DEF Q
<1>6. ASSUME NEW j \in 1..(k - 1) PROVE Q[j] = IF j < i THEN P[j] ELSE P[j + 1]
  <2>1. CASE j < i
    BY <1>2, <1>3, <1>5, <2>1
  <2>2. CASE ~ (j < i)
    <3>1. j - (i - 1) \in 1..(k - i) /\ i + (j - (i - 1)) = j + 1 /\ ~ (j <= i - 1)
      BY <1>2, <2>2
    <3> QED
      BY <1>4, <1>5, <2>2, <3>1
  <2> QED
    BY <2>1, <2>2
<1> QED
  BY <1>0, <1>1, <1>2, <1>5, <1>6

LEMMA AfterRemoves ==
  ASSUME RepoTypes, NEW w \in Write, Removes(w), NEW i, Finds(w, i)
  PROVE  /\ After(w) \in Entries /\ Len(published) = Len(After(w)) + 1
         /\ \A j \in 1..Len(After(w)) : After(w)[j] = IF j < i THEN published[j] ELSE published[j + 1]
<1>1. After(w) = RemoveAt(published, i)
  BY FirstFound DEF After, Finds
<1>2. published \in Seq(Write \X TrustDomain) /\ i \in 1..Len(published) /\ Len(published) \in Nat
  BY PublishedShape DEF Entries, Finds
<1> QED
  BY <1>1, <1>2, RemoveAtShape DEF Entries

\* What w leaves is what there was and its own entry, and only DELETE takes a
\* name away.
LEMMA AfterFacts ==
  ASSUME RepoTypes, NEW w \in Write, handler[w].td \in TrustDomain, Changes(w)
  PROVE  /\ After(w) \in Entries
         /\ \A e \in Range(After(w)) : e \in Range(published) \/ (~ Removes(w) /\ e = <<w, handler[w].td>>)
         /\ ~ Removes(w) => \A t \in Members : \E j \in 1..Len(After(w)) : After(w)[j][2] = t
<1> DEFINE Q == After(w)
           P == published
           td == handler[w].td
           x == <<w, td>>
<1>1. CASE Adds(w)
  <2>1. /\ Q \in Entries /\ Len(Q) = Len(P) + 1 /\ Len(P) \in Nat /\ Q[Len(P) + 1] = x
        /\ \A j \in 1..Len(P) : Q[j] = P[j] /\ j \in 1..Len(Q)
        /\ \A j \in 1..Len(Q) : j \in 1..Len(P) \/ j = Len(P) + 1
    BY <1>1, AfterAdds, PublishedShape
  <2>2. \A e \in Range(Q) : e \in Range(P) \/ e = x
    BY <2>1, PublishedShape, LenProperties DEF Range, Entries
  <2>3. \A t \in Members : \E j \in 1..Len(Q) : Q[j][2] = t
    BY <2>1, PublishedShape
  <2> QED
    BY <1>1, <2>1, <2>2, <2>3 DEF Adds
<1>2. ASSUME NEW i, Finds(w, i), ~ Removes(w)
      PROVE  /\ Q \in Entries /\ \A e \in Range(Q) : e \in Range(P) \/ e = x
             /\ \A t \in Members : \E j \in 1..Len(Q) : Q[j][2] = t
  <2>1. /\ Q \in Entries /\ Len(Q) = Len(P)
        /\ \A j \in 1..Len(P) : Q[j] = IF j = i THEN x ELSE P[j]
        /\ P[i][2] = td
    BY <1>2, AfterReplaces DEF Finds
  <2>2. \A e \in Range(Q) : e \in Range(P) \/ e = x
    <3>1. \A j \in 1..Len(Q) : Q[j] \in Range(P) \/ Q[j] = x
      BY <2>1, PublishedShape
    <3>2. DOMAIN Q = 1..Len(Q)
      BY <2>1, LenProperties DEF Entries
    <3> HIDE DEF Q
    <3> QED
      BY <3>1, <3>2 DEF Range
  <2>3. \A j \in 1..Len(Q) : Q[j][2] = P[j][2]
    BY <2>1
  <2> QED
    BY <2>1, <2>2, <2>3, PublishedShape
<1>3. ASSUME NEW i, Finds(w, i), Removes(w)
      PROVE  Q \in Entries /\ \A e \in Range(Q) : e \in Range(P)
  <2>1. /\ Q \in Entries /\ Len(P) = Len(Q) + 1 /\ Len(Q) \in Nat
        /\ \A j \in 1..Len(Q) : Q[j] = IF j < i THEN P[j] ELSE P[j + 1]
    BY <1>3, AfterRemoves, LenProperties DEF Entries
  <2>2. \A j \in 1..Len(Q) : j \in 1..Len(P) /\ j + 1 \in 1..Len(P)
    BY <2>1
  <2>3. \A j \in 1..Len(Q) : Q[j] \in Range(P)
    BY <2>1, <2>2, PublishedShape
  <2>4. DOMAIN Q = 1..Len(Q)
    BY <2>1, LenProperties DEF Entries
  <2>5. \A e \in Range(Q) : e \in Range(P)
    <3> HIDE DEF Q
    <3> QED
      BY <2>3, <2>4 DEF Range
  <2> QED
    BY <2>1, <2>5
<1>4. CASE \E i \in Nat : Finds(w, i)
  BY <1>2, <1>3, <1>4
<1> QED
  BY <1>1, <1>4 DEF Changes

LEMMA AfterFrame ==
  ASSUME NEW w \in Write, published' = published,
         handler'[w].td = handler[w].td, handler'[w].op = handler[w].op
  PROVE  /\ After(w)' = After(w) /\ (Removes(w)' <=> Removes(w)) /\ Members' = Members
         /\ (Adds(w)' <=> Adds(w)) /\ (Changes(w)' <=> Changes(w))
         /\ \A i : Finds(w, i)' <=> Finds(w, i)
<1>1. (Removes(w)' <=> Removes(w)) /\ Members' = Members /\ First(handler[w].td)' = First(handler[w].td)
  BY DEF Removes, Members, First
<1>2. \A i : Finds(w, i)' <=> Finds(w, i)
  BY DEF Finds
<1> QED
  BY <1>1, <1>2 DEF After, First, Adds, Changes

-----------------------------------------------------------------------------
(* What slots list                                                         *)

LEMMA ListsFrame ==
  ASSUME NEW A, NEW B, NEW P, Lists(A, P),
         \A i \in 1..Len(P) : B[2 * i - 1] = A[2 * i - 1] /\ B[2 * i] = A[2 * i]
  PROVE  Lists(B, P)
  BY DEF Lists, NameAt, BundleAt

\* The entry behind the hole moves into it, and leaves a hole of its own.
LEMMA ListsShift ==
  ASSUME NEW A, NEW B, NEW P, Len(P) \in Nat, NEW m \in 1..Len(P), ListsAround(A, P, m),
         BundleAt(B, m) = BundleAt(A, m + 1), NameAt(B, m) = NameAt(A, m + 1),
         \A j \in 1..(Len(P) + 1) : j # m => BundleAt(B, j) = BundleAt(A, j) /\ NameAt(B, j) = NameAt(A, j)
  PROVE  ListsAround(B, P, m + 1)
<1>1. ASSUME NEW j \in 1..Len(P), j < m
      PROVE  BundleAt(B, j) = P[j][1] /\ NameAt(B, j) = P[j][2]
  <2>1. j \in 1..(Len(P) + 1) /\ j # m
    BY <1>1
  <2> QED
    BY <1>1, <2>1 DEF ListsAround
<1>2. BundleAt(B, m) = P[m][1] /\ NameAt(B, m) = P[m][2]
  BY DEF ListsAround
<1>3. ASSUME NEW j \in 1..Len(P), j > m
      PROVE  BundleAt(B, j + 1) = P[j][1] /\ NameAt(B, j + 1) = P[j][2]
  <2>1. j + 1 \in 1..(Len(P) + 1) /\ j + 1 # m /\ j >= m
    BY <1>3
  <2> QED
    BY <1>3, <2>1 DEF ListsAround
<1>4. \A j \in 1..Len(P) : /\ j < m + 1 => j < m \/ j = m
                           /\ j >= m + 1 => j > m
  OBVIOUS
<1> QED
  BY <1>1, <1>2, <1>3, <1>4 DEF ListsAround

\* A hole behind the last entry is none.
LEMMA ListsAll ==
  ASSUME NEW A, NEW P, Len(P) \in Nat, ListsAround(A, P, Len(P) + 1)
  PROVE  Lists(A, P)
<1>1. \A j \in 1..Len(P) : j < Len(P) + 1
  OBVIOUS
<1> QED
  BY <1>1 DEF Lists, ListsAround

-----------------------------------------------------------------------------
(* A goroutine moves                                                       *)

LEMMA HandlerReplaced ==
  ASSUME handler \in [Request -> Goroutine], NEW h \in Request, NEW g \in Goroutine,
         handler' = [handler EXCEPT ![h] = g]
  PROVE  /\ handler' \in [Request -> Goroutine] /\ handler'[h] = g
         /\ \A k \in Request \ {h} : handler'[k] = handler[k]
  OBVIOUS

\* Goto.
LEMMA GotoFields ==
  ASSUME NEW g \in Goroutine, NEW p \in WritePc \cup ReadPc
  PROVE  LET n == [g EXCEPT !.pc = p] IN
         /\ n \in Goroutine /\ n.pc = p
         /\ n.op = g.op /\ n.td = g.td /\ n.slice = g.slice /\ n.i = g.i /\ n.c = g.c
         /\ n.found = g.found /\ n.out = g.out /\ n.status = g.status
  BY DEF Goroutine

\* Answer.
LEMMA AnswerFields ==
  ASSUME NEW g \in Goroutine, NEW a \in {"none", "ok", "not found", "aborted"}
  PROVE  LET n == [g EXCEPT !.pc = "done", !.slice = NoSlice, !.i = 0, !.c = 0,
                            !.found = FALSE, !.status = a] IN
         /\ n \in Goroutine /\ n.pc = "done" /\ n.slice = NoSlice
         /\ n.op = g.op /\ n.td = g.td /\ n.out = g.out /\ n.status = a
<1>1. NoSlice \in Bounds /\ "done" \in WritePc
  BY DEF NoSlice, Bounds, WritePc
<1> QED
  BY <1>1 DEF Goroutine

LEMMA GoroutineMoves ==
  ASSUME RepoTypes, NEW h \in Request,
         handler' \in [Request -> Goroutine], \A k \in Request \ {h} : handler'[k] = handler[k],
         handler'[h].pc # "idle",
         h \in Write => handler'[h].pc \in WritePc,
         h \in Read => /\ handler'[h].pc \in ReadPc /\ handler'[h].op = "get"
                       /\ handler'[h].pc = "encode" => handler'[h].c >= 1,
         Paired(arrays'), Len(arrays) <= Len(arrays'),
         \A k \in 1..Len(arrays) : Len(arrays'[k]) = Len(arrays[k]),
         Within(arrays', handler'[h].slice),
         storage' \in Bounds, Within(arrays', storage'),
         stream' \in [Subscriber -> {"away", "busy", "waiting", "gone"}],
         heard' \in [Subscriber -> SUBSET Write],
         published' \in Entries,
         up' \in BOOLEAN, audit' \in [Read -> Audit]
  PROVE  RepoTypes'
<1>1. Write \subseteq Request /\ Read \subseteq Request
  BY DEF Request
<1>2. ASSUME NEW k \in Request, k # h
      PROVE  Within(arrays', handler'[k].slice) /\ (handler'[k].pc = "idle" => handler'[k] = Fresh)
  <2>1. Within(arrays, handler[k].slice) /\ (handler[k].pc = "idle" => handler[k] = Fresh)
    BY DEF RepoTypes
  <2>2. Len(arrays) \in Nat /\ Len(arrays') \in Nat
    BY LenProperties DEF Paired, RepoTypes
  <2>3. handler'[k] = handler[k] /\ handler[k].slice \in Bounds
    BY <1>2 DEF RepoTypes, Goroutine
  <2> QED
    BY SMTT(20), <2>1, <2>2, <2>3 DEF Within, Bounds
<1>3. ASSUME NEW k \in Request
      PROVE  Within(arrays', handler'[k].slice) /\ (handler'[k].pc = "idle" => handler'[k] = Fresh)
  BY <1>2
<1>4. \A w \in Write : handler'[w].pc \in WritePc
  BY <1>1 DEF RepoTypes
<1>5. \A r \in Read : /\ handler'[r].pc \in ReadPc /\ handler'[r].op = "get"
                      /\ handler'[r].pc = "encode" => handler'[r].c >= 1
  BY <1>1 DEF RepoTypes
<1> QED
  BY <1>3, <1>4, <1>5 DEF RepoTypes

\* The heap stays as it is.
LEMMA GoroutineMovesAlone ==
  ASSUME RepoTypes, NEW h \in Request, UNCHANGED arrays,
         handler' \in [Request -> Goroutine], \A k \in Request \ {h} : handler'[k] = handler[k],
         handler'[h].pc # "idle",
         h \in Write => handler'[h].pc \in WritePc,
         h \in Read => /\ handler'[h].pc \in ReadPc /\ handler'[h].op = "get"
                       /\ handler'[h].pc = "encode" => handler'[h].c >= 1,
         Within(arrays, handler'[h].slice),
         storage' \in Bounds, Within(arrays, storage'),
         stream' \in [Subscriber -> {"away", "busy", "waiting", "gone"}],
         heard' \in [Subscriber -> SUBSET Write],
         published' \in Entries,
         up' \in BOOLEAN, audit' \in [Read -> Audit]
  PROVE  RepoTypes'
<1>1. Paired(arrays') /\ Len(arrays) \in Nat /\ Len(arrays) <= Len(arrays')
  BY HeapShape DEF RepoTypes
<1>2. Within(arrays', handler'[h].slice) /\ Within(arrays', storage')
  OBVIOUS
<1> QED
  BY <1>1, <1>2, GoroutineMoves

-----------------------------------------------------------------------------
(* The write in progress moves                                             *)

\* Which phase a write is in, by what it does next.
LEMMA Phases ==
  ASSUME WriterInv, NEW w \in Write, Active(w)
  PROVE  /\ handler[w].td \in TrustDomain /\ handler[w].op # "get"
         /\ handler[w].pc \in {"lookup", "create", "header"} => Begun(w)
         /\ handler[w].pc = "scan" => Searching(w)
         /\ handler[w].pc = "locate" => Overwriting(w)
         /\ handler[w].pc = "append" => Appending(w)
         /\ handler[w].pc = "write" => Overwriting(w) \/ Filling(w)
         /\ handler[w].pc = "shift" => Shifting(w)
         /\ handler[w].pc = "store" => Filling(w) \/ Shifted(w)
         /\ handler[w].pc = "broadcast" => Broadcasting(w)
<1>1. Writing(w)
  BY DEF WriterInv
<1>2. /\ Begun(w) => handler[w].pc \in {"lookup", "create", "header"}
      /\ Searching(w) => handler[w].pc = "scan"
      /\ Overwriting(w) => handler[w].pc \in {"locate", "write"}
      /\ Appending(w) => handler[w].pc = "append"
      /\ Filling(w) => handler[w].pc \in {"write", "store"}
      /\ Shifting(w) => handler[w].pc = "shift"
      /\ Shifted(w) => handler[w].pc = "store"
      /\ Broadcasting(w) => handler[w].pc = "broadcast"
  BY DEF Begun, Searching, Overwriting, Appending, Filling, Shifting, Shifted, Broadcasting
<1> QED
  BY <1>1, <1>2 DEF Writing

\* A step of the write in progress, which may publish its outcome.
LEMMA WriterMoves ==
  ASSUME RepoTypes, WriterInv, NEW w \in Write, Active(w),
         \A h \in Request \ {w} : handler'[h] = handler[h],
         handler'[w].td = handler[w].td, handler'[w].pc # "idle",
         published' = published \/ published' = After(w),
         Active(w)' => Writing(w)',
         ~ Active(w)' => Stored(published)'
  PROVE  WriterInv'
<1>1. \A v \in Write : v # w => handler'[v] = handler[v] /\ ~ Active(v)
  BY DEF WriterInv, Request
<1>2. \A v \in Write : v # w => ~ Active(v)'
  BY <1>1 DEF Active
<1>3. \A v, u \in Write : Active(v)' /\ Active(u)' => v = u
  BY <1>2
<1>4. (\A v \in Write : ~ Active(v)') => Stored(published)'
  OBVIOUS
<1>5. \A v \in Write : Active(v)' => Writing(v)'
  BY <1>2
<1> QED
  BY <1>3, <1>4, <1>5 DEF WriterInv

\* A step that changes nothing but the goroutine of the write in progress.
LEMMA WriterOnlyMoves ==
  ASSUME RepoTypes, WriterInv, NEW w \in Write, Active(w),
         UNCHANGED <<arrays, storage, up, streamVars, published, audit>>,
         handler' \in [Request -> Goroutine], \A k \in Request \ {w} : handler'[k] = handler[k],
         handler'[w].td = handler[w].td, handler'[w].pc \in WritePc \ {"idle"},
         Within(arrays, handler'[w].slice),
         Active(w)' => Writing(w)',
         ~ Active(w)' => Stored(published)
  PROVE  RepoTypes' /\ WriterInv'
<1>1. w \in Request /\ (w \notin Read)
  BY RequestAssumption DEF Request
<1>2. RepoTypes'
  <2>1. UNCHANGED <<arrays, storage, up, stream, heard, published, audit>>
    BY DEF streamVars
  <2> QED
    BY <1>1, <2>1, GoroutineMovesAlone DEF RepoTypes
<1>3. Stored(published)' <=> Stored(published)
  BY DEF Stored, Contents
<1>4. WriterInv'
  BY <1>3, WriterMoves
<1> QED
  BY <1>2, <1>4

LEMMA LookupStep ==
  ASSUME RepoTypes, WriterInv, NEW w \in Write, Lookup(w)
  PROVE  RepoTypes' /\ WriterInv'
<1> DEFINE next == IF storage = NoSlice THEN "create" ELSE "header"
           n == [handler[w] EXCEPT !.pc = next]
<1>1. Active(w) /\ w \in Request /\ Begun(w)
  BY Phases DEF Lookup, At, Active, Request
<1>2. /\ UNCHANGED <<arrays, storage, up, streamVars, published, audit>>
      /\ handler' = [handler EXCEPT ![w] = n]
      /\ handler[w].pc = "lookup"
  BY DEF Lookup, Goto, At
<1>3. next \in WritePc \ {"idle", "done"}
  BY DEF WritePc
<1>4. /\ n \in Goroutine /\ n.pc = next /\ n.td = handler[w].td /\ n.op = handler[w].op
      /\ n.found = handler[w].found /\ n.slice = handler[w].slice
  BY <1>1, <1>3, GotoFields DEF RepoTypes
<1> HIDE DEF n
<1>5. /\ handler' \in [Request -> Goroutine] /\ \A k \in Request \ {w} : handler'[k] = handler[k]
      /\ handler'[w] = n
  BY <1>1, <1>2, <1>4, HandlerReplaced DEF RepoTypes
<1>6. storage # NoSlice => storage.array # 0
  <2>1. storage \in Bounds /\ (storage.array = 0 => storage.len = 0)
    BY DEF RepoTypes, Within
  <2> QED
    BY <2>1 DEF Bounds, NoSlice
<1>7. Stored(published)' <=> Stored(published)
  BY <1>2 DEF Stored, Contents
<1>8. Begun(w)'
  BY <1>1, <1>2, <1>4, <1>5, <1>6, <1>7 DEF Begun, Removes
<1>9. Writing(w)'
  BY <1>1, <1>4, <1>5, <1>8, Phases DEF Writing
<1>10. Active(w)' /\ handler'[w].pc \in WritePc \ {"idle"}
  BY <1>3, <1>4, <1>5 DEF Active
<1>11. Within(arrays, handler'[w].slice)
  BY <1>1, <1>4, <1>5 DEF RepoTypes
<1> QED
  BY <1>1, <1>2, <1>4, <1>5, <1>9, <1>10, <1>11, WriterOnlyMoves

LEMMA StoreEmptyStep ==
  ASSUME RepoTypes, WriterInv, NEW w \in Write, StoreEmpty(w)
  PROVE  RepoTypes' /\ WriterInv'
<1> DEFINE n == [handler[w] EXCEPT !.pc = "header"]
<1>1. /\ Active(w) /\ w \in Request /\ w \notin Read /\ Begun(w)
      /\ storage = NoSlice /\ ~ Removes(w)
  BY Phases, RequestAssumption DEF StoreEmpty, At, Active, Request, Begun
<1>2. /\ UNCHANGED <<arrays, up, streamVars, published, audit>> /\ storage' = EmptySlice
      /\ handler' = [handler EXCEPT ![w] = n]
      /\ handler[w].pc = "create"
  BY DEF StoreEmpty, Goto, At
<1>3. /\ n \in Goroutine /\ n.pc = "header" /\ n.td = handler[w].td /\ n.op = handler[w].op
      /\ n.found = handler[w].found /\ n.slice = handler[w].slice
  <2>1. "header" \in WritePc /\ handler[w] \in Goroutine
    BY <1>1 DEF WritePc, RepoTypes
  <2> QED
    BY <2>1, GotoFields
<1> HIDE DEF n
<1>4. /\ handler' \in [Request -> Goroutine] /\ \A k \in Request \ {w} : handler'[k] = handler[k]
      /\ handler'[w] = n
  BY <1>1, <1>2, <1>3, HandlerReplaced DEF RepoTypes
<1>5. storage'.array = 1 /\ storage'.len = 0 /\ storage' \in Bounds
  BY <1>2 DEF EmptySlice, Bounds
<1>6. Within(arrays, storage') /\ Within(arrays, handler'[w].slice)
  BY SMTT(20), <1>1, <1>3, <1>4, <1>5, HeapShape DEF Within, RepoTypes, Paired
<1>7. Len(published) = 0
  BY <1>1 DEF Begun, Stored, NoSlice
<1>8. Stored(published)'
  <2>1. Len(published') = 0 /\ 1..Len(published') = {}
    BY <1>2, <1>7
  <2> QED
    BY <1>5, <2>1 DEF Stored, Lists
<1>9. Begun(w)'
  BY <1>1, <1>2, <1>3, <1>4, <1>5, <1>8 DEF Begun, Removes
<1>10. Writing(w)' /\ Active(w)' /\ handler'[w].pc \in WritePc
  BY <1>1, <1>3, <1>4, <1>9, Phases DEF Writing, Active, WritePc
<1>11. RepoTypes'
  <2>1. UNCHANGED <<arrays, up, stream, heard, published, audit>>
    BY <1>2 DEF streamVars
  <2> QED
    BY <1>1, <1>3, <1>4, <1>5, <1>6, <1>10, <2>1, GoroutineMovesAlone DEF RepoTypes
<1> QED
  BY <1>1, <1>2, <1>3, <1>4, <1>10, <1>11, WriterMoves

\* DELETE returns at once when there is no entry for the federation.
LEMMA ReadHeaderStep ==
  ASSUME RepoTypes, WriterInv, NEW w \in Write, ReadHeader(w)
  PROVE  RepoTypes' /\ WriterInv'
<1>1. Active(w) /\ w \in Request /\ Begun(w) /\ handler[w].pc = "header"
  BY Phases DEF ReadHeader, At, Active, Request
<1>2. UNCHANGED <<arrays, storage, up, streamVars, published, audit>>
  BY DEF ReadHeader
<1>3. Stored(published) /\ (Stored(published)' <=> Stored(published))
  BY <1>1, <1>2 DEF Begun, Stored, Contents
<1>4. /\ handler[w] \in Goroutine /\ storage \in Bounds /\ Within(arrays, storage)
      /\ Within(arrays, NoSlice)
      /\ handler[w].op \in {"post", "put", "delete"}
  <2>1. handler[w] \in Goroutine /\ storage \in Bounds /\ Within(arrays, storage)
    BY <1>1 DEF RepoTypes
  <2>2. Within(arrays, NoSlice)
    BY HeapShape DEF Within, NoSlice
  <2>3. handler[w].op \in {"post", "put", "delete"}
    BY <1>1, <2>1, Phases DEF Goroutine
  <2> QED
    BY <2>1, <2>2, <2>3
<1>5. CASE handler[w].op = "delete" /\ storage = NoSlice
  <2> DEFINE n == [handler[w] EXCEPT !.pc = "done", !.slice = NoSlice, !.i = 0, !.c = 0,
                                     !.found = FALSE, !.status = "not found"]
  <2>1. handler' = [handler EXCEPT ![w] = n]
    BY <1>5 DEF ReadHeader, Answer
  <2>2. n \in Goroutine /\ n.pc = "done" /\ n.td = handler[w].td /\ n.slice = NoSlice
    BY <1>4, AnswerFields
  <2> HIDE DEF n
  <2>3. /\ handler' \in [Request -> Goroutine] /\ \A k \in Request \ {w} : handler'[k] = handler[k]
        /\ handler'[w] = n
    BY <1>1, <2>1, <2>2, HandlerReplaced DEF RepoTypes
  <2>4. ~ Active(w)' /\ handler'[w].pc \in WritePc \ {"idle"}
    BY <2>2, <2>3 DEF Active, WritePc
  <2> QED
    BY <1>1, <1>2, <1>3, <1>4, <2>2, <2>3, <2>4, WriterOnlyMoves
<1>6. CASE ~ (handler[w].op = "delete" /\ storage = NoSlice)
  <2> DEFINE next == IF handler[w].op = "post" THEN "append" ELSE "scan"
             n == [handler[w] EXCEPT !.slice = storage, !.i = 1, !.c = 1, !.pc = next]
  <2>1. handler' = [handler EXCEPT ![w] = n]
    <3>1. (CASE handler[w].op = "post" -> "append" [] handler[w].op = "get" -> "encode"
             [] OTHER -> "scan") = next
      BY <1>4
    <3> QED
      BY <1>6, <3>1 DEF ReadHeader
  <2>2. /\ next \in WritePc \ {"idle", "done"}
        /\ next = "append" <=> handler[w].op = "post"
        /\ next = "scan" <=> handler[w].op # "post"
    BY DEF WritePc
  <2> HIDE DEF next
  <2>3. /\ n \in Goroutine /\ n.pc = next /\ n.td = handler[w].td /\ n.slice = storage
        /\ n.i = 1 /\ n.op = handler[w].op /\ n.found = handler[w].found
    BY <1>4, <2>2 DEF Goroutine
  <2> HIDE DEF n
  <2>4. /\ handler' \in [Request -> Goroutine] /\ \A k \in Request \ {w} : handler'[k] = handler[k]
        /\ handler'[w] = n
    BY <1>1, <2>1, <2>3, HandlerReplaced DEF RepoTypes
  <2>5. Active(w)' /\ handler'[w].pc \in WritePc \ {"idle"}
    BY <2>2, <2>3, <2>4 DEF Active
  <2>6. storage.array # 0
    <3>1. CASE Removes(w)
      BY <1>4, <1>6, <3>1 DEF Removes, Bounds, NoSlice, Within
    <3>2. CASE ~ Removes(w)
      BY <1>1, <3>2 DEF Begun
    <3> QED
      BY <3>1, <3>2
  <2>7. Appending(w)' \/ Searching(w)'
    <3>1. CASE handler[w].op = "post"
      BY <1>1, <1>2, <1>3, <2>2, <2>3, <2>4, <2>6, <3>1 DEF Appending, Begun, Removes, Adds
    <3>2. CASE handler[w].op # "post"
      <4>1. 1 \in 1..(storage.len + 1) /\ 1..(1 - 1) = {}
        BY <1>4 DEF Bounds
      <4> QED
        BY <1>1, <1>2, <1>3, <2>2, <2>3, <2>4, <2>6, <3>2, <4>1 DEF Searching, Begun
    <3> QED
      BY <3>1, <3>2
  <2> QED
    BY <1>1, <1>2, <1>4, <2>3, <2>4, <2>5, <2>7, Phases, WriterOnlyMoves DEF Writing
<1> QED
  BY <1>5, <1>6

LEMMA ScanNextStep ==
  ASSUME RepoTypes, WriterInv, NEW w \in Write, ScanNext(w)
  PROVE  RepoTypes' /\ WriterInv'
<1> DEFINE j == handler[w].i + 1
           n == [handler[w] EXCEPT !.i = j]
<1>1. Active(w) /\ w \in Request /\ Searching(w)
  BY Phases DEF ScanNext, At, Active, Request
<1>2. /\ UNCHANGED <<arrays, storage, up, streamVars, published, audit>>
      /\ handler' = [handler EXCEPT ![w] = n]
      /\ NameAt(Contents, handler[w].i) # handler[w].td /\ handler[w].i <= storage.len
  BY <1>1 DEF ScanNext, NameAt, Contents, Searching
<1>3. handler[w] \in Goroutine /\ storage \in Bounds /\ handler[w].i \in Nat /\ storage.len \in Nat
  BY <1>1 DEF RepoTypes, Goroutine, Bounds
<1>4. /\ n \in Goroutine /\ n.i = handler[w].i + 1 /\ n.pc = handler[w].pc /\ n.td = handler[w].td
      /\ n.op = handler[w].op /\ n.found = handler[w].found /\ n.slice = handler[w].slice
  <2>1. j \in Nat /\ j = handler[w].i + 1
    BY <1>3
  <2> HIDE DEF j
  <2> QED
    BY <1>3, <2>1 DEF Goroutine
<1> HIDE DEF n, j
<1>5. /\ handler' \in [Request -> Goroutine] /\ \A k \in Request \ {w} : handler'[k] = handler[k]
      /\ handler'[w] = n
  BY <1>1, <1>2, <1>4, HandlerReplaced DEF RepoTypes
<1>6. Contents' = Contents /\ (Stored(published)' <=> Stored(published))
  BY <1>2 DEF Stored, Contents
<1>7. \A k \in 1..(n.i - 1) : NameAt(Contents, k) # handler[w].td
  <2>1. \A k \in 1..(n.i - 1) : k \in 1..(handler[w].i - 1) \/ k = handler[w].i
    BY <1>3, <1>4
  <2> QED
    BY <1>1, <1>2, <2>1 DEF Searching
<1>8. n.i \in 1..(storage.len + 1)
  BY <1>2, <1>3, <1>4
<1>9. Searching(w)'
  BY <1>1, <1>2, <1>4, <1>5, <1>6, <1>7, <1>8 DEF Searching, NameAt
<1>10. Writing(w)'
  BY <1>1, <1>4, <1>5, <1>9, Phases DEF Writing
<1>11. Active(w)' /\ handler'[w].pc \in WritePc \ {"idle"}
  BY <1>1, <1>4, <1>5 DEF Active, Searching, WritePc
<1>12. Within(arrays, handler'[w].slice)
  BY <1>1, <1>4, <1>5 DEF RepoTypes
<1> QED
  BY <1>1, <1>2, <1>4, <1>5, <1>10, <1>11, <1>12, WriterOnlyMoves

LEMMA ScanFindsStep ==
  ASSUME RepoTypes, WriterInv, NEW w \in Write, ScanFinds(w)
  PROVE  RepoTypes' /\ WriterInv'
<1> DEFINE i == handler[w].i
           next == IF ~ Removes(w) THEN "locate" ELSE IF i < storage.len THEN "shift" ELSE "store"
           n == [handler[w] EXCEPT !.found = TRUE, !.c = 2 * i - 1, !.pc = next]
<1>1. Active(w) /\ w \in Request /\ Searching(w)
  BY Phases DEF ScanFinds, At, Active, Request
<1>2. handler[w] \in Goroutine /\ storage \in Bounds /\ i \in Nat /\ storage.len \in Nat
      /\ handler[w].op \in {"post", "put", "delete", "get"}
      /\ published \in Entries
  BY <1>1 DEF RepoTypes, Goroutine, Bounds
<1>3. UNCHANGED <<arrays, storage, up, streamVars, published, audit>>
  BY DEF ScanFinds
<1>4. handler' = [handler EXCEPT ![w] = n]
  <2>1. (CASE ~ Removes(w) -> "locate" [] Removes(w) /\ i < storage.len -> "shift" [] OTHER -> "store")
        = next
    OBVIOUS
  <2> QED
    BY <1>1, <2>1 DEF ScanFinds, Searching
<1>5. /\ NameAt(Contents, i) = handler[w].td /\ i \in 1..storage.len /\ storage.len >= 1
      /\ handler[w].td \in TrustDomain /\ Stored(published) /\ 2 * i - 1 \in Nat
  BY <1>1, <1>2, Phases DEF ScanFinds, NameAt, Contents, Searching
<1>6. /\ next \in WritePc \ {"idle", "done"}
      /\ ~ Removes(w) => next = "locate"
      /\ Removes(w) => next = IF i < storage.len THEN "shift" ELSE "store"
  BY DEF WritePc
<1> HIDE DEF next
<1>7. /\ n \in Goroutine /\ n.found = TRUE /\ n.c = 2 * i - 1 /\ n.pc = next /\ n.td = handler[w].td
      /\ n.op = handler[w].op /\ n.i = i /\ n.slice = handler[w].slice
  BY <1>2, <1>5, <1>6 DEF Goroutine
<1> HIDE DEF n
<1>8. /\ handler' \in [Request -> Goroutine] /\ \A k \in Request \ {w} : handler'[k] = handler[k]
      /\ handler'[w] = n
  BY <1>1, <1>4, <1>7, HandlerReplaced DEF RepoTypes
<1>9. /\ Contents' = Contents /\ (Stored(published)' <=> Stored(published))
      /\ After(w)' = After(w) /\ (StillPublished' <=> StillPublished)
      /\ (Removes(w)' <=> Removes(w)) /\ (Changes(w)' <=> Changes(w)) /\ (Finds(w, i)' <=> Finds(w, i))
  <2>1. /\ After(w)' = After(w) /\ (Removes(w)' <=> Removes(w)) /\ Members' = Members
        /\ (Changes(w)' <=> Changes(w)) /\ \A k : Finds(w, k)' <=> Finds(w, k)
    BY <1>3, <1>7, <1>8, AfterFrame
  <2>2. Finds(w, i)' <=> Finds(w, i)
    BY <1>3, <1>7, <1>8 DEF Finds
  <2> QED
    BY <1>3, <2>1, <2>2 DEF Stored, Contents, StillPublished
<1>10. Finds(w, i) /\ Changes(w) /\ StillPublished
  <2>1. /\ storage.len = Len(published)
        /\ \A j \in 1..storage.len : /\ BundleAt(Contents, j) = published[j][1]
                                     /\ NameAt(Contents, j) = published[j][2]
    BY <1>5 DEF Stored, Lists
  <2>2. \A j \in 1..(i - 1) : j \in 1..storage.len
    BY <1>2, <1>5
  <2>3. Finds(w, i)
    BY <1>1, <1>5, <2>1, <2>2 DEF Finds, Searching
  <2>4. StillPublished
    BY <2>1, PublishedShape DEF StillPublished
  <2> QED
    BY <1>2, <2>3, <2>4 DEF Changes
<1>11. Removes(w) => /\ storage.len = Len(After(w)) + 1 /\ Len(After(w)) \in Nat
                     /\ ListsAround(Contents, After(w), i)
  <2>1. SUFFICES ASSUME Removes(w)
                 PROVE  /\ storage.len = Len(After(w)) + 1 /\ Len(After(w)) \in Nat
                        /\ ListsAround(Contents, After(w), i)
    OBVIOUS
  <2>2. /\ Len(published) = Len(After(w)) + 1 /\ Len(After(w)) \in Nat
        /\ \A j \in 1..Len(After(w)) : After(w)[j] = IF j < i THEN published[j] ELSE published[j + 1]
    BY <1>10, <2>1, AfterRemoves, LenProperties DEF Entries
  <2>3. /\ storage.len = Len(published)
        /\ \A j \in 1..Len(published) : /\ BundleAt(Contents, j) = published[j][1]
                                        /\ NameAt(Contents, j) = published[j][2]
    BY <1>5 DEF Stored, Lists
  <2>4. \A j \in 1..Len(After(w)) : /\ j \in 1..Len(published) /\ j + 1 \in 1..Len(published)
                                    /\ ~ (j >= i /\ j < i)
    BY <1>2, <2>2
  <2>5. ListsAround(Contents, After(w), i)
    <3>1. ASSUME NEW j \in 1..Len(After(w)), j < i
          PROVE  BundleAt(Contents, j) = After(w)[j][1] /\ NameAt(Contents, j) = After(w)[j][2]
      BY <2>2, <2>3, <2>4, <3>1
    <3>2. ASSUME NEW j \in 1..Len(After(w)), j >= i
          PROVE  BundleAt(Contents, j + 1) = After(w)[j][1] /\ NameAt(Contents, j + 1) = After(w)[j][2]
      BY <2>2, <2>3, <2>4, <3>2
    <3> QED
      BY <3>1, <3>2 DEF ListsAround
  <2> QED
    BY <2>2, <2>3, <2>5
<1>12. Overwriting(w)' \/ Shifting(w)' \/ Shifted(w)'
  <2>1. CASE ~ Removes(w)
    <3>1. handler[w].op = "put"
      BY <1>1, <1>2, <2>1, Phases DEF Searching, Removes
    <3> QED
      BY <1>1, <1>3, <1>5, <1>6, <1>7, <1>8, <1>9, <1>10, <2>1, <3>1 DEF Overwriting, Searching
  <2>2. CASE Removes(w) /\ i < storage.len
    <3>1. i \in 1..(storage.len - 1) /\ 2 * i - 1 # 2 * i
      BY <1>2, <1>5, <2>2
    <3>2. ListsAround(Contents', After(w)', i) /\ storage.len = Len(After(w)') + 1
      BY <1>9, <1>11, <2>2
    <3> QED
      BY <1>1, <1>3, <1>6, <1>7, <1>8, <1>9, <1>10, <2>2, <3>1, <3>2 DEF Shifting, Searching
  <2>3. CASE Removes(w) /\ ~ (i < storage.len)
    <3>1. i = Len(After(w)) + 1
      BY <1>2, <1>5, <1>11, <2>3
    <3>2. Lists(Contents', After(w)') /\ storage.len = Len(After(w)') + 1
      BY <1>9, <1>11, <2>3, <3>1, ListsAll
    <3> QED
      BY <1>1, <1>3, <1>5, <1>6, <1>7, <1>8, <1>9, <1>10, <2>3, <3>2 DEF Shifted, Searching
  <2> QED
    BY <2>1, <2>2, <2>3
<1>13. Writing(w)'
  BY <1>1, <1>7, <1>8, <1>12, Phases DEF Writing
<1>14. Active(w)' /\ handler'[w].pc \in WritePc \ {"idle"}
  BY <1>6, <1>7, <1>8 DEF Active
<1>15. Within(arrays, handler'[w].slice)
  BY <1>1, <1>7, <1>8 DEF RepoTypes
<1> QED
  BY <1>1, <1>3, <1>7, <1>8, <1>13, <1>14, <1>15, WriterOnlyMoves

\* Nothing was found: DELETE returns, PUT appends.
LEMMA ScanEndsStep ==
  ASSUME RepoTypes, WriterInv, NEW w \in Write, ScanEnds(w)
  PROVE  RepoTypes' /\ WriterInv'
<1>1. Active(w) /\ w \in Request /\ Searching(w)
  BY Phases DEF ScanEnds, At, Active, Request
<1>2. handler[w] \in Goroutine /\ storage \in Bounds /\ handler[w].i \in Nat /\ storage.len \in Nat
  BY <1>1 DEF RepoTypes, Goroutine, Bounds
<1>3. UNCHANGED <<arrays, storage, up, streamVars, published, audit>>
  BY DEF ScanEnds
<1>4. Stored(published) /\ (Stored(published)' <=> Stored(published))
  BY <1>1, <1>3 DEF Searching, Stored, Contents
<1>5. CASE Removes(w)
  <2> DEFINE n == [handler[w] EXCEPT !.pc = "done", !.slice = NoSlice, !.i = 0, !.c = 0,
                                     !.found = FALSE, !.status = "not found"]
  <2>1. handler' = [handler EXCEPT ![w] = n]
    BY <1>5 DEF ScanEnds, Answer
  <2>2. n \in Goroutine /\ n.pc = "done" /\ n.td = handler[w].td /\ n.slice = NoSlice
    BY <1>2, AnswerFields
  <2> HIDE DEF n
  <2>3. /\ handler' \in [Request -> Goroutine] /\ \A k \in Request \ {w} : handler'[k] = handler[k]
        /\ handler'[w] = n
    BY <1>1, <2>1, <2>2, HandlerReplaced DEF RepoTypes
  <2>4. ~ Active(w)' /\ handler'[w].pc \in WritePc \ {"idle"}
    BY <2>2, <2>3 DEF Active, WritePc
  <2>5. Within(arrays, NoSlice)
    BY HeapShape DEF Within, NoSlice
  <2> QED
    BY <1>1, <1>3, <1>4, <2>2, <2>3, <2>4, <2>5, WriterOnlyMoves
<1>6. CASE ~ Removes(w)
  <2> DEFINE n == [handler[w] EXCEPT !.pc = "append"]
  <2>1. handler' = [handler EXCEPT ![w] = n]
    BY <1>6 DEF ScanEnds, Goto
  <2>2. "append" \in WritePc \ {"idle", "done"}
    BY DEF WritePc
  <2>3. /\ n \in Goroutine /\ n.pc = "append" /\ n.td = handler[w].td /\ n.op = handler[w].op
        /\ n.found = handler[w].found /\ n.slice = handler[w].slice
    BY <1>2, <2>2, GotoFields
  <2> HIDE DEF n
  <2>4. /\ handler' \in [Request -> Goroutine] /\ \A k \in Request \ {w} : handler'[k] = handler[k]
        /\ handler'[w] = n
    BY <1>1, <2>1, <2>3, HandlerReplaced DEF RepoTypes
  <2>5. Active(w)' /\ handler'[w].pc \in WritePc \ {"idle"}
    BY <2>2, <2>3, <2>4 DEF Active
  <2>6. Adds(w) /\ (Adds(w)' <=> Adds(w)) /\ (Removes(w)' <=> Removes(w))
    <3>1. handler[w].i > storage.len /\ \A j \in 1..(handler[w].i - 1) : NameAt(Contents, j) # handler[w].td
      BY <1>1 DEF ScanEnds, Searching
    <3>2. \A j \in 1..storage.len : j \in 1..(handler[w].i - 1)
      BY <1>2, <3>1
    <3>3. \A j \in 1..storage.len : NameAt(Contents, j) # handler[w].td
      BY <3>1, <3>2
    <3>4. storage.len = Len(published) /\ \A j \in 1..Len(published) : NameAt(Contents, j) = published[j][2]
      BY <1>4 DEF Stored, Lists
    <3>5. handler[w].td \notin Members
      BY <3>3, <3>4, PublishedShape
    <3> QED
      BY <1>3, <1>6, <2>3, <2>4, <3>5, AfterFrame DEF Adds
  <2>7. Appending(w)'
    BY <1>1, <1>3, <1>4, <1>6, <2>3, <2>4, <2>6 DEF Appending, Searching
  <2>8. Writing(w)'
    BY <1>1, <2>3, <2>4, <2>7, Phases DEF Writing
  <2>9. Within(arrays, handler'[w].slice)
    BY <1>1, <2>3, <2>4 DEF RepoTypes
  <2> QED
    BY <1>1, <1>3, <2>3, <2>4, <2>5, <2>8, <2>9, WriterOnlyMoves
<1> QED
  BY <1>5, <1>6

\* The index is still one of the stored slice: the request is not aborted.
LEMMA LocateStep ==
  ASSUME RepoTypes, WriterInv, NEW w \in Write, Locate(w)
  PROVE  RepoTypes' /\ WriterInv'
<1> DEFINE n == [handler[w] EXCEPT !.slice = storage, !.pc = "write"]
<1>1. Active(w) /\ w \in Request /\ Overwriting(w) /\ handler[w].pc = "locate"
  BY Phases DEF Locate, At, Active, Request
<1>2. handler[w] \in Goroutine /\ storage \in Bounds /\ handler[w].i \in Nat /\ storage.len \in Nat
      /\ Within(arrays, storage)
  BY <1>1 DEF RepoTypes, Goroutine, Bounds
<1>3. UNCHANGED <<arrays, storage, up, streamVars, published, audit>>
  BY DEF Locate
<1>4. handler' = [handler EXCEPT ![w] = n]
  <2>1. ~ (handler[w].i > storage.len)
    BY <1>1, <1>2 DEF Overwriting
  <2> QED
    BY <2>1 DEF Locate
<1>5. "write" \in WritePc \ {"idle", "done"}
  BY DEF WritePc
<1>6. /\ n \in Goroutine /\ n.pc = "write" /\ n.slice = storage /\ n.td = handler[w].td
      /\ n.op = handler[w].op /\ n.found = handler[w].found /\ n.i = handler[w].i /\ n.c = handler[w].c
  BY <1>2, <1>5 DEF Goroutine
<1> HIDE DEF n
<1>7. /\ handler' \in [Request -> Goroutine] /\ \A k \in Request \ {w} : handler'[k] = handler[k]
      /\ handler'[w] = n
  BY <1>1, <1>4, <1>6, HandlerReplaced DEF RepoTypes
<1>8. /\ Contents' = Contents /\ (Stored(published)' <=> Stored(published))
      /\ After(w)' = After(w) /\ (Finds(w, handler[w].i)' <=> Finds(w, handler[w].i))
  BY <1>3, <1>6, <1>7, AfterFrame DEF Stored, Contents, Finds
<1>9. Overwriting(w)'
  <2>1. Finds(w, handler[w].i)'
    BY <1>1, <1>3, <1>6, <1>7 DEF Overwriting, Finds
  <2> QED
    BY <1>1, <1>3, <1>6, <1>7, <1>8, <2>1 DEF Overwriting
<1>10. Writing(w)'
  BY <1>1, <1>6, <1>7, <1>9, Phases DEF Writing
<1>11. Active(w)' /\ handler'[w].pc \in WritePc \ {"idle"}
  BY <1>5, <1>6, <1>7 DEF Active
<1> QED
  BY <1>1, <1>2, <1>3, <1>6, <1>7, <1>10, <1>11, WriterOnlyMoves

\* append: the slot after the last one, in the stored array or in a new one.
LEMMA AppendSlotStep ==
  ASSUME RepoTypes, WriterInv, NEW w \in Write, AppendSlot(w)
  PROVE  RepoTypes' /\ WriterInv'
<1> DEFINE full == storage.len = Cap(storage)
           slot == [array |-> IF full THEN Len(arrays) + 1 ELSE storage.array, len |-> storage.len + 1]
           at == 2 * storage.len + 1
           n == [handler[w] EXCEPT !.slice = slot, !.c = at, !.pc = "write"]
<1>1. /\ Active(w) /\ w \in Request /\ w \notin Read /\ Appending(w)
      /\ handler[w].slice = storage /\ storage.array # 0
  BY Phases, RequestAssumption DEF AppendSlot, At, Active, Request, Appending
<1>2. /\ handler[w] \in Goroutine /\ storage \in Bounds /\ storage.len \in Nat /\ storage.array \in Nat
      /\ storage.array \in 1..Len(arrays) /\ 2 * storage.len <= Len(arrays[storage.array])
      /\ Paired(arrays) /\ Len(arrays) \in Nat
  BY <1>1, HeapShape DEF RepoTypes, Bounds, Within
<1>3. UNCHANGED <<storage, up, streamVars, published, audit>> /\ handler' = [handler EXCEPT ![w] = n]
      /\ arrays' = IF full THEN Append(arrays, Grown(storage)) ELSE arrays
  BY <1>1 DEF AppendSlot
<1>4. slot \in Bounds /\ slot.len = storage.len + 1 /\ slot.array = IF full THEN Len(arrays) + 1 ELSE storage.array
  BY <1>2 DEF Bounds
<1>5. full <=> 2 * storage.len = Len(arrays[storage.array])
  <2>1. PICK k \in Nat : Len(arrays[storage.array]) = 2 * k
    BY <1>2 DEF Paired
  <2>2. \A m \in Nat : (2 * m) \div 2 = m
    OBVIOUS
  <2> QED
    BY <1>2, <2>1, <2>2 DEF Cap
<1>6. /\ Paired(arrays') /\ Len(arrays) <= Len(arrays')
      /\ \A k \in 1..Len(arrays) : arrays'[k] = arrays[k]
      /\ Within(arrays', slot)
      /\ \A j \in 1..(2 * storage.len) : arrays'[slot.array][j] = arrays[storage.array][j]
  <2>1. CASE full
    <3>1. arrays' = Append(arrays, Grown(storage))
      BY <1>3, <2>1
    <3>2. /\ arrays' \in Seq(Seq(Cell)) /\ Len(arrays') = Len(arrays) + 1
          /\ \A k \in 1..Len(arrays) : arrays'[k] = arrays[k]
          /\ 2 * storage.len + 2 <= Len(arrays'[Len(arrays) + 1])
          /\ \E m \in Nat : Len(arrays'[Len(arrays) + 1]) = 2 * m
          /\ \A j \in 1..(2 * storage.len) : arrays'[Len(arrays) + 1][j] = arrays[storage.array][j]
      BY <1>1, <1>2, <1>5, <2>1, <3>1, HeapGrow DEF RepoTypes
    <3>3. slot.array = Len(arrays) + 1
      BY <1>4, <2>1
    <3>4. Paired(arrays')
      <4>1. \A k \in 1..Len(arrays') : k \in 1..Len(arrays) \/ k = Len(arrays) + 1
        BY <1>2, <3>2
      <4>2. \A k \in 1..Len(arrays) : \E m \in Nat : Len(arrays'[k]) = 2 * m
        BY <1>2, <3>2 DEF Paired
      <4>3. \A k \in 1..Len(arrays') : \E m \in Nat : Len(arrays'[k]) = 2 * m
        BY <3>2, <4>1, <4>2
      <4>4. Len(arrays') >= 1
        BY <1>2, <3>2
      <4> QED
        BY <3>2, <4>3, <4>4 DEF Paired
    <3>5. Within(arrays', slot)
      BY SMTT(20), <1>2, <1>4, <3>2, <3>3 DEF Within
    <3> QED
      BY SMTT(20), <1>2, <3>2, <3>3, <3>4, <3>5
  <2>2. CASE ~ full
    <3>1. arrays' = arrays /\ slot.array = storage.array
      BY <1>3, <1>4, <2>2
    <3>2. 2 * (storage.len + 1) <= Len(arrays[storage.array])
      <4>1. PICK k \in Nat : Len(arrays[storage.array]) = 2 * k
        BY <1>2 DEF Paired
      <4> QED
        BY <1>2, <1>5, <2>2, <4>1
    <3>3. Within(arrays, slot)
      BY <1>2, <1>4, <3>1, <3>2 DEF Within
    <3> QED
      BY <1>2, <3>1, <3>3
  <2> QED
    BY <2>1, <2>2
<1>7. slot.array # 0
  BY <1>2, <1>4
<1> HIDE DEF slot, full
<1>8. "write" \in WritePc \ {"idle", "done"} /\ at \in Nat
  BY <1>2 DEF WritePc
<1>9. /\ n \in Goroutine /\ n.pc = "write" /\ n.slice = slot /\ n.c = at /\ n.td = handler[w].td
      /\ n.op = handler[w].op /\ n.found = handler[w].found
  <2> HIDE DEF at
  <2> QED
    BY <1>2, <1>4, <1>8 DEF Goroutine
<1> HIDE DEF n
<1>10. /\ handler' \in [Request -> Goroutine] /\ \A k \in Request \ {w} : handler'[k] = handler[k]
       /\ handler'[w] = n
  BY <1>1, <1>3, <1>9, HandlerReplaced DEF RepoTypes
<1>11. Contents' = Contents /\ (Stored(published)' <=> Stored(published))
  BY <1>2, <1>3, <1>6 DEF Stored, Contents
<1>12. Filling(w)'
  <2>1. handler'[w].slice = slot /\ storage' = storage
    BY <1>3, <1>9, <1>10
  <2>2. \A j \in 1..(2 * storage.len) : arrays'[slot.array][j] = Contents[j]
    BY <1>6 DEF Contents
  <2>3. handler'[w].c = 2 * storage.len + 1 /\ handler'[w].c # 2 * storage.len + 2
    BY <1>2, <1>9, <1>10
  <2>4. ~ Removes(w)' /\ ~ handler'[w].found /\ Adds(w)'
    BY <1>1, <1>3, <1>9, <1>10, AfterFrame DEF Appending
  <2>5. Stored(published)'
    BY <1>1, <1>11 DEF Appending
  <2> QED
    BY <1>4, <1>7, <1>9, <1>10, <1>11, <2>1, <2>2, <2>3, <2>4, <2>5 DEF Filling
<1>13. Writing(w)'
  BY <1>1, <1>9, <1>10, <1>12, Phases DEF Writing
<1>14. Active(w)' /\ handler'[w].pc \in WritePc \ {"idle"}
  BY <1>8, <1>9, <1>10 DEF Active
<1>15. RepoTypes'
  <2>1. UNCHANGED <<storage, up, stream, heard, published, audit>>
    BY <1>3 DEF streamVars
  <2>2. Within(arrays', storage')
    BY <1>2, <1>6, <2>1 DEF Within
  <2>3. Within(arrays', handler'[w].slice)
    BY <1>6, <1>9, <1>10
  <2>4. \A k \in 1..Len(arrays) : Len(arrays'[k]) = Len(arrays[k])
    BY <1>6
  <2> QED
    BY <1>1, <1>2, <1>6, <1>10, <1>14, <2>1, <2>2, <2>3, <2>4, GoroutineMoves DEF RepoTypes
<1> QED
  BY <1>1, <1>3, <1>9, <1>10, <1>13, <1>14, <1>15, WriterMoves

\* A step of the write in progress that writes one cell.
LEMMA CellWritten ==
  ASSUME RepoTypes, WriterInv, NEW w \in Write, Active(w), w \in Request,
         NEW a \in 1..Len(arrays), NEW c \in 1..Len(arrays[a]), NEW v \in Cell,
         arrays' = [arrays EXCEPT ![a][c] = v],
         UNCHANGED <<storage, up, streamVars, published, audit>>,
         NEW n \in Goroutine, handler' = [handler EXCEPT ![w] = n],
         n.pc \in WritePc \ {"idle", "done"}, n.td = handler[w].td, n.slice = handler[w].slice,
         Writing(w)'
  PROVE  RepoTypes' /\ WriterInv'
<1>1. w \notin Read /\ w \in Request
  BY RequestAssumption DEF Request
<1>2. /\ handler' \in [Request -> Goroutine] /\ \A k \in Request \ {w} : handler'[k] = handler[k]
      /\ handler'[w] = n
  BY <1>1, HandlerReplaced DEF RepoTypes
<1>3. /\ arrays' \in Seq(Seq(Cell)) /\ Len(arrays') = Len(arrays)
      /\ \A k \in 1..Len(arrays) : Len(arrays'[k]) = Len(arrays[k])
  BY HeapWrite
<1>4. Paired(arrays') /\ Len(arrays) \in Nat
  BY <1>3, HeapShape DEF Paired, RepoTypes
<1>5. Within(arrays', handler'[w].slice) /\ Within(arrays', storage)
  <2>1. Within(arrays, handler[w].slice) /\ Within(arrays, storage) /\ storage \in Bounds
        /\ handler[w].slice \in Bounds
    BY <1>1 DEF RepoTypes, Goroutine
  <2>2. /\ Len(arrays') \in Nat /\ Len(arrays) <= Len(arrays')
        /\ handler'[w].slice = handler[w].slice
    BY <1>2, <1>3, <1>4
  <2> QED
    BY <1>3, <1>4, <2>1, <2>2, WithinKept
<1>6. UNCHANGED <<storage, up, stream, heard, published, audit>>
  BY DEF streamVars
<1>7. RepoTypes'
  <2>1. /\ storage' \in Bounds /\ Within(arrays', storage')
        /\ stream' \in [Subscriber -> {"away", "busy", "waiting", "gone"}]
        /\ heard' \in [Subscriber -> SUBSET Write]
        /\ published' \in Entries
        /\ up' \in BOOLEAN /\ audit' \in [Read -> Audit]
    BY <1>5, <1>6 DEF RepoTypes
  <2>2. Len(arrays) <= Len(arrays') /\ handler'[w].pc \in WritePc /\ handler'[w].pc # "idle"
    BY <1>2, <1>3, <1>4
  <2> QED
    BY <1>1, <1>2, <1>3, <1>4, <1>5, <2>1, <2>2, GoroutineMoves
<1>8. Active(w)'
  BY <1>2 DEF Active
<1> QED
  BY <1>2, <1>6, <1>7, <1>8, WriterMoves

\* The bundle of the slot that was found is overwritten; its name is written
\* over itself.
LEMMA OverwriteStep ==
  ASSUME RepoTypes, WriterInv, NEW w \in Write, WriteCell(w), Overwriting(w)
  PROVE  RepoTypes' /\ WriterInv'
<1> DEFINE i == handler[w].i
           c == handler[w].c
           a == storage.array
           next == IF c % 2 = 1 THEN "write" ELSE "broadcast"
           v == IF c % 2 = 1 THEN w ELSE handler[w].td
           d == c + 1
           n == [handler[w] EXCEPT !.c = d, !.pc = next]
<1>1. /\ Active(w) /\ w \in Request /\ handler[w].pc = "write" /\ handler[w].found
      /\ handler[w].slice = storage /\ a # 0 /\ i \in 1..storage.len
      /\ Finds(w, i) /\ handler[w].op = "put" /\ ~ Removes(w)
      /\ \/ c = 2 * i - 1 /\ Stored(published)
         \/ c = 2 * i /\ Stored(After(w))
      /\ handler[w].td \in TrustDomain
  BY Phases DEF WriteCell, At, Active, Request, Overwriting, Removes
<1>2. /\ handler[w] \in Goroutine /\ storage \in Bounds /\ storage.len \in Nat /\ a \in Nat
      /\ a \in 1..Len(arrays) /\ 2 * storage.len <= Len(arrays[a]) /\ Len(arrays[a]) \in Nat
      /\ published \in Entries /\ i \in Nat
  BY <1>1, HeapShape DEF RepoTypes, Bounds, Within
<1>3. c \in 1..Len(arrays[a]) /\ d \in Nat /\ v \in Cell /\ c \in Nat
      /\ (c = 2 * i - 1 => c % 2 = 1) /\ (c = 2 * i => c % 2 = 0)
  <2>1. i >= 1 /\ (c = 2 * i - 1 \/ c = 2 * i)
    BY <1>1, <1>2
  <2>2. c \in 1..Len(arrays[a]) /\ c \in Nat /\ c + 1 \in Nat
    <3>1. 2 * i - 1 \in 1..Len(arrays[a]) /\ 2 * i \in 1..Len(arrays[a])
      BY <1>1, <1>2, SlotCells
    <3>2. c \in 1..Len(arrays[a])
      BY <2>1, <3>1
    <3> QED
      BY <3>2
  <2>3. (c = 2 * i - 1 => c % 2 = 1) /\ (c = 2 * i => c % 2 = 0)
    BY <1>2, <2>1, Parity
  <2>4. v \in Cell
    BY <1>1 DEF Cell
  <2> QED
    BY <2>2, <2>3, <2>4
<1>4. /\ UNCHANGED <<storage, up, streamVars, published, audit>>
      /\ arrays' = [arrays EXCEPT ![a][c] = v]
  BY <1>1 DEF WriteCell
<1>5. handler' = [handler EXCEPT ![w] = n]
  <2>1. (CASE c % 2 = 1 -> "write" [] c % 2 # 1 /\ handler[w].found -> "broadcast" [] OTHER -> "store")
        = next
    BY <1>1
  <2> QED
    BY <2>1 DEF WriteCell
<1>6. /\ next \in WritePc \ {"idle", "done"}
      /\ c % 2 = 1 => next = "write"
      /\ c % 2 = 0 => next = "broadcast"
      /\ c % 2 = 1 => v = w
      /\ c % 2 = 0 => v = handler[w].td
  BY DEF WritePc
<1> HIDE DEF next, v
<1>7. d = c + 1
  OBVIOUS
<1> HIDE DEF d
<1>8. /\ n \in Goroutine /\ n.pc = next /\ n.c = d /\ n.td = handler[w].td
      /\ n.op = handler[w].op /\ n.found = handler[w].found /\ n.slice = handler[w].slice
      /\ n.i = i
  BY <1>2, <1>3, <1>6 DEF Goroutine
<1> HIDE DEF n
<1>9. handler'[w] = n
  BY <1>1, <1>5, <1>8, HandlerReplaced DEF RepoTypes
<1>10. /\ Contents'[c] = v
       /\ \A j \in 1..Len(arrays[a]) : j # c => Contents'[j] = Contents[j]
  BY <1>2, <1>3, <1>4, HeapWrite DEF Contents
<1>11. /\ After(w)' = After(w) /\ (Finds(w, i)' <=> Finds(w, i)) /\ (Changes(w)' <=> Changes(w))
       /\ Len(After(w)) = Len(published)
       /\ \A j \in 1..Len(published) :
            After(w)[j] = IF j = i THEN <<w, handler[w].td>> ELSE published[j]
       /\ storage.len = Len(published)
  <2>1. After(w)' = After(w) /\ (Finds(w, i)' <=> Finds(w, i)) /\ (Changes(w)' <=> Changes(w))
    BY <1>1, <1>4, <1>8, <1>9, AfterFrame DEF Finds
  <2>2. /\ Len(After(w)) = Len(published)
        /\ \A j \in 1..Len(published) :
             After(w)[j] = IF j = i THEN <<w, handler[w].td>> ELSE published[j]
    BY <1>1, AfterReplaces
  <2> QED
    BY <1>1, <2>1, <2>2 DEF Stored
<1>12. Overwriting(w)' \/ Broadcasting(w)'
  <2>1. CASE c = 2 * i - 1
    <3>1. Stored(published)
      BY <1>1, <1>2, <2>1
    <3>2. /\ BundleAt(Contents', i) = w /\ NameAt(Contents', i) = NameAt(Contents, i)
          /\ \A j \in 1..storage.len : j # i => /\ BundleAt(Contents', j) = BundleAt(Contents, j)
                                                /\ NameAt(Contents', j) = NameAt(Contents, j)
      <4>1. \A j \in 1..storage.len : /\ 2 * j - 1 \in 1..Len(arrays[a]) /\ 2 * j \in 1..Len(arrays[a])
                                      /\ 2 * j # c /\ (j # i => 2 * j - 1 # c)
        <5>1. \A j \in 1..storage.len : /\ 2 * j - 1 \in 1..Len(arrays[a]) /\ 2 * j \in 1..Len(arrays[a])
                                        /\ j \in Nat
          BY <1>2, SlotCells
        <5>2. \A k, j \in Nat : 2 * k - 1 # 2 * j /\ (2 * k - 1 = 2 * j - 1 => k = j)
          OBVIOUS
        <5> QED
          BY <1>2, <2>1, <5>1, <5>2
      <4>2. Contents'[2 * i - 1] = w
        BY <1>3, <1>6, <1>10, <2>1
      <4>3. \A j \in 1..storage.len : /\ Contents'[2 * j] = Contents[2 * j]
                                      /\ j # i => Contents'[2 * j - 1] = Contents[2 * j - 1]
        BY <1>10, <4>1
      <4> QED
        BY <1>1, <4>2, <4>3 DEF BundleAt, NameAt
    <3>3. Lists(Contents', After(w))
      <4>1. \A j \in 1..storage.len : /\ BundleAt(Contents, j) = published[j][1]
                                      /\ NameAt(Contents, j) = published[j][2]
        BY <3>1 DEF Stored, Lists
      <4>2. published[i][2] = handler[w].td
        BY <1>1 DEF Finds
      <4>3. ASSUME NEW j \in 1..Len(After(w))
            PROVE  BundleAt(Contents', j) = After(w)[j][1] /\ NameAt(Contents', j) = After(w)[j][2]
        <5>1. CASE j = i
          BY <1>1, <1>11, <3>2, <4>1, <4>2, <5>1
        <5>2. CASE j # i
          BY <1>11, <3>2, <4>1, <5>2
        <5> QED
          BY <5>1, <5>2
      <4> QED
        BY <4>3 DEF Lists
    <3>4. Stored(After(w))'
      BY <1>4, <1>11, <3>3 DEF Stored
    <3>5. handler'[w].c = 2 * handler'[w].i /\ handler'[w].pc = "write"
      <4>1. c + 1 = 2 * i
        BY <1>2, <2>1
      <4>2. c % 2 = 1
        BY <1>3, <2>1
      <4> QED
        BY <1>6, <1>7, <1>8, <1>9, <4>1, <4>2
    <3>6. Finds(w, handler[w].i)'
      BY <1>1, <1>4, <1>8, <1>9 DEF Finds
    <3> QED
      BY <1>1, <1>4, <1>8, <1>9, <3>4, <3>5, <3>6 DEF Overwriting
  <2>2. CASE c = 2 * i
    <3>1. Stored(After(w))
      BY <1>1, <1>2, <2>2
    <3>2. \A j \in 1..Len(arrays[a]) : Contents'[j] = Contents[j]
      <4>1. NameAt(Contents, i) = handler[w].td
        BY <1>1, <1>11, <3>1 DEF Stored, Lists
      <4> QED
        BY <1>1, <1>2, <1>3, <1>6, <1>10, <2>2, <4>1 DEF NameAt
    <3>3. \A j \in 1..storage.len : /\ Contents'[2 * j - 1] = Contents[2 * j - 1]
                                    /\ Contents'[2 * j] = Contents[2 * j]
      BY <1>2, <3>2, SlotCells
    <3>4. Lists(Contents', After(w))
      BY <1>11, <3>1, <3>3, ListsFrame DEF Stored
    <3>5. Stored(After(w))' /\ Changes(w)'
      BY <1>1, <1>2, <1>4, <1>11, <3>4 DEF Stored, Changes
    <3> QED
      BY <1>1, <1>3, <1>6, <1>8, <1>9, <2>2, <3>5 DEF Broadcasting
  <2> QED
    BY <1>1, <2>1, <2>2
<1>13. Writing(w)'
  BY <1>1, <1>8, <1>9, <1>12, Phases DEF Writing
<1> QED
  BY <1>1, <1>2, <1>3, <1>4, <1>5, <1>6, <1>8, <1>13, CellWritten

\* The new slot is filled.
LEMMA FillStep ==
  ASSUME RepoTypes, WriterInv, NEW w \in Write, WriteCell(w), Filling(w)
  PROVE  RepoTypes' /\ WriterInv'
<1> DEFINE c == handler[w].c
           a == handler[w].slice.array
           m == storage.len
           next == IF c % 2 = 1 THEN "write" ELSE "store"
           v == IF c % 2 = 1 THEN w ELSE handler[w].td
           d == c + 1
           n == [handler[w] EXCEPT !.c = d, !.pc = next]
<1>1. /\ Active(w) /\ w \in Request /\ handler[w].pc = "write" /\ ~ handler[w].found
      /\ ~ Removes(w) /\ a # 0 /\ handler[w].slice.len = m + 1
      /\ Adds(w) /\ Stored(published)
      /\ \A j \in 1..(2 * m) : arrays[a][j] = Contents[j]
      /\ c \in {2 * m + 1, 2 * m + 2}
      /\ c = 2 * m + 2 => BundleAt(arrays[a], m + 1) = w
      /\ handler[w].td \in TrustDomain
  BY Phases DEF WriteCell, At, Active, Request, Filling
<1>2. /\ handler[w] \in Goroutine /\ storage \in Bounds /\ m \in Nat /\ a \in Nat
      /\ a \in 1..Len(arrays) /\ 2 * (m + 1) <= Len(arrays[a]) /\ Len(arrays[a]) \in Nat
  <2>1. handler[w] \in Goroutine /\ storage \in Bounds /\ Within(arrays, handler[w].slice)
    BY <1>1 DEF RepoTypes
  <2>2. handler[w].slice \in Bounds
    BY <2>1 DEF Goroutine
  <2>3. a \in 1..Len(arrays)
    BY <1>1, <2>1, <2>2, HeapShape DEF Bounds, Within
  <2> QED
    BY <1>1, <2>1, <2>2, <2>3, HeapShape DEF Bounds, Within
<1>3. c \in 1..Len(arrays[a]) /\ d \in Nat /\ v \in Cell /\ c \in Nat
      /\ (c = 2 * m + 1 => c % 2 = 1) /\ (c = 2 * m + 2 => c % 2 = 0)
  <2>1. c \in 1..Len(arrays[a]) /\ c \in Nat /\ c + 1 \in Nat
    <3>1. \A L \in Nat : 2 * (m + 1) <= L => 2 * m + 1 \in 1..L /\ 2 * m + 2 \in 1..L
      BY <1>2
    <3>2. 2 * m + 1 \in 1..Len(arrays[a]) /\ 2 * m + 2 \in 1..Len(arrays[a])
      BY <1>2, <3>1
    <3>3. c \in 1..Len(arrays[a])
      BY <1>1, <3>2
    <3> QED
      BY <3>3
  <2>2. (c = 2 * m + 1 => c % 2 = 1) /\ (c = 2 * m + 2 => c % 2 = 0)
    BY <1>2, Parity
  <2>3. v \in Cell
    BY <1>1 DEF Cell
  <2> QED
    BY <2>1, <2>2, <2>3
<1>4. /\ UNCHANGED <<storage, up, streamVars, published, audit>>
      /\ arrays' = [arrays EXCEPT ![a][c] = v]
  BY <1>1 DEF WriteCell
<1>5. handler' = [handler EXCEPT ![w] = n]
  <2>1. (CASE c % 2 = 1 -> "write" [] c % 2 # 1 /\ handler[w].found -> "broadcast" [] OTHER -> "store")
        = next
    BY <1>1
  <2> QED
    BY <2>1 DEF WriteCell
<1>6. /\ next \in WritePc \ {"idle", "done"}
      /\ c % 2 = 1 => next = "write"
      /\ c % 2 = 0 => next = "store"
      /\ c % 2 = 1 => v = w
      /\ c % 2 = 0 => v = handler[w].td
  BY DEF WritePc
<1> HIDE DEF next, v
<1>7. d = c + 1
  OBVIOUS
<1> HIDE DEF d
<1>8. /\ n \in Goroutine /\ n.pc = next /\ n.c = d /\ n.td = handler[w].td
      /\ n.op = handler[w].op /\ n.found = handler[w].found /\ n.slice = handler[w].slice
  BY <1>2, <1>3, <1>6 DEF Goroutine
<1> HIDE DEF n
<1>9. handler'[w] = n
  BY <1>1, <1>5, <1>8, HandlerReplaced DEF RepoTypes
<1>10. /\ arrays'[a][c] = v
       /\ \A j \in 1..Len(arrays[a]) : j # c => arrays'[a][j] = arrays[a][j]
       /\ \A j \in 1..(2 * m) : Contents'[j] = Contents[j]
  <2>1. /\ arrays'[a][c] = v
        /\ \A j \in 1..Len(arrays[a]) : j # c => arrays'[a][j] = arrays[a][j]
        /\ \A k \in 1..Len(arrays) : k # a => arrays'[k] = arrays[k]
    <3>1. /\ RepoTypes /\ a \in 1..Len(arrays) /\ c \in 1..Len(arrays[a]) /\ v \in Cell
          /\ arrays' = [arrays EXCEPT ![a][c] = v]
      BY <1>1, <1>2, <1>3, <1>4
    <3> QED
      BY SMTT(30), <3>1, HeapWrite
  <2>2. \A j \in 1..(2 * m) : j \in 1..Len(arrays[a]) /\ j # c
    BY <1>1, <1>2
  <2>3. CASE a = storage.array
    BY <1>4, <2>1, <2>2, <2>3 DEF Contents
  <2>4. CASE a # storage.array /\ storage.array # 0
    <3>1. storage.array \in 1..Len(arrays)
      BY <1>2, <2>4, HeapShape DEF RepoTypes, Within, Bounds
    <3> QED
      BY <1>4, <2>1, <2>4, <3>1 DEF Contents
  <2>5. CASE storage.array = 0
    <3>1. m = 0
      BY <2>5 DEF RepoTypes, Within
    <3> QED
      BY <2>1, <3>1
  <2> QED
    BY <2>1, <2>3, <2>4, <2>5
<1>11. Stored(published)'
  <2>1. \A j \in 1..m : /\ Contents'[2 * j - 1] = Contents[2 * j - 1]
                        /\ Contents'[2 * j] = Contents[2 * j]
    BY <1>2, <1>10
  <2>2. Lists(Contents', published) /\ m = Len(published)
    BY <1>1, <2>1, ListsFrame DEF Stored
  <2> QED
    BY <1>4, <2>2 DEF Stored
<1>12. \A j \in 1..(2 * m) : arrays'[a][j] = Contents'[j]
  <2>1. \A j \in 1..(2 * m) : j \in 1..Len(arrays[a]) /\ j # c
    BY <1>1, <1>2
  <2> QED
    BY <1>1, <1>10, <2>1
<1>13. Filling(w)'
  <2>1. /\ ~ Removes(w)' /\ ~ handler'[w].found /\ handler'[w].slice = handler[w].slice
        /\ storage' = storage /\ Adds(w)' /\ handler'[w].td = handler[w].td
        /\ published' = published
    BY <1>1, <1>4, <1>8, <1>9, AfterFrame
  <2>2. CASE c = 2 * m + 1
    <3>1. handler'[w].pc = "write" /\ handler'[w].c = 2 * m + 2 /\ BundleAt(arrays'[a], m + 1) = w
      <4>1. 2 * (m + 1) - 1 = c /\ c + 1 = 2 * m + 2
        BY <1>2, <2>2
      <4> QED
        BY <1>3, <1>6, <1>7, <1>8, <1>9, <1>10, <2>2, <4>1 DEF BundleAt
    <3> QED
      BY <1>1, <1>11, <1>12, <2>1, <3>1 DEF Filling
  <2>3. CASE c = 2 * m + 2
    <3>1. handler'[w].pc = "store" /\ NameAt(arrays'[a], m + 1) = handler[w].td
      <4>1. 2 * (m + 1) = c
        BY <1>2, <2>3
      <4> QED
        BY <1>3, <1>6, <1>8, <1>9, <1>10, <2>3, <4>1 DEF NameAt
    <3>2. BundleAt(arrays'[a], m + 1) = w
      <4>1. 2 * (m + 1) - 1 # c /\ 2 * (m + 1) - 1 \in 1..Len(arrays[a])
        <5>1. \A k, l \in Nat : 2 * (k + 1) <= l => /\ 2 * (k + 1) - 1 # 2 * k + 2
                                                  /\ 2 * (k + 1) - 1 \in 1..l
          OBVIOUS
        <5> QED
          BY <1>1, <1>2, <2>3, <5>1
      <4> QED
        BY <1>1, <1>10, <2>3, <4>1 DEF BundleAt
    <3> QED
      BY <1>1, <1>11, <1>12, <2>1, <3>1, <3>2 DEF Filling
  <2> QED
    BY <1>1, <2>2, <2>3
<1>14. Writing(w)'
  BY <1>1, <1>8, <1>9, <1>13, Phases DEF Writing
<1> QED
  BY <1>1, <1>2, <1>3, <1>4, <1>5, <1>6, <1>8, <1>14, CellWritten

LEMMA WriteCellStep ==
  ASSUME RepoTypes, WriterInv, NEW w \in Write, WriteCell(w)
  PROVE  RepoTypes' /\ WriterInv'
<1>1. Overwriting(w) \/ Filling(w)
  BY Phases DEF WriteCell, At, Active
<1> QED
  BY <1>1, OverwriteStep, FillStep

LEMMA ShiftCellStep ==
  ASSUME RepoTypes, WriterInv, NEW w \in Write, ShiftCell(w)
  PROVE  RepoTypes' /\ WriterInv'
<1> DEFINE c == handler[w].c
           a == storage.array
           k == storage.len
           next == IF c + 2 = 2 * k THEN "store" ELSE "shift"
           v == arrays[a][c + 2]
           d == c + 1
           n == [handler[w] EXCEPT !.c = d, !.pc = next]
<1>1. /\ Active(w) /\ w \in Request /\ Removes(w) /\ StillPublished
      /\ handler[w].slice = storage /\ a # 0 /\ handler[w].td \in TrustDomain
      /\ handler[w].pc = "shift" /\ Shifting(w)
  BY Phases DEF ShiftCell, At, Active, Request, Shifting
<1>2. PICK m \in 1..(k - 1) :
         /\ c \in {2 * m - 1, 2 * m} /\ ListsAround(Contents, After(w), m)
         /\ c = 2 * m => BundleAt(Contents, m) = BundleAt(Contents, m + 1)
  BY <1>1 DEF Shifting
<1>3. /\ handler[w] \in Goroutine /\ storage \in Bounds /\ k \in Nat /\ a \in Nat
      /\ a \in 1..Len(arrays) /\ 2 * k <= Len(arrays[a]) /\ Len(arrays[a]) \in Nat
      /\ published \in Entries
  BY <1>1, HeapShape DEF RepoTypes, Bounds, Within
<1>4. m \in Nat /\ m \in 1..k /\ m + 1 \in 1..k /\ m # m + 1 /\ m + 1 \in Nat
  BY <1>3
<1>5. /\ 2 * m - 1 \in 1..Len(arrays[a]) /\ 2 * m \in 1..Len(arrays[a])
      /\ 2 * (m + 1) - 1 \in 1..Len(arrays[a]) /\ 2 * (m + 1) \in 1..Len(arrays[a])
  BY <1>3, <1>4, SlotCells
<1>6. /\ c = 2 * m - 1 => c + 2 = 2 * (m + 1) - 1
      /\ c = 2 * m => c + 2 = 2 * (m + 1)
  BY <1>4
<1>7. c \in 1..Len(arrays[a]) /\ c + 2 \in 1..Len(arrays[a]) /\ d \in Nat /\ v \in Cell /\ d = c + 1
  <2>1. c \in 1..Len(arrays[a]) /\ c + 2 \in 1..Len(arrays[a])
    BY <1>2, <1>5, <1>6
  <2> QED
    BY <1>3, <2>1, HeapShape
<1>8. /\ UNCHANGED <<storage, up, streamVars, published, audit>>
      /\ arrays' = [arrays EXCEPT ![a][c] = v]
      /\ handler' = [handler EXCEPT ![w] = n]
  BY <1>1 DEF ShiftCell
<1>9. /\ next \in WritePc \ {"idle", "done"}
      /\ c + 2 = 2 * k => next = "store"
      /\ c + 2 # 2 * k => next = "shift"
      /\ v = Contents[c + 2]
  BY DEF WritePc, Contents
<1> HIDE DEF next, v, d
<1>10. /\ n \in Goroutine /\ n.pc = next /\ n.c = d /\ n.td = handler[w].td
       /\ n.op = handler[w].op /\ n.found = handler[w].found /\ n.slice = handler[w].slice
  BY <1>3, <1>7, <1>9 DEF Goroutine
<1> HIDE DEF n
<1>11. handler'[w] = n
  BY <1>1, <1>8, <1>10, HandlerReplaced DEF RepoTypes
<1>12. /\ Contents'[c] = Contents[c + 2]
       /\ \A j \in 1..Len(arrays[a]) : j # c => Contents'[j] = Contents[j]
  BY <1>3, <1>7, <1>8, <1>9, HeapWrite DEF Contents
<1>13. /\ After(w)' = After(w) /\ Changes(w)' /\ k = Len(After(w)) + 1
       /\ Len(After(w)) \in Nat
  <2>1. After(w)' = After(w) /\ Changes(w)' /\ k = Len(After(w)) + 1 /\ Changes(w)
    BY <1>1, <1>8, <1>10, <1>11, AfterFrame DEF Shifting
  <2>2. After(w) \in Entries
    BY <1>1, <2>1, AfterFacts
  <2> QED
    BY <2>1, <2>2, LenProperties DEF Entries
<1>14. \A j \in 1..k : /\ 2 * j - 1 \in 1..Len(arrays[a]) /\ 2 * j \in 1..Len(arrays[a])
                       /\ j \in Nat
  BY <1>3, SlotCells
<1>15. \A i, j \in Nat : 2 * i - 1 # 2 * j /\ (2 * i - 1 = 2 * j - 1 => i = j) /\ (2 * i = 2 * j => i = j)
  OBVIOUS
<1>16. \A j \in (1..k) \ {m} : BundleAt(Contents', j) = BundleAt(Contents, j) /\ NameAt(Contents', j) = NameAt(Contents, j)
  <2>1. \A j \in (1..k) \ {m} : 2 * j - 1 # c /\ 2 * j # c
    BY <1>2, <1>4, <1>14, <1>15
  <2> QED
    BY <1>12, <1>14, <2>1 DEF BundleAt, NameAt
<1>17. /\ c = 2 * m - 1 => /\ BundleAt(Contents', m) = BundleAt(Contents, m + 1)
                           /\ NameAt(Contents', m) = NameAt(Contents, m)
       /\ c = 2 * m => /\ NameAt(Contents', m) = NameAt(Contents, m + 1)
                       /\ BundleAt(Contents', m) = BundleAt(Contents, m)
  <2>1. CASE c = 2 * m - 1
    <3>1. 2 * m # c /\ c # 2 * m
      BY <1>4, <1>15, <2>1
    <3> QED
      BY <1>5, <1>6, <1>12, <2>1, <3>1 DEF BundleAt, NameAt
  <2>2. CASE c = 2 * m
    <3>1. 2 * m - 1 # c
      BY <1>4, <1>15, <2>2
    <3> QED
      BY <1>5, <1>6, <1>12, <2>2, <3>1 DEF BundleAt, NameAt
  <2> QED
    BY <1>2, <2>1, <2>2
<1>18. StillPublished'
  <2>1. Members' = Members /\ storage' = storage /\ published' = published
    BY <1>8 DEF Members
  <2>2. ASSUME NEW j \in 1..k
        PROVE  /\ BundleAt(Contents', j) \in {BundleAt(Contents, j), BundleAt(Contents, m + 1)}
               /\ NameAt(Contents', j) \in {NameAt(Contents, j), NameAt(Contents, m + 1)}
    BY <1>2, <1>16, <1>17
  <2>3. ASSUME NEW j \in 1..k
        PROVE  /\ \E e \in Range(published) : BundleAt(Contents', j) = e[1]
               /\ NameAt(Contents', j) \in Members
    BY <1>1, <1>4, <2>2 DEF StillPublished
  <2> QED
    BY <2>1, <2>3 DEF StillPublished
<1>19. Shifting(w)' \/ Shifted(w)'
  <2>1. /\ Removes(w)' /\ handler'[w].slice = storage' /\ storage' = storage /\ storage'.array # 0
        /\ k >= 1
    BY <1>1, <1>3, <1>4, <1>8, <1>10, <1>11 DEF Removes
  <2>2. CASE c = 2 * m - 1
    <3>1. ListsAround(Contents', After(w), m)
      <4>1. \A j \in 1..Len(After(w)) : /\ j \in 1..k /\ j + 1 \in 1..k /\ (j < m => j # m)
                                        /\ (j >= m => j + 1 # m)
        BY <1>4, <1>13
      <4> QED
        BY <1>2, <1>16, <4>1 DEF ListsAround
    <3>2. c + 2 # 2 * k
      BY <1>3, <1>4, <1>6, <1>15, <2>2
    <3>3. handler'[w].pc = "shift" /\ handler'[w].c = 2 * m
      BY <1>4, <1>7, <1>9, <1>10, <1>11, <2>2, <3>2
    <3>4. BundleAt(Contents', m) = BundleAt(Contents', m + 1)
      BY <1>4, <1>16, <1>17, <2>2
    <3>5. ListsAround(Contents', After(w)', m) /\ storage'.len = Len(After(w)') + 1
      BY <1>13, <2>1, <3>1
    <3> QED
      BY <1>2, <1>13, <1>18, <2>1, <3>3, <3>4, <3>5 DEF Shifting
  <2>3. CASE c = 2 * m
    <3>1. ListsAround(Contents', After(w), m + 1)
      <4>1. m \in 1..Len(After(w)) /\ \A j \in 1..(Len(After(w)) + 1) : j # m => j \in (1..k) \ {m}
        BY <1>4, <1>13
      <4>2. BundleAt(Contents', m) = BundleAt(Contents, m + 1) /\ NameAt(Contents', m) = NameAt(Contents, m + 1)
        BY <1>2, <1>17, <2>3
      <4> QED
        BY <1>2, <1>13, <1>16, <4>1, <4>2, ListsShift
    <3>2. CASE m + 1 = k
      <4>1. handler'[w].pc = "store"
        BY <1>6, <1>9, <1>10, <1>11, <2>3, <3>2
      <4>2. m + 1 = Len(After(w)) + 1
        BY <1>13, <3>2
      <4>3. Lists(Contents', After(w)') /\ storage'.len = Len(After(w)') + 1
        BY <1>13, <2>1, <3>1, <4>2, ListsAll
      <4> QED
        BY <1>13, <1>18, <2>1, <4>1, <4>3 DEF Shifted
    <3>3. CASE m + 1 # k
      <4>1. m + 1 \in 1..(k - 1)
        BY <1>3, <1>4, <3>3
      <4>2. c + 2 # 2 * k
        BY <1>3, <1>4, <1>6, <1>15, <2>3, <3>3
      <4>3. handler'[w].pc = "shift" /\ handler'[w].c = 2 * (m + 1) - 1 /\ handler'[w].c # 2 * (m + 1)
        BY <1>4, <1>7, <1>9, <1>10, <1>11, <2>3, <4>2
      <4>4. ListsAround(Contents', After(w)', m + 1) /\ storage'.len = Len(After(w)') + 1
        BY <1>13, <2>1, <3>1
      <4> QED
        BY <1>13, <1>18, <2>1, <4>1, <4>3, <4>4 DEF Shifting
    <3> QED
      BY <3>2, <3>3
  <2> QED
    BY <1>2, <2>2, <2>3
<1>20. Writing(w)'
  BY <1>1, <1>10, <1>11, <1>19, Phases DEF Writing, Removes
<1> QED
  BY <1>1, <1>3, <1>7, <1>8, <1>9, <1>10, <1>20, CellWritten

\* What the stored header makes visible is the outcome of the write.
LEMMA HeaderStored ==
  ASSUME RepoTypes, WriterInv, NEW w \in Write, StoreHeader(w)
  PROVE  /\ storage' \in Bounds /\ Within(arrays, storage') /\ storage'.array # 0
         /\ Lists(arrays[storage'.array], After(w)) /\ storage'.len = Len(After(w)) /\ Changes(w)
<1> DEFINE s == handler[w].slice
<1>1. /\ Active(w) /\ w \in Request /\ handler[w].pc = "store" /\ handler[w].td \in TrustDomain
      /\ Filling(w) \/ Shifted(w)
  BY Phases DEF StoreHeader, At, Active, Request
<1>2. /\ s \in Bounds /\ s.len \in Nat /\ s.array \in Nat /\ Within(arrays, s)
      /\ storage \in Bounds /\ storage.len \in Nat
      /\ published \in Entries
  BY <1>1 DEF RepoTypes, Goroutine, Bounds
<1>3. storage' = [s EXCEPT !.len = IF Removes(w) THEN s.len - 1 ELSE s.len]
  BY DEF StoreHeader
<1>4. CASE Filling(w)
  <2>1. ~ Removes(w) /\ s.array # 0 /\ s.len = storage.len + 1
    BY <1>4 DEF Filling
  <2>2. storage'.array = s.array /\ storage'.len = s.len /\ storage' \in Bounds
    BY <1>2, <1>3, <2>1 DEF Bounds
  <2>3. Within(arrays, storage')
    BY <1>2, <2>2 DEF Within
  <2>4. /\ Lists(Contents, published) /\ storage.len = Len(published) /\ Adds(w)
        /\ BundleAt(arrays[s.array], storage.len + 1) = w
        /\ NameAt(arrays[s.array], storage.len + 1) = handler[w].td
        /\ \A j \in 1..(2 * storage.len) : arrays[s.array][j] = Contents[j]
    BY <1>1, <1>4 DEF Filling, Stored
  <2>5. \A j \in 1..storage.len : /\ BundleAt(arrays[s.array], j) = BundleAt(Contents, j)
                                  /\ NameAt(arrays[s.array], j) = NameAt(Contents, j)
    <3>1. \A j \in 1..storage.len : 2 * j - 1 \in 1..(2 * storage.len) /\ 2 * j \in 1..(2 * storage.len)
      BY <1>2
    <3> QED
      BY <2>4, <3>1 DEF BundleAt, NameAt
  <2>6. /\ Len(After(w)) = storage.len + 1
        /\ \A j \in 1..storage.len : After(w)[j] = published[j]
        /\ After(w)[storage.len + 1] = <<w, handler[w].td>>
    BY <1>1, <2>4, AfterAdds
  <2>7. Lists(arrays[s.array], After(w))
    <3>1. \A j \in 1..Len(After(w)) : j \in 1..storage.len \/ j = storage.len + 1
      BY <1>2, <2>6
    <3>2. \A j \in 1..storage.len : BundleAt(Contents, j) = published[j][1] /\ NameAt(Contents, j) = published[j][2]
      BY <2>4 DEF Lists
    <3> QED
      BY <2>4, <2>5, <2>6, <3>1, <3>2 DEF Lists
  <2> QED
    BY <2>1, <2>2, <2>3, <2>4, <2>6, <2>7 DEF Changes
<1>5. CASE Shifted(w)
  <2>1. Removes(w) /\ s = storage /\ s.array # 0 /\ s.len = Len(After(w)) + 1 /\ Changes(w)
    BY <1>5 DEF Shifted
  <2>2. s.len - 1 \in Nat /\ s.len - 1 = Len(After(w))
    <3>1. After(w) \in Entries
      BY <1>1, <2>1, AfterFacts
    <3>2. Len(After(w)) \in Nat
      BY <3>1, LenProperties DEF Entries
    <3> QED
      BY <1>2, <2>1, <3>2
  <2>3. storage'.array = s.array /\ storage'.len = s.len - 1 /\ storage' \in Bounds
    BY <1>2, <1>3, <2>1, <2>2 DEF Bounds
  <2>4. Within(arrays, storage')
    <3>1. s.array \in 1..Len(arrays) /\ 2 * s.len <= Len(arrays[s.array]) /\ Len(arrays[s.array]) \in Nat
      BY <1>2, <2>1, HeapShape DEF Within
    <3>2. 2 * (s.len - 1) <= Len(arrays[s.array])
      BY SMTT(20), <1>2, <3>1
    <3> QED
      BY <1>2, <2>1, <2>3, <3>2 DEF Within
  <2> QED
    BY <1>5, <2>1, <2>3, <2>4 DEF Shifted, Contents
<1> QED
  BY <1>1, <1>4, <1>5

LEMMA StoreHeaderStep ==
  ASSUME RepoTypes, WriterInv, NEW w \in Write, StoreHeader(w)
  PROVE  RepoTypes' /\ WriterInv'
<1>1. /\ Active(w) /\ w \in Request /\ w \notin Read /\ handler[w] \in Goroutine
      /\ handler[w].td \in TrustDomain /\ handler[w].op # "get"
      /\ handler[w].op = "post" => ~ Removes(w)
  BY Phases, RequestAssumption DEF StoreHeader, At, Active, Request, RepoTypes, Removes
<1>2. /\ UNCHANGED <<arrays, up, streamVars, audit>> /\ UNCHANGED <<arrays, up, stream, heard, audit>>
      /\ storage' \in Bounds /\ Within(arrays, storage')
      /\ Lists(Contents', After(w)) /\ storage'.len = Len(After(w)) /\ Changes(w)
  BY HeaderStored DEF StoreHeader, streamVars, Contents
<1>3. published \in Entries /\ Within(arrays, NoSlice)
      /\ After(w) \in Entries
  <2>1. Within(arrays, NoSlice)
    BY HeapShape DEF Within, NoSlice
  <2> QED
    BY <1>1, <1>2, <2>1, AfterFacts DEF RepoTypes
<1>4. CASE handler[w].op = "post"
  <2> DEFINE n == [handler[w] EXCEPT !.pc = "done", !.slice = NoSlice, !.i = 0, !.c = 0,
                                     !.found = FALSE, !.status = "ok"]
  <2>1. handler' = [handler EXCEPT ![w] = n]
    BY <1>4 DEF StoreHeader, Answer
  <2>2. n \in Goroutine /\ n.pc = "done" /\ n.td = handler[w].td /\ n.slice = NoSlice
    BY <1>1, AnswerFields
  <2> HIDE DEF n
  <2>3. /\ handler' \in [Request -> Goroutine] /\ \A k \in Request \ {w} : handler'[k] = handler[k]
        /\ handler'[w] = n
    BY <1>1, <2>1, <2>2, HandlerReplaced DEF RepoTypes
  <2>4. ~ Active(w)' /\ handler'[w].pc \in WritePc /\ handler'[w].pc # "idle"
        /\ Within(arrays, handler'[w].slice)
    BY <1>3, <2>2, <2>3 DEF Active, WritePc
  <2>5. published' = After(w) /\ published' \in Entries
    BY <1>1, <1>3, <1>4 DEF StoreHeader
  <2>6. Stored(published)'
    BY <1>2, <2>5 DEF Stored
  <2>7. RepoTypes'
    BY <1>1, <1>2, <2>3, <2>4, <2>5, GoroutineMovesAlone DEF RepoTypes
  <2> QED
    BY <1>1, <2>2, <2>3, <2>4, <2>5, <2>6, <2>7, WriterMoves
<1>5. CASE handler[w].op # "post"
  <2> DEFINE n == [handler[w] EXCEPT !.pc = "broadcast"]
  <2>1. handler' = [handler EXCEPT ![w] = n] /\ published' = published
    BY <1>5 DEF StoreHeader, Goto
  <2>2. /\ n \in Goroutine /\ n.pc = "broadcast" /\ n.td = handler[w].td /\ n.slice = handler[w].slice
        /\ n.op = handler[w].op
    <3>1. "broadcast" \in WritePc \cup ReadPc
      BY DEF WritePc
    <3> QED
      BY <1>1, <3>1, GotoFields
  <2> HIDE DEF n
  <2>3. /\ handler' \in [Request -> Goroutine] /\ \A k \in Request \ {w} : handler'[k] = handler[k]
        /\ handler'[w] = n
    BY <1>1, <2>1, <2>2, HandlerReplaced DEF RepoTypes
  <2>4. Active(w)' /\ handler'[w].pc \in WritePc /\ handler'[w].pc # "idle"
        /\ Within(arrays, handler'[w].slice)
    BY <1>1, <2>2, <2>3 DEF Active, WritePc, RepoTypes
  <2>5. After(w)' = After(w) /\ (Changes(w)' <=> Changes(w))
    BY <2>1, <2>2, <2>3, AfterFrame
  <2>6. Stored(After(w))'
    BY <1>2, <2>5 DEF Stored
  <2>7. Broadcasting(w)'
    BY <1>2, <1>5, <2>2, <2>3, <2>5, <2>6 DEF Broadcasting
  <2>8. Writing(w)'
    BY <1>1, <2>2, <2>3, <2>7 DEF Writing
  <2>9. RepoTypes'
    BY <1>1, <1>2, <1>3, <2>1, <2>3, <2>4, GoroutineMovesAlone DEF RepoTypes
  <2> QED
    BY <1>1, <2>1, <2>2, <2>3, <2>4, <2>8, <2>9, WriterMoves
<1> QED
  BY <1>4, <1>5

LEMMA BroadcastStep ==
  ASSUME RepoTypes, WriterInv, NEW w \in Write, Broadcast(w)
  PROVE  RepoTypes' /\ WriterInv'
<1> DEFINE n == [handler[w] EXCEPT !.pc = "done", !.slice = NoSlice, !.i = 0, !.c = 0,
                                   !.found = FALSE, !.status = "ok"]
<1>1. /\ Active(w) /\ w \in Request /\ w \notin Read /\ handler[w] \in Goroutine
      /\ handler[w].td \in TrustDomain /\ Stored(After(w)) /\ Changes(w)
  BY Phases, RequestAssumption DEF Broadcast, At, Active, Request, RepoTypes, Broadcasting
<1>2. /\ UNCHANGED <<arrays, storage, up, audit>> /\ handler' = [handler EXCEPT ![w] = n]
      /\ published' = After(w)
  BY DEF Broadcast, Answer
<1>3. n \in Goroutine /\ n.pc = "done" /\ n.td = handler[w].td /\ n.slice = NoSlice
  BY <1>1, AnswerFields
<1> HIDE DEF n
<1>4. /\ handler' \in [Request -> Goroutine] /\ \A k \in Request \ {w} : handler'[k] = handler[k]
      /\ handler'[w] = n
  BY <1>1, <1>2, <1>3, HandlerReplaced DEF RepoTypes
<1>5. ~ Active(w)' /\ handler'[w].pc \in WritePc /\ handler'[w].pc # "idle"
  BY <1>3, <1>4 DEF Active, WritePc
<1>6. Within(arrays, handler'[w].slice)
  BY <1>3, <1>4, HeapShape DEF Within, NoSlice
<1>7. /\ stream' \in [Subscriber -> {"away", "busy", "waiting", "gone"}]
      /\ heard' \in [Subscriber -> SUBSET Write]
      /\ published' \in Entries
  <2>1. stream' \in [Subscriber -> {"away", "busy", "waiting", "gone"}]
    BY DEF Broadcast, RepoTypes
  <2>2. heard' \in [Subscriber -> SUBSET Write]
    BY DEF Broadcast, RepoTypes
  <2>3. published' \in Entries
    BY <1>1, <1>2, AfterFacts
  <2> QED
    BY <2>1, <2>2, <2>3
<1>8. Stored(published)'
  BY <1>1, <1>2 DEF Stored, Contents
<1>9. RepoTypes'
  BY <1>1, <1>2, <1>4, <1>5, <1>6, <1>7, GoroutineMovesAlone DEF RepoTypes
<1> QED
  BY <1>1, <1>2, <1>3, <1>4, <1>5, <1>8, <1>9, WriterMoves

-----------------------------------------------------------------------------
(* Requests arrive, and reads and subscribers move                         *)

\* With writes one at a time, a write starts when none is in progress.
LEMMA NoneInProgress ==
  ASSUME RepoTypes, WriterInv, Overlap \in Nat, Overlap <= 1, Cardinality(InProgress) < Overlap
  PROVE  \A w \in Write : ~ Active(w)
<1>1. SUFFICES ASSUME NEW w \in Write, Active(w) PROVE FALSE
  OBVIOUS
<1>2. InProgress = {w}
  BY <1>1 DEF InProgress, WriterInv
<1>3. Cardinality(InProgress) = 1
  BY <1>2, FS_Singleton
<1> QED
  BY <1>3

LEMMA StartWriteStep ==
  ASSUME RepoTypes, WriterInv, Overlap \in Nat, Overlap <= 1,
         NEW w \in Write, NEW td \in TrustDomain, NEW op \in {"post", "put", "delete"},
         StartWrite(w, op, td)
  PROVE  RepoTypes' /\ WriterInv'
<1> DEFINE next == IF op = "delete" THEN "header" ELSE "lookup"
           n == [handler[w] EXCEPT !.pc = next, !.op = op, !.td = td]
<1>1. /\ w \in Request /\ w \notin Read /\ handler[w] \in Goroutine
      /\ handler[w].pc = "idle" /\ handler[w] = Fresh
  BY RequestAssumption DEF StartWrite, At, Request, RepoTypes
<1>2. /\ UNCHANGED <<arrays, storage, up, stream, heard, published>>
      /\ handler' = [handler EXCEPT ![w] = n]
  BY DEF StartWrite, streamVars
<1>3. next \in WritePc \ {"idle", "done"} /\ (op = "delete" => next = "header") /\ (op # "delete" => next = "lookup")
  BY DEF WritePc
<1> HIDE DEF next
<1>4. /\ n \in Goroutine /\ n.pc = next /\ n.op = op /\ n.td = td
      /\ n.slice = handler[w].slice /\ n.found = handler[w].found
  BY <1>1, <1>3 DEF Goroutine
<1> HIDE DEF n
<1>5. /\ handler' \in [Request -> Goroutine] /\ \A k \in Request \ {w} : handler'[k] = handler[k]
      /\ handler'[w] = n
  BY <1>1, <1>2, <1>4, HandlerReplaced DEF RepoTypes
<1>6. \A v \in Write : ~ Active(v)
  BY NoneInProgress DEF StartWrite
<1>7. Stored(published) /\ Stored(published)'
  BY <1>2, <1>6 DEF WriterInv, Stored, Contents
<1>8. \A v \in Write : v # w => handler'[v] = handler[v] /\ ~ Active(v)'
  BY <1>5, <1>6 DEF Active, Request
<1>9. Begun(w)'
  <2>1. handler[w].found = FALSE
    BY <1>1 DEF Fresh
  <2>3. published' = published /\ handler'[w].td = td /\ handler'[w].op = op /\ handler'[w].pc = next
        /\ ~ handler'[w].found /\ (Removes(w)' <=> op = "delete")
    BY <1>2, <1>4, <1>5, <2>1 DEF Removes
  <2> QED
    BY <1>3, <1>7, <2>3 DEF Begun
<1>10. Writing(w)' /\ Active(w)'
  BY <1>3, <1>4, <1>5, <1>9 DEF Writing, Active
<1>11. WriterInv'
  <2>3. \A v, u \in Write : Active(v)' /\ Active(u)' => v = u
    BY <1>8
  <2>4. \A v \in Write : Active(v)' => Writing(v)'
    BY <1>8, <1>10
  <2> QED
    BY <1>2, <1>7, <2>3, <2>4 DEF WriterInv
<1>12. audit' \in [Read -> Audit]
  <2>1. ASSUME NEW r \in Read
        PROVE  (IF ~ Active(r) THEN audit[r]
                ELSE IF op = "delete" THEN [audit[r] EXCEPT !.kept = @ \ {td}, !.disturbed = TRUE]
                ELSE [audit[r] EXCEPT !.valid = @ \cup {<<w, td>>}]) \in Audit
    <3>1. audit[r] \in Audit
      BY DEF RepoTypes
    <3>2. [audit[r] EXCEPT !.kept = @ \ {td}, !.disturbed = TRUE] \in Audit
      BY <3>1 DEF Audit
    <3>3. [audit[r] EXCEPT !.valid = @ \cup {<<w, td>>}] \in Audit
      BY <3>1 DEF Audit
    <3> QED
      BY <3>1, <3>2, <3>3
  <2> QED
    BY <2>1 DEF StartWrite, Overlapped
<1>13. Within(arrays, handler'[w].slice)
  BY <1>1, <1>4, <1>5 DEF RepoTypes
<1>14. RepoTypes'
  BY <1>1, <1>2, <1>3, <1>4, <1>5, <1>12, <1>13, GoroutineMovesAlone DEF RepoTypes
<1> QED
  BY <1>11, <1>14

\* Nothing that the write in progress depends on changes.
LEMMA WriterUndisturbed ==
  ASSUME RepoTypes, WriterInv, UNCHANGED <<arrays, storage, published>>,
         \A w \in Write : handler'[w] = handler[w]
  PROVE  WriterInv'
<1>1. ASSUME NEW w \in Write
      PROVE  (Active(w)' <=> Active(w)) /\ (Writing(w)' <=> Writing(w))
  <2>1. handler'[w] = handler[w] /\ arrays' = arrays /\ storage' = storage /\ published' = published
    OBVIOUS
  <2>2. /\ Contents' = Contents /\ After(w)' = After(w) /\ (Removes(w)' <=> Removes(w))
        /\ Members' = Members /\ (Adds(w)' <=> Adds(w)) /\ (Changes(w)' <=> Changes(w))
        /\ (Finds(w, handler[w].i)' <=> Finds(w, handler[w].i))
    BY <2>1, AfterFrame DEF Contents, Finds
  <2>3. /\ Stored(published)' <=> Stored(published)
        /\ Stored(After(w))' <=> Stored(After(w))
        /\ StillPublished' <=> StillPublished
    BY <2>1, <2>2 DEF Stored, StillPublished
  <2>4. (Begun(w)' <=> Begun(w)) /\ (Searching(w)' <=> Searching(w))
    BY <2>1, <2>2, <2>3 DEF Begun, Searching, NameAt
  <2>5. (Overwriting(w)' <=> Overwriting(w)) /\ (Appending(w)' <=> Appending(w))
    BY <2>1, <2>2, <2>3 DEF Overwriting, Appending, NameAt
  <2>6. (Filling(w)' <=> Filling(w)) /\ (Broadcasting(w)' <=> Broadcasting(w))
    BY <2>1, <2>2, <2>3 DEF Filling, Broadcasting, NameAt, BundleAt
  <2>7. (Shifting(w)' <=> Shifting(w)) /\ (Shifted(w)' <=> Shifted(w))
    BY <2>1, <2>2, <2>3 DEF Shifting, Shifted, BundleAt
  <2> QED
    BY <2>1, <2>4, <2>5, <2>6, <2>7 DEF Writing, Active
<1>2. Stored(published)' <=> Stored(published)
  BY DEF Stored, Contents
<1> QED
  BY <1>1, <1>2 DEF WriterInv

LEMMA StartReadTypes ==
  ASSUME RepoTypes, WriterInv, NEW r \in Read, StartRead(r)
  PROVE  /\ RepoTypes'
         /\ UNCHANGED <<arrays, storage, stream, heard, up, published>>
         /\ handler[r] = Fresh /\ handler'[r].pc = "header" /\ handler'[r].out = << >>
         /\ handler'[r].slice = handler[r].slice /\ handler'[r].op = "get"
         /\ \A k \in Request \ {r} : handler'[k] = handler[k]
         /\ \A q \in Read : q # r => audit'[q] = audit[q]
         /\ audit'[r] =
              [valid |-> Range(published)
                           \cup {<<w, handler[w].td>> : w \in {v \in InProgress : ~ Removes(v)}},
               kept |-> Members \ {handler[w].td : w \in {v \in InProgress : Removes(v)}},
               disturbed |-> \E w \in InProgress : Removes(w)]
<1> DEFINE n == [handler[r] EXCEPT !.pc = "header"]
           V == Range(published)
                  \cup {<<w, handler[w].td>> : w \in {v \in InProgress : ~ Removes(v)}}
           K == Members \ {handler[w].td : w \in {v \in InProgress : Removes(v)}}
           D == \E w \in InProgress : Removes(w)
           a == [valid |-> V, kept |-> K, disturbed |-> D]
<1>1. /\ r \in Request /\ r \notin Write /\ handler[r] \in Goroutine /\ handler[r].op = "get"
      /\ handler[r] = Fresh
  BY RequestAssumption DEF StartRead, At, Request, RepoTypes
<1>2. /\ UNCHANGED <<arrays, storage, up, stream, heard, published>>
      /\ handler' = [handler EXCEPT ![r] = n] /\ audit' = [audit EXCEPT ![r] = a]
  BY DEF StartRead, streamVars, Goto
<1>3. "header" \in WritePc \cup ReadPc /\ "header" \in ReadPc
  BY DEF ReadPc
<1>4. /\ n \in Goroutine /\ n.pc = "header" /\ n.op = handler[r].op /\ n.slice = handler[r].slice
      /\ n.out = handler[r].out
  BY <1>1, <1>3, GotoFields
<1> HIDE DEF n
<1>5. /\ handler' \in [Request -> Goroutine] /\ \A k \in Request \ {r} : handler'[k] = handler[k]
      /\ handler'[r] = n
  BY <1>1, <1>2, <1>4, HandlerReplaced DEF RepoTypes
<1>6. V \subseteq Write \X TrustDomain
  <2>1. \A e \in Range(published) : e \in Write \X TrustDomain
    BY PublishedShape
  <2>2. \A w \in InProgress : w \in Write /\ handler[w].td \in TrustDomain
    BY Phases DEF InProgress
  <2> QED
    BY <2>1, <2>2
<1>7. K \subseteq TrustDomain /\ D \in BOOLEAN
  BY PublishedShape
<1>8. a \in Audit
  <2> HIDE DEF V, K, D
  <2> QED
    BY <1>6, <1>7 DEF Audit
<1> HIDE DEF a
<1>9. audit' \in [Read -> Audit] /\ audit'[r] = a /\ \A q \in Read : q # r => audit'[q] = audit[q]
  BY <1>2, <1>8 DEF RepoTypes
<1>10. Within(arrays, handler'[r].slice)
  BY <1>1, <1>4, <1>5 DEF RepoTypes
<1>11. RepoTypes'
  BY <1>1, <1>2, <1>3, <1>4, <1>5, <1>9, <1>10, GoroutineMovesAlone DEF RepoTypes
<1> QED
  BY <1>1, <1>2, <1>4, <1>5, <1>9, <1>11 DEF Fresh, a

LEMMA GetHeaderTypes ==
  ASSUME RepoTypes, NEW r \in Read, ReadHeader(r)
  PROVE  /\ RepoTypes'
         /\ UNCHANGED <<arrays, storage, stream, heard, up, published, audit>>
         /\ handler[r].pc = "header" /\ handler'[r].pc = "encode" /\ handler'[r].slice = storage
         /\ handler'[r].c = 1 /\ handler'[r].out = handler[r].out
         /\ \A k \in Request \ {r} : handler'[k] = handler[k]
<1> DEFINE n == [handler[r] EXCEPT !.slice = storage, !.i = 1, !.c = 1, !.pc = "encode"]
<1>1. /\ r \in Request /\ r \notin Write /\ handler[r] \in Goroutine /\ handler[r].op = "get"
      /\ storage \in Bounds /\ Within(arrays, storage) /\ handler[r].pc = "header"
  BY RequestAssumption DEF ReadHeader, At, Request, RepoTypes
<1>2. /\ UNCHANGED <<arrays, storage, up, stream, heard, published, audit>>
      /\ handler' = [handler EXCEPT ![r] = n]
  <2>1. (CASE handler[r].op = "post" -> "append" [] handler[r].op = "get" -> "encode"
           [] OTHER -> "scan") = "encode"
    BY <1>1
  <2> QED
    BY <1>1, <2>1 DEF ReadHeader, streamVars
<1>3. "encode" \in WritePc \cup ReadPc /\ "encode" \in ReadPc
  BY DEF ReadPc
<1>4. /\ n \in Goroutine /\ n.pc = "encode" /\ n.slice = storage /\ n.c = 1
      /\ n.op = handler[r].op /\ n.out = handler[r].out
  BY <1>1, <1>3 DEF Goroutine
<1> HIDE DEF n
<1>5. /\ handler' \in [Request -> Goroutine] /\ \A k \in Request \ {r} : handler'[k] = handler[k]
      /\ handler'[r] = n
  BY <1>1, <1>2, <1>4, HandlerReplaced DEF RepoTypes
<1>6. RepoTypes'
  BY <1>1, <1>2, <1>3, <1>4, <1>5, GoroutineMovesAlone DEF RepoTypes
<1> QED
  BY <1>1, <1>2, <1>4, <1>5, <1>6

\* A cell is encoded, or the answer is complete.
LEMMA EncodeCellTypes ==
  ASSUME RepoTypes, NEW r \in Read, EncodeCell(r)
  PROVE  /\ RepoTypes'
         /\ UNCHANGED <<arrays, storage, stream, heard, up, published, audit>>
         /\ handler[r].pc = "encode" /\ handler[r].c \in Nat
         /\ \A k \in Request \ {r} : handler'[k] = handler[k]
         /\ \/ /\ handler[r].c <= 2 * handler[r].slice.len
               /\ handler'[r].pc = "encode" /\ handler'[r].slice = handler[r].slice
               /\ handler'[r].c = handler[r].c + 1
               /\ handler'[r].out = Append(handler[r].out, arrays[handler[r].slice.array][handler[r].c])
            \/ /\ handler[r].c > 2 * handler[r].slice.len
               /\ handler'[r].pc = "done" /\ handler'[r].out = handler[r].out
               /\ handler'[r].slice = NoSlice
<1> DEFINE s == handler[r].slice
           c == handler[r].c
<1>1. /\ r \in Request /\ r \notin Write /\ handler[r] \in Goroutine /\ handler[r].op = "get"
      /\ handler[r].pc = "encode" /\ c >= 1 /\ Within(arrays, s) /\ c \in Nat
      /\ s \in Bounds /\ handler[r].out \in Seq(Cell)
  <2>1. r \in Request /\ r \notin Write /\ handler[r].pc = "encode"
    BY RequestAssumption DEF EncodeCell, At, Request
  <2>2. /\ handler[r] \in Goroutine /\ handler[r].op = "get" /\ c >= 1 /\ Within(arrays, s)
    BY <2>1 DEF RepoTypes
  <2> QED
    BY <2>1, <2>2 DEF Goroutine
<1>2. UNCHANGED <<arrays, storage, up, stream, heard, published, audit>>
  BY DEF EncodeCell, streamVars
<1>3. "encode" \in WritePc \cup ReadPc /\ {"encode", "done"} \subseteq ReadPc
  BY DEF ReadPc
<1>4. CASE c <= 2 * s.len
  <2> DEFINE v == arrays[s.array][c]
             o == Append(handler[r].out, v)
             d == c + 1
             n == [handler[r] EXCEPT !.out = o, !.c = d]
  <2>1. handler' = [handler EXCEPT ![r] = n]
    BY <1>4 DEF EncodeCell
  <2>2. v \in Cell
    <3>1. s.array # 0 /\ s.array \in Nat /\ s.len \in Nat
      BY <1>1, <1>4 DEF Bounds, Within
    <3>2. s.array \in 1..Len(arrays) /\ 2 * s.len <= Len(arrays[s.array])
      BY <1>1, <3>1, HeapShape DEF Within
    <3>3. Len(arrays[s.array]) \in Nat
      BY <3>2, HeapShape
    <3>4. c \in 1..Len(arrays[s.array])
      BY <1>1, <1>4, <3>1, <3>2, <3>3
    <3> QED
      BY <3>2, <3>4, HeapShape
  <2>3. o \in Seq(Cell) /\ d \in Nat /\ d >= 1 /\ d = c + 1
    BY <1>1, <2>2, AppendProperties
  <2> HIDE DEF o, d
  <2>4. /\ n \in Goroutine /\ n.pc = "encode" /\ n.slice = s /\ n.c = d /\ n.op = "get"
        /\ n.out = o
    BY <1>1, <1>3, <2>3 DEF Goroutine
  <2> HIDE DEF n
  <2>5. /\ handler' \in [Request -> Goroutine] /\ \A k \in Request \ {r} : handler'[k] = handler[k]
        /\ handler'[r] = n
    BY <1>1, <2>1, <2>4, HandlerReplaced DEF RepoTypes
  <2>6. RepoTypes'
    BY <1>1, <1>2, <1>3, <2>3, <2>4, <2>5, GoroutineMovesAlone DEF RepoTypes
  <2> QED
    BY <1>1, <1>2, <1>4, <2>3, <2>4, <2>5, <2>6 DEF o
<1>5. CASE ~ (c <= 2 * s.len)
  <2> DEFINE n == [handler[r] EXCEPT !.pc = "done", !.slice = NoSlice, !.i = 0, !.c = 0,
                                     !.found = FALSE, !.status = "ok"]
  <2>1. handler' = [handler EXCEPT ![r] = n]
    BY <1>5 DEF EncodeCell, Answer
  <2>2. /\ n \in Goroutine /\ n.pc = "done" /\ n.slice = NoSlice /\ n.op = handler[r].op
        /\ n.out = handler[r].out
    BY <1>1, AnswerFields
  <2> HIDE DEF n
  <2>3. /\ handler' \in [Request -> Goroutine] /\ \A k \in Request \ {r} : handler'[k] = handler[k]
        /\ handler'[r] = n
    BY <1>1, <2>1, <2>2, HandlerReplaced DEF RepoTypes
  <2>4. Within(arrays, handler'[r].slice)
    BY <2>2, <2>3, HeapShape DEF Within, NoSlice
  <2>5. RepoTypes'
    BY <1>1, <1>2, <1>3, <2>2, <2>3, <2>4, GoroutineMovesAlone DEF RepoTypes
  <2>6. c > 2 * s.len
    BY <1>1, <1>5 DEF Bounds
  <2> QED
    BY <1>1, <1>2, <2>2, <2>3, <2>5, <2>6
<1> QED
  BY <1>4, <1>5

\* What subscribers do, and the runtime stopping the process, touches no request.
LEMMA OtherSteps ==
  ASSUME RepoTypes, WriterInv,
         \/ ConcurrentMapFatal
         \/ \E s \in Subscriber : Subscribe(s) \/ WaitForEvent(s) \/ Unsubscribe(s)
         \/ UNCHANGED vars
  PROVE  /\ RepoTypes' /\ WriterInv'
         /\ UNCHANGED <<arrays, storage, handler, heard, published, audit>>
<1>1. UNCHANGED <<arrays, storage, handler, heard, published, audit>>
  BY DEF ConcurrentMapFatal, Subscribe, WaitForEvent, Unsubscribe, vars, serverVars, streamVars
<1>2. stream' \in [Subscriber -> {"away", "busy", "waiting", "gone"}] /\ up' \in BOOLEAN
  <2>1. CASE ConcurrentMapFatal
    BY <2>1 DEF ConcurrentMapFatal, streamVars, RepoTypes
  <2>2. CASE \E s \in Subscriber : Subscribe(s) \/ WaitForEvent(s) \/ Unsubscribe(s)
    BY <2>2 DEF Subscribe, WaitForEvent, Unsubscribe, serverVars, RepoTypes
  <2>3. CASE UNCHANGED vars
    BY <2>3 DEF vars, serverVars, streamVars, RepoTypes
  <2> QED
    BY <2>1, <2>2, <2>3
<1>3. RepoTypes'
  BY <1>1, <1>2 DEF RepoTypes
<1> QED
  BY <1>1, <1>3, WriterUndisturbed

\* The part of the invariant that no read matters to is inductive.
LEMMA WriterStep ==
  ASSUME RepoTypes, WriterInv, Overlap \in Nat, Overlap <= 1, [Next]_vars
  PROVE  RepoTypes' /\ WriterInv'
<1>1. ASSUME NEW w \in Write, NEW td \in TrustDomain, NEW op \in {"post", "put", "delete"},
             StartWrite(w, op, td)
      PROVE  RepoTypes' /\ WriterInv'
  BY <1>1, StartWriteStep
<1>2. ASSUME NEW r \in Read, StartRead(r) \/ ReadHeader(r) \/ EncodeCell(r)
      PROVE  RepoTypes' /\ WriterInv'
  <2>1. /\ RepoTypes' /\ UNCHANGED <<arrays, storage, published>>
        /\ \A k \in Request \ {r} : handler'[k] = handler[k]
    BY <1>2, StartReadTypes, GetHeaderTypes, EncodeCellTypes
  <2>2. \A w \in Write : handler'[w] = handler[w]
    BY <2>1, RequestAssumption DEF Request
  <2> QED
    BY <2>1, <2>2, WriterUndisturbed
<1>3. ASSUME NEW w \in Write, Handle(w) PROVE RepoTypes' /\ WriterInv'
  <2>1. w \notin Read
    BY RequestAssumption
  <2> QED
    BY <1>3, <2>1, ReadHeaderStep, LookupStep, StoreEmptyStep, ScanNextStep, ScanFindsStep, ScanEndsStep,
       LocateStep, AppendSlotStep, WriteCellStep, ShiftCellStep, StoreHeaderStep, BroadcastStep
       DEF Handle
<1>4. ASSUME NEW r \in Read, Handle(r) PROVE RepoTypes' /\ WriterInv'
  <2>1. r \notin Write
    BY RequestAssumption
  <2> QED
    BY <1>2, <1>4, <2>1 DEF Handle
<1>5. CASE \/ ConcurrentMapFatal
           \/ \E s \in Subscriber : Subscribe(s) \/ WaitForEvent(s) \/ Unsubscribe(s)
           \/ UNCHANGED vars
  BY <1>5, OtherSteps
<1> QED
  BY <1>1, <1>2, <1>3, <1>4, <1>5 DEF Next, Request

LEMMA InitTypes ==
  ASSUME Init
  PROVE  RepoTypes /\ WriterInv
<1>1. arrays = << << >> >> /\ Len(arrays) = 1 /\ Len(arrays[1]) = 0 /\ arrays \in Seq(Seq(Cell))
  <2>1. << >> \in Seq(Cell)
    OBVIOUS
  <2> QED
    BY <2>1 DEF Init
<1>2. Paired(arrays)
  <2>1. \A k \in 1..Len(arrays) : Len(arrays[k]) = 2 * 0
    BY <1>1
  <2> QED
    BY <1>1, <2>1 DEF Paired
<1>3. Fresh \in Goroutine /\ Fresh.pc = "idle" /\ Fresh.op = "get" /\ Fresh.slice = NoSlice
  <2>1. << >> \in Seq(Cell) /\ NoSlice \in Bounds
    BY DEF NoSlice, Bounds
  <2> QED
    BY <2>1 DEF Fresh, Goroutine, WritePc
<1>4. Within(arrays, NoSlice)
  BY <1>1 DEF Within, NoSlice
<1>5. storage = NoSlice /\ storage \in Bounds /\ storage.len = 0 /\ up \in BOOLEAN
  BY DEF Init, NoSlice, Bounds
<1>6. \A h \in Request : handler[h] = Fresh
  BY DEF Init
<1>7. handler \in [Request -> Goroutine]
  BY <1>3 DEF Init
<1>8. audit \in [Read -> Audit]
  BY DEF Init, Audit
<1>9. /\ stream \in [Subscriber -> {"away", "busy", "waiting", "gone"}]
      /\ heard \in [Subscriber -> SUBSET Write]
      /\ published \in Entries
      /\ published = << >> /\ Len(published) = 0
  BY DEF Init, Entries
<1>10. "idle" \in WritePc /\ "idle" \in ReadPc /\ "idle" # "encode"
  BY DEF WritePc, ReadPc
<1>11. RepoTypes
  <2>1. \A h \in Request : Within(arrays, handler[h].slice)
    BY <1>3, <1>4, <1>6
  <2> QED
    BY <1>2, <1>3, <1>4, <1>5, <1>6, <1>7, <1>8, <1>9, <1>10, <2>1 DEF RepoTypes, Request
<1>12. Stored(published)
  <2>1. 1..Len(published) = {}
    BY <1>9
  <2> QED
    BY <1>5, <1>9, <2>1 DEF Stored, Lists
<1>13. \A w \in Write : ~ Active(w)
  BY <1>3, <1>6 DEF Active, Request
<1> QED
  BY <1>11, <1>12, <1>13 DEF WriterInv

-----------------------------------------------------------------------------
(* What the slice holds                                                    *)

\* What the slots list is what the slice holds, entry by entry.
LEMMA ListedEntries ==
  ASSUME RepoTypes, NEW P \in Entries, Stored(P)
  PROVE  Slots(storage) = P
<1>1. /\ storage.len = Len(P) /\ Len(P) \in Nat
      /\ \A j \in 1..Len(P) : Contents[2 * j - 1] = P[j][1] /\ Contents[2 * j] = P[j][2]
  BY LenProperties DEF Stored, Lists, BundleAt, NameAt, Entries
<1>2. \A j \in 1..Len(P) : P[j] \in Write \X TrustDomain /\ P[j] = <<P[j][1], P[j][2]>>
  BY ElementOfSeq DEF Entries
<1>3. Slots(storage) = [j \in 1..Len(P) |-> P[j]]
  BY <1>1, <1>2 DEF Slots, Contents
<1>4. P = [j \in 1..Len(P) |-> P[j]]
  BY LenProperties DEF Entries
<1> QED
  BY <1>3, <1>4

\* While no write is in progress, the slice is, entry by entry, what the
\* answered requests left.
THEOREM SliceMatchesAnswers ==
  ASSUME Overlap \in Nat, Overlap <= 1
  PROVE  Spec => []StoresWhatItAnswered
<1>1. Init => RepoTypes /\ WriterInv
  BY InitTypes
<1>2. (RepoTypes /\ WriterInv) /\ [Next]_vars => (RepoTypes /\ WriterInv)'
  BY WriterStep
<1>3. RepoTypes /\ WriterInv => StoresWhatItAnswered
  <2>1. SUFFICES ASSUME RepoTypes, WriterInv, InProgress = {}
                 PROVE  Slots(storage) = published
    BY DEF StoresWhatItAnswered
  <2>2. Stored(published)
    BY <2>1 DEF WriterInv, InProgress
  <2> QED
    BY <2>1, <2>2, ListedEntries DEF RepoTypes
<1> QED
  BY <1>1, <1>2, <1>3, PTL DEF Spec

\* At the moment a subscriber is sent an event, the slice is what the answered
\* requests and the announced one leave.
THEOREM EventsFollowChanges ==
  ASSUME Overlap \in Nat, Overlap <= 1
  PROVE  Spec => HeardIsVisible
<1> DEFINE Step == heard' # heard => Slots(storage) = published'
<1>1. Init => RepoTypes /\ WriterInv
  BY InitTypes
<1>2. (RepoTypes /\ WriterInv) /\ [Next]_vars => (RepoTypes /\ WriterInv)'
  BY WriterStep
<1>3. ASSUME RepoTypes, WriterInv, NEW w \in Write, Broadcast(w) PROVE Slots(storage) = published'
  <2>1. Active(w) /\ handler[w].pc = "broadcast"
    BY <1>3 DEF Broadcast, At, Active
  <2>2. handler[w].td \in TrustDomain /\ Stored(After(w)) /\ Changes(w)
    BY <1>3, <2>1, Phases DEF Broadcasting
  <2>3. After(w) \in Entries
    BY <1>3, <2>2, AfterFacts
  <2> QED
    BY <1>3, <2>2, <2>3, ListedEntries DEF Broadcast
<1>4. RepoTypes /\ WriterInv /\ [Next]_vars => [Step]_vars
  <2>1. SUFFICES ASSUME RepoTypes, WriterInv, Next PROVE Step
    OBVIOUS
  <2>2. ASSUME NEW v \in Write, Broadcast(v) PROVE Step
    BY <1>3, <2>1, <2>2
  <2>3. ASSUME UNCHANGED heard PROVE Step
    BY <2>3
  <2>4. (\E v \in Write : Broadcast(v)) \/ UNCHANGED heard
    <3>1. ASSUME NEW w \in Write, NEW td \in TrustDomain, NEW op \in {"post", "put", "delete"},
                 StartWrite(w, op, td)
          PROVE  UNCHANGED heard
      BY <3>1 DEF StartWrite, streamVars
    <3>2. ASSUME NEW r \in Read, StartRead(r) PROVE UNCHANGED heard
      BY <3>2 DEF StartRead, streamVars
    <3>3. ASSUME NEW h \in Request, Handle(h) PROVE (\E v \in Write : Broadcast(v)) \/ UNCHANGED heard
      BY <3>3 DEF Handle, ReadHeader, EncodeCell, Lookup, StoreEmpty, ScanNext, ScanFinds, ScanEnds, Locate,
         AppendSlot, WriteCell, ShiftCell, StoreHeader, streamVars
    <3>4. CASE ConcurrentMapFatal
      BY <3>4 DEF ConcurrentMapFatal, streamVars
    <3>5. CASE \E s \in Subscriber : Subscribe(s) \/ WaitForEvent(s) \/ Unsubscribe(s)
      BY <3>5 DEF Subscribe, WaitForEvent, Unsubscribe
    <3> QED
      BY <2>1, <3>1, <3>2, <3>3, <3>4, <3>5 DEF Next
  <2> QED
    BY <2>2, <2>3, <2>4
<1> QED
  BY <1>1, <1>2, <1>4, PTL DEF Spec, HeardIsVisible

-----------------------------------------------------------------------------
(* Reads                                                                   *)

\* A step of the write in progress keeps V complete.
LEMMA WitnessedKept ==
  ASSUME RepoTypes, WriterInv, NEW r \in Read, Witnessed(r), UNCHANGED audit,
         handler'[r] = handler[r], NEW w \in Write, Active(w),
         \A v \in Write \ {w} : handler'[v] = handler[v],
         handler'[w].td = handler[w].td, handler'[w].op = handler[w].op,
         published' = published \/ (published' = After(w) /\ Changes(w))
  PROVE  Witnessed(r)'
<1> DEFINE V == audit[r].valid
<1>1. SUFFICES ASSUME Active(r)
               PROVE  /\ Range(published') \subseteq V
                      /\ \A v \in Write : Active(v)' /\ ~ Removes(v)' => <<v, handler'[v].td>> \in V
                      /\ ~ audit[r].disturbed => /\ \A v \in Write : Active(v)' => ~ Removes(v)'
                                                 /\ audit[r].kept \subseteq Members'
  BY DEF Witnessed, Active
<1>2. /\ Range(published) \subseteq V
      /\ \A v \in Write : Active(v) /\ ~ Removes(v) => <<v, handler[v].td>> \in V
      /\ ~ audit[r].disturbed => /\ \A v \in Write : Active(v) => ~ Removes(v)
                                 /\ audit[r].kept \subseteq Members
  BY <1>1 DEF Witnessed
<1>3. \A v \in Write : v # w => ~ Active(v) /\ ~ Active(v)'
  BY DEF WriterInv, Active
<1>4. handler[w].td \in TrustDomain /\ (Removes(w)' <=> Removes(w))
  BY Phases DEF Removes
<1>5. published' = After(w) /\ Changes(w) =>
        /\ \A e \in Range(published') : e \in Range(published) \/ (~ Removes(w) /\ e = <<w, handler[w].td>>)
        /\ ~ Removes(w) => \A t \in Members : t \in Members'
  <2>1. ASSUME published' = After(w), Changes(w)
        PROVE  /\ published' \in Entries
               /\ \A e \in Range(published') : e \in Range(published) \/ (~ Removes(w) /\ e = <<w, handler[w].td>>)
               /\ ~ Removes(w) => \A t \in Members : \E j \in 1..Len(published') : published'[j][2] = t
    BY <1>4, <2>1, AfterFacts
  <2>2. ASSUME published' \in Entries, NEW j \in 1..Len(published') PROVE published'[j][2] \in Members'
    <3>1. published'[j] \in Range(published')
      BY <2>2, LenProperties DEF Range, Entries
    <3> QED
      BY <3>1 DEF Members
  <2> QED
    BY <2>1, <2>2
<1>6. Range(published') \subseteq V
  BY <1>2, <1>5
<1>7. \A v \in Write : Active(v)' /\ ~ Removes(v)' => <<v, handler'[v].td>> \in V
  BY <1>2, <1>3, <1>4
<1>8. ASSUME ~ audit[r].disturbed
      PROVE  (\A v \in Write : Active(v)' => ~ Removes(v)') /\ audit[r].kept \subseteq Members'
  <2>1. ~ Removes(w) /\ audit[r].kept \subseteq Members
    BY <1>2, <1>8
  <2>2. Members \subseteq Members'
    BY <1>5, <2>1 DEF Members
  <2> QED
    BY <1>3, <1>4, <2>1, <2>2
<1> QED
  BY <1>6, <1>7, <1>8

\* What was read stays: V only grows, kept shrinks, and nothing undoes a
\* disturbance.
LEMMA ReadSoFarKept ==
  ASSUME NEW r \in Read, ReadSoFar(r), handler'[r] = handler[r],
         audit[r].valid \subseteq audit'[r].valid, audit'[r].kept \subseteq audit[r].kept,
         audit[r].disturbed => audit'[r].disturbed
  PROVE  ReadSoFar(r)'
<1> DEFINE out == handler[r].out
<1>1. \A v : /\ BundleOf(audit[r].valid, v) => BundleOf(audit'[r].valid, v)
             /\ NameOf(audit[r].valid, v) => NameOf(audit'[r].valid, v)
  BY DEF BundleOf, NameOf
<1>2. handler'[r].pc \in {"idle", "header"} => out = << >>
  BY DEF ReadSoFar
<1>3. \A i \in Nat \ {0} : /\ 2 * i - 1 <= Len(out) => BundleOf(audit'[r].valid, BundleAt(out, i))
                           /\ 2 * i <= Len(out) => NameOf(audit'[r].valid, NameAt(out, i))
  BY <1>1 DEF ReadSoFar
<1>4. handler'[r].pc = "done" => \E n \in Nat : Len(out) = 2 * n
  BY DEF ReadSoFar
<1>5. handler'[r].pc = "done" /\ ~ audit'[r].disturbed =>
        /\ \A i \in Nat \ {0} : 2 * i <= Len(out) => <<BundleAt(out, i), NameAt(out, i)>> \in audit'[r].valid
        /\ \A td \in audit'[r].kept : \E i \in Nat \ {0} : 2 * i <= Len(out) /\ NameAt(out, i) = td
  BY DEF ReadSoFar
<1>6. handler'[r].out = out
  OBVIOUS
<1> HIDE DEF out
<1> QED
  BY <1>2, <1>3, <1>4, <1>5, <1>6 DEF ReadSoFar, BundleAt, NameAt

\* The slots a read walks may change under it, to what was current too; their
\* names only when a deletion overlaps.
LEMMA WalkingKept ==
  ASSUME NEW r \in Read, Walking(r), handler'[r] = handler[r],
         audit[r].valid \subseteq audit'[r].valid, audit'[r].kept \subseteq audit[r].kept,
         audit[r].disturbed => audit'[r].disturbed,
         NEW A, A = arrays[handler[r].slice.array], NEW B, B = arrays'[handler[r].slice.array],
         NEW V, V = audit'[r].valid, NEW k, k = handler[r].slice.len,
         handler[r].pc = "encode" =>
           \A i \in 1..k :
             /\ BundleAt(B, i) = BundleAt(A, i) \/ BundleOf(V, BundleAt(B, i))
             /\ NameAt(B, i) = NameAt(A, i) \/ NameOf(V, NameAt(B, i))
             /\ ~ audit'[r].disturbed =>
                  /\ NameAt(B, i) = NameAt(A, i)
                  /\ BundleAt(B, i) = BundleAt(A, i) \/ <<BundleAt(B, i), NameAt(A, i)>> \in V,
         handler[r].pc = "encode" /\ ~ audit'[r].disturbed =>
           /\ handler[r].slice.array = storage'.array => k <= storage'.len
           /\ \A w \in Write : handler'[w].pc \in {"write", "store"}
                                 /\ handler'[w].slice.array = handler[r].slice.array => k <= storage'.len
  PROVE  Walking(r)'
<1> DEFINE out == handler[r].out
           s == handler[r].slice
<1>1. SUFFICES ASSUME handler[r].pc = "encode"
               PROVE  /\ \A i \in 1..k : BundleOf(V, BundleAt(B, i)) /\ NameOf(V, NameAt(B, i))
                      /\ handler[r].c = Len(out) + 1 /\ Len(out) <= 2 * k
                      /\ ~ audit'[r].disturbed =>
                           /\ s.array = storage'.array => k <= storage'.len
                           /\ \A w \in Write : handler'[w].pc \in {"write", "store"} /\ handler'[w].slice.array = s.array
                                                 => k <= storage'.len
                           /\ \A i \in 1..k : <<BundleAt(B, i), NameAt(B, i)>> \in V
                           /\ \A td \in audit'[r].kept : \E i \in 1..k : NameAt(B, i) = td
                           /\ \A i \in 1..k :
                                /\ 2 * i - 1 <= Len(out) => <<BundleAt(out, i), NameAt(B, i)>> \in V
                                /\ 2 * i <= Len(out) => NameAt(out, i) = NameAt(B, i)
  <2>1. handler'[r].out = out /\ handler'[r].slice = s /\ handler'[r].pc = handler[r].pc /\ handler'[r].c = handler[r].c
        /\ arrays'[handler'[r].slice.array] = B /\ handler'[r].slice.len = k /\ audit'[r].valid = V
    OBVIOUS
  <2> HIDE DEF out, s
  <2> QED
    BY SMTT(30), <2>1 DEF Walking, BundleAt, NameAt
<1>2. /\ \A i \in 1..k : BundleOf(audit[r].valid, BundleAt(A, i)) /\ NameOf(audit[r].valid, NameAt(A, i))
      /\ handler[r].c = Len(out) + 1 /\ Len(out) <= 2 * k
  BY <1>1 DEF Walking
<1>3. \A v : /\ BundleOf(audit[r].valid, v) => BundleOf(V, v)
             /\ NameOf(audit[r].valid, v) => NameOf(V, v)
  BY DEF BundleOf, NameOf
<1>4. \A i \in 1..k : BundleOf(V, BundleAt(B, i)) /\ NameOf(V, NameAt(B, i))
  <2>1. TAKE i \in 1..k
  <2>2. BundleOf(V, BundleAt(A, i)) /\ NameOf(V, NameAt(A, i))
    BY <1>2, <1>3
  <2>3. /\ BundleAt(B, i) = BundleAt(A, i) \/ BundleOf(V, BundleAt(B, i))
        /\ NameAt(B, i) = NameAt(A, i) \/ NameOf(V, NameAt(B, i))
    BY <1>1
  <2> QED
    BY <2>2, <2>3
<1>5. ASSUME ~ audit'[r].disturbed
      PROVE  /\ \A i \in 1..k : <<BundleAt(B, i), NameAt(B, i)>> \in V
             /\ \A td \in audit'[r].kept : \E i \in 1..k : NameAt(B, i) = td
             /\ \A i \in 1..k :
                  /\ 2 * i - 1 <= Len(out) => <<BundleAt(out, i), NameAt(B, i)>> \in V
                  /\ 2 * i <= Len(out) => NameAt(out, i) = NameAt(B, i)
  <2>1. \A i \in 1..k : /\ NameAt(B, i) = NameAt(A, i)
                        /\ BundleAt(B, i) = BundleAt(A, i) \/ <<BundleAt(B, i), NameAt(A, i)>> \in V
    BY <1>1, <1>5
  <2>2. /\ \A i \in 1..k : <<BundleAt(A, i), NameAt(A, i)>> \in V
        /\ \A td \in audit'[r].kept : \E i \in 1..k : NameAt(A, i) = td
        /\ \A i \in 1..k :
             /\ 2 * i - 1 <= Len(out) => <<BundleAt(out, i), NameAt(A, i)>> \in V
             /\ 2 * i <= Len(out) => NameAt(out, i) = NameAt(A, i)
    BY <1>1, <1>5 DEF Walking
  <2>3. \A i \in 1..k : <<BundleAt(B, i), NameAt(B, i)>> \in V
    BY <2>1, <2>2
  <2>4. ASSUME NEW td \in audit'[r].kept PROVE \E i \in 1..k : NameAt(B, i) = td
    <3>1. PICK i \in 1..k : NameAt(A, i) = td
      BY <2>2
    <3> QED
      BY <2>1, <3>1
  <2> HIDE DEF out
  <2>5. ASSUME NEW i \in 1..k
        PROVE  /\ 2 * i - 1 <= Len(out) => <<BundleAt(out, i), NameAt(B, i)>> \in V
               /\ 2 * i <= Len(out) => NameAt(out, i) = NameAt(B, i)
    <3>1. NameAt(B, i) = NameAt(A, i)
      BY <2>1
    <3> QED
      BY <2>2, <3>1
  <2> QED
    BY <2>3, <2>4, <2>5
<1> QED
  BY <1>1, <1>2, <1>4, <1>5

\* What the slots of the stored slice hold was current, and in pairs if no
\* deletion is in progress: a read may start to walk them now.
LEMMA SlotsWitnessed ==
  ASSUME RepoTypes, WriterInv, NEW r \in Read, Witnessed(r), Active(r),
         NEW V, V = audit[r].valid
  PROVE  /\ \A i \in 1..storage.len : BundleOf(V, BundleAt(Contents, i)) /\ NameOf(V, NameAt(Contents, i))
         /\ ~ audit[r].disturbed =>
              /\ \A i \in 1..storage.len : <<BundleAt(Contents, i), NameAt(Contents, i)>> \in V
              /\ \A td \in audit[r].kept : \E i \in 1..storage.len : NameAt(Contents, i) = td
<1>1. /\ Range(published) \subseteq V
      /\ \A w \in Write : Active(w) /\ ~ Removes(w) => <<w, handler[w].td>> \in V
      /\ ~ audit[r].disturbed => /\ \A w \in Write : Active(w) => ~ Removes(w)
                                 /\ audit[r].kept \subseteq Members
  BY DEF Witnessed
<1>2. ASSUME NEW P \in Entries, Stored(P), Range(P) \subseteq V,
             ~ audit[r].disturbed => \A t \in Members : \E j \in 1..Len(P) : P[j][2] = t
      PROVE  /\ \A i \in 1..storage.len : /\ <<BundleAt(Contents, i), NameAt(Contents, i)>> \in V
                                          /\ BundleOf(V, BundleAt(Contents, i))
                                          /\ NameOf(V, NameAt(Contents, i))
             /\ ~ audit[r].disturbed =>
                  \A td \in audit[r].kept : \E i \in 1..storage.len : NameAt(Contents, i) = td
  <2>1. ASSUME NEW i \in 1..storage.len
        PROVE  /\ <<BundleAt(Contents, i), NameAt(Contents, i)>> \in V
               /\ BundleOf(V, BundleAt(Contents, i)) /\ NameOf(V, NameAt(Contents, i))
    <3>1. <<BundleAt(Contents, i), NameAt(Contents, i)>> \in V
      <4>1. /\ i \in 1..Len(P) /\ P[i] \in Write \X TrustDomain /\ P[i] \in Range(P)
            /\ BundleAt(Contents, i) = P[i][1] /\ NameAt(Contents, i) = P[i][2]
        BY <1>2, LenProperties, ElementOfSeq DEF Stored, Lists, Range, Entries
      <4>2. P[i] = <<BundleAt(Contents, i), NameAt(Contents, i)>>
        BY <4>1
      <4> QED
        BY <1>2, <4>1, <4>2
    <3>2. PICK e \in V : e = <<BundleAt(Contents, i), NameAt(Contents, i)>>
      BY <3>1
    <3>3. e[1] = BundleAt(Contents, i) /\ e[2] = NameAt(Contents, i)
      BY <3>2
    <3> QED
      BY <3>1, <3>2, <3>3 DEF BundleOf, NameOf
  <2>2. ASSUME ~ audit[r].disturbed, NEW td \in audit[r].kept
        PROVE  \E i \in 1..storage.len : NameAt(Contents, i) = td
    <3>1. td \in Members
      BY <1>1, <2>2
    <3>2. PICK j \in 1..Len(P) : P[j][2] = td
      BY <1>2, <2>2, <3>1
    <3> QED
      BY <1>2, <3>2 DEF Stored, Lists
  <2> QED
    BY <2>1, <2>2
<1>3. CASE Stored(published)
  <2>1. \A t \in Members : \E j \in 1..Len(published) : published[j][2] = t
    BY PublishedShape
  <2> QED
    BY <1>1, <1>2, <1>3, <2>1, PublishedShape
<1>4. ASSUME NEW w \in Write, Active(w), Changes(w), Stored(After(w))
      PROVE  /\ \A i \in 1..storage.len : /\ <<BundleAt(Contents, i), NameAt(Contents, i)>> \in V
                                          /\ BundleOf(V, BundleAt(Contents, i))
                                          /\ NameOf(V, NameAt(Contents, i))
             /\ ~ audit[r].disturbed =>
                  \A td \in audit[r].kept : \E i \in 1..storage.len : NameAt(Contents, i) = td
  <2>1. handler[w].td \in TrustDomain
    BY <1>4, Phases
  <2>2. /\ After(w) \in Entries
        /\ \A e \in Range(After(w)) : e \in Range(published) \/ (~ Removes(w) /\ e = <<w, handler[w].td>>)
        /\ ~ Removes(w) => \A t \in Members : \E j \in 1..Len(After(w)) : After(w)[j][2] = t
    BY <1>4, <2>1, AfterFacts
  <2>3. Range(After(w)) \subseteq V
    BY <1>1, <1>4, <2>2
  <2>4. ~ audit[r].disturbed => ~ Removes(w)
    BY <1>1, <1>4
  <2> QED
    BY <1>2, <1>4, <2>2, <2>3, <2>4
<1>5. ASSUME NEW w \in Write, Active(w), Removes(w), StillPublished
      PROVE  /\ \A i \in 1..storage.len : BundleOf(V, BundleAt(Contents, i)) /\ NameOf(V, NameAt(Contents, i))
             /\ audit[r].disturbed
  <2>1. ASSUME NEW i \in 1..storage.len
        PROVE  BundleOf(V, BundleAt(Contents, i)) /\ NameOf(V, NameAt(Contents, i))
    <3>1. PICK e \in Range(published) : BundleAt(Contents, i) = e[1]
      BY <1>5 DEF StillPublished
    <3>2. PICK f \in Range(published) : NameAt(Contents, i) = f[2]
      BY <1>5 DEF StillPublished, Members
    <3> QED
      BY <1>1, <3>1, <3>2 DEF BundleOf, NameOf
  <2> QED
    BY <1>1, <1>5, <2>1
<1>6. CASE \A w \in Write : ~ Active(w)
  BY <1>3, <1>6 DEF WriterInv
<1>7. ASSUME NEW w \in Write, Active(w)
      PROVE  Stored(published) \/ (Changes(w) /\ Stored(After(w))) \/ (Removes(w) /\ StillPublished)
  <2>1. Writing(w)
    BY <1>7 DEF WriterInv
  <2>2. /\ Begun(w) \/ Searching(w) \/ Appending(w) \/ Filling(w) => Stored(published)
        /\ Overwriting(w) => Stored(published) \/ (Changes(w) /\ Stored(After(w)))
        /\ Shifting(w) \/ Shifted(w) => Removes(w) /\ StillPublished
        /\ Broadcasting(w) => Changes(w) /\ Stored(After(w))
    <3>1. Overwriting(w) => Changes(w)
      BY FirstFound DEF Overwriting, Changes
    <3> QED
      BY <3>1 DEF Begun, Searching, Overwriting, Appending, Filling, Shifting, Shifted, Broadcasting
  <2> QED
    BY <2>1, <2>2 DEF Writing
<1>8. CASE \E w \in Write : Active(w)
  <2>1. PICK w \in Write : Active(w)
    BY <1>8
  <2> QED
    BY <1>3, <1>4, <1>5, <1>7, <2>1
<1> QED
  BY <1>6, <1>8

\* An array A that r walks may become B: what B has in the slots was current; if
\* no deletion overlaps, they keep their names and get bundles published for them.
MayBecome(r, A, B) ==
  LET V == audit[r].valid IN
  \A i \in 1..handler[r].slice.len :
    /\ BundleAt(B, i) = BundleAt(A, i) \/ BundleOf(V, BundleAt(B, i))
    /\ NameAt(B, i) = NameAt(A, i) \/ NameOf(V, NameAt(B, i))
    /\ ~ audit[r].disturbed =>
         /\ NameAt(B, i) = NameAt(A, i)
         /\ BundleAt(B, i) = BundleAt(A, i) \/ <<BundleAt(B, i), NameAt(A, i)>> \in V

\* The same of one cell, c, that becomes v.
MayTake(r, A, c, v) ==
  LET V == audit[r].valid IN
  \A i \in 1..handler[r].slice.len :
    /\ c = 2 * i - 1 => BundleOf(V, v)
    /\ c = 2 * i => NameOf(V, v)
    /\ ~ audit[r].disturbed => /\ c = 2 * i - 1 => <<v, NameAt(A, i)>> \in V
                               /\ c = 2 * i => v = NameAt(A, i)

\* What a read has witnessed survives a step of the write in progress that
\* keeps the stored header, if what it writes was current.
LEMMA ReadKept ==
  ASSUME RepoTypes, WriterInv, ReadersInv, NEW r \in Read, NEW w \in Write, Active(w),
         \A h \in Request \ {w} : handler'[h] = handler[h],
         handler'[w].td = handler[w].td, handler'[w].op = handler[w].op,
         published' = published \/ (published' = After(w) /\ Changes(w)),
         UNCHANGED <<storage, audit>>,
         ~ Removes(w) /\ handler'[w].pc \in {"write", "store"} =>
           \/ handler'[w].slice.array = storage.array
           \/ handler[w].pc \in {"write", "store"} /\ handler'[w].slice = handler[w].slice
           \/ handler'[w].slice.array > Len(arrays),
         NEW A, A = arrays[handler[r].slice.array], NEW B, B = arrays'[handler[r].slice.array],
         handler[r].pc = "encode" => MayBecome(r, A, B)
  PROVE  Witnessed(r)' /\ Walking(r)' /\ ReadSoFar(r)'
<1>0. PICK k, V : k = handler[r].slice.len /\ V = audit[r].valid
  OBVIOUS
<1>1. /\ handler'[r] = handler[r] /\ r \in Request
      /\ \A v \in Write \ {w} : handler'[v] = handler[v] /\ v \in Request
      /\ Witnessed(r) /\ Walking(r) /\ ReadSoFar(r)
  BY RequestAssumption DEF Request, ReadersInv
<1>2. Witnessed(r)'
  BY <1>1, WitnessedKept
<1>3. ReadSoFar(r)'
  BY <1>1, ReadSoFarKept
<1>4. ASSUME handler[r].pc = "encode", ~ audit[r].disturbed
      PROVE  /\ handler[r].slice.array = storage.array => k <= storage.len
             /\ \A v \in Write : handler'[v].pc \in {"write", "store"}
                                   /\ handler'[v].slice.array = handler[r].slice.array => k <= storage.len
  <2>1. /\ handler[r].slice.array = storage.array => k <= storage.len
        /\ \A v \in Write : handler[v].pc \in {"write", "store"}
                              /\ handler[v].slice.array = handler[r].slice.array => k <= storage.len
    BY <1>0, <1>1, <1>4 DEF Walking
  <2>2. ~ Removes(w)
    BY <1>1, <1>4 DEF Witnessed, Active
  <2>3. ~ (handler[r].slice.array > Len(arrays))
    <3>1. Within(arrays, handler[r].slice) /\ handler[r].slice.array \in Nat
      BY <1>1 DEF RepoTypes, Goroutine, Bounds
    <3> QED
      BY <3>1, HeapShape DEF Within
  <2>4. ASSUME NEW v \in Write, handler'[v].pc \in {"write", "store"},
               handler'[v].slice.array = handler[r].slice.array
        PROVE  k <= storage.len
    <3>1. CASE v = w
      BY <2>1, <2>2, <2>3, <2>4, <3>1
    <3>2. CASE v # w
      BY <1>1, <2>1, <2>4, <3>2
    <3> QED
      BY <3>1, <3>2
  <2> QED
    BY <2>1, <2>4
<1>5. Walking(r)'
  <2>1. audit' = audit /\ storage' = storage /\ V = audit'[r].valid
    BY <1>0
  <2>2. handler[r].pc = "encode" =>
           \A i \in 1..k :
             /\ BundleAt(B, i) = BundleAt(A, i) \/ BundleOf(V, BundleAt(B, i))
             /\ NameAt(B, i) = NameAt(A, i) \/ NameOf(V, NameAt(B, i))
             /\ ~ audit'[r].disturbed =>
                  /\ NameAt(B, i) = NameAt(A, i)
                  /\ BundleAt(B, i) = BundleAt(A, i) \/ <<BundleAt(B, i), NameAt(A, i)>> \in V
    BY <1>0, <2>1 DEF MayBecome
  <2> QED
    BY <1>0, <1>1, <1>4, <2>1, <2>2, WalkingKept
<1> QED
  BY <1>2, <1>3, <1>5

\* The steps of a write that leave memory as it is.
LEMMA QuietSteps ==
  ASSUME RepoTypes, WriterInv, NEW w \in Write,
         \/ Lookup(w) \/ ReadHeader(w) \/ ScanNext(w) \/ ScanFinds(w) \/ ScanEnds(w) \/ Locate(w)
         \/ Broadcast(w)
  PROVE  /\ Active(w) /\ UNCHANGED <<arrays, storage, audit>>
         /\ \A h \in Request \ {w} : handler'[h] = handler[h]
         /\ handler'[w].td = handler[w].td /\ handler'[w].op = handler[w].op
         /\ published' = published \/ (published' = After(w) /\ Changes(w))
         /\ handler'[w].slice \in {handler[w].slice, NoSlice, storage}
         /\ ~ Removes(w) /\ handler'[w].pc \in {"write", "store"} => handler'[w].slice.array = storage.array
<1>1. w \in Request /\ handler[w] \in Goroutine /\ handler \in [Request -> Goroutine]
  BY DEF Request, RepoTypes
<1>0. ASSUME NEW n, handler' = [handler EXCEPT ![w] = n]
      PROVE  handler'[w] = n /\ \A h \in Request \ {w} : handler'[h] = handler[h]
  BY <1>0, <1>1
<1>2. ASSUME NEW p, handler' = [handler EXCEPT ![w].pc = p]
      PROVE  /\ \A h \in Request \ {w} : handler'[h] = handler[h]
             /\ handler'[w].td = handler[w].td /\ handler'[w].op = handler[w].op
             /\ handler'[w].slice = handler[w].slice /\ handler'[w].pc = p
  BY <1>1, <1>2 DEF RepoTypes, Goroutine, Request
<1>3. ASSUME NEW a \in {"none", "ok", "not found", "aborted"}, Answer(w, a)
      PROVE  /\ \A h \in Request \ {w} : handler'[h] = handler[h]
             /\ handler'[w].td = handler[w].td /\ handler'[w].op = handler[w].op
             /\ handler'[w].slice = NoSlice /\ handler'[w].pc = "done"
  <2> DEFINE n == [handler[w] EXCEPT !.pc = "done", !.slice = NoSlice, !.i = 0, !.c = 0,
                                     !.found = FALSE, !.status = a]
  <2>1. handler' = [handler EXCEPT ![w] = n]
    BY <1>3 DEF Answer
  <2>2. n.pc = "done" /\ n.td = handler[w].td /\ n.op = handler[w].op /\ n.slice = NoSlice
    BY <1>1 DEF Goroutine
  <2> HIDE DEF n
  <2> QED
    BY <1>0, <2>1, <2>2
<1>4. CASE Lookup(w)
  <2>1. handler' = [handler EXCEPT ![w].pc = IF storage = NoSlice THEN "create" ELSE "header"]
    BY <1>4 DEF Lookup, Goto
  <2>2. (IF storage = NoSlice THEN "create" ELSE "header") \notin {"write", "store"}
    OBVIOUS
  <2>3. Active(w) /\ UNCHANGED <<arrays, storage, audit, published>>
    BY <1>4 DEF Lookup, At, Active
  <2> QED
    BY <1>2, <2>1, <2>2, <2>3
<1>5. CASE ReadHeader(w)
  <2>1. Active(w) /\ UNCHANGED <<arrays, storage, audit, published>>
    BY <1>5 DEF ReadHeader, At, Active
  <2>2. CASE handler[w].op = "delete" /\ storage = NoSlice
    <3>1. Answer(w, "not found")
      BY <1>5, <2>2 DEF ReadHeader
    <3> QED
      BY <1>3, <2>1, <3>1
  <2>3. CASE ~ (handler[w].op = "delete" /\ storage = NoSlice)
    <3> DEFINE p == CASE handler[w].op = "post" -> "append" [] handler[w].op = "get" -> "encode"
                      [] OTHER -> "scan"
           n == [handler[w] EXCEPT !.slice = storage, !.i = 1, !.c = 1, !.pc = p]
    <3>1. handler' = [handler EXCEPT ![w] = n]
      BY <1>5, <2>3 DEF ReadHeader
    <3>2. p \notin {"write", "store"}
      OBVIOUS
    <3> HIDE DEF p
    <3>3. n.td = handler[w].td /\ n.op = handler[w].op /\ n.slice = storage /\ n.pc = p
      BY <1>1 DEF Goroutine
    <3> HIDE DEF n
    <3>4. /\ \A h \in Request \ {w} : handler'[h] = handler[h]
          /\ handler'[w].td = handler[w].td /\ handler'[w].op = handler[w].op
          /\ handler'[w].slice = storage /\ handler'[w].pc = p
      BY <1>0, <3>1, <3>3
    <3> QED
      BY <2>1, <3>2, <3>4
  <2> QED
    BY <2>2, <2>3
<1>6. CASE ScanNext(w)
  <2>1. Active(w) /\ UNCHANGED <<arrays, storage, audit, published>> /\ handler[w].pc = "scan"
    BY <1>6 DEF ScanNext, At, Active
  <2>2. /\ \A h \in Request \ {w} : handler'[h] = handler[h]
        /\ handler'[w].td = handler[w].td /\ handler'[w].op = handler[w].op
        /\ handler'[w].slice = handler[w].slice /\ handler'[w].pc = handler[w].pc
    BY <1>1, <1>6 DEF ScanNext, RepoTypes, Goroutine, Request
  <2> QED
    BY <2>1, <2>2
<1>7. CASE ScanFinds(w)
  <2> DEFINE p == CASE ~ Removes(w) -> "locate"
                    [] Removes(w) /\ handler[w].i < handler[w].slice.len -> "shift"
                    [] OTHER -> "store"
             d == 2 * handler[w].i - 1
             n == [handler[w] EXCEPT !.found = TRUE, !.c = d, !.pc = p]
  <2>1. Active(w) /\ UNCHANGED <<arrays, storage, audit, published>>
        /\ handler' = [handler EXCEPT ![w] = n]
    BY <1>7 DEF ScanFinds, At, Active
  <2>2. ~ Removes(w) => p = "locate"
    OBVIOUS
  <2> HIDE DEF p, d
  <2>3. n.td = handler[w].td /\ n.op = handler[w].op /\ n.slice = handler[w].slice /\ n.pc = p
    BY <1>1 DEF Goroutine
  <2> HIDE DEF n
  <2>4. /\ \A h \in Request \ {w} : handler'[h] = handler[h]
        /\ handler'[w].td = handler[w].td /\ handler'[w].op = handler[w].op
        /\ handler'[w].slice = handler[w].slice /\ handler'[w].pc = p
    BY <1>0, <2>1, <2>3
  <2> QED
    BY <2>1, <2>2, <2>4
<1>8. CASE ScanEnds(w)
  <2>1. Active(w) /\ UNCHANGED <<arrays, storage, audit, published>>
    BY <1>8 DEF ScanEnds, At, Active
  <2>2. Answer(w, "not found") \/ handler' = [handler EXCEPT ![w].pc = "append"]
    BY <1>8 DEF ScanEnds, Goto
  <2> QED
    BY <1>2, <1>3, <2>1, <2>2
<1>9. CASE Locate(w)
  <2>1. Active(w) /\ UNCHANGED <<arrays, storage, audit, published>>
    BY <1>9 DEF Locate, At, Active
  <2>2. Answer(w, "aborted") \/ handler' = [handler EXCEPT ![w].slice = storage, ![w].pc = "write"]
    BY <1>9 DEF Locate
  <2>3. ASSUME handler' = [handler EXCEPT ![w].slice = storage, ![w].pc = "write"]
        PROVE  /\ \A h \in Request \ {w} : handler'[h] = handler[h]
               /\ handler'[w].td = handler[w].td /\ handler'[w].op = handler[w].op
               /\ handler'[w].slice = storage
    BY <1>1, <2>3 DEF RepoTypes, Goroutine, Request
  <2> QED
    BY <1>3, <2>1, <2>2, <2>3
<1>10. CASE Broadcast(w)
  <2>1. Active(w) /\ UNCHANGED <<arrays, storage, audit>> /\ published' = After(w) /\ Answer(w, "ok")
    BY <1>10 DEF Broadcast, At, Active
  <2>2. Changes(w)
    BY <1>10, <2>1, Phases DEF Broadcast, At, Broadcasting
  <2> QED
    BY <1>3, <2>1, <2>2
<1> QED
  BY <1>4, <1>5, <1>6, <1>7, <1>8, <1>9, <1>10

LEMMA QuietReads ==
  ASSUME RepoTypes, WriterInv, ReadersInv, NEW w \in Write,
         \/ Lookup(w) \/ ReadHeader(w) \/ ScanNext(w) \/ ScanFinds(w) \/ ScanEnds(w) \/ Locate(w)
         \/ Broadcast(w)
  PROVE  ReadersInv'
<1>1. /\ Active(w) /\ UNCHANGED <<arrays, storage, audit>>
      /\ \A h \in Request \ {w} : handler'[h] = handler[h]
      /\ handler'[w].td = handler[w].td /\ handler'[w].op = handler[w].op
      /\ published' = published \/ (published' = After(w) /\ Changes(w))
      /\ handler'[w].slice \in {handler[w].slice, NoSlice, storage}
      /\ ~ Removes(w) /\ handler'[w].pc \in {"write", "store"} => handler'[w].slice.array = storage.array
  BY QuietSteps
<1>2. ASSUME NEW r \in Read PROVE Witnessed(r)' /\ Walking(r)' /\ ReadSoFar(r)'
  <2>1. PICK A : A = arrays[handler[r].slice.array] /\ A = arrays'[handler[r].slice.array]
    BY <1>1
  <2>2. MayBecome(r, A, A)
    BY DEF MayBecome
  <2> QED
    BY <1>1, <2>1, <2>2, ReadKept
<1>3. storage'.array = 0 => \A h \in Request : handler'[h].slice.array = 0
  BY <1>1 DEF ReadersInv, NoSlice, Request
<1> QED
  BY <1>2, <1>3 DEF ReadersInv

LEMMA StoreEmptyReads ==
  ASSUME RepoTypes, WriterInv, ReadersInv, NEW w \in Write, StoreEmpty(w)
  PROVE  ReadersInv'
<1>1. /\ Active(w) /\ UNCHANGED <<arrays, audit, published>> /\ w \in Request
      /\ handler' = [handler EXCEPT ![w].pc = "header"]
      /\ storage' = EmptySlice /\ Begun(w) /\ handler[w].pc = "create"
  BY Phases DEF StoreEmpty, At, Active, Goto, Request
<1>2. storage.array = 0 /\ storage'.array = 1
  BY <1>1 DEF Begun, NoSlice, EmptySlice
<1>3. /\ \A h \in Request \ {w} : handler'[h] = handler[h]
      /\ handler'[w].td = handler[w].td /\ handler'[w].op = handler[w].op
      /\ handler'[w].slice = handler[w].slice /\ handler'[w].pc = "header"
  BY <1>1 DEF RepoTypes, Goroutine
<1>4. ASSUME NEW r \in Read PROVE Witnessed(r)' /\ Walking(r)' /\ ReadSoFar(r)'
  <2>1. /\ handler'[r] = handler[r] /\ r \in Request
        /\ \A v \in Write \ {w} : handler'[v] = handler[v] /\ v \in Request
        /\ Witnessed(r) /\ Walking(r) /\ ReadSoFar(r)
    BY <1>3, RequestAssumption DEF Request, ReadersInv
  <2>2. Witnessed(r)' /\ ReadSoFar(r)'
    BY <1>1, <1>3, <2>1, WitnessedKept, ReadSoFarKept
  <2>3. handler[r].slice.array = 0 /\ handler[r].slice.len = 0
    BY <1>2, <2>1 DEF ReadersInv, RepoTypes, Within
  <2>4. storage'.len = 0
    BY <1>1 DEF EmptySlice
  <2>5. Walking(r)'
    BY <1>1, <1>2, <2>1, <2>3, <2>4, WalkingKept
  <2> QED
    BY <2>2, <2>5
<1> QED
  BY <1>2, <1>4 DEF ReadersInv

\* Appending moves no entry: the new slot is behind the stored slice, or in an
\* array nobody else knows.
LEMMA AppendSlotReads ==
  ASSUME RepoTypes, WriterInv, ReadersInv, NEW w \in Write, AppendSlot(w)
  PROVE  ReadersInv'
<1> DEFINE full == storage.len = Cap(storage)
           a == IF full THEN Len(arrays) + 1 ELSE storage.array
           k == storage.len + 1
           slot == [array |-> a, len |-> k]
           at == 2 * storage.len + 1
           n == [handler[w] EXCEPT !.slice = slot, !.c = at, !.pc = "write"]
           g == Grown(storage)
<1>1. /\ Active(w) /\ w \in Request /\ handler[w].slice = storage /\ storage.array # 0
      /\ handler[w] \in Goroutine /\ handler \in [Request -> Goroutine]
  BY Phases DEF AppendSlot, At, Active, Request, Appending, RepoTypes
<1>2. /\ UNCHANGED <<storage, audit, published>> /\ handler' = [handler EXCEPT ![w] = n]
      /\ arrays' = IF full THEN Append(arrays, g) ELSE arrays
  BY <1>1 DEF AppendSlot
<1>3. a = storage.array \/ a > Len(arrays)
  BY HeapShape
<1>4. \A j \in 1..Len(arrays) : arrays'[j] = arrays[j]
  <2> HIDE DEF g
  <2>1. arrays \in Seq(Seq(Cell) \cup {g})
    <3>1. \A j \in 1..Len(arrays) : arrays[j] \in Seq(Cell) \cup {g}
      BY HeapShape
    <3>2. arrays = [j \in 1..Len(arrays) |-> arrays[j]] /\ Len(arrays) \in Nat
      BY HeapShape, LenProperties DEF RepoTypes, Paired
    <3> QED
      BY <3>1, <3>2, IsASeq
  <2>2. \A j \in 1..Len(arrays) : Append(arrays, g)[j] = arrays[j]
    BY <2>1, AppendProperties
  <2> QED
    BY <1>2, <2>2
<1> HIDE DEF a, k, at
<1>5. n.pc = "write" /\ n.td = handler[w].td /\ n.op = handler[w].op /\ n.slice.array = a
  BY <1>1 DEF Goroutine
<1> HIDE DEF n
<1>6. handler'[w] = n /\ \A h \in Request \ {w} : handler'[h] = handler[h]
  BY <1>1, <1>2
<1>7. ASSUME NEW r \in Read PROVE Witnessed(r)' /\ Walking(r)' /\ ReadSoFar(r)'
  <2>1. arrays'[handler[r].slice.array] = arrays[handler[r].slice.array] \/ 1..handler[r].slice.len = {}
    <3>1. Within(arrays, handler[r].slice) /\ handler[r].slice \in Bounds
      BY DEF RepoTypes, Goroutine, Request
    <3>2. handler[r].slice.array \in 1..Len(arrays) \/ handler[r].slice.len = 0
      BY <3>1 DEF Within, Bounds
    <3> QED
      BY <1>4, <3>2
  <2>2. UNCHANGED <<storage, audit>> /\ published' = published
    BY <1>2
  <2>3. PICK A, B : A = arrays[handler[r].slice.array] /\ B = arrays'[handler[r].slice.array]
    OBVIOUS
  <2>4. MayBecome(r, A, B)
    BY <2>1, <2>3 DEF MayBecome
  <2> QED
    BY <1>1, <1>3, <1>5, <1>6, <2>2, <2>3, <2>4, ReadKept
<1>8. storage'.array # 0
  BY <1>1, <1>2
<1> QED
  BY <1>7, <1>8 DEF ReadersInv

\* A cell is written.
LEMMA CellReads ==
  ASSUME RepoTypes, NEW r \in Read,
         NEW a \in 1..Len(arrays), NEW c \in 1..Len(arrays[a]), NEW v \in Cell,
         arrays' = [arrays EXCEPT ![a][c] = v],
         NEW b, b = handler[r].slice.array, NEW A, A = arrays[b], NEW B, B = arrays'[b],
         b = a => MayTake(r, A, c, v)
  PROVE  MayBecome(r, A, B)
<1> DEFINE V == audit[r].valid
           k == handler[r].slice.len
<1>1. /\ \A j \in 1..Len(arrays) : j # a => arrays'[j] = arrays[j]
      /\ arrays'[a][c] = v
      /\ \A j \in 1..Len(arrays[a]) : j # c => arrays'[a][j] = arrays[a][j]
  BY HeapWrite
<1>2. /\ b \in 0..Len(arrays) /\ k \in Nat /\ (b = 0 => k = 0) /\ (b # 0 => 2 * k <= Len(A))
      /\ Len(arrays) \in Nat /\ (b # 0 => Len(A) \in Nat)
  <2>1. Within(arrays, handler[r].slice) /\ handler[r].slice \in Bounds
    BY DEF RepoTypes, Goroutine, Request
  <2>2. Len(arrays) \in Nat /\ \A j \in 1..Len(arrays) : Len(arrays[j]) \in Nat
    BY HeapShape
  <2>3. b \in 0..Len(arrays) /\ k \in Nat /\ (b = 0 => k = 0) /\ (b # 0 => 2 * k <= Len(A))
    BY <2>1 DEF Within, Bounds
  <2> QED
    BY <2>2, <2>3
<1>3. SUFFICES ASSUME NEW i \in 1..k
               PROVE  /\ BundleAt(B, i) = BundleAt(A, i) \/ BundleOf(V, BundleAt(B, i))
                      /\ NameAt(B, i) = NameAt(A, i) \/ NameOf(V, NameAt(B, i))
                      /\ ~ audit[r].disturbed =>
                           /\ NameAt(B, i) = NameAt(A, i)
                           /\ BundleAt(B, i) = BundleAt(A, i) \/ <<BundleAt(B, i), NameAt(A, i)>> \in V
  BY DEF MayBecome
<1>4. CASE b # a
  <2>1. B = A
    BY <1>1, <1>2, <1>3, <1>4
  <2> QED
    BY <2>1
<1>5. CASE b = a
  <2>1. /\ 2 * i - 1 \in 1..Len(A) /\ 2 * i \in 1..Len(A) /\ 2 * i - 1 # 2 * i
        /\ A = arrays[a] /\ B = arrays'[a]
    <3>1. a # 0 /\ A = arrays[a] /\ B = arrays'[a]
      BY <1>2, <1>5
    <3>2. PICK l \in Nat : l = Len(A)
      BY <1>2, <1>5, <3>1
    <3>3. 2 * k <= l /\ k \in Nat
      BY <1>2, <1>5, <3>1, <3>2
    <3>4. \A j \in 1..k : 2 * j - 1 \in 1..l /\ 2 * j \in 1..l
      BY <3>2, <3>3, SlotCells
    <3>5. 2 * i - 1 # 2 * i
      BY <1>2, <1>3
    <3> QED
      BY <1>3, <3>1, <3>2, <3>4, <3>5
  <2>2. /\ c # 2 * i - 1 => BundleAt(B, i) = BundleAt(A, i)
        /\ c = 2 * i - 1 => BundleAt(B, i) = v
        /\ c # 2 * i => NameAt(B, i) = NameAt(A, i)
        /\ c = 2 * i => NameAt(B, i) = v
    BY <1>1, <2>1 DEF BundleAt, NameAt
  <2>3. /\ c = 2 * i - 1 => BundleOf(V, v)
        /\ c = 2 * i => NameOf(V, v)
        /\ ~ audit[r].disturbed => /\ c = 2 * i - 1 => <<v, NameAt(A, i)>> \in V
                                   /\ c = 2 * i => v = NameAt(A, i)
    BY <1>3, <1>5 DEF MayTake
  <2> QED
    BY <2>1, <2>2, <2>3
<1> QED
  BY <1>4, <1>5

\* The write in progress changes one cell and moves on.
LEMMA ReadsAfterCell ==
  ASSUME RepoTypes, WriterInv, ReadersInv, NEW w \in Write, Active(w),
         UNCHANGED <<storage, published, audit>>,
         \A h \in Request \ {w} : handler'[h] = handler[h],
         handler'[w].td = handler[w].td, handler'[w].op = handler[w].op,
         handler'[w].slice = handler[w].slice,
         ~ Removes(w) => handler[w].pc \in {"write", "store"},
         NEW a \in 1..Len(arrays), NEW c \in 1..Len(arrays[a]), NEW v \in Cell,
         arrays' = [arrays EXCEPT ![a][c] = v],
         \A r \in Read : handler[r].pc = "encode" /\ handler[r].slice.array = a => MayTake(r, arrays[a], c, v)
  PROVE  ReadersInv'
<1>1. ASSUME NEW r \in Read PROVE Witnessed(r)' /\ Walking(r)' /\ ReadSoFar(r)'
  <2>1. ~ Removes(w) /\ handler'[w].pc \in {"write", "store"} =>
           \/ handler'[w].slice.array = storage.array
           \/ handler[w].pc \in {"write", "store"} /\ handler'[w].slice = handler[w].slice
           \/ handler'[w].slice.array > Len(arrays)
    OBVIOUS
  <2>2. PICK b, A, B : b = handler[r].slice.array /\ A = arrays[b] /\ B = arrays'[b]
    OBVIOUS
  <2>3. ASSUME handler[r].pc = "encode" PROVE MayBecome(r, A, B)
    <3>1. b = a => MayTake(r, A, c, v)
      BY <2>2, <2>3
    <3> QED
      BY ZenonT(30), <2>2, <3>1, CellReads
  <2>4. A = arrays[handler[r].slice.array] /\ B = arrays'[handler[r].slice.array]
    BY <2>2
  <2> QED
    BY <2>1, <2>2, <2>3, <2>4, ReadKept
<1>2. \A h \in Request : handler'[h].slice = handler[h].slice
  OBVIOUS
<1> QED
  BY <1>1, <1>2 DEF ReadersInv

\* PUT overwrites the bundle it found, under its name; a new entry is filled
\* behind the slots of every read that no deletion overlaps.
LEMMA WriteCellReads ==
  ASSUME RepoTypes, WriterInv, ReadersInv, NEW w \in Write, WriteCell(w)
  PROVE  ReadersInv'
<1> DEFINE c == handler[w].c
           a == handler[w].slice.array
           l == handler[w].slice.len
           td == handler[w].td
           raw == c % 2 = 1
           v == IF raw THEN w ELSE td
           d == c + 1
           next == CASE raw -> "write" [] ~ raw /\ handler[w].found -> "broadcast" [] OTHER -> "store"
           n == [handler[w] EXCEPT !.c = d, !.pc = next]
<1>1. /\ Active(w) /\ w \in Request /\ handler[w].pc = "write" /\ td \in TrustDomain
      /\ Overwriting(w) \/ Filling(w)
      /\ handler[w] \in Goroutine /\ handler \in [Request -> Goroutine]
  BY Phases DEF WriteCell, At, Active, Request, RepoTypes
<1>2. /\ UNCHANGED <<storage, audit, published>> /\ handler' = [handler EXCEPT ![w] = n]
      /\ arrays' = [arrays EXCEPT ![a][c] = v]
  BY DEF WriteCell
<1>3. ~ Removes(w)
  BY <1>1 DEF Overwriting, Filling, Removes
<1>4. v \in Cell /\ (raw => v = w) /\ (~ raw => v = td)
  BY <1>1 DEF Cell
<1> HIDE DEF v, next, d
<1>5. n.td = td /\ n.op = handler[w].op /\ n.slice = handler[w].slice
  BY <1>1 DEF Goroutine
<1> HIDE DEF n
<1>6. handler'[w] = n /\ \A h \in Request \ {w} : handler'[h] = handler[h]
  BY <1>1, <1>2
<1>7. /\ a \in 1..Len(arrays) /\ l \in Nat /\ storage.len \in Nat /\ Len(arrays[a]) \in Nat
      /\ 2 * l <= Len(arrays[a])
  <2>1. /\ handler[w].slice \in Bounds /\ storage \in Bounds /\ Within(arrays, handler[w].slice)
        /\ a # 0
    BY <1>1 DEF RepoTypes, Goroutine, Overwriting, Filling
  <2> QED
    BY <2>1, HeapShape DEF Bounds, Within
<1>8. PICK i \in 1..l :
        /\ c = 2 * i - 1 \/ c = 2 * i
        /\ Overwriting(w) => /\ handler[w].slice = storage /\ NameAt(Contents, i) = td
        /\ Filling(w) => i = storage.len + 1
  <2>1. CASE Overwriting(w)
    <3>1. /\ handler[w].i \in 1..l /\ handler[w].slice = storage
          /\ c = 2 * handler[w].i - 1 \/ c = 2 * handler[w].i
          /\ Finds(w, handler[w].i) /\ ~ Removes(w)
          /\ Stored(published) \/ Stored(After(w))
      BY <2>1 DEF Overwriting, Removes
    <3>4. NameAt(Contents, handler[w].i) = td
      <4>1. handler[w].i \in 1..Len(published) /\ published[handler[w].i][2] = td
        BY <3>1 DEF Finds
      <4>2. Len(After(w)) = Len(published) /\ After(w)[handler[w].i] = <<w, td>>
        BY <1>1, <3>1, <4>1, AfterReplaces
      <4> QED
        BY <3>1, <4>1, <4>2 DEF Stored, Lists
    <3>2. ~ Filling(w)
      BY <2>1 DEF Overwriting, Filling
    <3> QED
      BY <3>1, <3>2, <3>4
  <2>2. CASE Filling(w)
    <3>1. l = storage.len + 1 /\ c \in {2 * storage.len + 1, 2 * storage.len + 2}
      BY <1>1, <2>2 DEF Filling
    <3>2. ~ Overwriting(w)
      BY <2>2 DEF Overwriting, Filling
    <3>3. /\ storage.len + 1 \in 1..l
          /\ 2 * storage.len + 1 = 2 * (storage.len + 1) - 1 /\ 2 * storage.len + 2 = 2 * (storage.len + 1)
      BY <1>7, <3>1
    <3> QED
      BY <3>1, <3>2, <3>3
  <2> QED
    BY <1>1, <2>1, <2>2
<1>9. /\ c \in 1..Len(arrays[a]) /\ i \in Nat /\ i >= 1
      /\ c = 2 * i - 1 => raw
      /\ c = 2 * i => ~ raw
      /\ \A j \in Nat : (c = 2 * j - 1 \/ c = 2 * j) => j = i
  <2>1. PICK L \in Nat : L = Len(arrays[a])
    BY <1>7
  <2>2. i \in Nat /\ i >= 1 /\ 2 * l <= L
    BY <1>7, <2>1
  <2>3. 2 * i - 1 \in 1..L /\ 2 * i \in 1..L
    BY <1>7, <2>1, <2>2, SlotCells
  <2>4. (2 * i - 1) % 2 = 1 /\ (2 * i) % 2 = 0
    BY <2>2, Parity
  <2>5. \A j \in Nat : (2 * i - 1 = 2 * j - 1 \/ 2 * i = 2 * j) => j = i
    BY <2>2
  <2>6. \A j \in Nat : 2 * i - 1 # 2 * j /\ 2 * i # 2 * j - 1
    BY <2>2
  <2>7. c \in 1..L
    BY <1>8, <2>3
  <2>8. (c = 2 * i - 1 => raw) /\ (c = 2 * i => ~ raw)
    BY <2>4
  <2>9. \A j \in Nat : (c = 2 * j - 1 \/ c = 2 * j) => j = i
    BY <1>8, <2>5, <2>6
  <2> QED
    BY <2>1, <2>2, <2>7, <2>8, <2>9
<1> HIDE DEF raw
<1>10. ASSUME NEW r \in Read, handler[r].pc = "encode", handler[r].slice.array = a
       PROVE  MayTake(r, arrays[a], c, v)
  <2> DEFINE k == handler[r].slice.len
             A == arrays[a]
             V == audit[r].valid
  <2>1. k \in Nat
    BY <1>10 DEF RepoTypes, Goroutine, Request, Bounds
  <2>2. Witnessed(r) /\ Walking(r) /\ Active(r)
    BY <1>10 DEF ReadersInv, Active
  <2>3. PICK e \in V : e = <<w, td>>
    BY <1>1, <1>3, <1>10, <2>2 DEF Witnessed
  <2>4. <<w, td>> \in V /\ BundleOf(V, w) /\ NameOf(V, td)
    <3>1. e[1] = w /\ e[2] = td
      BY <2>3
    <3> QED
      BY <2>3, <3>1 DEF BundleOf, NameOf
  <2>5. ASSUME NEW j \in 1..k
        PROVE  /\ c = 2 * j - 1 => BundleOf(V, v)
               /\ c = 2 * j => NameOf(V, v)
               /\ ~ audit[r].disturbed => /\ c = 2 * j - 1 => <<v, NameAt(A, j)>> \in V
                                          /\ c = 2 * j => v = NameAt(A, j)
    <3>1. SUFFICES ASSUME c = 2 * j - 1 \/ c = 2 * j
                   PROVE  /\ c = 2 * j - 1 => BundleOf(V, v)
                          /\ c = 2 * j => NameOf(V, v)
                          /\ ~ audit[r].disturbed => NameAt(A, j) = td
      BY <1>4, <1>9, <2>1, <2>4
    <3>2. j = i /\ j \in Nat
      BY <1>9, <2>1, <2>5, <3>1
    <3>3. (c = 2 * j - 1 => BundleOf(V, v)) /\ (c = 2 * j => NameOf(V, v))
      BY <1>4, <1>9, <2>4, <3>2
    <3>4. ASSUME ~ audit[r].disturbed PROVE NameAt(A, j) = td
      <4>1. k <= storage.len
        BY <1>1, <1>10, <2>2, <2>5, <3>4 DEF Walking
      <4>2. ~ Filling(w)
        BY <1>7, <1>8, <2>1, <2>5, <3>2, <4>1
      <4> QED
        BY <1>1, <1>8, <1>10, <2>5, <3>2, <4>2 DEF Contents
    <3> QED
      BY <3>3, <3>4
  <2> QED
    BY <2>5 DEF MayTake
<1>11. c \in 1..Len(arrays[a]) /\ a \in 1..Len(arrays) /\ arrays' = [arrays EXCEPT ![a][c] = v]
  BY <1>2, <1>7, <1>9
<1>12. handler'[w].td = td /\ handler'[w].op = handler[w].op /\ handler'[w].slice = handler[w].slice
  BY <1>5, <1>6
<1> HIDE DEF a, c
<1> QED
  BY <1>1, <1>2, <1>4, <1>6, <1>10, <1>11, <1>12, ReadsAfterCell

\* A deletion copies cells from one slot of the stored slice to another: each
\* was current, and the reads it overlaps are disturbed.
LEMMA ShiftCellReads ==
  ASSUME RepoTypes, WriterInv, ReadersInv, NEW w \in Write, ShiftCell(w)
  PROVE  ReadersInv'
<1> DEFINE c == handler[w].c
           a == storage.array
           k == storage.len
           v == arrays[a][c + 2]
           d == c + 1
           next == IF c + 2 = 2 * k THEN "store" ELSE "shift"
           n == [handler[w] EXCEPT !.c = d, !.pc = next]
<1>1. /\ Active(w) /\ w \in Request /\ Removes(w) /\ handler[w].slice = storage /\ a # 0
      /\ handler[w] \in Goroutine /\ handler \in [Request -> Goroutine] /\ Shifting(w)
  BY Phases DEF ShiftCell, At, Active, Request, Shifting, RepoTypes
<1>2. /\ UNCHANGED <<storage, audit, published>> /\ handler' = [handler EXCEPT ![w] = n]
      /\ arrays' = [arrays EXCEPT ![a][c] = v]
  BY <1>1 DEF ShiftCell
<1>3. n.td = handler[w].td /\ n.op = handler[w].op /\ n.slice = handler[w].slice
  <2> HIDE DEF d, next
  <2> QED
    BY <1>1 DEF Goroutine
<1> HIDE DEF n
<1>4. handler'[w] = n /\ \A h \in Request \ {w} : handler'[h] = handler[h]
  BY <1>1, <1>2
<1>5. /\ a \in 1..Len(arrays) /\ k \in Nat /\ Len(arrays[a]) \in Nat /\ 2 * k <= Len(arrays[a])
  BY <1>1, HeapShape DEF RepoTypes, Bounds, Within
<1>6. PICK m \in 1..(k - 1) : c = 2 * m - 1 \/ c = 2 * m
  BY <1>1 DEF Shifting
<1>7. /\ m \in Nat /\ m \in 1..k /\ m + 1 \in 1..k
      /\ c = 2 * m - 1 => c + 2 = 2 * (m + 1) - 1
      /\ c = 2 * m => c + 2 = 2 * (m + 1)
      /\ \A j \in Nat : 2 * m - 1 # 2 * j /\ 2 * m # 2 * j - 1
  <2>1. m \in Nat /\ m \in 1..k /\ m + 1 \in 1..k
    BY <1>5
  <2>2. /\ c = 2 * m - 1 => c + 2 = 2 * (m + 1) - 1
        /\ c = 2 * m => c + 2 = 2 * (m + 1)
    BY <2>1
  <2>3. \A j \in Nat : 2 * m - 1 # 2 * j /\ 2 * m # 2 * j - 1
    BY <2>1
  <2> QED
    BY <2>1, <2>2, <2>3
<1>8. c \in 1..Len(arrays[a]) /\ c + 2 \in 1..Len(arrays[a])
  <2>1. PICK L \in Nat : L = Len(arrays[a]) /\ 2 * k <= L
    BY <1>5
  <2>2. /\ 2 * m - 1 \in 1..L /\ 2 * m \in 1..L
        /\ 2 * (m + 1) - 1 \in 1..L /\ 2 * (m + 1) \in 1..L
    BY <1>5, <1>7, <2>1, SlotCells
  <2> QED
    BY <1>6, <1>7, <2>1, <2>2
<1>9. /\ v \in Cell
      /\ c = 2 * m - 1 => v = BundleAt(Contents, m + 1)
      /\ c = 2 * m => v = NameAt(Contents, m + 1)
  BY <1>5, <1>7, <1>8, HeapShape DEF BundleAt, NameAt, Contents
<1> HIDE DEF v
<1>10. ASSUME NEW r \in Read, handler[r].pc = "encode" PROVE MayTake(r, arrays[a], c, v)
  <2>1. Witnessed(r) /\ Active(r) /\ handler[r].slice.len \in Nat
    BY <1>10 DEF ReadersInv, Active, RepoTypes, Goroutine, Request, Bounds
  <2>2. audit[r].disturbed
    BY <1>1, <2>1 DEF Witnessed
  <2>3. PICK V : V = audit[r].valid
    OBVIOUS
  <2>4. BundleOf(V, BundleAt(Contents, m + 1)) /\ NameOf(V, NameAt(Contents, m + 1))
    BY <1>7, <2>1, <2>3, SlotsWitnessed
  <2>5. ASSUME NEW j \in 1..handler[r].slice.len
        PROVE  (c = 2 * j - 1 => BundleOf(V, v)) /\ (c = 2 * j => NameOf(V, v))
    <3>1. j \in Nat
      BY <2>1
    <3>2. (c = 2 * j - 1 => c = 2 * m - 1) /\ (c = 2 * j => c = 2 * m)
      BY <1>6, <1>7, <3>1
    <3> QED
      BY <1>9, <2>4, <3>2
  <2> QED
    BY <2>2, <2>3, <2>5 DEF MayTake
<1>11. handler'[w].td = handler[w].td /\ handler'[w].op = handler[w].op /\ handler'[w].slice = handler[w].slice
  BY <1>3, <1>4
<1> HIDE DEF a, c
<1> QED
  BY <1>1, <1>2, <1>4, <1>5, <1>8, <1>9, <1>10, <1>11, ReadsAfterCell

\* What the map entry refers to next is no shorter than any slice in use of the
\* same array, unless something was deleted.
LEMMA StoreHeaderReads ==
  ASSUME RepoTypes, WriterInv, ReadersInv, NEW w \in Write, StoreHeader(w)
  PROVE  ReadersInv'
<1>1. /\ Active(w) /\ w \in Request /\ handler[w].pc = "store"
      /\ handler[w] \in Goroutine /\ handler \in [Request -> Goroutine]
      /\ handler[w].td \in TrustDomain /\ (Filling(w) \/ Shifted(w))
  BY Phases DEF StoreHeader, At, Active, Request, RepoTypes
<1>2. UNCHANGED <<arrays, audit>> /\ storage'.array # 0
  BY HeaderStored DEF StoreHeader
<1>3. published' = published \/ (published' = After(w) /\ Changes(w))
  <2>1. Changes(w)
    BY <1>1 DEF Filling, Shifted, Changes
  <2> QED
    BY <2>1 DEF StoreHeader
<1>4. /\ handler'[w].td = handler[w].td /\ handler'[w].op = handler[w].op
      /\ handler'[w].pc \in {"done", "broadcast"} /\ \A h \in Request \ {w} : handler'[h] = handler[h]
  <2>1. CASE handler[w].op = "post"
    <3> DEFINE n == [handler[w] EXCEPT !.pc = "done", !.slice = NoSlice, !.i = 0, !.c = 0,
                                       !.found = FALSE, !.status = "ok"]
    <3>1. handler' = [handler EXCEPT ![w] = n]
      BY <2>1 DEF StoreHeader, Answer
    <3>2. n.td = handler[w].td /\ n.op = handler[w].op /\ n.pc = "done"
      BY <1>1 DEF Goroutine
    <3> HIDE DEF n
    <3> QED
      BY <1>1, <3>1, <3>2
  <2>2. CASE handler[w].op # "post"
    <3> DEFINE n == [handler[w] EXCEPT !.pc = "broadcast"]
    <3>1. handler' = [handler EXCEPT ![w] = n]
      BY <2>2 DEF StoreHeader, Goto
    <3>2. n.td = handler[w].td /\ n.op = handler[w].op /\ n.pc = "broadcast"
      BY <1>1 DEF Goroutine
    <3> HIDE DEF n
    <3> QED
      BY <1>1, <3>1, <3>2
  <2> QED
    BY <2>1, <2>2
<1>5. ~ Removes(w) => /\ storage'.array = handler[w].slice.array /\ storage'.len = storage.len + 1
                      /\ storage.len \in Nat
  <2>1. SUFFICES ASSUME ~ Removes(w)
                 PROVE  /\ storage'.array = handler[w].slice.array /\ storage'.len = storage.len + 1
                        /\ storage.len \in Nat
    OBVIOUS
  <2>2. handler[w].slice \in Bounds /\ handler[w].slice.len = storage.len + 1 /\ storage \in Bounds
    BY <1>1, <2>1 DEF Filling, Shifted, Goroutine, RepoTypes
  <2>3. storage' = [handler[w].slice EXCEPT !.len = handler[w].slice.len]
    BY <2>1 DEF StoreHeader
  <2> QED
    BY <2>2, <2>3 DEF Bounds
<1>6. ASSUME NEW r \in Read PROVE Witnessed(r)' /\ Walking(r)' /\ ReadSoFar(r)'
  <2>1. /\ handler'[r] = handler[r] /\ r \in Request
        /\ \A v \in Write \ {w} : handler'[v] = handler[v] /\ v \in Request /\ ~ Active(v)
        /\ Witnessed(r) /\ Walking(r) /\ ReadSoFar(r)
    BY <1>1, <1>4, RequestAssumption DEF Request, ReadersInv, WriterInv
  <2>2. Witnessed(r)' /\ ReadSoFar(r)'
    BY <1>1, <1>2, <1>3, <1>4, <2>1, WitnessedKept, ReadSoFarKept
  <2>3. PICK k, A, V : /\ k = handler[r].slice.len /\ A = arrays[handler[r].slice.array]
                       /\ A = arrays'[handler[r].slice.array] /\ V = audit'[r].valid
    BY <1>2
  <2>4. ASSUME handler[r].pc = "encode", ~ audit'[r].disturbed
        PROVE  /\ handler[r].slice.array = storage'.array => k <= storage'.len
               /\ \A v \in Write : handler'[v].pc \in {"write", "store"}
                                     /\ handler'[v].slice.array = handler[r].slice.array => k <= storage'.len
    <3>1. ~ Removes(w)
      BY <1>1, <1>2, <2>1, <2>4 DEF Witnessed, Active
    <3>2. handler[w].slice.array = handler[r].slice.array => k <= storage.len
      BY <1>1, <1>2, <2>1, <2>3, <2>4 DEF Walking
    <3>3. k \in Nat
      BY <2>1, <2>3 DEF RepoTypes, Goroutine, Bounds
    <3>4. handler[r].slice.array = storage'.array => k <= storage'.len
      BY <1>5, <3>1, <3>2, <3>3
    <3>5. \A v \in Write : handler'[v].pc \notin {"write", "store"}
      BY <1>4, <2>1 DEF Active
    <3> QED
      BY <3>4, <3>5
  <2>5. audit[r].valid \subseteq audit'[r].valid /\ audit'[r].kept \subseteq audit[r].kept
        /\ (audit[r].disturbed => audit'[r].disturbed)
    BY <1>2
  <2>6. Walking(r)'
    BY <2>1, <2>3, <2>4, <2>5, WalkingKept
  <2> QED
    BY <2>2, <2>6
<1> QED
  BY <1>2, <1>6 DEF ReadersInv

\* The reads that a new write overlaps know of it.
LEMMA StartWriteReads ==
  ASSUME RepoTypes, WriterInv, ReadersInv, Overlap \in Nat, Overlap <= 1,
         NEW w \in Write, NEW td \in TrustDomain, NEW op \in {"post", "put", "delete"},
         StartWrite(w, op, td)
  PROVE  ReadersInv'
<1> DEFINE next == IF op = "delete" THEN "header" ELSE "lookup"
           n == [handler[w] EXCEPT !.pc = next, !.op = op, !.td = td]
<1>1. /\ \A v \in Write : ~ Active(v)
      /\ w \in Request /\ w \notin Read /\ handler[w] \in Goroutine /\ handler \in [Request -> Goroutine]
      /\ UNCHANGED <<arrays, storage, published>> /\ handler' = [handler EXCEPT ![w] = n]
  <2>1. \A v \in Write : ~ Active(v)
    BY NoneInProgress DEF StartWrite
  <2> QED
    BY <2>1, RequestAssumption DEF StartWrite, Request, RepoTypes
<1>2. next \in {"header", "lookup"}
  OBVIOUS
<1> HIDE DEF next
<1>3. n.pc = next /\ n.op = op /\ n.td = td /\ n.slice = handler[w].slice
  BY <1>1 DEF Goroutine
<1> HIDE DEF n
<1>4. handler'[w] = n /\ \A h \in Request \ {w} : handler'[h] = handler[h]
  BY <1>1
<1>5. \A v \in Write : v # w => handler'[v] = handler[v] /\ ~ Active(v)'
  BY <1>1, <1>4 DEF Active, Request
<1>6. ASSUME NEW r \in Read PROVE Witnessed(r)' /\ Walking(r)' /\ ReadSoFar(r)'
  <2>1. /\ r \in Request /\ handler'[r] = handler[r]
        /\ Witnessed(r) /\ Walking(r) /\ ReadSoFar(r) /\ audit[r] \in Audit
    BY <1>1, <1>4 DEF Request, ReadersInv, RepoTypes
  <2>2. audit'[r] = IF ~ Active(r) THEN audit[r]
                    ELSE IF op = "delete" THEN [audit[r] EXCEPT !.kept = @ \ {td}, !.disturbed = TRUE]
                    ELSE [audit[r] EXCEPT !.valid = @ \cup {<<w, td>>}]
    BY DEF StartWrite, Overlapped
  <2>3. CASE ~ Active(r)
    <3>1. audit'[r] = audit[r] /\ ~ Active(r)' /\ handler'[r].pc # "encode"
      BY <2>1, <2>2, <2>3 DEF Active
    <3> QED
      BY <2>1, <3>1, ReadSoFarKept DEF Witnessed, Walking
  <2>4. CASE Active(r)
    <3>1. /\ op = "delete" => /\ audit'[r].valid = audit[r].valid /\ audit'[r].kept = audit[r].kept \ {td}
                              /\ audit'[r].disturbed
          /\ op # "delete" => /\ audit'[r].valid = audit[r].valid \cup {<<w, td>>}
                              /\ audit'[r].kept = audit[r].kept
                              /\ (audit'[r].disturbed <=> audit[r].disturbed)
      BY <2>1, <2>2, <2>4 DEF Audit
    <3>2. /\ audit[r].valid \subseteq audit'[r].valid /\ audit'[r].kept \subseteq audit[r].kept
          /\ audit[r].disturbed => audit'[r].disturbed
      BY <3>1
    <3>3. ReadSoFar(r)'
      BY <2>1, <3>2, ReadSoFarKept
    <3>4. Witnessed(r)'
      <4>1. /\ Range(published) \subseteq audit[r].valid
            /\ ~ audit[r].disturbed => audit[r].kept \subseteq Members
        BY <2>1, <2>4 DEF Witnessed
      <4>2. Members' = Members /\ published' = published
        BY <1>1 DEF Members
      <4>3. Range(published') \subseteq audit'[r].valid
        BY <3>2, <4>1, <4>2
      <4>4. \A v \in Write : Active(v)' /\ ~ Removes(v)' => <<v, handler'[v].td>> \in audit'[r].valid
        BY <1>3, <1>4, <1>5, <3>1 DEF Removes
      <4>5. ~ audit'[r].disturbed => \A v \in Write : Active(v)' => ~ Removes(v)'
        BY <1>3, <1>4, <1>5, <3>1 DEF Removes
      <4>6. ~ audit'[r].disturbed => audit'[r].kept \subseteq Members'
        BY <3>2, <4>1, <4>2
      <4> QED
        BY <4>3, <4>4, <4>5, <4>6 DEF Witnessed
    <3>5. PICK k, A, V : /\ k = handler[r].slice.len /\ A = arrays[handler[r].slice.array]
                         /\ A = arrays'[handler[r].slice.array] /\ V = audit'[r].valid
      BY <1>1
    <3>6. ASSUME handler[r].pc = "encode", ~ audit'[r].disturbed
          PROVE  /\ handler[r].slice.array = storage'.array => k <= storage'.len
                 /\ \A v \in Write : handler'[v].pc \in {"write", "store"}
                                       /\ handler'[v].slice.array = handler[r].slice.array => k <= storage'.len
      <4>1. handler[r].slice.array = storage'.array => k <= storage'.len
        BY <1>1, <2>1, <3>2, <3>5, <3>6 DEF Walking
      <4>2. \A v \in Write : handler'[v].pc \notin {"write", "store"}
        BY <1>2, <1>3, <1>4, <1>5 DEF Active
      <4> QED
        BY <4>1, <4>2
    <3>7. Walking(r)'
      BY <2>1, <3>2, <3>5, <3>6, WalkingKept
    <3> QED
      BY <3>3, <3>4, <3>7
  <2> QED
    BY <2>3, <2>4
<1>7. \A h \in Request : handler'[h].slice = handler[h].slice
  BY <1>3, <1>4
<1> QED
  BY <1>1, <1>6, <1>7 DEF ReadersInv

\* A read keeps what it has while nothing but other reads moves.
LEMMA ReadUndisturbed ==
  ASSUME RepoTypes, NEW r \in Read, Witnessed(r), Walking(r), ReadSoFar(r),
         UNCHANGED <<arrays, storage, published>>,
         handler'[r] = handler[r], audit'[r] = audit[r], \A w \in Write : handler'[w] = handler[w]
  PROVE  Witnessed(r)' /\ Walking(r)' /\ ReadSoFar(r)'
<1>1. ReadSoFar(r)'
  BY ReadSoFarKept
<1>2. Witnessed(r)'
  <2>1. Members' = Members
    BY DEF Members
  <2> QED
    BY <2>1 DEF Witnessed, Active, Removes
<1>3. PICK k, A, V : /\ k = handler[r].slice.len /\ A = arrays[handler[r].slice.array]
                     /\ A = arrays'[handler[r].slice.array] /\ V = audit'[r].valid
  OBVIOUS
<1>4. handler[r].pc = "encode" /\ ~ audit'[r].disturbed =>
        /\ handler[r].slice.array = storage'.array => k <= storage'.len
        /\ \A v \in Write : handler'[v].pc \in {"write", "store"}
                              /\ handler'[v].slice.array = handler[r].slice.array => k <= storage'.len
  BY <1>3 DEF Walking
<1>5. Walking(r)'
  BY <1>3, <1>4, WalkingKept
<1> QED
  BY <1>1, <1>2, <1>5

LEMMA StartReadReads ==
  ASSUME RepoTypes, WriterInv, ReadersInv, NEW r \in Read, StartRead(r)
  PROVE  ReadersInv'
<1>1. /\ UNCHANGED <<arrays, storage, published>>
      /\ handler'[r].pc = "header" /\ handler'[r].out = << >> /\ handler'[r].slice = handler[r].slice
      /\ \A k \in Request \ {r} : handler'[k] = handler[k]
      /\ \A q \in Read : q # r => audit'[q] = audit[q]
      /\ audit'[r] =
           [valid |-> Range(published)
                        \cup {<<w, handler[w].td>> : w \in {v \in InProgress : ~ Removes(v)}},
            kept |-> Members \ {handler[w].td : w \in {v \in InProgress : Removes(v)}},
            disturbed |-> \E w \in InProgress : Removes(w)]
  BY StartReadTypes
<1>2. \A w \in Write : handler'[w] = handler[w] /\ w \in Request
  BY <1>1, RequestAssumption DEF Request
<1>3. Members' = Members
  BY <1>1 DEF Members
<1>4. Witnessed(r)'
  <2>1. Range(published) \subseteq audit'[r].valid
    BY <1>1
  <2>2. \A w \in Write : Active(w) /\ ~ Removes(w) => <<w, handler[w].td>> \in audit'[r].valid
    BY <1>1 DEF InProgress
  <2>3. ~ audit'[r].disturbed => \A w \in Write : Active(w) => ~ Removes(w)
    BY <1>1 DEF InProgress
  <2>4. audit'[r].kept \subseteq Members
    BY <1>1
  <2> QED
    BY <1>1, <1>2, <1>3, <2>1, <2>2, <2>3, <2>4 DEF Witnessed, Active, Removes
<1>5. Walking(r)'
  BY <1>1 DEF Walking
<1>6. ReadSoFar(r)'
  <2>1. Len(handler'[r].out) = 0
    BY <1>1
  <2>2. \A i \in Nat \ {0} : ~ (2 * i - 1 <= 0) /\ ~ (2 * i <= 0)
    OBVIOUS
  <2> QED
    BY <1>1, <2>1, <2>2 DEF ReadSoFar
<1>7. ASSUME NEW q \in Read, q # r PROVE Witnessed(q)' /\ Walking(q)' /\ ReadSoFar(q)'
  <2>1. Witnessed(q) /\ Walking(q) /\ ReadSoFar(q) /\ handler'[q] = handler[q] /\ audit'[q] = audit[q]
    BY <1>1, <1>7 DEF ReadersInv, Request
  <2> QED
    BY <1>1, <1>2, <2>1, ReadUndisturbed
<1>8. \A h \in Request : handler'[h].slice = handler[h].slice
  BY <1>1
<1> QED
  BY <1>1, <1>4, <1>5, <1>6, <1>7, <1>8 DEF ReadersInv

\* The walk begins on the stored slice.
LEMMA GetHeaderReads ==
  ASSUME RepoTypes, WriterInv, ReadersInv, NEW r \in Read, ReadHeader(r)
  PROVE  ReadersInv'
<1>1. /\ UNCHANGED <<arrays, storage, published, audit>>
      /\ handler[r].pc = "header" /\ handler'[r].pc = "encode" /\ handler'[r].slice = storage
      /\ handler'[r].c = 1 /\ handler'[r].out = handler[r].out
      /\ \A k \in Request \ {r} : handler'[k] = handler[k]
  BY GetHeaderTypes
<1>2. \A w \in Write : handler'[w] = handler[w] /\ w \in Request
  BY <1>1, RequestAssumption DEF Request
<1>3. Members' = Members
  BY <1>1 DEF Members
<1>4. Witnessed(r) /\ Active(r) /\ handler[r].out = << >> /\ storage.len \in Nat
  BY <1>1 DEF ReadersInv, ReadSoFar, Active, RepoTypes, Bounds
<1>5. Witnessed(r)'
  BY <1>1, <1>2, <1>3, <1>4 DEF Witnessed, Active, Removes
<1>6. Len(handler'[r].out) = 0 /\ \A i \in Nat \ {0} : ~ (2 * i - 1 <= 0) /\ ~ (2 * i <= 0)
  BY <1>1, <1>4
<1>7. ReadSoFar(r)'
  BY <1>1, <1>6 DEF ReadSoFar
<1>8. Walking(r)'
  <2>1. PICK A, V : A = Contents /\ A = arrays'[handler'[r].slice.array] /\ V = audit[r].valid /\ V = audit'[r].valid
    BY <1>1 DEF Contents
  <2>2. PICK s, k : s = storage /\ k = storage.len
    OBVIOUS
  <2>3. /\ \A i \in 1..k : BundleOf(V, BundleAt(A, i)) /\ NameOf(V, NameAt(A, i))
        /\ ~ audit[r].disturbed =>
              /\ \A i \in 1..k : <<BundleAt(A, i), NameAt(A, i)>> \in V
              /\ \A td \in audit[r].kept : \E i \in 1..k : NameAt(A, i) = td
    BY <1>4, <2>1, <2>2, SlotsWitnessed
  <2>4. handler'[r].slice = s /\ s.len = k /\ storage' = s /\ k \in Nat
    BY <1>1, <1>4, <2>2
  <2>5. /\ handler'[r].c = Len(handler'[r].out) + 1 /\ Len(handler'[r].out) <= 2 * k
        /\ \A i \in 1..k : ~ (2 * i - 1 <= Len(handler'[r].out)) /\ ~ (2 * i <= Len(handler'[r].out))
        /\ k <= k
    BY <1>1, <1>6, <2>4
  <2> QED
    BY <1>1, <2>1, <2>3, <2>4, <2>5 DEF Walking
<1>9. ASSUME NEW q \in Read, q # r PROVE Witnessed(q)' /\ Walking(q)' /\ ReadSoFar(q)'
  <2>1. Witnessed(q) /\ Walking(q) /\ ReadSoFar(q) /\ handler'[q] = handler[q] /\ audit'[q] = audit[q]
    BY <1>1, <1>9 DEF ReadersInv, Request
  <2> QED
    BY <1>1, <1>2, <2>1, ReadUndisturbed
<1>10. storage'.array = 0 => \A h \in Request : handler'[h].slice.array = 0
  BY <1>1 DEF ReadersInv
<1> QED
  BY <1>5, <1>7, <1>8, <1>9, <1>10 DEF ReadersInv

\* The next cell of slot i is encoded.
LEMMA EncodeCellReads ==
  ASSUME RepoTypes, WriterInv, ReadersInv, NEW r \in Read, EncodeCell(r)
  PROVE  Witnessed(r)' /\ Walking(r)' /\ ReadSoFar(r)'
<1>1. /\ UNCHANGED <<arrays, storage, published, audit>>
      /\ handler[r].pc = "encode" /\ handler[r].c \in Nat
      /\ \A k \in Request \ {r} : handler'[k] = handler[k]
      /\ \/ /\ handler[r].c <= 2 * handler[r].slice.len
            /\ handler'[r].pc = "encode" /\ handler'[r].slice = handler[r].slice
            /\ handler'[r].c = handler[r].c + 1
            /\ handler'[r].out = Append(handler[r].out, arrays[handler[r].slice.array][handler[r].c])
         \/ /\ handler[r].c > 2 * handler[r].slice.len
            /\ handler'[r].pc = "done" /\ handler'[r].out = handler[r].out
            /\ handler'[r].slice = NoSlice
  BY EncodeCellTypes
<1>2. \A w \in Write : handler'[w] = handler[w] /\ w \in Request
  BY <1>1, RequestAssumption DEF Request
<1>3. Members' = Members
  BY <1>1 DEF Members
<1>4. Witnessed(r) /\ Walking(r) /\ ReadSoFar(r) /\ Active(r) /\ r \in Request
  BY <1>1 DEF ReadersInv, Active, Request
<1>5. Witnessed(r)'
  BY <1>1, <1>2, <1>3, <1>4 DEF Witnessed, Active, Removes
<1>6. PICK s, k, A, V, o, out, c :
        /\ s = handler[r].slice /\ k = s.len /\ A = arrays[s.array] /\ V = audit[r].valid
        /\ o = handler[r].out /\ out = handler'[r].out /\ c = handler[r].c
  OBVIOUS
<1>7. k \in Nat /\ o \in Seq(Cell) /\ c \in Nat /\ Len(o) \in Nat
  <2>1. s \in Bounds /\ o \in Seq(Cell)
    BY <1>4, <1>6 DEF RepoTypes, Goroutine
  <2> QED
    BY <1>1, <1>6, <2>1, LenProperties DEF Bounds
<1>8. /\ \A i \in 1..k : BundleOf(V, BundleAt(A, i)) /\ NameOf(V, NameAt(A, i))
      /\ c = Len(o) + 1 /\ Len(o) <= 2 * k
  BY <1>1, <1>4, <1>6 DEF Walking
<1>9. ~ audit[r].disturbed =>
        /\ s.array = storage.array => k <= storage.len
        /\ \A w \in Write : handler[w].pc \in {"write", "store"} /\ handler[w].slice.array = s.array
                              => k <= storage.len
        /\ \A i \in 1..k : <<BundleAt(A, i), NameAt(A, i)>> \in V
        /\ \A td \in audit[r].kept : \E i \in 1..k : NameAt(A, i) = td
        /\ \A i \in 1..k : /\ 2 * i - 1 <= Len(o) => <<BundleAt(o, i), NameAt(A, i)>> \in V
                           /\ 2 * i <= Len(o) => NameAt(o, i) = NameAt(A, i)
  BY <1>1, <1>4, <1>6 DEF Walking
<1>10. \A i \in Nat \ {0} : /\ 2 * i - 1 <= Len(o) => BundleOf(V, BundleAt(o, i))
                            /\ 2 * i <= Len(o) => NameOf(V, NameAt(o, i))
  BY <1>4, <1>6 DEF ReadSoFar
<1>11. CASE c <= 2 * k
  <2>1. /\ handler'[r].pc = "encode" /\ handler'[r].slice = s /\ handler'[r].c = c + 1
        /\ out = Append(o, A[c])
    BY <1>1, <1>6, <1>7, <1>11
  <2>2. /\ Len(out) = Len(o) + 1 /\ out[Len(o) + 1] = A[c]
        /\ \A j \in 1..Len(o) : out[j] = o[j]
    <3>1. o \in Seq(Cell \cup {A[c]})
      <4>1. \A j \in 1..Len(o) : o[j] \in Cell \cup {A[c]}
        BY <1>7, ElementOfSeq
      <4>2. o = [j \in 1..Len(o) |-> o[j]]
        BY <1>7, LenProperties
      <4> QED
        BY <1>7, <4>1, <4>2, IsASeq
    <3> QED
      BY <2>1, <3>1, AppendProperties
  <2>3. ASSUME NEW i \in Nat \ {0}
        PROVE  /\ 2 * i - 1 <= Len(out) => \/ 2 * i - 1 <= Len(o) /\ BundleAt(out, i) = BundleAt(o, i)
                                           \/ i \in 1..k /\ BundleAt(out, i) = BundleAt(A, i)
               /\ 2 * i <= Len(out) => \/ 2 * i <= Len(o) /\ NameAt(out, i) = NameAt(o, i)
                                       \/ i \in 1..k /\ NameAt(out, i) = NameAt(A, i)
    <3>1. PICK l \in Nat : l = Len(o) /\ Len(out) = l + 1 /\ c = l + 1 /\ l + 1 <= 2 * k
      BY <1>7, <1>8, <1>11, <2>2
    <3>2. /\ 2 * i - 1 <= l => 2 * i - 1 \in 1..l
          /\ 2 * i <= l => 2 * i \in 1..l
          /\ 2 * i - 1 <= l + 1 => 2 * i - 1 <= l \/ 2 * i - 1 = l + 1
          /\ 2 * i <= l + 1 => 2 * i <= l \/ 2 * i = l + 1
          /\ 2 * i - 1 = l + 1 \/ 2 * i = l + 1 => i \in 1..k
      BY <1>7, <3>1
    <3>3. 2 * i - 1 <= l => BundleAt(out, i) = BundleAt(o, i)
      BY <2>2, <3>1, <3>2 DEF BundleAt
    <3>4. 2 * i <= l => NameAt(out, i) = NameAt(o, i)
      BY <2>2, <3>1, <3>2 DEF NameAt
    <3>5. 2 * i - 1 = l + 1 => BundleAt(out, i) = BundleAt(A, i)
      BY <2>2, <3>1 DEF BundleAt
    <3>6. 2 * i = l + 1 => NameAt(out, i) = NameAt(A, i)
      BY <2>2, <3>1 DEF NameAt
    <3> QED
      BY <3>1, <3>2, <3>3, <3>4, <3>5, <3>6
  <2>4. \A i \in Nat \ {0} : /\ 2 * i - 1 <= Len(out) => BundleOf(V, BundleAt(out, i))
                             /\ 2 * i <= Len(out) => NameOf(V, NameAt(out, i))
    <3>1. ASSUME NEW i \in Nat \ {0}
          PROVE  /\ 2 * i - 1 <= Len(out) => BundleOf(V, BundleAt(out, i))
                 /\ 2 * i <= Len(out) => NameOf(V, NameAt(out, i))
      <4>1. /\ 2 * i - 1 <= Len(o) => BundleOf(V, BundleAt(o, i))
            /\ 2 * i <= Len(o) => NameOf(V, NameAt(o, i))
            /\ i \in 1..k => BundleOf(V, BundleAt(A, i)) /\ NameOf(V, NameAt(A, i))
        BY <1>8, <1>10
      <4> QED
        BY <2>3, <4>1
    <3> QED
      BY <3>1
  <2>5. ReadSoFar(r)'
    BY <1>1, <1>6, <2>1, <2>4 DEF ReadSoFar
  <2>6. ASSUME ~ audit[r].disturbed, NEW i \in 1..k
        PROVE  /\ 2 * i - 1 <= Len(out) => <<BundleAt(out, i), NameAt(A, i)>> \in V
               /\ 2 * i <= Len(out) => NameAt(out, i) = NameAt(A, i)
    <3>1. i \in Nat \ {0}
      BY <1>7
    <3>2. /\ <<BundleAt(A, i), NameAt(A, i)>> \in V
          /\ 2 * i - 1 <= Len(o) => <<BundleAt(o, i), NameAt(A, i)>> \in V
          /\ 2 * i <= Len(o) => NameAt(o, i) = NameAt(A, i)
      BY <1>9, <2>6
    <3>3. 2 * i - 1 <= Len(out) => <<BundleAt(out, i), NameAt(A, i)>> \in V
      BY <2>3, <3>1, <3>2
    <3>4. 2 * i <= Len(out) => NameAt(out, i) = NameAt(A, i)
      BY <2>3, <3>1, <3>2
    <3> QED
      BY <3>3, <3>4
  <2>7. handler'[r].c = Len(out) + 1 /\ Len(out) <= 2 * k
    BY <1>7, <1>8, <1>11, <2>1, <2>2
  <2>8. /\ handler'[r].slice.len = k /\ arrays'[handler'[r].slice.array] = A /\ audit'[r].valid = V
        /\ handler'[r].slice.array = s.array /\ storage' = storage /\ audit' = audit
    BY <1>1, <1>6, <2>1
  <2>9. Walking(r)'
    BY <1>2, <1>6, <1>8, <1>9, <2>6, <2>7, <2>8 DEF Walking
  <2> QED
    BY <1>5, <2>5, <2>9
<1>12. CASE ~ (c <= 2 * k)
  <2>1. handler'[r].pc = "done" /\ out = o
    BY <1>1, <1>6, <1>7, <1>12
  <2>2. Len(o) = 2 * k
    BY <1>7, <1>8, <1>12
  <2>3. ASSUME ~ audit[r].disturbed, NEW i \in Nat \ {0}, 2 * i <= Len(o)
        PROVE  <<BundleAt(o, i), NameAt(o, i)>> \in V
    <3>1. i \in 1..k /\ 2 * i - 1 <= Len(o)
      BY <1>7, <2>2, <2>3
    <3> QED
      BY <1>9, <2>3, <3>1
  <2>4. ASSUME ~ audit[r].disturbed, NEW td \in audit[r].kept
        PROVE  \E i \in Nat \ {0} : 2 * i <= Len(o) /\ NameAt(o, i) = td
    <3>1. PICK i \in 1..k : NameAt(A, i) = td
      BY <1>9, <2>4
    <3>2. i \in Nat \ {0} /\ 2 * i <= Len(o)
      BY <1>7, <2>2, <3>1
    <3> QED
      BY <1>9, <2>4, <3>1, <3>2
  <2>5. audit' = audit
    BY <1>1
  <2>6. ReadSoFar(r)'
    BY <1>6, <1>7, <1>10, <2>1, <2>2, <2>3, <2>4, <2>5 DEF ReadSoFar
  <2>7. Walking(r)'
    BY <2>1 DEF Walking
  <2> QED
    BY <1>5, <2>6, <2>7
<1> QED
  BY <1>11, <1>12

\* The part of the invariant about the reads is inductive too.
LEMMA ReadersStep ==
  ASSUME RepoTypes, WriterInv, ReadersInv, Overlap \in Nat, Overlap <= 1, [Next]_vars
  PROVE  ReadersInv'
<1>1. ASSUME NEW w \in Write, NEW td \in TrustDomain, NEW op \in {"post", "put", "delete"},
             StartWrite(w, op, td)
      PROVE  ReadersInv'
  BY <1>1, StartWriteReads
<1>2. ASSUME NEW r \in Read, EncodeCell(r) PROVE ReadersInv'
  <2>1. /\ UNCHANGED <<arrays, storage, published, audit>>
        /\ \A k \in Request \ {r} : handler'[k] = handler[k]
        /\ handler'[r].slice \in {handler[r].slice, NoSlice}
    BY <1>2, EncodeCellTypes
  <2>2. \A w \in Write : handler'[w] = handler[w]
    BY <2>1, RequestAssumption DEF Request
  <2>3. ASSUME NEW q \in Read PROVE Witnessed(q)' /\ Walking(q)' /\ ReadSoFar(q)'
    <3>1. CASE q = r
      BY <1>2, <3>1, EncodeCellReads
    <3>2. CASE q # r
      <4>1. Witnessed(q) /\ Walking(q) /\ ReadSoFar(q) /\ handler'[q] = handler[q] /\ audit'[q] = audit[q]
        BY <2>1, <3>2 DEF ReadersInv, Request
      <4> QED
        BY <2>1, <2>2, <4>1, ReadUndisturbed
    <3> QED
      BY <3>1, <3>2
  <2>4. storage'.array = 0 => \A h \in Request : handler'[h].slice.array = 0
    BY <2>1 DEF ReadersInv, NoSlice
  <2> QED
    BY <2>3, <2>4 DEF ReadersInv
<1>3. ASSUME NEW w \in Write, Handle(w) PROVE ReadersInv'
  <2>1. w \notin Read
    BY RequestAssumption
  <2> QED
    BY <1>3, <2>1, QuietReads, StoreEmptyReads, AppendSlotReads, WriteCellReads, ShiftCellReads,
       StoreHeaderReads DEF Handle
<1>4. ASSUME NEW r \in Read, Handle(r) PROVE ReadersInv'
  <2>1. r \notin Write
    BY RequestAssumption
  <2> QED
    BY <1>2, <1>4, <2>1, GetHeaderReads DEF Handle
<1>5. CASE \/ ConcurrentMapFatal
           \/ \E s \in Subscriber : Subscribe(s) \/ WaitForEvent(s) \/ Unsubscribe(s)
           \/ UNCHANGED vars
  <2>1. UNCHANGED <<arrays, storage, handler, published, audit>>
    BY <1>5, OtherSteps
  <2>2. ASSUME NEW q \in Read PROVE Witnessed(q)' /\ Walking(q)' /\ ReadSoFar(q)'
    <3>1. /\ Witnessed(q) /\ Walking(q) /\ ReadSoFar(q) /\ handler'[q] = handler[q] /\ audit'[q] = audit[q]
          /\ \A w \in Write : handler'[w] = handler[w]
      BY <2>1 DEF ReadersInv
    <3> QED
      BY <2>1, <3>1, ReadUndisturbed
  <2> QED
    BY <2>1, <2>2 DEF ReadersInv
<1> QED
  BY <1>1, <1>3, <1>4, <1>5, StartReadReads DEF Next, Request

LEMMA InitReaders ==
  ASSUME Init
  PROVE  ReadersInv
<1>1. \A h \in Request : handler[h] = Fresh
  BY DEF Init
<1>2. /\ Fresh.pc = "idle" /\ Fresh.out = << >> /\ Fresh.slice = NoSlice
      /\ Len(Fresh.out) = 0 /\ \A i \in Nat \ {0} : ~ (2 * i - 1 <= 0) /\ ~ (2 * i <= 0)
  BY DEF Fresh
<1>3. ASSUME NEW r \in Read PROVE Witnessed(r) /\ Walking(r) /\ ReadSoFar(r)
  <2>1. handler[r] = Fresh
    BY <1>1 DEF Request
  <2> QED
    BY <1>2, <2>1 DEF Witnessed, Active, Walking, ReadSoFar
<1>4. \A h \in Request : handler[h].slice.array = 0
  BY <1>1, <1>2 DEF NoSlice
<1> QED
  BY <1>3, <1>4 DEF ReadersInv

\* The whole invariant holds of every behaviour with one write at a time.
LEMMA RepoInvariant ==
  ASSUME Overlap \in Nat, Overlap <= 1
  PROVE  Spec => []RepoInv
<1>1. Init => RepoInv
  BY InitTypes, InitReaders DEF RepoInv
<1>2. RepoInv /\ [Next]_vars => RepoInv'
  BY WriterStep, ReadersStep DEF RepoInv
<1> QED
  BY <1>1, <1>2, PTL DEF Spec

\* The pairs of an answer that is complete.
LEMMA AnswerPairs ==
  ASSUME RepoInv, NEW r \in Read, Answered(r)
  PROVE  \A e : e \in Returned(r) <=>
           \E i \in Nat \ {0} : /\ 2 * i <= Len(handler[r].out) /\ 2 * i - 1 <= Len(handler[r].out)
                                /\ e = <<BundleAt(handler[r].out, i), NameAt(handler[r].out, i)>>
<1>1. PICK out, n : n \in Nat /\ out = handler[r].out /\ Len(out) = 2 * n
  BY DEF RepoInv, ReadersInv, ReadSoFar, Answered
<1>2. (2 * n) \div 2 = n
  BY <1>1
<1>3. Returned(r) = {<<BundleAt(out, i), NameAt(out, i)>> : i \in 1..n}
  BY <1>1, <1>2 DEF Returned, BundleAt, NameAt
<1>4. \A i : i \in 1..n <=> i \in Nat \ {0} /\ 2 * i <= 2 * n /\ 2 * i - 1 <= 2 * n
  BY <1>1
<1> QED
  BY <1>1, <1>3, <1>4

\* A GET that no deletion overlaps returns what was published, under the right
\* names, and misses nothing, whatever appends and overwrites go on in the array
\* it walks (GET /bundles encodes the shared slice with no lock).
THEOREM ReadsAreClean ==
  ASSUME Overlap \in Nat, Overlap <= 1
  PROVE  Spec => []CleanReads
<1>1. RepoInv => CleanReads
  <2>1. SUFFICES ASSUME RepoInv, NEW r \in Read, Answered(r), ~ audit[r].disturbed
                 PROVE  /\ Returned(r) \subseteq audit[r].valid
                        /\ audit[r].kept \subseteq ReturnedNames(r)
    BY DEF CleanReads
  <2> DEFINE out == handler[r].out
  <2>2. /\ \A i \in Nat \ {0} : 2 * i <= Len(out) => <<BundleAt(out, i), NameAt(out, i)>> \in audit[r].valid
        /\ \A td \in audit[r].kept : \E i \in Nat \ {0} : 2 * i <= Len(out) /\ NameAt(out, i) = td
        /\ \E n \in Nat : Len(out) = 2 * n
    BY <2>1 DEF RepoInv, ReadersInv, ReadSoFar, Answered
  <2>3. \A e : e \in Returned(r) <=>
           \E i \in Nat \ {0} : /\ 2 * i <= Len(out) /\ 2 * i - 1 <= Len(out)
                                /\ e = <<BundleAt(out, i), NameAt(out, i)>>
    BY <2>1, AnswerPairs
  <2> HIDE DEF out
  <2>4. Returned(r) \subseteq audit[r].valid
    BY <2>2, <2>3
  <2>5. ASSUME NEW td \in audit[r].kept PROVE td \in ReturnedNames(r)
    <3>1. PICK i \in Nat \ {0} : 2 * i <= Len(out) /\ NameAt(out, i) = td
      BY <2>2
    <3>2. 2 * i - 1 <= Len(out)
      BY <2>2, <3>1
    <3>3. <<BundleAt(out, i), NameAt(out, i)>> \in Returned(r)
      BY <2>3, <3>1, <3>2
    <3> QED
      BY <3>1, <3>3 DEF ReturnedNames
  <2> QED
    BY <2>4, <2>5
<1> QED
  BY <1>1, RepoInvariant, PTL

\* Whatever overlaps a GET, deletions that shift the array under it included,
\* every bundle and every name it returns was current during the request.
THEOREM ReadsAreCurrent ==
  ASSUME Overlap \in Nat, Overlap <= 1
  PROVE  Spec => []ReadsWereCurrent
<1>1. RepoInv => ReadsWereCurrent
  <2>1. SUFFICES ASSUME RepoInv, NEW r \in Read, Answered(r), NEW e \in Returned(r)
                 PROVE  /\ \E f \in audit[r].valid : f[1] = e[1]
                        /\ \E f \in audit[r].valid : f[2] = e[2]
    BY DEF ReadsWereCurrent, ReturnedNames
  <2> DEFINE out == handler[r].out
  <2>2. \A i \in Nat \ {0} : /\ 2 * i - 1 <= Len(out) => BundleOf(audit[r].valid, BundleAt(out, i))
                             /\ 2 * i <= Len(out) => NameOf(audit[r].valid, NameAt(out, i))
    BY <2>1 DEF RepoInv, ReadersInv, ReadSoFar
  <2>3. PICK i \in Nat \ {0} : /\ 2 * i <= Len(out) /\ 2 * i - 1 <= Len(out)
                               /\ e = <<BundleAt(out, i), NameAt(out, i)>>
    BY <2>1, AnswerPairs
  <2> HIDE DEF out
  <2>4. e[1] = BundleAt(out, i) /\ e[2] = NameAt(out, i)
    BY <2>3
  <2> QED
    BY <2>2, <2>3, <2>4 DEF BundleOf, NameOf
<1> QED
  BY <1>1, RepoInvariant, PTL

\* Every variable keeps its type, and no request refers to a slot beyond the
\* capacity of its array.
THEOREM RepoTypesHold ==
  ASSUME Overlap \in Nat, Overlap <= 1
  PROVE  Spec => []TypeOK
<1>1. ASSUME RepoTypes PROVE TypeOK
  <2>1. Len(arrays) \in Nat /\ \A k \in 1..Len(arrays) : arrays[k] \in Seq(Write \cup TrustDomain \cup {None})
    BY <1>1, HeapShape DEF Cell
  <2>2. ASSUME NEW s \in Bounds, Within(arrays, s)
        PROVE  /\ s \in Slice
               /\ s.array # 0 => s.len <= Cap(s)
               /\ s.array = 0 => s.len = 0
    <3>1. /\ s.array \in 0..Len(arrays) /\ s.len \in Nat
          /\ s.array = 0 => s.len = 0
          /\ s.array # 0 => 2 * s.len <= Len(arrays[s.array]) /\ s.array \in 1..Len(arrays)
      BY <2>1, <2>2 DEF Within, Bounds
    <3>2. s \in Slice
      BY <2>2, <3>1 DEF Bounds, Slice
    <3>3. ASSUME s.array # 0 PROVE s.len <= Cap(s)
      <4>1. PICK n \in Nat : Len(arrays[s.array]) = 2 * n
        BY <1>1, <3>1, <3>3 DEF RepoTypes, Paired
      <4>2. (2 * n) \div 2 = n /\ s.len <= n
        BY <3>1, <3>3, <4>1
      <4> QED
        BY <4>1, <4>2 DEF Cap
    <3> QED
      BY <3>1, <3>2, <3>3
  <2>3. storage \in Slice
    BY <1>1, <2>2 DEF RepoTypes
  <2>4. ASSUME NEW h \in Request
        PROVE  /\ handler[h].slice \in Slice
               /\ handler[h].slice.array # 0 => handler[h].slice.len <= Cap(handler[h].slice)
               /\ handler[h].slice.array = 0 => handler[h].slice.len = 0
               /\ handler[h].td \in TrustDomain \cup {None}
               /\ handler[h].out \in Seq(Write \cup TrustDomain \cup {None})
               /\ handler[h].status \in {"none", "ok", "not found", "aborted"}
    <3>1. handler[h] \in Goroutine /\ Within(arrays, handler[h].slice)
      BY <1>1 DEF RepoTypes
    <3>2. /\ handler[h].slice \in Bounds /\ handler[h].td \in TrustDomain \cup {None}
          /\ handler[h].out \in Seq(Write \cup TrustDomain \cup {None})
          /\ handler[h].status \in {"none", "ok", "not found", "aborted"}
      BY <3>1 DEF Goroutine, Cell
    <3> QED
      BY <2>2, <3>1, <3>2
  <2>5. /\ stream \in [Subscriber -> {"away", "busy", "waiting", "gone"}]
        /\ heard \in [Subscriber -> SUBSET Write]
        /\ published \in Seq(Write \X TrustDomain)
        /\ up \in BOOLEAN
    BY <1>1 DEF RepoTypes, Entries
  <2> QED
    BY <2>1, <2>3, <2>4, <2>5 DEF TypeOK
<1>2. RepoInv => TypeOK
  BY <1>1 DEF RepoInv
<1> QED
  BY <1>2, RepoInvariant, PTL

=============================================================================
