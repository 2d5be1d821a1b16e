---------------------- MODULE SpiffeBundleStore_proofs ----------------------
(***************************************************************************)
(* Proofs about the contract, for every set of trust domains and bundles   *)
(* and every chain length. The array and the mappings agree forever        *)
(* (ArrayMirrorsMappings is inductive together with TypeOK), and with that *)
(* the contract implements BundleDirectory.                                *)
(***************************************************************************)
EXTENDS SpiffeBundleStore, SequenceTheorems, WellFoundedInduction, TLAPS

-----------------------------------------------------------------------------
(* Sequences without repetition                                            *)

\* Pushing a new element on an array keeps it free of repetition and adds
\* exactly that element (trustDomains.push in postBundle).
LEMMA PushFresh ==
  ASSUME NEW S, NEW seq \in Seq(S), NEW e \in S,
         IsInjective(seq), e \notin Range(seq)
  PROVE  /\ Append(seq, e) \in Seq(S)
         /\ IsInjective(Append(seq, e))
         /\ Range(Append(seq, e)) = Range(seq) \cup {e}
<1> DEFINE new == Append(seq, e)
           n   == Len(seq)
<1>1. /\ new \in Seq(S)
      /\ Len(new) = n + 1
      /\ \A i \in 1..n : new[i] = seq[i]
      /\ new[n + 1] = e
  BY AppendProperties
<1>2. n \in Nat /\ DOMAIN seq = 1..n /\ DOMAIN new = 1..(n + 1)
  BY <1>1, LenProperties
<1>3. \A i \in 1..n : seq[i] # e
  BY <1>2 DEF Range
<1> HIDE DEF new
<1>4. IsInjective(new)
  BY <1>1, <1>2, <1>3 DEF IsInjective
<1>5. Range(new) = Range(seq) \cup {e}
  <2>1. ASSUME NEW x \in Range(new) PROVE x \in Range(seq) \cup {e}
    <3>1. PICK i \in 1..(n + 1) : new[i] = x
      BY <1>2 DEF Range
    <3>2. CASE i = n + 1
      BY <1>1, <3>1, <3>2
    <3>3. CASE i \in 1..n
      BY <1>1, <1>2, <3>1, <3>3 DEF Range
    <3> QED
      BY <1>2, <3>2, <3>3
  <2>2. ASSUME NEW x \in Range(seq) PROVE x \in Range(new)
    <3>1. PICK i \in 1..n : seq[i] = x
      BY <1>2 DEF Range
    <3>2. i \in DOMAIN new /\ new[i] = x
      BY <1>1, <1>2, <3>1
    <3> QED
      BY <3>2 DEF Range
  <2>3. e \in Range(new)
    <3>1. n + 1 \in DOMAIN new
      BY <1>2
    <3> QED
      BY <1>1, <3>1 DEF Range
  <2> QED
    BY <2>1, <2>2, <2>3
<1> QED
  BY <1>1, <1>4, <1>5 DEF new

\* Swap-and-pop removes exactly the element at slot i: the last element takes
\* its place, nothing is lost and nothing is repeated, i = n included.
LEMMA SwapAndPopRemoves ==
  ASSUME NEW S, NEW seq \in Seq(S), NEW i \in 1..Len(seq), IsInjective(seq)
  PROVE  /\ SwapAndPop(seq, i) \in Seq(S)
         /\ IsInjective(SwapAndPop(seq, i))
         /\ Range(SwapAndPop(seq, i)) = Range(seq) \ {seq[i]}
<1> DEFINE n       == Len(seq)
           swapped == [seq EXCEPT ![i] = seq[n]]
           new     == SwapAndPop(seq, i)
<1>1. n \in Nat /\ n >= 1 /\ DOMAIN seq = 1..n /\ n \in 1..n /\ i \in 1..n
  BY LenProperties
<1>2. seq[n] \in S
  BY <1>1, ElementOfSeq
<1>3. /\ swapped \in Seq(S)
      /\ Len(swapped) = n
      /\ \A j \in 1..n : swapped[j] = IF j = i THEN seq[n] ELSE seq[j]
  BY <1>2, ExceptSeq
<1> HIDE DEF swapped
<1>4. /\ new \in Seq(S)
      /\ Len(new) = n - 1
      /\ \A j \in 1..(n - 1) : new[j] = IF j = i THEN seq[n] ELSE seq[j]
  <2>1. \A j \in 1..(n - 1) : swapped[j] \in S
    BY <1>1, <1>3, ElementOfSeq
  <2>2. new = [j \in 1..(n - 1) |-> swapped[j]]
    <3>1. new = SubSeq(swapped, 1, n - 1)
      BY DEF SwapAndPop, swapped
    <3> QED
      BY <1>1, <1>3, <3>1
  <2>3. [j \in 1..(n - 1) |-> swapped[j]] \in Seq(S)
    BY <1>1, <2>1, IsASeq
  <2> QED
    BY <1>1, <1>3, <2>2, <2>3
<1>5. DOMAIN new = 1..(n - 1)
  BY <1>4, LenProperties
<1> HIDE DEF n, new
<1>6. \A j, k \in 1..n : seq[j] = seq[k] => j = k
  BY <1>1 DEF IsInjective
<1>7. IsInjective(new)
  BY <1>1, <1>4, <1>5, <1>6 DEF IsInjective
<1>8. Range(new) = Range(seq) \ {seq[i]}
  <2>1. ASSUME NEW x \in Range(new) PROVE x \in Range(seq) \ {seq[i]}
    <3>1. PICK j \in 1..(n - 1) : new[j] = x
      BY <1>5 DEF Range
    <3>2. CASE j = i
      <4>1. x = seq[n]
        BY <1>4, <3>1, <3>2
      <4>2. n # i
        BY <1>1, <3>1, <3>2
      <4> QED
        BY <1>1, <1>6, <4>1, <4>2 DEF Range
    <3>3. CASE j # i
      <4>1. x = seq[j] /\ j \in 1..n
        BY <1>1, <1>4, <3>1, <3>3
      <4> QED
        BY <1>1, <1>6, <3>3, <4>1 DEF Range
    <3> QED
      BY <3>2, <3>3
  <2>2. ASSUME NEW x \in Range(seq), x # seq[i] PROVE x \in Range(new)
    <3>1. PICK j \in 1..n : seq[j] = x
      BY <1>1 DEF Range
    <3>2. CASE j = n
      <4>1. i \in 1..(n - 1)
        BY <1>1, <2>2, <3>1, <3>2
      <4>2. new[i] = x
        BY <1>4, <3>1, <3>2, <4>1
      <4> QED
        BY <1>5, <4>1, <4>2 DEF Range
    <3>3. CASE j # n
      <4>1. j # i
        BY <2>2, <3>1
      <4>2. j \in 1..(n - 1)
        BY <1>1, <3>1, <3>3
      <4>3. new[j] = x
        BY <1>4, <3>1, <4>1, <4>2
      <4> QED
        BY <1>5, <4>2, <4>3 DEF Range
    <3> QED
      BY <3>2, <3>3
  <2> QED
    BY <2>1, <2>2
<1> QED
  BY <1>4, <1>7, <1>8 DEF new

-----------------------------------------------------------------------------
(* The inductive invariant                                                 *)

\* TypeOK makes ArrayMirrorsMappings meaningful, and ArrayMirrorsMappings is
\* needed to follow deleteBundle: the scan finds a slot only because the
\* array lists every member, and one slot only because it lists it once.
IInv == TypeOK /\ ArrayMirrorsMappings

\* The scan of deleteBundle finds the one slot that holds a member.
LEMMA OneSlot ==
  ASSUME IInv, NEW td \in TrustDomain, bundleExists[td]
  PROVE  \E i \in 1..Len(trustDomains) :
           trustDomains[i] = td /\ Slots(td) = {i} /\ Min(Slots(td)) = i
<1>1. DOMAIN trustDomains = 1..Len(trustDomains)
  BY LenProperties DEF IInv, TypeOK
<1>2. PICK i \in 1..Len(trustDomains) : trustDomains[i] = td
  BY <1>1 DEF IInv, ArrayMirrorsMappings, Range
<1>3. Slots(td) = {i}
  BY <1>1, <1>2 DEF IInv, ArrayMirrorsMappings, IsInjective, Slots
<1>4. Min({i}) = i
  <2>1. i \in Int
    BY <1>2
  <2> QED
    BY <2>1 DEF Min
<1> QED
  BY <1>2, <1>3, <1>4

\* What each transaction does to the array, in terms of the set it lists.
LEMMA PostArray ==
  ASSUME IInv, NEW td \in TrustDomain, NEW raw \in RawBundle, PostBundle(td, raw)
  PROVE  /\ trustDomains' \in Seq(TrustDomain)
         /\ IsInjective(trustDomains')
         /\ Range(trustDomains') = Range(trustDomains) \cup {td}
<1>1. trustDomains \in Seq(TrustDomain) /\ IsInjective(trustDomains)
  BY DEF IInv, TypeOK, ArrayMirrorsMappings
<1>2. td \notin Range(trustDomains)
  BY DEF IInv, ArrayMirrorsMappings, PostBundle
<1> QED
  BY <1>1, <1>2, PushFresh DEF PostBundle

LEMMA DeleteArray ==
  ASSUME IInv, NEW td \in TrustDomain, DeleteBundle(td)
  PROVE  /\ trustDomains' \in Seq(TrustDomain)
         /\ IsInjective(trustDomains')
         /\ Range(trustDomains') = Range(trustDomains) \ {td}
<1>1. trustDomains \in Seq(TrustDomain) /\ IsInjective(trustDomains)
  BY DEF IInv, TypeOK, ArrayMirrorsMappings
<1>2. PICK i \in 1..Len(trustDomains) :
        trustDomains[i] = td /\ Slots(td) = {i} /\ Min(Slots(td)) = i
  BY OneSlot DEF DeleteBundle
<1>3. trustDomains' = SwapAndPop(trustDomains, i)
  BY <1>2 DEF DeleteBundle
<1> QED
  BY <1>1, <1>2, <1>3, SwapAndPopRemoves

\* Every transaction appends a well-formed event to the log.
LEMMA EmitTyped ==
  ASSUME TypeOK, NEW type \in EventType, NEW td \in TrustDomain, Emit(type, td)
  PROVE  blocks' \in Seq(Event)
<1>1. [type |-> type, trustDomain |-> td] \in Event
  BY DEF Event
<1> QED
  BY <1>1, AppendProperties DEF TypeOK, Emit

LEMMA InitIInv == Init => IInv
<1> SUFFICES ASSUME Init PROVE IInv
  OBVIOUS
<1>1. TypeOK
  BY EmptySeq DEF Init, TypeOK
<1>2. DOMAIN trustDomains = {}
  BY DEF Init
<1>3. IsInjective(trustDomains) /\ Range(trustDomains) = {}
  BY <1>2 DEF IsInjective, Range
<1> QED
  BY <1>1, <1>3 DEF Init, IInv, ArrayMirrorsMappings

LEMMA NextIInv == IInv /\ [Next]_vars => IInv'
<1> SUFFICES ASSUME IInv, [Next]_vars PROVE IInv'
  OBVIOUS
<1>1. ASSUME NEW td \in TrustDomain, NEW raw \in RawBundle, PostBundle(td, raw)
      PROVE  IInv'
  <2>1. TypeOK'
    <3>1. blocks' \in Seq(Event)
      BY <1>1, EmitTyped DEF IInv, PostBundle, EventType
    <3> QED
      BY <1>1, <3>1, PostArray DEF IInv, TypeOK, PostBundle
  <2>2. ArrayMirrorsMappings'
    BY <1>1, PostArray, UnsetAssumption DEF IInv, TypeOK, ArrayMirrorsMappings, PostBundle
  <2> QED
    BY <2>1, <2>2 DEF IInv
<1>2. ASSUME NEW td \in TrustDomain, NEW raw \in RawBundle, UpdateBundle(td, raw)
      PROVE  IInv'
  <2>1. TypeOK'
    <3>1. blocks' \in Seq(Event)
      BY <1>2, EmitTyped DEF IInv, UpdateBundle, EventType
    <3> QED
      BY <1>2, <3>1 DEF IInv, TypeOK, UpdateBundle
  <2>2. ArrayMirrorsMappings'
    BY <1>2, UnsetAssumption DEF IInv, TypeOK, ArrayMirrorsMappings, UpdateBundle
  <2> QED
    BY <2>1, <2>2 DEF IInv
<1>3. ASSUME NEW td \in TrustDomain, DeleteBundle(td)
      PROVE  IInv'
  <2>1. TypeOK'
    <3>1. blocks' \in Seq(Event)
      BY <1>3, EmitTyped DEF IInv, DeleteBundle, EventType
    <3> QED
      BY <1>3, <3>1, DeleteArray DEF IInv, TypeOK, DeleteBundle
  <2>2. ArrayMirrorsMappings'
    BY <1>3, DeleteArray, UnsetAssumption DEF IInv, TypeOK, ArrayMirrorsMappings, DeleteBundle
  <2> QED
    BY <2>1, <2>2 DEF IInv
<1>4. CASE UNCHANGED vars
  BY <1>4 DEF vars, IInv, TypeOK, ArrayMirrorsMappings
<1> QED
  BY <1>1, <1>2, <1>3, <1>4 DEF Next

LEMMA Invariance == Spec => []IInv
<1> QED
  BY InitIInv, NextIInv, PTL DEF Spec

\* The state of the contract always has its type.
THEOREM TypeCorrectness == Spec => []TypeOK
<1>1. IInv => TypeOK
  BY DEF IInv
<1> QED
  BY <1>1, Invariance, PTL

\* The array never loses, invents or repeats a member, whatever sequence of
\* posts, updates and swap-and-pop deletions is mined: the pages that
\* get_bundles reads come from an array that agrees with the mappings.
THEOREM ArrayAgreement == Spec => []ArrayMirrorsMappings
<1>1. IInv => ArrayMirrorsMappings
  BY DEF IInv
<1> QED
  BY <1>1, Invariance, PTL

-----------------------------------------------------------------------------
(* Pages                                                                   *)

LEMMA MinOfTwo ==
  ASSUME NEW x \in Int, NEW y \in Int
  PROVE  Min({x, y}) = IF x <= y THEN x ELSE y
<1>1. CASE x <= y
  BY <1>1 DEF Min
<1>2. CASE y < x
  BY <1>2 DEF Min
<1> QED
  BY <1>1, <1>2

\* A page holds the array entries behind its offset, each with the bundle it
\* has now, and is short only at the end of the array.
LEMMA PageAt ==
  ASSUME IInv, NEW offset \in Nat, NEW limit \in Nat \ {0}
  PROVE  /\ Page(offset, limit) \in Seq(TrustDomain \X RawBundle)
         /\ Len(Page(offset, limit)) =
              IF offset >= Total THEN 0
              ELSE IF offset + limit <= Total THEN limit ELSE Total - offset
         /\ \A k \in 1..Len(Page(offset, limit)) :
              /\ offset + k \in 1..Total
              /\ Page(offset, limit)[k][1] = trustDomains[offset + k]
              /\ Page(offset, limit)[k][2] = bundles[trustDomains[offset + k]]
<1> DEFINE end  == Min({offset + limit, Len(trustDomains)})
           size == IF end > offset THEN end - offset ELSE 0
<1>1. Total \in Nat /\ Total = Len(trustDomains) /\ DOMAIN trustDomains = 1..Total
  BY LenProperties DEF IInv, TypeOK, Total
<1>2. end = IF offset + limit <= Total THEN offset + limit ELSE Total
  BY <1>1, MinOfTwo
<1>3. size \in Nat
        /\ size = IF offset >= Total THEN 0
                  ELSE IF offset + limit <= Total THEN limit ELSE Total - offset
  BY <1>1, <1>2
<1> HIDE DEF end
<1>4. \A k \in 1..size : offset + k \in 1..Total
  BY <1>1, <1>3
<1> HIDE DEF size
<1>5. \A k \in 1..size : trustDomains[offset + k] \in TrustDomain
  BY <1>1, <1>4, ElementOfSeq DEF IInv, TypeOK
<1>6. \A k \in 1..size : bundles[trustDomains[offset + k]] \in RawBundle
  <2> TAKE k \in 1..size
  <2>1. trustDomains[offset + k] \in Range(trustDomains)
    BY <1>1, <1>4 DEF Range
  <2> QED
    BY <1>5, <2>1 DEF IInv, TypeOK, ArrayMirrorsMappings
<1> DEFINE entry(k) == <<trustDomains[offset + k], bundles[trustDomains[offset + k]]>>
           page     == [k \in 1..size |-> entry(k)]
<1>7. Page(offset, limit) = page
  BY DEF Page, end, size
<1>8. \A k \in 1..size : entry(k) \in TrustDomain \X RawBundle
  BY <1>5, <1>6
<1>9. \A k \in 1..size : entry(k)[1] = trustDomains[offset + k]
                         /\ entry(k)[2] = bundles[trustDomains[offset + k]]
  OBVIOUS
<1> HIDE DEF entry
<1>10. page \in Seq(TrustDomain \X RawBundle) /\ Len(page) = size
  <2>1. page \in Seq(TrustDomain \X RawBundle)
    BY <1>3, <1>8, IsASeq
  <2>2. DOMAIN page = 1..size
    OBVIOUS
  <2> QED
    BY <1>3, <2>1, <2>2, LenProperties
<1>11. \A k \in 1..size : page[k] = entry(k)
  OBVIOUS
<1> QED
  BY <1>3, <1>4, <1>7, <1>9, <1>10, <1>11

\* The page a position is on, and its slot: division with remainder.
LEMMA PageOf ==
  ASSUME NEW n \in Nat, NEW d \in Nat \ {0}
  PROVE  \E q \in 0..n : \E r \in 0..(d - 1) : n = q * d + r
<1> DEFINE T == {m \in Nat : \E q \in 0..n : n = q * d + m}
<1>1. n \in T
  <2>1. 0 \in 0..n /\ n = 0 * d + n
    OBVIOUS
  <2> QED
    BY <2>1
<1>2. PICK x \in T : \A y \in T : ~(<<y, x>> \in OpToRel(<, Nat))
  BY <1>1, NatLessThanWellFounded, WFMin
<1>3. x \in T /\ \A y \in T : ~(y < x)
  BY <1>2 DEF OpToRel
<1>4. x \in Nat /\ \E q \in 0..n : n = q * d + x
  BY <1>3
<1> PICK q \in 0..n : n = q * d + x
  BY <1>4
<1>5. x < d
  <2> SUFFICES ASSUME x >= d
               PROVE  FALSE
    BY <1>4
  <2>1. q \in Nat /\ x \in Nat /\ x - d \in Nat /\ x - d < x
    BY <1>4
  <2>2. (q + 1) * d = q * d + d /\ q * d \in Nat
    BY <2>1
  <2>3. n = (q + 1) * d + (x - d)
    BY <2>1, <2>2
  <2>4. q <= q * d
    BY <2>1
  <2>5. q + 1 \in 0..n
    BY <2>1, <2>2, <2>4
  <2>6. x - d \in T
    BY <2>1, <2>3, <2>5
  <2> QED
    BY <1>3, <2>1, <2>6
<1> QED
  BY <1>4, <1>5

\* Slots of different pages are different positions.
LEMMA PagesApart ==
  ASSUME NEW p \in Nat, NEW q \in Nat, NEW d \in Nat \ {0}, p < q
  PROVE  /\ p * d \in Nat /\ q * d \in Nat
         /\ p * d + d <= q * d
<1>1. q - p - 1 \in Nat
  OBVIOUS
<1>2. (q - p - 1) * d >= 0
  BY <1>1
<1>3. (q - p - 1) * d = q * d - p * d - d
  OBVIOUS
<1>4. p * d \in Nat /\ q * d \in Nat
  OBVIOUS
<1> QED
  BY <1>2, <1>3, <1>4

LEMMA PagesPartition == IInv => PagesPartitionMembers
<1> SUFFICES ASSUME IInv, NEW limit \in 1..(Total + 1)
             PROVE  /\ {EntryAt(limit, a) : a \in Places(limit)} =
                         {<<td, bundles[td]>> : td \in {t \in TrustDomain : bundleExists[t]}}
                    /\ \A a, b \in Places(limit) :
                         EntryAt(limit, a)[1] = EntryAt(limit, b)[1] => a = b
                    /\ \A a \in Places(limit) : \A k \in 0..a[1] : Page(k * limit, limit) # << >>
  BY DEF PagesPartitionMembers
<1>1. /\ Total \in Nat /\ DOMAIN trustDomains = 1..Total
      /\ \A j \in 1..Total : trustDomains[j] \in TrustDomain
      /\ limit \in Nat \ {0}
  BY LenProperties, ElementOfSeq DEF IInv, TypeOK, Total
<1>2. \A k \in Nat : k * limit \in Nat
  BY <1>1
\* Every place is a position of the array, and every position a place.
<1>3. ASSUME NEW k \in Nat
      PROVE  /\ DOMAIN Page(k * limit, limit) = 1..Len(Page(k * limit, limit))
             /\ Len(Page(k * limit, limit)) =
                  IF k * limit >= Total THEN 0
                  ELSE IF k * limit + limit <= Total THEN limit ELSE Total - k * limit
             /\ \A i \in 1..Len(Page(k * limit, limit)) :
                  /\ k * limit + i \in 1..Total
                  /\ Page(k * limit, limit)[i][1] = trustDomains[k * limit + i]
                  /\ Page(k * limit, limit)[i][2] = bundles[trustDomains[k * limit + i]]
                  /\ Page(k * limit, limit)[i] \in TrustDomain \X RawBundle
  <2> DEFINE page == Page(k * limit, limit)
  <2>1. /\ page \in Seq(TrustDomain \X RawBundle)
        /\ Len(page) = IF k * limit >= Total THEN 0
                       ELSE IF k * limit + limit <= Total THEN limit ELSE Total - k * limit
        /\ \A i \in 1..Len(page) : /\ k * limit + i \in 1..Total
                                   /\ page[i][1] = trustDomains[k * limit + i]
                                   /\ page[i][2] = bundles[trustDomains[k * limit + i]]
    BY <1>1, <1>2, PageAt
  <2> HIDE DEF page
  <2>2. DOMAIN page = 1..Len(page) /\ \A i \in 1..Len(page) : page[i] \in TrustDomain \X RawBundle
    BY <2>1, LenProperties, ElementOfSeq
  <2> QED
    BY <2>1, <2>2 DEF page
<1>4. ASSUME NEW a \in Places(limit)
      PROVE  /\ a[1] \in 0..Total /\ a[2] \in 1..limit /\ a = <<a[1], a[2]>>
             /\ a[1] * limit + a[2] \in 1..Total
             /\ EntryAt(limit, a) = <<trustDomains[a[1] * limit + a[2]],
                                      bundles[trustDomains[a[1] * limit + a[2]]]>>
  <2>0. PICK k \in 0..Total : \E i \in DOMAIN Page(k * limit, limit) : a = <<k, i>>
    BY DEF Places
  <2>1. PICK i \in DOMAIN Page(k * limit, limit) : a = <<k, i>>
    BY <2>0
  <2>2. k \in Nat /\ i \in 1..Len(Page(k * limit, limit)) /\ k * limit \in Nat
    BY <1>1, <1>2, <1>3, <2>1
  <2>3. i \in 1..limit
    <3>1. \A m, n \in Nat : m = (IF n >= Total THEN 0 ELSE IF n + limit <= Total THEN limit
                                 ELSE Total - n) => m <= limit
      BY <1>1
    <3>2. Len(Page(k * limit, limit)) <= limit /\ Len(Page(k * limit, limit)) \in Nat
      BY <1>1, <1>3, <2>2, <3>1
    <3> QED
      BY <1>1, <2>2, <3>2
  <2>4. a[1] = k /\ a[2] = i
    BY <2>1
  <2> QED
    BY <1>3, <2>1, <2>2, <2>3, <2>4 DEF EntryAt
<1>5. ASSUME NEW j \in 1..Total
      PROVE  \E a \in Places(limit) : a[1] * limit + a[2] = j
  <2>1. PICK q \in 0..(j - 1) : \E r \in 0..(limit - 1) : j - 1 = q * limit + r
    <3>1. j - 1 \in Nat
      BY <1>1
    <3> QED
      BY <1>1, <3>1, PageOf
  <2>2. PICK r \in 0..(limit - 1) : j - 1 = q * limit + r
    BY <2>1
  <2>3. q \in Nat /\ q \in 0..Total /\ q * limit \in Nat /\ r + 1 \in 1..limit
    BY <1>1, <1>2
  <2>4. q * limit + (r + 1) = j /\ q * limit < Total
    BY <1>1, <2>2, <2>3
  <2>5. r + 1 \in DOMAIN Page(q * limit, limit)
    <3>1. \A n \in Nat : n < Total /\ n + (r + 1) = j =>
            r + 1 \in 1..(IF n >= Total THEN 0 ELSE IF n + limit <= Total THEN limit
                          ELSE Total - n)
      BY <1>1, <2>3
    <3> QED
      BY <1>3, <2>3, <2>4, <3>1
  <2>6. <<q, r + 1>> \in Places(limit)
    BY <2>3, <2>5 DEF Places
  <2>7. <<q, r + 1>>[1] = q /\ <<q, r + 1>>[2] = r + 1
    OBVIOUS
  <2> QED
    BY <2>4, <2>6, <2>7
<1>6. {EntryAt(limit, a) : a \in Places(limit)} =
        {<<td, bundles[td]>> : td \in {t \in TrustDomain : bundleExists[t]}}
  <2>1. \A td \in TrustDomain : bundleExists[td] <=> \E j \in 1..Total : trustDomains[j] = td
    BY <1>1 DEF IInv, ArrayMirrorsMappings, Range
  <2>2. ASSUME NEW a \in Places(limit)
        PROVE  EntryAt(limit, a) \in
                 {<<td, bundles[td]>> : td \in {t \in TrustDomain : bundleExists[t]}}
    BY <1>1, <1>4, <2>1
  <2>3. ASSUME NEW td \in TrustDomain, bundleExists[td]
        PROVE  \E a \in Places(limit) : <<td, bundles[td]>> = EntryAt(limit, a)
    BY <1>4, <1>5, <2>1, <2>3
  <2> QED
    BY <2>2, <2>3
<1>7. ASSUME NEW a \in Places(limit), NEW b \in Places(limit),
             EntryAt(limit, a)[1] = EntryAt(limit, b)[1]
      PROVE  a = b
  <2>1. trustDomains[a[1] * limit + a[2]] = trustDomains[b[1] * limit + b[2]]
    BY <1>4, <1>7
  <2>2. a[1] * limit + a[2] = b[1] * limit + b[2]
    BY <1>1, <1>4, <2>1 DEF IInv, ArrayMirrorsMappings, IsInjective
  <2>3. /\ a[1] \in Nat /\ b[1] \in Nat /\ a[2] \in 1..limit /\ b[2] \in 1..limit
        /\ a[1] * limit \in Nat /\ b[1] * limit \in Nat
    BY <1>1, <1>2, <1>4
  <2>4. \A m, n \in Nat : \A i, j \in 1..limit : m + i = n + j => m + limit > n /\ n + limit > m
    BY <1>1
  <2>5. a[1] * limit + limit > b[1] * limit /\ b[1] * limit + limit > a[1] * limit
    BY <2>2, <2>3, <2>4
  <2> DEFINE m == a[1] * limit
             n == b[1] * limit
  <2> HIDE DEF m, n
  <2>6. a[1] = b[1]
    <3>1. a[1] < b[1] => m + limit <= n
      BY <1>1, <2>3, PagesApart DEF m, n
    <3>2. b[1] < a[1] => n + limit <= m
      BY <1>1, <2>3, PagesApart DEF m, n
    <3>3. m \in Nat /\ n \in Nat /\ m + limit > n /\ n + limit > m
      BY <2>3, <2>5 DEF m, n
    <3>4. limit \in Nat
      BY <1>1
    <3> QED
      BY <2>3, <3>1, <3>2, <3>3, <3>4
  <2>7. a[2] = b[2]
    <3>1. m + a[2] = m + b[2] /\ m \in Nat
      BY <2>2, <2>3, <2>6 DEF m
    <3> QED
      BY <2>3, <3>1
  <2> QED
    BY <1>4, <2>6, <2>7
<1>8. ASSUME NEW a \in Places(limit), NEW k \in 0..a[1]
      PROVE  Page(k * limit, limit) # << >>
  <2>1. k \in Nat /\ a[1] \in Nat /\ a[1] * limit \in Nat /\ k * limit \in Nat
    BY <1>1, <1>2, <1>4
  <2>2. k * limit <= a[1] * limit
    <3>1. k < a[1] => k * limit + limit <= a[1] * limit
      BY <1>1, <2>1, PagesApart
    <3> QED
      BY <1>1, <2>1, <3>1
  <2>3. k * limit < Total
    BY <1>1, <1>4, <2>1, <2>2
  <2>4. Len(Page(k * limit, limit)) # 0
    BY <1>1, <1>3, <2>1, <2>3
  <2> QED
    BY <2>4
<1> QED
  BY <1>6, <1>7, <1>8

\* Whatever has been posted, updated and deleted, and whatever the page size,
\* a walk during which nothing is mined returns each member once with its own
\* bundle: getAllBundles clamps its pages and get_bundles stops at the end.
THEOREM PagesAreExact == Spec => []PagesPartitionMembers
BY PagesPartition, Invariance, PTL

-----------------------------------------------------------------------------
(* Refinement                                                              *)

LEMMA InitRefines == Init => Directory!Init
<1> SUFFICES ASSUME Init PROVE Directory!Init
  OBVIOUS
<1>1. Range(trustDomains) = {}
  BY DEF Init, Range
<1>2. Published = [td \in {} |-> td]
  BY <1>1 DEF Published
<1> QED
  BY <1>2 DEF Init, Directory!Init

LEMMA StepRefines == IInv /\ IInv' /\ [Next]_vars => [Directory!Next]_(Directory!vars)
<1> SUFFICES ASSUME IInv, IInv', [Next]_vars
             PROVE  [Directory!Next]_(Directory!vars)
  OBVIOUS
<1>1. /\ Range(trustDomains) \subseteq TrustDomain
      /\ DOMAIN Published = Range(trustDomains)
  BY RangeOfSeq DEF IInv, TypeOK, Published
<1>2. ASSUME NEW td \in TrustDomain, NEW raw \in RawBundle, PostBundle(td, raw)
      PROVE  Directory!Post(td, raw)
  <2>1. td \notin Range(trustDomains)
    BY <1>2 DEF IInv, ArrayMirrorsMappings, PostBundle
  <2>2. Range(trustDomains)' = Range(trustDomains) \cup {td}
    BY <1>2, PostArray
  <2>3. \A t \in TrustDomain : bundles'[t] = IF t = td THEN raw ELSE bundles[t]
    BY <1>2 DEF IInv, TypeOK, PostBundle
  <2>4. Published' = [t \in Range(trustDomains) \cup {td} |->
                        IF t = td THEN raw ELSE Published[t]]
    BY <1>1, <2>1, <2>2, <2>3 DEF Published
  <2> QED
    BY <1>1, <1>2, <2>1, <2>4
       DEF Directory!Post, Directory!Member, Directory!Announce, PostBundle, Emit
<1>3. ASSUME NEW td \in TrustDomain, NEW raw \in RawBundle, UpdateBundle(td, raw)
      PROVE  Directory!Update(td, raw)
  <2>1. td \in Range(trustDomains)
    BY <1>3 DEF IInv, ArrayMirrorsMappings, UpdateBundle
  <2>2. Range(trustDomains)' = Range(trustDomains)
    BY <1>3 DEF UpdateBundle
  <2>3. \A t \in TrustDomain : bundles'[t] = IF t = td THEN raw ELSE bundles[t]
    BY <1>3 DEF IInv, TypeOK, UpdateBundle
  <2>4. Published' = [Published EXCEPT ![td] = raw]
    BY <1>1, <2>1, <2>2, <2>3 DEF Published
  <2> QED
    BY <1>1, <1>3, <2>1, <2>4
       DEF Directory!Update, Directory!Member, Directory!Announce, UpdateBundle, Emit
<1>4. ASSUME NEW td \in TrustDomain, DeleteBundle(td)
      PROVE  Directory!Delete(td)
  <2>1. td \in Range(trustDomains)
    BY <1>4 DEF IInv, ArrayMirrorsMappings, DeleteBundle
  <2>2. Range(trustDomains)' = Range(trustDomains) \ {td}
    BY <1>4, DeleteArray
  <2>3. \A t \in TrustDomain : t # td => bundles'[t] = bundles[t]
    BY <1>4 DEF IInv, TypeOK, DeleteBundle
  <2>4. Published' = Restrict(Published, Range(trustDomains) \ {td})
    BY <1>1, <2>1, <2>2, <2>3 DEF Published, Restrict
  <2> QED
    BY <1>1, <1>4, <2>1, <2>4
       DEF Directory!Delete, Directory!Member, Directory!Announce, Directory!Restrict, Restrict,
           DeleteBundle, Emit
<1>5. CASE UNCHANGED vars
  BY <1>5 DEF vars, Directory!vars, Published
<1> QED
  BY <1>2, <1>3, <1>4, <1>5 DEF Next, Directory!Next

\* The contract implements the abstract directory: what its pages and its
\* event log show changes exactly as BundleDirectory allows.
THEOREM Refinement == Spec => ImplementsDirectory
<1> QED
  BY InitRefines, StepRefines, Invariance, PTL
     DEF Spec, ImplementsDirectory, Directory!Spec
=============================================================================
