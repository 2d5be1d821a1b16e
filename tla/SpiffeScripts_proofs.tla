------------------------ MODULE SpiffeScripts_proofs ------------------------
(***************************************************************************)
(* Proofs about the SPIFFE driver scripts and workloads, for every number  *)
(* of founders, servers, rotations, scripts and faults, and for one to     *)
(* four workloads per server.                                              *)
(***************************************************************************)
EXTENDS SpiffeScripts, FiniteSetTheorems, SequenceTheorems, WellFoundedInduction, TLAPS

Again == [target : Server, todo : SUBSET Int]

WorkloadTypes ==
  /\ stage \in [Workload -> Stage] /\ todo \in [Workload -> SUBSET Int]
  /\ reach \in [Workload -> 0..MaxServer] /\ allFailed \in [Workload -> BOOLEAN]
  /\ again \in [Workload -> Seq(Again)]
  /\ view \in [Workload -> [Server -> Version]]
  /\ previous \in [Workload -> [Server -> Version]]
  /\ meshed \subseteq Workload /\ sent \subseteq Workload /\ silent \subseteq Workload
  /\ remeshed \in [Workload -> 0..MaxMarks] /\ overlooked \subseteq Workload

ScriptTypes ==
  /\ script \in [op : Script, step : Step, num : Server, count : Server]
  /\ ran \in 0..MaxScripts /\ faults \in 0..MaxFaults

StoreTypes ==
  /\ svid \in [Server -> 0..MaxVersion] /\ own \in [Server -> 0..MaxVersion]
  /\ active \in [Server -> 0..MaxVersion]
  /\ held \in [Server -> [Server -> Version]]
  /\ federated \in [Server -> SUBSET Server] /\ entry \in [Workload -> SUBSET Server]
  /\ published \in [Server -> Version]

ListenerTypes ==
  /\ listener \in [Server -> {"off", "starting", "on"}]
  /\ events \in [Server -> Seq(Event)]
  /\ applied \subseteq Server \X Server /\ deleted \subseteq Server \X Server

Types == WorkloadTypes /\ ScriptTypes /\ StoreTypes /\ ListenerTypes

\* Nothing that was handed out is newer than what its server has prepared.
Trail ==
  /\ \A s \in Server : svid[s] <= active[s] /\ active[s] <= own[s] /\ published[s] <= own[s]
  /\ \A s, t \in Server : held[s][t] <= own[t]
  /\ \A w \in Workload : \A t \in Server : view[w][t] <= own[t] /\ previous[w][t] <= own[t]

\* The script at work has neither failed nor given up.
Running == script.step \notin {"failed", "gaveup"}

\* A port that a workload dials lies in the block of six of the server it means.
Near == ListenBase <= DialBase + 2

\* A server has been set up; how many servers its workloads dial at first; the
\* script at work is the one that sets it up.
Joined(s) == reach[<<s, 0>>] > 0
Reach(s) == IF s <= Founders THEN Founders ELSE Founders + 1
Joining(s) == script.op = "creation" \/ (script.op = "addition" /\ s = script.num)

Shape ==
  /\ script.op = "creation" =>
       /\ script.count = Founders /\ script.num \in Founder
       /\ script.step \in {"clusters", "listeners", "post", "fetch", "federate", "entries", "poll",
                           "measured"}
  /\ script.op = "addition" =>
       /\ script.num = Founders + 1 /\ script.count = script.num
       /\ script.step \in {"clusters", "listeners", "publish", "fetch", "federate", "entries",
                           "poll", "measured"}
  /\ script.op \in {"rotation", "removal"} =>
       script.count = Newest /\ script.num \in 1..script.count
  /\ script.op = "rotation" =>
       script.step \in {"prepare", "activate", "publish", "fire", "poll", "measured"}
  /\ script.op = "removal" =>
       script.step \in {"kill", "respawn", "record", "delete", "clean", "poll", "measured"}
  /\ script.step = "prepare" => own[script.num] < MaxVersion

Ups ==
  /\ \A w \in Workload :
       /\ reach[w] = reach[<<w[1], 0>>] /\ reach[w] \in {0} \cup (Reach(w[1]) .. Founders + 1)
       /\ stage[w] = "off" <=> reach[w] = 0 \/ (At("removal", "respawn") /\ w[1] = script.num)
       /\ Joining(w[1]) => reach[w] \in {0, Reach(w[1])} /\ stage[w] \notin {"periodic", "silent"}
  /\ \A s \in Server :
       /\ Joined(s) => s <= Founders + 1
       /\ s <= Founders => (Joined(s) <=> ~ At("creation", "clusters"))
       /\ s > Founders /\ script.op = "creation" => ~ Joined(s)
       /\ s > Founders /\ script.op = "addition" /\ Joined(s) => script.step # "clusters"
       /\ s = Founders + 1 /\ script.op = "addition" /\ script.step # "clusters" => Joined(s)

Stores ==
  \A s \in Server :
    /\ listener[s] # "off" => Joined(s)
    /\ listener[s] # "on" => events[s] = <<>>
    /\ script.step = "listeners" /\ Joining(s) => listener[s] = "off"
    /\ published[s] # Missing => Joined(s)
    /\ federated[s] \in {{}, (1..Reach(s)) \ {s}} /\ (federated[s] # {} => Joined(s))
    /\ \A t \in Server : held[s][t] # Missing => Joined(s)
    /\ \A w \in Of(s) :
         /\ entry[w] \subseteq federated[s] /\ \A t \in entry[w] : held[s][t] # Missing
         /\ \A t \in Server : {view[w][t], previous[w][t]} # {Missing} => t \in federated[s]

Ledger ==
  /\ \A s \in Server : \A k \in DOMAIN events[s] :
       LET t == events[s][k].server IN
         events[s][k].type = "bundle_deleted" =>
           published[t] = Missing /\ Joined(t) /\ ~ Joining(t) /\ ~ Joining(s)
  /\ \A t \in Server :
       \/ published[t] \in {Missing, own[t]}
       \/ script.op = "rotation" /\ script.num = t /\ script.step \in {"activate", "publish"}
  /\ script.op = "rotation" => published[script.num] # Missing
  /\ script.op = "removal" =>
       (published[script.num] = Missing <=> script.step \in {"clean", "poll", "measured"})

\* A server's workloads, while it is set up, hold a bundle of another server
\* only as their entry says; they are through with a server of the mesh only
\* when they verify it.
Mesh ==
  /\ \A s, t \in Server : Joining(s) /\ s # t => held[s][t] \in {Missing, own[t]}
  /\ \A w \in Workload : \A t \in Server : Joining(w[1]) =>
       /\ view[w][t] \in {Missing, own[t]}
       /\ view[w][t] # Missing => t \in entry[w]
       /\ Near /\ t \in (1..Reach(w[1])) \ {w[1]} =>
            /\ stage[w] = "external" => GetPortsForServer(t) \subseteq todo[w] \/ view[w][t] # Missing
            /\ stage[w] = "idle" => view[w][t] # Missing
  /\ \A w \in Workload :
       /\ w \in meshed => Joined(w[1]) /\ stage[w] \notin {"internal", "external"}
       /\ Joined(w[1]) /\ w \notin meshed => Joining(w[1]) /\ script.step # "measured"

Watching ==
  /\ \A w \in Workload : \A t \in entry[w] :
       /\ Near /\ w \in meshed => view[w][t] # Missing
       /\ \/ view[w][t] \in {Missing, previous[w][t]}
          \/ script.op = "removal" /\ w[1] = script.num
  /\ script.op = "removal" /\ script.step \in {"poll", "measured"} =>
       \A w \in Of(script.num) : entry[w] = {}

Explained(w) ==
  \/ script.step = "poll" /\ remeshed[w] > 0
  \/ \E i \in DOMAIN again[w] : again[w][i].target = script.num
  \/ view[w][script.num] # own[script.num]
  \/ script.num \notin entry[w]
  \/ w \in overlooked

Stalls ==
  Near /\ script.op = "rotation" /\ script.step \in {"activate", "publish", "fire", "poll"} =>
    \A w \in PeerWorkload : Explained(w)

Arrived ==
  script.op = "rotation" /\ script.step \in {"poll", "measured"} =>
    /\ \A s \in Server : <<s, script.num>> \in applied => held[s][script.num] = own[script.num]
    /\ script.step = "measured" => Peers \X {script.num} \subseteq applied

Silence ==
  /\ script.op = "removal" /\ script.step \in {"delete", "clean", "poll", "measured"} =>
       \A s \in Server : <<s, script.num>> \in deleted =>
         /\ published[script.num] = Missing /\ held[s][script.num] = Missing
         /\ \A w \in Of(s) : script.num \notin entry[w]
  /\ Measured("removal") => Peers \X {script.num} \subseteq deleted /\ Of(script.num) \subseteq silent
  /\ \A w \in silent : stage[w] = "silent"
  /\ \A w \in Workload : stage[w] \in {"periodic", "silent"} =>
       \/ published[w[1]] = Missing
       \/ script.op = "removal" /\ script.num = w[1] /\ script.step \in {"record", "delete"}

Rotating == script.op = "rotation" /\ script.step \in {"fire", "poll", "measured"}

Values(t) ==
  IF script.op = "rotation" /\ script.num = t /\ script.step # "prepare"
  THEN IF Rotating THEN {Missing, own[t] - 1, own[t]} ELSE {Missing, own[t] - 1}
  ELSE {Missing, own[t]}

\* Without faults nothing but the rotation at work disturbs the bundles, and
\* every workload dials again at most once for it.
QuietStores ==
  /\ \A t \in Server : published[t] \in Values(t)
  /\ \A s, t \in Server : s # t => held[s][t] \in Values(t)
  /\ \A w \in Workload : \A t \in Server : view[w][t] \in Values(t) /\ previous[w][t] \in Values(t)

QuietRotation(w, num) ==
  /\ view[w][num] = own[num] => num \in entry[w] /\ held[w[1]][num] = own[num]
  /\ previous[w][num] = own[num] => view[w][num] = own[num]
  /\ again[w] # <<>> => previous[w][num] = own[num] /\ Len(again[w]) = 1
  /\ script.step # "fire" =>
       /\ remeshed[w] > 0 => previous[w][num] = own[num]
       /\ Len(again[w]) + remeshed[w] <= 1

QuietMarks ==
  /\ \A w \in Workload : IF Rotating THEN QuietRotation(w, script.num) ELSE again[w] = <<>>
  /\ Measured("rotation") => \A w \in PeerWorkload : remeshed[w] > 0

Quiet == faults = 0 => QuietStores /\ QuietMarks

\* A restarted workload whose round has failed so far has no bundle of those
\* it could not reach.
Cut ==
  Near /\ faults = 0 /\ script.op = "removal" /\ script.step \notin {"kill", "respawn"} =>
    \A w \in Of(script.num) :
      /\ reach[w] = script.count
      /\ \A s \in Peers :
           /\ stage[w] = "periodic" /\ allFailed[w] =>
                GetPortsForServer(s) \subseteq todo[w] \/ view[w][s] = Missing
           /\ stage[w] = "silent" => view[w][s] = Missing

-----------------------------------------------------------------------------
(* Numbers, workloads and steps                                            *)

LEMMA Numbers ==
  /\ MaxServer \in Nat /\ MaxServer >= 1 /\ Size \in Nat /\ 1 <= Size /\ Size <= 4
  /\ Founders \in Nat /\ 1 <= Founders /\ Founders <= MaxServer /\ Founders \in Server
  /\ ListenBase \in Nat /\ DialBase \in Nat
  /\ MaxVersion \in Nat /\ MaxMarks \in Nat /\ MaxMarks >= 1
  /\ MaxScripts \in Nat /\ MaxFaults \in Nat
  /\ Server \subseteq Nat /\ Missing \in Version /\ 0..MaxVersion \subseteq Version
BY SizesAssumption, ScriptsAssumption DEF Server, Version, Missing

LEMMA Workloads ==
  /\ \A w \in Workload : /\ w[1] \in Server /\ w[2] \in 0..Size - 1 /\ w = <<w[1], w[2]>>
                         /\ <<w[1], 0>> \in Workload /\ w \in Of(w[1])
                         /\ w[1] \in Nat /\ w[2] \in Nat
  /\ \A s \in Server : \A w \in Of(s) : w \in Workload /\ w[1] = s
  /\ \A s \in Server : <<s, 0>> \in Workload
<1>1. \A s \in Server : s \in Nat
  BY Numbers
<1>2. \A j \in 0..Size - 1 : j \in Nat
  BY Numbers
<1>3. 0 \in 0..Size - 1
  BY Numbers
<1> QED
  BY <1>1, <1>2, <1>3 DEF Workload, Of

LEMMA PortsTyped ==
  /\ \A w \in Workload : MakeArray(Port(w)) \in SUBSET Int
  /\ \A s \in Server : GetPortsForServer(s) \in SUBSET Int
  /\ \A s, max \in Server : GenerateExternalPorts(s, max) \in SUBSET Int
  /\ \A w \in Workload : \A max \in 0..MaxServer : GenerateExternalPorts(w[1], max) \in SUBSET Int
<1>1. \A w \in Workload : Port(w) \in Int
  <2> TAKE w \in Workload
  <2>1. w[1] \in Nat /\ w[2] \in Nat
    BY Zenon, Workloads
  <2> QED
    BY <2>1, Numbers DEF Port
<1>2. \A w \in Workload : MakeArray(Port(w)) \in SUBSET Int
  BY <1>1, Numbers DEF MakeArray
<1>3. \A s \in Nat : GetPortsForServer(s) \in SUBSET Int
  BY Numbers DEF GetPortsForServer
<1>4. \A s, max \in Nat : GenerateExternalPorts(s, max) \in SUBSET Int
  BY <1>3 DEF GenerateExternalPorts
<1>5. \A max \in 0..MaxServer : max \in Nat
  OBVIOUS
<1>6. \A s \in Server : s \in Nat
  BY Numbers
<1> QED
  BY <1>2, <1>3, <1>4, <1>5, <1>6, Workloads

\* What a workload does by itself, one disjunct for each of its steps.
LEMMA WorksSteps ==
  ASSUME NEW w \in Workload, Works(w)
  PROVE  /\ ByItself
         /\ \/ /\ UNCHANGED <<overlooked, faults>>
               /\ \/ \E p \in todo[w] : Talk(w, p)
                  \/ InternalDone(w) \/ MeshDone(w) \/ RoundDone(w)
                  \/ \E i \in DOMAIN again[w] : \E p \in again[w][i].todo : TalkAgain(w, i, p)
            \/ \E i \in DOMAIN again[w] : TalkedAgain(w, i) /\ UNCHANGED faults
            \/ todo[w] # {} /\ SendsBy(w) /\ UNCHANGED overlooked
BY Zenon DEF Works

\* SendsBy is one send, which may fail for nothing only with a fault.
LEMMA SendSteps ==
  ASSUME ScriptTypes, NEW w \in Workload, SendsBy(w)
  PROVE  \E reached \in BOOLEAN :
           /\ PeriodicSend(w, reached)
           /\ faults' = faults => reached = Dials(w, Min(todo[w]))
           /\ faults' = faults \/ (faults < MaxFaults /\ faults' = faults + 1)
<1>1. Dials(w, Min(todo[w])) \in BOOLEAN
  BY DEF Dials
<1>2. CASE PeriodicSend(w, Dials(w, Min(todo[w]))) /\ UNCHANGED faults
  BY <1>1, <1>2
<1>3. CASE PeriodicSend(w, FALSE) /\ Dials(w, Min(todo[w])) /\ Fault
  <2>1. faults' # faults
    BY <1>3 DEF Fault, ScriptTypes
  <2> QED
    BY <1>3, <2>1 DEF Fault
<1> QED
  BY <1>2, <1>3 DEF SendsBy

\* The steps of the system, one disjunct for each kind.
LEMMA Steps ==
  ASSUME Next
  PROVE  \/ ScriptStep \/ CommandFails \/ PollTimesOut
         \/ RunAddition \/ RunRotation \/ RunRemoval
         \/ \E s \in Server : Subscribe(s) \/ HandleEvent(s) \/ HandlerFails(s) \/ RenewSvids(s)
         \/ \E s, t \in Server : RefreshBundle(s, t)
         \/ \E w \in Workload : DeliverBundles(w)
         \/ \E w \in Workload : Works(w)
BY Zenon DEF Next

-----------------------------------------------------------------------------
(* Types                                                                   *)

LEMMA StartTyped ==
  ASSUME WorkloadTypes, NEW s \in Server, NEW max \in Server, NEW skip \in BOOLEAN,
         StartWorkloads(s, max, skip), UNCHANGED <<logVars, overlooked>>
  PROVE  WorkloadTypes'
<1>1. stage' \in [Workload -> Stage]
  BY DEF StartWorkloads, WorkloadTypes, Stage
<1>2. todo' \in [Workload -> SUBSET Int]
  BY PortsTyped DEF StartWorkloads, WorkloadTypes
<1>3. reach' \in [Workload -> 0..MaxServer]
  <2>1. max \in 0..MaxServer
    BY Numbers DEF Server
  <2> QED
    BY <2>1 DEF StartWorkloads, WorkloadTypes
<1>4. allFailed' \in [Workload -> BOOLEAN]
  BY DEF StartWorkloads, WorkloadTypes
<1>5. again' \in [Workload -> Seq(Again)]
  BY DEF StartWorkloads, WorkloadTypes
<1>6. previous' \in [Workload -> [Server -> Version]]
  BY Numbers DEF StartWorkloads, WorkloadTypes, NoBundles
<1> QED
  BY <1>1, <1>2, <1>3, <1>4, <1>5, <1>6 DEF StartWorkloads, WorkloadTypes, logVars

LEMMA KillTyped ==
  ASSUME WorkloadTypes, NEW s \in Server, KillWorkloads(s), UNCHANGED <<logVars, overlooked>>
  PROVE  WorkloadTypes'
BY DEF KillWorkloads, WorkloadTypes, Stage, logVars

\* Removing an element keeps the others.
LEMMA RemoveAtFacts ==
  ASSUME NEW S, NEW seq \in Seq(S), NEW i \in DOMAIN seq
  PROVE  /\ RemoveAt(seq, i) \in Seq(S) /\ Len(RemoveAt(seq, i)) = Len(seq) - 1
         /\ \A j \in DOMAIN seq \ {i} :
              \E k \in DOMAIN RemoveAt(seq, i) : RemoveAt(seq, i)[k] = seq[j]
         /\ \A k \in DOMAIN RemoveAt(seq, i) : \E j \in DOMAIN seq : RemoveAt(seq, i)[k] = seq[j]
<1> DEFINE left  == SubSeq(seq, 1, i - 1)
           right == SubSeq(seq, i + 1, Len(seq))
<1>1. Len(seq) \in Nat /\ DOMAIN seq = 1..Len(seq) /\ i \in 1..Len(seq)
  OBVIOUS
<1>2. left \in Seq(S) /\ Len(left) = i - 1 /\ \A k \in 1..i - 1 : left[k] = seq[k]
  BY <1>1
<1>3. right \in Seq(S) /\ Len(right) = Len(seq) - i
        /\ \A k \in 1..Len(seq) - i : right[k] = seq[i + k]
  BY <1>1
<1> HIDE DEF left, right
<1>4. RemoveAt(seq, i) = left \o right
  BY DEF RemoveAt, left, right
<1>5. left \o right \in Seq(S) /\ Len(left \o right) = Len(seq) - 1
        /\ \A k \in 1..Len(seq) - 1 :
             (left \o right)[k] = IF k < i THEN seq[k] ELSE seq[k + 1]
  <2>1. left \o right \in Seq(S) /\ Len(left \o right) = Len(left) + Len(right)
    BY <1>2, <1>3, ConcatProperties
  <2>2. Len(left) + Len(right) = Len(seq) - 1
    BY <1>1, <1>2, <1>3
  <2>3. ASSUME NEW k \in 1..Len(seq) - 1
        PROVE  (left \o right)[k] = IF k < i THEN seq[k] ELSE seq[k + 1]
    <3>1. (left \o right)[k] = IF k <= Len(left) THEN left[k] ELSE right[k - Len(left)]
      <4>1. \A j \in 1..Len(left) + Len(right) :
              (left \o right)[j] = IF j <= Len(left) THEN left[j] ELSE right[j - Len(left)]
        BY <1>2, <1>3, ConcatProperties
      <4>2. k \in 1..Len(left) + Len(right)
        BY <2>2
      <4> QED
        BY <4>1, <4>2
    <3>2. CASE k < i
      <4>1. k <= Len(left) /\ k \in 1..i - 1
        BY <1>1, <1>2, <3>2
      <4> QED
        BY <1>2, <3>1, <3>2, <4>1
    <3>3. CASE ~(k < i)
      <4>1. ~(k <= Len(left)) /\ k - Len(left) \in 1..Len(seq) - i /\ i + (k - Len(left)) = k + 1
        BY <1>1, <1>2, <3>3
      <4> QED
        BY <1>3, <3>1, <3>3, <4>1
    <3> QED
      BY <3>2, <3>3
  <2> QED
    BY <2>1, <2>2, <2>3
<1>6. DOMAIN (left \o right) = 1..Len(seq) - 1
  BY <1>5
<1>7. ASSUME NEW j \in DOMAIN seq \ {i}
      PROVE  \E k \in 1..Len(seq) - 1 : (left \o right)[k] = seq[j]
  <2>1. j \in 1..Len(seq) /\ j # i
    BY <1>1
  <2>2. CASE j < i
    <3>1. j \in 1..Len(seq) - 1
      BY <1>1, <2>1, <2>2
    <3> QED
      BY <1>5, <2>2, <3>1
  <2>3. CASE ~(j < i)
    <3>1. j - 1 \in 1..Len(seq) - 1 /\ ~(j - 1 < i) /\ (j - 1) + 1 = j
      BY <1>1, <2>1, <2>3
    <3> QED
      BY <1>5, <3>1
  <2> QED
    BY <2>2, <2>3
<1>8. ASSUME NEW k \in 1..Len(seq) - 1
      PROVE  \E j \in DOMAIN seq : (left \o right)[k] = seq[j]
  <2>1. k \in 1..Len(seq) /\ k + 1 \in 1..Len(seq)
    BY <1>1
  <2> QED
    BY <1>1, <1>5, <2>1
<1> QED
  BY <1>4, <1>5, <1>6, <1>7, <1>8

\* What one workload does on its way.
LEMMA WorksTyped ==
  ASSUME WorkloadTypes, ScriptTypes, NEW w \in Workload, Works(w)
  PROVE  WorkloadTypes'
<1>1. CASE UNCHANGED overlooked /\ \E p \in todo[w] : Talk(w, p)
  BY <1>1 DEF Talk, WorkloadTypes, logVars
<1>2. CASE UNCHANGED overlooked /\ InternalDone(w)
  <2>1. reach[w] \in 0..MaxServer
    BY DEF WorkloadTypes
  <2> QED
    BY <1>2, <2>1, PortsTyped DEF InternalDone, WorkloadTypes, logVars, Stage
<1>3. CASE UNCHANGED overlooked /\ MeshDone(w)
  BY <1>3 DEF MeshDone, WorkloadTypes, Stage
<1>4. CASE UNCHANGED overlooked /\ RoundDone(w)
  <2>1. reach[w] \in 0..MaxServer
    BY DEF WorkloadTypes
  <2> QED
    <3>1. CASE allFailed[w]
      BY <1>4, <3>1 DEF RoundDone, WorkloadTypes, Stage
    <3>2. CASE ~ allFailed[w]
      <4>1. GenerateExternalPorts(w[1], reach[w]) \in SUBSET Int
        BY <2>1, PortsTyped
      <4> QED
        BY <1>4, <3>2, <4>1 DEF RoundDone, WorkloadTypes
    <3> QED
      BY <3>1, <3>2
<1>5. ASSUME UNCHANGED overlooked, NEW i \in DOMAIN again[w], NEW p \in again[w][i].todo,
             TalkAgain(w, i, p)
      PROVE  WorkloadTypes'
  <2>1. again[w] \in Seq(Again) /\ again[w][i] \in Again
    BY <1>5, ElementOfSeq DEF WorkloadTypes
  <2>2. [again[w][i] EXCEPT !.todo = @ \ {p}] \in Again
    BY <2>1 DEF Again
  <2> DEFINE less == [again[w][i] EXCEPT !.todo = again[w][i].todo \ {p}]
  <2>3. again' = [again EXCEPT ![w] = [again[w] EXCEPT ![i] = less]]
    BY <1>5 DEF TalkAgain
  <2>4. less \in Again
    BY <2>2
  <2> HIDE DEF less
  <2>5. [again[w] EXCEPT ![i] = less] \in Seq(Again)
    BY <1>5, <2>1, <2>4
  <2>6. again' \in [Workload -> Seq(Again)]
    BY <2>3, <2>5 DEF WorkloadTypes
  <2> QED
    BY <1>5, <2>6 DEF TalkAgain, WorkloadTypes, logVars
<1>6. ASSUME NEW i \in DOMAIN again[w], TalkedAgain(w, i)
      PROVE  WorkloadTypes'
  <2>1. RemoveAt(again[w], i) \in Seq(Again)
    BY <1>6, RemoveAtFacts DEF WorkloadTypes
  <2>2. remeshed[w] + 1 \in 0..MaxMarks
    BY <1>6, Numbers DEF TalkedAgain, CommunicatedAgain, WorkloadTypes
  <2>3. overlooked' \subseteq Workload
    BY <1>6 DEF TalkedAgain, WorkloadTypes
  <2> QED
    BY <1>6, <2>1, <2>2, <2>3 DEF TalkedAgain, CommunicatedAgain, WorkloadTypes
<1>7. CASE UNCHANGED overlooked /\ SendsBy(w)
  <2>1. PICK reached \in BOOLEAN : PeriodicSend(w, reached)
    BY <1>7, SendSteps
  <2> QED
    BY <1>7, <2>1 DEF PeriodicSend, WorkloadTypes
<1> QED
  BY <1>1, <1>2, <1>3, <1>4, <1>5, <1>6, <1>7, WorksSteps

\* A set of servers that is not empty has a largest one.
LEMMA LargestServer ==
  ASSUME NEW S \in SUBSET Server, S # {}
  PROVE  Max(S) \in S /\ \A s \in S : Max(S) >= s
<1> DEFINE T == {MaxServer - s : s \in S}
<1>1. T \subseteq Nat /\ T # {} /\ \A s \in S : s \in Nat
  <2>1. \A s \in S : s \in Nat /\ MaxServer - s \in Nat
    BY Numbers DEF Server
  <2>2. T # {}
    OBVIOUS
  <2> QED
    BY <2>1, <2>2
<1>2. PICK x \in T : \A y \in T : ~(<<y, x>> \in OpToRel(<, Nat))
  BY <1>1, NatLessThanWellFounded, WFMin
<1>3. \A y \in T : ~(y < x)
  BY <1>1, <1>2 DEF OpToRel
<1>4. PICK top \in S : x = MaxServer - top
  OBVIOUS
<1>5. \A s \in S : top >= s
  <2> TAKE s \in S
  <2>1. ~(MaxServer - s < MaxServer - top)
    BY <1>3, <1>4
  <2> QED
    BY <1>1, <2>1, Numbers
<1> QED
  BY <1>4, <1>5 DEF Max

\* A bundle set that an agent delivers.
LEMMA DeliveredTyped ==
  ASSUME WorkloadTypes, StoreTypes, NEW w \in Workload, NEW bundles \in Deliverable(w)
  PROVE  bundles \in [Server -> Version] /\ bundles \in {view[w], Offered(w)}
<1>1. w[1] \in Server
  BY Workloads
<1>2. Offered(w) \in [Server -> Version]
  BY ZenonT(30), <1>1, Numbers DEF Offered, StoreTypes
<1> QED
  BY <1>2 DEF Deliverable, WorkloadTypes

LEMMA DeliveryTyped ==
  ASSUME WorkloadTypes, StoreTypes, NEW w \in Workload, DeliverBundles(w)
  PROVE  WorkloadTypes'
<1>1. PICK bundles \in Deliverable(w) :
        /\ OnX509BundlesUpdate(w, bundles)
        /\ overlooked' = IF script.op = "rotation" /\ script.num \in Updated(w, bundles)
                            /\ (~ Finished(w) \/ Max(Updated(w, bundles)) # script.num)
                         THEN overlooked \cup {w} ELSE overlooked
  BY DEF DeliverBundles
<1>2. bundles \in [Server -> Version]
  BY DeliveredTyped
<1>3. view' \in [Workload -> [Server -> Version]]
  BY <1>1, <1>2 DEF OnX509BundlesUpdate, WorkloadTypes
<1>4. previous' \in [Workload -> [Server -> Version]]
  BY <1>1, <1>2 DEF OnX509BundlesUpdate, WorkloadTypes
<1>5. again' \in [Workload -> Seq(Again)]
  <2>1. CASE Updated(w, bundles) # {} /\ Finished(w)
    <3> DEFINE last == Max(Updated(w, bundles))
    <3>1. Updated(w, bundles) \in SUBSET Server
      <4>1. reach[w] \in 0..MaxServer
        BY DEF WorkloadTypes
      <4> QED
        BY <4>1, Numbers DEF Updated, Watched, Server
    <3>2. last \in Server
      BY <2>1, <3>1, LargestServer
    <3>3. [target |-> last, todo |-> GetPortsForServer(last)] \in Again
      BY <3>2, PortsTyped DEF Again
    <3> HIDE DEF last
    <3>4. Append(again[w], [target |-> last, todo |-> GetPortsForServer(last)]) \in Seq(Again)
      BY <3>3, AppendProperties DEF WorkloadTypes
    <3> QED
      BY <1>1, <2>1, <3>4 DEF OnX509BundlesUpdate, WorkloadTypes, last
  <2>2. CASE ~(Updated(w, bundles) # {} /\ Finished(w))
    BY <1>1, <2>2 DEF OnX509BundlesUpdate, WorkloadTypes
  <2> QED
    BY <2>1, <2>2
<1> QED
  BY <1>1, <1>3, <1>4, <1>5 DEF OnX509BundlesUpdate, WorkloadTypes, logVars

\* The scripts leave the workloads alone but where they start and kill them
\* and where they begin to read the logs afresh.
LEMMA ScriptStepWorkloads ==
  ASSUME ScriptStep
  PROVE  \/ UNCHANGED <<workloadVars, overlooked>>
         \/ SetupNClusters \/ SetupNewCluster \/ RecordEventFired
         \/ KillForRestart \/ RestartWorkloads \/ RecordRemovalStart
BY DEF ScriptStep, StartListeners, PostBundles, PutBundle, FetchBundles, CreateFederations,
       UpdateRegistrationEntries, EntryRefused, PrepareX509Authority, ActivateX509Authority,
       DeleteBundle, CleanLocalEntry, EntriesClean, PollUntil

LEMMA WorkloadTypesNext ==
  ASSUME WorkloadTypes, ScriptTypes, StoreTypes, Next
  PROVE  WorkloadTypes'
<1>1. CASE UNCHANGED <<workloadVars, overlooked>>
  BY <1>1 DEF workloadVars, processVars, logVars, WorkloadTypes
<1>2. CASE SetupNClusters
  <2>1. Founders \in 0..MaxServer /\ 0 \in 0..MaxServer
    BY Numbers
  <2>2. reach' \in [Workload -> 0..MaxServer]
    BY <1>2, <2>1 DEF SetupNClusters, WorkloadTypes
  <2>3. todo' \in [Workload -> SUBSET Int]
    BY <1>2, PortsTyped DEF SetupNClusters, WorkloadTypes
  <2>4. stage' \in [Workload -> Stage]
    BY <1>2 DEF SetupNClusters, WorkloadTypes, Stage
  <2> QED
    BY <1>2, <2>2, <2>3, <2>4 DEF SetupNClusters, WorkloadTypes, logVars
<1>3. CASE SetupNewCluster
  BY <1>3, StartTyped DEF SetupNewCluster, ScriptTypes
<1>4. CASE RecordEventFired
  BY <1>4, Numbers DEF RecordEventFired, WorkloadTypes, processVars
<1>5. CASE KillForRestart
  BY <1>5, KillTyped DEF KillForRestart, ScriptTypes
<1>6. CASE RestartWorkloads
  BY <1>6, StartTyped DEF RestartWorkloads, ScriptTypes
<1>7. CASE RecordRemovalStart
  BY <1>7 DEF RecordRemovalStart, WorkloadTypes, processVars
<1>8. CASE RunAddition \/ RunRotation \/ RunRemoval
  BY <1>8 DEF RunAddition, RunRotation, RunRemoval, Begin, WorkloadTypes, workloadVars,
     processVars, logVars
<1>9. ASSUME NEW s \in Server, RenewSvids(s)
      PROVE  WorkloadTypes'
  BY <1>9 DEF RenewSvids, processVars, logVars, WorkloadTypes
<1> QED
  BY <1>1, <1>2, <1>3, <1>4, <1>5, <1>6, <1>7, <1>8, <1>9, Steps, WorksTyped, DeliveryTyped,
     ScriptStepWorkloads
     DEF CommandFails, PollTimesOut, Subscribe, HandleEvent, HandlerFails, RefreshBundle

-----------------------------------------------------------------------------
(* The scripts                                                             *)

LEMMA NextServerMove ==
  ASSUME ScriptTypes, Shape, script.op \in {"creation", "addition"},
         NEW step \in Step, NEW then \in Step, NextServer(step, then)
  PROVE  /\ script' \in [op : Script, step : Step, num : Server, count : Server]
         /\ script'.op = script.op /\ script'.count = script.count
         /\ script'.step \in {script.step, then}
         /\ IF script.op = "addition" THEN script'.num = script.num ELSE script'.num \in Founder
         /\ UNCHANGED ran
<1>1. script.num \in Nat /\ script.count \in Nat /\ 1 \in Server /\ 1 \in Founder
  BY Numbers DEF ScriptTypes, Server, Founder
<1>2. script.op = "creation" /\ script.num # script.count =>
        script.num + 1 \in Founder /\ script.num + 1 \in Server
  BY <1>1, Numbers DEF Shape, Founder, Server
<1> QED
  BY <1>1, <1>2 DEF NextServer, ScriptTypes, Shape, Script

\* A script goes on with its own steps, for its own server.
LEMMA ScriptMoves ==
  ASSUME ScriptTypes, Running => Shape, ScriptStep
  PROVE  /\ Running /\ UNCHANGED ran
         /\ script' \in [op : Script, step : Step, num : Server, count : Server]
         /\ script'.op = script.op /\ script'.count = script.count
         /\ IF script.op = "creation" THEN script'.num \in Founder ELSE script'.num = script.num
         /\ Running' =>
              \/ script.op = "creation" /\ script'.step \in
                   {"listeners", "post", "fetch", "federate", "entries", "poll", "measured"}
              \/ script.op = "addition" /\ script'.step \in
                   {"listeners", "publish", "fetch", "federate", "entries", "poll", "measured"}
              \/ script.op = "rotation" /\ script'.step \in
                   {"activate", "publish", "fire", "poll", "measured"}
              \/ script.op = "removal" /\ script'.step \in
                   {"respawn", "record", "delete", "clean", "poll", "measured"}
<1> DEFINE Moved == /\ Running /\ UNCHANGED ran
                    /\ script' \in [op : Script, step : Step, num : Server, count : Server]
                    /\ script'.op = script.op /\ script'.count = script.count
                    /\ IF script.op = "creation" THEN script'.num \in Founder
                                                 ELSE script'.num = script.num
<1>1. CASE PostBundles
  <2>1. Shape /\ script.op \in {"creation", "addition"} /\ NextServer("post", "fetch")
    BY <1>1 DEF PostBundles, Running, At
  <2>2. {"post", "fetch"} \subseteq Step
    BY DEF Step
  <2> QED
    BY <1>1, <2>1, <2>2, NextServerMove DEF PostBundles, Running, At
<1>2. CASE FetchBundles
  <2>1. Shape /\ script.op \in {"creation", "addition"} /\ NextServer("fetch", "federate")
    BY <1>2 DEF FetchBundles, Running, Shape, ScriptTypes, Script
  <2>2. {"fetch", "federate"} \subseteq Step
    BY DEF Step
  <2> QED
    BY <1>2, <2>1, <2>2, NextServerMove DEF FetchBundles, Running
<1>3. CASE CreateFederations
  <2>1. Shape /\ script.op \in {"creation", "addition"} /\ NextServer("federate", "entries")
    BY <1>3 DEF CreateFederations, Running, Shape, ScriptTypes, Script
  <2>2. {"federate", "entries"} \subseteq Step
    BY DEF Step
  <2> QED
    BY <1>3, <2>1, <2>2, NextServerMove DEF CreateFederations, Running
<1>4. CASE UpdateRegistrationEntries
  <2>1. Shape /\ script.op \in {"creation", "addition"} /\ NextServer("entries", "poll")
    BY <1>4 DEF UpdateRegistrationEntries, Running, Shape, ScriptTypes, Script
  <2>2. {"entries", "poll"} \subseteq Step
    BY DEF Step
  <2> QED
    BY <1>4, <2>1, <2>2, NextServerMove DEF UpdateRegistrationEntries, Running
<1>5. CASE SetupNClusters \/ SetupNewCluster \/ StartListeners \/ PutBundle \/ EntryRefused
  BY <1>5 DEF SetupNClusters, SetupNewCluster, StartListeners, PutBundle, EntryRefused, Goto, At,
     Running, Shape, ScriptTypes, Script, Step
<1>6. CASE PrepareX509Authority \/ ActivateX509Authority \/ RecordEventFired \/ PollUntil
  BY <1>6 DEF PrepareX509Authority, ActivateX509Authority, RecordEventFired, PollUntil, Goto, At,
     Running, Shape, ScriptTypes, Script, Step
<1>7. CASE KillForRestart \/ RestartWorkloads \/ RecordRemovalStart \/ DeleteBundle
           \/ CleanLocalEntry \/ EntriesClean
  BY <1>7 DEF KillForRestart, RestartWorkloads, RecordRemovalStart, DeleteBundle,
     CleanLocalEntry, EntriesClean, Goto, At, Running, Shape, ScriptTypes, Script, Step
<1> QED
  BY <1>1, <1>2, <1>3, <1>4, <1>5, <1>6, <1>7 DEF ScriptStep

\* Servers are set up from the lowest on.
LEMMA NewestFacts ==
  ASSUME WorkloadTypes, Ups
  PROVE  /\ Newest \in Server /\ Newest \in {Founders, Founders + 1}
         /\ \A s \in Server : Joined(s) => s <= Newest
         /\ ~ At("creation", "clusters") => \A s \in 1..Newest : Joined(s)
         /\ Newest = Founders => \A s \in Server : s > Founders => ~ Joined(s)
         /\ Newest = Founders + 1 => Joined(Founders + 1)
<1>1. \A w \in Workload : reach[w] > 0 <=> Joined(w[1])
  BY Workloads DEF Ups, Joined
<1>2. \A s \in Server : Joined(s) => s \in Nat /\ s <= Founders + 1
  BY Numbers DEF Ups
<1>3. CASE \E w \in Workload : w[1] > Founders /\ reach[w] > 0
  <2>1. PICK w \in Workload : w[1] > Founders /\ reach[w] > 0
    BY <1>3
  <2> DEFINE high == w[1]
  <2>5. high \in Server /\ Joined(high) /\ high > Founders
    BY <1>1, <2>1, Workloads
  <2> HIDE DEF high
  <2>6. high = Founders + 1
    BY <1>2, <2>5, Numbers
  <2>2. w[1] \in Server /\ Joined(w[1]) /\ w[1] = Founders + 1
    BY <2>5, <2>6 DEF high
  <2>3. Newest = Founders + 1
    BY <1>3 DEF Newest
  <2>4. \A s \in 1..Founders + 1 : s \in Server /\ (s <= Founders \/ s = Founders + 1)
    BY <2>2, Numbers DEF Server
  <2> QED
    BY <1>2, <2>2, <2>3, <2>4, Numbers DEF Ups
<1>4. CASE ~ \E w \in Workload : w[1] > Founders /\ reach[w] > 0
  <2>1. Newest = Founders
    BY <1>4 DEF Newest
  <2>2. \A s \in Server : s > Founders => ~ Joined(s)
    <3>1. \A s \in Server : <<s, 0>> \in Workload /\ <<s, 0>>[1] = s
      BY Workloads
    <3> QED
      BY <1>4, <3>1 DEF Joined
  <2>3. \A s \in 1..Founders : s \in Server /\ s <= Founders
    BY Numbers DEF Server
  <2>4. Founders # Founders + 1
    BY Numbers
  <2>5. \A s \in Server : Joined(s) => s <= Founders
    BY <1>2, <2>2, Numbers
  <2> QED
    BY <2>1, <2>2, <2>3, <2>4, <2>5, Numbers DEF Ups
<1> QED
  BY <1>3, <1>4

\* An event that misses nobody costs nothing.
LEMMA AnnounceFaults ==
  \A type, s : Announce(type, s) => UNCHANGED faults \/ Fault
BY DEF Announce

LEMMA ScriptTypesNext ==
  ASSUME WorkloadTypes, ScriptTypes, Running => Shape /\ Ups, Next
  PROVE  ScriptTypes'
<1>1. CASE ScriptStep
  <2>1. UNCHANGED faults \/ Fault
    BY <1>1, AnnounceFaults
       DEF ScriptStep, SetupNClusters, SetupNewCluster, StartListeners, PostBundles, PutBundle,
       FetchBundles, CreateFederations, UpdateRegistrationEntries, EntryRefused,
       PrepareX509Authority, ActivateX509Authority, RecordEventFired, KillForRestart,
       RestartWorkloads, RecordRemovalStart, DeleteBundle, CleanLocalEntry, EntriesClean, PollUntil,
       PublishBundleForServer
  <2>2. faults' \in 0..MaxFaults
    BY <2>1, Numbers DEF Fault, ScriptTypes
  <2> QED
    BY <1>1, <2>2, ScriptMoves DEF ScriptTypes
<1>2. CASE UNCHANGED scriptVars /\ (UNCHANGED faults \/ Fault)
  BY <1>2, Numbers DEF scriptVars, ScriptTypes, Fault
<1>3. CASE CommandFails \/ PollTimesOut
  BY <1>3, Numbers DEF CommandFails, PollTimesOut, Goto, Fault, ScriptTypes, Step
<1>4. CASE RunAddition \/ RunRotation \/ RunRemoval
  <2>1. Newest \in Server
    BY <1>4, NewestFacts DEF RunAddition, RunRotation, RunRemoval, Begin, Running
  <2>2. \A s \in 1..Newest : s \in Server
    BY <2>1, Numbers DEF Server
  <2>3. Founders < MaxServer => Founders + 1 \in Server
    BY Numbers DEF Server
  <2>4. ran < MaxScripts => ran + 1 \in 0..MaxScripts
    BY Numbers DEF ScriptTypes
  <2> QED
    BY <1>4, <2>1, <2>2, <2>3, <2>4
       DEF RunAddition, RunRotation, RunRemoval, Begin, ScriptTypes, Script, Step
<1>5. ASSUME NEW w \in Workload, Works(w)
      PROVE  ScriptTypes'
  <2>1. UNCHANGED faults \/ Fault
    BY <1>5, WorksSteps DEF SendsBy, TalkedAgain
  <2> QED
    BY <1>2, <1>5, <2>1, WorksSteps DEF ByItself
<1> QED
  BY <1>1, <1>2, <1>3, <1>4, <1>5, Steps
     DEF Subscribe, HandleEvent, HandlerFails, RefreshBundle, RenewSvids, DeliverBundles

\* What changes the bundles of the servers, and how.
LEMMA SpireSteps ==
  ASSUME Next
  PROVE  /\ UNCHANGED own \/ PrepareX509Authority
         /\ UNCHANGED active \/ ActivateX509Authority
         /\ UNCHANGED svid \/ \E s \in Server : RenewSvids(s)
         /\ UNCHANGED published \/ PostBundles \/ PutBundle \/ DeleteBundle
         /\ UNCHANGED federated \/ CreateFederations
         /\ \/ UNCHANGED <<held, entry>>
            \/ FetchBundles \/ UpdateRegistrationEntries \/ CleanLocalEntry
            \/ \E s \in Server : HandleEvent(s)
            \/ \E s, t \in Server : RefreshBundle(s, t)
<1>1. CASE ScriptStep
  BY <1>1 DEF ScriptStep, SetupNClusters, SetupNewCluster, StartListeners, PostBundles, PutBundle,
     FetchBundles, CreateFederations, UpdateRegistrationEntries, EntryRefused,
     PrepareX509Authority, ActivateX509Authority, RecordEventFired, KillForRestart,
     RestartWorkloads, RecordRemovalStart, DeleteBundle, CleanLocalEntry, EntriesClean, PollUntil,
     workloadVars, spireVars, processVars, StartWorkloads, KillWorkloads
<1>2. ASSUME NEW w \in Workload, Works(w)
      PROVE  UNCHANGED <<spireVars, published, svid>>
  <2>1. CASE SendsBy(w)
    BY <1>2, <2>1, WorksSteps DEF ByItself, SendsBy, PeriodicSend
  <2> QED
    BY <1>2, <2>1, WorksSteps
       DEF ByItself, Talk, InternalDone, MeshDone, RoundDone, TalkAgain, TalkedAgain,
           CommunicatedAgain
<1>3. ASSUME NEW w \in Workload, DeliverBundles(w)
      PROVE  UNCHANGED <<spireVars, published, svid>>
  BY <1>3 DEF DeliverBundles, OnX509BundlesUpdate
<1>4. CASE CommandFails \/ PollTimesOut \/ RunAddition \/ RunRotation \/ RunRemoval
  BY <1>4 DEF CommandFails, PollTimesOut, RunAddition, RunRotation, RunRemoval, Begin,
     spireVars, workloadVars
<1>5. ASSUME NEW s \in Server, Subscribe(s) \/ HandlerFails(s)
      PROVE  UNCHANGED <<spireVars, published, svid>>
  BY <1>5 DEF Subscribe, HandlerFails, spireVars, workloadVars
<1>6. ASSUME NEW s \in Server, HandleEvent(s)
      PROVE  UNCHANGED <<own, active, svid, published, federated>>
  BY <1>6 DEF HandleEvent, workloadVars
<1>7. ASSUME NEW s \in Server, RenewSvids(s)
      PROVE  UNCHANGED <<spireVars, published>>
  BY <1>7 DEF RenewSvids
<1>8. ASSUME NEW s \in Server, NEW t \in Server, RefreshBundle(s, t)
      PROVE  UNCHANGED <<own, active, svid, published, federated>>
  BY <1>8 DEF RefreshBundle, workloadVars
<1> QED
  BY <1>1, <1>2, <1>3, <1>4, <1>5, <1>6, <1>7, <1>8, Steps DEF spireVars

LEMMA EventTyped ==
  ASSUME ListenerTypes, NEW s \in Server, events[s] # <<>>
  PROVE  /\ events[s] \in Seq(Event) /\ Head(events[s]) \in Event
         /\ Head(events[s]).server \in Server
         /\ Head(events[s]).type \in {"bundle_updated", "bundle_deleted"}
         /\ Tail(events[s]) \in Seq(Event) /\ Len(Tail(events[s])) = Len(events[s]) - 1
         /\ 1 \in DOMAIN events[s] /\ Head(events[s]) = events[s][1]
         /\ \A k \in DOMAIN Tail(events[s]) :
              k + 1 \in DOMAIN events[s] /\ Tail(events[s])[k] = events[s][k + 1]
<1>1. events[s] \in Seq(Event)
  BY DEF ListenerTypes
<1>2. Head(events[s]) \in Event
  BY <1>1
<1>3. Head(events[s]).server \in Server
        /\ Head(events[s]).type \in {"bundle_updated", "bundle_deleted"}
  BY <1>2 DEF Event
<1> QED
  BY <1>1, <1>2, <1>3

LEMMA StoreNumbers ==
  ASSUME StoreTypes
  PROVE  /\ Missing = -1 /\ Missing \in Int
         /\ \A s \in Server : /\ own[s] \in Nat /\ svid[s] \in Nat /\ active[s] \in Nat
                              /\ own[s] \in Version /\ Missing <= own[s] /\ Missing # own[s]
                              /\ published[s] \in Int /\ Missing <= published[s]
         /\ \A s, t \in Server : held[s][t] \in Int /\ Missing <= held[s][t]
<1>1. \A n \in 0..MaxVersion : n \in Nat /\ n \in Version /\ -1 <= n /\ -1 # n
  BY Numbers DEF Version, Missing
<1>2. \A v \in Version : v \in Int /\ -1 <= v
  BY Numbers DEF Version, Missing
<1> QED
  BY <1>1, <1>2 DEF StoreTypes, Missing

LEMMA HeldEffect ==
  ASSUME StoreTypes, ScriptTypes, ListenerTypes, Trail, UNCHANGED own,
         \/ FetchBundles \/ UpdateRegistrationEntries \/ CleanLocalEntry
         \/ \E s \in Server : HandleEvent(s)
         \/ \E s, t \in Server : RefreshBundle(s, t)
  PROVE  /\ held' \in [Server -> [Server -> Version]] /\ entry' \in [Workload -> SUBSET Server]
         /\ \A s, t \in Server : held'[s][t] <= own[t]
<1> DEFINE Kept == /\ held' \in [Server -> [Server -> Version]]
                   /\ entry' \in [Workload -> SUBSET Server]
                   /\ \A s, t \in Server : held'[s][t] <= own[t]
<1>1. CASE FetchBundles
  <2> DEFINE mine == [t \in Server |-> IF t = script.num \/ published[t] = Missing
                                       THEN held[script.num][t] ELSE published[t]]
  <2>1. held' = [held EXCEPT ![script.num] = mine] /\ UNCHANGED entry
    BY <1>1 DEF FetchBundles
  <2>2. mine \in [Server -> Version] /\ \A t \in Server : mine[t] <= own[t]
    BY DEF StoreTypes, ScriptTypes, Trail
  <2> HIDE DEF mine
  <2> QED
    BY <2>1, <2>2 DEF StoreTypes, ScriptTypes, Trail
<1>2. CASE UpdateRegistrationEntries
  BY <1>2 DEF UpdateRegistrationEntries, StoreTypes, ScriptTypes, Trail
<1>3. CASE CleanLocalEntry
  BY <1>3 DEF CleanLocalEntry, StoreTypes, Trail
<1>4. ASSUME NEW s \in Server, HandleEvent(s)
      PROVE  Kept
  <2> DEFINE t == Head(events[s]).server
  <2>1. t \in Server
    BY <1>4, EventTyped DEF HandleEvent
  <2>2. \/ UNCHANGED <<held, entry>>
        \/ held' = [held EXCEPT ![s][t] = published[t]] /\ UNCHANGED entry
        \/ Dissociate(s, t)
    BY <1>4 DEF HandleEvent
  <2> HIDE DEF t
  <2>3. Missing <= own[t] /\ published[t] <= own[t]
    BY <2>1, StoreNumbers DEF Trail
  <2> QED
    BY <2>1, <2>2, <2>3, Numbers DEF Dissociate, StoreTypes, Trail
<1>5. ASSUME NEW s \in Server, NEW t \in Server, RefreshBundle(s, t)
      PROVE  Kept
  <2>1. own[t] \in Version /\ own[t] <= own[t]
    BY Numbers DEF StoreTypes
  <2> QED
    BY <1>5, <2>1 DEF RefreshBundle, StoreTypes, Trail
<1> QED
  BY <1>1, <1>2, <1>3, <1>4, <1>5

LEMMA HeldOwn ==
  ASSUME Next
  PROVE  UNCHANGED own \/ UNCHANGED <<held, entry>>
BY SpireSteps DEF PrepareX509Authority

LEMMA OwnRises ==
  ASSUME StoreTypes, ScriptTypes, Running => Shape, Next
  PROVE  own' \in [Server -> 0..MaxVersion] /\ \A s \in Server : own[s] <= own'[s]
<1>1. CASE PrepareX509Authority
  <2>1. own[script.num] + 1 \in 0..MaxVersion /\ own[script.num] <= own[script.num] + 1
    BY <1>1, Numbers DEF PrepareX509Authority, At, Running, Shape, StoreTypes, ScriptTypes
  <2>2. \A s \in Server : own[s] <= own[s]
    BY StoreNumbers
  <2> QED
    BY <1>1, <2>1, <2>2 DEF PrepareX509Authority, StoreTypes
<1>2. CASE UNCHANGED own
  BY <1>2, StoreNumbers DEF StoreTypes
<1> QED
  BY <1>1, <1>2, SpireSteps

LEMMA StoreTypesNext ==
  ASSUME StoreTypes, ScriptTypes, ListenerTypes, Trail, Running => Shape, Next
  PROVE  /\ StoreTypes'
         /\ \A s \in Server : svid'[s] <= active'[s] /\ active'[s] <= own'[s]
                              /\ published'[s] <= own'[s]
         /\ \A s, t \in Server : held'[s][t] <= own'[t]
<1>1. own' \in [Server -> 0..MaxVersion] /\ \A s \in Server : own[s] <= own'[s]
  BY OwnRises
<1>2. /\ active' \in [Server -> 0..MaxVersion]
      /\ \A s \in Server : active'[s] <= own'[s] /\ active[s] <= active'[s]
  <2>1. CASE ActivateX509Authority
    BY <2>1 DEF ActivateX509Authority, StoreTypes, ScriptTypes, Trail
  <2>2. CASE UNCHANGED active
    BY <1>1, <2>2 DEF StoreTypes, Trail
  <2> QED
    BY <2>1, <2>2, SpireSteps
<1>3. svid' \in [Server -> 0..MaxVersion] /\ \A s \in Server : svid'[s] <= active'[s]
  <2>1. CASE UNCHANGED svid
    BY <1>2, <2>1 DEF StoreTypes, Trail
  <2>2. ASSUME NEW s \in Server, RenewSvids(s)
        PROVE  svid' \in [Server -> 0..MaxVersion] /\ \A t \in Server : svid'[t] <= active'[t]
    BY <2>2 DEF RenewSvids, spireVars, StoreTypes, Trail
  <2> QED
    BY <2>1, <2>2, SpireSteps
<1>4. published' \in [Server -> Version] /\ \A s \in Server : published'[s] <= own'[s]
  <2>1. CASE UNCHANGED published
    <3>1. \A s \in Server : published[s] \in Int /\ own[s] \in Int /\ own'[s] \in Int
      BY <1>1, StoreNumbers
    <3> QED
      BY <1>1, <2>1, <3>1 DEF StoreTypes, Trail
  <2>2. ASSUME PublishBundleForServer(script.num), UNCHANGED own
        PROVE  published' \in [Server -> Version] /\ \A s \in Server : published'[s] <= own'[s]
    <3>1. script.num \in Server /\ own[script.num] \in Version
            /\ \A s \in Server : own[s] <= own[s]
      BY StoreNumbers DEF ScriptTypes
    <3> QED
      BY <2>2, <3>1 DEF PublishBundleForServer, StoreTypes, Trail
  <2>3. CASE DeleteBundle
    <3>1. script.num \in Server /\ Missing <= own[script.num] /\ UNCHANGED own
      BY <2>3, StoreNumbers DEF DeleteBundle, spireVars, ScriptTypes
    <3> QED
      BY <2>3, <3>1, Numbers DEF DeleteBundle, StoreTypes, Trail
  <2> QED
    BY <2>1, <2>2, <2>3, SpireSteps DEF PostBundles, PutBundle, spireVars
<1>5. federated' \in [Server -> SUBSET Server]
  <2>1. \A n \in Server : (1..n) \subseteq Server
    BY Numbers DEF Server
  <2> QED
    BY <2>1, SpireSteps DEF CreateFederations, StoreTypes, ScriptTypes
<1>6. /\ held' \in [Server -> [Server -> Version]] /\ entry' \in [Workload -> SUBSET Server]
      /\ \A s, t \in Server : held'[s][t] <= own'[t]
  <2>1. CASE UNCHANGED <<held, entry>>
    BY <1>1, <2>1, Numbers DEF StoreTypes, Trail, Version
  <2>2. CASE ~ UNCHANGED <<held, entry>>
    BY <2>2, HeldEffect, HeldOwn, SpireSteps
  <2> QED
    BY <2>1, <2>2
<1> QED
  BY <1>1, <1>2, <1>3, <1>4, <1>5, <1>6 DEF StoreTypes


\* What the watchers see changes when a set is delivered; a workload that comes
\* up remembers nothing.
LEMMA WatchSteps ==
  ASSUME Next
  PROVE  \/ UNCHANGED <<view, previous>>
         \/ SetupNewCluster /\ UNCHANGED view
         \/ RestartWorkloads /\ UNCHANGED view
         \/ \E w \in Workload : DeliverBundles(w)
<1>1. CASE ScriptStep
  BY <1>1, ScriptStepWorkloads
     DEF workloadVars, processVars, SetupNClusters, SetupNewCluster, RecordEventFired,
         KillForRestart, RestartWorkloads, RecordRemovalStart, StartWorkloads, KillWorkloads
<1>2. ASSUME NEW w \in Workload, Works(w)
      PROVE  UNCHANGED <<view, previous>>
  <2>1. CASE SendsBy(w)
    BY <2>1 DEF SendsBy, PeriodicSend
  <2> QED
    BY <1>2, <2>1, WorksSteps
       DEF Talk, InternalDone, MeshDone, RoundDone, TalkAgain, TalkedAgain, CommunicatedAgain
<1>3. CASE CommandFails \/ PollTimesOut \/ RunAddition \/ RunRotation \/ RunRemoval
  BY <1>3 DEF CommandFails, PollTimesOut, RunAddition, RunRotation, RunRemoval, Begin,
     workloadVars, processVars
<1>4. ASSUME NEW s \in Server,
             \/ Subscribe(s) \/ HandlerFails(s) \/ HandleEvent(s) \/ RenewSvids(s)
             \/ \E t \in Server : RefreshBundle(s, t)
      PROVE  UNCHANGED <<view, previous>>
  BY <1>4 DEF Subscribe, HandlerFails, HandleEvent, RenewSvids, RefreshBundle, workloadVars,
     processVars
<1> QED
  BY <1>1, <1>2, <1>3, <1>4, Steps

\* What a watcher remembers is what it was given last, of the servers it watches.
LEMMA Delivery ==
  ASSUME WorkloadTypes, StoreTypes, NEW w \in Workload, NEW bundles \in Deliverable(w),
         OnX509BundlesUpdate(w, bundles)
  PROVE  /\ view' = [view EXCEPT ![w] = bundles]
         /\ view'[w] = bundles /\ bundles \in [Server -> Version]
         /\ previous' \in [Workload -> [Server -> Version]]
         /\ \A v \in Workload \ {w} : previous'[v] = previous[v] /\ view'[v] = view[v]
                                      /\ again'[v] = again[v]
         /\ \A t \in Server :
              /\ previous'[w][t] = IF t \in Watched(w) /\ bundles[t] # Missing THEN bundles[t]
                                   ELSE previous[w][t]
              /\ bundles[t] = view[w][t]
                   \/ bundles[t] = IF t \in entry[w] THEN held[w[1]][t] ELSE Missing
<1>1. bundles \in [Server -> Version] /\ bundles \in {view[w], Offered(w)}
  BY DeliveredTyped
<1>2. previous' = [previous EXCEPT ![w] =
         [t \in Server |-> IF t \in Watched(w) /\ bundles[t] # Missing THEN bundles[t]
                           ELSE previous[w][t]]]
  BY DEF OnX509BundlesUpdate
<1>3. previous' \in [Workload -> [Server -> Version]]
  BY <1>1, <1>2 DEF WorkloadTypes
<1>4. \A v \in Workload \ {w} : again'[v] = again[v]
  BY DEF OnX509BundlesUpdate, WorkloadTypes
<1> QED
  BY <1>1, <1>2, <1>3, <1>4 DEF OnX509BundlesUpdate, WorkloadTypes, Offered

LEMMA TrailNext ==
  ASSUME WorkloadTypes, StoreTypes, ScriptTypes, ListenerTypes, Trail, Running => Shape, Next
  PROVE  Trail'
<1>1. own' \in [Server -> 0..MaxVersion] /\ \A s \in Server : own[s] <= own'[s]
  BY OwnRises
<1>2. \A t \in Server : own[t] \in Nat /\ own'[t] \in Nat /\ Missing <= own[t] /\ Missing <= own'[t]
  BY <1>1, StoreNumbers
<1>3. \A w \in Workload : \A t \in Server : view[w][t] \in Int /\ previous[w][t] \in Int
  BY Numbers DEF WorkloadTypes, Version, Missing
<1>4. \A w \in Workload : \A t \in Server : view[w][t] <= own'[t] /\ previous[w][t] <= own'[t]
  BY <1>1, <1>2, <1>3 DEF Trail
<1>5. \A w \in Workload : \A t \in Server : view'[w][t] <= own'[t] /\ previous'[w][t] <= own'[t]
  <2>1. CASE UNCHANGED <<view, previous>>
    BY <1>4, <2>1
  <2>2. CASE (SetupNewCluster \/ RestartWorkloads) /\ UNCHANGED view
    <3>1. \A w \in Workload : previous'[w] \in {previous[w], NoBundles}
      BY <2>2 DEF SetupNewCluster, RestartWorkloads, StartWorkloads
    <3>2. \A t \in Server : NoBundles[t] <= own'[t]
      BY <1>2 DEF NoBundles
    <3> QED
      BY <1>4, <2>2, <3>1, <3>2
  <2>3. ASSUME NEW w \in Workload, DeliverBundles(w)
        PROVE  \A v \in Workload : \A t \in Server : view'[v][t] <= own'[t] /\ previous'[v][t] <= own'[t]
    <3>1. PICK bundles \in Deliverable(w) : OnX509BundlesUpdate(w, bundles)
      BY <2>3 DEF DeliverBundles
    <3>2. w[1] \in Server
      BY Workloads
    <3>3. \A t \in Server : held[w[1]][t] <= own'[t]
      BY <1>1, <1>2, <3>2, StoreNumbers DEF Trail
    <3>4. \A t \in Server : bundles[t] <= own'[t]
      BY <1>2, <1>4, <3>1, <3>3, Delivery
    <3> QED
      BY <1>4, <3>1, <3>4, Delivery
  <2> QED
    BY <2>1, <2>2, <2>3, WatchSteps
<1> QED
  BY <1>5, StoreTypesNext DEF Trail

LEMMA AnnounceTyped ==
  ASSUME ListenerTypes, NEW type \in {"bundle_updated", "bundle_deleted"}, NEW s \in Server,
         Announce(type, s)
  PROVE  /\ events' \in [Server -> Seq(Event)]
         /\ \A i \in Server : \/ events'[i] = events[i]
                              \/ /\ listener[i] = "on" /\ i # s
                                 /\ events'[i] = Append(events[i], [type |-> type, server |-> s])
<1>1. [type |-> type, server |-> s] \in Event
  BY DEF Event
<1>2. PICK missed \in SUBSET {i \in Server \ {s} : listener[i] = "on"} :
        /\ events' = [i \in Server |-> IF i \in {j \in Server \ {s} : listener[j] = "on"} \ missed
                                      THEN Append(events[i], [type |-> type, server |-> s])
                                      ELSE events[i]]
        /\ IF missed = {} THEN UNCHANGED faults ELSE Fault
  BY DEF Announce
<1> QED
  BY <1>1, <1>2 DEF ListenerTypes

\* What changes the queues of events, the listeners and the lines in their logs.
LEMMA ListenerSteps ==
  ASSUME Next
  PROVE  /\ UNCHANGED listener \/ StartListeners \/ \E s \in Server : Subscribe(s)
         /\ \/ UNCHANGED events
            \/ PostBundles \/ PutBundle \/ DeleteBundle
            \/ \E s \in Server : HandleEvent(s) \/ HandlerFails(s)
         /\ UNCHANGED applied \/ RecordEventFired \/ \E s \in Server : HandleEvent(s)
         /\ UNCHANGED deleted \/ RecordRemovalStart \/ \E s \in Server : HandleEvent(s)
<1>1. CASE ScriptStep
  BY <1>1 DEF ScriptStep, SetupNClusters, SetupNewCluster, StartListeners, PostBundles, PutBundle,
     FetchBundles, CreateFederations, UpdateRegistrationEntries, EntryRefused, listenerVars,
     PrepareX509Authority, ActivateX509Authority, RecordEventFired, KillForRestart,
     RestartWorkloads, RecordRemovalStart, DeleteBundle, CleanLocalEntry, EntriesClean, PollUntil,
     PublishBundleForServer
<1>2. CASE UNCHANGED listenerVars
  BY <1>2 DEF listenerVars
<1>3. ASSUME NEW s \in Server, HandleEvent(s)
      PROVE  UNCHANGED listener
  BY <1>3 DEF HandleEvent
<1>4. ASSUME NEW s \in Server, Subscribe(s)
      PROVE  UNCHANGED <<events, applied, deleted>>
  BY <1>4 DEF Subscribe
<1>5. ASSUME NEW s \in Server, HandlerFails(s)
      PROVE  UNCHANGED <<listener, applied, deleted>>
  BY <1>5 DEF HandlerFails
<1> QED
  BY <1>1, <1>2, <1>3, <1>4, <1>5, Steps, WorksSteps
     DEF ByItself, DeliverBundles, CommandFails, PollTimesOut, RunAddition, RunRotation,
         RunRemoval, Begin, RenewSvids, RefreshBundle

LEMMA ListenerTypesNext ==
  ASSUME ListenerTypes, ScriptTypes, Next
  PROVE  ListenerTypes'
<1>1. listener' \in [Server -> {"off", "starting", "on"}]
  BY ListenerSteps DEF StartListeners, Subscribe, ListenerTypes
<1>2. events' \in [Server -> Seq(Event)]
  <2>1. script.num \in Server
    BY DEF ScriptTypes
  <2>2. ASSUME NEW s \in Server, HandleEvent(s) \/ HandlerFails(s)
        PROVE  events' \in [Server -> Seq(Event)]
    BY <2>2, EventTyped DEF HandleEvent, HandlerFails, ListenerTypes
  <2> QED
    BY <2>1, <2>2, ListenerSteps, AnnounceTyped
       DEF PostBundles, PutBundle, DeleteBundle, PublishBundleForServer, ListenerTypes
<1>3. applied' \subseteq Server \X Server /\ deleted' \subseteq Server \X Server
  <2>1. ASSUME NEW s \in Server, HandleEvent(s)
        PROVE  applied' \subseteq Server \X Server /\ deleted' \subseteq Server \X Server
    BY <2>1, EventTyped DEF HandleEvent, ListenerTypes
  <2> QED
    BY <2>1, ListenerSteps DEF RecordEventFired, RecordRemovalStart, ListenerTypes
<1> QED
  BY <1>1, <1>2, <1>3 DEF ListenerTypes

\* What changes where the workloads are: the scripts that start and kill them,
\* and they themselves at the end of a stage.
LEMMA StageSteps ==
  ASSUME Next
  PROVE  \/ UNCHANGED <<stage, reach>>
         \/ SetupNClusters \/ SetupNewCluster \/ KillForRestart \/ RestartWorkloads
         \/ \E w \in Workload : /\ InternalDone(w) \/ MeshDone(w) \/ RoundDone(w)
                                /\ UNCHANGED scriptVars
<1>1. CASE ScriptStep
  BY <1>1, ScriptStepWorkloads
     DEF workloadVars, processVars, RecordEventFired, RecordRemovalStart
<1>2. ASSUME NEW w \in Workload, Works(w)
      PROVE  \/ UNCHANGED <<stage, reach>>
             \/ (InternalDone(w) \/ MeshDone(w) \/ RoundDone(w)) /\ UNCHANGED scriptVars
  <2>1. CASE SendsBy(w)
    BY <2>1 DEF SendsBy, PeriodicSend
  <2> QED
    BY <1>2, <2>1, WorksSteps DEF ByItself, Talk, TalkAgain, TalkedAgain, CommunicatedAgain
<1>3. CASE CommandFails \/ PollTimesOut \/ RunAddition \/ RunRotation \/ RunRemoval
  BY <1>3 DEF CommandFails, PollTimesOut, RunAddition, RunRotation, RunRemoval, Begin,
     workloadVars, processVars
<1>4. ASSUME NEW s \in Server,
             \/ Subscribe(s) \/ HandlerFails(s) \/ HandleEvent(s) \/ RenewSvids(s)
             \/ \E t \in Server : RefreshBundle(s, t)
      PROVE  UNCHANGED <<stage, reach>>
  BY <1>4 DEF Subscribe, HandlerFails, HandleEvent, RenewSvids, RefreshBundle, workloadVars,
     processVars
<1>5. ASSUME NEW w \in Workload, DeliverBundles(w)
      PROVE  UNCHANGED <<stage, reach>>
  BY <1>5 DEF DeliverBundles, OnX509BundlesUpdate
<1> QED
  BY <1>1, <1>2, <1>3, <1>4, <1>5, Steps

\* What a script does next; the steps of all others leave it alone.
LEMMA ScriptSteps ==
  ASSUME ScriptTypes, Next, Running'
  PROVE  \/ UNCHANGED scriptVars /\ ~ PrepareX509Authority
         \/ ScriptStep
         \/ RunAddition \/ RunRotation \/ RunRemoval
<1>1. ~ CommandFails /\ ~ PollTimesOut
  <2>1. CASE CommandFails \/ PollTimesOut
    <3>1. script'.step \in {"failed", "gaveup"}
      BY <2>1 DEF CommandFails, PollTimesOut, Goto, ScriptTypes
    <3> QED
      BY <3>1 DEF Running
  <2> QED
    BY <2>1
<1>2. PrepareX509Authority => ScriptStep
  BY DEF ScriptStep
<1> QED
  BY <1>1, <1>2, Steps, WorksSteps
     DEF ByItself, Subscribe, HandlerFails, HandleEvent, RenewSvids, RefreshBundle, DeliverBundles

LEMMA NewestKept ==
  ASSUME WorkloadTypes, ScriptTypes, Ups, Shape, Next, script.op \in {"rotation", "removal"} \/ UNCHANGED reach
  PROVE  Newest' = Newest
<1>1. CASE UNCHANGED reach
  BY <1>1 DEF Newest
<1>2. CASE RestartWorkloads
  <2>1. \A w \in Workload : reach'[w] > 0 <=> reach[w] > 0
    <3>1. script.op = "removal" /\ script.num \in 1..Newest /\ script.count = Newest
      BY <1>2 DEF RestartWorkloads, At, Shape
    <3>2. Joined(script.num) /\ Newest > 0
      <4>1. ~ At("creation", "clusters")
        BY <3>1 DEF At
      <4>2. Joined(script.num)
        BY <3>1, <4>1, NewestFacts
      <4>3. Newest > 0
        BY NewestFacts, Numbers
      <4> QED
        BY <4>2, <4>3
    <3>3. \A w \in Of(script.num) : reach[w] > 0 /\ script.count > 0
      BY <3>1, <3>2, Workloads DEF Joined, Ups, ScriptTypes
    <3>4. \A w \in Workload :
            reach'[w] = IF w \in Of(script.num) THEN script.count ELSE reach[w]
      BY <1>2 DEF RestartWorkloads, StartWorkloads
    <3> QED
      BY <3>3, <3>4
  <2> QED
    BY <2>1 DEF Newest
<1> QED
  BY <1>1, <1>2, StageSteps
     DEF SetupNClusters, SetupNewCluster, KillForRestart, KillWorkloads, InternalDone, MeshDone,
         RoundDone, At

LEMMA ShapeNext ==
  ASSUME WorkloadTypes, ScriptTypes, Running => Shape /\ Ups, Next, Running'
  PROVE  Shape'
<1>1. CASE UNCHANGED scriptVars /\ ~ PrepareX509Authority
  <2>1. Shape /\ Ups /\ UNCHANGED script
    BY <1>1 DEF scriptVars, Running
  <2>2. UNCHANGED own
    BY <1>1, SpireSteps
  <2>3. script.op \in {"rotation", "removal"} => Newest' = Newest
    BY <2>1, NewestKept
  <2> QED
    BY <2>1, <2>2, <2>3 DEF Shape, Founder
<1>2. CASE ScriptStep
  <2>1. Shape /\ Ups
    BY <1>2, ScriptMoves
  <2>2. script.op \in {"rotation", "removal"} => Newest' = Newest
    BY <2>1, NewestKept
  <2> QED
    BY <1>2, <2>1, <2>2, ScriptMoves DEF Shape, Founder
<1>3. CASE RunAddition
  BY <1>3 DEF RunAddition, Begin, Shape
<1>4. CASE RunRotation \/ RunRemoval
  <2>1. PICK s \in 1..Newest :
          \/ Begin("rotation", "prepare", s, Newest) /\ own[s] < MaxVersion
          \/ Begin("removal", "kill", s, Newest)
    BY <1>4 DEF RunRotation, RunRemoval
  <2>2. UNCHANGED <<reach, own>>
    BY <2>1 DEF Begin, workloadVars, processVars, spireVars
  <2>3. Newest' = Newest
    BY <2>2 DEF Newest
  <2> QED
    BY <2>1, <2>2, <2>3 DEF Begin, Shape
<1> QED
  BY <1>1, <1>2, <1>3, <1>4, ScriptSteps

LEMMA ReachFacts ==
  ASSUME WorkloadTypes, Ups, NEW w \in Workload
  PROVE  /\ reach[w] \in Nat /\ (Joined(w[1]) <=> reach[w] > 0)
         /\ ~ Joined(w[1]) => reach[w] = 0 /\ stage[w] = "off"
         /\ Joined(w[1]) => Reach(w[1]) <= reach[w]
<1>1. reach[w] \in Nat /\ reach[w] = reach[<<w[1], 0>>]
  BY DEF WorkloadTypes, Ups
<1>2. Joined(w[1]) <=> reach[w] > 0
  BY <1>1 DEF Joined
<1>3. ~ Joined(w[1]) => reach[w] = 0
  BY <1>1, <1>2
<1> QED
  BY <1>1, <1>2, <1>3 DEF Ups

\* The steps of the scripts that the workloads depend on.
LEMMA ScriptEdges ==
  ASSUME ScriptTypes, Running => Shape, ScriptStep, Running'
  PROVE  /\ At("creation", "clusters") <=> SetupNClusters
         /\ At("addition", "clusters") <=> SetupNewCluster
         /\ At("removal", "kill") <=> KillForRestart
         /\ At("removal", "respawn") <=> RestartWorkloads
         /\ script'.step # "clusters"
         /\ script'.op = "removal" /\ script'.step = "respawn" => KillForRestart
         /\ script'.step = "listeners" => SetupNClusters \/ SetupNewCluster
<1>1. \/ SetupNClusters \/ SetupNewCluster \/ StartListeners \/ PostBundles \/ PutBundle
      \/ FetchBundles \/ CreateFederations \/ UpdateRegistrationEntries \/ EntryRefused
      \/ PrepareX509Authority \/ ActivateX509Authority \/ RecordEventFired
      \/ KillForRestart \/ RestartWorkloads \/ RecordRemovalStart \/ DeleteBundle
      \/ CleanLocalEntry \/ EntriesClean \/ PollUntil
  BY DEF ScriptStep
<1>2. /\ At("creation", "clusters") <=> SetupNClusters
      /\ At("addition", "clusters") <=> SetupNewCluster
      /\ At("removal", "kill") <=> KillForRestart
      /\ At("removal", "respawn") <=> RestartWorkloads
  BY <1>1 DEF SetupNClusters, SetupNewCluster, StartListeners, PostBundles, PutBundle,
     FetchBundles, CreateFederations, UpdateRegistrationEntries, EntryRefused,
     PrepareX509Authority, ActivateX509Authority, RecordEventFired, KillForRestart,
     RestartWorkloads, RecordRemovalStart, DeleteBundle, CleanLocalEntry, EntriesClean, PollUntil,
     At
<1>3. script'.step # "clusters"
  BY ScriptMoves
<1>4. script'.op = "removal" /\ script'.step = "respawn" => KillForRestart
  <2>1. Shape /\ script'.op = script.op
    BY ScriptMoves
  <2>2. CASE FetchBundles \/ CreateFederations \/ UpdateRegistrationEntries \/ StartListeners
             \/ SetupNClusters \/ SetupNewCluster \/ PostBundles \/ PutBundle
    <3>1. script.op # "removal"
      BY <2>1, <2>2 DEF FetchBundles, CreateFederations, UpdateRegistrationEntries, StartListeners,
         SetupNClusters, SetupNewCluster, PostBundles, PutBundle, At, Shape
    <3> QED
      BY <2>1, <3>1
  <2>3. CASE EntryRefused \/ PrepareX509Authority \/ ActivateX509Authority \/ RecordEventFired
             \/ RestartWorkloads \/ RecordRemovalStart \/ DeleteBundle \/ CleanLocalEntry
             \/ EntriesClean \/ PollUntil
    BY <2>3 DEF EntryRefused, PrepareX509Authority, ActivateX509Authority, RecordEventFired,
       RestartWorkloads, RecordRemovalStart, DeleteBundle, CleanLocalEntry, EntriesClean, PollUntil,
       Goto, At, ScriptTypes
  <2> QED
    BY <1>1, <2>2, <2>3
<1>5. script'.step = "listeners" => SetupNClusters \/ SetupNewCluster
  <2>1. CASE PostBundles \/ FetchBundles \/ CreateFederations \/ UpdateRegistrationEntries
    BY <2>1 DEF PostBundles, FetchBundles, CreateFederations, UpdateRegistrationEntries, NextServer,
       At, ScriptTypes
  <2>2. CASE StartListeners \/ PutBundle \/ EntryRefused \/ PrepareX509Authority
             \/ ActivateX509Authority \/ RecordEventFired \/ KillForRestart \/ RestartWorkloads
             \/ RecordRemovalStart \/ DeleteBundle \/ CleanLocalEntry \/ EntriesClean \/ PollUntil
    BY <2>2 DEF StartListeners, PutBundle, EntryRefused, PrepareX509Authority,
       ActivateX509Authority, RecordEventFired, KillForRestart, RestartWorkloads,
       RecordRemovalStart, DeleteBundle, CleanLocalEntry, EntriesClean, PollUntil, Goto, ScriptTypes
  <2> QED
    BY <1>1, <2>1, <2>2
<1> QED
  BY <1>2, <1>3, <1>4, <1>5

LEMMA StageNext ==
  ASSUME WorkloadTypes, ScriptTypes, Shape, Ups, NEW w \in Workload,
         InternalDone(w) \/ MeshDone(w) \/ RoundDone(w), UNCHANGED scriptVars
  PROVE  Ups'
<1>1. UNCHANGED <<reach, script>>
  BY DEF InternalDone, MeshDone, RoundDone, scriptVars
<1>2. stage[w] # "off" /\ \A v \in Workload : stage'[v] # "off" <=> stage[v] # "off"
  BY DEF InternalDone, MeshDone, RoundDone, WorkloadTypes
<1>3. \A v \in Workload : stage'[v] \in {"periodic", "silent"} => stage[v] \in {"periodic", "silent"}
  BY DEF InternalDone, MeshDone, RoundDone, WorkloadTypes
<1> QED
  BY <1>1, <1>2, <1>3 DEF Ups, At, Joining, Joined

LEMMA UpsNext ==
  ASSUME WorkloadTypes, ScriptTypes, Running => Shape /\ Ups, Next, Running'
  PROVE  Ups'
<1>1. CASE UNCHANGED <<stage, reach>> /\ UNCHANGED scriptVars
  BY <1>1 DEF scriptVars, Running, Ups, At, Joining, Joined
<1>2. CASE UNCHANGED <<stage, reach>> /\ ScriptStep /\ ~ SetupNClusters /\ ~ SetupNewCluster
           /\ ~ KillForRestart /\ ~ RestartWorkloads
  <2>1. /\ Shape /\ Ups /\ script'.op = script.op
        /\ script.op # "creation" => script'.num = script.num
    BY <1>2, ScriptMoves
  <2>2. /\ ~ At("creation", "clusters") /\ ~ At("addition", "clusters") /\ ~ At("removal", "respawn")
        /\ ~ At("creation", "clusters")' /\ ~ At("addition", "clusters")'
        /\ ~ At("removal", "respawn")'
    BY <1>2, <2>1, ScriptEdges DEF At
  <2>3. \A s : Joining(s)' <=> Joining(s)
    BY <2>1 DEF Joining
  <2> QED
    BY <1>2, <2>1, <2>2, <2>3 DEF Ups, At, Joined
<1>3. CASE RunAddition
  <2>1. /\ Shape /\ Ups /\ ~ At("removal", "respawn") /\ UNCHANGED <<stage, reach>>
        /\ ~ At("creation", "clusters")
        /\ script'.op = "addition" /\ script'.step = "clusters" /\ script'.num = Founders + 1
        /\ Newest = Founders
    BY <1>3 DEF RunAddition, Begin, Running, workloadVars, processVars, At
  <2>2. \A s \in Server : s > Founders => ~ Joined(s)
    BY <2>1, NewestFacts
  <2>3. \A w \in Workload : w[1] = Founders + 1 => reach[w] = 0 /\ stage[w] = "off"
    <3>1. Founders + 1 > Founders
      BY Numbers
    <3>2. \A w \in Workload : w[1] = Founders + 1 => ~ Joined(w[1])
      BY <2>2, <3>1, Workloads
    <3> QED
      BY <2>1, <3>2, ReachFacts
  <2> QED
    BY <2>1, <2>2, <2>3 DEF Ups, At, Joining, Joined
<1>4. CASE RunRotation \/ RunRemoval
  <2>1. /\ Shape /\ Ups /\ ~ At("removal", "respawn") /\ UNCHANGED <<stage, reach>>
        /\ ~ At("creation", "clusters")
        /\ script'.op \in {"rotation", "removal"} /\ script'.step \in {"prepare", "kill"}
    BY <1>4 DEF RunRotation, RunRemoval, Begin, Running, workloadVars, processVars, At
  <2> QED
    BY <2>1 DEF Ups, At, Joining, Joined
<1>5. CASE SetupNClusters
  <2>1. /\ Ups /\ At("creation", "clusters") /\ script'.op = "creation"
        /\ script'.step = "listeners"
    BY <1>5 DEF SetupNClusters, Goto, ScriptTypes, At, Running
  <2>2. \A s \in Server : ~ Joined(s)
    BY <2>1, Numbers DEF Ups, At
  <2>3. \A w \in Workload : reach[w] = 0 /\ stage[w] = "off" /\ w[1] \in Nat
    BY <2>1, <2>2, Workloads, ReachFacts
  <2>4. \A w \in Workload : w[1] \in Founder <=> w[1] <= Founders
    <3>1. \A s \in Server : s \in Founder <=> s <= Founders
      BY Numbers DEF Founder, Server
    <3> QED
      BY <3>1, Workloads
  <2>5. \A w \in Workload : /\ reach'[w] = IF w[1] <= Founders THEN Founders ELSE 0
                            /\ stage'[w] = IF w[1] <= Founders THEN "internal" ELSE "off"
    BY <1>5, <2>3, <2>4 DEF SetupNClusters
  <2>6. \A s \in Server : reach'[<<s, 0>>] = IF s <= Founders THEN Founders ELSE 0
    <3>1. \A s \in Server : <<s, 0>> \in Workload /\ <<s, 0>>[1] = s
      BY Workloads
    <3> QED
      BY <2>5, <3>1
  <2>7. \A w \in Workload : reach'[w] = reach'[<<w[1], 0>>]
    BY <2>5, <2>6, Workloads
  <2>8. \A w \in Workload : w[1] <= Founders => Reach(w[1]) = Founders
    BY DEF Reach
  <2> QED
    BY <2>1, <2>5, <2>6, <2>7, <2>8, Numbers DEF Ups, At, Joining, Joined
<1>6. CASE SetupNewCluster
  <2>1. /\ Ups /\ Shape /\ At("addition", "clusters") /\ script'.op = "addition"
        /\ script'.step = "listeners" /\ script'.num = script.num /\ script.num = Founders + 1
        /\ StartWorkloads(script.num, script.num, FALSE)
    BY <1>6 DEF SetupNewCluster, Goto, ScriptTypes, At, Running, Shape
  <2>2. \A w \in Workload : w \in Of(script.num) <=> w[1] = Founders + 1
    BY <2>1 DEF Of
  <2>3. \A w \in Workload :
          /\ reach'[w] = IF w[1] = Founders + 1 THEN Founders + 1 ELSE reach[w]
          /\ stage'[w] = IF w[1] = Founders + 1 THEN "internal" ELSE stage[w]
    BY <2>1, <2>2 DEF StartWorkloads
  <2>4. \A s \in Server : reach'[<<s, 0>>] = IF s = Founders + 1 THEN Founders + 1 ELSE reach[<<s, 0>>]
    <3>1. \A s \in Server : <<s, 0>> \in Workload /\ <<s, 0>>[1] = s
      BY Workloads
    <3> QED
      BY <2>3, <3>1
  <2>5. \A w \in Workload : reach'[w] = reach'[<<w[1], 0>>]
    BY <2>1, <2>3, <2>4, Workloads DEF Ups
  <2>6. Reach(Founders + 1) = Founders + 1
    BY Numbers DEF Reach
  <2>7. \A w \in Workload : w[1] \in Server
    BY Workloads
  <2> QED
    BY <2>1, <2>3, <2>4, <2>5, <2>6, <2>7, Numbers DEF Ups, At, Joining, Joined
<1>7. CASE KillForRestart
  <2>1. /\ Ups /\ script'.op = "removal" /\ script.op = "removal" /\ script'.step = "respawn"
        /\ script'.num = script.num /\ ~ At("removal", "respawn") /\ UNCHANGED reach
        /\ \A w \in Workload : stage'[w] = IF w[1] = script.num THEN "off" ELSE stage[w]
    BY <1>7 DEF KillForRestart, KillWorkloads, Goto, ScriptTypes, At, Running
  <2> QED
    BY <2>1 DEF Ups, At, Joining, Joined
<1>8. CASE RestartWorkloads
  <2>1. /\ Ups /\ Shape /\ script'.op = "removal" /\ At("removal", "respawn")
        /\ script'.step = "record" /\ script'.num = script.num /\ script.count = Newest
        /\ script.num \in 1..Newest /\ StartWorkloads(script.num, script.count, TRUE)
    BY <1>8 DEF RestartWorkloads, Goto, ScriptTypes, At, Running, Shape
  <2>2. \A w \in Workload : w \in Of(script.num) <=> w[1] = script.num
    BY <2>1 DEF Of
  <2>3. \A w \in Workload :
          /\ reach'[w] = IF w[1] = script.num THEN Newest ELSE reach[w]
          /\ stage'[w] = IF w[1] = script.num THEN "periodic" ELSE stage[w]
    BY <2>1, <2>2 DEF StartWorkloads
  <2>4. \A s \in Server : reach'[<<s, 0>>] = IF s = script.num THEN Newest ELSE reach[<<s, 0>>]
    <3>1. \A s \in Server : <<s, 0>> \in Workload /\ <<s, 0>>[1] = s
      BY Workloads
    <3> QED
      BY <2>3, <3>1
  <2>5. \A w \in Workload : reach'[w] = reach'[<<w[1], 0>>]
    BY ZenonT(30), <2>1, <2>3, <2>4, Workloads DEF Ups
  <2>6. Newest \in {Founders, Founders + 1} /\ Newest > 0 /\ Newest \in Reach(script.num)..Founders + 1
    BY <2>1, NewestFacts, Numbers DEF Reach
  <2>7. Joined(script.num)
    BY <2>1, NewestFacts DEF At
  <2>8. \A s \in Server : Joined(s)' <=> Joined(s)
    BY <2>4, <2>6, <2>7 DEF Joined
  <2> QED
    BY <2>1, <2>3, <2>4, <2>5, <2>6, <2>8 DEF Ups, At, Joining
<1>9. ASSUME NEW w \in Workload, InternalDone(w) \/ MeshDone(w) \/ RoundDone(w),
             UNCHANGED scriptVars
      PROVE  Ups'
  BY <1>9, StageNext DEF scriptVars, Running
<1> QED
  BY <1>1, <1>2, <1>3, <1>4, <1>5, <1>6, <1>7, <1>8, <1>9, StageSteps, ScriptSteps

-----------------------------------------------------------------------------
(* Stores, federations and entries                                         *)

LEMMA JoinedKept ==
  ASSUME WorkloadTypes, ScriptTypes, Running => Shape /\ Ups, Next, Running', NEW s \in Server, Joined(s)
  PROVE  Joined(s)'
<1>1. <<s, 0>> \in Workload /\ <<s, 0>>[1] = s
  BY Workloads
<1>2. CASE SetupNClusters
  <2>1. Ups /\ At("creation", "clusters")
    BY <1>2 DEF SetupNClusters, Running, At
  <2>2. ~(s <= Founders) /\ ~(s > Founders)
    BY <2>1 DEF Ups, At
  <2> QED
    BY <2>2, Numbers
<1>3. ASSUME NEW n \in Server, NEW max \in Server, NEW skip, StartWorkloads(n, max, skip)
      PROVE  Joined(s)'
  <2>1. reach'[<<s, 0>>] \in {max, reach[<<s, 0>>]} /\ max > 0
    BY <1>1, <1>3, Numbers DEF StartWorkloads, Server
  <2> QED
    BY <2>1 DEF Joined
<1>4. CASE UNCHANGED reach
  BY <1>4 DEF Joined
<1> QED
  BY <1>2, <1>3, <1>4, StageSteps
     DEF SetupNewCluster, RestartWorkloads, KillForRestart, KillWorkloads, InternalDone, MeshDone,
         RoundDone, ScriptTypes

\* The server that a script works on is up, once its cluster has been created.
LEMMA NumJoined ==
  ASSUME WorkloadTypes, ScriptTypes, Shape, Ups, script.step # "clusters"
  PROVE  /\ script.num \in Server /\ Joined(script.num) /\ script.num <= script.count
         /\ script.op \in {"creation", "addition"} => script.count = Reach(script.num)
<1>1. CASE script.op = "creation"
  BY <1>1, Numbers DEF Shape, Ups, At, Founder, Reach, ScriptTypes
<1>2. CASE script.op = "addition"
  BY <1>2, Numbers DEF Shape, Ups, At, Reach, ScriptTypes
<1>3. CASE script.op \in {"rotation", "removal"}
  <2>1. script.num \in 1..Newest /\ script.count = Newest /\ ~ At("creation", "clusters")
    BY <1>3 DEF Shape, At
  <2> QED
    BY <1>3, <2>1, NewestFacts DEF ScriptTypes
<1> QED
  BY <1>1, <1>2, <1>3 DEF ScriptTypes, Script

LEMMA StoresListeners ==
  ASSUME WorkloadTypes, ScriptTypes, ListenerTypes, Running => Shape /\ Ups /\ Stores, Next, Running'
  PROVE  \A s \in Server : /\ listener'[s] # "off" => Joined(s)'
                           /\ listener'[s] # "on" => events'[s] = <<>>
                           /\ (script.step = "listeners" /\ Joining(s))' => listener'[s] = "off"
<1> SUFFICES ASSUME NEW s \in Server
             PROVE  /\ listener'[s] # "off" => Joined(s)'
                    /\ listener'[s] # "on" => events'[s] = <<>>
                    /\ (script.step = "listeners" /\ Joining(s))' => listener'[s] = "off"
  OBVIOUS
<1>1. Running /\ Shape /\ Ups /\ Stores
  BY ScriptSteps, ScriptMoves DEF scriptVars, Running, RunAddition, RunRotation, RunRemoval, Begin
<1>2. Joined(s) => Joined(s)'
  BY <1>1, JoinedKept
<1>3. listener'[s] # "off" => listener[s] # "off" \/ Joined(s)
  <2>1. CASE StartListeners
    <3>1. script.step = "listeners" /\ script.op \in {"creation", "addition"}
      BY <1>1, <2>1 DEF StartListeners, Shape, ScriptTypes, Script
    <3>2. IF script.op = "creation" THEN s \in Founder => Joined(s) ELSE s = script.num => Joined(s)
      BY <1>1, <3>1, NumJoined, Numbers DEF Ups, At, Founder
    <3> QED
      BY <2>1, <3>2 DEF StartListeners, ListenerTypes
  <2> QED
    BY <2>1, ListenerSteps DEF Subscribe, ListenerTypes
<1>4. listener'[s] # "on" => events'[s] = <<>>
  <2>1. listener[s] = "on" => listener'[s] = "on" \/ StartListeners
    BY ListenerSteps DEF Subscribe, ListenerTypes
  <2>2. CASE StartListeners
    <3>1. UNCHANGED events /\ script.step = "listeners"
      BY <2>2 DEF StartListeners
    <3>2. script.op \in {"creation", "addition"}
      BY <1>1, <3>1 DEF Shape, ScriptTypes, Script
    <3>3. listener'[s] = listener[s] \/ Joining(s)
      BY <2>2, <3>2 DEF StartListeners, ListenerTypes, Joining
    <3>4. listener[s] # "on" => events[s] = <<>>
      BY <1>1 DEF Stores
    <3>5. Joining(s) => listener[s] = "off"
      BY <1>1, <3>1 DEF Stores
    <3> QED
      BY <3>1, <3>3, <3>4, <3>5
  <2>3. listener[s] # "on" => events'[s] = events[s] \/ StartListeners
    <3>1. ASSUME NEW i \in Server, HandleEvent(i) \/ HandlerFails(i), listener[s] # "on"
          PROVE  events'[s] = events[s]
      BY <1>1, <3>1 DEF HandleEvent, HandlerFails, Stores, ListenerTypes
    <3> QED
      BY <3>1, ListenerSteps
         DEF PostBundles, PutBundle, DeleteBundle, PublishBundleForServer, Announce, ListenerTypes
  <2> QED
    BY <1>1, <2>1, <2>2, <2>3 DEF Stores
<1>5. (script.step = "listeners" /\ Joining(s))' => listener'[s] = "off"
  <2>1. CASE SetupNClusters \/ SetupNewCluster
    <3>1. /\ UNCHANGED listener /\ script'.op = script.op /\ script'.num = script.num
          /\ script.step = "clusters"
      BY <2>1 DEF SetupNClusters, SetupNewCluster, listenerVars, Goto, At, ScriptTypes
    <3>2. script.op \in {"creation", "addition"}
      BY <2>1 DEF SetupNClusters, SetupNewCluster, At
    <3>3. Joining(s) => ~ Joined(s)
      BY <1>1, <3>1, <3>2, Numbers DEF Joining, Ups, Shape, At
    <3> QED
      BY <1>1, <3>1, <3>3 DEF Joining, Stores
  <2>2. CASE UNCHANGED scriptVars
    <3>1. listener[s] = "off" => listener'[s] = "off" \/ StartListeners
      BY ListenerSteps DEF Subscribe, ListenerTypes
    <3>2. StartListeners => script' # script
      BY DEF StartListeners, Goto, ScriptTypes
    <3> QED
      BY <1>1, <2>2, <3>1, <3>2 DEF scriptVars, Joining, Stores
  <2>3. CASE RunAddition \/ RunRotation \/ RunRemoval
    BY <2>3 DEF RunAddition, RunRotation, RunRemoval, Begin
  <2> QED
    BY <1>1, <2>1, <2>2, <2>3, ScriptSteps, ScriptEdges
<1> QED
  BY <1>1, <1>2, <1>3, <1>4, <1>5 DEF Stores

LEMMA Living ==
  ASSUME ScriptTypes, Running => Shape, Next, Running'
  PROVE  Running
BY ScriptSteps, ScriptMoves DEF scriptVars, Running, RunAddition, RunRotation, RunRemoval, Begin

LEMMA StoresPublished ==
  ASSUME WorkloadTypes, ScriptTypes, StoreTypes, Running => Shape /\ Ups /\ Stores, Next, Running'
  PROVE  \A s \in Server : /\ published'[s] # Missing => Joined(s)'
                           /\ federated'[s] \in {{}, (1..Reach(s)) \ {s}}
                           /\ federated'[s] # {} => Joined(s)'
                           /\ federated[s] \subseteq federated'[s]
<1>1. Running /\ Shape /\ Ups /\ Stores
  BY Living
<1>2. \A s \in Server : Joined(s) => Joined(s)'
  BY <1>1, JoinedKept
<1>3. \A s \in Server : published'[s] # Missing => Joined(s)
  <2>1. CASE PostBundles \/ PutBundle
    <3>1. Joined(script.num)
      BY <1>1, <2>1, NumJoined DEF PostBundles, PutBundle, At
    <3> QED
      BY <1>1, <2>1, <3>1
         DEF PostBundles, PutBundle, PublishBundleForServer, Stores, StoreTypes, ScriptTypes
  <2>2. CASE DeleteBundle
    BY <1>1, <2>2 DEF DeleteBundle, Stores, StoreTypes, ScriptTypes
  <2> QED
    BY <1>1, <2>1, <2>2, SpireSteps DEF Stores
<1>4. /\ \A s \in Server : federated'[s] \in {{}, (1..Reach(s)) \ {s}}
      /\ \A s \in Server : federated'[s] # {} => Joined(s)
      /\ \A s \in Server : federated[s] \subseteq federated'[s]
  <2>1. CASE CreateFederations
    <3>1. script.step = "federate" /\ script.op \in {"creation", "addition"}
      BY <1>1, <2>1 DEF CreateFederations, Shape, ScriptTypes, Script
    <3>2. Joined(script.num) /\ script.num \in Server /\ script.count = Reach(script.num)
      BY <1>1, <3>1, NumJoined
    <3>3. \A s \in Server :
            federated'[s] = IF s = script.num THEN (1..Reach(s)) \ {s} ELSE federated[s]
      BY <2>1, <3>2 DEF CreateFederations, StoreTypes
    <3>4. \A s \in Server : /\ federated[s] \in {{}, (1..Reach(s)) \ {s}}
                            /\ federated[s] # {} => Joined(s)
      BY <1>1 DEF Stores
    <3> QED
      BY <3>2, <3>3, <3>4, Zenon
  <2> QED
    BY <1>1, <2>1, SpireSteps DEF Stores
<1> QED
  BY <1>2, <1>3, <1>4

\* An entry names only domains that the server federates with and holds a
\* bundle of, whatever the script and the listener do.
LEMMA StoresHeld ==
  ASSUME WorkloadTypes, ScriptTypes, StoreTypes, ListenerTypes,
         Running => Shape /\ Ups /\ Stores, Next, Running'
  PROVE  /\ \A s, t \in Server : held'[s][t] # Missing => Joined(s)
         /\ \A w \in Workload : /\ entry'[w] \subseteq federated[w[1]]
                                /\ \A t \in entry'[w] : held'[w[1]][t] # Missing
<1>1. Running /\ Shape /\ Ups /\ Stores
  BY Living
<1>2. \A w \in Workload : /\ w[1] \in Server /\ w \in Of(w[1]) /\ entry[w] \subseteq federated[w[1]]
                          /\ entry[w] \subseteq Server
                          /\ \A t \in entry[w] : held[w[1]][t] # Missing
  BY <1>1, Workloads DEF Stores, StoreTypes
<1>3. CASE UNCHANGED <<held, entry>>
  BY <1>1, <1>2, <1>3 DEF Stores
<1>4. CASE FetchBundles
  <2>1. Joined(script.num) /\ script.num \in Server
    BY <1>1, <1>4, NumJoined DEF FetchBundles
  <2>2. \A s, t \in Server :
          held'[s][t] = IF s = script.num /\ ~(t = script.num \/ published[t] = Missing)
                        THEN published[t] ELSE held[s][t]
    BY <1>4, <2>1 DEF FetchBundles, StoreTypes
  <2>3. UNCHANGED entry
    BY <1>4 DEF FetchBundles
  <2> QED
    BY <1>1, <1>2, <2>1, <2>2, <2>3 DEF Stores
<1>5. CASE UpdateRegistrationEntries
  <2>1. UNCHANGED held /\ Federatable(script.num)
    BY <1>5 DEF UpdateRegistrationEntries
  <2>2. \A w \in Workload : entry'[w] = IF w[1] = script.num THEN federated[w[1]] ELSE entry[w]
    BY <1>5 DEF UpdateRegistrationEntries
  <2> QED
    BY <1>1, <1>2, <2>1, <2>2 DEF Stores, Federatable
<1>6. CASE CleanLocalEntry
  <2>1. UNCHANGED held /\ \A w \in Workload : entry'[w] \subseteq entry[w]
    BY <1>6 DEF CleanLocalEntry, StoreTypes
  <2> QED
    BY <1>1, <1>2, <2>1 DEF Stores
<1>7. ASSUME NEW i \in Server, HandleEvent(i)
      PROVE  /\ \A s, t \in Server : held'[s][t] # Missing => Joined(s)
             /\ \A w \in Workload : /\ entry'[w] \subseteq federated[w[1]]
                                    /\ \A t \in entry'[w] : held'[w[1]][t] # Missing
  <2> DEFINE t == Head(events[i]).server
  <2>1. events[i] # <<>> /\ t \in Server
    BY <1>7, EventTyped DEF HandleEvent
  <2>2. Joined(i)
    BY <1>1, <2>1 DEF Stores
  <2>3. \/ UNCHANGED <<held, entry>>
        \/ held' = [held EXCEPT ![i][t] = published[t]] /\ UNCHANGED entry /\ published[t] # Missing
        \/ Dissociate(i, t)
    BY <1>7 DEF HandleEvent
  <2> HIDE DEF t
  <2>4. CASE held' = [held EXCEPT ![i][t] = published[t]] /\ UNCHANGED entry /\ published[t] # Missing
    <3>1. \A s, u \in Server :
            held'[s][u] = IF s = i /\ u = t THEN published[t] ELSE held[s][u]
      BY <2>1, <2>4 DEF StoreTypes
    <3> QED
      BY <1>1, <1>2, <2>2, <2>4, <3>1 DEF Stores
  <2>5. CASE Dissociate(i, t)
    <3>1. \A s, u \in Server : held'[s][u] = IF s = i /\ u = t THEN Missing ELSE held[s][u]
      BY <2>1, <2>5 DEF Dissociate, StoreTypes
    <3>2. \A w \in Workload : entry'[w] = IF w[1] = i THEN entry[w] \ {t} ELSE entry[w]
      BY <2>5 DEF Dissociate
    <3>3. \A s, u \in Server : held'[s][u] # Missing => Joined(s)
      BY <1>1, <3>1 DEF Stores
    <3>4. ASSUME NEW w \in Workload
          PROVE  /\ entry'[w] \subseteq federated[w[1]]
                 /\ \A u \in entry'[w] : held'[w[1]][u] # Missing
      <4>1. /\ w[1] \in Server /\ entry'[w] \subseteq entry[w] /\ entry[w] \subseteq Server
            /\ w[1] = i => t \notin entry'[w]
            /\ entry[w] \subseteq federated[w[1]] /\ \A u \in entry[w] : held[w[1]][u] # Missing
        BY <1>2, <3>2
      <4>2. \A u \in Server : held'[w[1]][u] = IF w[1] = i /\ u = t THEN Missing ELSE held[w[1]][u]
        BY <3>1, <4>1
      <4> QED
        BY <4>1, <4>2
    <3> QED
      BY <3>3, <3>4
  <2> QED
    BY <1>3, <2>3, <2>4, <2>5
<1>8. ASSUME NEW i \in Server, NEW t \in Server, RefreshBundle(i, t)
      PROVE  /\ \A s, u \in Server : held'[s][u] # Missing => Joined(s)
             /\ \A w \in Workload : /\ entry'[w] \subseteq federated[w[1]]
                                    /\ \A u \in entry'[w] : held'[w[1]][u] # Missing
  <2>1. Joined(i) /\ own[t] # Missing /\ UNCHANGED entry
    BY <1>1, <1>8, StoreNumbers DEF RefreshBundle, Stores
  <2>2. \A s, u \in Server : held'[s][u] = IF s = i /\ u = t THEN own[t] ELSE held[s][u]
    BY <1>8 DEF RefreshBundle, StoreTypes
  <2> QED
    BY <1>1, <1>2, <2>1, <2>2 DEF Stores
<1> QED
  BY <1>3, <1>4, <1>5, <1>6, <1>7, <1>8, SpireSteps

LEMMA StoresViews ==
  ASSUME WorkloadTypes, ScriptTypes, StoreTypes, Running => Shape /\ Ups /\ Stores, Next, Running'
  PROVE  \A w \in Workload : \A t \in Server :
           {view'[w][t], previous'[w][t]} # {Missing} => t \in federated[w[1]]
<1>1. Running /\ Shape /\ Ups /\ Stores
  BY Living
<1>2. \A w \in Workload : \A t \in Server :
        {view[w][t], previous[w][t]} # {Missing} \/ t \in entry[w] => t \in federated[w[1]]
  BY <1>1, Workloads DEF Stores
<1>3. CASE UNCHANGED <<view, previous>>
  BY <1>2, <1>3
<1>4. CASE (SetupNewCluster \/ RestartWorkloads) /\ UNCHANGED view
  <2>1. \A w \in Workload : previous'[w] \in {previous[w], NoBundles}
    BY <1>4 DEF SetupNewCluster, RestartWorkloads, StartWorkloads
  <2>2. \A t \in Server : NoBundles[t] = Missing
    BY DEF NoBundles
  <2> QED
    BY <1>2, <1>4, <2>1, <2>2
<1>5. ASSUME NEW w \in Workload, DeliverBundles(w)
      PROVE  \A v \in Workload : \A t \in Server :
               {view'[v][t], previous'[v][t]} # {Missing} => t \in federated[v[1]]
  <2>1. PICK bundles \in Deliverable(w) : OnX509BundlesUpdate(w, bundles)
    BY <1>5 DEF DeliverBundles
  <2>2. /\ view'[w] = bundles
        /\ \A v \in Workload \ {w} : previous'[v] = previous[v] /\ view'[v] = view[v]
        /\ \A t \in Server :
             /\ previous'[w][t] = IF t \in Watched(w) /\ bundles[t] # Missing THEN bundles[t]
                                  ELSE previous[w][t]
             /\ bundles[t] = view[w][t]
                  \/ bundles[t] = IF t \in entry[w] THEN held[w[1]][t] ELSE Missing
    BY <2>1, Delivery
  <2>3. ASSUME NEW t \in Server
        PROVE  /\ bundles[t] # Missing => t \in federated[w[1]]
               /\ {view'[w][t], previous'[w][t]} # {Missing} => t \in federated[w[1]]
    <3>1. {view[w][t], previous[w][t]} # {Missing} \/ t \in entry[w] => t \in federated[w[1]]
      BY <1>2
    <3>2. bundles[t] # Missing => t \in federated[w[1]]
      BY <2>2, <3>1
    <3>3. previous'[w][t] \in {bundles[t], previous[w][t]}
      BY <2>2
    <3> QED
      BY <2>2, <3>1, <3>2, <3>3
  <2>4. ASSUME NEW v \in Workload, v # w, NEW t \in Server
        PROVE  {view'[v][t], previous'[v][t]} # {Missing} => t \in federated[v[1]]
    BY <1>2, <2>2, <2>4
  <2> QED
    BY <2>3, <2>4
<1> QED
  BY <1>3, <1>4, <1>5, WatchSteps

LEMMA StoresNext ==
  ASSUME WorkloadTypes, ScriptTypes, StoreTypes, ListenerTypes,
         Running => Shape /\ Ups /\ Stores, Next, Running'
  PROVE  Stores'
<1>1. Running /\ Shape /\ Ups /\ Stores
  BY Living
<1>2. \A s \in Server : Joined(s) => Joined(s)'
  BY <1>1, JoinedKept
<1>3. \A s \in Server : \A w \in Of(s) : w \in Workload /\ w[1] = s
  BY Workloads
<1>4. \A s \in Server : /\ listener'[s] # "off" => Joined(s)'
                        /\ listener'[s] # "on" => events'[s] = <<>>
                        /\ (script.step = "listeners" /\ Joining(s))' => listener'[s] = "off"
  BY StoresListeners
<1>5. \A s \in Server : /\ published'[s] # Missing => Joined(s)'
                        /\ federated'[s] \in {{}, (1..Reach(s)) \ {s}}
                        /\ federated'[s] # {} => Joined(s)'
                        /\ federated[s] \subseteq federated'[s]
  BY StoresPublished
<1>6. /\ \A s, t \in Server : held'[s][t] # Missing => Joined(s)
      /\ \A w \in Workload : /\ entry'[w] \subseteq federated[w[1]]
                             /\ \A t \in entry'[w] : held'[w[1]][t] # Missing
  BY StoresHeld
<1>7. \A w \in Workload : \A t \in Server :
        {view'[w][t], previous'[w][t]} # {Missing} => t \in federated[w[1]]
  BY StoresViews
<1>8. \A s \in Server : Reach(s)' = Reach(s)
  BY DEF Reach
<1>9. ASSUME NEW s \in Server, NEW w \in Of(s)
      PROVE  /\ entry'[w] \subseteq federated'[s] /\ \A t \in entry'[w] : held'[s][t] # Missing
             /\ \A t \in Server :
                  {view'[w][t], previous'[w][t]} # {Missing} => t \in federated'[s]
  <2>1. w \in Workload /\ w[1] = s /\ federated[s] \subseteq federated'[s]
    BY <1>3, <1>5
  <2>2. entry'[w] \subseteq federated[s] /\ \A t \in entry'[w] : held'[s][t] # Missing
    BY <1>6, <2>1
  <2>3. \A t \in Server : {view'[w][t], previous'[w][t]} # {Missing} => t \in federated[s]
    BY <1>7, <2>1
  <2> QED
    BY <2>1, <2>2, <2>3
<1>10. \A s, t \in Server : held'[s][t] # Missing => Joined(s)'
  BY <1>2, <1>6
<1>11. \A s \in Server : Of(s)' = Of(s)
  BY DEF Of
<1> QED
  BY <1>4, <1>5, <1>8, <1>9, <1>10, <1>11 DEF Stores

-----------------------------------------------------------------------------
(* The repository and the queues of events                                 *)

\* What a script does at each of its steps, and where it goes from there.
LEMMA ScriptOrder ==
  ASSUME ScriptTypes, Running => Shape, ScriptStep, Running'
  PROVE  /\ script'.op = script.op /\ script'.count = script.count
         /\ script.op \in {"rotation", "removal", "addition"} => script'.num = script.num
         /\ script.op \in {"creation", "addition"} =>
              \/ script.step = "clusters" /\ script'.step = "listeners"
              \/ StartListeners /\ script.step = "listeners" /\ script'.step \in {"post", "publish"}
              \/ PostBundles /\ script.step = "post" /\ script'.step \in {"post", "fetch"}
              \/ PutBundle /\ script.step = "publish" /\ script'.step = "fetch"
              \/ FetchBundles /\ script.step = "fetch" /\ script'.step \in {"fetch", "federate"}
              \/ /\ CreateFederations /\ script.step = "federate"
                 /\ script'.step \in {"federate", "entries"}
              \/ /\ UpdateRegistrationEntries /\ script.step = "entries"
                 /\ script'.step \in {"entries", "poll"}
              \/ PollUntil /\ script.step = "poll" /\ script'.step = "measured"
         /\ script.op = "rotation" =>
              \/ PrepareX509Authority /\ script.step = "prepare" /\ script'.step = "activate"
              \/ ActivateX509Authority /\ script.step = "activate" /\ script'.step = "publish"
              \/ PutBundle /\ script.step = "publish" /\ script'.step = "fire"
              \/ RecordEventFired /\ script.step = "fire" /\ script'.step = "poll"
              \/ PollUntil /\ script.step = "poll" /\ script'.step = "measured"
         /\ script.op = "removal" =>
              \/ KillForRestart /\ script.step = "kill" /\ script'.step = "respawn"
              \/ RestartWorkloads /\ script.step = "respawn" /\ script'.step = "record"
              \/ RecordRemovalStart /\ script.step = "record" /\ script'.step = "delete"
              \/ DeleteBundle /\ script.step = "delete" /\ script'.step = "clean"
              \/ CleanLocalEntry /\ script.step = "clean" /\ script'.step = "clean"
              \/ EntriesClean /\ script.step = "clean" /\ script'.step = "poll"
              \/ PollUntil /\ script.step = "poll" /\ script'.step = "measured"
<1>1. /\ Shape /\ script'.op = script.op /\ script'.count = script.count
      /\ script.op # "creation" => script'.num = script.num
  BY ScriptMoves
<1>2. ~ EntryRefused
  BY DEF EntryRefused, Goto, Running, ScriptTypes
<1>3. CASE PostBundles \/ FetchBundles \/ CreateFederations \/ UpdateRegistrationEntries
  BY ZenonT(30), <1>1, <1>3 DEF PostBundles, FetchBundles, CreateFederations, UpdateRegistrationEntries,
     NextServer, Shape, At, ScriptTypes
<1>4. CASE SetupNClusters \/ SetupNewCluster \/ StartListeners \/ PutBundle \/ PollUntil
  BY <1>1, <1>4 DEF SetupNClusters, SetupNewCluster, StartListeners, PutBundle, PollUntil, Goto,
     Shape, At, ScriptTypes
<1>5. CASE PrepareX509Authority \/ ActivateX509Authority \/ RecordEventFired
  BY <1>1, <1>5 DEF PrepareX509Authority, ActivateX509Authority, RecordEventFired, Goto, Shape, At,
     ScriptTypes
<1>6. CASE KillForRestart \/ RestartWorkloads \/ RecordRemovalStart \/ DeleteBundle
           \/ CleanLocalEntry \/ EntriesClean
  BY <1>1, <1>6 DEF KillForRestart, RestartWorkloads, RecordRemovalStart, DeleteBundle,
     CleanLocalEntry, EntriesClean, Goto, Shape, At, ScriptTypes
<1> QED
  BY <1>2, <1>3, <1>4, <1>5, <1>6 DEF ScriptStep

\* A queue loses its first event or gains a last one.
LEMMA EventsNext ==
  ASSUME ListenerTypes, ScriptTypes, Next, NEW s \in Server, NEW k \in DOMAIN events'[s]
  PROVE  \/ \E j \in DOMAIN events[s] : events'[s][k] = events[s][j]
         \/ events'[s][k].type = "bundle_updated"
         \/ DeleteBundle /\ events'[s][k] = [type |-> "bundle_deleted", server |-> script.num]
<1>1. script.num \in Server
  BY DEF ScriptTypes
<1>2. ASSUME NEW type \in {"bundle_updated", "bundle_deleted"}, Announce(type, script.num)
      PROVE  \/ \E j \in DOMAIN events[s] : events'[s][k] = events[s][j]
             \/ events'[s][k] = [type |-> type, server |-> script.num]
  <2> DEFINE e == [type |-> type, server |-> script.num]
  <2>1. events'[s] = events[s] \/ events'[s] = Append(events[s], e)
    BY <1>1, <1>2, AnnounceTyped
  <2>2. events[s] \in Seq(Event) /\ e \in Event
    BY <1>1 DEF ListenerTypes, Event
  <2> HIDE DEF e
  <2>3. CASE events'[s] = Append(events[s], e)
    <3>1. DOMAIN events'[s] = 1..Len(events[s]) + 1 /\ DOMAIN events[s] = 1..Len(events[s])
            /\ Len(events[s]) \in Nat
      BY <2>2, <2>3
    <3>2. \A j \in 1..Len(events[s]) : events'[s][j] = events[s][j]
      BY <2>2, <2>3
    <3>3. events'[s][Len(events[s]) + 1] = e
      BY <2>2, <2>3
    <3>4. k \in 1..Len(events[s]) \/ k = Len(events[s]) + 1
      BY <3>1
    <3> QED
      BY <3>1, <3>2, <3>3, <3>4 DEF e
  <2> QED
    BY <2>1, <2>3
<1>3. CASE UNCHANGED events
  BY <1>3
<1>4. CASE PostBundles \/ PutBundle
  BY <1>2, <1>4 DEF PostBundles, PutBundle, PublishBundleForServer
<1>5. CASE DeleteBundle
  BY <1>2, <1>5 DEF DeleteBundle
<1>6. ASSUME NEW i \in Server, HandleEvent(i) \/ HandlerFails(i)
      PROVE  \E j \in DOMAIN events[s] : events'[s][k] = events[s][j]
  <2>1. events[i] # <<>> /\ events' = [events EXCEPT ![i] = Tail(events[i])]
    BY <1>6 DEF HandleEvent, HandlerFails
  <2>2. CASE s = i
    <3>1. events'[s] = Tail(events[s])
      BY <2>1, <2>2 DEF ListenerTypes
    <3> QED
      BY <2>1, <2>2, <3>1, EventTyped
  <2>3. CASE s # i
    BY <2>1, <2>3 DEF ListenerTypes
  <2> QED
    BY <2>2, <2>3
<1> QED
  BY <1>3, <1>4, <1>5, <1>6, ListenerSteps

\* A newcomer is set up next to members; nobody else becomes one of those that
\* the script sets up.
LEMMA JoiningNext ==
  ASSUME WorkloadTypes, ScriptTypes, Running => Shape /\ Ups, Next, Running'
  PROVE  \A s \in Server : Joined(s) /\ ~ Joining(s) => ~ Joining(s)'
<1>1. Running /\ Shape /\ Ups
  BY Living
<1>2. CASE UNCHANGED scriptVars
  BY <1>2 DEF scriptVars, Joining
<1>3. CASE ScriptStep
  BY <1>3, ScriptOrder DEF Joining
<1>4. CASE RunAddition
  <2>1. script'.op = "addition" /\ script'.num = Founders + 1 /\ Newest = Founders
    BY <1>4 DEF RunAddition, Begin
  <2> QED
    BY <1>1, <2>1, NewestFacts, Numbers DEF Joining
<1>5. CASE RunRotation \/ RunRemoval
  BY <1>5 DEF RunRotation, RunRemoval, Begin, Joining
<1> QED
  BY <1>2, <1>3, <1>4, <1>5, ScriptSteps

LEMMA LedgerNext ==
  ASSUME WorkloadTypes, ScriptTypes, StoreTypes, ListenerTypes,
         Running => Shape /\ Ups /\ Stores /\ Ledger, Next, Running'
  PROVE  Ledger'
<1>1. Running /\ Shape /\ Ups /\ Stores /\ Ledger
  BY Living
<1>2. script.num \in Server /\ \A t \in Server : own[t] # Missing
  BY StoreNumbers DEF ScriptTypes
<1>3. \/ UNCHANGED published
      \/ PostBundles \/ PutBundle
      \/ DeleteBundle
  BY SpireSteps
<1>4. PostBundles \/ PutBundle =>
        /\ \A t \in Server : published'[t] = IF t = script.num THEN own[t] ELSE published[t]
        /\ UNCHANGED own
        /\ script.op # "removal" /\ script'.op = script.op /\ script'.num \in Server
        /\ script.op # "creation" => script'.num = script.num
        /\ script.op = "rotation" => script'.step = "fire"
  <2>1. PostBundles \/ PutBundle => ScriptStep /\ script.op # "removal"
    BY <1>1 DEF ScriptStep, PostBundles, PutBundle, Shape, At
  <2>2. PostBundles \/ PutBundle =>
          /\ \A t \in Server : published'[t] = IF t = script.num THEN own[t] ELSE published[t]
          /\ UNCHANGED own
    BY <1>2 DEF PostBundles, PutBundle, PublishBundleForServer, spireVars, StoreTypes
  <2>3. (PostBundles \/ PutBundle) /\ script.op = "rotation" => script'.step = "fire"
    BY DEF PostBundles, PutBundle, Goto, At, ScriptTypes
  <2> QED
    BY <2>1, <2>2, <2>3, ScriptMoves
<1>5. DeleteBundle =>
        /\ \A t \in Server : published'[t] = IF t = script.num THEN Missing ELSE published[t]
        /\ UNCHANGED own /\ script.op = "removal" /\ script'.op = script.op
        /\ script'.num = script.num /\ script'.step = "clean" /\ Joined(script.num)
  <2>1. DeleteBundle => script.step # "clusters"
    BY DEF DeleteBundle, At
  <2> QED
    BY <1>1, <1>2, <2>1, NumJoined DEF DeleteBundle, spireVars, StoreTypes, Goto, At, ScriptTypes
<1>11. \A s \in Server : \A k \in DOMAIN events'[s] : events'[s][k].server \in Server
  <2>1. ListenerTypes'
    BY ListenerTypesNext
  <2>2. \A s \in Server : events'[s] \in Seq(Event)
    BY <2>1 DEF ListenerTypes
  <2>3. \A q \in Seq(Event) : \A k \in DOMAIN q : q[k] \in Event
    OBVIOUS
  <2>4. \A e \in Event : e.server \in Server
    BY DEF Event
  <2> QED
    BY <2>2, <2>3, <2>4
<1>6. ASSUME NEW s \in Server, NEW k \in DOMAIN events'[s], NEW t \in Server,
             t = events'[s][k].server, events'[s][k].type = "bundle_deleted"
      PROVE  published'[t] = Missing /\ Joined(t)' /\ ~ Joining(t)' /\ ~ Joining(s)'
  <2>2. /\ published[t] = Missing \/ (DeleteBundle /\ t = script.num)
        /\ Joined(t) /\ ~ Joining(t) /\ Joined(s) /\ ~ Joining(s)
    <3>1. CASE \E j \in DOMAIN events[s] : events'[s][k] = events[s][j]
      <4>1. PICK j \in DOMAIN events[s] : events'[s][k] = events[s][j]
        BY <3>1
      <4>2. published[t] = Missing /\ Joined(t) /\ ~ Joining(t) /\ ~ Joining(s)
        BY <1>1, <1>6, <4>1 DEF Ledger
      <4>3. events[s] # <<>>
        BY <4>1
      <4>4. Joined(s)
        BY <1>1, <4>3 DEF Stores
      <4> QED
        BY <4>2, <4>4
    <3>2. CASE DeleteBundle /\ events'[s][k] = [type |-> "bundle_deleted", server |-> script.num]
                /\ ~ \E j \in DOMAIN events[s] : events'[s][k] = events[s][j]
      <4>1. listener[s] = "on"
        <5>1. Announce("bundle_deleted", script.num)
          BY <3>2 DEF DeleteBundle
        <5> QED
          BY <3>2, <5>1 DEF Announce, ListenerTypes
      <4>2. Joined(s)
        BY <1>1, <4>1 DEF Stores
      <4>3. t = script.num /\ script.op = "removal" /\ Joined(script.num)
        BY <1>5, <1>6, <3>2
      <4> QED
        BY <3>2, <4>2, <4>3 DEF Joining
    <3> QED
      BY <1>6, <3>1, <3>2, EventsNext
  <2>3. ~ Joining(t)' /\ ~ Joining(s)' /\ Joined(t)'
    BY <1>1, <2>2, JoiningNext, JoinedKept
  <2>4. published'[t] = Missing
    <3>1. CASE PostBundles \/ PutBundle
      <4>1. published[t] = Missing
        BY <1>5, <2>2, <3>1, <1>4
      <4>2. t # script.num
        BY <1>1, <1>4, <2>2, <3>1, <4>1 DEF Joining, Ledger, ScriptTypes, Script
      <4> QED
        BY <1>4, <3>1, <4>1, <4>2
    <3>2. CASE UNCHANGED published /\ ~ DeleteBundle
      BY <2>2, <3>2
    <3>3. CASE DeleteBundle
      BY <1>5, <2>2, <3>3
    <3> QED
      BY <1>3, <3>1, <3>2, <3>3
  <2> QED
    BY <2>3, <2>4
<1>7. \A t \in Server :
        \/ published'[t] \in {Missing, own'[t]}
        \/ script'.op = "rotation" /\ script'.num = t /\ script'.step \in {"activate", "publish"}
  <2> TAKE t \in Server
  <2>1. CASE PrepareX509Authority
    <3>1. /\ UNCHANGED published /\ script.op = "rotation" /\ script'.op = "rotation"
          /\ script'.num = script.num /\ script'.step = "activate" /\ script.step = "prepare"
          /\ t # script.num => own'[t] = own[t]
      BY <2>1 DEF PrepareX509Authority, Goto, At, ScriptTypes, StoreTypes
    <3> QED
      BY <1>1, <3>1 DEF Ledger
  <2>2. CASE ~ PrepareX509Authority
    <3>1. UNCHANGED own
      BY <2>2, SpireSteps
    <3>2. CASE PostBundles \/ PutBundle
      BY <1>1, <1>4, <3>1, <3>2 DEF Ledger
    <3>3. CASE DeleteBundle
      BY <1>1, <1>5, <3>1, <3>3 DEF Ledger
    <3>4. CASE UNCHANGED published /\ ~ PutBundle /\ ScriptStep
      BY <1>1, <2>2, <3>1, <3>4, ScriptOrder DEF Ledger
    <3>5. CASE UNCHANGED published /\ UNCHANGED scriptVars
      BY <1>1, <3>1, <3>5 DEF Ledger, scriptVars
    <3>6. CASE UNCHANGED published /\ (RunAddition \/ RunRotation \/ RunRemoval)
      <4>1. script.step = "measured"
        BY <3>6 DEF RunAddition, RunRotation, RunRemoval, Begin
      <4> QED
        BY <1>1, <3>1, <3>6, <4>1 DEF Ledger
    <3> QED
      BY <1>3, <3>2, <3>3, <3>4, <3>5, <3>6, ScriptSteps
  <2> QED
    BY <2>1, <2>2
<1>8. /\ script'.op = "rotation" => published'[script'.num] # Missing
      /\ script'.op = "removal" =>
           (published'[script'.num] = Missing <=> script'.step \in {"clean", "poll", "measured"})
  <2>1. CASE PostBundles \/ PutBundle
    BY <1>1, <1>2, <1>4, <2>1 DEF Ledger
  <2>2. CASE DeleteBundle
    BY <1>2, <1>5, <2>2
  <2>3. CASE UNCHANGED published /\ ~ DeleteBundle /\ ScriptStep
    BY <1>1, <2>3, ScriptOrder DEF Ledger
  <2>4. CASE UNCHANGED published /\ UNCHANGED scriptVars
    BY <1>1, <2>4 DEF Ledger, scriptVars
  <2>5. CASE RunAddition \/ RunRotation \/ RunRemoval
    BY <2>5 DEF RunAddition, RunRotation, RunRemoval, Begin
  <2> QED
    BY <1>3, <2>1, <2>2, <2>3, <2>4, <2>5, ScriptSteps
<1>9. \A s \in Server : \A k \in DOMAIN events'[s] : events'[s][k].type = "bundle_deleted" =>
        /\ published'[events'[s][k].server] = Missing
        /\ (\A t \in Server : t = events'[s][k].server => Joined(t)' /\ ~ Joining(t)')
        /\ ~ Joining(s)'
  BY <1>6, <1>11
<1>10. (\A s \in Server : \A k \in DOMAIN events[s] : events[s][k].type = "bundle_deleted" =>
          /\ published[events[s][k].server] = Missing
          /\ Joined(events[s][k].server) /\ ~ Joining(events[s][k].server) /\ ~ Joining(s))'
  BY <1>9, <1>11 DEF Joining, Joined
<1> QED
  BY <1>7, <1>8, <1>10 DEF Ledger

-----------------------------------------------------------------------------
(* What holds whatever the scripts, listeners and workloads do             *)

Base ==
  /\ Types /\ Trail
  /\ Running => Shape /\ Ups /\ Stores /\ Ledger

LEMMA BaseInit == ScriptsInit => Base
<1> SUFFICES ASSUME ScriptsInit
             PROVE  Base
  OBVIOUS
<1> USE DEF ScriptsInit, WorkloadInit
<1>1. WorkloadTypes
  <2>1. NoBundles \in [Server -> Version] /\ 0 \in 0..MaxServer /\ 0 \in 0..MaxMarks
    BY Numbers DEF NoBundles
  <2> QED
    BY <2>1 DEF WorkloadTypes, Stage
<1>2. ScriptTypes
  BY Numbers DEF ScriptTypes, Script, Step, Server
<1>3. StoreTypes
  BY Numbers DEF StoreTypes, NoBundles
<1>4. ListenerTypes
  BY DEF ListenerTypes
<1>5. Trail
  BY Numbers DEF Trail, NoBundles, Missing
<1>6. script.op = "creation" /\ script.step = "clusters" /\ \A w \in Workload : reach[w] = 0
  OBVIOUS
<1>7. \A s \in Server : reach[<<s, 0>>] = 0
  BY <1>6, Workloads
<1>8. Shape
  BY <1>6, Numbers DEF Shape, Founder
<1>9. Ups
  <2>1. \A w \in Workload : w[1] \in Server
    BY Workloads
  <2>2. \A w \in Workload :
          /\ reach[w] = reach[<<w[1], 0>>] /\ reach[w] = 0 /\ stage[w] = "off"
          /\ reach[w] \in {0} \cup (Reach(w[1]) .. Founders + 1)
    BY <1>6, <1>7, <2>1
  <2>5. \A n : n = 0 => ~(n > 0)
    OBVIOUS
  <2>3. \A s \in Server : ~ Joined(s)
    BY <1>7, <2>5, Zenon DEF Joined
  <2>4. script.op # "addition" /\ script.op # "removal"
    BY <1>6
  <2> HIDE DEF ScriptsInit, WorkloadInit
  <2> QED
    BY <1>6, <2>2, <2>3, <2>4 DEF Ups, At
<1>10. Stores
  BY <1>7, Workloads DEF Stores, NoBundles
<1>11. Ledger
  BY <1>6 DEF Ledger, NoBundles
<1> QED
  BY <1>1, <1>2, <1>3, <1>4, <1>5, <1>8, <1>9, <1>10, <1>11 DEF Base, Types

LEMMA BaseNext ==
  ASSUME Base, Next
  PROVE  Base'
<1>1. WorkloadTypes /\ ScriptTypes /\ StoreTypes /\ ListenerTypes /\ Trail
        /\ (Running => Shape /\ Ups /\ Stores /\ Ledger)
  BY DEF Base, Types
<1>2. WorkloadTypes' /\ ScriptTypes' /\ StoreTypes' /\ ListenerTypes' /\ Trail'
  BY <1>1, WorkloadTypesNext, ScriptTypesNext, StoreTypesNext, ListenerTypesNext, TrailNext
<1>3. ASSUME Running'
      PROVE  Shape' /\ Ups' /\ Stores' /\ Ledger'
  BY <1>1, <1>3, ShapeNext, UpsNext, StoresNext, LedgerNext
<1> QED
  BY <1>2, <1>3 DEF Base, Types

LEMMA BaseStutters ==
  ASSUME Base, UNCHANGED vars
  PROVE  Base'
<1>1. UNCHANGED <<stage, todo, reach, allFailed, again, view, previous, svid, meshed, remeshed, sent,
                  silent, overlooked>>
        /\ UNCHANGED <<script, ran, own, active, held, federated, entry, published, listener,
                       events, applied, deleted, faults>>
  BY DEF vars, workloadVars, processVars, logVars, scriptVars, spireVars, listenerVars
<1>2. Types' /\ Trail'
  BY <1>1 DEF Base, Types, WorkloadTypes, ScriptTypes, StoreTypes, ListenerTypes, Trail
<1>3. Running' => Running
  BY <1>1 DEF Running
<1>4. Shape => Shape'
  BY <1>1 DEF Shape, Newest
<1>5. Ups => Ups'
  BY <1>1 DEF Ups, Joined, Joining, At
<1>6. Stores => Stores'
  <2>1. \A s \in Server : Reach(s)' = Reach(s) /\ Of(s)' = Of(s)
    BY DEF Reach, Of
  <2>2. \A s \in Server : (Joined(s)' <=> Joined(s)) /\ (Joining(s)' <=> Joining(s))
    BY <1>1 DEF Joined, Joining
  <2>3. ASSUME Stores, NEW s \in Server
        PROVE  /\ listener'[s] # "off" => Joined(s)'
               /\ listener'[s] # "on" => events'[s] = <<>>
               /\ (script.step = "listeners" /\ Joining(s))' => listener'[s] = "off"
               /\ published'[s] # Missing => Joined(s)'
               /\ federated'[s] \in {{}, (1..Reach(s)) \ {s}} /\ (federated'[s] # {} => Joined(s)')
               /\ \A t \in Server : held'[s][t] # Missing => Joined(s)'
    BY <1>1, <2>2, <2>3 DEF Stores
  <2>4. ASSUME Stores, NEW s \in Server, NEW w \in Of(s)
        PROVE  /\ entry'[w] \subseteq federated'[s] /\ \A t \in entry'[w] : held'[s][t] # Missing
               /\ \A t \in Server :
                    {view'[w][t], previous'[w][t]} # {Missing} => t \in federated'[s]
    <3>1. /\ entry[w] \subseteq federated[s] /\ \A t \in entry[w] : held[s][t] # Missing
          /\ \A t \in Server : {view[w][t], previous[w][t]} # {Missing} => t \in federated[s]
      BY <2>4 DEF Stores
    <3> QED
      BY <1>1, <3>1
  <2> QED
    BY <2>1, <2>3, <2>4 DEF Stores
<1>7. Ledger => Ledger'
  BY <1>1 DEF Ledger, Joined, Joining
<1> QED
  BY <1>2, <1>3, <1>4, <1>5, <1>6, <1>7 DEF Base

LEMMA BaseInvariance == Spec => []Base
<1>1. ScriptsInit => Base
  BY BaseInit
<1>2. Base /\ [Next]_vars => Base'
  BY BaseNext, BaseStutters
<1> QED
  BY <1>1, <1>2, PTL DEF Spec

-----------------------------------------------------------------------------
(* Ports                                                                   *)

\* A port that a workload dials for a server is listened on by that server alone,
\* its workloads or SPIRE, where main.go and set_up_cluster.sh agree closely on
\* the first port.
LEMMA PortsApart ==
  ASSUME Near, NEW t \in Server, NEW p \in GetPortsForServer(t),
         NEW s \in Server, Listens(s, p)
  PROVE  s = t
<1>1. /\ s \in Nat /\ t \in Nat /\ ListenBase \in Nat /\ Size \in Nat /\ Size <= 4
      /\ DialBase \in Nat /\ DialBase <= ListenBase /\ ListenBase <= DialBase + 2
  BY Numbers, SizesAssumption DEF Near
<1>2. PICK j \in -2..3 : p = ListenBase + (t - 1) * 6 + j
  <2>1. p \in Int /\ p >= DialBase + (t - 1) * 6 /\ p <= DialBase + (t - 1) * 6 + Size - 1
    BY <1>1 DEF GetPortsForServer
  <2>2. p - (ListenBase + (t - 1) * 6) \in -2..3
    BY <1>1, <2>1
  <2>3. p = ListenBase + (t - 1) * 6 + (p - (ListenBase + (t - 1) * 6))
    BY <1>1, <2>1
  <2> QED
    BY <2>2, <2>3
<1>3. CASE p \in SpirePorts(s)
  <2>1. PICK i \in {1, 2} : p = ListenBase + (s - 1) * 6 - i
    BY <1>1, <1>3 DEF SpirePorts
  <2>2. 6 * (s - t) = i + j
    BY <1>1, <1>2, <2>1
  <2> QED
    BY <1>1, <1>2, <2>1, <2>2
<1>4. ASSUME NEW v \in Of(s), p = Port(v)
      PROVE  s = t
  <2>1. v[1] = s /\ v[2] \in 0..Size - 1
    BY <1>4, Workloads
  <2>2. v[2] \in 0..3 /\ p = ListenBase + (s - 1) * 6 + v[2]
    BY <1>1, <1>4, <2>1 DEF Port
  <2> DEFINE i == v[2]
  <2>3. i \in 0..3 /\ p = ListenBase + (s - 1) * 6 + i
    BY <2>2
  <2> HIDE DEF i
  <2>4. 6 * (s - t) = j - i
    BY <1>1, <1>2, <2>3
  <2> QED
    BY <1>1, <1>2, <2>3, <2>4
<1> QED
  BY <1>3, <1>4 DEF Listens

\* A dial that returned has verified the server that it was meant for.
LEMMA DialsVerify ==
  ASSUME WorkloadTypes, StoreTypes, Near, NEW w \in Workload, NEW t \in Server,
         t # w[1], NEW p \in GetPortsForServer(t), Dials(w, p)
  PROVE  svid[t] \in 0..view[w][t] /\ view[w][t] # Missing
<1>1. Verifies(w, t)
  BY PortsApart DEF Dials
<1>2. svid[t] \in 0..view[w][t]
  BY <1>1 DEF Verifies
<1>3. view[w][t] \in Int
  BY Numbers DEF WorkloadTypes, Version, Missing
<1>4. 0 <= view[w][t]
  BY <1>2, <1>3, StoreNumbers
<1> QED
  BY <1>2, <1>3, <1>4 DEF Missing

\* Conversely a server's workloads that are up can be dialled by whoever verifies
\* them.
LEMMA VerifiedDials ==
  ASSUME Near, NEW w \in Workload, NEW t \in Server, Verifies(w, t),
         \A v \in Of(t) : stage[v] # "off", NEW p \in GetPortsForServer(t)
  PROVE  Dials(w, p)
<1>1. /\ t \in Nat /\ ListenBase \in Nat /\ Size \in Nat
      /\ DialBase \in Nat /\ DialBase <= ListenBase /\ ListenBase <= DialBase + 2
  BY Numbers, SizesAssumption DEF Near
<1> DEFINE j == p - (ListenBase + (t - 1) * 6)
<1>2. j \in -2..Size - 1 /\ p = ListenBase + (t - 1) * 6 + j
  BY <1>1 DEF GetPortsForServer
<1> HIDE DEF j
<1>3. <<t, 0>> \in Of(t)
  BY Workloads DEF Of
<1>4. CASE j \in 0..Size - 1
  <2>1. <<t, j>> \in Of(t) /\ Port(<<t, j>>) = p
    BY <1>2, <1>4 DEF Of, Workload, Port
  <2> QED
    BY <2>1 DEF Dials, Listens
<1>5. CASE j \in {-2, -1}
  <2>1. p \in SpirePorts(t)
    BY <1>1, <1>2, <1>5 DEF SpirePorts
  <2> QED
    BY <1>3, <2>1 DEF Dials, Listens
<1> QED
  BY <1>1, <1>2, <1>4, <1>5

LEMMA ExternalPorts ==
  ASSUME NEW me \in Server, NEW max \in 0..MaxServer
  PROVE  /\ \A t \in (1..max) \ {me} : t \in Server /\ GetPortsForServer(t) \subseteq GenerateExternalPorts(me, max)
         /\ \A p \in GenerateExternalPorts(me, max) :
              \E t \in (1..max) \ {me} : t \in Server /\ p \in GetPortsForServer(t)
<1>1. \A t \in 1..max : t \in Server
  BY Numbers DEF Server
<1> QED
  BY <1>1 DEF GenerateExternalPorts

\* Each server has some port that is dialled for it.
LEMMA SomePort ==
  ASSUME NEW t \in Server
  PROVE  GetPortsForServer(t) # {}
<1>1. t \in Nat /\ DialBase \in Nat /\ Size \in Nat /\ Size >= 1
  BY Numbers
<1>2. DialBase + (t - 1) * 6 \in GetPortsForServer(t)
  BY <1>1 DEF GetPortsForServer
<1> QED
  BY <1>2

-----------------------------------------------------------------------------
(* The mesh                                                                *)

\* What changes the stages, the ports to reach and the end markers of the mesh.
LEMMA MeshSteps ==
  ASSUME ScriptTypes, Next
  PROVE  \/ UNCHANGED <<stage, todo, meshed>>
         \/ SetupNClusters \/ SetupNewCluster \/ KillForRestart \/ RestartWorkloads
         \/ \E w \in Workload :
              /\ UNCHANGED <<scriptVars, spireVars, published, listenerVars>>
              /\ \/ InternalDone(w) \/ MeshDone(w) \/ RoundDone(w)
                 \/ \E p \in todo[w] : Talk(w, p)
                 \/ \E reached \in BOOLEAN : PeriodicSend(w, reached)
<1>1. CASE ScriptStep
  BY <1>1, ScriptStepWorkloads
     DEF workloadVars, processVars, logVars, RecordEventFired, RecordRemovalStart
<1>2. ASSUME NEW w \in Workload, Works(w)
      PROVE  \/ UNCHANGED <<stage, todo, meshed>>
             \/ /\ UNCHANGED <<scriptVars, spireVars, published, listenerVars>>
                /\ \/ InternalDone(w) \/ MeshDone(w) \/ RoundDone(w)
                   \/ \E p \in todo[w] : Talk(w, p)
                   \/ \E reached \in BOOLEAN : PeriodicSend(w, reached)
  <2>1. ByItself
    BY <1>2, WorksSteps
  <2>2. CASE SendsBy(w)
    BY <2>1, <2>2, SendSteps DEF ByItself
  <2>3. ASSUME NEW i, NEW p, TalkAgain(w, i, p) \/ TalkedAgain(w, i)
        PROVE  UNCHANGED <<stage, todo, meshed>>
    BY <2>3 DEF TalkAgain, TalkedAgain, CommunicatedAgain, logVars
  <2> QED
    BY <1>2, <2>1, <2>2, <2>3, WorksSteps DEF ByItself
<1>3. CASE CommandFails \/ PollTimesOut \/ RunAddition \/ RunRotation \/ RunRemoval
  BY <1>3 DEF CommandFails, PollTimesOut, RunAddition, RunRotation, RunRemoval, Begin,
     workloadVars, processVars, logVars
<1>4. ASSUME NEW s \in Server,
             \/ Subscribe(s) \/ HandlerFails(s) \/ HandleEvent(s) \/ RenewSvids(s)
             \/ \E t \in Server : RefreshBundle(s, t)
      PROVE  UNCHANGED <<stage, todo, meshed>>
  BY <1>4 DEF Subscribe, HandlerFails, HandleEvent, RenewSvids, RefreshBundle, workloadVars,
     processVars, logVars
<1>5. ASSUME NEW w \in Workload, DeliverBundles(w)
      PROVE  UNCHANGED <<stage, todo, meshed>>
  BY <1>5 DEF DeliverBundles, OnX509BundlesUpdate, logVars
<1> QED
  BY <1>1, <1>2, <1>3, <1>4, <1>5, Steps

\* Who is counted by the poll of a creation or of an addition.
LEMMA AllMeshed ==
  ASSUME WorkloadTypes, ScriptTypes, Shape, Ups, EndReached, NEW w \in Workload, Joined(w[1]),
         Joining(w[1])
  PROVE  w \in meshed
<1>1. Size \in Nat /\ Founders \in Nat /\ IsFiniteSet(0..Size - 1)
        /\ Cardinality(0..Size - 1) = Size
  <2>1. Size \in Nat /\ 0 \in Int /\ Size - 1 \in Int /\ ~(0 > Size - 1) /\ Founders \in Nat
        /\ (Size - 1) - 0 + 1 = Size
    BY Numbers
  <2> QED
    BY <2>1, FS_Interval
<1>2. CASE script.op = "creation"
  <2> DEFINE counted == {v \in meshed : v[1] <= script.count}
             all     == (1..Founders) \X (0..Size - 1)
  <2>1. script.count = Founders
    BY <1>2 DEF Shape
  <2>2. Cardinality(counted) = Founders * Size
    BY <1>2, <2>1 DEF EndReached, MeasureCreationEnd
  <2>3. \A s \in Server : s <= Founders => s \in 1..Founders
    BY Numbers DEF Server
  <2>4. counted \in SUBSET all
    <3>1. \A v \in counted : v \in Workload /\ v[1] <= Founders
      BY <2>1 DEF WorkloadTypes
    <3>2. \A v \in counted : v[1] \in 1..Founders /\ v[2] \in 0..Size - 1 /\ v = <<v[1], v[2]>>
      BY <2>3, <3>1, Workloads
    <3> QED
      BY <3>2
  <2>5. IsFiniteSet(1..Founders) /\ Cardinality(1..Founders) = Founders
    <3>1. 1 \in Int /\ Founders \in Int /\ ~(1 > Founders) /\ Founders - 1 + 1 = Founders
      BY Numbers
    <3> QED
      BY <3>1, FS_Interval
  <2>6. IsFiniteSet(all) /\ Cardinality(all) = Founders * Size
    BY ZenonT(30), <1>1, <2>5, FS_Product
  <2>7. counted = all
    <3> HIDE DEF counted, all
    <3> QED
      BY <2>2, <2>4, <2>6, FS_Subset
  <2>8. w[1] \in 1..Founders /\ w[2] \in 0..Size - 1 /\ w = <<w[1], w[2]>>
    <3>1. w[1] \in Server /\ w[2] \in 0..Size - 1 /\ w = <<w[1], w[2]>>
      BY Workloads
    <3>2. ~(w[1] > Founders) /\ w[1] \in Nat
      BY <1>2, <3>1, Numbers DEF Ups
    <3> QED
      BY <1>1, <2>3, <3>1, <3>2
  <2>9. w \in all
    BY <2>8
  <2> QED
    BY <2>7, <2>9
<1>3. CASE script.op = "addition" /\ w[1] = script.num
  <2> DEFINE all == {script.num} \X (0..Size - 1)
  <2>1. Cardinality(meshed \cap Of(script.num)) = Size
    BY <1>3 DEF EndReached, MeasureAdditionEnd
  <2>2. Of(script.num) = all
    <3>1. script.num \in Server
      BY DEF ScriptTypes
    <3>2. \A v \in Of(script.num) : v[2] \in 0..Size - 1 /\ v = <<v[1], v[2]>> /\ v[1] = script.num
      BY <3>1, Workloads
    <3> QED
      BY <3>1, <3>2 DEF Of, Workload
  <2>3. IsFiniteSet(all) /\ Cardinality(all) = 1 * Size
    <3>1. IsFiniteSet({script.num}) /\ Cardinality({script.num}) = 1
      BY FS_Singleton
    <3> QED
      BY <1>1, <3>1, FS_Product
  <2>4. meshed \cap Of(script.num) \in SUBSET all /\ Cardinality(all) = Size
    BY <1>1, <2>2, <2>3
  <2>5. meshed \cap Of(script.num) = all
    <3> HIDE DEF all
    <3> QED
      BY <2>1, <2>3, <2>4, FS_Subset
  <2> QED
    BY <1>3, <2>2, <2>5, Workloads
<1> QED
  BY <1>2, <1>3 DEF Joining

\* A newcomer's workloads, when its script begins.
LEMMA Newcomer ==
  ASSUME Base, Next, Running', NEW s \in Server, Joining(s)', ~ Joining(s)
  PROVE  /\ ~ Joined(s) /\ UNCHANGED <<workloadVars, spireVars, published, listenerVars>>
         /\ \A w \in Of(s) : reach[w] = 0 /\ stage[w] = "off"
         /\ \A t \in Server : held[s][t] = Missing
         /\ \A w \in Of(s) : \A t \in Server : view[w][t] = Missing /\ previous[w][t] = Missing
<1>1. WorkloadTypes /\ ScriptTypes /\ Running /\ Shape /\ Ups /\ Stores
  BY Living DEF Base, Types
<1>2. ~ Joined(s)
  BY <1>1, JoiningNext
<1>3. RunAddition
  <2>1. CASE UNCHANGED scriptVars
    BY <2>1 DEF scriptVars, Joining
  <2>2. CASE ScriptStep
    BY <1>1, <2>2, ScriptOrder DEF Joining
  <2>3. CASE RunRotation \/ RunRemoval
    BY <2>3 DEF RunRotation, RunRemoval, Begin, Joining
  <2> QED
    BY <1>1, <2>1, <2>2, <2>3, ScriptSteps
<1>4. \A w \in Of(s) : w \in Workload /\ w[1] = s
  BY Workloads
<1>5. \A w \in Of(s) : reach[w] = 0 /\ stage[w] = "off"
  BY <1>1, <1>2, <1>4, ReachFacts
<1>6. federated[s] = {} /\ \A t \in Server : held[s][t] = Missing
  BY <1>1, <1>2 DEF Stores
<1>7. \A w \in Of(s) : \A t \in Server : {view[w][t], previous[w][t]} = {Missing}
  BY <1>1, <1>6 DEF Stores
<1>8. \A w \in Of(s) : \A t \in Server : view[w][t] = Missing /\ previous[w][t] = Missing
  BY <1>7
<1> QED
  BY <1>2, <1>3, <1>5, <1>6, <1>8 DEF RunAddition, Begin

\* A store holds a bundle of its own server under no name.
LEMMA EntryPeers ==
  ASSUME WorkloadTypes, StoreTypes, Stores, NEW w \in Workload, NEW t \in entry[w]
  PROVE  t \in Server /\ t # w[1] /\ t \in 1..Reach(w[1]) /\ held[w[1]][t] # Missing
<1>1. w[1] \in Server /\ w \in Of(w[1]) /\ entry[w] \subseteq Server
  BY Workloads DEF StoreTypes
<1> QED
  BY <1>1 DEF Stores

LEMMA MeshHeld ==
  ASSUME Base, Running => Mesh, Next, Running'
  PROVE  \A s, t \in Server : Joining(s)' /\ s # t => held'[s][t] \in {Missing, own'[t]}
<1> SUFFICES ASSUME NEW s \in Server, NEW t \in Server, Joining(s)', s # t
             PROVE  held'[s][t] \in {Missing, own'[t]}
  OBVIOUS
<1>1. WorkloadTypes /\ ScriptTypes /\ StoreTypes /\ ListenerTypes /\ Running /\ Shape /\ Ups /\ Stores
        /\ Ledger /\ Mesh
  BY Living DEF Base, Types
<1>2. CASE ~ Joining(s)
  BY <1>2, Newcomer DEF spireVars
<1>3. CASE Joining(s)
  <2>1. held[s][t] \in {Missing, own[t]}
    BY <1>1, <1>3 DEF Mesh
  <2>2. UNCHANGED own
    <3>1. ~ PrepareX509Authority
      BY <1>3 DEF PrepareX509Authority, At, Joining
    <3> QED
      BY <3>1, SpireSteps
  <2>3. published[t] \in {Missing, own[t]}
    BY <1>1, <1>3 DEF Ledger, Joining
  <2>4. held'[s][t] \in {held[s][t], Missing, own[t], published[t]}
    <3>1. CASE FetchBundles
      BY <1>1, <3>1 DEF FetchBundles, StoreTypes, ScriptTypes
    <3>2. CASE UpdateRegistrationEntries \/ CleanLocalEntry
      BY <3>2 DEF UpdateRegistrationEntries, CleanLocalEntry
    <3>3. ASSUME NEW i \in Server, HandleEvent(i)
          PROVE  held'[s][t] \in {held[s][t], Missing, own[t], published[t]}
      <4> DEFINE u == Head(events[i]).server
      <4>1. u \in Server
        BY <1>1, <3>3, EventTyped DEF HandleEvent
      <4>2. \/ UNCHANGED <<held, entry>>
            \/ held' = [held EXCEPT ![i][u] = published[u]]
            \/ held' = [held EXCEPT ![i][u] = Missing]
        BY <3>3 DEF HandleEvent, Dissociate
      <4> HIDE DEF u
      <4> QED
        BY <1>1, <4>1, <4>2 DEF StoreTypes
    <3>4. ASSUME NEW i \in Server, NEW u \in Server, RefreshBundle(i, u)
          PROVE  held'[s][t] \in {held[s][t], Missing, own[t], published[t]}
      BY <1>1, <3>4 DEF RefreshBundle, StoreTypes
    <3> QED
      BY <3>1, <3>2, <3>3, <3>4, SpireSteps
  <2> QED
    BY <2>1, <2>2, <2>3, <2>4
<1> QED
  BY <1>2, <1>3

\* The entries of a server that is set up only grow.
LEMMA EntriesGrow ==
  ASSUME Base, Next, Running', NEW w \in Workload, Joining(w[1])
  PROVE  entry[w] \subseteq entry'[w]
<1>1. WorkloadTypes /\ ScriptTypes /\ StoreTypes /\ ListenerTypes /\ Running /\ Shape /\ Ups /\ Stores
        /\ Ledger
  BY Living DEF Base, Types
<1>2. w[1] \in Server /\ w \in Of(w[1])
  BY Workloads
<1>3. CASE UpdateRegistrationEntries
  <2>1. entry[w] \subseteq federated[w[1]]
    BY <1>1, <1>2 DEF Stores
  <2> QED
    BY <1>3, <2>1 DEF UpdateRegistrationEntries
<1>4. ~ CleanLocalEntry
  BY DEF CleanLocalEntry, At, Joining
<1>5. ASSUME NEW i \in Server, HandleEvent(i)
      PROVE  entry[w] \subseteq entry'[w]
  <2> DEFINE e == Head(events[i])
  <2>1. UNCHANGED entry \/ (e.type = "bundle_deleted" /\ Dissociate(i, e.server))
    BY <1>5 DEF HandleEvent
  <2>2. 1 \in DOMAIN events[i] /\ e = events[i][1]
    BY <1>1, <1>5, EventTyped DEF HandleEvent
  <2>3. CASE e.type = "bundle_deleted" /\ Dissociate(i, e.server)
    <3>1. ~ Joining(i)
      BY <1>1, <2>2, <2>3 DEF Ledger
    <3>2. w[1] # i
      BY <3>1
    <3> QED
      BY <2>3, <3>2 DEF Dissociate
  <2> QED
    BY <2>1, <2>3
<1> QED
  BY <1>3, <1>4, <1>5, SpireSteps DEF FetchBundles, RefreshBundle

LEMMA MeshViews ==
  ASSUME Base, Running => Mesh, Next, Running'
  PROVE  \A w \in Workload : \A t \in Server : Joining(w[1])' =>
           /\ view'[w][t] \in {Missing, own'[t]}
           /\ view'[w][t] # Missing => t \in entry'[w]
           /\ Joining(w[1]) /\ view[w][t] # Missing => view'[w][t] # Missing
<1> SUFFICES ASSUME NEW w \in Workload, NEW t \in Server, Joining(w[1])'
             PROVE  /\ view'[w][t] \in {Missing, own'[t]}
                    /\ view'[w][t] # Missing => t \in entry'[w]
                    /\ Joining(w[1]) /\ view[w][t] # Missing => view'[w][t] # Missing
  OBVIOUS
<1>1. WorkloadTypes /\ ScriptTypes /\ StoreTypes /\ ListenerTypes /\ Running /\ Shape /\ Ups /\ Stores
        /\ Ledger /\ Mesh
  BY Living DEF Base, Types
<1>2. w[1] \in Server /\ w \in Of(w[1])
  BY Workloads
<1>3. CASE ~ Joining(w[1])
  BY <1>2, <1>3, Newcomer DEF workloadVars, processVars
<1>4. CASE Joining(w[1])
  <2>1. view[w][t] \in {Missing, own[t]} /\ (view[w][t] # Missing => t \in entry[w])
    BY <1>1, <1>4 DEF Mesh
  <2>2. UNCHANGED own
    <3>1. ~ PrepareX509Authority
      BY <1>4 DEF PrepareX509Authority, At, Joining
    <3> QED
      BY <3>1, SpireSteps
  <2>3. entry[w] \subseteq entry'[w]
    BY <1>4, EntriesGrow
  <2>4. CASE UNCHANGED view
    BY <2>1, <2>2, <2>3, <2>4
  <2>5. ASSUME NEW v \in Workload, DeliverBundles(v)
        PROVE  /\ view'[w][t] \in {Missing, own[t]}
               /\ view'[w][t] # Missing => t \in entry[w]
               /\ view[w][t] # Missing => view'[w][t] # Missing
    <3>1. PICK bundles \in Deliverable(v) : OnX509BundlesUpdate(v, bundles)
      BY <2>5 DEF DeliverBundles
    <3>2. /\ view'[v] = bundles
          /\ \A u \in Workload \ {v} : view'[u] = view[u]
          /\ bundles[t] = view[v][t]
               \/ bundles[t] = IF t \in entry[v] THEN held[v[1]][t] ELSE Missing
      BY <1>1, <3>1, Delivery
    <3>3. t \in entry[w] => held[w[1]][t] = own[t] /\ held[w[1]][t] # Missing
      BY <1>1, <1>2, <1>4, EntryPeers DEF Mesh
    <3> QED
      BY <2>1, <3>2, <3>3
  <2> QED
    BY <2>2, <2>3, <2>4, <2>5, WatchSteps
<1> QED
  BY <1>3, <1>4

\* A workload in its external stage still has the ports of the servers that it
\* does not verify; past the mesh there are none.
LEMMA MeshPorts ==
  ASSUME Base, Running => Mesh, Next, Running', Near,
         NEW w \in Workload, NEW t \in Server, Joining(w[1])', t \in (1..Reach(w[1])) \ {w[1]}
  PROVE  /\ stage'[w] = "external" =>
              GetPortsForServer(t) \subseteq todo'[w] \/ view'[w][t] # Missing
         /\ stage'[w] = "idle" => view'[w][t] # Missing
<1> DEFINE Goal == /\ stage'[w] = "external" =>
                        GetPortsForServer(t) \subseteq todo'[w] \/ view'[w][t] # Missing
                   /\ stage'[w] = "idle" => view'[w][t] # Missing
<1>1. WorkloadTypes /\ ScriptTypes /\ StoreTypes /\ Running /\ Shape /\ Ups /\ Mesh
  BY Living DEF Base, Types
<1>2. w[1] \in Server /\ w \in Of(w[1])
  BY Workloads
<1>3. CASE ~ Joining(w[1])
  <2>1. UNCHANGED stage /\ stage[w] = "off"
    BY <1>2, <1>3, Newcomer DEF workloadVars, processVars
  <2> QED
    BY <2>1
<1>4. CASE Joining(w[1])
  <2>1. /\ stage[w] = "external" => GetPortsForServer(t) \subseteq todo[w] \/ view[w][t] # Missing
        /\ stage[w] = "idle" => view[w][t] # Missing
    BY <1>1, <1>4 DEF Mesh
  <2>2. view[w][t] # Missing => view'[w][t] # Missing
    BY <1>4, MeshViews
  <2>3. CASE stage'[w] = stage[w] /\ todo'[w] = todo[w]
    BY <2>1, <2>2, <2>3
  <2>4. CASE SetupNClusters
    <3>1. ~ Joined(w[1])
      <4>1. At("creation", "clusters")
        BY <2>4 DEF SetupNClusters
      <4>2. \A s \in Server : ~ Joined(s)
        BY <1>1, <4>1, Numbers DEF Ups, At
      <4> QED
        BY <1>2, <4>2
    <3>2. stage[w] = "off"
      BY <1>1, <3>1, ReachFacts
    <3>3. stage'[w] \in {"off", "internal"}
      BY <2>4, <3>2 DEF SetupNClusters
    <3> QED
      BY <3>3
  <2>5. CASE SetupNewCluster
    <3>1. w[1] = script.num /\ StartWorkloads(script.num, script.num, FALSE)
      BY <1>4, <2>5 DEF SetupNewCluster, At, Joining
    <3>2. stage'[w] = "internal"
      BY <1>2, <3>1 DEF StartWorkloads
    <3> QED
      BY <3>2
  <2>6. ~ KillForRestart /\ ~ RestartWorkloads
    BY <1>4 DEF KillForRestart, RestartWorkloads, At, Joining
  <2>7. ASSUME NEW v \in Workload,
               \/ InternalDone(v) \/ MeshDone(v) \/ RoundDone(v)
               \/ \E p \in todo[v] : Talk(v, p)
               \/ \E reached \in BOOLEAN : PeriodicSend(v, reached)
        PROVE  Goal
    <3>1. CASE v # w
      <4>1. stage'[w] = stage[w] /\ todo'[w] = todo[w]
        BY <1>1, <2>7, <3>1
           DEF InternalDone, MeshDone, RoundDone, Talk, PeriodicSend, WorkloadTypes
      <4> QED
        BY <2>3, <4>1
    <3>2. CASE InternalDone(w)
      <4>1. reach[w] = Reach(w[1]) /\ reach[w] \in 0..MaxServer
        BY <1>1, <1>4, <3>2 DEF InternalDone, Ups, WorkloadTypes
      <4>2. todo'[w] = GenerateExternalPorts(w[1], reach[w]) /\ stage'[w] = "external"
        BY <1>1, <3>2 DEF InternalDone, WorkloadTypes
      <4>3. GetPortsForServer(t) \subseteq GenerateExternalPorts(w[1], reach[w])
        <5>1. t \in (1..reach[w]) \ {w[1]}
          BY <4>1
        <5> QED
          BY <1>2, <4>1, <5>1, ExternalPorts
      <4> QED
        BY <4>2, <4>3
    <3>3. CASE MeshDone(w)
      <4>1. stage[w] = "external" /\ todo[w] = {} /\ stage'[w] = "idle"
        BY <1>1, <3>3 DEF MeshDone, WorkloadTypes
      <4> QED
        BY <2>1, <2>2, <4>1, SomePort
    <3>4. CASE RoundDone(w) \/ \E reached \in BOOLEAN : PeriodicSend(w, reached)
      <4>1. stage'[w] \notin {"external", "idle"}
        BY <1>1, <3>4 DEF RoundDone, PeriodicSend, WorkloadTypes
      <4> QED
        BY <4>1
    <3>5. ASSUME NEW p \in todo[w], Talk(w, p)
          PROVE  Goal
      <4>1. UNCHANGED stage /\ todo'[w] = todo[w] \ {p} /\ Dials(w, p)
        BY <1>1, <3>5 DEF Talk, WorkloadTypes
      <4>2. CASE p \in GetPortsForServer(t)
        <5>1. view[w][t] # Missing
          BY <1>1, <4>1, <4>2, DialsVerify
        <5> QED
          BY <2>1, <2>2, <4>1, <5>1
      <4>3. CASE p \notin GetPortsForServer(t)
        BY <2>1, <2>2, <4>1, <4>3
      <4> QED
        BY <4>2, <4>3
    <3> QED
      BY <2>7, <3>1, <3>2, <3>3, <3>4, <3>5
  <2> HIDE DEF Goal
  <2>8. stage'[w] = stage[w] /\ todo'[w] = todo[w] => Goal
    BY <2>3 DEF Goal
  <2>9. SetupNClusters \/ SetupNewCluster => Goal
    BY <2>4, <2>5 DEF Goal
  <2>10. Goal
    BY <1>1, <2>6, <2>7, <2>8, <2>9, MeshSteps
  <2> QED
    BY <2>10 DEF Goal
<1> QED
  BY <1>3, <1>4

\* Past the mesh is who has its marker; who has not is being set up.
LEMMA MeshMarks ==
  ASSUME Base, Running => Mesh, Next, Running', NEW w \in Workload
  PROVE  /\ w \in meshed' => Joined(w[1])' /\ stage'[w] \notin {"internal", "external"}
         /\ Joined(w[1])' /\ w \notin meshed' => Joining(w[1])' /\ script'.step # "measured"
<1>1. WorkloadTypes /\ ScriptTypes /\ StoreTypes /\ Running /\ Shape /\ Ups /\ Mesh
  BY Living DEF Base, Types
<1>2. w[1] \in Server /\ w \in Of(w[1])
  BY Workloads
<1>3. /\ w \in meshed => Joined(w[1]) /\ stage[w] \notin {"internal", "external"}
      /\ Joined(w[1]) /\ w \notin meshed => Joining(w[1]) /\ script.step # "measured"
  BY <1>1 DEF Mesh
<1>4. Joined(w[1]) => Joined(w[1])'
  BY <1>1, <1>2, JoinedKept
<1>5. meshed \subseteq meshed'
  BY <1>1, MeshSteps DEF SetupNClusters, SetupNewCluster, KillForRestart, RestartWorkloads, logVars,
     InternalDone, MeshDone, RoundDone, Talk, PeriodicSend
<1>6. w \in meshed' => Joined(w[1])' /\ stage'[w] \notin {"internal", "external"}
  <2>1. CASE UNCHANGED <<stage, todo, meshed>>
    BY <1>3, <1>4, <2>1
  <2>2. CASE SetupNClusters
    <3>1. At("creation", "clusters") /\ UNCHANGED meshed
      BY <2>2 DEF SetupNClusters, logVars
    <3>2. \A s \in Server : ~ Joined(s)
      BY <1>1, <3>1, Numbers DEF Ups, At
    <3> QED
      BY <1>2, <1>3, <3>1, <3>2
  <2>3. CASE SetupNewCluster
    <3>1. /\ At("addition", "clusters") /\ UNCHANGED meshed
          /\ StartWorkloads(script.num, script.num, FALSE)
      BY <2>3 DEF SetupNewCluster, logVars
    <3>2. script.num \in Server /\ ~ Joined(script.num)
      <4>1. script.num \in Server /\ script.num = Founders + 1 /\ script.op = "addition"
              /\ script.step = "clusters"
        BY <1>1, <3>1 DEF Shape, At, ScriptTypes
      <4>2. script.num > Founders
        BY <4>1, Numbers
      <4> QED
        BY <1>1, <4>1, <4>2 DEF Ups
    <3>3. w \notin Of(script.num) => stage'[w] = stage[w]
      BY <3>1 DEF StartWorkloads
    <3>4. w \in Of(script.num) => ~ Joined(w[1])
      BY <3>2, Workloads
    <3> QED
      BY <1>3, <1>4, <3>1, <3>3, <3>4
  <2>4. CASE KillForRestart \/ RestartWorkloads
    <3>1. stage'[w] \in {stage[w], "off", "periodic"} /\ UNCHANGED meshed
      BY <2>4 DEF KillForRestart, RestartWorkloads, KillWorkloads, StartWorkloads, logVars
    <3> QED
      BY <1>3, <1>4, <3>1
  <2>5. ASSUME NEW v \in Workload,
               \/ InternalDone(v) \/ MeshDone(v) \/ RoundDone(v)
               \/ \E p \in todo[v] : Talk(v, p)
               \/ \E reached \in BOOLEAN : PeriodicSend(v, reached)
        PROVE  w \in meshed' => Joined(w[1])' /\ stage'[w] \notin {"internal", "external"}
    <3>1. CASE InternalDone(v) \/ MeshDone(v)
      <4>1. stage[v] # "off"
        BY <3>1 DEF InternalDone, MeshDone
      <4>2. Joined(v[1])
        BY <1>1, <4>1, ReachFacts
      <4>3. CASE v # w
        <5>1. stage'[w] = stage[w] /\ (w \in meshed' => w \in meshed)
          BY <1>1, <3>1, <4>3 DEF InternalDone, MeshDone, WorkloadTypes, logVars
        <5> QED
          BY <1>3, <1>4, <5>1
      <4>4. CASE v = w /\ MeshDone(w)
        <5>1. stage'[w] = "idle"
          BY <1>1, <4>4 DEF MeshDone, WorkloadTypes
        <5> QED
          BY <1>4, <4>2, <4>4, <5>1
      <4>5. CASE v = w /\ InternalDone(w)
        <5>1. w \notin meshed'
          BY <1>3, <4>5 DEF InternalDone, logVars
        <5> QED
          BY <5>1
      <4> QED
        BY <3>1, <4>3, <4>4, <4>5
    <3>2. CASE RoundDone(v) \/ (\E p \in todo[v] : Talk(v, p))
                 \/ \E reached \in BOOLEAN : PeriodicSend(v, reached)
      BY <1>1, <1>3, <1>4, <3>2 DEF RoundDone, Talk, PeriodicSend, WorkloadTypes, logVars
    <3> QED
      BY <2>5, <3>1, <3>2
  <2> QED
    BY <1>1, <2>1, <2>2, <2>3, <2>4, <2>5, MeshSteps
<1>7. ASSUME Joined(w[1])', w \notin meshed'
      PROVE  Joining(w[1])' /\ script'.step # "measured"
  <2>1. CASE SetupNClusters \/ SetupNewCluster
    <3>1. ScriptStep
      BY <2>1 DEF ScriptStep
    <3>2. script'.op = script.op /\ script'.step = "listeners"
            /\ script.op \in {"creation", "addition"}
            /\ (script.op = "addition" => script'.num = script.num)
      BY <1>1, <2>1, <3>1, ScriptOrder DEF SetupNClusters, SetupNewCluster, Goto, At, ScriptTypes
    <3>3. SetupNewCluster /\ w[1] # script.num => Joined(w[1])
      <4>1. w \notin Of(script.num) /\ SetupNewCluster => reach'[w] = reach[w]
        BY DEF SetupNewCluster, StartWorkloads
      <4>2. Ups'
        BY <1>1, UpsNext
      <4>3. reach'[<<w[1], 0>>] > 0 /\ reach'[w] = reach'[<<w[1], 0>>]
        BY <1>7, <4>2 DEF Joined, Ups
      <4>4. reach[w] = reach[<<w[1], 0>>]
        BY <1>1 DEF Ups
      <4>5. w[1] # script.num => w \notin Of(script.num)
        BY DEF Of
      <4> QED
        BY <4>1, <4>3, <4>4, <4>5 DEF Joined
    <3>4. ~ At("creation", "clusters") => ~ SetupNClusters
      BY DEF SetupNClusters
    <3> QED
      BY <1>3, <1>5, <1>7, <2>1, <3>2, <3>3 DEF Joining, SetupNClusters, At
  <2>2. CASE ~ SetupNClusters /\ ~ SetupNewCluster
    <3>1. Joined(w[1])
      <4>1. CASE UNCHANGED reach
        BY <1>7, <4>1 DEF Joined
      <4>2. CASE RestartWorkloads
        <5>1. StartWorkloads(script.num, script.count, TRUE) /\ script.step # "clusters"
          BY <4>2 DEF RestartWorkloads, At
        <5>2. Joined(script.num)
          BY <1>1, <5>1, NumJoined
        <5>3. w[1] # script.num => reach'[<<w[1], 0>>] = reach[<<w[1], 0>>]
          <6>1. <<w[1], 0>> \in Workload /\ <<w[1], 0>>[1] = w[1]
            BY <1>2, Workloads
          <6> QED
            BY <5>1, <6>1 DEF StartWorkloads, Of
        <5> QED
          BY <1>7, <5>2, <5>3 DEF Joined
      <4> QED
        BY <2>2, <4>1, <4>2, StageSteps
           DEF KillForRestart, KillWorkloads, InternalDone, MeshDone, RoundDone
    <3>2. w \notin meshed /\ Joining(w[1]) /\ script.step # "measured"
      BY <1>3, <1>5, <1>7, <3>1
    <3>3. CASE UNCHANGED scriptVars
      BY <3>2, <3>3 DEF scriptVars, Joining
    <3>4. CASE ScriptStep
      <4>1. Joining(w[1])'
        BY <1>1, <3>2, <3>4, ScriptOrder DEF Joining
      <4>2. ~ PollUntil
        BY <1>1, <3>1, <3>2, AllMeshed DEF PollUntil
      <4>3. script'.step # "measured"
        BY <1>1, <3>2, <3>4, <4>2, ScriptOrder DEF Joining
      <4> QED
        BY <4>1, <4>3
    <3>5. ~ RunAddition /\ ~ RunRotation /\ ~ RunRemoval
      BY <3>2 DEF RunAddition, RunRotation, RunRemoval, Begin
    <3> QED
      BY <1>1, <3>3, <3>4, <3>5, ScriptSteps
  <2> QED
    BY <2>1, <2>2
<1> QED
  BY <1>6, <1>7

LEMMA MeshNext ==
  ASSUME Base, Running => Mesh, Next, Running'
  PROVE  Mesh'
<1>1. \A s \in Server : Reach(s)' = Reach(s)
  BY DEF Reach
<1>2. \A w \in Workload : w[1] \in Server
  BY Workloads
<1>3. \A s, t \in Server : Joining(s)' /\ s # t => held'[s][t] \in {Missing, own'[t]}
  BY MeshHeld
<1>4. \A w \in Workload : \A t \in Server : Joining(w[1])' =>
        view'[w][t] \in {Missing, own'[t]} /\ (view'[w][t] # Missing => t \in entry'[w])
  BY MeshViews
<1>5. \A w \in Workload : \A t \in Server :
        Joining(w[1])' /\ Near /\ t \in (1..Reach(w[1])) \ {w[1]} =>
          /\ stage'[w] = "external" => GetPortsForServer(t) \subseteq todo'[w] \/ view'[w][t] # Missing
          /\ stage'[w] = "idle" => view'[w][t] # Missing
  BY MeshPorts
<1>6. \A w \in Workload :
        /\ w \in meshed' => Joined(w[1])' /\ stage'[w] \notin {"internal", "external"}
        /\ Joined(w[1])' /\ w \notin meshed' => Joining(w[1])' /\ script'.step # "measured"
  BY MeshMarks
<1>7. \A t \in Server : GetPortsForServer(t)' = GetPortsForServer(t)
  BY DEF GetPortsForServer
<1> QED
  BY <1>1, <1>2, <1>3, <1>4, <1>5, <1>6, <1>7 DEF Mesh

-----------------------------------------------------------------------------
(* The bundle watcher                                                      *)

LEMMA EntriesFrom ==
  ASSUME StoreTypes, Next, NEW w \in Workload
  PROVE  \/ entry'[w] \subseteq entry[w]
         \/ UpdateRegistrationEntries /\ w[1] = script.num /\ entry'[w] = federated[w[1]]
<1>1. CASE UNCHANGED entry
  BY <1>1
<1>2. ASSUME NEW i \in Server, HandleEvent(i)
      PROVE  entry'[w] \subseteq entry[w]
  BY <1>2 DEF HandleEvent, Dissociate
<1>3. CASE UpdateRegistrationEntries
  BY <1>3 DEF UpdateRegistrationEntries
<1>4. CASE CleanLocalEntry
  BY <1>4 DEF CleanLocalEntry, StoreTypes
<1> QED
  BY <1>1, <1>2, <1>3, <1>4, SpireSteps DEF FetchBundles, RefreshBundle

\* What a delivery does to a bundle of the entry.
LEMMA EntryDelivered ==
  ASSUME Base, Running, Next, NEW w \in Workload, NEW t \in entry[w], DeliverBundles(w)
  PROVE  /\ t \in Watched(w) /\ view'[w][t] \in {view[w][t], held[w[1]][t]}
         /\ held[w[1]][t] # Missing
         /\ view'[w][t] # Missing => previous'[w][t] = view'[w][t]
<1>1. WorkloadTypes /\ StoreTypes /\ Ups /\ Stores
  BY DEF Base, Types
<1>2. t \in Server /\ t # w[1] /\ t \in 1..Reach(w[1]) /\ held[w[1]][t] # Missing
  BY <1>1, EntryPeers
<1>3. stage[w] # "off" /\ \E bundles \in Deliverable(w) : OnX509BundlesUpdate(w, bundles)
  BY DEF DeliverBundles
<1>4. t \in Watched(w)
  <2>1. Reach(w[1]) <= reach[w] /\ reach[w] \in Nat
    BY <1>1, <1>3, ReachFacts
  <2>2. Reach(w[1]) \in Nat
    BY Numbers DEF Reach
  <2>3. t \in 1..reach[w]
    BY <1>2, <2>1, <2>2
  <2> QED
    BY <1>2, <2>3 DEF Watched
<1>5. PICK bundles \in Deliverable(w) : OnX509BundlesUpdate(w, bundles)
  BY <1>3
<1>6. /\ view'[w] = bundles
      /\ previous'[w][t] = IF t \in Watched(w) /\ bundles[t] # Missing THEN bundles[t]
                           ELSE previous[w][t]
      /\ bundles[t] = view[w][t]
           \/ bundles[t] = IF t \in entry[w] THEN held[w[1]][t] ELSE Missing
  BY <1>1, <1>2, <1>5, Delivery
<1> QED
  BY <1>2, <1>4, <1>6

\* A meshed workload that is still being set up verifies whom it meshed with.
LEMMA MeshedViews ==
  ASSUME Base, Running, Mesh, Near, NEW w \in Workload, w \in meshed,
         Joining(w[1]), NEW t \in (1..Reach(w[1])) \ {w[1]}, t \in Server
  PROVE  view[w][t] # Missing
<1>1. WorkloadTypes /\ Ups
  BY DEF Base, Types
<1>2. Joined(w[1]) /\ stage[w] \notin {"internal", "external"}
  BY DEF Mesh
<1>3. stage[w] # "off"
  <2>1. reach[w] > 0 /\ ~ At("removal", "respawn") /\ reach[w] \in Nat
    BY <1>1, <1>2, ReachFacts DEF Joining, At
  <2>2. reach[w] # 0
    BY <2>1
  <2> QED
    BY <1>1, <2>1, <2>2, Zenon DEF Ups
<1>4. stage[w] = "idle"
  <2>1. stage[w] \notin {"periodic", "silent"}
    BY <1>1 DEF Ups
  <2> QED
    BY <1>1, <1>2, <1>3, <2>1 DEF WorkloadTypes, Stage
<1> QED
  BY <1>4 DEF Mesh

LEMMA WatchingNext ==
  ASSUME Base, Running => Mesh /\ Watching, Next, Running'
  PROVE  Watching'
<1>1. WorkloadTypes /\ ScriptTypes /\ StoreTypes /\ Running /\ Shape /\ Ups /\ Stores /\ Mesh /\ Watching
  BY Living DEF Base, Types
<1>2. ASSUME NEW w \in Workload, NEW t \in Server, t \in entry'[w]
      PROVE  /\ Near /\ w \in meshed' => view'[w][t] # Missing
             /\ \/ view'[w][t] \in {Missing, previous'[w][t]}
                \/ script'.op = "removal" /\ w[1] = script'.num
  <2>1. w[1] \in Server /\ w \in Of(w[1])
    BY Workloads
  <2>2. CASE UpdateRegistrationEntries /\ w[1] = script.num /\ entry'[w] = federated[w[1]]
    <3>1. UNCHANGED <<view, previous, meshed>> /\ Joining(w[1])
      <4>1. script.step = "entries" /\ script.op \in {"creation", "addition"}
        BY <1>1, <2>2 DEF UpdateRegistrationEntries, Shape, ScriptTypes, Script
      <4> QED
        BY <2>2, <4>1 DEF UpdateRegistrationEntries, workloadVars, processVars, logVars, Joining
    <3>2. t \in (1..Reach(w[1])) \ {w[1]}
      BY <1>1, <1>2, <2>1, <2>2 DEF Stores
    <3>3. Near /\ w \in meshed => view[w][t] # Missing
      BY <1>1, <3>1, <3>2, MeshedViews
    <3>4. view[w][t] # Missing => t \in entry[w]
      BY <1>1, <3>1 DEF Mesh
    <3>5. view[w][t] \in {Missing, previous[w][t]}
      BY <1>1, <3>1, <3>4 DEF Watching, Joining
    <3> QED
      BY <3>1, <3>3, <3>5
  <2>3. CASE entry'[w] \subseteq entry[w]
    <3>1. /\ t \in entry[w]
          /\ Near /\ w \in meshed => view[w][t] # Missing
          /\ \/ view[w][t] \in {Missing, previous[w][t]}
             \/ script.op = "removal" /\ w[1] = script.num
      BY <1>1, <1>2, <2>3 DEF Watching
    <3>2. Near /\ w \in meshed' => view'[w][t] # Missing
      <4>1. CASE Near /\ w \in meshed
        <5>1. view[w][t] # Missing
          BY <3>1, <4>1
        <5>2. CASE UNCHANGED view
          BY <5>1, <5>2
        <5>3. ASSUME NEW v \in Workload, DeliverBundles(v)
              PROVE  view'[w][t] # Missing
          <6>1. CASE v = w
            BY <1>1, <3>1, <5>1, <5>3, <6>1, EntryDelivered
          <6>2. CASE v # w
            BY <1>1, <5>1, <5>3, <6>2 DEF DeliverBundles, OnX509BundlesUpdate, WorkloadTypes
          <6> QED
            BY <6>1, <6>2
        <5> QED
          BY <5>2, <5>3, WatchSteps
      <4>2. CASE Near /\ w \notin meshed /\ w \in meshed'
        <5>1. MeshDone(w)
          BY <1>1, <4>2, MeshSteps
             DEF SetupNClusters, SetupNewCluster, KillForRestart, RestartWorkloads, logVars,
                 InternalDone, MeshDone, RoundDone, Talk, PeriodicSend
        <5>2. stage[w] = "external" /\ todo[w] = {} /\ UNCHANGED view
          BY <5>1 DEF MeshDone
        <5>3. Joined(w[1])
          BY <1>1, <5>2, ReachFacts
        <5>4. Joining(w[1])
          BY <1>1, <4>2, <5>3 DEF Mesh
        <5>5. t \in (1..Reach(w[1])) \ {w[1]}
          BY <1>1, <3>1, EntryPeers
        <5>6. GetPortsForServer(t) \subseteq todo[w] \/ view[w][t] # Missing
          BY <1>1, <4>2, <5>2, <5>4, <5>5 DEF Mesh
        <5> QED
          BY <5>2, <5>6, SomePort
      <4> QED
        BY <4>1, <4>2
    <3>3. \/ view'[w][t] \in {Missing, previous'[w][t]}
          \/ script.op = "removal" /\ w[1] = script.num
      <4>1. CASE UNCHANGED <<view, previous>>
        BY <3>1, <4>1
      <4>2. CASE SetupNewCluster /\ UNCHANGED view
        <5>1. w \notin Of(script.num) => previous'[w] = previous[w]
          BY <1>1, <4>2 DEF SetupNewCluster, StartWorkloads, WorkloadTypes
        <5>2. CASE w \in Of(script.num)
          <6>1. w[1] = script.num /\ script.num = Founders + 1 /\ script.op = "addition"
                  /\ script.step = "clusters"
            BY <1>1, <4>2, <5>2 DEF Of, SetupNewCluster, At, Shape
          <6>2. ~ Joined(w[1])
            BY <1>1, <2>1, <6>1, Numbers DEF Ups
          <6>3. entry[w] = {}
            BY <1>1, <2>1, <6>2 DEF Stores
          <6> QED
            BY <3>1, <6>3
        <5> QED
          BY <3>1, <4>2, <5>1, <5>2
      <4>3. CASE RestartWorkloads /\ UNCHANGED view
        <5>1. w \notin Of(script.num) => previous'[w] = previous[w]
          BY <1>1, <4>3 DEF RestartWorkloads, StartWorkloads, WorkloadTypes
        <5>2. w \in Of(script.num) => w[1] = script.num /\ script.op = "removal"
          BY <4>3 DEF Of, RestartWorkloads, At
        <5> QED
          BY <3>1, <4>3, <5>1, <5>2
      <4>4. ASSUME NEW v \in Workload, DeliverBundles(v)
            PROVE  \/ view'[w][t] \in {Missing, previous'[w][t]}
                   \/ script.op = "removal" /\ w[1] = script.num
        <5>1. CASE v = w
          BY <1>1, <3>1, <4>4, <5>1, EntryDelivered
        <5>2. CASE v # w
          BY <1>1, <3>1, <4>4, <5>2 DEF DeliverBundles, OnX509BundlesUpdate, WorkloadTypes
        <5> QED
          BY <5>1, <5>2
      <4> QED
        BY <4>1, <4>2, <4>3, <4>4, WatchSteps
    <3>4. script.op = "removal" /\ w[1] = script.num =>
            script'.op = "removal" /\ w[1] = script'.num
      <4>1. CASE UNCHANGED scriptVars
        BY <4>1 DEF scriptVars
      <4>2. CASE ScriptStep
        BY <1>1, <4>2, ScriptOrder
      <4>3. CASE script.step = "measured"
        BY <1>1, <2>1, <3>1, <4>3 DEF Watching
      <4> QED
        BY <1>1, <4>1, <4>2, <4>3, ScriptSteps DEF RunAddition, RunRotation, RunRemoval, Begin
    <3> QED
      BY <3>2, <3>3, <3>4
  <2> QED
    BY <1>1, <2>2, <2>3, EntriesFrom
<1>3. script'.op = "removal" /\ script'.step \in {"poll", "measured"} =>
        \A w \in Of(script'.num) : entry'[w] = {}
  <2>1. ASSUME script.op = "removal", script'.op = "removal", script'.num = script.num,
               \A w \in Of(script.num) : entry[w] = {}
        PROVE  \A w \in Of(script'.num) : entry'[w] = {}
    <3>1. ~ UpdateRegistrationEntries
      BY <1>1, <2>1 DEF UpdateRegistrationEntries, Shape
    <3>2. \A w \in Workload : entry'[w] \subseteq entry[w]
      BY <1>1, <3>1, EntriesFrom
    <3> QED
      BY <2>1, <3>2 DEF Of
  <2>2. CASE UNCHANGED scriptVars
    BY <1>1, <2>1, <2>2 DEF Watching, scriptVars
  <2>3. CASE ScriptStep
    <3>1. script'.op = "removal" /\ script'.step \in {"poll", "measured"} =>
            /\ script.op = "removal" /\ script'.num = script.num
            /\ EntriesClean \/ script.step = "poll"
      BY <1>1, <2>3, ScriptOrder
    <3> QED
      BY <1>1, <2>1, <3>1 DEF EntriesClean, Watching
  <2>4. CASE RunAddition \/ RunRotation \/ RunRemoval
    BY <2>4 DEF RunAddition, RunRotation, RunRemoval, Begin
  <2> QED
    BY <1>1, <2>2, <2>3, <2>4, ScriptSteps
<1>4. \A w \in Workload : entry'[w] \subseteq Server
  BY StoreTypesNext DEF Base, Types, StoreTypes
<1>5. Of(script.num)' = Of(script'.num)
  BY DEF Of
<1> QED
  BY <1>2, <1>3, <1>4, <1>5 DEF Watching

Core == Base /\ (Running => Mesh /\ Watching)

LEMMA CoreInit == ScriptsInit => Core
<1> SUFFICES ASSUME ScriptsInit
             PROVE  Core
  OBVIOUS
<1>1. Base
  BY BaseInit
<1>2. /\ \A w \in Workload : stage[w] = "off" /\ reach[w] = 0 /\ entry[w] = {}
      /\ \A w \in Workload : \A t \in Server : view[w][t] = Missing
      /\ \A s, t \in Server : held[s][t] = Missing
      /\ meshed = {} /\ script.op = "creation"
  BY DEF ScriptsInit, WorkloadInit, NoBundles
<1>3. \A w \in Workload : ~ Joined(w[1])
  <2>1. \A n : n = 0 => ~(n > 0)
    OBVIOUS
  <2> QED
    BY <1>2, <2>1, Workloads, Zenon DEF Joined
<1>4. Mesh
  BY <1>2, <1>3 DEF Mesh
<1>5. Watching
  BY <1>2 DEF Watching
<1> QED
  BY <1>1, <1>4, <1>5 DEF Core

LEMMA CoreStutters ==
  ASSUME Core, UNCHANGED vars
  PROVE  Core'
<1>1. UNCHANGED <<stage, todo, reach, view, previous, meshed, script, own, held, entry>>
  BY DEF vars, workloadVars, processVars, logVars, scriptVars, spireVars
<1>2. Base'
  BY BaseStutters DEF Core
<1>3. Running' => Running
  BY <1>1 DEF Running
<1>4. \A s \in Server : (Joined(s)' <=> Joined(s)) /\ (Joining(s)' <=> Joining(s))
                        /\ Reach(s)' = Reach(s) /\ GetPortsForServer(s)' = GetPortsForServer(s)
  BY <1>1 DEF Joined, Joining, Reach, GetPortsForServer
<1>5. \A w \in Workload : w[1] \in Server
  BY Workloads
<1>6. ASSUME Mesh
      PROVE  Mesh'
  <2>1. \A s, t \in Server : Joining(s)' /\ s # t => held'[s][t] \in {Missing, own'[t]}
    BY <1>1, <1>4, <1>6 DEF Mesh
  <2>2. \A w \in Workload : \A t \in Server : Joining(w[1])' =>
          /\ view'[w][t] \in {Missing, own'[t]} /\ (view'[w][t] # Missing => t \in entry'[w])
          /\ Near /\ t \in (1..Reach(w[1])) \ {w[1]} =>
               /\ stage'[w] = "external" =>
                    GetPortsForServer(t) \subseteq todo'[w] \/ view'[w][t] # Missing
               /\ stage'[w] = "idle" => view'[w][t] # Missing
    BY <1>1, <1>4, <1>5, <1>6 DEF Mesh
  <2>3. \A w \in Workload :
          /\ w \in meshed' => Joined(w[1])' /\ stage'[w] \notin {"internal", "external"}
          /\ Joined(w[1])' /\ w \notin meshed' => Joining(w[1])' /\ script'.step # "measured"
    BY <1>1, <1>4, <1>5, <1>6 DEF Mesh
  <2> QED
    BY <1>4, <1>5, <2>1, <2>2, <2>3 DEF Mesh
<1>7. Watching => Watching'
  BY <1>1 DEF Watching, Of
<1> QED
  BY <1>2, <1>3, <1>6, <1>7 DEF Core

LEMMA CoreNext ==
  ASSUME Core, Next
  PROVE  Core'
<1>1. Base'
  BY BaseNext DEF Core
<1>2. ASSUME Running'
      PROVE  Mesh' /\ Watching'
  BY <1>2, MeshNext, WatchingNext DEF Core
<1> QED
  BY <1>1, <1>2 DEF Core

\* The inductive invariant of the mesh and of the bundle watchers: types, what
\* trails what, where the scripts are, what stores, entries and queues may hold,
\* what a dialling workload has verified and what a watcher remembers.
THEOREM CoreInvariance == Spec => []Core
<1>1. ScriptsInit => Core
  BY CoreInit
<1>2. Core /\ [Next]_vars => Core'
  BY CoreNext, CoreStutters
<1> QED
  BY <1>1, <1>2, PTL DEF Spec

-----------------------------------------------------------------------------
(* Ports too far apart                                                     *)

\* Where main.go starts more than two ports below set_up_cluster.sh, nobody
\* listens on the first port that is dialled for server 1: no other server's
\* workload gets through its mesh.
Apart ==
  /\ script.op \in {"creation", "addition"}
  /\ script.step = "measured" => script.op = "creation" /\ Founders = 1
  /\ \A w \in Workload : w[1] # 1 =>
       /\ w \notin meshed
       /\ stage[w] = "external" => DialBase \in todo[w]

LEMMA NobodyListens ==
  ASSUME ~ Near, NEW w \in Workload
  PROVE  ~ Dials(w, DialBase)
<1>1. DialBase \in Nat /\ ListenBase \in Nat /\ DialBase < ListenBase - 2
  BY Numbers DEF Near
<1>2. ASSUME NEW s \in Server
      PROVE  ~ Listens(s, DialBase)
  <2>1. s \in Nat /\ s >= 1
    BY Numbers DEF Server
  <2>2. DialBase \notin SpirePorts(s)
    BY <1>1, <2>1 DEF SpirePorts
  <2>3. \A v \in Of(s) : DialBase # Port(v)
    <3> TAKE v \in Of(s)
    <3>1. v[1] = s /\ v[2] \in Nat
      BY Workloads
    <3> QED
      BY <1>1, <2>1, <3>1 DEF Port
  <2> QED
    BY <2>2, <2>3 DEF Listens
<1> QED
  BY <1>2 DEF Dials

LEMMA ApartMeshes ==
  ASSUME ~ Near, Base, Running, Apart, Next, Running', NEW w \in Workload, w[1] # 1
  PROVE  w \notin meshed' /\ (stage'[w] = "external" => DialBase \in todo'[w])
<1>1. WorkloadTypes /\ ScriptTypes /\ Shape /\ Ups
  BY DEF Base, Types
<1>2. w \notin meshed /\ (stage[w] = "external" => DialBase \in todo[w])
  BY DEF Apart
<1>3. CASE SetupNClusters
  BY <1>2, <1>3 DEF SetupNClusters, logVars
<1>4. CASE SetupNewCluster
  <2>1. w \in Of(script.num) => stage'[w] = "internal"
    BY <1>4, Zenon DEF SetupNewCluster, StartWorkloads, Of
  <2>2. w \notin Of(script.num) => stage'[w] = stage[w] /\ todo'[w] = todo[w]
    BY <1>4 DEF SetupNewCluster, StartWorkloads
  <2>3. UNCHANGED meshed
    BY <1>4 DEF SetupNewCluster, logVars
  <2> QED
    BY <1>2, <2>1, <2>2, <2>3
<1>5. ~ KillForRestart /\ ~ RestartWorkloads
  BY DEF Apart, KillForRestart, RestartWorkloads, At
<1>6. ASSUME NEW v \in Workload, InternalDone(v)
      PROVE  w \notin meshed' /\ (stage'[w] = "external" => DialBase \in todo'[w])
  <2>1. UNCHANGED meshed
    BY <1>6 DEF InternalDone, logVars
  <2>2. CASE v # w
    <3>1. stage'[w] = stage[w] /\ todo'[w] = todo[w]
      BY <1>1, <1>6, <2>2 DEF InternalDone, WorkloadTypes
    <3> QED
      BY <1>2, <2>1, <3>1
  <2>3. CASE v = w
    <3>1. stage[w] # "off" /\ todo'[w] = GenerateExternalPorts(w[1], reach[w])
      BY <1>1, <1>6, <2>3 DEF InternalDone, WorkloadTypes
    <3>2. reach[w] # 0 /\ reach[w] \in 0..MaxServer
      BY <1>1, <3>1 DEF Ups, WorkloadTypes
    <3>6. 1 \in 1..reach[w]
      BY <3>2, Numbers
    <3>3. 1 \in (1..reach[w]) \ {w[1]} /\ w[1] \in Server
      BY <3>6, Workloads
    <3>4. DialBase \in GetPortsForServer(1)
      BY Numbers DEF GetPortsForServer
    <3>5. GetPortsForServer(1) \subseteq GenerateExternalPorts(w[1], reach[w])
      BY <3>2, <3>3, ExternalPorts
    <3> QED
      BY <1>2, <2>1, <3>1, <3>4, <3>5
  <2> QED
    BY <2>2, <2>3
<1>7. ASSUME NEW v \in Workload, MeshDone(v)
      PROVE  w \notin meshed' /\ (stage'[w] = "external" => DialBase \in todo'[w])
  <2>1. v # w
    BY <1>2, <1>7 DEF MeshDone
  <2>2. stage'[w] = stage[w] /\ todo'[w] = todo[w] /\ (w \in meshed' => w \in meshed)
    BY <1>1, <1>7, <2>1 DEF MeshDone, WorkloadTypes
  <2> QED
    BY <1>2, <2>2
<1>8. ASSUME NEW v \in Workload, RoundDone(v) \/ \E reached \in BOOLEAN : PeriodicSend(v, reached)
      PROVE  w \notin meshed' /\ (stage'[w] = "external" => DialBase \in todo'[w])
  <2>1. UNCHANGED meshed /\ stage[v] = "periodic"
    BY <1>8 DEF RoundDone, PeriodicSend
  <2>2. \/ stage'[w] = stage[w] /\ todo'[w] = todo[w]
        \/ v = w /\ stage'[w] \in {"periodic", "silent"}
    <3>1. CASE RoundDone(v)
      BY <1>1, <2>1, <3>1 DEF RoundDone, WorkloadTypes
    <3>2. CASE \E reached \in BOOLEAN : PeriodicSend(v, reached)
      BY <1>1, <2>1, <3>2 DEF PeriodicSend, WorkloadTypes
    <3> QED
      BY <1>8, <3>1, <3>2
  <2> QED
    BY <1>2, <2>1, <2>2
<1>9. ASSUME NEW v \in Workload, NEW p \in todo[v], Talk(v, p)
      PROVE  w \notin meshed' /\ (stage'[w] = "external" => DialBase \in todo'[w])
  <2>1. p # DialBase
    BY <1>9, NobodyListens DEF Talk
  <2>2. UNCHANGED <<stage, meshed>> /\ (DialBase \in todo[w] => DialBase \in todo'[w])
    BY <1>1, <1>9, <2>1 DEF Talk, WorkloadTypes, logVars
  <2> QED
    BY <1>2, <2>2
<1> QED
  BY <1>1, <1>2, <1>3, <1>4, <1>5, <1>6, <1>7, <1>8, <1>9, MeshSteps

LEMMA ApartNext ==
  ASSUME ~ Near, Base, Running => Apart, Next, Running'
  PROVE  Apart'
<1>1. WorkloadTypes /\ ScriptTypes /\ Running /\ Shape /\ Ups /\ Apart
  BY Living DEF Base, Types
<1>2. \A w \in Workload : w[1] # 1 =>
        w \notin meshed' /\ (stage'[w] = "external" => DialBase \in todo'[w])
  BY <1>1, ApartMeshes
<1>3. /\ script'.op \in {"creation", "addition"}
      /\ script'.step = "measured" => script'.op = "creation" /\ Founders = 1
  <2>1. CASE UNCHANGED scriptVars
    BY <1>1, <2>1 DEF Apart, scriptVars
  <2>2. CASE ScriptStep
    <3>1. script'.op = script.op /\ script.op \in {"creation", "addition"}
      BY <1>1, <2>2, ScriptMoves DEF Apart
    <3>2. script'.step = "measured" => PollUntil
      BY <1>1, <2>2, ScriptOrder DEF Apart
    <3>3. ASSUME PollUntil
          PROVE  script.op = "creation" /\ Founders = 1
      <4>1. EndReached /\ script.step = "poll"
        BY <3>3 DEF PollUntil
      <4>2. ASSUME NEW s \in Server, s # 1, Joined(s), Joining(s)
            PROVE  FALSE
        <5>1. <<s, 0>> \in Workload /\ <<s, 0>>[1] = s
          BY Workloads
        <5>2. <<s, 0>> \in meshed
          BY <1>1, <4>1, <4>2, <5>1, AllMeshed
        <5> QED
          BY <1>1, <4>2, <5>1, <5>2 DEF Apart
      <4>3. script.op # "addition"
        <5>1. CASE script.op = "addition"
          <6>1. script.num = Founders + 1 /\ script.num \in Server
            BY <1>1, <5>1 DEF Shape, ScriptTypes
          <6>2. script.num # 1
            BY <6>1, Numbers
          <6>3. Joined(script.num) /\ Joining(script.num)
            BY <1>1, <4>1, <5>1, <6>1 DEF Ups, Joining
          <6> QED
            BY <4>2, <6>1, <6>2, <6>3
        <5> QED
          BY <5>1
      <4>4. Founders # 1 => FALSE
        <5> SUFFICES ASSUME Founders # 1
                     PROVE  FALSE
          OBVIOUS
        <5>1. script.op = "creation" /\ Founders \in Server /\ Founders <= Founders
          BY <3>1, <4>3, Numbers
        <5>2. Joined(Founders) /\ Joining(Founders)
          BY <1>1, <4>1, <5>1 DEF Ups, Joining, At
        <5> QED
          BY <4>2, <5>1, <5>2
      <4> QED
        BY <3>1, <4>3, <4>4
    <3> QED
      BY <3>1, <3>2, <3>3
  <2>3. CASE RunAddition
    BY <2>3 DEF RunAddition, Begin
  <2>4. ~ RunRotation /\ ~ RunRemoval
    <3> SUFFICES ASSUME script.step = "measured", Newest > 1
                 PROVE  FALSE
      BY DEF RunRotation, RunRemoval, Begin
    <3>1. script.op = "creation" /\ Founders = 1
      BY <1>1 DEF Apart
    <3>2. Newest = 2 /\ Joined(2) /\ 2 \in Server
      BY <1>1, <3>1, NewestFacts
    <3> QED
      BY <1>1, <3>1, <3>2 DEF Ups
  <2> QED
    BY <1>1, <2>1, <2>2, <2>3, <2>4, ScriptSteps
<1> QED
  BY <1>2, <1>3 DEF Apart

LEMMA ApartInvariance == ~ Near => (Spec => [](Base /\ (Running => Apart)))
<1> SUFFICES ASSUME ~ Near
             PROVE  Spec => [](Base /\ (Running => Apart))
  OBVIOUS
<1>1. ScriptsInit => Apart
  BY DEF ScriptsInit, WorkloadInit, Apart
<1>2. Base /\ (Running => Apart) /\ [Next]_vars => (Running => Apart)'
  <2>1. Base /\ (Running => Apart) /\ Next => (Running => Apart)'
    BY ApartNext
  <2>2. (Running => Apart) /\ UNCHANGED vars => (Running => Apart)'
    BY DEF vars, workloadVars, processVars, logVars, scriptVars, Running, Apart
  <2> QED
    BY <2>1, <2>2
<1> QED
  BY <1>1, <1>2, BaseInvariance, PTL DEF Spec

\* With the first ports more than two apart, as main.go's 8085 and the 9103 of
\* set_up_cluster.sh are, no measurement of a federation of several founders is
\* ever satisfied: poll_until raises, whatever the schedule.
THEOREM FarPortsNeverMeasure ==
  ListenBase > DialBase + 2 /\ Founders > 1 => (Spec => [](script.step # "measured"))
<1> SUFFICES ASSUME ListenBase > DialBase + 2, Founders > 1
             PROVE  Spec => [](script.step # "measured")
  OBVIOUS
<1>1. ~ Near /\ Founders # 1
  BY Numbers DEF Near
<1>2. (Running => Apart) => script.step # "measured"
  BY <1>1 DEF Running, Apart
<1> QED
  BY <1>1, <1>2, ApartInvariance, PTL

-----------------------------------------------------------------------------
(* Creation and addition                                                   *)

LEMMA MeshTrusts ==
  ASSUME Core, Running, Near, script.step = "measured", NEW w \in Workload,
         Joined(w[1]), Joining(w[1]), NEW s \in (1..Reach(w[1])) \ {w[1]}, s \in Server
  PROVE  Trusts(w, s)
<1>1. StoreTypes /\ Trail /\ Mesh /\ Base
  BY DEF Core, Base, Types
<1>2. w \in meshed
  BY <1>1 DEF Mesh
<1>3. view[w][s] # Missing /\ view[w][s] = own[s]
  BY <1>1, <1>2, MeshedViews DEF Mesh
<1>4. svid[s] \in Nat /\ own[s] \in Nat /\ active[s] \in Nat /\ svid[s] <= active[s]
        /\ active[s] <= own[s]
  BY <1>1, StoreNumbers DEF Trail
<1>5. svid[s] \in 0..view[w][s]
  BY <1>3, <1>4
<1> QED
  BY <1>5 DEF Trusts, HandleConnection, Verifies

\* When measure_creation_end is satisfied, every founder's workload verifies
\* every other founder's certificates: dials were counted, yet any two can
\* connect both ways. No hypothesis on the ports: if they are too far apart for
\* a founder to be reached, the measurement of two founders is never satisfied.
THEOREM CreationMeshes == Spec => []CreationIsMutual
<1>1. Core /\ Near => CreationIsMutual
  <2> SUFFICES ASSUME Core, Near, Measured("creation"), NEW w \in Workload,
                      NEW s \in Founder \ {w[1]}, w[1] \in Founder
               PROVE  Trusts(w, s)
    BY DEF CreationIsMutual
  <2>1. /\ Running /\ script.op = "creation" /\ script.step = "measured"
        /\ Ups
    BY DEF Core, Base, Running, Measured
  <2>2. w[1] \in Server /\ w[1] <= Founders /\ s \in Server
    <3>1. \A f \in Founder : f \in Server /\ f <= Founders
      BY Numbers DEF Founder, Server
    <3> QED
      BY <3>1
  <2>3. Reach(w[1]) = Founders /\ s \in (1..Reach(w[1])) \ {w[1]}
    BY <2>2 DEF Reach, Founder
  <2>4. Joined(w[1]) /\ Joining(w[1])
    BY <2>1, <2>2 DEF Ups, At, Joining
  <2> QED
    BY <2>1, <2>2, <2>3, <2>4, MeshTrusts
<1>2. (Running => Apart) => CreationIsMutual
  <2> SUFFICES ASSUME Apart, Measured("creation"), NEW w \in Workload,
                      NEW s \in Founder \ {w[1]}, w[1] \in Founder
               PROVE  FALSE
    BY DEF CreationIsMutual, Measured, Running
  <2>1. Founders = 1
    BY DEF Apart, Measured
  <2> QED
    BY <2>1 DEF Founder
<1>3. Near => (Spec => []CreationIsMutual)
  <2> SUFFICES ASSUME Near
               PROVE  Spec => []CreationIsMutual
    OBVIOUS
  <2>1. Core => CreationIsMutual
    BY <1>1
  <2> QED
    BY <2>1, CoreInvariance, PTL
<1>4. ~ Near => (Spec => []CreationIsMutual)
  <2> SUFFICES ASSUME ~ Near
               PROVE  Spec => []CreationIsMutual
    OBVIOUS
  <2>1. Base /\ (Running => Apart) => CreationIsMutual
    BY <1>2
  <2>2. Spec => [](Base /\ (Running => Apart))
    BY ApartInvariance
  <2> QED
    BY <2>1, <2>2, PTL
<1> QED
  BY <1>3, <1>4

\* When measure_addition_end is satisfied, the new server's workloads verify
\* every founder's certificates, whatever the port numbers.
THEOREM AdditionsReachAll == Spec => []AdditionReachesAll
<1>1. Core /\ Near => AdditionReachesAll
  <2> SUFFICES ASSUME Core, Near, Measured("addition"), NEW s \in Founder
               PROVE  \A v \in Of(script.num) : Trusts(v, s)
    BY DEF AdditionReachesAll
  <2>1. /\ Running /\ script.op = "addition" /\ script.step = "measured"
        /\ Ups /\ Stores /\ StoreTypes /\ WorkloadTypes /\ ScriptTypes
        /\ script.num = Founders + 1 /\ script.num \in Server
    BY DEF Core, Base, Types, Running, Measured, Shape, ScriptTypes
  <2>2. s \in Server /\ s \in 1..Founders
    BY Numbers DEF Founder, Server
  <2>3. ASSUME NEW v \in Of(script.num)
        PROVE  Trusts(v, s)
    <3>1. v \in Workload /\ v[1] = script.num
      BY <2>1, Workloads
    <3>2. Joined(v[1]) /\ Joining(v[1])
      BY <2>1, <3>1 DEF Ups, Joining
    <3>3. s \in (1..Reach(v[1])) \ {v[1]}
      <4>1. Reach(v[1]) = Founders + 1 /\ v[1] = Founders + 1
        BY <2>1, <3>1, Numbers DEF Reach
      <4> QED
        BY <2>2, <4>1, Numbers
    <3> QED
      BY <2>1, <2>2, <3>1, <3>2, <3>3, MeshTrusts
  <2> QED
    BY <2>3
<1>2. (Running => Apart) => AdditionReachesAll
  BY DEF AdditionReachesAll, Apart, Measured, Running
<1>3. Near => (Spec => []AdditionReachesAll)
  <2> SUFFICES ASSUME Near
               PROVE  Spec => []AdditionReachesAll
    OBVIOUS
  <2>1. Core => AdditionReachesAll
    BY <1>1
  <2> QED
    BY <2>1, CoreInvariance, PTL
<1>4. ~ Near => (Spec => []AdditionReachesAll)
  <2> SUFFICES ASSUME ~ Near
               PROVE  Spec => []AdditionReachesAll
    OBVIOUS
  <2>1. Base /\ (Running => Apart) => AdditionReachesAll
    BY <1>2
  <2>2. Spec => [](Base /\ (Running => Apart))
    BY ApartInvariance
  <2> QED
    BY <2>1, <2>2, PTL
<1> QED
  BY <1>3, <1>4

\* That does not make the trust mutual, as measure_addition_end.py has it: then
\* no founder's workload verifies the new server, since the registration entries
\* of the founders still leave the new server out.
THEOREM AdditionsMeshOneWay == Spec => []AdditionIsOneWay
<1>1. Core => AdditionIsOneWay
  <2> SUFFICES ASSUME Core, Measured("addition"), NEW w \in Workload, w[1] \in Founder
               PROVE  ~ Trusts(w, script.num)
    BY DEF AdditionIsOneWay
  <2>1. /\ Running /\ script.op = "addition" /\ script.step = "measured"
        /\ Ups /\ Stores /\ StoreTypes /\ WorkloadTypes /\ ScriptTypes
        /\ script.num = Founders + 1 /\ script.num \in Server
    BY DEF Core, Base, Types, Running, Measured, Shape, ScriptTypes
  <2>2. w[1] \in Server /\ w[1] \in 1..Founders /\ w[1] <= Founders /\ Founders \in Nat
    <3>1. \A f \in Founder : f \in 1..Founders /\ f <= Founders
      BY Numbers DEF Founder
    <3>2. w[1] \in Server
      BY Workloads
    <3> QED
      BY <3>1, <3>2, Numbers
  <2>4. view[w][script.num] = Missing
    <3>1. script.num \notin federated[w[1]]
      <4>1. Reach(w[1]) = Founders
        BY <2>2 DEF Reach
      <4>2. script.num \notin 1..Founders
        BY <2>1, Numbers
      <4> QED
        BY <2>1, <2>2, <4>1, <4>2 DEF Stores
    <3>2. w \in Of(w[1])
      BY Workloads
    <3>3. \A t \in Server :
            {view[w][t], previous[w][t]} # {Missing} => t \in federated[w[1]]
      BY <2>1, <2>2, <3>2, Zenon DEF Stores
    <3>4. {view[w][script.num], previous[w][script.num]} = {Missing}
      BY <2>1, <3>1, <3>3
    <3> QED
      BY <3>4
  <2>5. script.num # w[1] /\ svid[script.num] \in Nat
    <3>1. script.num \notin 1..Founders
      BY <2>1, Numbers
    <3> QED
      BY <2>1, <2>2, <3>1, StoreNumbers
  <2>6. svid[script.num] \notin 0..view[w][script.num]
    BY <2>4, <2>5 DEF Missing
  <2> QED
    BY <2>5, <2>6 DEF Trusts, HandleConnection, Verifies
<1> QED
  BY <1>1, CoreInvariance, PTL

-----------------------------------------------------------------------------
(* What the markers of a rotation and of a removal say of the stores       *)

\* What handling one event does, given what the queues may hold.
LEMMA Handled ==
  ASSUME Base, Running, NEW i \in Server, HandleEvent(i)
  PROVE  \E t \in Server :
           \/ UNCHANGED <<held, entry, applied, deleted>>
           \/ /\ published[t] # Missing /\ UNCHANGED <<entry, deleted>>
              /\ \A s, u \in Server :
                   held'[s][u] = IF s = i /\ u = t THEN published[t] ELSE held[s][u]
              /\ applied' = applied \cup {<<i, t>>}
           \/ /\ published[t] = Missing /\ held[i][t] # Missing /\ UNCHANGED applied
              /\ \A s, u \in Server :
                   held'[s][u] = IF s = i /\ u = t THEN Missing ELSE held[s][u]
              /\ entry' = [w \in Workload |-> IF w[1] = i THEN entry[w] \ {t} ELSE entry[w]]
              /\ deleted' = deleted \cup {<<i, t>>}
<1> DEFINE e == Head(events[i])
<1>1. ListenerTypes /\ Ledger
  BY DEF Base, Types
<1>2. events[i] # <<>>
  BY DEF HandleEvent
<1>3. e.server \in Server /\ 1 \in DOMAIN events[i] /\ e = events[i][1]
  BY <1>1, <1>2, EventTyped
<1>4. e.type = "bundle_deleted" => published[e.server] = Missing
  BY <1>1, <1>3 DEF Ledger
<1> DEFINE t == e.server
<1>5. \/ UNCHANGED <<held, entry, applied, deleted>>
      \/ /\ published[t] # Missing /\ UNCHANGED <<entry, deleted>>
         /\ held' = [held EXCEPT ![i][t] = published[t]]
         /\ applied' = applied \cup {<<i, t>>}
      \/ /\ published[t] = Missing /\ held[i][t] # Missing /\ UNCHANGED applied
         /\ held' = [held EXCEPT ![i][t] = Missing]
         /\ entry' = [w \in Workload |-> IF w[1] = i THEN entry[w] \ {t} ELSE entry[w]]
         /\ deleted' = deleted \cup {<<i, t>>}
  BY <1>3, <1>4 DEF HandleEvent, Dissociate
<1>6. t \in Server
  BY <1>3
<1> HIDE DEF t
<1>7. StoreTypes
  BY DEF Base, Types
<1>8. CASE UNCHANGED <<held, entry, applied, deleted>>
  BY <1>6, <1>8
<1>9. ASSUME NEW x, held' = [held EXCEPT ![i][t] = x]
      PROVE  \A s, u \in Server : held'[s][u] = IF s = i /\ u = t THEN x ELSE held[s][u]
  BY <1>6, <1>7, <1>9 DEF StoreTypes
<1> QED
  BY <1>5, <1>6, <1>8, <1>9

LEMMA ArrivedNext ==
  ASSUME Core, Running => Arrived, Next, Running'
  PROVE  Arrived'
<1>1. WorkloadTypes /\ ScriptTypes /\ StoreTypes /\ ListenerTypes /\ Running /\ Shape /\ Ups /\ Stores
        /\ Ledger /\ Base /\ Arrived
  BY Living DEF Core, Base, Types
<1>2. ASSUME script.op = "rotation", script.step \in {"poll", "measured"},
             UNCHANGED script \/ (PollUntil /\ script' = [script EXCEPT !.step = "measured"])
      PROVE  Arrived'
  <2> DEFINE num == script.num
  <2>1. num \in Server /\ script'.num = num /\ script'.count = script.count
    BY <1>1, <1>2 DEF ScriptTypes
  <2>2. published[num] = own[num]
    BY <1>1, <1>2, <2>1 DEF Ledger
  <2>3. UNCHANGED own /\ ~ RecordEventFired /\ ~ FetchBundles
    <3>1. ~ PrepareX509Authority /\ ~ RecordEventFired /\ ~ FetchBundles
      BY <1>2 DEF PrepareX509Authority, RecordEventFired, FetchBundles, At
    <3> QED
      BY <3>1, SpireSteps
  <2> HIDE DEF num
  <2>4. \A s \in Server : <<s, num>> \in applied => held[s][num] = own[num]
    BY <1>1, <1>2 DEF Arrived, num
  <2>5. ASSUME NEW i \in Server, HandleEvent(i)
        PROVE  /\ \A s \in Server : <<s, num>> \in applied' => held'[s][num] = own[num]
               /\ applied \subseteq applied'
    <3>1. PICK t \in Server :
            \/ UNCHANGED <<held, entry, applied, deleted>>
            \/ /\ published[t] # Missing /\ UNCHANGED <<entry, deleted>>
               /\ \A s, u \in Server :
                    held'[s][u] = IF s = i /\ u = t THEN published[t] ELSE held[s][u]
               /\ applied' = applied \cup {<<i, t>>}
            \/ /\ published[t] = Missing /\ held[i][t] # Missing /\ UNCHANGED applied
               /\ \A s, u \in Server :
                    held'[s][u] = IF s = i /\ u = t THEN Missing ELSE held[s][u]
               /\ entry' = [w \in Workload |-> IF w[1] = i THEN entry[w] \ {t} ELSE entry[w]]
               /\ deleted' = deleted \cup {<<i, t>>}
      BY <1>1, <2>5, Handled
    <3>2. own[num] # Missing
      BY <1>1, <2>1, StoreNumbers
    <3> QED
      BY <1>1, <2>1, <2>2, <2>4, <3>1, <3>2 DEF StoreTypes
  <2>6. ASSUME NEW i \in Server, NEW t \in Server, RefreshBundle(i, t)
        PROVE  /\ \A s \in Server : <<s, num>> \in applied' => held'[s][num] = own[num]
               /\ applied \subseteq applied'
    <3>1. UNCHANGED applied /\ held' = [held EXCEPT ![i][t] = own[t]]
      BY <2>6 DEF RefreshBundle, listenerVars
    <3> QED
      BY <1>1, <2>1, <2>4, <3>1 DEF StoreTypes
  <2>8. /\ \A s \in Server : <<s, num>> \in applied' => held'[s][num] = own[num]
        /\ applied \subseteq applied'
    <3>1. CASE \E i \in Server : HandleEvent(i) \/ \E t \in Server : RefreshBundle(i, t)
      BY <2>5, <2>6, <3>1
    <3>2. CASE ~ \E i \in Server : HandleEvent(i) \/ \E t \in Server : RefreshBundle(i, t)
      <4>1. UNCHANGED held
        BY <2>3, <3>2, SpireSteps DEF UpdateRegistrationEntries, CleanLocalEntry
      <4>2. UNCHANGED applied
        BY <2>3, <3>2, ListenerSteps
      <4> QED
        BY <2>4, <4>1, <4>2
    <3> QED
      BY <3>1, <3>2
  <2>9. PollUntil => Peers \X {num} \subseteq applied
    BY <1>2 DEF PollUntil, EndReached, MeasureRotationEnd, num
  <2>10. script'.step = "measured" => Peers \X {num} \subseteq applied
    BY <1>1, <1>2, <2>9 DEF Arrived, num
  <2>11. Peers' = Peers /\ script'.num = num
    BY <2>1 DEF Peers, num
  <2> QED
    BY <2>3, <2>8, <2>10, <2>11 DEF Arrived
<1>3. CASE UNCHANGED scriptVars
  BY <1>2, <1>3 DEF Arrived, scriptVars
<1>4. CASE ScriptStep
  <2>1. CASE script'.op = "rotation" /\ script'.step \in {"poll", "measured"}
    <3>1. script.op = "rotation" /\ (RecordEventFired \/ PollUntil)
      BY <1>1, <1>4, <2>1, ScriptOrder
    <3>2. CASE RecordEventFired
      <4>1. /\ script' = [script EXCEPT !.step = "poll"]
            /\ applied' = {a \in applied : a[2] # script.num}
        BY <3>2 DEF RecordEventFired, Goto
      <4>2. script'.num = script.num /\ script'.step = "poll"
        BY <1>1, <4>1 DEF ScriptTypes
      <4>3. \A s \in Server : <<s, script'.num>> \notin applied'
        BY <4>1, <4>2
      <4> QED
        BY <4>2, <4>3 DEF Arrived
    <3>3. CASE PollUntil
      BY <1>2, <3>1, <3>3 DEF PollUntil, Goto
    <3> QED
      BY <3>1, <3>2, <3>3
  <2>2. CASE ~ (script'.op = "rotation" /\ script'.step \in {"poll", "measured"})
    BY <2>2 DEF Arrived
  <2> QED
    BY <2>1, <2>2
<1>5. CASE RunAddition \/ RunRotation \/ RunRemoval
  BY <1>5 DEF RunAddition, RunRotation, RunRemoval, Begin, Arrived
<1> QED
  BY <1>1, <1>3, <1>4, <1>5, ScriptSteps

\* What removal_start leaves to be said: nothing yet.
LEMMA SilenceDeleted ==
  ASSUME Core, Running => Silence, Next, Running', script'.op = "removal",
         script'.step \in {"delete", "clean", "poll", "measured"}
  PROVE  /\ script.op = "removal" /\ script'.num = script.num
         /\ \A s \in Server : <<s, script.num>> \in deleted' =>
              /\ published'[script.num] = Missing /\ held'[s][script.num] = Missing
              /\ \A w \in Of(s) : script.num \notin entry'[w]
         /\ script.step # "record" => deleted \subseteq deleted'
<1> DEFINE num == script.num
           Told == \A s \in Server : <<s, num>> \in deleted' =>
                     /\ published'[num] = Missing /\ held'[s][num] = Missing
                     /\ \A w \in Of(s) : num \notin entry'[w]
<1>1. WorkloadTypes /\ ScriptTypes /\ StoreTypes /\ ListenerTypes /\ Running /\ Shape /\ Ups /\ Stores
        /\ Ledger /\ Base /\ Silence
  BY Living DEF Core, Base, Types
<1>2. script.op = "removal" /\ script'.num = num
        /\ script.step \in {"record", "delete", "clean", "poll", "measured"}
        /\ (script.step = "record" => RecordRemovalStart)
  <2>1. CASE UNCHANGED scriptVars
    BY <2>1 DEF scriptVars
  <2>2. CASE ScriptStep
    BY <1>1, <2>2, ScriptOrder
  <2>3. ~ RunAddition /\ ~ RunRotation /\ ~ RunRemoval
    BY DEF RunAddition, RunRotation, RunRemoval, Begin
  <2> QED
    <3>1. CASE UNCHANGED scriptVars /\ script.step = "record"
      BY <3>1 DEF scriptVars
    <3> QED
      BY <1>1, <2>1, <2>2, <2>3, <3>1, ScriptSteps
<1>3. num \in Server
  BY <1>1 DEF ScriptTypes
<1>4. CASE RecordRemovalStart
  BY <1>2, <1>4 DEF RecordRemovalStart, At
<1>5. CASE ~ RecordRemovalStart
  <2>1. \A s \in Server : <<s, num>> \in deleted =>
          /\ published[num] = Missing /\ held[s][num] = Missing
          /\ \A w \in Of(s) : num \notin entry[w]
    BY <1>1, <1>2, <1>5 DEF Silence
  <2>2. published[num] = Missing => published'[num] = Missing
    <3>1. ~ PostBundles /\ ~ PutBundle
      BY <1>1, <1>2 DEF PostBundles, PutBundle, At, Shape
    <3> QED
      BY <1>1, <1>3, <3>1, SpireSteps DEF DeleteBundle, StoreTypes
  <2>3. ~ FetchBundles /\ ~ UpdateRegistrationEntries
    BY <1>1, <1>2 DEF FetchBundles, UpdateRegistrationEntries, Shape
  <2> HIDE DEF num
  <2>4. ASSUME NEW i \in Server, HandleEvent(i)
        PROVE  Told /\ deleted \subseteq deleted'
    <3>1. PICK t \in Server :
            \/ UNCHANGED <<held, entry, applied, deleted>>
            \/ /\ published[t] # Missing /\ UNCHANGED <<entry, deleted>>
               /\ \A s, u \in Server :
                    held'[s][u] = IF s = i /\ u = t THEN published[t] ELSE held[s][u]
               /\ applied' = applied \cup {<<i, t>>}
            \/ /\ published[t] = Missing /\ held[i][t] # Missing /\ UNCHANGED applied
               /\ \A s, u \in Server :
                    held'[s][u] = IF s = i /\ u = t THEN Missing ELSE held[s][u]
               /\ entry' = [w \in Workload |-> IF w[1] = i THEN entry[w] \ {t} ELSE entry[w]]
               /\ deleted' = deleted \cup {<<i, t>>}
      BY <1>1, <2>4, Handled
    <3>2. UNCHANGED published
      BY <2>4 DEF HandleEvent
    <3>3. \A s \in Server : \A w \in Of(s) : w \in Workload /\ w[1] = s
      BY Workloads
    <3>4. CASE UNCHANGED <<held, entry, applied, deleted>>
      BY <2>1, <3>2, <3>4
    <3>5. CASE /\ published[t] # Missing /\ UNCHANGED <<entry, deleted>>
               /\ \A s, u \in Server :
                    held'[s][u] = IF s = i /\ u = t THEN published[t] ELSE held[s][u]
      BY <1>3, <2>1, <3>2, <3>5
    <3>6. CASE /\ published[t] = Missing
               /\ \A s, u \in Server :
                    held'[s][u] = IF s = i /\ u = t THEN Missing ELSE held[s][u]
               /\ entry' = [w \in Workload |-> IF w[1] = i THEN entry[w] \ {t} ELSE entry[w]]
               /\ deleted' = deleted \cup {<<i, t>>}
      <4>1. ASSUME NEW s \in Server, <<s, num>> \in deleted'
            PROVE  \/ s = i /\ num = t
                   \/ /\ published[num] = Missing /\ held[s][num] = Missing
                      /\ \A w \in Of(s) : num \notin entry[w]
        BY <2>1, <3>6, <4>1
      <4>2. \A s \in Server : \A w \in Of(s) :
              entry'[w] = IF s = i THEN entry[w] \ {t} ELSE entry[w]
        BY <3>3, <3>6
      <4>3. ASSUME NEW s \in Server, <<s, num>> \in deleted'
            PROVE  /\ published'[num] = Missing /\ held'[s][num] = Missing
                   /\ \A w \in Of(s) : num \notin entry'[w]
        <5>1. ASSUME s = i, num = t
              PROVE  /\ published'[num] = Missing /\ held'[s][num] = Missing
                     /\ \A w \in Of(s) : num \notin entry'[w]
          <6>1. published'[num] = Missing /\ held'[s][num] = Missing
            BY <1>3, <3>2, <3>6, <5>1
          <6>2. \A w \in Of(s) : num \notin entry'[w]
            BY <4>2, <5>1
          <6> QED
            BY <6>1, <6>2
        <5>2. ASSUME published[num] = Missing, held[s][num] = Missing,
                     \A w \in Of(s) : num \notin entry[w]
              PROVE  /\ published'[num] = Missing /\ held'[s][num] = Missing
                     /\ \A w \in Of(s) : num \notin entry'[w]
          <6>1. published'[num] = Missing /\ held'[s][num] = Missing
            BY <1>3, <3>2, <3>6, <5>2
          <6>2. \A w \in Of(s) : num \notin entry'[w]
            BY <4>2, <5>2
          <6> QED
            BY <6>1, <6>2
        <5> QED
          BY <4>1, <4>3, <5>1, <5>2
      <4> QED
        BY <3>6, <4>3
    <3> QED
      BY <3>1, <3>4, <3>5, <3>6
  <2>5. ASSUME NEW i \in Server, NEW t \in Server, RefreshBundle(i, t)
        PROVE  Told /\ deleted \subseteq deleted'
    <3>1. UNCHANGED <<deleted, published, entry>> /\ held' = [held EXCEPT ![i][t] = own[t]]
            /\ svid[t] \in 0..held[i][t]
      BY <2>5 DEF RefreshBundle, listenerVars
    <3>2. held[i][t] # Missing
      BY <3>1 DEF Missing
    <3> QED
      BY <1>1, <1>3, <2>1, <3>1, <3>2 DEF StoreTypes
  <2>6. ASSUME ~ \E i \in Server : HandleEvent(i) \/ \E t \in Server : RefreshBundle(i, t)
        PROVE  Told /\ deleted \subseteq deleted'
    <3>1. UNCHANGED held
      BY <2>3, <2>6, SpireSteps DEF CleanLocalEntry
    <3>2. UNCHANGED deleted
      BY <1>5, <2>6, ListenerSteps
    <3>3. \A w \in Workload : entry'[w] \subseteq entry[w]
      BY <1>1, <2>3, EntriesFrom
    <3>4. \A s \in Server : \A w \in Of(s) : w \in Workload
      BY Workloads
    <3> QED
      BY <2>1, <2>2, <3>1, <3>2, <3>3, <3>4
  <2> HIDE DEF Told
  <2>7. Told /\ deleted \subseteq deleted'
    BY <2>4, <2>5, <2>6
  <2> QED
    BY <1>2, <2>7 DEF Told, num
<1> QED
  BY <1>4, <1>5

LEMMA SilentSteps ==
  ASSUME Next
  PROVE  UNCHANGED silent \/ \E w \in Workload : RoundDone(w) /\ UNCHANGED scriptVars
<1> USE DEF workloadVars, processVars, logVars
<1>1. CASE ScriptStep
  BY <1>1 DEF ScriptStep, SetupNClusters, SetupNewCluster, StartListeners, PostBundles, PutBundle,
     FetchBundles, CreateFederations, UpdateRegistrationEntries, EntryRefused, PrepareX509Authority,
     ActivateX509Authority, RecordEventFired, KillForRestart, RestartWorkloads, RecordRemovalStart,
     DeleteBundle, CleanLocalEntry, EntriesClean, PollUntil
<1>2. CASE CommandFails \/ PollTimesOut \/ RunAddition \/ RunRotation \/ RunRemoval
  BY <1>2 DEF CommandFails, PollTimesOut, RunAddition, RunRotation, RunRemoval, Begin
<1>3. ASSUME NEW s \in Server, Subscribe(s) \/ HandleEvent(s) \/ HandlerFails(s) \/ RenewSvids(s)
      PROVE  UNCHANGED silent
  BY <1>3 DEF Subscribe, HandleEvent, HandlerFails, RenewSvids
<1>4. ASSUME NEW s \in Server, NEW t \in Server, RefreshBundle(s, t)
      PROVE  UNCHANGED silent
  BY <1>4 DEF RefreshBundle
<1>5. ASSUME NEW w \in Workload, DeliverBundles(w)
      PROVE  UNCHANGED silent
  BY <1>5 DEF DeliverBundles, OnX509BundlesUpdate
<1>6. ASSUME NEW w \in Workload, Works(w)
      PROVE  UNCHANGED silent \/ (RoundDone(w) /\ UNCHANGED scriptVars)
  BY <1>6 DEF Works, ByItself, SendsBy, Talk, InternalDone, MeshDone, TalkAgain, TalkedAgain,
     CommunicatedAgain, PeriodicSend
<1> QED
  BY <1>1, <1>2, <1>3, <1>4, <1>5, <1>6, Steps

\* A removed server's workloads end their sends for good, and only a removal
\* makes a workload send.
LEMMA SilenceStages ==
  ASSUME Core, Running => Silence, Next, Running', NEW w \in Workload
  PROVE  /\ w \in silent' => stage'[w] = "silent"
         /\ stage'[w] \in {"periodic", "silent"} =>
              \/ stage[w] \in {"periodic", "silent"}
              \/ RestartWorkloads /\ w[1] = script.num
         /\ w \in silent => stage[w] = "silent" /\ stage'[w] = "silent" /\ w \in silent'
<1>1. WorkloadTypes /\ ScriptTypes /\ StoreTypes /\ Running /\ Shape /\ Ups /\ Ledger /\ Silence
  BY Living DEF Core, Base, Types
<1>2. w[1] \in Server /\ w \in Of(w[1])
  BY Workloads
<1>3. w \in silent => stage[w] = "silent"
  BY <1>1 DEF Silence
<1>4. (UNCHANGED silent \/ \E v \in Workload : RoundDone(v)) /\ silent \subseteq silent'
  BY SilentSteps DEF RoundDone
<1>5. CASE UNCHANGED <<stage, reach>>
  <2>1. ASSUME NEW v \in Workload, RoundDone(v)
        PROVE  silent' = silent \/ (silent' = silent \cup {v} /\ stage'[v] = "silent")
    BY <1>1, <2>1 DEF RoundDone, WorkloadTypes
  <2> QED
    BY <1>3, <1>4, <1>5, <2>1
<1>6. ASSUME NEW v \in Workload, InternalDone(v) \/ MeshDone(v) \/ RoundDone(v)
      PROVE  /\ w \in silent' => stage'[w] = "silent"
             /\ stage'[w] \in {"periodic", "silent"} => stage[w] \in {"periodic", "silent"}
             /\ w \in silent => stage'[w] = "silent"
  <2>1. CASE InternalDone(v)
    <3>1. silent' = silent /\ stage[v] = "internal" /\ stage' = [stage EXCEPT ![v] = "external"]
      BY <2>1 DEF InternalDone, logVars
    <3> QED
      BY <1>1, <1>3, <3>1 DEF WorkloadTypes
  <2>2. CASE MeshDone(v)
    <3>1. silent' = silent /\ stage[v] = "external" /\ stage' = [stage EXCEPT ![v] = "idle"]
      BY <2>2 DEF MeshDone
    <3> QED
      BY <1>1, <1>3, <3>1 DEF WorkloadTypes
  <2>3. CASE RoundDone(v)
    <3>1. /\ stage[v] = "periodic"
          /\ \/ stage' = [stage EXCEPT ![v] = "silent"] /\ silent' = silent \cup {v}
             \/ UNCHANGED <<stage, silent>>
      BY <2>3 DEF RoundDone
    <3> QED
      BY <1>1, <1>3, <3>1 DEF WorkloadTypes
  <2> QED
    BY <1>6, <2>1, <2>2, <2>3
<1>7. CASE SetupNClusters
  <2>1. At("creation", "clusters") /\ silent' = silent
          /\ stage'[w] \in {"internal", stage[w]}
    BY <1>7 DEF SetupNClusters, logVars
  <2>2. ~ Joined(w[1])
    <3>1. \A s \in Server : s <= Founders \/ s > Founders
      BY Numbers
    <3>2. \A s \in Server : ~ Joined(s)
      BY <1>1, <2>1, <3>1, Zenon DEF Ups, At
    <3> QED
      BY <1>2, <3>2
  <2>3. stage[w] = "off"
    BY <1>1, <2>2, ReachFacts
  <2> QED
    BY <1>3, <2>1, <2>3
<1>8. CASE SetupNewCluster
  <2>1. At("addition", "clusters") /\ silent' = silent
          /\ stage'[w] = IF w \notin Of(script.num) THEN stage[w] ELSE "internal"
    BY <1>8 DEF SetupNewCluster, StartWorkloads, logVars
  <2>2. w \in Of(script.num) => stage[w] = "off"
    <3>1. script.num \in Server /\ script.num > Founders
      BY <1>1, <2>1, Numbers DEF Shape, ScriptTypes, At
    <3>2. ~ Joined(script.num)
      BY <1>1, <2>1, <3>1 DEF Ups, At
    <3> QED
      BY <1>1, <3>1, <3>2, Workloads, ReachFacts
  <2> QED
    BY <1>3, <2>1, <2>2
<1>9. CASE KillForRestart
  <2>1. At("removal", "kill") /\ silent' = silent
          /\ stage'[w] = IF w[1] = script.num THEN "off" ELSE stage[w]
    BY <1>9 DEF KillForRestart, KillWorkloads, logVars
  <2>2. w[1] = script.num => stage[w] \notin {"periodic", "silent"}
    BY <1>1, <1>2, <2>1 DEF Silence, Ledger, At
  <2> QED
    BY <1>3, <2>1, <2>2
<1>10. CASE RestartWorkloads
  <2>1. At("removal", "respawn") /\ silent' = silent
          /\ stage'[w] = IF w \notin Of(script.num) THEN stage[w] ELSE "periodic"
    BY <1>10 DEF RestartWorkloads, StartWorkloads, logVars
  <2>2. w \in Of(script.num) => stage[w] = "off" /\ w[1] = script.num
    BY <1>1, <2>1, Workloads DEF Ups, ScriptTypes
  <2> QED
    BY <1>3, <1>10, <2>1, <2>2
<1> QED
  BY <1>3, <1>4, <1>5, <1>6, <1>7, <1>8, <1>9, <1>10, StageSteps

LEMMA SilenceNext ==
  ASSUME Core, Running => Silence, Next, Running'
  PROVE  Silence'
<1>1. WorkloadTypes /\ ScriptTypes /\ StoreTypes /\ Running /\ Shape /\ Ups /\ Ledger /\ Silence
  BY Living DEF Core, Base, Types
<1>2. ASSUME script'.op = "removal", script'.step \in {"delete", "clean", "poll", "measured"}
      PROVE  \A s \in Server : <<s, script'.num>> \in deleted' =>
               /\ published'[script'.num] = Missing /\ held'[s][script'.num] = Missing
               /\ \A w \in Of(s) : script'.num \notin entry'[w]
  BY <1>2, SilenceDeleted
<1>3. ASSUME Measured("removal")'
      PROVE  Peers' \X {script'.num} \subseteq deleted' /\ Of(script'.num) \subseteq silent'
  <2>1. script'.op = "removal" /\ script'.step = "measured"
    BY <1>3 DEF Measured
  <2>2. script.op = "removal" /\ script'.num = script.num
          /\ (script.step # "record" => deleted \subseteq deleted')
    BY <2>1, SilenceDeleted
  <2>3. silent \subseteq silent'
    BY SilentSteps DEF RoundDone
  <2>4. \/ UNCHANGED scriptVars
        \/ ScriptStep
    BY <1>1, <2>1, ScriptSteps DEF RunAddition, RunRotation, RunRemoval, Begin
  <2>5. CASE UNCHANGED scriptVars
    <3>1. Measured("removal") /\ script'.count = script.count /\ script.step # "record"
      BY <2>1, <2>5 DEF Measured, scriptVars
    <3>2. Peers' = Peers
      BY <2>2, <3>1 DEF Peers
    <3> QED
      BY <1>1, <2>2, <2>3, <3>1, <3>2 DEF Silence
  <2>6. CASE ScriptStep
    <3>1. PollUntil /\ script'.count = script.count /\ script.step = "poll"
      BY <1>1, <2>1, <2>2, <2>6, ScriptOrder
    <3>2. MeasureRemovalEnd
      BY <2>2, <3>1 DEF PollUntil, EndReached
    <3>3. Peers' = Peers
      BY <2>2, <3>1 DEF Peers
    <3> QED
      BY <2>2, <2>3, <3>1, <3>2, <3>3 DEF MeasureRemovalEnd
  <2> QED
    BY <2>4, <2>5, <2>6
<1>4. \A w \in silent' : stage'[w] = "silent"
  <2>1. silent' \subseteq Workload
    BY WorkloadTypesNext, <1>1 DEF WorkloadTypes
  <2> QED
    BY <2>1, SilenceStages
<1>5. ASSUME NEW w \in Workload, stage'[w] \in {"periodic", "silent"}
      PROVE  \/ published'[w[1]] = Missing
             \/ script'.op = "removal" /\ script'.num = w[1] /\ script'.step \in {"record", "delete"}
  <2>1. \/ stage[w] \in {"periodic", "silent"}
        \/ RestartWorkloads /\ w[1] = script.num
    BY <1>5, SilenceStages
  <2>2. w[1] \in Server
    BY Workloads
  <2>3. CASE RestartWorkloads /\ w[1] = script.num
    <3>1. script' = [script EXCEPT !.step = "record"] /\ script.op = "removal"
      BY <2>3 DEF RestartWorkloads, At, Goto
    <3> QED
      BY <1>1, <2>3, <3>1 DEF ScriptTypes
  <2>4. CASE stage[w] \in {"periodic", "silent"}
    <3>1. \/ published[w[1]] = Missing
          \/ script.op = "removal" /\ script.num = w[1] /\ script.step \in {"record", "delete"}
      BY <1>1, <2>4 DEF Silence
    <3>2. ~ Joining(w[1])
      BY <1>1, <2>4 DEF Ups
    <3>3. CASE published[w[1]] = Missing
      <4>1. PostBundles => published' = published
        BY <3>2 DEF PostBundles, At, Joining
      <4>2. PutBundle => published'[w[1]] = Missing
        <5>1. ASSUME PutBundle
              PROVE  w[1] # script.num
          <6>1. script.op \in {"addition", "rotation"}
            BY <1>1, <5>1 DEF PutBundle, Shape, ScriptTypes, Script
          <6> QED
            BY <1>1, <3>2, <3>3, <6>1 DEF Joining, Ledger
        <5> QED
          BY <1>1, <3>3, <5>1 DEF PutBundle, PublishBundleForServer, StoreTypes
      <4>3. DeleteBundle => published'[w[1]] = Missing
        BY <1>1, <2>2, <3>3 DEF DeleteBundle, StoreTypes
      <4> QED
        BY <3>3, <4>1, <4>2, <4>3, SpireSteps
    <3>4. CASE script.op = "removal" /\ script.num = w[1] /\ script.step \in {"record", "delete"}
      <4>1. CASE UNCHANGED scriptVars
        BY <3>4, <4>1 DEF scriptVars
      <4>2. CASE ScriptStep
        <5>1. DeleteBundle => published'[w[1]] = Missing
          BY <1>1, <2>2, <3>4 DEF DeleteBundle, StoreTypes
        <5> QED
          BY <1>1, <3>4, <4>2, <5>1, ScriptOrder
      <4>3. ~ RunAddition /\ ~ RunRotation /\ ~ RunRemoval
        BY <3>4 DEF RunAddition, RunRotation, RunRemoval, Begin
      <4> QED
        BY <4>1, <4>2, <4>3, <1>1, ScriptSteps
    <3> QED
      BY <3>1, <3>3, <3>4
  <2> QED
    BY <2>1, <2>3, <2>4
<1> QED
  BY <1>2, <1>3, <1>4, <1>5 DEF Silence, Measured

-----------------------------------------------------------------------------
(* What the workloads do about a rotation                                  *)

\* Who starts, ends and counts the goroutines that dial again.
LEMMA AgainSteps ==
  ASSUME Next
  PROVE  \/ UNCHANGED <<again, remeshed, overlooked>>
         \/ (SetupNewCluster \/ KillForRestart \/ RestartWorkloads) /\ UNCHANGED overlooked
         \/ RecordEventFired /\ UNCHANGED <<again, overlooked>>
         \/ (RunAddition \/ RunRotation \/ RunRemoval) /\ UNCHANGED <<again, remeshed>>
         \/ \E w \in Workload : DeliverBundles(w)
         \/ \E w \in Workload : \E i \in DOMAIN again[w] :
              /\ UNCHANGED <<scriptVars, spireVars, published, listenerVars>>
              /\ \/ UNCHANGED overlooked /\ \E p \in again[w][i].todo : TalkAgain(w, i, p)
                 \/ TalkedAgain(w, i)
<1> USE DEF workloadVars, processVars, logVars
<1>1. CASE ScriptStep
  BY <1>1 DEF ScriptStep, SetupNClusters, SetupNewCluster, StartListeners, PostBundles, PutBundle,
     FetchBundles, CreateFederations, UpdateRegistrationEntries, EntryRefused, PrepareX509Authority,
     ActivateX509Authority, RecordEventFired, KillForRestart, RestartWorkloads, RecordRemovalStart,
     DeleteBundle, CleanLocalEntry, EntriesClean, PollUntil
<1>2. CASE CommandFails \/ PollTimesOut
  BY <1>2 DEF CommandFails, PollTimesOut
<1>3. CASE RunAddition \/ RunRotation \/ RunRemoval
  BY <1>3 DEF RunAddition, RunRotation, RunRemoval, Begin
<1>4. ASSUME NEW s \in Server, Subscribe(s) \/ HandleEvent(s) \/ HandlerFails(s) \/ RenewSvids(s)
      PROVE  UNCHANGED <<again, remeshed, overlooked>>
  BY <1>4 DEF Subscribe, HandleEvent, HandlerFails, RenewSvids
<1>5. ASSUME NEW s \in Server, NEW t \in Server, RefreshBundle(s, t)
      PROVE  UNCHANGED <<again, remeshed, overlooked>>
  BY <1>5 DEF RefreshBundle
<1>6. ASSUME NEW w \in Workload, Works(w)
      PROVE  \/ UNCHANGED <<again, remeshed, overlooked>>
             \/ \E i \in DOMAIN again[w] :
                  /\ UNCHANGED <<scriptVars, spireVars, published, listenerVars>>
                  /\ \/ UNCHANGED overlooked /\ \E p \in again[w][i].todo : TalkAgain(w, i, p)
                     \/ TalkedAgain(w, i)
  <2>1. CASE /\ UNCHANGED overlooked
             /\ \/ \E p \in todo[w] : Talk(w, p)
                \/ InternalDone(w) \/ MeshDone(w) \/ RoundDone(w)
                \/ SendsBy(w)
    BY <2>1 DEF SendsBy, Talk, InternalDone, MeshDone, RoundDone, PeriodicSend
  <2> QED
    BY <1>6, <2>1, WorksSteps DEF ByItself
<1> QED
  BY <1>1, <1>2, <1>3, <1>4, <1>5, <1>6, Steps

\* A dial of such a goroutine changes what it has left to dial and nothing else.
LEMMA DialledAgain ==
  ASSUME WorkloadTypes, NEW w \in Workload, NEW i \in DOMAIN again[w],
         NEW p \in again[w][i].todo, TalkAgain(w, i, p), NEW v \in Workload
  PROVE  /\ DOMAIN again'[v] = DOMAIN again[v] /\ Len(again'[v]) = Len(again[v])
         /\ \A j \in DOMAIN again[v] : again'[v][j].target = again[v][j].target
         /\ UNCHANGED <<view, previous, remeshed, meshed>>
<1>1. again[w] \in Seq(Again) /\ again[v] \in Seq(Again) /\ again[w][i] \in Again
  BY ElementOfSeq DEF WorkloadTypes
<1> DEFINE less == [again[w][i] EXCEPT !.todo = again[w][i].todo \ {p}]
<1>2. again' = [again EXCEPT ![w] = [again[w] EXCEPT ![i] = less]]
  BY DEF TalkAgain
<1>3. less.target = again[w][i].target
  BY <1>1 DEF Again
<1> HIDE DEF less
<1>4. again'[v] = IF v = w THEN [again[w] EXCEPT ![i] = less] ELSE again[v]
  BY <1>2 DEF WorkloadTypes
<1>5. UNCHANGED <<view, previous, remeshed, meshed>>
  BY DEF TalkAgain, logVars
<1> QED
  BY <1>1, <1>3, <1>4, <1>5

\* The end of such a goroutine.
LEMMA EndedAgain ==
  ASSUME WorkloadTypes, NEW w \in Workload, NEW i \in DOMAIN again[w], TalkedAgain(w, i)
  PROVE  /\ \A v \in Workload \ {w} : again'[v] = again[v] /\ remeshed'[v] = remeshed[v]
         /\ again'[w] = RemoveAt(again[w], i) /\ remeshed'[w] = remeshed[w] + 1
         /\ Len(again'[w]) = Len(again[w]) - 1 /\ remeshed'[w] > 0
         /\ \A j \in DOMAIN again[w] \ {i} :
              \E k \in DOMAIN again'[w] : again'[w][k] = again[w][j]
         /\ UNCHANGED <<view, previous, meshed>>
         /\ overlooked' = IF script.op = "rotation" /\ script.step # "poll"
                             /\ again[w][i].target = script.num
                          THEN overlooked \cup {w} ELSE overlooked
<1>1. again' = [again EXCEPT ![w] = RemoveAt(@, i)] /\ remeshed' = [remeshed EXCEPT ![w] = @ + 1]
  BY DEF TalkedAgain, CommunicatedAgain
<1>2. again'[w] = RemoveAt(again[w], i) /\ remeshed'[w] = remeshed[w] + 1 /\ remeshed[w] \in Nat
  BY <1>1 DEF WorkloadTypes
<1>3. \A v \in Workload \ {w} : again'[v] = again[v] /\ remeshed'[v] = remeshed[v]
  BY <1>1 DEF WorkloadTypes
<1>4. again[w] \in Seq(Again)
  BY DEF WorkloadTypes
<1>5. /\ Len(RemoveAt(again[w], i)) = Len(again[w]) - 1
      /\ \A j \in DOMAIN again[w] \ {i} :
           \E k \in DOMAIN RemoveAt(again[w], i) : RemoveAt(again[w], i)[k] = again[w][j]
  BY <1>4, RemoveAtFacts
<1>6. UNCHANGED <<view, previous, meshed>>
  BY DEF TalkedAgain, CommunicatedAgain
<1> QED
  BY <1>2, <1>3, <1>5, <1>6 DEF TalkedAgain

\* The start of such a goroutine, by a delivery that updates a bundle.
LEMMA DeliveredAgain ==
  ASSUME WorkloadTypes, StoreTypes, NEW w \in Workload, NEW bundles \in Deliverable(w),
         OnX509BundlesUpdate(w, bundles)
  PROVE  /\ Updated(w, bundles) \in SUBSET Server
         /\ \A i \in DOMAIN again[w] : i \in DOMAIN again'[w] /\ again'[w][i] = again[w][i]
         /\ IF Updated(w, bundles) # {} /\ Finished(w)
            THEN /\ Len(again'[w]) = Len(again[w]) + 1
                 /\ \E i \in DOMAIN again'[w] : again'[w][i].target = Max(Updated(w, bundles))
            ELSE again'[w] = again[w]
         /\ UNCHANGED <<remeshed, meshed, stage, reach>>
<1>1. again[w] \in Seq(Again)
  BY DEF WorkloadTypes
<1>2. Updated(w, bundles) \in SUBSET Server
  <2>1. reach[w] \in 0..MaxServer
    BY DEF WorkloadTypes
  <2> QED
    BY <2>1, Numbers DEF Updated, Watched, Server
<1> DEFINE last == Max(Updated(w, bundles))
           new == [target |-> last, todo |-> GetPortsForServer(last)]
<1>3. IF Updated(w, bundles) # {} /\ Finished(w)
      THEN again' = [again EXCEPT ![w] = Append(@, new)]
      ELSE again' = again
  BY DEF OnX509BundlesUpdate
<1>4. new.target = last
  OBVIOUS
<1>5. UNCHANGED <<remeshed, meshed, stage, reach>>
  BY DEF OnX509BundlesUpdate, logVars
<1> HIDE DEF new, last
<1>6. CASE Updated(w, bundles) # {} /\ Finished(w)
  <2>1. again'[w] = Append(again[w], new)
    BY <1>3, <1>6 DEF WorkloadTypes
  <2>2. /\ Len(Append(again[w], new)) = Len(again[w]) + 1
        /\ \A i \in DOMAIN again[w] : i \in DOMAIN Append(again[w], new)
                                      /\ Append(again[w], new)[i] = again[w][i]
        /\ Len(again[w]) + 1 \in DOMAIN Append(again[w], new)
        /\ Append(again[w], new)[Len(again[w]) + 1] = new
    BY <1>1
  <2> QED
    BY <1>2, <1>4, <1>5, <1>6, <2>1, <2>2 DEF last
<1>7. CASE ~(Updated(w, bundles) # {} /\ Finished(w))
  <2>1. again'[w] = again[w]
    BY <1>3, <1>7
  <2> QED
    BY <1>2, <1>5, <1>7, <2>1
<1> QED
  BY <1>6, <1>7

LEMMA PeersJoined ==
  ASSUME WorkloadTypes, ScriptTypes, Shape, Ups, script.op \in {"rotation", "removal"},
         NEW w \in PeerWorkload
  PROVE  /\ w \in Workload /\ w[1] \in Server /\ w[1] # script.num /\ Joined(w[1])
         /\ script.num \in Server /\ Joined(script.num)
<1>1. w \in Workload /\ w[1] \in 1..Newest /\ w[1] # script.num
  BY DEF PeerWorkload, Peers, Shape
<1>2. ~ At("creation", "clusters")
  BY DEF At
<1>3. script.num \in 1..Newest /\ script.num \in Server
  BY DEF Shape, ScriptTypes
<1> QED
  BY <1>1, <1>2, <1>3, NewestFacts, Workloads

\* A delivery of the rotated bundle to a workload that has dialled the server.
LEMMA RotationSeen ==
  ASSUME Core, Running, Next, Near, script.op = "rotation",
         NEW w \in PeerWorkload, script.num \in entry[w],
         NEW bundles \in Deliverable(w), OnX509BundlesUpdate(w, bundles), DeliverBundles(w),
         bundles[script.num] = own[script.num], view[w][script.num] # own[script.num]
  PROVE  script.num \in Updated(w, bundles)
<1> DEFINE num == script.num
<1>1. WorkloadTypes /\ ScriptTypes /\ StoreTypes /\ Shape /\ Ups /\ Stores /\ Base /\ Mesh /\ Watching
  BY DEF Core, Base, Types
<1>2. w \in Workload /\ num \in Server /\ Joined(w[1])
  BY <1>1, PeersJoined
<1>3. w \in meshed
  BY <1>1, <1>2 DEF Mesh, Joining
<1>4. view[w][num] # Missing /\ view[w][num] = previous[w][num]
  BY <1>1, <1>2, <1>3 DEF Watching
<1>5. num \in Watched(w)
  BY <1>1, <1>2, EntryDelivered
<1>6. own[num] # Missing
  BY <1>1, <1>2, StoreNumbers
<1> QED
  BY <1>4, <1>5, <1>6 DEF Updated

LEMMA ExplainedDelivery ==
  ASSUME Core, Running, Next, Near, script.op = "rotation", UNCHANGED scriptVars,
         NEW v \in Workload, DeliverBundles(v), NEW w \in PeerWorkload, Explained(w)
  PROVE  Explained(w)'
<1> DEFINE num == script.num
<1>1. WorkloadTypes /\ ScriptTypes /\ StoreTypes /\ Shape /\ Ups /\ Base
  BY DEF Core, Base, Types
<1>2. w \in Workload /\ num \in Server
  BY <1>1, PeersJoined
<1>3. PICK bundles \in Deliverable(v) :
        /\ OnX509BundlesUpdate(v, bundles)
        /\ overlooked' = IF script.op = "rotation" /\ num \in Updated(v, bundles)
                            /\ (~ Finished(v) \/ Max(Updated(v, bundles)) # num)
                         THEN overlooked \cup {v} ELSE overlooked
  BY DEF DeliverBundles
<1>4. UNCHANGED <<own, entry, script>>
  BY DEF DeliverBundles, spireVars, scriptVars
<1>5. UNCHANGED remeshed
  BY <1>1, <1>3, DeliveredAgain
<1>6. /\ view'[v] = bundles
      /\ \A u \in Workload \ {v} : view'[u] = view[u] /\ again'[u] = again[u]
  BY <1>1, <1>3, Delivery
<1>7. \A i \in DOMAIN again[v] : i \in DOMAIN again'[v] /\ again'[v][i] = again[v][i]
  BY <1>1, <1>3, DeliveredAgain
<1>8. CASE w # v
  <2>1. view'[w] = view[w] /\ again'[w] = again[w]
    BY <1>2, <1>6, <1>8
  <2>2. w \in overlooked => w \in overlooked'
    BY <1>3
  <2> QED
    BY <1>4, <1>5, <2>1, <2>2 DEF Explained
<1>9. CASE w = v
  <2>1. CASE script.step = "poll" /\ remeshed[w] > 0
    BY <1>4, <1>5, <2>1 DEF Explained
  <2>2. CASE \E i \in DOMAIN again[w] : again[w][i].target = num
    BY <1>4, <1>7, <1>9, <2>2 DEF Explained
  <2>3. CASE num \notin entry[w]
    BY <1>4, <2>3 DEF Explained
  <2>4. CASE w \in overlooked
    BY <1>3, <2>4 DEF Explained
  <2>5. CASE view[w][num] # own[num] /\ num \in entry[w]
    <3>1. CASE bundles[num] # own[num]
      BY <1>4, <1>6, <1>9, <3>1 DEF Explained
    <3>2. CASE bundles[num] = own[num]
      <4>1. num \in Updated(v, bundles)
        BY <1>3, <1>9, <2>5, <3>2, RotationSeen
      <4>2. CASE ~ Finished(v) \/ Max(Updated(v, bundles)) # num
        BY <1>3, <1>9, <4>1, <4>2 DEF Explained
      <4>3. CASE Finished(v) /\ Max(Updated(v, bundles)) = num
        <5>1. \E i \in DOMAIN again'[v] : again'[v][i].target = num
          BY <1>1, <1>3, <4>1, <4>3, DeliveredAgain
        <5> QED
          BY <1>4, <1>9, <5>1 DEF Explained
      <4> QED
        BY <4>2, <4>3
    <3> QED
      BY <3>1, <3>2
  <2> QED
    BY <2>1, <2>2, <2>3, <2>4, <2>5 DEF Explained
<1> QED
  BY <1>8, <1>9

LEMMA StallsNext ==
  ASSUME Core, Running => Stalls, Next, Running'
  PROVE  Stalls'
<1> SUFFICES ASSUME Near, script'.op = "rotation",
                    script'.step \in {"activate", "publish", "fire", "poll"},
                    NEW w \in PeerWorkload'
             PROVE  Explained(w)'
  BY DEF Stalls
<1> DEFINE num == script.num
<1>1. WorkloadTypes /\ ScriptTypes /\ StoreTypes /\ Shape /\ Ups /\ Base /\ Trail /\ Stalls /\ Running
  BY Living DEF Core, Base, Types
<1>2. /\ script.op = "rotation" /\ script'.num = num /\ script'.count = script.count
      /\ \/ UNCHANGED scriptVars /\ ~ PrepareX509Authority
         \/ PrepareX509Authority /\ script'.step = "activate"
         \/ ActivateX509Authority /\ script.step = "activate" /\ script'.step = "publish"
         \/ PutBundle /\ script.step = "publish" /\ script'.step = "fire"
         \/ RecordEventFired /\ script.step = "fire" /\ script'.step = "poll"
  <2>1. CASE UNCHANGED scriptVars /\ ~ PrepareX509Authority
    BY <2>1 DEF scriptVars
  <2>2. CASE ScriptStep
    BY <1>1, <2>2, ScriptOrder
  <2>3. ~ RunAddition /\ ~ RunRotation /\ ~ RunRemoval
    BY DEF RunAddition, RunRotation, RunRemoval, Begin
  <2> QED
    BY <2>1, <2>2, <2>3, <1>1, ScriptSteps
<1>3. w \in PeerWorkload
  BY <1>2 DEF PeerWorkload, Peers
<1>4. w \in Workload /\ num \in Server
  BY <1>1, <1>2, <1>3, PeersJoined
<1>5. CASE PrepareX509Authority
  <2>1. own'[num] = own[num] + 1 /\ UNCHANGED view
    BY <1>1, <1>4, <1>5 DEF PrepareX509Authority, StoreTypes, workloadVars, processVars
  <2>2. view[w][num] <= own[num] /\ own[num] \in Nat /\ view[w][num] \in Int
    <3>1. view[w][num] \in Version
      BY <1>1, <1>4 DEF WorkloadTypes
    <3> QED
      BY <1>1, <1>4, <3>1, StoreNumbers DEF Trail, Version, Missing
  <2>3. view'[w][num] # own'[num]
    BY <2>1, <2>2
  <2> QED
    BY <1>2, <2>3 DEF Explained
<1>6. ASSUME script.step \in {"activate", "publish", "fire", "poll"}
      PROVE  Explained(w)
  BY <1>1, <1>2, <1>3, <1>6 DEF Stalls
<1>7. CASE ActivateX509Authority \/ PutBundle
  <2>1. UNCHANGED <<remeshed, again, view, own, entry, overlooked>>
    BY <1>7 DEF ActivateX509Authority, PutBundle, workloadVars, processVars, logVars, spireVars
  <2>2. script.step \in {"activate", "publish"}
    BY <1>2, <1>7 DEF ActivateX509Authority, PutBundle, At
  <2> QED
    BY <1>2, <1>6, <2>1, <2>2 DEF Explained
<1>8. CASE RecordEventFired
  <2>1. UNCHANGED <<again, view, own, entry, overlooked>>
    BY <1>8 DEF RecordEventFired, processVars, spireVars
  <2>2. script.step = "fire"
    BY <1>8 DEF RecordEventFired, At
  <2> QED
    BY <1>2, <1>6, <2>1, <2>2 DEF Explained
<1>9. CASE UNCHANGED scriptVars /\ ~ PrepareX509Authority
  <2>1. UNCHANGED <<script, own>> /\ Explained(w)
    BY <1>6, <1>9, SpireSteps DEF scriptVars
  <2>2. entry'[w] \subseteq entry[w]
    BY <1>1, <1>2, <1>4, EntriesFrom DEF UpdateRegistrationEntries, Shape
  <2>3. CASE \E v \in Workload : DeliverBundles(v)
    BY <1>1, <1>2, <1>3, <1>9, <2>1, <2>3, ExplainedDelivery
  <2>4. CASE ~ \E v \in Workload : DeliverBundles(v)
    <3>1. UNCHANGED view
      BY <2>4, WatchSteps
    <3>2. CASE UNCHANGED <<again, remeshed, overlooked>>
      BY <2>1, <2>2, <3>1, <3>2 DEF Explained
    <3>3. ASSUME NEW v \in Workload, NEW i \in DOMAIN again[v], UNCHANGED overlooked,
                 NEW p \in again[v][i].todo, TalkAgain(v, i, p)
          PROVE  Explained(w)'
      <4>1. /\ DOMAIN again'[w] = DOMAIN again[w] /\ UNCHANGED remeshed
            /\ \A j \in DOMAIN again[w] : again'[w][j].target = again[w][j].target
        BY <1>1, <1>4, <3>3, DialledAgain
      <4> QED
        BY <2>1, <2>2, <3>1, <3>3, <4>1 DEF Explained
    <3>4. ASSUME NEW v \in Workload, NEW i \in DOMAIN again[v], TalkedAgain(v, i)
          PROVE  Explained(w)'
      <4>1. /\ \A u \in Workload \ {v} : again'[u] = again[u] /\ remeshed'[u] = remeshed[u]
            /\ remeshed'[v] > 0
            /\ \A j \in DOMAIN again[v] \ {i} :
                 \E k \in DOMAIN again'[v] : again'[v][k] = again[v][j]
            /\ overlooked' = IF script.op = "rotation" /\ script.step # "poll"
                                /\ again[v][i].target = num
                             THEN overlooked \cup {v} ELSE overlooked
        BY <1>1, <3>4, EndedAgain
      <4>2. CASE w # v
        <5>1. again'[w] = again[w] /\ remeshed'[w] = remeshed[w]
          BY <1>4, <4>1, <4>2
        <5>2. w \in overlooked => w \in overlooked'
          BY <4>1
        <5> QED
          BY <2>1, <2>2, <3>1, <5>1, <5>2 DEF Explained
      <4>3. CASE w = v /\ script.step = "poll"
        BY <2>1, <4>1, <4>3 DEF Explained
      <4>4. CASE w = v /\ script.step # "poll"
        <5>1. CASE \E j \in DOMAIN again[w] : again[w][j].target = num
          <6>1. PICK j \in DOMAIN again[w] : again[w][j].target = num
            BY <5>1
          <6>2. CASE j = i
            BY <1>2, <2>1, <4>1, <4>4, <6>1, <6>2 DEF Explained
          <6>3. CASE j # i
            <7>1. \E k \in DOMAIN again'[v] : again'[v][k] = again[v][j]
              BY <4>1, <4>4, <6>1, <6>3
            <7> QED
              BY <2>1, <4>4, <6>1, <7>1 DEF Explained
          <6> QED
            BY <6>2, <6>3
        <5>2. CASE ~ \E j \in DOMAIN again[w] : again[w][j].target = num
          <6>1. w \in overlooked => w \in overlooked'
            BY <4>1
          <6> QED
            BY <2>1, <2>2, <3>1, <4>4, <5>2, <6>1 DEF Explained
        <5> QED
          BY <5>1, <5>2
      <4> QED
        BY <4>2, <4>3, <4>4
    <3>5. ~ SetupNewCluster /\ ~ KillForRestart /\ ~ RestartWorkloads /\ ~ RecordEventFired
            /\ ~ RunAddition /\ ~ RunRotation /\ ~ RunRemoval
      <4>1. script'.step = script.step
        BY <2>1
      <4>2. ~ RecordEventFired
        BY <1>1, <4>1 DEF RecordEventFired, At, Goto, ScriptTypes
      <4> QED
        BY <1>2, <4>1, <4>2 DEF SetupNewCluster, KillForRestart, RestartWorkloads, RunAddition,
           RunRotation, RunRemoval, Begin, At
    <3> QED
      BY <2>4, <3>2, <3>3, <3>4, <3>5, AgainSteps
  <2> QED
    BY <2>3, <2>4
<1> QED
  BY <1>2, <1>5, <1>7, <1>8, <1>9

-----------------------------------------------------------------------------
(* Rotations and removals that no fault disturbs                           *)

LEMMA FaultsGrow ==
  ASSUME ScriptTypes, Next, faults' = 0
  PROVE  /\ faults = 0
         /\ \A s, t \in Server : ~ RefreshBundle(s, t)
         /\ \A s \in Server : ~ HandlerFails(s)
<1>1. faults \in Nat /\ (Fault => faults' = faults + 1)
  BY Numbers DEF ScriptTypes, Fault
<1>2. ~ Fault
  BY <1>1
<1>3. ScriptStep => UNCHANGED faults
  BY <1>2, AnnounceFaults
     DEF ScriptStep, SetupNClusters, SetupNewCluster, StartListeners, PostBundles, PutBundle,
     FetchBundles, CreateFederations, UpdateRegistrationEntries, EntryRefused, PrepareX509Authority,
     ActivateX509Authority, RecordEventFired, KillForRestart, RestartWorkloads, RecordRemovalStart,
     DeleteBundle, CleanLocalEntry, EntriesClean, PollUntil, PublishBundleForServer
<1>4. RunAddition \/ RunRotation \/ RunRemoval => UNCHANGED faults
  BY DEF RunAddition, RunRotation, RunRemoval, Begin
<1>5. ASSUME NEW s \in Server, Subscribe(s) \/ HandleEvent(s) \/ RenewSvids(s)
      PROVE  UNCHANGED faults
  BY <1>5 DEF Subscribe, HandleEvent, RenewSvids
<1>6. ASSUME NEW w \in Workload, DeliverBundles(w)
      PROVE  UNCHANGED faults
  BY <1>6 DEF DeliverBundles
<1>7. ASSUME NEW w \in Workload, Works(w)
      PROVE  UNCHANGED faults
  BY <1>2, <1>7, WorksSteps DEF SendsBy
<1>8. ~ CommandFails /\ (PollTimesOut => UNCHANGED faults)
  BY <1>2 DEF CommandFails, PollTimesOut
<1>9. /\ \A s, t \in Server : ~ RefreshBundle(s, t)
      /\ \A s \in Server : ~ HandlerFails(s)
  BY <1>2 DEF RefreshBundle, HandlerFails
<1> QED
  BY <1>3, <1>4, <1>5, <1>6, <1>7, <1>8, <1>9, Steps

\* What a bundle may be outlives every step but the begin of the next script.
LEMMA ValuesNext ==
  ASSUME ScriptTypes, StoreTypes, Running, Shape, Next, Running', NEW t \in Server, NEW x \in Values(t),
         x \in {Missing, own[t]} \/ UNCHANGED scriptVars \/ ScriptStep
  PROVE  x \in Values(t)'
<1>1. own[t] \in Nat
  BY StoreNumbers
<1>2. CASE UNCHANGED scriptVars /\ ~ PrepareX509Authority
  <2>1. UNCHANGED <<script, own>>
    BY <1>2, SpireSteps DEF scriptVars
  <2> QED
    BY <2>1 DEF Values, Rotating
<1>3. CASE ScriptStep /\ script.op = "rotation"
  <2>1. script'.op = "rotation" /\ script'.num = script.num
    BY <1>3, ScriptOrder
  <2>2. CASE PrepareX509Authority
    <3>1. own' = [own EXCEPT ![script.num] = @ + 1] /\ script.step = "prepare"
            /\ script'.step = "activate"
      BY <1>3, <2>2, ScriptOrder DEF PrepareX509Authority, At
    <3>2. own'[t] = IF t = script.num THEN own[t] + 1 ELSE own[t]
      BY <3>1 DEF StoreTypes
    <3>3. t = script.num => own'[t] - 1 = own[t]
      BY <1>1, <3>2
    <3>4. x \in {Missing, own[t]}
      BY <3>1 DEF Values
    <3> QED
      BY <2>1, <3>1, <3>2, <3>3, <3>4 DEF Values, Rotating
  <2>3. CASE ~ PrepareX509Authority
    <3>1. UNCHANGED own
      BY <2>3, SpireSteps
    <3>2. script.step # "prepare" /\ script'.step # "prepare"
            /\ (script.step \in {"fire", "poll", "measured"}
                  => script'.step \in {"fire", "poll", "measured"})
      BY <1>3, <2>3, ScriptOrder
    <3>3. CASE t # script.num
      BY <1>3, <2>1, <3>1, <3>3 DEF Values
    <3>4. CASE t = script.num /\ Rotating
      <4>1. Rotating' /\ x \in {Missing, own'[t] - 1, own'[t]}
        BY <1>3, <2>1, <3>1, <3>2, <3>4 DEF Values, Rotating
      <4> QED
        BY <2>1, <3>2, <3>4, <4>1 DEF Values
    <3>5. CASE t = script.num /\ ~ Rotating
      <4>1. x \in {Missing, own'[t] - 1}
        BY <1>3, <3>1, <3>2, <3>5 DEF Values
      <4> QED
        BY <2>1, <3>2, <3>5, <4>1 DEF Values
    <3> QED
      BY <3>3, <3>4, <3>5
  <2> QED
    BY <2>2, <2>3
<1>4. CASE ScriptStep /\ script.op # "rotation"
  <2>1. script'.op # "rotation"
    BY <1>4, ScriptOrder
  <2>2. UNCHANGED own
    BY <1>4, SpireSteps DEF PrepareX509Authority, At
  <2> QED
    BY <1>4, <2>1, <2>2 DEF Values
<1>5. CASE (RunAddition \/ RunRotation \/ RunRemoval) /\ x \in {Missing, own[t]}
  <2>1. script'.op = "rotation" => script'.step = "prepare"
    BY <1>5 DEF RunAddition, RunRotation, RunRemoval, Begin
  <2>2. UNCHANGED own
    BY <1>5, SpireSteps DEF PrepareX509Authority, At, RunAddition, RunRotation, RunRemoval, Begin
  <2> QED
    BY <1>5, <2>1, <2>2 DEF Values
<1>6. \/ UNCHANGED scriptVars /\ ~ PrepareX509Authority
      \/ ScriptStep
      \/ (RunAddition \/ RunRotation \/ RunRemoval) /\ x \in {Missing, own[t]}
  <2>1. RunAddition \/ RunRotation \/ RunRemoval => ~ UNCHANGED scriptVars
    <3>1. RunAddition \/ RunRotation \/ RunRemoval =>
            script.step = "measured" /\ script'.step # "measured"
      BY DEF RunAddition, RunRotation, RunRemoval, Begin
    <3> QED
      BY <3>1 DEF scriptVars
  <2> QED
    BY <2>1, ScriptSteps
<1> QED
  BY <1>2, <1>3, <1>4, <1>5, <1>6

\* At the end of a rotation nobody holds the old bundle any more.
LEMMA RotationOver ==
  ASSUME Core, Running, faults = 0, Quiet, Measured("rotation"), NEW w \in Workload
  PROVE  /\ view[w][script.num] \in {Missing, own[script.num]}
         /\ previous[w][script.num] \in {Missing, own[script.num]}
         /\ w[1] # script.num => held[w[1]][script.num] \in {Missing, own[script.num]}
         /\ again[w] = <<>>
         /\ w \in PeerWorkload =>
              view[w][script.num] = own[script.num] /\ held[w[1]][script.num] = own[script.num]
<1> DEFINE num == script.num
<1>1. WorkloadTypes /\ ScriptTypes /\ StoreTypes /\ Shape /\ Ups /\ Stores
  BY DEF Core, Base, Types
<1>2. script.op = "rotation" /\ script.step = "measured" /\ Rotating /\ QuietMarks /\ num \in Server
  BY <1>1 DEF Quiet, Measured, Rotating, ScriptTypes
<1>3. QuietRotation(w, num)
  BY <1>2 DEF QuietMarks
<1>4. Len(again[w]) \in Nat /\ remeshed[w] \in Nat /\ (Len(again[w]) = 0 => again[w] = <<>>)
  <2>1. again[w] \in Seq(Again) /\ remeshed[w] \in 0..MaxMarks
    BY <1>1 DEF WorkloadTypes
  <2> QED
    BY <2>1, Numbers, EmptySeq
<1>5. CASE w \in PeerWorkload
  <2>1. remeshed[w] > 0
    BY <1>2, <1>5 DEF QuietMarks
  <2>2. previous[w][num] = own[num] /\ Len(again[w]) + remeshed[w] <= 1
    BY <1>2, <1>3, <2>1 DEF QuietRotation
  <2>3. view[w][num] = own[num] /\ held[w[1]][num] = own[num]
    BY <1>3, <2>2 DEF QuietRotation
  <2>4. again[w] = <<>>
    BY <1>4, <2>1, <2>2
  <2> QED
    BY <2>2, <2>3, <2>4
<1>6. CASE w \notin PeerWorkload
  <2>1. w[1] \in Server /\ w \in Of(w[1])
    BY Workloads
  <2>2. ~ Joined(w[1]) \/ w[1] = num
    <3>1. Joined(w[1]) => w[1] \in 1..script.count
      <4>1. script.count = Newest
        BY <1>1, <1>2 DEF Shape
      <4>2. Joined(w[1]) => w[1] <= Newest
        BY <1>1, <2>1, NewestFacts
      <4>3. Newest \in Server
        BY <1>1, NewestFacts
      <4> QED
        BY <2>1, <4>1, <4>2, <4>3 DEF Server
    <3> QED
      BY <1>6, <3>1 DEF PeerWorkload, Peers
  <2>3. num \notin federated[w[1]]
    BY <1>1, <2>1, <2>2 DEF Stores
  <2>4. view[w][num] = Missing /\ previous[w][num] = Missing
    <3>1. \A t \in Server :
            {view[w][t], previous[w][t]} # {Missing} => t \in federated[w[1]]
      BY <1>1, <2>1, Zenon DEF Stores
    <3>2. {view[w][num], previous[w][num]} = {Missing}
      BY <1>2, <2>3, <3>1
    <3> QED
      BY <3>2
  <2>5. w[1] # num => held[w[1]][num] = Missing
    BY <1>1, <1>2, <2>1, <2>2 DEF Stores
  <2>6. again[w] = <<>>
    <3>1. own[num] # Missing
      BY <1>1, <1>2, StoreNumbers
    <3> QED
      BY <1>3, <2>4, <3>1 DEF QuietRotation
  <2> QED
    BY <1>6, <2>4, <2>5, <2>6
<1> QED
  BY <1>5, <1>6

\* Where the bundles of the stores and of the workloads come from.
LEMMA HeldFrom ==
  ASSUME Base, Running, Next, faults' = 0, NEW s \in Server, NEW t \in Server
  PROVE  held'[s][t] \in {held[s][t], published[t], Missing}
<1>1. ScriptTypes /\ StoreTypes
  BY DEF Base, Types
<1>2. CASE FetchBundles
  <2>1. held' = [held EXCEPT ![script.num] =
          [u \in Server |-> IF u = script.num \/ published[u] = Missing THEN @[u] ELSE published[u]]]
    BY <1>2 DEF FetchBundles
  <2> QED
    BY <1>1, <2>1 DEF StoreTypes, ScriptTypes
<1>3. ASSUME NEW i \in Server, HandleEvent(i)
      PROVE  held'[s][t] \in {held[s][t], published[t], Missing}
  <2>1. PICK u \in Server :
          \/ UNCHANGED <<held, entry, applied, deleted>>
          \/ /\ published[u] # Missing /\ UNCHANGED <<entry, deleted>>
             /\ \A r, v \in Server :
                  held'[r][v] = IF r = i /\ v = u THEN published[u] ELSE held[r][v]
             /\ applied' = applied \cup {<<i, u>>}
          \/ /\ published[u] = Missing /\ held[i][u] # Missing /\ UNCHANGED applied
             /\ \A r, v \in Server :
                  held'[r][v] = IF r = i /\ v = u THEN Missing ELSE held[r][v]
             /\ entry' = [w \in Workload |-> IF w[1] = i THEN entry[w] \ {u} ELSE entry[w]]
             /\ deleted' = deleted \cup {<<i, u>>}
    BY <1>3, Handled
  <2> QED
    BY <2>1
<1>4. UpdateRegistrationEntries \/ CleanLocalEntry => UNCHANGED held
  BY DEF UpdateRegistrationEntries, CleanLocalEntry
<1>5. ~ \E i, u \in Server : RefreshBundle(i, u)
  BY <1>1, FaultsGrow
<1> QED
  BY <1>2, <1>3, <1>4, <1>5, SpireSteps

LEMMA ViewsFrom ==
  ASSUME Base, Next, NEW w \in Workload, NEW t \in Server
  PROVE  /\ view'[w][t] \in {view[w][t], Missing} \/ (t \in entry[w] /\ view'[w][t] = held[w[1]][t])
         /\ previous'[w][t] \in {previous[w][t], view'[w][t], Missing}
<1>1. WorkloadTypes /\ ScriptTypes /\ StoreTypes
  BY DEF Base, Types
<1>2. CASE UNCHANGED <<view, previous>>
  BY <1>2
<1>3. CASE (SetupNewCluster \/ RestartWorkloads) /\ UNCHANGED view
  <2>1. previous'[w] \in {previous[w], NoBundles}
    BY <1>3 DEF SetupNewCluster, RestartWorkloads, StartWorkloads
  <2> QED
    BY <1>3, <2>1 DEF NoBundles
<1>4. ASSUME NEW v \in Workload, DeliverBundles(v)
      PROVE  /\ view'[w][t] \in {view[w][t], Missing}
                  \/ (t \in entry[w] /\ view'[w][t] = held[w[1]][t])
             /\ previous'[w][t] \in {previous[w][t], view'[w][t], Missing}
  <2>1. PICK bundles \in Deliverable(v) : OnX509BundlesUpdate(v, bundles)
    BY <1>4 DEF DeliverBundles
  <2>2. /\ view'[v] = bundles
        /\ \A u \in Workload \ {v} : previous'[u] = previous[u] /\ view'[u] = view[u]
        /\ previous'[v][t] = IF t \in Watched(v) /\ bundles[t] # Missing THEN bundles[t]
                             ELSE previous[v][t]
        /\ bundles[t] = view[v][t]
             \/ bundles[t] = IF t \in entry[v] THEN held[v[1]][t] ELSE Missing
    BY <1>1, <2>1, Delivery
  <2> QED
    BY <2>2
<1> QED
  BY <1>2, <1>3, <1>4, WatchSteps

LEMMA QuietStoresNext ==
  ASSUME Core, Running => Quiet, Next, Running', faults' = 0
  PROVE  QuietStores'
<1>1. WorkloadTypes /\ ScriptTypes /\ StoreTypes /\ Shape /\ Ups /\ Stores /\ Ledger /\ Base /\ Running
        /\ faults = 0 /\ QuietStores /\ QuietMarks /\ Quiet
  BY Living, FaultsGrow DEF Core, Base, Types, Quiet
<1>2. ASSUME NEW t \in Server
      PROVE  Missing \in Values(t) /\ Missing \in Values(t)'
  BY DEF Values
<1>3. CASE RunAddition \/ RunRotation \/ RunRemoval
  <2>1. UNCHANGED <<published, held, view, previous, own>> /\ script.step = "measured"
    BY <1>3 DEF RunAddition, RunRotation, RunRemoval, Begin, workloadVars, processVars, spireVars
  <2>2. ASSUME NEW t \in Server, ~ (Measured("rotation") /\ t = script.num)
        PROVE  Values(t) = {Missing, own[t]}
    BY <2>1, <2>2 DEF Values, Measured
  <2>3. ASSUME NEW t \in Server, NEW x \in Values(t), x \in {Missing, own[t]}
        PROVE  x \in Values(t)'
    BY <1>1, <2>3, ValuesNext
  <2>4. ASSUME NEW t \in Server
        PROVE  published'[t] \in Values(t)'
    <3>1. published[t] \in {Missing, own[t]}
      BY <1>1, <2>1 DEF Ledger
    <3> QED
      BY <1>1, <2>1, <2>3, <3>1 DEF QuietStores
  <2>5. ASSUME NEW s \in Server, NEW t \in Server, s # t
        PROVE  held'[s][t] \in Values(t)'
    <3>1. held[s][t] \in Values(t)
      BY <1>1, <2>5 DEF QuietStores
    <3>2. held[s][t] \in {Missing, own[t]}
      <4>1. CASE Measured("rotation") /\ t = script.num
        <5>1. <<s, 0>> \in Workload /\ <<s, 0>>[1] = s
          BY Workloads
        <5> QED
          BY <1>1, <2>5, <4>1, <5>1, RotationOver
      <4> QED
        BY <2>2, <3>1, <4>1
    <3> QED
      BY <2>1, <2>3, <3>1, <3>2
  <2>6. ASSUME NEW w \in Workload, NEW t \in Server
        PROVE  view'[w][t] \in Values(t)' /\ previous'[w][t] \in Values(t)'
    <3>1. view[w][t] \in Values(t) /\ previous[w][t] \in Values(t)
      BY <1>1 DEF QuietStores
    <3>2. view[w][t] \in {Missing, own[t]} /\ previous[w][t] \in {Missing, own[t]}
      <4>1. CASE Measured("rotation") /\ t = script.num
        BY <1>1, <4>1, RotationOver
      <4> QED
        BY <2>2, <3>1, <4>1
    <3> QED
      BY <2>1, <2>3, <3>1, <3>2
  <2> QED
    BY <2>4, <2>5, <2>6 DEF QuietStores
<1>4. CASE UNCHANGED scriptVars \/ ScriptStep
  <2>1. ASSUME NEW t \in Server, NEW x \in Values(t)
        PROVE  x \in Values(t)'
    BY <1>1, <1>4, <2>1, ValuesNext
  <2>2. ASSUME NEW t \in Server
        PROVE  published'[t] \in Values(t)'
    <3>1. published[t] \in Values(t)'
      BY <1>1, <2>1 DEF QuietStores
    <3>2. CASE PostBundles \/ PutBundle
      <4>1. published'[t] \in {published[t], own[t]} /\ UNCHANGED own
              /\ (t # script.num => published'[t] = published[t])
        BY <1>1, <3>2 DEF PostBundles, PutBundle, PublishBundleForServer, StoreTypes, spireVars
      <4>2. t = script.num => own'[t] \in Values(t)'
        <5>1. script'.op = script.op
          BY <1>1, <3>2, ScriptMoves DEF ScriptStep
        <5>2. CASE script.op # "rotation"
          BY <5>1, <5>2 DEF Values
        <5>3. CASE script.op = "rotation"
          <6>1. PutBundle /\ script'.step = "fire" /\ script'.op = "rotation"
            <7>1. PutBundle
              BY <3>2, <5>3 DEF PostBundles, At
            <7>2. ScriptStep
              BY <3>2 DEF ScriptStep
            <7>3. script.step = "publish"
              BY <7>1 DEF PutBundle
            <7> QED
              BY <1>1, <5>1, <5>3, <7>1, <7>2, <7>3, ScriptOrder
          <6> QED
            BY <6>1 DEF Values, Rotating
        <5> QED
          BY <5>2, <5>3
      <4> QED
        BY <3>1, <4>1, <4>2
    <3>3. CASE DeleteBundle
      <4>1. published'[t] \in {published[t], Missing}
        BY <1>1, <3>3 DEF DeleteBundle, StoreTypes
      <4> QED
        BY <1>2, <3>1, <4>1
    <3> QED
      BY <3>1, <3>2, <3>3, SpireSteps
  <2>3. ASSUME NEW s \in Server, NEW t \in Server, s # t
        PROVE  held'[s][t] \in Values(t)'
    <3>1. held'[s][t] \in {held[s][t], published[t], Missing}
      BY <1>1, HeldFrom
    <3> QED
      BY <1>1, <1>2, <2>1, <2>3, <3>1 DEF QuietStores
  <2>4. ASSUME NEW w \in Workload, NEW t \in Server
        PROVE  view'[w][t] \in Values(t)' /\ previous'[w][t] \in Values(t)'
    <3>1. /\ view'[w][t] \in {view[w][t], Missing}
               \/ (t \in entry[w] /\ view'[w][t] = held[w[1]][t])
          /\ previous'[w][t] \in {previous[w][t], view'[w][t], Missing}
      BY <1>1, ViewsFrom
    <3>2. t \in entry[w] => t # w[1] /\ w[1] \in Server
      BY <1>1, EntryPeers, Workloads
    <3>3. view[w][t] \in Values(t)' /\ previous[w][t] \in Values(t)'
            /\ (t \in entry[w] => held[w[1]][t] \in Values(t)')
      BY <1>1, <2>1, <3>2 DEF QuietStores
    <3> QED
      BY <1>2, <3>1, <3>3
  <2> QED
    BY <2>2, <2>3, <2>4 DEF QuietStores
<1> QED
  BY <1>1, <1>3, <1>4, ScriptSteps

\* With one marker of each workload at most, all of them are there.
LEMMA AllRemeshed ==
  ASSUME WorkloadTypes, ScriptTypes, Shape, script.op = "rotation", EndReached,
         \A w \in Workload : remeshed[w] <= 1, NEW w \in PeerWorkload
  PROVE  remeshed[w] > 0
<1> DEFINE counted == {m \in PeerWorkload \X (1..MaxMarks) : m[2] <= remeshed[m[1]]}
           mine    == 0..Size - 1
           peers   == Peers \X mine
           all     == peers \X {1}
<1>1. Cardinality(counted) = Cardinality(Peers) * Size
  BY DEF EndReached, MeasureRotationEnd
<1>2. IsFiniteSet(mine) /\ Cardinality(mine) = Size
  <2>1. Size \in Nat /\ 0 \in Int /\ Size - 1 \in Int /\ ~(0 > Size - 1) /\ (Size - 1) - 0 + 1 = Size
    BY Numbers
  <2> QED
    BY <2>1, FS_Interval
<1>3. IsFiniteSet(Peers)
  <2>1. \A s \in Server : 1 \in Int /\ s \in Int
    BY Numbers
  <2>2. \A s \in Server : IsFiniteSet(1..s)
    BY <2>1, FS_Interval
  <2>3. IsFiniteSet(1..script.count)
    BY <2>2 DEF ScriptTypes
  <2> QED
    BY <2>3, FS_Difference DEF Peers
<1>4. PeerWorkload = peers
  <2>1. Peers \subseteq Server
    <3>1. \A s \in Server : 1..s \subseteq Server
      BY Numbers DEF Server
    <3>2. script.count \in Server
      BY DEF ScriptTypes
    <3> QED
      BY <3>1, <3>2 DEF Peers
  <2>2. ASSUME NEW v \in PeerWorkload
        PROVE  v \in peers
    <3>1. v \in Workload /\ v[1] \in Peers
      BY <2>2 DEF PeerWorkload
    <3>2. v[2] \in mine /\ v = <<v[1], v[2]>>
      BY <3>1, Workloads
    <3> QED
      BY <3>1, <3>2
  <2>3. ASSUME NEW v \in peers
        PROVE  v \in PeerWorkload
    BY <2>1, <2>3 DEF PeerWorkload, Workload
  <2> QED
    BY <2>2, <2>3
<1>5. counted \in SUBSET all
  <2>1. ASSUME NEW m \in counted
        PROVE  m \in all
    <3>1. m \in PeerWorkload \X (1..MaxMarks) /\ m[2] <= remeshed[m[1]]
      BY <2>1
    <3>2. m[1] \in PeerWorkload /\ m[2] \in Nat /\ m[2] >= 1 /\ m = <<m[1], m[2]>>
      BY <3>1, Numbers
    <3>3. m[1] \in Workload /\ remeshed[m[1]] <= 1 /\ remeshed[m[1]] \in 0..MaxMarks
      BY <3>2 DEF PeerWorkload, WorkloadTypes
    <3>4. m[2] = 1
      BY <3>1, <3>2, <3>3, Numbers
    <3> QED
      BY <1>4, <3>2, <3>4
  <2> QED
    BY <2>1
<1> HIDE DEF mine
<1>6. IsFiniteSet(peers) /\ Cardinality(peers) = Cardinality(Peers) * Size
  BY <1>2, <1>3, FS_Product
<1> HIDE DEF peers
<1>7. IsFiniteSet(all) /\ Cardinality(all) = Cardinality(peers) * 1
  <2>1. IsFiniteSet({1}) /\ Cardinality({1}) = 1
    BY FS_Singleton
  <2> QED
    BY <1>6, <2>1, FS_Product
<1>8. Cardinality(counted) = Cardinality(all)
  <2>1. Cardinality(peers) \in Nat
    BY <1>6, FS_CardinalityType
  <2> QED
    BY <1>1, <1>6, <1>7, <2>1
<1>9. counted = all
  <2> HIDE DEF counted, all
  <2> QED
    BY <1>5, <1>7, <1>8, FS_Subset
<1>10. <<w, 1>> \in counted
  BY <1>4, <1>9
<1>11. 1 <= remeshed[w]
  BY <1>10
<1>12. remeshed[w] \in 0..MaxMarks
  BY DEF PeerWorkload, WorkloadTypes
<1> QED
  BY <1>11, <1>12, Numbers

\* What a delivery can change without faults: the bundle that is rotated, once.
LEMMA QuietUpdates ==
  ASSUME Core, Running, Quiet, faults' = 0, Next, Running',
         NEW w \in Workload, NEW bundles \in Deliverable(w), DeliverBundles(w),
         OnX509BundlesUpdate(w, bundles)
  PROVE  /\ ~ Rotating => Updated(w, bundles) = {}
         /\ Rotating => Updated(w, bundles) \subseteq {script.num}
         /\ Rotating /\ script.num \in Updated(w, bundles) =>
              previous[w][script.num] # own[script.num] /\ bundles[script.num] = own[script.num]
<1>1. WorkloadTypes /\ StoreTypes /\ QuietStores /\ QuietMarks
  BY FaultsGrow DEF Core, Base, Types, Quiet
<1>2. view'[w] = bundles
  BY <1>1, Delivery
<1>3. UNCHANGED <<script, own>>
  BY DEF DeliverBundles, scriptVars, spireVars
<1>4. ASSUME NEW t \in Server
      PROVE  bundles[t] \in Values(t) /\ previous[w][t] \in Values(t)
  <2>1. QuietStores'
    BY QuietStoresNext
  <2>2. view'[w][t] \in Values(t)'
    BY <2>1 DEF QuietStores
  <2>3. Values(t)' = Values(t)
    BY <1>3 DEF Values, Rotating
  <2> QED
    BY <1>1, <1>2, <2>2, <2>3 DEF QuietStores
<1>5. ASSUME NEW t \in Updated(w, bundles)
      PROVE  /\ t \in Server /\ Rotating /\ t = script.num
             /\ previous[w][t] # own[t] /\ bundles[t] = own[t]
  <2>3. Updated(w, bundles) \in SUBSET Server
    BY <1>1, DeliveredAgain
  <2>4. t \in Server
    BY <2>3
  <2>5. bundles[t] # Missing /\ previous[w][t] # Missing /\ bundles[t] # previous[w][t]
    BY DEF Updated
  <2>6. bundles[t] \in Values(t) /\ previous[w][t] \in Values(t)
    BY <1>4, <2>4
  <2>7. t = script.num /\ Rotating
    BY <2>5, <2>6 DEF Values
  <2>8. {bundles[t], previous[w][t]} \subseteq {own[t] - 1, own[t]}
    BY <2>5, <2>6, <2>7 DEF Values, Rotating
  <2>9. previous[w][t] # own[t]
    <3> SUFFICES ASSUME previous[w][t] = own[t]
                 PROVE  FALSE
      OBVIOUS
    <3>1. QuietRotation(w, t)
      BY <1>1, <2>7 DEF QuietMarks
    <3>2. view[w][t] = own[t] /\ t \in entry[w] /\ held[w[1]][t] = own[t]
      BY <3>1 DEF QuietRotation
    <3>3. bundles[t] = view[w][t]
            \/ bundles[t] = IF t \in entry[w] THEN held[w[1]][t] ELSE Missing
      BY <1>1, <2>4, Delivery
    <3> QED
      BY <2>5, <3>2, <3>3
  <2> QED
    BY <2>4, <2>5, <2>7, <2>8, <2>9
<1> QED
  BY <1>5

\* What the listeners leave of the bundle that is rotated.
LEMMA QuietStoreKept ==
  ASSUME Core, Running, Rotating, faults' = 0, Next, UNCHANGED <<script, own>>, NEW w \in Workload
  PROVE  /\ script.num \in entry[w] => script.num \in entry'[w]
         /\ held[w[1]][script.num] = own[script.num] =>
              held'[w[1]][script.num] = own[script.num]
<1> DEFINE num == script.num
<1>1. ScriptTypes /\ StoreTypes /\ Base /\ Ledger /\ Shape /\ num \in Server /\ w[1] \in Server
  BY Workloads DEF Core, Base, Types, ScriptTypes
<1>2. published[num] = own[num]
  BY <1>1 DEF Ledger, Rotating
<1>3. own[num] # Missing
  BY <1>1, StoreNumbers
<1>4. ~ FetchBundles /\ ~ UpdateRegistrationEntries /\ ~ CleanLocalEntry
  BY <1>1 DEF FetchBundles, UpdateRegistrationEntries, CleanLocalEntry, At, Rotating
<1>5. ~ \E s, t \in Server : RefreshBundle(s, t)
  BY <1>1, FaultsGrow
<1>6. ASSUME NEW i \in Server, HandleEvent(i)
      PROVE  /\ num \in entry[w] => num \in entry'[w]
             /\ held[w[1]][num] = own[num] => held'[w[1]][num] = own[num]
  <2>1. PICK u \in Server :
          \/ UNCHANGED <<held, entry, applied, deleted>>
          \/ /\ published[u] # Missing /\ UNCHANGED <<entry, deleted>>
             /\ \A r, v \in Server :
                  held'[r][v] = IF r = i /\ v = u THEN published[u] ELSE held[r][v]
             /\ applied' = applied \cup {<<i, u>>}
          \/ /\ published[u] = Missing /\ held[i][u] # Missing /\ UNCHANGED applied
             /\ \A r, v \in Server :
                  held'[r][v] = IF r = i /\ v = u THEN Missing ELSE held[r][v]
             /\ entry' = [x \in Workload |-> IF x[1] = i THEN entry[x] \ {u} ELSE entry[x]]
             /\ deleted' = deleted \cup {<<i, u>>}
    BY <1>1, <1>6, Handled
  <2> HIDE DEF num
  <2>2. CASE published[u] = Missing
    <3>1. u # num
      BY <1>2, <1>3, <2>2
    <3> QED
      BY <1>1, <2>1, <2>2, <3>1
  <2>3. CASE published[u] # Missing
    BY <1>1, <1>2, <2>1, <2>3
  <2> QED
    BY <2>2, <2>3
<1> QED
  BY <1>4, <1>5, <1>6, SpireSteps

\* A step of the rotation's end, one workload at a time.
LEMMA QuietRotationKept ==
  ASSUME Core, Running, Quiet, Rotating, faults' = 0, Next, Running', UNCHANGED scriptVars,
         ~ PrepareX509Authority, NEW w \in Workload
  PROVE  QuietRotation(w, script.num)'
<1> DEFINE num == script.num
<1>1. WorkloadTypes /\ ScriptTypes /\ StoreTypes /\ Shape /\ Base /\ QuietMarks /\ num \in Server
        /\ WorkloadTypes'
  BY FaultsGrow, WorkloadTypesNext DEF Core, Base, Types, Quiet, ScriptTypes
<1>2. UNCHANGED <<script, own>>
  BY SpireSteps DEF scriptVars
<1>3. /\ num \in entry[w] => num \in entry'[w]
      /\ held[w[1]][num] = own[num] => held'[w[1]][num] = own[num]
  BY <1>2, QuietStoreKept
<1>4. QuietRotation(w, num)
  BY <1>1 DEF QuietMarks
<1>5. own[num] # Missing
  BY <1>1, StoreNumbers
<1>6. /\ again[w] \in Seq(Again) /\ again'[w] \in Seq(Again) /\ remeshed[w] \in Nat
      /\ Len(again[w]) \in Nat /\ Len(again'[w]) \in Nat
      /\ (again[w] = <<>> <=> Len(again[w]) = 0) /\ (again'[w] = <<>> <=> Len(again'[w]) = 0)
  <2>1. again[w] \in Seq(Again) /\ again'[w] \in Seq(Again) /\ remeshed[w] \in 0..MaxMarks
    BY <1>1 DEF WorkloadTypes
  <2> QED
    BY <2>1, Numbers, EmptySeq
<1>7. ASSUME view'[w][num] = view[w][num], previous'[w][num] = previous[w][num],
             Len(again'[w]) = Len(again[w]), remeshed'[w] = remeshed[w]
      PROVE  QuietRotation(w, num)'
  BY <1>2, <1>3, <1>4, <1>6, <1>7 DEF QuietRotation
<1>8. ASSUME NEW v \in Workload, DeliverBundles(v)
      PROVE  QuietRotation(w, num)'
  <2>1. PICK bundles \in Deliverable(v) : OnX509BundlesUpdate(v, bundles)
    BY <1>8 DEF DeliverBundles
  <2>2. /\ view'[v] = bundles
        /\ \A u \in Workload \ {v} : previous'[u] = previous[u] /\ view'[u] = view[u]
                                      /\ again'[u] = again[u]
        /\ previous'[v][num] = IF num \in Watched(v) /\ bundles[num] # Missing THEN bundles[num]
                               ELSE previous[v][num]
        /\ bundles[num] = view[v][num]
             \/ bundles[num] = IF num \in entry[v] THEN held[v[1]][num] ELSE Missing
    BY <1>1, <2>1, Delivery
  <2>3. UNCHANGED remeshed
    BY <1>1, <2>1, DeliveredAgain
  <2>4. CASE w # v
    BY <1>7, <2>2, <2>3, <2>4
  <2>5. CASE w = v
    <3>1. /\ Updated(w, bundles) \subseteq {num}
          /\ num \in Updated(w, bundles) => previous[w][num] # own[num] /\ bundles[num] = own[num]
      BY <1>8, <2>1, <2>5, QuietUpdates
    <3>2. bundles[num] = own[num] => num \in entry[w] /\ held[w[1]][num] = own[num]
      BY <1>4, <1>5, <2>2, <2>5 DEF QuietRotation
    <3>3. previous[w][num] = own[num] => bundles[num] = own[num]
      BY <1>4, <2>2, <2>5 DEF QuietRotation
    <3>4. previous'[w][num] = own[num] => view'[w][num] = own[num]
      BY <2>2, <2>5, <3>3
    <3>5. previous[w][num] = own[num] => previous'[w][num] = own[num]
      BY <2>2, <2>5, <3>3
    <3>6. CASE Len(again'[w]) = Len(again[w])
      BY <1>2, <1>3, <1>4, <1>6, <2>2, <2>3, <2>5, <3>2, <3>4, <3>5, <3>6 DEF QuietRotation
    <3>7. CASE Len(again'[w]) = Len(again[w]) + 1 /\ num \in Updated(w, bundles)
      <4>1. previous[w][num] # own[num] /\ bundles[num] = own[num] /\ num \in Watched(w)
        BY <3>1, <3>7 DEF Updated
      <4>2. previous'[w][num] = own[num]
        BY <1>5, <2>2, <2>5, <4>1
      <4>3. again[w] = <<>> /\ (script.step # "fire" => ~(remeshed[w] > 0))
        BY <1>4, <4>1 DEF QuietRotation
      <4>4. Len(again'[w]) = 1 /\ (script.step # "fire" => remeshed[w] = 0)
        BY <1>6, <3>7, <4>3
      <4> QED
        BY <1>2, <1>3, <2>2, <2>3, <2>5, <3>2, <3>4, <4>2, <4>4 DEF QuietRotation
    <3>8. \/ Len(again'[w]) = Len(again[w])
          \/ Len(again'[w]) = Len(again[w]) + 1 /\ num \in Updated(w, bundles)
      <4>1. IF Updated(w, bundles) # {} /\ Finished(w)
            THEN Len(again'[w]) = Len(again[w]) + 1
            ELSE again'[w] = again[w]
        BY <1>1, <2>1, <2>5, DeliveredAgain
      <4> QED
        BY <3>1, <4>1
    <3> QED
      BY <3>6, <3>7, <3>8
  <2> QED
    BY <2>4, <2>5
<1>9. ASSUME NEW v \in Workload, NEW i \in DOMAIN again[v], NEW p \in again[v][i].todo,
             TalkAgain(v, i, p)
      PROVE  QuietRotation(w, num)'
  BY <1>1, <1>7, <1>9, DialledAgain
<1>10. ASSUME NEW v \in Workload, NEW i \in DOMAIN again[v], TalkedAgain(v, i)
       PROVE  QuietRotation(w, num)'
  <2>1. /\ \A u \in Workload \ {v} : again'[u] = again[u] /\ remeshed'[u] = remeshed[u]
        /\ remeshed'[v] = remeshed[v] + 1 /\ Len(again'[v]) = Len(again[v]) - 1
        /\ UNCHANGED <<view, previous>>
    BY <1>1, <1>10, EndedAgain
  <2>2. CASE w # v
    BY <1>7, <2>1, <2>2
  <2>3. CASE w = v
    <3>1. again[w] # <<>>
      BY <1>6, <1>10, <2>3
    <3>2. previous[w][num] = own[num] /\ Len(again[w]) = 1
      BY <1>4, <3>1 DEF QuietRotation
    <3>3. again'[w] = <<>>
      BY <1>6, <2>1, <2>3, <3>2
    <3> QED
      BY <1>2, <1>3, <1>4, <1>6, <2>1, <2>3, <3>2, <3>3 DEF QuietRotation
  <2> QED
    BY <2>2, <2>3
<1>11. CASE UNCHANGED <<again, remeshed, overlooked>> /\ ~ \E v \in Workload : DeliverBundles(v)
  <2>1. ~ SetupNewCluster /\ ~ RestartWorkloads
    BY DEF SetupNewCluster, RestartWorkloads, At, Rotating
  <2>2. UNCHANGED <<view, previous>>
    BY <1>11, <2>1, WatchSteps
  <2> QED
    BY <1>7, <1>11, <2>2
<1>12. ~ SetupNewCluster /\ ~ KillForRestart /\ ~ RestartWorkloads /\ ~ RecordEventFired
         /\ ~ RunAddition /\ ~ RunRotation /\ ~ RunRemoval
  <2>1. script'.step = script.step
    BY <1>2
  <2>2. ~ RecordEventFired
    BY <1>1, <2>1 DEF RecordEventFired, At, Goto, ScriptTypes
  <2> QED
    BY <2>1, <2>2 DEF SetupNewCluster, KillForRestart, RestartWorkloads, RunAddition, RunRotation,
       RunRemoval, Begin, At, Rotating
<1>13. QuietRotation(w, num)'
  BY <1>8, <1>9, <1>10, <1>11, <1>12, AgainSteps
<1> QED
  BY <1>13

\* Outside a rotation's end nobody dials again.
LEMMA QuietElsewhere ==
  ASSUME Core, Running, Quiet, ~ Rotating, faults' = 0, Next, Running', NEW w \in Workload
  PROVE  again'[w] = <<>>
<1>1. WorkloadTypes /\ ScriptTypes /\ StoreTypes /\ QuietMarks
  BY FaultsGrow DEF Core, Base, Types, Quiet
<1>2. \A v \in Workload : again[v] = <<>> /\ DOMAIN again[v] = {}
  BY <1>1 DEF QuietMarks
<1>3. ASSUME NEW v \in Workload, DeliverBundles(v)
      PROVE  again'[w] = <<>>
  <2>1. PICK bundles \in Deliverable(v) : OnX509BundlesUpdate(v, bundles)
    BY <1>3 DEF DeliverBundles
  <2>2. Updated(v, bundles) = {}
    BY <1>3, <2>1, QuietUpdates
  <2>3. again' = again
    BY <2>1, <2>2 DEF OnX509BundlesUpdate
  <2> QED
    BY <1>2, <2>3
<1>4. SetupNewCluster \/ KillForRestart \/ RestartWorkloads => again'[w] \in {again[w], <<>>}
  BY DEF SetupNewCluster, KillForRestart, RestartWorkloads, StartWorkloads, KillWorkloads
<1> QED
  BY <1>2, <1>3, <1>4, AgainSteps

LEMMA QuietMarksNext ==
  ASSUME Core, Running => Quiet, Next, Running', faults' = 0
  PROVE  QuietMarks'
<1> DEFINE num == script.num
<1>1. WorkloadTypes /\ ScriptTypes /\ StoreTypes /\ Shape /\ Ups /\ Base /\ Running
        /\ faults = 0 /\ QuietStores /\ QuietMarks /\ Quiet
  BY Living, FaultsGrow DEF Core, Base, Types, Quiet
<1>2. ASSUME UNCHANGED scriptVars, ~ PrepareX509Authority
      PROVE  QuietMarks'
  <2>1. UNCHANGED script /\ Rotating' = Rotating
    BY <1>2 DEF scriptVars, Rotating
  <2>2. ASSUME NEW w \in Workload
        PROVE  IF Rotating' THEN QuietRotation(w, num)' ELSE again'[w] = <<>>
    BY <1>1, <1>2, <2>1, QuietRotationKept, QuietElsewhere
  <2>3. ASSUME Measured("rotation"), NEW w \in PeerWorkload
        PROVE  remeshed'[w] > 0
    <3>1. w \in Workload /\ remeshed[w] > 0 /\ remeshed[w] \in Nat
      <4>1. w \in Workload /\ remeshed[w] > 0
        BY <1>1, <2>3 DEF QuietMarks, PeerWorkload
      <4> QED
        BY <1>1, <4>1, Numbers DEF WorkloadTypes
    <3>2. ASSUME NEW v \in Workload, DeliverBundles(v)
          PROVE  UNCHANGED remeshed
      BY <3>2 DEF DeliverBundles, OnX509BundlesUpdate, logVars
    <3>3. ASSUME NEW v \in Workload, NEW i \in DOMAIN again[v], TalkedAgain(v, i)
          PROVE  remeshed'[w] > 0
      <4>1. /\ \A u \in Workload \ {v} : remeshed'[u] = remeshed[u]
            /\ remeshed'[v] > 0
        BY <1>1, <3>3, EndedAgain
      <4> QED
        BY <3>1, <4>1
    <3>4. ASSUME NEW v \in Workload, NEW i \in DOMAIN again[v], NEW p \in again[v][i].todo,
                 TalkAgain(v, i, p)
          PROVE  UNCHANGED remeshed
      BY <3>4 DEF TalkAgain, logVars
    <3>5. ~ SetupNewCluster /\ ~ KillForRestart /\ ~ RestartWorkloads /\ ~ RecordEventFired
      BY <2>3 DEF SetupNewCluster, KillForRestart, RestartWorkloads, RecordEventFired, At, Measured
    <3>6. RunAddition \/ RunRotation \/ RunRemoval => UNCHANGED remeshed
      BY DEF RunAddition, RunRotation, RunRemoval, Begin, workloadVars, logVars
    <3>7. UNCHANGED remeshed \/ remeshed'[w] > 0
      BY <3>2, <3>3, <3>4, <3>5, <3>6, AgainSteps
    <3> QED
      BY <3>1, <3>7
  <2>4. Measured("rotation")' = Measured("rotation") /\ PeerWorkload' = PeerWorkload
    BY <2>1 DEF Measured, PeerWorkload, Peers
  <2> QED
    BY <2>1, <2>2, <2>3, <2>4 DEF QuietMarks
<1>3. ASSUME RunAddition \/ RunRotation \/ RunRemoval
      PROVE  QuietMarks'
  <2>1. ~ Rotating' /\ ~ Measured("rotation")' /\ script.step = "measured" /\ UNCHANGED again
    BY <1>3 DEF RunAddition, RunRotation, RunRemoval, Begin, Rotating, Measured, workloadVars,
       processVars
  <2>2. ASSUME NEW w \in Workload
        PROVE  again[w] = <<>>
    <3>1. CASE Measured("rotation")
      BY <1>1, <3>1, RotationOver
    <3>2. CASE ~ Measured("rotation")
      <4>1. ~ Rotating
        BY <2>1, <3>2 DEF Rotating, Measured
      <4> QED
        BY <1>1, <4>1 DEF QuietMarks
    <3> QED
      BY <3>1, <3>2
  <2> QED
    BY <2>1, <2>2 DEF QuietMarks
<1>4. ASSUME ScriptStep, script.op # "rotation"
      PROVE  QuietMarks'
  <2>1. script'.op # "rotation"
    BY <1>1, <1>4, ScriptOrder
  <2>2. ~ Rotating /\ ~ Rotating' /\ ~ Measured("rotation")'
    BY <1>4, <2>1 DEF Rotating, Measured
  <2>3. \A w \in Workload : again'[w] = <<>>
    BY <1>1, <2>2, QuietElsewhere
  <2> QED
    BY <2>2, <2>3 DEF QuietMarks
<1>5. ASSUME ScriptStep, script.op = "rotation"
      PROVE  QuietMarks'
  <2>1. /\ script'.op = "rotation" /\ script'.num = num /\ script'.count = script.count
        /\ \/ PrepareX509Authority /\ script.step = "prepare" /\ script'.step = "activate"
           \/ ActivateX509Authority /\ script.step = "activate" /\ script'.step = "publish"
           \/ PutBundle /\ script.step = "publish" /\ script'.step = "fire"
           \/ RecordEventFired /\ script.step = "fire" /\ script'.step = "poll"
           \/ PollUntil /\ script.step = "poll" /\ script'.step = "measured"
    BY <1>1, <1>5, ScriptOrder
  <2>2. num \in Server
    BY <1>1 DEF ScriptTypes
  <2>3. CASE PrepareX509Authority \/ ActivateX509Authority
    <3>1. ~ Rotating /\ ~ Rotating' /\ ~ Measured("rotation")'
      BY <2>1, <2>3 DEF Rotating, Measured, PrepareX509Authority, ActivateX509Authority, At
    <3>2. \A w \in Workload : again'[w] = <<>>
      BY <1>1, <3>1, QuietElsewhere
    <3> QED
      BY <3>1, <3>2 DEF QuietMarks
  <2>4. CASE PutBundle
    <3>1. script.step = "publish" /\ script'.step = "fire"
      BY <2>1, <2>4 DEF PutBundle
    <3>2. UNCHANGED <<view, previous, again, own>>
      BY <2>4 DEF PutBundle, workloadVars, processVars, spireVars
    <3>3. ~ Rotating /\ Rotating' /\ ~ Measured("rotation")'
      BY <2>1, <3>1 DEF Rotating, Measured
    <3>4. Values(num) = {Missing, own[num] - 1} /\ own[num] \notin {Missing, own[num] - 1}
      BY <1>1, <1>5, <2>2, <3>1, <3>3, StoreNumbers DEF Values
    <3>5. ASSUME NEW w \in Workload
          PROVE  QuietRotation(w, num)'
      <4>1. view[w][num] # own[num] /\ previous[w][num] # own[num]
        BY <1>1, <2>2, <3>4 DEF QuietStores
      <4>2. again[w] = <<>>
        BY <1>1, <3>3 DEF QuietMarks
      <4> QED
        BY <2>1, <3>1, <3>2, <4>1, <4>2 DEF QuietRotation
    <3> QED
      BY <2>1, <3>3, <3>5 DEF QuietMarks
  <2>5. CASE RecordEventFired
    <3>1. script.step = "fire" /\ script'.step = "poll"
      BY <2>1, <2>5 DEF RecordEventFired, At
    <3>2. UNCHANGED <<view, previous, again, own, entry, held>>
            /\ remeshed' = [w \in Workload |-> 0]
      BY <2>5 DEF RecordEventFired, processVars, spireVars
    <3>3. Rotating /\ Rotating' /\ ~ Measured("rotation")'
      BY <1>5, <2>1, <3>1 DEF Rotating, Measured
    <3>4. ASSUME NEW w \in Workload
          PROVE  QuietRotation(w, num)'
      <4>1. QuietRotation(w, num)
        BY <1>1, <3>3 DEF QuietMarks
      <4>2. remeshed'[w] = 0
        BY <3>2
      <4>3. Len(again[w]) \in {0, 1}
        <5>1. again[w] \in Seq(Again)
          BY <1>1 DEF WorkloadTypes
        <5> QED
          BY <4>1, <5>1, EmptySeq DEF QuietRotation
      <4>4. Len(again'[w]) + remeshed'[w] <= 1 /\ ~(remeshed'[w] > 0)
        <5>1. Len(again'[w]) = Len(again[w])
          BY <3>2
        <5>2. \A n \in {0, 1} : n + 0 <= 1 /\ ~(0 > 0)
          OBVIOUS
        <5> QED
          BY <4>2, <4>3, <5>1, <5>2
      <4> QED
        BY <2>1, <3>2, <4>1, <4>4 DEF QuietRotation
    <3> QED
      BY <2>1, <3>3, <3>4 DEF QuietMarks
  <2>6. CASE PollUntil
    <3>1. script.step = "poll" /\ script'.step = "measured" /\ EndReached
      BY <2>1, <2>6 DEF PollUntil
    <3>2. UNCHANGED <<view, previous, again, own, entry, held, remeshed>>
      BY <2>6 DEF PollUntil, workloadVars, processVars, logVars, spireVars
    <3>3. Rotating /\ Rotating'
      BY <1>5, <2>1, <3>1 DEF Rotating
    <3>4. ASSUME NEW w \in Workload
          PROVE  /\ QuietRotation(w, num)'
                 /\ remeshed[w] <= 1
      <4>1. QuietRotation(w, num)
        BY <1>1, <3>3 DEF QuietMarks
      <4>2. Len(again[w]) \in Nat /\ remeshed[w] \in Nat
        <5>1. again[w] \in Seq(Again) /\ remeshed[w] \in 0..MaxMarks
          BY <1>1 DEF WorkloadTypes
        <5> QED
          BY <5>1, Numbers
      <4>3. remeshed[w] <= 1
        BY <3>1, <4>1, <4>2 DEF QuietRotation
      <4> QED
        BY <2>1, <3>1, <3>2, <4>1, <4>3 DEF QuietRotation
    <3>5. ASSUME NEW w \in PeerWorkload
          PROVE  remeshed[w] > 0
      BY <1>1, <1>5, <3>1, <3>4, AllRemeshed
    <3>6. PeerWorkload' = PeerWorkload
      BY <2>1 DEF PeerWorkload, Peers
    <3> QED
      BY <2>1, <3>2, <3>3, <3>4, <3>5, <3>6 DEF QuietMarks
  <2> QED
    BY <2>1, <2>3, <2>4, <2>5, <2>6
<1> QED
  BY <1>1, <1>2, <1>3, <1>4, <1>5, ScriptSteps

LEMMA QuietNext ==
  ASSUME Core, Running => Quiet, Next, Running'
  PROVE  Quiet'
BY QuietStoresNext, QuietMarksNext DEF Quiet

\* What changes the stages, the ports to reach and the outcome of a round.
LEMMA RoundSteps ==
  ASSUME ScriptTypes, Next
  PROVE  \/ UNCHANGED <<stage, todo, reach, allFailed>>
         \/ SetupNClusters \/ SetupNewCluster \/ KillForRestart \/ RestartWorkloads
         \/ \E w \in Workload :
              /\ UNCHANGED <<scriptVars, view, reach>>
              /\ \/ InternalDone(w) \/ MeshDone(w) \/ RoundDone(w)
                 \/ \E p \in todo[w] : Talk(w, p)
                 \/ \E reached \in BOOLEAN :
                      /\ PeriodicSend(w, reached)
                      /\ faults' = faults => reached = Dials(w, Min(todo[w]))
<1>1. CASE ScriptStep
  BY <1>1, ScriptStepWorkloads
     DEF workloadVars, processVars, logVars, RecordEventFired, RecordRemovalStart
<1>2. ASSUME NEW w \in Workload, Works(w)
      PROVE  \/ UNCHANGED <<stage, todo, reach, allFailed>>
             \/ /\ UNCHANGED <<scriptVars, view, reach>>
                /\ \/ InternalDone(w) \/ MeshDone(w) \/ RoundDone(w)
                   \/ \E p \in todo[w] : Talk(w, p)
                   \/ \E reached \in BOOLEAN :
                        /\ PeriodicSend(w, reached)
                        /\ faults' = faults => reached = Dials(w, Min(todo[w]))
  <2>1. ByItself
    BY <1>2, WorksSteps
  <2>2. CASE SendsBy(w)
    <3>1. PICK reached \in BOOLEAN : /\ PeriodicSend(w, reached)
                                     /\ faults' = faults => reached = Dials(w, Min(todo[w]))
      BY <2>2, SendSteps
    <3>2. UNCHANGED <<view, reach>>
      BY <3>1 DEF PeriodicSend
    <3> QED
      BY <2>1, <3>1, <3>2 DEF ByItself
  <2>3. ASSUME NEW i, NEW p, TalkAgain(w, i, p) \/ TalkedAgain(w, i)
        PROVE  UNCHANGED <<stage, todo, reach, allFailed>>
    BY <2>3 DEF TalkAgain, TalkedAgain, CommunicatedAgain, logVars
  <2>4. CASE InternalDone(w) \/ MeshDone(w) \/ RoundDone(w) \/ \E p \in todo[w] : Talk(w, p)
    <3>1. UNCHANGED <<view, reach>>
      BY <2>4 DEF InternalDone, MeshDone, RoundDone, Talk
    <3> QED
      BY <2>1, <2>4, <3>1 DEF ByItself
  <2> QED
    BY <1>2, <2>2, <2>3, <2>4, WorksSteps
<1>3. CASE CommandFails \/ PollTimesOut \/ RunAddition \/ RunRotation \/ RunRemoval
  BY <1>3 DEF CommandFails, PollTimesOut, RunAddition, RunRotation, RunRemoval, Begin,
     workloadVars, processVars, logVars
<1>4. ASSUME NEW s \in Server,
             \/ Subscribe(s) \/ HandlerFails(s) \/ HandleEvent(s) \/ RenewSvids(s)
             \/ \E t \in Server : RefreshBundle(s, t)
      PROVE  UNCHANGED <<stage, todo, reach, allFailed>>
  BY <1>4 DEF Subscribe, HandlerFails, HandleEvent, RenewSvids, RefreshBundle, workloadVars,
     processVars, logVars
<1>5. ASSUME NEW w \in Workload, DeliverBundles(w)
      PROVE  UNCHANGED <<stage, todo, reach, allFailed>>
  BY <1>5 DEF DeliverBundles, OnX509BundlesUpdate, logVars
<1> QED
  BY <1>1, <1>2, <1>3, <1>4, <1>5, Steps

\* During a removal a restarted workload gets no bundle that it did not have.
LEMMA CutViews ==
  ASSUME Core, Running, Next, Running', Near, script.op = "removal",
         NEW w \in Of(script.num), NEW s \in Server, view[w][s] = Missing
  PROVE  view'[w][s] = Missing
<1>1. WorkloadTypes /\ ScriptTypes /\ StoreTypes /\ Shape /\ Ups /\ Base /\ Mesh /\ Watching
        /\ script.num \in Server
  BY DEF Core, Base, Types, ScriptTypes
<1>2. w \in Workload /\ w[1] = script.num
  BY <1>1, Workloads
<1>3. Joined(script.num) /\ script.step # "clusters"
  <2>1. script.step # "clusters"
    BY <1>1 DEF Shape
  <2> QED
    BY <1>1, <2>1, NumJoined
<1>4. w \in meshed
  BY <1>1, <1>2, <1>3 DEF Mesh, Joining
<1>5. s \notin entry[w]
  BY <1>1, <1>2, <1>4 DEF Watching
<1> QED
  BY <1>1, <1>2, <1>5, ViewsFrom

\* A dial that fails without a fault is one to a server that is not trusted.
LEMMA CutDial ==
  ASSUME Core, Running, Quiet, faults = 0, Near, script.op = "removal",
         script.step \notin {"kill", "respawn"},
         NEW w \in Of(script.num), NEW s \in Peers, NEW p \in GetPortsForServer(s), ~ Dials(w, p)
  PROVE  view[w][s] = Missing
<1>1. WorkloadTypes /\ ScriptTypes /\ StoreTypes /\ Shape /\ Ups /\ Trail /\ QuietStores
        /\ script.num \in Server
  BY DEF Core, Base, Types, ScriptTypes, Quiet
<1>2. w \in Workload /\ w[1] = script.num
  BY <1>1, Workloads
<1>3. s \in Server /\ Joined(s)
  <2>1. ~ At("creation", "clusters") /\ Peers \subseteq 1..Newest
    BY <1>1 DEF At, Peers, Shape
  <2>2. Newest \in Server /\ \A t \in 1..Newest : Joined(t)
    BY <1>1, <2>1, NewestFacts
  <2>3. \A n \in Server : 1..n \subseteq Server
    BY Numbers DEF Server
  <2> QED
    BY <2>1, <2>2, <2>3
<1>4. \A v \in Of(s) : stage[v] # "off"
  <2> TAKE v \in Of(s)
  <2>1. v \in Workload /\ v[1] = s
    BY <1>3, Workloads
  <2>2. reach[v] > 0 /\ reach[v] \in Nat
    BY <1>1, <1>3, <2>1, ReachFacts
  <2>3. reach[v] # 0 /\ ~ At("removal", "respawn")
    BY <2>2 DEF At
  <2> QED
    BY <1>1, <2>1, <2>3, Zenon DEF Ups
<1>5. svid[s] \notin 0..view[w][s]
  BY <1>2, <1>3, <1>4, VerifiedDials DEF Verifies
<1>6. view[w][s] \in {Missing, own[s]}
  BY <1>1, <1>2, <1>3 DEF QuietStores, Values
<1>7. svid[s] \in 0..own[s]
  <2>1. svid[s] \in Nat /\ own[s] \in Nat /\ active[s] \in Nat
    BY <1>1, <1>3, StoreNumbers
  <2>2. svid[s] <= active[s] /\ active[s] <= own[s]
    BY <1>1, <1>3 DEF Trail
  <2> QED
    BY <2>1, <2>2
<1> QED
  BY <1>5, <1>6, <1>7

\* A round of sends goes on: what it has left to dial, or what it has found.
LEMMA CutRound ==
  ASSUME Core, Running, Quiet, Next, Running', faults' = faults, faults = 0, Near,
         script.op = "removal", script.step \notin {"kill", "respawn"},
         NEW w \in Of(script.num), reach[w] = script.count, NEW s \in Peers,
         stage[w] = "periodic" /\ allFailed[w] =>
           GetPortsForServer(s) \subseteq todo[w] \/ view[w][s] = Missing,
         stage[w] = "silent" => view[w][s] = Missing
  PROVE  /\ reach'[w] = reach[w]
         /\ stage'[w] = "periodic" /\ allFailed'[w] =>
              GetPortsForServer(s) \subseteq todo'[w] \/ view'[w][s] = Missing
         /\ stage'[w] = "silent" => view'[w][s] = Missing
<1>1. WorkloadTypes /\ ScriptTypes /\ StoreTypes /\ Shape /\ Ups /\ script.num \in Server
  BY DEF Core, Base, Types, ScriptTypes
<1>2. w \in Workload /\ w[1] = script.num /\ w[1] \in Server
  BY <1>1, Workloads
<1>3. s \in Server /\ s \in (1..script.count) \ {w[1]} /\ script.count \in Server
  <2>1. \A n \in Server : 1..n \subseteq Server
    BY Numbers DEF Server
  <2>2. script.count \in Server
    BY <1>1 DEF ScriptTypes
  <2> QED
    BY <1>2, <2>1, <2>2 DEF Peers
<1>4. view[w][s] = Missing => view'[w][s] = Missing
  BY <1>3, CutViews
<1>5. GetPortsForServer(s) \subseteq GenerateExternalPorts(w[1], reach[w])
  <2>1. \A n \in Server : n \in 0..MaxServer
    BY Numbers DEF Server
  <2>2. reach[w] \in 0..MaxServer
    BY <1>3, <2>1
  <2>3. \A t \in (1..reach[w]) \ {w[1]} :
          GetPortsForServer(t) \subseteq GenerateExternalPorts(w[1], reach[w])
    BY <1>2, <2>2, ExternalPorts
  <2> QED
    BY <1>3, <2>3
<1>6. CASE UNCHANGED <<stage, todo, reach, allFailed>>
  BY <1>4, <1>6
<1>7. ~ SetupNClusters /\ ~ SetupNewCluster /\ ~ KillForRestart /\ ~ RestartWorkloads
  BY DEF SetupNClusters, SetupNewCluster, KillForRestart, RestartWorkloads, At
<1>8. ASSUME NEW v \in Workload, InternalDone(v) \/ MeshDone(v) \/ (\E p \in todo[v] : Talk(v, p))
      PROVE  /\ reach'[w] = reach[w]
             /\ w = v => stage'[w] \notin {"periodic", "silent"}
             /\ w # v => UNCHANGED <<stage[w], todo[w], allFailed[w]>>
  BY <1>1, <1>2, <1>8 DEF InternalDone, MeshDone, Talk, WorkloadTypes
<1>9. ASSUME NEW v \in Workload, RoundDone(v)
      PROVE  /\ reach'[w] = reach[w]
             /\ stage'[w] = "periodic" /\ allFailed'[w] =>
                  GetPortsForServer(s) \subseteq todo'[w] \/ view'[w][s] = Missing
             /\ stage'[w] = "silent" => view'[w][s] = Missing
  <2>1. stage[v] = "periodic" /\ todo[v] = {} /\ UNCHANGED reach
          /\ IF allFailed[v]
             THEN stage' = [stage EXCEPT ![v] = "silent"] /\ UNCHANGED <<todo, allFailed>>
             ELSE /\ todo' = [todo EXCEPT ![v] = GenerateExternalPorts(v[1], reach[v])]
                  /\ UNCHANGED stage
    BY <1>9 DEF RoundDone
  <2>2. CASE w = v
    <3>1. CASE allFailed[v]
      <4>1. view[w][s] = Missing
        BY <1>3, <2>1, <2>2, <3>1, SomePort
      <4> QED
        BY <1>4, <2>1, <4>1
    <3>2. CASE ~ allFailed[v]
      <4>1. todo'[w] = GenerateExternalPorts(w[1], reach[w]) /\ stage'[w] = "periodic"
        BY <1>1, <1>2, <2>1, <2>2, <3>2 DEF WorkloadTypes
      <4> QED
        BY <1>5, <2>1, <4>1
    <3> QED
      BY <3>1, <3>2
  <2>3. CASE w # v
    <3>1. UNCHANGED <<stage[w], todo[w], allFailed[w]>>
      BY <1>1, <1>2, <1>9, <2>3 DEF RoundDone, WorkloadTypes
    <3> QED
      BY <1>4, <2>1, <3>1
  <2> QED
    BY <2>2, <2>3
<1>10. ASSUME NEW v \in Workload, NEW reached \in BOOLEAN, PeriodicSend(v, reached),
              reached = Dials(v, Min(todo[v]))
       PROVE  /\ reach'[w] = reach[w]
              /\ stage'[w] = "periodic" /\ allFailed'[w] =>
                   GetPortsForServer(s) \subseteq todo'[w] \/ view'[w][s] = Missing
              /\ stage'[w] = "silent" => view'[w][s] = Missing
  <2> DEFINE p == Min(todo[v])
  <2>1. /\ stage[v] = "periodic" /\ UNCHANGED <<stage, reach, view>>
        /\ todo' = [todo EXCEPT ![v] = @ \ {p}]
        /\ allFailed' = [allFailed EXCEPT ![v] = @ /\ ~ reached]
    BY <1>10 DEF PeriodicSend
  <2>2. reached = Dials(v, p)
    BY <1>10
  <2> HIDE DEF p
  <2>3. CASE w = v
    <3>1. todo'[w] = todo[w] \ {p}
      BY <1>1, <1>2, <2>1, <2>3 DEF WorkloadTypes
    <3>2. allFailed'[w] => allFailed[w] /\ ~ Dials(w, p)
      BY <1>1, <1>2, <2>1, <2>2, <2>3 DEF WorkloadTypes
    <3>3. p \in GetPortsForServer(s) /\ ~ Dials(w, p) => view[w][s] = Missing
      BY CutDial
    <3> QED
      BY <1>4, <2>1, <2>3, <3>1, <3>2, <3>3
  <2>4. CASE w # v
    <3>1. UNCHANGED <<todo[w], allFailed[w]>>
      BY <1>1, <1>2, <2>1, <2>4 DEF WorkloadTypes
    <3> QED
      BY <1>4, <2>1, <3>1
  <2> QED
    BY <2>3, <2>4
<1>11. ASSUME NEW v \in Workload, InternalDone(v) \/ MeshDone(v) \/ (\E p \in todo[v] : Talk(v, p))
       PROVE  /\ reach'[w] = reach[w]
              /\ stage'[w] = "periodic" /\ allFailed'[w] =>
                   GetPortsForServer(s) \subseteq todo'[w] \/ view'[w][s] = Missing
              /\ stage'[w] = "silent" => view'[w][s] = Missing
  BY <1>4, <1>8, <1>11
<1> QED
  BY <1>1, <1>6, <1>7, <1>9, <1>10, <1>11, RoundSteps

LEMMA CutNext ==
  ASSUME Core, Running => Quiet /\ Cut, Next, Running'
  PROVE  Cut'
<1> DEFINE num == script.num
<1>1. WorkloadTypes /\ ScriptTypes /\ Shape /\ Running /\ num \in Server
  BY Living DEF Core, Base, Types, ScriptTypes
<1>2. ASSUME Near, faults' = 0, script'.op = "removal",
             script'.step \notin {"kill", "respawn"}
      PROVE  \A w \in Of(script'.num) :
               /\ reach'[w] = script'.count
               /\ \A s \in Peers' :
                    /\ stage'[w] = "periodic" /\ allFailed'[w] =>
                         GetPortsForServer(s) \subseteq todo'[w] \/ view'[w][s] = Missing
                    /\ stage'[w] = "silent" => view'[w][s] = Missing
  <2>1. faults = 0 /\ Quiet
    BY <1>1, <1>2, FaultsGrow
  <2>2. /\ script.op = "removal" /\ script'.num = num /\ script'.count = script.count
        /\ script.step \in {"kill", "respawn"} => script.step = "respawn" /\ RestartWorkloads
    <3>1. CASE UNCHANGED scriptVars
      BY <1>2, <3>1 DEF scriptVars
    <3>2. CASE ScriptStep
      BY <1>1, <1>2, <3>2, ScriptOrder
    <3>3. ~ RunAddition /\ ~ RunRotation /\ ~ RunRemoval
      BY <1>2 DEF RunAddition, RunRotation, RunRemoval, Begin
    <3> QED
      BY <3>1, <3>2, <3>3, <1>1, ScriptSteps
  <2>3. Peers' = Peers
    BY <2>2 DEF Peers
  <2>4. CASE script.step \notin {"kill", "respawn"}
    <3>1. \A w \in Of(num) :
            /\ reach[w] = script.count
            /\ \A s \in Peers :
                 /\ stage[w] = "periodic" /\ allFailed[w] =>
                      GetPortsForServer(s) \subseteq todo[w] \/ view[w][s] = Missing
                 /\ stage[w] = "silent" => view[w][s] = Missing
      BY <1>1, <1>2, <2>1, <2>2, <2>4 DEF Cut
    <3>2. \A w \in Of(num) : reach'[w] = reach[w]
      <4>1. ~ SetupNClusters /\ ~ SetupNewCluster /\ ~ RestartWorkloads
        BY <2>2, <2>4 DEF SetupNClusters, SetupNewCluster, RestartWorkloads, At
      <4>2. KillForRestart => UNCHANGED reach
        BY DEF KillForRestart, KillWorkloads
      <4>3. \A w \in Workload : InternalDone(w) \/ MeshDone(w) \/ RoundDone(w) => UNCHANGED reach
        BY DEF InternalDone, MeshDone, RoundDone
      <4> QED
        BY <4>1, <4>2, <4>3, StageSteps
    <3>3. faults' = faults
      BY <1>2, <2>1
    <3>4. ASSUME NEW w \in Of(num), NEW s \in Peers
          PROVE  /\ stage'[w] = "periodic" /\ allFailed'[w] =>
                      GetPortsForServer(s) \subseteq todo'[w] \/ view'[w][s] = Missing
                 /\ stage'[w] = "silent" => view'[w][s] = Missing
      BY <1>1, <1>2, <2>1, <2>2, <2>4, <3>1, <3>3, CutRound
    <3> QED
      BY <2>2, <2>3, <3>1, <3>2, <3>4
  <2>5. CASE RestartWorkloads
    <3>1. ASSUME NEW w \in Of(num)
          PROVE  /\ reach'[w] = script.count /\ stage'[w] = "periodic"
                 /\ todo'[w] = GenerateExternalPorts(num, script.count)
      <4>1. w \in Workload /\ w \in Of(num)
        BY <1>1, Workloads
      <4> QED
        BY <2>5, <4>1 DEF RestartWorkloads, StartWorkloads
    <3>2. ASSUME NEW s \in Peers
          PROVE  GetPortsForServer(s) \subseteq GenerateExternalPorts(num, script.count)
      <4>1. \A n \in Server : n \in 0..MaxServer
        BY Numbers DEF Server
      <4>2. script.count \in 0..MaxServer
        BY <1>1, <4>1 DEF ScriptTypes
      <4> QED
        BY <1>1, <4>2, ExternalPorts DEF Peers
    <3> QED
      BY <2>2, <2>3, <3>1, <3>2
  <2> QED
    BY <2>2, <2>4, <2>5
<1> QED
  BY <1>2 DEF Cut

-----------------------------------------------------------------------------
(* What the measurements say                                               *)

Marks == Arrived /\ Silence /\ Stalls /\ Quiet /\ Cut
Inv == Core /\ (Running => Marks)

LEMMA InvInit == ScriptsInit => Inv
<1> SUFFICES ASSUME ScriptsInit
             PROVE  Inv
  OBVIOUS
<1>1. Core
  BY CoreInit
<1>2. /\ script.op = "creation" /\ silent = {} /\ published = NoBundles
      /\ \A w \in Workload : stage[w] = "off" /\ again[w] = <<>>
      /\ \A w \in Workload : \A t \in Server : view[w][t] = Missing /\ previous[w][t] = Missing
      /\ \A s, t \in Server : held[s][t] = Missing
  BY DEF ScriptsInit, WorkloadInit, NoBundles
<1>3. Arrived /\ Silence /\ Stalls /\ Cut
  BY <1>2 DEF Arrived, Silence, Stalls, Cut, Measured
<1>4. Quiet
  <2>1. QuietStores
    BY <1>2 DEF QuietStores, Values, NoBundles
  <2>2. QuietMarks
    BY <1>2 DEF QuietMarks, Rotating, Measured
  <2> QED
    BY <2>1, <2>2 DEF Quiet
<1> QED
  BY <1>1, <1>3, <1>4 DEF Inv, Marks

LEMMA InvStutters ==
  ASSUME Inv, UNCHANGED vars
  PROVE  Inv'
<1>1. UNCHANGED <<stage, todo, reach, allFailed, again, view, previous, remeshed, silent, script,
                  own, held, entry, published, applied, deleted, overlooked, faults>>
  BY DEF vars, workloadVars, processVars, logVars, scriptVars, spireVars, listenerVars
<1>2. Core'
  BY CoreStutters DEF Inv
<1>3. Running' => Running
  BY <1>1 DEF Running
<1>4. Peers' = Peers /\ PeerWorkload' = PeerWorkload /\ Of(script.num)' = Of(script.num)
        /\ (Rotating' <=> Rotating)
        /\ \A t \in Server : Values(t)' = Values(t) /\ GetPortsForServer(t)' = GetPortsForServer(t)
  BY <1>1 DEF Peers, PeerWorkload, Of, Rotating, Values, GetPortsForServer
<1>5. Arrived => Arrived'
  BY <1>1, <1>4 DEF Arrived
<1>6. Silence => Silence'
  BY <1>1, <1>4 DEF Silence, Measured, Of
<1>7. Stalls => Stalls'
  BY <1>1, <1>4 DEF Stalls, Explained
<1>8. Quiet => Quiet'
  <2>1. QuietStores => QuietStores'
    BY <1>1, <1>4 DEF QuietStores
  <2>2. ASSUME NEW w \in Workload
        PROVE  QuietRotation(w, script.num)' <=> QuietRotation(w, script.num)
    BY <1>1 DEF QuietRotation
  <2>3. QuietMarks => QuietMarks'
    BY <1>1, <1>4, <2>2 DEF QuietMarks, Measured
  <2> QED
    BY <1>1, <2>1, <2>3 DEF Quiet
<1>9. Cut => Cut'
  BY <1>1, <1>4 DEF Cut
<1> QED
  BY <1>2, <1>3, <1>5, <1>6, <1>7, <1>8, <1>9 DEF Inv, Marks

LEMMA InvNext ==
  ASSUME Inv, Next
  PROVE  Inv'
<1>1. Core'
  BY CoreNext DEF Inv
<1>2. ASSUME Running'
      PROVE  Marks'
  BY <1>2, ArrivedNext, SilenceNext, StallsNext, QuietNext, CutNext DEF Inv, Marks
<1> QED
  BY <1>1, <1>2 DEF Inv

\* The inductive invariant of the measurements: what the applied and the
\* deleted markers say of the stores, which workloads have been silenced and
\* why, why a peer has no fresh marker, what bundles there can be without a
\* fault and what a failing round of sends has found out.
THEOREM InvInvariance == Spec => []Inv
<1>1. ScriptsInit => Inv
  BY InvInit
<1>2. Inv /\ [Next]_vars => Inv'
  BY InvNext, InvStutters
<1> QED
  BY <1>1, <1>2, PTL DEF Spec

\* RotationHasArrived, for any number of servers, workloads, scripts and
\* faults: the markers of a rotation imply that the polled peers' stores hold
\* the new bundle, although listeners handle older events in between and import
\* whatever is published by then.
THEOREM RotationsArrive == Spec => []RotationHasArrived
<1>1. Inv => RotationHasArrived
  <2> SUFFICES ASSUME Inv, Measured("rotation"), NEW w \in PeerWorkload
               PROVE  /\ held[w[1]][script.num] = own[script.num]
                      /\ faults > 0 \/ view[w][script.num] = own[script.num]
    BY DEF RotationHasArrived
  <2>1. script.op = "rotation" /\ script.step = "measured" /\ Running
    BY DEF Measured, Running
  <2>2. Core /\ ScriptTypes /\ Arrived /\ Quiet /\ script.num \in Server
    BY <2>1 DEF Inv, Marks, Core, Base, Types, ScriptTypes
  <2>3. w \in Workload /\ w[1] \in Server /\ w[1] \in Peers
    BY Workloads DEF PeerWorkload
  <2>4. held[w[1]][script.num] = own[script.num]
    BY <2>1, <2>2, <2>3 DEF Arrived
  <2>5. faults = 0 \/ faults > 0
    BY <2>2, Numbers DEF ScriptTypes
  <2>6. faults = 0 => view[w][script.num] = own[script.num]
    BY <2>1, <2>2, <2>3, RotationOver
  <2> QED
    BY <2>4, <2>5, <2>6
<1> QED
  BY <1>1, InvInvariance, PTL

\* StallsAreExplained, whatever the port numbers: a poll of a rotation can wait
\* for ever on a workload only because of an event or a bundle that did not come,
\* of an entry without the server, or because the workload had done with the
\* update before its marker counted.
THEOREM RotationsStallForCause == Spec => []StallsAreExplained
<1>1. Inv /\ Near => StallsAreExplained
  <2> SUFFICES ASSUME Inv, Near, At("rotation", "poll"), NEW w \in PeerWorkload
               PROVE  \/ remeshed[w] > 0
                      \/ \E i \in DOMAIN again[w] : again[w][i].target = script.num
                      \/ view[w][script.num] # own[script.num]
                      \/ script.num \notin entry[w]
                      \/ w \in overlooked
    BY DEF StallsAreExplained
  <2>1. script.op = "rotation" /\ script.step = "poll" /\ Running
    BY DEF At, Running
  <2>2. Explained(w)
    BY <2>1 DEF Inv, Marks, Stalls
  <2> QED
    BY <2>2 DEF Explained
<1>2. (Running => Apart) => StallsAreExplained
  BY DEF Apart, Running, StallsAreExplained, At
<1>3. Near => (Spec => []StallsAreExplained)
  <2> SUFFICES ASSUME Near
               PROVE  Spec => []StallsAreExplained
    OBVIOUS
  <2>1. Inv => StallsAreExplained
    BY <1>1
  <2> QED
    BY <2>1, InvInvariance, PTL
<1>4. ~ Near => (Spec => []StallsAreExplained)
  <2> SUFFICES ASSUME ~ Near
               PROVE  Spec => []StallsAreExplained
    OBVIOUS
  <2>1. Base /\ (Running => Apart) => StallsAreExplained
    BY <1>2
  <2>2. Spec => [](Base /\ (Running => Apart))
    BY ApartInvariance
  <2> QED
    BY <2>1, <2>2, PTL
<1> QED
  BY <1>3, <1>4

\* RemovalIsSilence, whatever the port numbers: the markers of a removal imply that no peer's store and no entry names
\* the removed server and that its workloads have stopped sending, because they
\* had no bundle left to reach anybody with unless a dial timed out.
THEOREM RemovalsSilence == Spec => []RemovalIsSilence
<1>1. Inv /\ Near => RemovalIsSilence
  <2> SUFFICES ASSUME Inv, Near, Measured("removal")
               PROVE  /\ \A w \in PeerWorkload :
                           held[w[1]][script.num] = Missing /\ script.num \notin entry[w]
                      /\ \A w \in Of(script.num) :
                           /\ stage[w] = "silent"
                           /\ faults > 0 \/ \A s \in Peers : ~ Trusts(w, s)
    BY DEF RemovalIsSilence
  <2>1. script.op = "removal" /\ script.step = "measured" /\ Running
    BY DEF Measured, Running
  <2>2. Silence /\ Cut /\ ScriptTypes /\ StoreTypes /\ script.num \in Server
    BY <2>1 DEF Inv, Marks, Core, Base, Types, ScriptTypes
  <2>3. Peers \X {script.num} \subseteq deleted /\ Of(script.num) \subseteq silent
    BY <2>2 DEF Silence
  <2>4. ASSUME NEW w \in PeerWorkload
        PROVE  held[w[1]][script.num] = Missing /\ script.num \notin entry[w]
    <3>1. w \in Workload /\ w[1] \in Server /\ w[1] \in Peers /\ w \in Of(w[1])
      BY Workloads DEF PeerWorkload
    <3>2. <<w[1], script.num>> \in deleted
      BY <2>3, <3>1
    <3> QED
      BY <2>1, <2>2, <3>1, <3>2 DEF Silence
  <2>5. ASSUME NEW w \in Of(script.num)
        PROVE  stage[w] = "silent"
    BY <2>2, <2>3 DEF Silence
  <2>6. ASSUME NEW w \in Of(script.num), NEW s \in Peers, faults = 0
        PROVE  ~ Trusts(w, s)
    <3>1. view[w][s] = Missing
      BY <2>1, <2>2, <2>5, <2>6 DEF Cut
    <3>2. s \in Server /\ s # script.num
      <4>1. \A n \in Server : 1..n \subseteq Server
        BY Numbers DEF Server
      <4> QED
        BY <2>2, <4>1 DEF Peers, ScriptTypes
    <3>3. w[1] = script.num /\ svid[s] \in Nat
      BY <2>2, <3>2, Workloads, StoreNumbers
    <3>4. svid[s] \notin 0..view[w][s]
      BY <3>1, <3>3 DEF Missing
    <3> QED
      BY <3>2, <3>3, <3>4 DEF Trusts, HandleConnection, Verifies
  <2>7. faults = 0 \/ faults > 0
    BY <2>2, Numbers DEF ScriptTypes
  <2> QED
    BY <2>4, <2>5, <2>6, <2>7
<1>2. (Running => Apart) => RemovalIsSilence
  BY DEF Apart, Running, RemovalIsSilence, Measured
<1>3. Near => (Spec => []RemovalIsSilence)
  <2> SUFFICES ASSUME Near
               PROVE  Spec => []RemovalIsSilence
    OBVIOUS
  <2>1. Inv => RemovalIsSilence
    BY <1>1
  <2> QED
    BY <2>1, InvInvariance, PTL
<1>4. ~ Near => (Spec => []RemovalIsSilence)
  <2> SUFFICES ASSUME ~ Near
               PROVE  Spec => []RemovalIsSilence
    OBVIOUS
  <2>1. Base /\ (Running => Apart) => RemovalIsSilence
    BY <1>2
  <2>2. Spec => [](Base /\ (Running => Apart))
    BY ApartInvariance
  <2> QED
    BY <2>1, <2>2, PTL
<1> QED
  BY <1>3, <1>4

-----------------------------------------------------------------------------
(* The ports that are dialled                                              *)

Redial(w) == [target : Server \ {w[1]}, todo : SUBSET DialPorts]
Dialled == \A w \in Workload : todo[w] \subseteq DialPorts /\ again[w] \in Seq(Redial(w))

LEMMA TargetPorts ==
  ASSUME NEW w \in Workload
  PROVE  /\ MakeArray(Port(w)) \subseteq DialPorts
         /\ \A t \in Server : GetPortsForServer(t) \subseteq DialPorts
<1>1. /\ w[1] \in 1..MaxServer /\ w[1] \in Nat /\ w[2] \in 0..3 /\ ListenBase \in Nat
      /\ DialBase \in Nat /\ DialBase <= ListenBase /\ Size \in Nat /\ Size <= 4 /\ MaxServer \in Nat
  <2>1. w[1] \in Server /\ w[2] \in 0..Size - 1 /\ w[1] \in Nat
    BY Workloads
  <2>2. \A n \in 0..Size - 1 : n \in 0..3
    BY Numbers
  <2> QED
    BY <2>1, <2>2, Numbers, SizesAssumption DEF Server
<1> DEFINE s == w[1]
           i == w[2]
           port == Port(w)
<1>2. port = ListenBase + (s - 1) * 6 + i
  BY DEF Port
<1> HIDE DEF s, i, port
<1>3. s \in 1..MaxServer /\ s \in Nat /\ i \in 0..3
  BY <1>1 DEF s, i
<1>4. port \in Nat /\ DialBase <= port /\ port + 3 <= ListenBase + MaxServer * 6
  BY <1>1, <1>2, <1>3
<1>5. MakeArray(port) \subseteq DialBase .. ListenBase + MaxServer * 6
  <2> DEFINE block == (port - DialBase) \div 6
             base  == DialBase + block * 6
  <2>1. block \in Nat /\ block * 6 <= port - DialBase
    BY <1>1, <1>4
  <2> HIDE DEF block
  <2>2. base \in Nat /\ DialBase <= base /\ base + Size - 1 <= port + 3
    BY <1>1, <1>4, <2>1
  <2> HIDE DEF base
  <2>3. MakeArray(port) = (base .. base + Size - 1) \ {port}
    BY DEF MakeArray, base, block
  <2> QED
    BY <1>1, <1>4, <2>2, <2>3
<1>6. ASSUME NEW t \in Server, NEW p \in GetPortsForServer(t)
      PROVE  p \in DialBase .. ListenBase + MaxServer * 6
  <2>1. t \in Nat /\ 1 <= t /\ t <= MaxServer
    BY Numbers DEF Server
  <2>2. p \in Int /\ p >= DialBase + (t - 1) * 6 /\ p <= DialBase + (t - 1) * 6 + Size - 1
    BY <1>1, <1>6, <2>1 DEF GetPortsForServer
  <2> QED
    BY <1>1, <2>1, <2>2
<1> QED
  BY <1>5, <1>6 DEF DialPorts, port

\* A restarted server's ports, and those of a workload that goes external.
LEMMA ExternalTargets ==
  ASSUME NEW w \in Workload, NEW max \in 0..MaxServer
  PROVE  GenerateExternalPorts(w[1], max) \subseteq DialPorts
<1>1. w[1] \in Server
  BY Workloads
<1>2. \A p \in GenerateExternalPorts(w[1], max) :
        \E t \in (1..max) \ {w[1]} : t \in Server /\ p \in GetPortsForServer(t)
  BY <1>1, ExternalPorts
<1> QED
  BY <1>2, TargetPorts

LEMMA DialledStart ==
  ASSUME Dialled, NEW s \in Server, NEW max \in Server, NEW skip \in BOOLEAN,
         StartWorkloads(s, max, skip)
  PROVE  Dialled'
<1>1. \A n \in Server : n \in 0..MaxServer
  BY Numbers DEF Server
<1>2. ASSUME NEW w \in Workload
      PROVE  todo'[w] \subseteq DialPorts /\ again'[w] \in Seq(Redial(w))
  <2>1. CASE w \notin Of(s)
    BY <2>1 DEF StartWorkloads, Dialled
  <2>2. CASE w \in Of(s)
    <3>1. w[1] = s
      BY <2>2, Workloads
    <3>2. todo'[w] \in {GenerateExternalPorts(w[1], max), MakeArray(Port(w))} /\ again'[w] = <<>>
      BY <2>2, <3>1 DEF StartWorkloads
    <3>3. GenerateExternalPorts(w[1], max) \subseteq DialPorts
      BY <1>1, ExternalTargets
    <3>4. <<>> \in Seq(Redial(w))
      OBVIOUS
    <3> QED
      BY <3>2, <3>3, <3>4, TargetPorts
  <2> QED
    BY <2>1, <2>2
<1>3. \A w \in Workload : Redial(w)' = Redial(w)
  BY DEF Redial
<1> QED
  BY <1>2, <1>3 DEF Dialled

LEMMA DialledTodo ==
  ASSUME WorkloadTypes, ScriptTypes, Dialled, Next, NEW w \in Workload,
         ~ SetupNewCluster, ~ RestartWorkloads
  PROVE  todo'[w] \subseteq DialPorts
<1>1. todo[w] \subseteq DialPorts /\ MakeArray(Port(w)) \subseteq DialPorts
  BY TargetPorts DEF Dialled
<1>2. CASE SetupNClusters
  BY <1>1, <1>2 DEF SetupNClusters
<1>3. CASE KillForRestart
  BY <1>1, <1>3 DEF KillForRestart, KillWorkloads
<1>4. ASSUME NEW v \in Workload, InternalDone(v) \/ RoundDone(v)
      PROVE  todo'[w] \subseteq DialPorts
  <2>1. todo'[w] = todo[w] \/ (v = w /\ todo'[w] = GenerateExternalPorts(w[1], reach[w]))
    <3>1. CASE InternalDone(v)
      BY <3>1 DEF InternalDone, WorkloadTypes
    <3>2. CASE RoundDone(v)
      BY <3>2 DEF RoundDone, WorkloadTypes
    <3> QED
      BY <1>4, <3>1, <3>2
  <2>2. reach[w] \in 0..MaxServer
    BY DEF WorkloadTypes
  <2> QED
    BY <1>1, <2>1, <2>2, ExternalTargets
<1>5. ASSUME NEW v \in Workload,
             \/ MeshDone(v) \/ \E p \in todo[v] : Talk(v, p)
             \/ \E reached \in BOOLEAN : PeriodicSend(v, reached)
      PROVE  todo'[w] \subseteq todo[w]
  <2>1. ASSUME NEW p, todo' = [todo EXCEPT ![v] = @ \ {p}]
        PROVE  todo'[w] \subseteq todo[w]
    <3>1. todo'[w] = IF w = v THEN todo[w] \ {p} ELSE todo[w]
      BY <2>1 DEF WorkloadTypes
    <3> QED
      BY <3>1
  <2>2. CASE MeshDone(v)
    BY <2>2 DEF MeshDone
  <2>3. CASE \E p \in todo[v] : Talk(v, p)
    BY <2>1, <2>3 DEF Talk
  <2>4. CASE \E reached \in BOOLEAN : PeriodicSend(v, reached)
    <3>1. todo' = [todo EXCEPT ![v] = @ \ {Min(todo[v])}]
      BY <2>4 DEF PeriodicSend
    <3> QED
      BY <2>1, <3>1
  <2> QED
    BY <1>5, <2>2, <2>3, <2>4
<1> QED
  BY <1>1, <1>2, <1>3, <1>4, <1>5, RoundSteps

LEMMA DialledAgainNext ==
  ASSUME WorkloadTypes, ScriptTypes, StoreTypes, Dialled, Next,
         NEW w \in Workload, ~ SetupNewCluster, ~ RestartWorkloads
  PROVE  again'[w] \in Seq(Redial(w))
<1>1. again[w] \in Seq(Redial(w)) /\ <<>> \in Seq(Redial(w))
  BY DEF Dialled
<1>2. CASE KillForRestart
  BY <1>1, <1>2 DEF KillForRestart, KillWorkloads
<1>3. ASSUME NEW v \in Workload, NEW i \in DOMAIN again[v], NEW p \in again[v][i].todo,
             TalkAgain(v, i, p)
      PROVE  again'[w] \in Seq(Redial(w))
  <2> DEFINE less == [again[v][i] EXCEPT !.todo = again[v][i].todo \ {p}]
  <2>1. again' = [again EXCEPT ![v] = [again[v] EXCEPT ![i] = less]]
    BY <1>3 DEF TalkAgain
  <2>2. w = v => less \in Redial(w)
    <3>1. w = v => again[v][i] \in Redial(w)
      BY <1>1, <1>3, ElementOfSeq
    <3> QED
      BY <3>1 DEF Redial
  <2> HIDE DEF less
  <2>3. again'[w] = IF w = v THEN [again[w] EXCEPT ![i] = less] ELSE again[w]
    BY <2>1 DEF WorkloadTypes
  <2>4. w = v => [again[w] EXCEPT ![i] = less] \in Seq(Redial(w))
    BY <1>1, <1>3, <2>2
  <2> QED
    BY <1>1, <2>3, <2>4
<1>4. ASSUME NEW v \in Workload, NEW i \in DOMAIN again[v], TalkedAgain(v, i)
      PROVE  again'[w] \in Seq(Redial(w))
  <2>1. /\ \A u \in Workload \ {v} : again'[u] = again[u]
        /\ again'[v] = RemoveAt(again[v], i)
    BY <1>4, EndedAgain
  <2>2. w = v => RemoveAt(again[w], i) \in Seq(Redial(w))
    BY <1>1, <1>4, RemoveAtFacts
  <2> QED
    BY <1>1, <2>1, <2>2
<1>5. ASSUME NEW v \in Workload, DeliverBundles(v)
      PROVE  again'[w] \in Seq(Redial(w))
  <2>1. PICK bundles \in Deliverable(v) : OnX509BundlesUpdate(v, bundles)
    BY <1>5 DEF DeliverBundles
  <2> DEFINE last == Max(Updated(v, bundles))
             new == [target |-> last, todo |-> GetPortsForServer(last)]
  <2>2. IF Updated(v, bundles) # {} /\ Finished(v)
        THEN again' = [again EXCEPT ![v] = Append(@, new)]
        ELSE again' = again
    BY <2>1 DEF OnX509BundlesUpdate
  <2>3. Updated(v, bundles) # {} => new \in Redial(v)
    <3>1. Updated(v, bundles) \in SUBSET Server
      BY <2>1, DeliveredAgain
    <3>2. Updated(v, bundles) # {} => last \in Updated(v, bundles) /\ last \in Server
      BY <3>1, LargestServer
    <3> HIDE DEF last
    <3>3. Updated(v, bundles) # {} => last \in Server \ {v[1]}
      BY <3>2 DEF Updated, Watched
    <3>4. Updated(v, bundles) # {} => GetPortsForServer(last) \subseteq DialPorts
      BY <3>3, TargetPorts
    <3> QED
      BY <3>3, <3>4 DEF Redial
  <2> HIDE DEF new, last
  <2>4. CASE again' = again
    BY <1>1, <2>4
  <2>5. CASE again' = [again EXCEPT ![v] = Append(@, new)] /\ Updated(v, bundles) # {}
    <3>1. again'[w] = IF w = v THEN Append(again[w], new) ELSE again[w]
      BY <2>5 DEF WorkloadTypes
    <3>2. w = v => Append(again[w], new) \in Seq(Redial(w))
      BY <1>1, <2>3, <2>5, AppendProperties
    <3> QED
      BY <1>1, <3>1, <3>2
  <2> QED
    BY <2>2, <2>4, <2>5
<1> QED
  BY <1>1, <1>2, <1>3, <1>4, <1>5, AgainSteps DEF RecordEventFired, processVars

LEMMA DialledNext ==
  ASSUME Base, Dialled, Next
  PROVE  Dialled'
<1>1. WorkloadTypes /\ ScriptTypes /\ StoreTypes
  BY DEF Base, Types
<1>2. CASE SetupNewCluster \/ RestartWorkloads
  <2>1. script.num \in Server /\ script.count \in Server
    BY <1>1 DEF ScriptTypes
  <2> QED
    BY <1>2, <2>1, DialledStart DEF SetupNewCluster, RestartWorkloads
<1>3. CASE ~ SetupNewCluster /\ ~ RestartWorkloads
  <2>1. \A w \in Workload : Redial(w)' = Redial(w)
    BY DEF Redial
  <2>2. \A w \in Workload : todo'[w] \subseteq DialPorts /\ again'[w] \in Seq(Redial(w))
    BY <1>1, <1>3, DialledTodo, DialledAgainNext
  <2> QED
    BY <2>1, <2>2 DEF Dialled
<1> QED
  BY <1>2, <1>3

\* ScriptsTypeOK, whatever the port numbers: every variable has its type, no
\* workload is set to dial its own server again for a rotation, and SVIDs and
\* published bundles trail what the servers have prepared.
THEOREM TypeCorrectness == Spec => []ScriptsTypeOK
<1>1. ScriptsInit => Dialled
  BY DEF ScriptsInit, WorkloadInit, Dialled
<1>2. Base /\ Dialled /\ [Next]_vars => Dialled'
  <2>1. Base /\ Dialled /\ Next => Dialled'
    BY DialledNext
  <2>2. Dialled /\ UNCHANGED vars => Dialled'
    <3>1. \A w \in Workload : Redial(w)' = Redial(w)
      BY DEF Redial
    <3> QED
      BY <3>1 DEF Dialled, vars, workloadVars, processVars
  <2> QED
    BY <2>1, <2>2
<1>3. Base /\ Dialled => ScriptsTypeOK
  <2> SUFFICES ASSUME Base, Dialled
               PROVE  ScriptsTypeOK
    OBVIOUS
  <2>1. WorkloadTypes /\ ScriptTypes /\ StoreTypes /\ ListenerTypes /\ Trail
    BY DEF Base, Types
  <2>2. ASSUME NEW w \in Workload
        PROVE  /\ todo[w] \subseteq DialPorts
               /\ \A i \in DOMAIN again[w] : again[w][i].target \in Server \ {w[1]}
                                             /\ again[w][i].todo \subseteq DialPorts
    <3>1. todo[w] \subseteq DialPorts /\ again[w] \in Seq(Redial(w))
      BY DEF Dialled
    <3>2. \A i \in DOMAIN again[w] : again[w][i] \in Redial(w)
      BY <3>1, ElementOfSeq
    <3> QED
      BY <3>1, <3>2 DEF Redial
  <2>3. WorkloadTypeOK
    BY <2>1, <2>2 DEF WorkloadTypeOK, WorkloadTypes, StoreTypes
  <2> QED
    BY <2>1, <2>3 DEF ScriptsTypeOK, WorkloadTypes, ScriptTypes, StoreTypes, ListenerTypes, Trail
<1> QED
  BY <1>1, <1>2, <1>3, BaseInvariance, PTL DEF Spec
=============================================================================
