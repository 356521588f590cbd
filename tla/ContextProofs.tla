--------------------------- MODULE ContextProofs ----------------------------
(***************************************************************************)
(* Contexts for any threads, GPUs and lists of nodes: what the kernel      *)
(* allows once per process is done once, a failed or destroyed context     *)
(* holds nothing, and an accepted snapshot is of one generation.           *)
(***************************************************************************)
EXTENDS Context, TLAPS

(* The types that TypeOK leaves open.                                      *)
Thing ==
  {<<"kfd">>, <<"eventPage">>, <<"fencePage">>, <<"events">>, <<"stack">>, <<"thread">>}
    \cup {<<k, g>> : k \in {"scratch", "trap"}, g \in Gpus}

Found == {[gpu |-> g] : g \in Gpus}
           \cup {DeviceOf(g, n.text, n.caches) : g \in Gpus, n \in Node}

Types ==
  /\ TypeOK
  /\ past \in Seq(Layouts) /\ found \in [Scanners -> Seq(Found)]
  /\ count \in [Scanners -> Nat] /\ node \in [Scanners -> Nat]
  /\ made \in [Threads -> Nat]
  /\ held \in [1..MaxCreates -> SUBSET Thing]

(* While the generation is the one a scan began with, the scan has read    *)
(* the first nodes of that generation, and these are all it will find.     *)
ReadSoFar(t) ==
  /\ scan[t] = "count" => found[t] = <<>>
  /\ scan[t] \in {"gpuid", "files", "regen"} => count[t] = Len(Nodes)
  /\ scan[t] = "gpuid" =>
       /\ node[t] \in 1..(count[t] + 1)
       /\ DevicesOf(found[t], Nodes, node[t] - 1)
  /\ scan[t] = "files" =>
       /\ node[t] \in 1..count[t] /\ Nodes[node[t]].gpu # 0
       /\ Last(found[t]).gpu = Nodes[node[t]].gpu
       /\ DevicesOf(Front(found[t]), Nodes, node[t] - 1)
  /\ scan[t] = "regen" => DevicesOf(found[t], Nodes, count[t])

Scans ==
  \A t \in Scanners :
    /\ scan[t] \in {"count", "gpuid", "files", "regen", "ok"} => before[t] \in 1..Generation
    /\ scan[t] \in {"gpuid", "files"} => node[t] # 0
    /\ scan[t] = "files" => found[t] # <<>> /\ node[t] <= count[t]
    /\ before[t] = Generation => ReadSoFar(t)

ScanInv == Scans /\ SnapshotConsistent

(* How far a creation is, and what it may hold.                            *)
InPages == {"recheck", "register", "fence", "storeFence", "storeEvent"}
PagesDone == {"runtime", "rlock", "enable", "watcher", "clone", "live"}
AfterDevices == {"check", "lock"} \cup InPages \cup PagesDone

Creations ==
  \A t \in Threads :
    /\ Alive(t) => id[t] \in 1..creates
    /\ pc[t] = "scan" => made[t] = 0
    /\ pc[t] = "make" => made[t] < Len(found[t])
    /\ pc[t] \in AfterDevices => made[t] = Len(found[t])

Locks ==
  \A t \in Threads :
    /\ pageMtx = t <=> pc[t] \in InPages
    /\ runtimeMtx = t <=> pc[t] = "enable"

(* The pages are allocated and stored by the thread that holds the mutex,  *)
(* and the kernel knows the event page from its registration on.           *)
Pages ==
  /\ \A t \in Threads :
       /\ pc[t] \in InPages \ {"recheck"} => ~eventPage
       /\ pc[t] \in {"fence", "storeFence", "storeEvent"} => registered # None
       /\ pc[t] = "storeEvent" => fencePage
  /\ registered # None =>
       eventPage \/ \E t \in Threads : pc[t] \in {"fence", "storeFence", "storeEvent"}
  /\ eventPage => fencePage /\ registered # None

(* A context alone in the process is still alone, and the trap handlers of *)
(* the GPUs it has made are its own.                                       *)
Alone ==
  \A t \in Threads :
    Alive(t) /\ id[t] \notin overlapped =>
      /\ \A u \in Threads \ {t} : ~Alive(u)
      /\ \A i \in 1..made[t] : trap[found[t][i].gpu] = id[t]

Once == bound = renderCache /\ runtimeOn = runtimeEnabled

CreateInv ==
  /\ Types /\ ScanInv /\ Creations /\ Locks /\ Pages /\ Alone /\ Once
  /\ PagesServeContexts /\ NothingLeft

-----------------------------------------------------------------------------
LEMMA DeviceGpu ==
  ASSUME NEW g, NEW text, NEW caches
  PROVE  DeviceOf(g, text, caches).gpu = g
  BY DEF DeviceOf

LEMMA FoundGpu == \A d \in Found : d.gpu \in Gpus
  BY DeviceGpu DEF Found

LEMMA NodeFacts ==
  ASSUME Types
  PROVE  /\ Generation \in Nat \ {0} /\ Nodes \in Layouts /\ Nodes \in Seq(Node)
         /\ Len(Nodes) \in Nat
         /\ \A k \in 1..Len(Nodes) : Nodes[k] \in Node /\ Nodes[k].gpu \in Gpus \cup {0}
<1>1. past \in Seq(Layouts) /\ Len(past) \in Nat \ {0}
  BY TopologyAssumption DEF Types, TypeOK, TTypeOK
<1>2. Generation \in Nat \ {0} /\ Nodes \in Layouts
  BY <1>1 DEF Nodes, Generation
<1>3. Nodes \in Seq(Node)
  BY <1>2, TopologyAssumption
<1>4. \A k \in 1..Len(Nodes) : Nodes[k] \in Node
  BY <1>3
<1> QED BY <1>2, <1>3, <1>4, ContextAssumption

LEMMA TypesInit == Init => Types /\ ScanInv
<1> SUFFICES ASSUME Init PROVE Types /\ ScanInv
  OBVIOUS
<1>1. PICK layout \in Layouts : past = <<layout>>
  BY DEF Init, TInit
<1>2. past \in Seq(Layouts) /\ Len(past) = 1 /\ ToSet(past) \subseteq Layouts
  BY <1>1 DEF ToSet
<1>3. TTypeOK
  BY <1>2, TopologyAssumption DEF Init, TInit, TTypeOK, Generation
<1>4. TypeOK
  <2>1. {eventPage, fencePage, runtimeEnabled, runtimeOn, aborted} \subseteq BOOLEAN
    BY DEF Init
  <2>2. \A t \in Threads : made[t] \in 0..Len(found[t])
    BY DEF Init, TInit, Threads
  <2> QED BY <1>3, <2>1, <2>2, ContextAssumption DEF Init, TypeOK, Threads, None
<1>5. Types
  BY <1>2, <1>4 DEF Types, Init, TInit, Threads
<1>6. ScanInv
  BY <1>2 DEF Init, TInit, ScanInv, Scans, SnapshotConsistent, ReadSoFar, Generation
<1> QED BY <1>5, <1>6

LEMMA InvInit == Init => CreateInv
<1> SUFFICES ASSUME Init PROVE CreateInv
  OBVIOUS
<1>1. Types /\ ScanInv
  BY TypesInit
<1>2. Creations /\ Locks /\ Pages /\ Alone /\ Once /\ PagesServeContexts
  BY ContextAssumption
  DEF Init, Creations, Locks, Pages, Alone, Once, PagesServeContexts, Alive, Threads,
      InPages, PagesDone, AfterDevices
<1>3. NothingLeft
  BY DEF Init, NothingLeft
<1> QED BY <1>1, <1>2, <1>3 DEF CreateInv

-----------------------------------------------------------------------------
(* The devices of a list of nodes, node by node.                           *)
LEMMA NoDevices == ASSUME NEW nodes PROVE DevicesOf(<<>>, nodes, 0)
<1> DEFINE gpus == {n \in 1..0 : nodes[n].gpu # 0}
<1>1. gpus = {} /\ DOMAIN <<>> = {}
  OBVIOUS
<1>2. [i \in {} |-> 0] \in [{} -> {}]
  OBVIOUS
<1>3. PICK at : at \in [DOMAIN <<>> -> gpus]
  BY <1>1, <1>2
<1> QED BY <1>1, <1>3 DEF DevicesOf

LEMMA SkipNode ==
  ASSUME NEW nodes, NEW devices, NEW k \in Nat \ {0}, nodes[k].gpu = 0,
         DevicesOf(devices, nodes, k - 1)
  PROVE  DevicesOf(devices, nodes, k)
<1>1. {n \in 1..k : nodes[n].gpu # 0} = {n \in 1..(k - 1) : nodes[n].gpu # 0}
  OBVIOUS
<1> QED BY <1>1 DEF DevicesOf

LEMMA AddNode ==
  ASSUME NEW nodes, NEW devices \in Seq(Found), NEW k \in Nat \ {0}, nodes[k].gpu # 0,
         devices # <<>>,
         Last(devices) = DeviceOf(nodes[k].gpu, nodes[k].text, nodes[k].caches),
         DevicesOf(Front(devices), nodes, k - 1)
  PROVE  DevicesOf(devices, nodes, k)
<1> DEFINE l == Len(devices)
           old == {n \in 1..(k - 1) : nodes[n].gpu # 0}
           all == {n \in 1..k : nodes[n].gpu # 0}
<1>1. l \in Nat \ {0} /\ DOMAIN devices = 1..l /\ devices[l] = Last(devices)
  BY DEF Last
<1>2. /\ DOMAIN Front(devices) = 1..(l - 1)
      /\ \A i \in 1..(l - 1) : Front(devices)[i] = devices[i]
  BY <1>1 DEF Front
<1>0. all = old \cup {k} /\ old \subseteq 1..(k - 1)
  OBVIOUS
<1> HIDE DEF l
<1> HIDE DEF old, all
<1>3. PICK at \in [DOMAIN Front(devices) -> old] :
        /\ \A i, j \in DOMAIN Front(devices) : i < j => at[i] < at[j]
        /\ \A n \in old : \E i \in DOMAIN Front(devices) : at[i] = n
        /\ \A i \in DOMAIN Front(devices) :
             Front(devices)[i] = DeviceOf(nodes[at[i]].gpu, nodes[at[i]].text,
                                          nodes[at[i]].caches)
  BY Zenon DEF DevicesOf, old
<1> DEFINE new == [i \in 1..l |-> IF i = l THEN k ELSE at[i]]
<1>4. all = old \cup {k} /\ \A n \in old : n \in 1..(k - 1)
  BY <1>0
<1>5. \A i \in 1..(l - 1) : at[i] \in old /\ new[i] = at[i]
  <2>1. \A i \in 1..(l - 1) : i \in 1..l /\ i # l
    BY <1>1
  <2> QED BY <2>1, <1>2, <1>3
<1>6. new[l] = k
  BY <1>1
<1>7. new \in [1..l -> all]
  <2>1. ASSUME NEW i \in 1..l PROVE new[i] \in all
    <3>1. i = l \/ i \in 1..(l - 1)
      BY <1>1
    <3> QED BY <3>1, <1>4, <1>5, <1>6
  <2> QED BY <2>1
<1>8. ASSUME NEW i \in 1..l, NEW j \in 1..l, i < j PROVE new[i] < new[j]
  <2>1. i \in 1..(l - 1)
    BY <1>1, <1>8
  <2>2. CASE j = l
    <3>1. at[i] \in 1..(k - 1) /\ new[i] = at[i]
      BY <2>1, <1>4, <1>5
    <3>2. new[j] = k
      BY <2>2, <1>6
    <3> HIDE DEF new
    <3> QED BY <3>1, <3>2
  <2>3. CASE j # l
    <3>1. j \in 1..(l - 1)
      BY <1>1, <2>3
    <3>2. at[i] < at[j]
      BY <2>1, <3>1, <1>2, <1>3, <1>8
    <3> QED BY <2>1, <3>1, <3>2, <1>5
  <2> QED BY <2>2, <2>3
<1>9. ASSUME NEW n \in all PROVE \E i \in 1..l : new[i] = n
  <2>1. CASE n = k
    BY <1>1, <1>6, <2>1
  <2>2. CASE n \in old
    <3>1. PICK i \in 1..(l - 1) : at[i] = n
      BY <1>2, <1>3, <2>2
    <3> QED BY <3>1, <1>1, <1>5
  <2> QED BY <2>1, <2>2, <1>4
<1>10. ASSUME NEW i \in 1..l
       PROVE  devices[i] = DeviceOf(nodes[new[i]].gpu, nodes[new[i]].text,
                                    nodes[new[i]].caches)
  <2>1. CASE i = l
    BY <2>1, <1>1, <1>6
  <2>2. CASE i # l
    <3>1. i \in 1..(l - 1)
      BY <1>1, <2>2
    <3> QED BY <3>1, <1>2, <1>3, <1>5
  <2> QED BY <2>1, <2>2
<1> HIDE DEF new
<1>11. /\ new \in [DOMAIN devices -> all]
       /\ \A i, j \in DOMAIN devices : i < j => new[i] < new[j]
       /\ \A n \in all : \E i \in DOMAIN devices : new[i] = n
       /\ \A i \in DOMAIN devices :
            devices[i] = DeviceOf(nodes[new[i]].gpu, nodes[new[i]].text,
                                  nodes[new[i]].caches)
  BY <1>1, <1>7, <1>8, <1>9, <1>10
<1> QED BY <1>11, Zenon DEF DevicesOf, all

-----------------------------------------------------------------------------
(* The scan.                                                               *)
LEMMA FoundNode ==
  ASSUME Types, ScanInv, NEW t \in Scanners, ScanStep(t)
  PROVE  /\ \A u \in Scanners \ {t} : found'[u] = found[u]
         /\ found' \in [Scanners -> Seq(Found)]
         /\ count' \in [Scanners -> Nat] /\ node' \in [Scanners -> Nat]
         /\ past' = past
<1>1. found \in [Scanners -> Seq(Found)] /\ count \in [Scanners -> Nat] /\ node \in [Scanners -> Nat]
  BY DEF Types
<1>2. CASE ReadGeneration(t) \/ CountNodes(t)
  <2>1. Len(Nodes) \in Nat /\ <<>> \in Seq(Found)
    BY NodeFacts
  <2>2. CASE ReadGeneration(t)
    BY <1>1, <2>1, <2>2 DEF ReadGeneration
  <2>3. CASE CountNodes(t)
    BY <1>1, <2>1, <2>3 DEF CountNodes
  <2> QED BY <1>2, <2>2, <2>3
<1>5. CASE ReadAll(t) \/ AcceptScan(t) \/ RetryScan(t)
  BY <1>1, <1>5 DEF ReadAll, AcceptScan, RetryScan
<1>3. CASE ReadGpuId(t)
  <2>1. node[t] \in 1..Len(Nodes)
    BY <1>1, <1>3, NodeFacts DEF ReadGpuId, Exists, ScanInv, Scans
  <2>2. Nodes[node[t]].gpu # 0 => [gpu |-> Nodes[node[t]].gpu] \in Found
    BY <2>1, NodeFacts DEF Found
  <2>3. Nodes[node[t]].gpu # 0
          => Append(found[t], [gpu |-> Nodes[node[t]].gpu]) \in Seq(Found)
    BY <1>1, <2>2
  <2>4. /\ found' = found \/ /\ Nodes[node[t]].gpu # 0
                             /\ found' = [found EXCEPT ![t] = Append(@, [gpu |-> Nodes[node[t]].gpu])]
        /\ node' = node \/ node' = [node EXCEPT ![t] = @ + 1]
        /\ UNCHANGED <<past, count>>
    BY <1>3 DEF ReadGpuId
  <2>5. node' \in [Scanners -> Nat] /\ count' \in [Scanners -> Nat] /\ past' = past
    BY <1>1, <2>4
  <2>6. CASE found' = found
    BY <1>1, <2>5, <2>6
  <2>7. CASE found' # found
    <3> DEFINE new == Append(found[t], [gpu |-> Nodes[node[t]].gpu])
    <3>1. new \in Seq(Found) /\ found' = [found EXCEPT ![t] = new]
      BY <2>3, <2>4, <2>7
    <3> HIDE DEF new
    <3> QED BY <1>1, <2>5, <3>1
  <2> QED BY <2>6, <2>7
<1>4. CASE ReadFiles(t)
  <2> DEFINE n == Nodes[node[t]]
             i == Len(found[t])
             d == DeviceOf(found[t][i].gpu, n.text, n.caches)
  <2>1. node[t] \in 1..Len(Nodes)
    BY <1>1, <1>4, NodeFacts DEF ReadFiles, ScanAt, Exists, ScanInv, Scans
  <2>2. found[t] \in Seq(Found) /\ i \in 1..Len(found[t])
    BY <1>1, <1>4 DEF ReadFiles, ScanAt, ScanInv, Scans
  <2>3. d \in Found
    BY <2>1, <2>2, NodeFacts, FoundGpu DEF Found
  <2>4. found' = [found EXCEPT ![t] = [@ EXCEPT ![i] = d]]
    BY <1>1, <1>4 DEF ReadFiles
  <2>5. [found[t] EXCEPT ![i] = d] \in Seq(Found)
    BY <2>2, <2>3
  <2> HIDE DEF d, i
  <2> QED BY <1>1, <1>4, <2>4, <2>5 DEF ReadFiles
<1> QED BY <1>2, <1>3, <1>4, <1>5 DEF ScanStep

(* What the steps do to the scans.                                         *)
Quits(t, state) ==
  scan' = [scan EXCEPT ![t] = state] /\ UNCHANGED <<past, attempt, before, count, node, found>>

LEMMA TopologyMoves ==
  ASSUME [Next]_vars
  PROVE  \/ \E t \in Scanners : ScanStep(t) /\ pc[t] = "scan" /\ UNCHANGED cvars
         \/ \E t \in Scanners : Quits(t, "failed") /\ UNCHANGED cvars
         \/ \E t \in Scanners : Quits(t, "none") /\ Release(t)
         \/ \E t \in Scanners : BeginScan(t) /\ pc[t] = "idle" /\ Open(t)
         \/ (\E layout \in Layouts : ChangeTopology(layout)) /\ UNCHANGED cvars
         \/ UNCHANGED tvars
<1>1. CASE UNCHANGED vars
  BY <1>1 DEF vars
<1>2. ASSUME NEW t \in Threads, Open(t)
      PROVE  \E u \in Scanners : BeginScan(u) /\ pc[u] = "idle" /\ Open(u)
  BY <1>2 DEF Open, Goto, Threads
<1>3. CASE \E t \in Threads : Scan(t) \/ ScanError(t)
  BY <1>3 DEF Scan, ScanError, ScanFails, Quits, Threads
<1>4. CASE \E t \in Threads : CreateFails(t) \/ Destroy(t)
  BY <1>4 DEF CreateFails, Destroy, Release, Quits, Threads
<1>5. ASSUME NEW t \in Threads, CreateStep(t), ~Scan(t), ~ScanError(t), ~CreateFails(t)
      PROVE  UNCHANGED tvars
  BY <1>5
  DEF CreateStep, Scanned, UseCached, AcquireVm, MakeDevice, DevicesDone, PagesReady,
      PagesMissing, LockPages, OthersMadePages, AllocEventPage, RegisterEventPage,
      AllocFencePage, StoreFencePage, StoreEventPage, RuntimeReady, RuntimeMissing,
      LockRuntime, OthersEnabled, EnableRuntime, CreateEvents, StartWatcher, Step, Make
<1>6. ASSUME NEW t \in Threads, FreeRefused(t) PROVE UNCHANGED tvars
  BY <1>6 DEF FreeRefused
<1>7. CASE Change
  BY <1>7 DEF Change
<1> QED BY <1>1, <1>2, <1>3, <1>4, <1>5, <1>6, <1>7 DEF Next

LEMMA TopologyTyped ==
  ASSUME Types, ScanInv, [Next]_vars
  PROVE  /\ TTypeOK' /\ (past \in Seq(Layouts))' /\ (found \in [Scanners -> Seq(Found)])'
         /\ (count \in [Scanners -> Nat])' /\ (node \in [Scanners -> Nat])'
<1>0. /\ past \in Seq(Layouts) /\ found \in [Scanners -> Seq(Found)]
      /\ count \in [Scanners -> Nat] /\ node \in [Scanners -> Nat]
      /\ TTypeOK /\ Len(past) \in 1..(MaxChanges + 1)
      /\ scan \in [Scanners -> {"none", "gen", "count", "gpuid", "files", "regen",
                                "ok", "failed"}]
      /\ attempt \in [Scanners -> 0..MaxRetries]
      /\ before \in [Scanners -> 0..Len(past)]
      /\ \A t \in Scanners : node[t] \in 0..(count[t] + 1)
  BY DEF Types, TypeOK, TTypeOK, Generation
<1>1. CASE UNCHANGED tvars
  BY <1>0, <1>1 DEF tvars, TTypeOK, Generation
<1>2. ASSUME NEW layout \in Layouts, ChangeTopology(layout)
      PROVE  /\ TTypeOK' /\ past' \in Seq(Layouts)
             /\ UNCHANGED <<found, count, node>>
  <2>1. /\ past' = Append(past, layout) /\ Len(past) <= MaxChanges
        /\ UNCHANGED <<scan, attempt, before, count, node, found>>
    BY <1>2 DEF ChangeTopology, Generation
  <2>2. Len(past') = Len(past) + 1 /\ past' \in Seq(Layouts)
    BY <1>0, <2>1
  <2>3. ToSet(past') \subseteq Layouts
    BY <2>2 DEF ToSet
  <2>4. before \in [Scanners -> 0..Len(past')]
    BY <1>0, <2>2
  <2> QED BY <1>0, <2>1, <2>2, <2>3, <2>4, TopologyAssumption DEF TTypeOK, Generation
<1>3. ASSUME NEW t \in Scanners, Quits(t, "failed") \/ Quits(t, "none")
      PROVE  TTypeOK' /\ UNCHANGED <<past, found, count, node>>
  BY <1>0, <1>3 DEF Quits, TTypeOK, Generation
<1>4. ASSUME NEW t \in Scanners, BeginScan(t)
      PROVE  TTypeOK' /\ UNCHANGED <<past, found, count, node>>
  BY <1>0, <1>4, TopologyAssumption DEF BeginScan, TTypeOK, Generation
<1>5. ASSUME NEW t \in Scanners, ScanStep(t) PROVE TTypeOK'
  <2>1. CASE ReadGeneration(t)
    BY <1>0, <2>1, TopologyAssumption DEF ReadGeneration, ScanAt, TTypeOK, Generation
  <2>2. CASE CountNodes(t)
    BY <1>0, <2>2, NodeFacts DEF CountNodes, ScanAt, TTypeOK, Generation
  <2>3. CASE ReadGpuId(t)
    <3>1. /\ scan' = scan \/ scan' = [scan EXCEPT ![t] = "files"]
          /\ node' = node \/ node' = [node EXCEPT ![t] = @ + 1]
          /\ node[t] <= count[t] /\ UNCHANGED <<past, attempt, before, count>>
      BY <2>3 DEF ReadGpuId, ScanAt
    <3>2. \A u \in Scanners : node'[u] \in 0..(count[u] + 1)
      <4> TAKE u \in Scanners
      <4>1. CASE u = t
        BY <1>0, <3>1, <4>1
      <4>2. CASE u # t
        BY <1>0, <3>1, <4>2
      <4> QED BY <4>1, <4>2
    <3>3. scan' \in [Scanners -> {"none", "gen", "count", "gpuid", "files", "regen",
                                  "ok", "failed"}]
      BY <1>0, <3>1
    <3> QED BY <1>0, <3>1, <3>2, <3>3 DEF TTypeOK, Generation
  <2>4. CASE ReadFiles(t)
    <3>1. node[t] <= count[t]
      BY <2>4 DEF ReadFiles, ScanAt, ScanInv, Scans
    <3>2. /\ scan' = [scan EXCEPT ![t] = "gpuid"] /\ node' = [node EXCEPT ![t] = @ + 1]
          /\ UNCHANGED <<past, attempt, before, count>>
      BY <2>4 DEF ReadFiles, ScanAt
    <3> QED BY <1>0, <3>1, <3>2 DEF TTypeOK, Generation
  <2>5. CASE ReadAll(t)
    BY <1>0, <2>5 DEF ReadAll, ScanAt, TTypeOK, Generation
  <2>6. CASE AcceptScan(t)
    BY <1>0, <2>6 DEF AcceptScan, ScanAt, TTypeOK, Generation
  <2>7. CASE RetryScan(t)
    <3>1. CASE attempt[t] < MaxRetries
      <4>1. attempt[t] + 1 \in 0..MaxRetries
        BY <1>0, <3>1, TopologyAssumption
      <4> QED BY <1>0, <2>7, <3>1, <4>1 DEF RetryScan, ScanAt, TTypeOK, Generation
    <3>2. CASE ~(attempt[t] < MaxRetries)
      BY <1>0, <2>7, <3>2 DEF RetryScan, ScanAt, TTypeOK, Generation
    <3> QED BY <3>1, <3>2
  <2> QED BY <1>5, <2>1, <2>2, <2>3, <2>4, <2>5, <2>6, <2>7 DEF ScanStep
<1>6. ASSUME NEW t \in Scanners, ScanStep(t)
      PROVE  /\ found' \in [Scanners -> Seq(Found)] /\ past' = past
             /\ count' \in [Scanners -> Nat] /\ node' \in [Scanners -> Nat]
  BY <1>6, FoundNode
<1> QED BY <1>0, <1>1, <1>2, <1>3, <1>4, <1>5, <1>6, TopologyMoves DEF tvars

-----------------------------------------------------------------------------
(* The steps of a creation.                                                *)
Steps ==
  {"idle", "scan", "device", "make", "check", "lock", "recheck", "register", "fence",
   "storeFence", "storeEvent", "runtime", "rlock", "enable", "watcher", "clone", "live"}

ProcessTyped ==
  /\ pc \in [Threads -> Steps]
  /\ id \in [Threads -> 0..MaxCreates] /\ creates \in 0..MaxCreates
  /\ made \in [Threads -> Nat]
  /\ held \in [1..MaxCreates -> SUBSET Thing]
  /\ renderCache \subseteq Gpus /\ bound \subseteq Gpus
  /\ {eventPage, fencePage, runtimeEnabled, runtimeOn, aborted} \subseteq BOOLEAN
  /\ {pageMtx, runtimeMtx} \subseteq Threads \cup {Free}
  /\ registered \in 0..MaxCreates /\ trap \in [Gpus -> 0..MaxCreates]
  /\ overlapped \subseteq 1..MaxCreates

LEMMA GpuTyped ==
  ASSUME Types, NEW t \in Threads, MoreDevices(t)
  PROVE  Gpu(t) \in Gpus
<1>1. found[t] \in Seq(Found) /\ made[t] \in Nat
  BY DEF Types, Threads
<1>2. made[t] + 1 \in 1..Len(found[t])
  BY <1>1 DEF MoreDevices
<1> QED BY <1>1, <1>2, FoundGpu DEF Gpu

LEMMA Processes ==
  ASSUME Types, Creations, [Next]_vars
  PROVE  ProcessTyped'
<1>0. ProcessTyped /\ MaxCreates \in Nat
  BY ContextAssumption DEF Types, TypeOK, ProcessTyped, Steps
<1> USE DEF ProcessTyped, Steps, Goto, Threads
<1>1. CASE UNCHANGED vars
  BY <1>0, <1>1 DEF vars, cvars
<1>2. CASE Change
  BY <1>0, <1>2 DEF Change, cvars
<1>3. ASSUME NEW t \in Threads, Alive(t) PROVE id[t] \in 1..MaxCreates
  BY <1>0, <1>3 DEF Creations
<1>4. ASSUME NEW t \in Threads, Open(t) PROVE ProcessTyped'
  <2>1. creates + 1 \in 1..MaxCreates
    BY <1>0, <1>4 DEF Open
  <2>2. \A u \in Threads : Alive(u) => id[u] \in 1..MaxCreates
    BY <1>3
  <2>3. overlapped' \subseteq 1..MaxCreates
    BY <1>0, <1>4, <2>1, <2>2 DEF Open
  <2>4. held' \in [1..MaxCreates -> SUBSET Thing]
    BY <1>0, <1>4, <2>1 DEF Open, Thing
  <2> QED BY <1>0, <1>4, <2>1, <2>3, <2>4 DEF Open, globals, locks, kernel
<1>5. ASSUME NEW t \in Threads, Scan(t) \/ ScanError(t) PROVE ProcessTyped'
  BY <1>0, <1>5 DEF Scan, ScanError, cvars
<1>6. ASSUME NEW t \in Threads, Scanned(t) \/ UseCached(t) \/ DevicesDone(t)
      PROVE  ProcessTyped'
  BY <1>0, <1>6 DEF Scanned, UseCached, DevicesDone, local, globals, locks, kernel
<1>7. ASSUME NEW t \in Threads, AcquireVm(t) PROVE ProcessTyped'
  BY <1>0, <1>7, GpuTyped DEF AcquireVm, local, locks
<1>8. ASSUME NEW t \in Threads, MakeDevice(t) PROVE ProcessTyped'
  <2>1. Gpu(t) \in Gpus /\ id[t] \in 1..MaxCreates
    BY <1>3, <1>8, GpuTyped DEF MakeDevice, Creations, MoreDevices, Alive
  <2>2. {<<"scratch", Gpu(t)>>, <<"trap", Gpu(t)>>} \subseteq Thing
    BY <2>1 DEF Thing
  <2>3. held' \in [1..MaxCreates -> SUBSET Thing]
    BY <1>0, <1>8, <2>1, <2>2 DEF MakeDevice, Hold
  <2>4. trap' \in [Gpus -> 0..MaxCreates] /\ made' \in [Threads -> Nat]
    BY <1>0, <1>8, <2>1 DEF MakeDevice
  <2> QED BY <1>0, <1>8, <2>3, <2>4 DEF MakeDevice, globals, locks
<1>9. ASSUME NEW t \in Threads,
             \/ PagesReady(t) \/ PagesMissing(t) \/ LockPages(t) \/ OthersMadePages(t)
             \/ RuntimeReady(t) \/ RuntimeMissing(t) \/ LockRuntime(t) \/ OthersEnabled(t)
      PROVE  ProcessTyped'
  BY <1>0, <1>9
  DEF PagesReady, PagesMissing, LockPages, OthersMadePages, RuntimeReady, RuntimeMissing,
      LockRuntime, OthersEnabled, Step, local, globals, locks, kernel
<1>10. ASSUME NEW t \in Threads,
              AllocEventPage(t) \/ AllocFencePage(t) \/ CreateEvents(t) \/ StartWatcher(t)
       PROVE  ProcessTyped'
  <2>1. id[t] \in 1..MaxCreates
    BY <1>3, <1>10
    DEF AllocEventPage, AllocFencePage, CreateEvents, StartWatcher, Make, Alive
  <2>2. PICK things \in SUBSET Thing : Hold(t, things)
    BY <1>10
    DEF AllocEventPage, AllocFencePage, CreateEvents, StartWatcher, Make, Thing
  <2>3. held' \in [1..MaxCreates -> SUBSET Thing]
    BY <1>0, <2>1, <2>2 DEF Hold
  <2> QED BY <1>0, <1>10, <2>3
          DEF AllocEventPage, AllocFencePage, CreateEvents, StartWatcher, Make,
              local, globals, locks, kernel
<1>11. ASSUME NEW t \in Threads, RegisterEventPage(t) PROVE ProcessTyped'
  BY <1>0, <1>3, <1>11 DEF RegisterEventPage, Alive, local, globals, locks
<1>12. ASSUME NEW t \in Threads, StoreFencePage(t) \/ StoreEventPage(t)
       PROVE  ProcessTyped'
  <2>1. id[t] \in 1..MaxCreates
    BY <1>3, <1>12 DEF StoreFencePage, StoreEventPage, Alive
  <2>2. held' \in [1..MaxCreates -> SUBSET Thing]
    BY <1>0, <1>12, <2>1 DEF StoreFencePage, StoreEventPage
  <2>3. CASE StoreFencePage(t)
    BY <1>0, <2>2, <2>3 DEF StoreFencePage, local, locks, kernel
  <2>4. CASE StoreEventPage(t)
    BY <1>0, <2>2, <2>4 DEF StoreEventPage, local, kernel
  <2> QED BY <1>12, <2>3, <2>4
<1>13. ASSUME NEW t \in Threads, EnableRuntime(t) PROVE ProcessTyped'
  BY <1>0, <1>13 DEF EnableRuntime, local
<1>14. ASSUME NEW t \in Threads, CreateFails(t) \/ Destroy(t) PROVE ProcessTyped'
  <2>1. Release(t)
    BY <1>14 DEF CreateFails, Destroy
  <2> QED BY <1>0, <2>1 DEF Release, local, globals, kernel
<1>15. ASSUME NEW t \in Threads, FreeRefused(t) PROVE ProcessTyped'
  BY <1>0, <1>15 DEF FreeRefused, local, globals, locks, kernel
<1> QED BY <1>1, <1>2, <1>4, <1>5, <1>6, <1>7, <1>8, <1>9, <1>10, <1>11, <1>12, <1>13,
           <1>14, <1>15 DEF Next, CreateStep

LEMMA CreationsNext ==
  ASSUME Types, ScanInv, Creations, [Next]_vars
  PROVE  Creations' /\ (\A t \in Threads : made[t] \in 0..Len(found[t]))'
<1>0. /\ ProcessTyped' /\ pc \in [Threads -> Steps]
      /\ id \in [Threads -> 0..MaxCreates] /\ creates \in 0..MaxCreates /\ MaxCreates \in Nat
      /\ \A t \in Threads : made[t] \in 0..Len(found[t])
      /\ \A t \in Threads : Len(found[t]) \in Nat /\ Len(found'[t]) \in Nat
      /\ made \in [Threads -> Nat]
  <2>1. ProcessTyped' /\ found' \in [Scanners -> Seq(Found)]
    BY Processes, TopologyTyped
  <2>2. \A t \in Threads : Len(found[t]) \in Nat /\ Len(found'[t]) \in Nat
    BY <2>1 DEF Types, Threads
  <2> QED BY <2>1, <2>2, ContextAssumption DEF Types, TypeOK, Steps
<1> DEFINE Sound == Creations' /\ (\A t \in Threads : made[t] \in 0..Len(found[t]))'
<1> USE DEF Creations, Steps, Goto, Alive, AfterDevices, InPages, PagesDone
<1>1. CASE UNCHANGED vars \/ Change
  BY <1>0, <1>1 DEF vars, cvars, tvars, Change, ChangeTopology
<1>2. ASSUME NEW t \in Threads, Open(t) PROVE Sound
  BY <1>0, <1>2 DEF Open, BeginScan
<1>3. ASSUME NEW t \in Threads, Scan(t) PROVE Sound
  <2>1. \A u \in Threads \ {t} : found'[u] = found[u]
    BY <1>3, FoundNode DEF Scan, Threads
  <2>2. pc[t] = "scan" /\ UNCHANGED <<pc, id, creates, made>>
    BY <1>3 DEF Scan, cvars
  <2>3. Creations'
    <3> SUFFICES ASSUME NEW u \in Threads
                 PROVE  /\ Alive(u) => id[u] \in 1..creates
                        /\ pc[u] = "scan" => made[u] = 0
                        /\ pc[u] = "make" => made[u] < Len(found'[u])
                        /\ pc[u] \in AfterDevices => made[u] = Len(found'[u])
      BY <2>2
    <3>1. CASE u = t
      BY <2>2, <3>1
    <3>2. CASE u # t
      BY <2>1, <3>2
    <3> QED BY <3>1, <3>2
  <2>4. ASSUME NEW u \in Threads PROVE made[u] \in 0..Len(found'[u])
    <3>1. CASE u = t
      BY <1>0, <2>2, <3>1
    <3>2. CASE u # t
      BY <1>0, <2>1, <3>2
    <3> QED BY <3>1, <3>2
  <2> QED BY <2>2, <2>3, <2>4
<1>4. ASSUME NEW t \in Threads, ScanError(t) \/ FreeRefused(t) PROVE Sound
  BY <1>0, <1>4 DEF ScanError, ScanFails, FreeRefused, cvars, tvars, local
<1>5. ASSUME NEW t \in Threads, Scanned(t) \/ UseCached(t) \/ AcquireVm(t) PROVE Sound
  BY <1>0, <1>5 DEF Scanned, UseCached, AcquireVm, MoreDevices, tvars, local
<1>6. ASSUME NEW t \in Threads, MakeDevice(t) PROVE Sound
  BY <1>0, <1>6 DEF MakeDevice, tvars
<1>7. ASSUME NEW t \in Threads, DevicesDone(t) PROVE Sound
  BY <1>0, <1>7 DEF DevicesDone, MoreDevices, tvars, local
<1>8. ASSUME NEW t \in Threads,
             \/ PagesReady(t) \/ PagesMissing(t) \/ LockPages(t) \/ OthersMadePages(t)
             \/ AllocEventPage(t) \/ RegisterEventPage(t) \/ AllocFencePage(t)
             \/ StoreFencePage(t) \/ StoreEventPage(t)
      PROVE  Sound
  BY <1>0, <1>8
  DEF PagesReady, PagesMissing, LockPages, OthersMadePages, AllocEventPage,
      RegisterEventPage, AllocFencePage, StoreFencePage, StoreEventPage, Step, tvars, local
<1>9. ASSUME NEW t \in Threads,
             \/ RuntimeReady(t) \/ RuntimeMissing(t) \/ LockRuntime(t) \/ OthersEnabled(t)
             \/ EnableRuntime(t) \/ CreateEvents(t) \/ StartWatcher(t)
      PROVE  Sound
  BY <1>0, <1>9
  DEF RuntimeReady, RuntimeMissing, LockRuntime, OthersEnabled, EnableRuntime,
      CreateEvents, StartWatcher, Step, Make, tvars, local
<1>10. ASSUME NEW t \in Threads, CreateFails(t) \/ Destroy(t) PROVE Sound
  <2>1. Release(t)
    BY <1>10 DEF CreateFails, Destroy
  <2> QED BY <1>0, <2>1 DEF Release, local
<1> QED BY <1>1, <1>2, <1>3, <1>4, <1>5, <1>6, <1>7, <1>8, <1>9, <1>10 DEF Next, CreateStep

LEMMA TypesNext == Types /\ ScanInv /\ Creations /\ [Next]_vars => Types' /\ Creations'
<1> SUFFICES ASSUME Types, ScanInv, Creations, [Next]_vars PROVE Types' /\ Creations'
  OBVIOUS
<1>1. ProcessTyped'
  BY Processes
<1>2. Creations' /\ (\A t \in Threads : made[t] \in 0..Len(found[t]))'
  BY CreationsNext
<1>3. /\ TTypeOK' /\ (past \in Seq(Layouts))' /\ (found \in [Scanners -> Seq(Found)])'
      /\ (count \in [Scanners -> Nat])' /\ (node \in [Scanners -> Nat])'
  BY TopologyTyped
<1> QED BY <1>1, <1>2, <1>3 DEF Types, TypeOK, ProcessTyped, Steps

(* A scan reads on from what it has read.                                  *)
ScanOf(t) ==
  /\ scan[t] \in {"count", "gpuid", "files", "regen", "ok"} => before[t] \in 1..Generation
  /\ scan[t] \in {"gpuid", "files"} => node[t] # 0
  /\ scan[t] = "files" => found[t] # <<>> /\ node[t] <= count[t]
  /\ before[t] = Generation => ReadSoFar(t)
  /\ scan[t] = "ok" =>
       LET nodes == past[before[t]] IN DevicesOf(found[t], nodes, Len(nodes))

LEMMA ScanInvOf == ScanInv <=> \A t \in Scanners : ScanOf(t)
  BY DEF ScanInv, Scans, SnapshotConsistent, ScanOf

LEMMA ScanInvOfNext == ScanInv' <=> \A t \in Scanners : ScanOf(t)'
  BY DEF ScanInv, Scans, SnapshotConsistent, ScanOf

LEMMA ScanKept ==
  ASSUME NEW t \in Scanners, ScanOf(t), past' = past, scan'[t] = scan[t],
         before'[t] = before[t], count'[t] = count[t], node'[t] = node[t],
         found'[t] = found[t]
  PROVE  ScanOf(t)'
<1>1. Generation' = Generation /\ Nodes' = Nodes
  BY DEF Generation, Nodes
<1> QED BY <1>1 DEF ScanOf, ReadSoFar

LEMMA ScanReads ==
  ASSUME Types, ScanInv, NEW t \in Scanners, ScanStep(t) PROVE ScanOf(t)'
<1>0. /\ past \in Seq(Layouts) /\ found \in [Scanners -> Seq(Found)]
      /\ count \in [Scanners -> Nat] /\ node \in [Scanners -> Nat]
      /\ Generation \in Nat \ {0} /\ before \in [Scanners -> 0..Generation]
      /\ scan \in [Scanners -> {"none", "gen", "count", "gpuid", "files", "regen",
                                "ok", "failed"}]
      /\ Len(Nodes) \in Nat /\ ScanOf(t)
  BY NodeFacts, ScanInvOf DEF Types, TypeOK, TTypeOK
<1>a. past' = past /\ found' \in [Scanners -> Seq(Found)]
  BY FoundNode
<1>b. Generation' = Generation /\ Nodes' = Nodes
  BY <1>a DEF Generation, Nodes
<1>1. CASE ReadGeneration(t)
  <2>1. scan'[t] = "count" /\ before'[t] = Generation /\ found'[t] = <<>>
    BY <1>0, <1>1 DEF ReadGeneration, ScanAt
  <2> QED BY <1>0, <1>b, <2>1 DEF ScanOf, ReadSoFar
<1>2. CASE CountNodes(t)
  <2>1. /\ scan[t] = "count" /\ scan'[t] = "gpuid" /\ before'[t] = before[t]
        /\ found'[t] = found[t] /\ count'[t] = Len(Nodes) /\ node'[t] = 1
    BY <1>0, <1>2 DEF CountNodes, ScanAt
  <2>2. before[t] = Generation => DevicesOf(found'[t], Nodes', node'[t] - 1)
    <3>1. DevicesOf(<<>>, Nodes, 1 - 1)
      BY NoDevices
    <3> QED BY <1>0, <1>b, <2>1, <3>1 DEF ScanOf, ReadSoFar
  <2> QED BY <1>0, <1>b, <2>1, <2>2 DEF ScanOf, ReadSoFar
<1>3. CASE ReadGpuId(t)
  <2>1. /\ scan[t] = "gpuid" /\ node[t] \in 1..count[t] /\ node[t] <= Len(Nodes)
        /\ before'[t] = before[t] /\ count'[t] = count[t]
    BY <1>0, <1>3 DEF ReadGpuId, Exists, ScanOf
  <2>2. CASE Nodes[node[t]].gpu = 0
    <3>1. scan'[t] = "gpuid" /\ found'[t] = found[t] /\ node'[t] = node[t] + 1
      BY <1>0, <1>3, <2>1, <2>2 DEF ReadGpuId
    <3>2. before[t] = Generation => DevicesOf(found[t], Nodes, node[t])
      BY <1>0, <2>1, <2>2, SkipNode DEF ScanOf, ReadSoFar
    <3>3. node'[t] - 1 = node[t] /\ node'[t] \in 1..(count[t] + 1)
      BY <1>0, <2>1, <3>1
    <3> QED BY <1>0, <1>b, <2>1, <3>1, <3>2, <3>3 DEF ScanOf, ReadSoFar
  <2>3. CASE Nodes[node[t]].gpu # 0
    <3> DEFINE d == [gpu |-> Nodes[node[t]].gpu]
    <3>1. scan'[t] = "files" /\ found'[t] = Append(found[t], d) /\ node'[t] = node[t]
      BY <1>0, <1>3, <2>1, <2>3 DEF ReadGpuId, ScanAt
    <3>2. found[t] \in Seq(Found) /\ d \in Found
      <4>1. Nodes[node[t]].gpu \in Gpus
        BY <1>0, <2>1, <2>3, NodeFacts
      <4>2. d \in Found
        BY <4>1 DEF Found
      <4> QED BY <1>0, <4>2
    <3>3. found'[t] # <<>> /\ Front(found'[t]) = found[t] /\ Last(found'[t]) = d
      <4> HIDE DEF d
      <4> QED BY <3>1, <3>2 DEF Front, Last
    <3>4. Last(found'[t]).gpu = Nodes[node[t]].gpu
      BY <3>3
    <3> HIDE DEF d
    <3> QED BY <1>0, <1>b, <2>1, <2>3, <3>1, <3>3, <3>4 DEF ScanOf, ReadSoFar
  <2> QED BY <2>2, <2>3
<1>4. CASE ReadFiles(t)
  <2> DEFINE n == Nodes[node[t]]
             i == Len(found[t])
             d == DeviceOf(found[t][i].gpu, n.text, n.caches)
  <2>1. /\ scan[t] = "files" /\ scan'[t] = "gpuid" /\ node[t] \in 1..count[t]
        /\ before'[t] = before[t] /\ count'[t] = count[t] /\ node'[t] = node[t] + 1
    BY <1>0, <1>4 DEF ReadFiles, ScanAt, ScanOf
  <2>2. found[t] \in Seq(Found) /\ i \in 1..Len(found[t])
    BY <1>0, <2>1 DEF ScanOf
  <2>3. found'[t] = [found[t] EXCEPT ![i] = d]
    BY <1>0, <1>4 DEF ReadFiles
  <2>4. /\ Len(found'[t]) = Len(found[t]) /\ Front(found'[t]) = Front(found[t])
        /\ Last(found'[t]) = d /\ found'[t] # <<>> /\ found'[t] \in Seq(Found)
    <3> HIDE DEF d
    <3> QED BY <1>a, <2>2, <2>3 DEF Front, Last
  <2>5. ASSUME before[t] = Generation PROVE DevicesOf(found'[t], Nodes, node[t])
    <3>1. /\ Nodes[node[t]].gpu # 0 /\ Last(found[t]).gpu = Nodes[node[t]].gpu
          /\ DevicesOf(Front(found[t]), Nodes, node[t] - 1)
      BY <1>0, <2>1, <2>5 DEF ScanOf, ReadSoFar
    <3>2. d = DeviceOf(n.gpu, n.text, n.caches)
      BY <3>1 DEF Last
    <3> HIDE DEF d
    <3> QED BY <1>0, <2>1, <2>4, <3>1, <3>2, AddNode
  <2>6. node'[t] - 1 = node[t] /\ node'[t] \in 1..(count[t] + 1)
    BY <1>0, <2>1
  <2> HIDE DEF d, i
  <2> QED BY <1>0, <1>b, <2>1, <2>5, <2>6 DEF ScanOf, ReadSoFar
<1>5. CASE ReadAll(t)
  <2>1. /\ scan[t] = "gpuid" /\ scan'[t] = "regen" /\ node[t] > count[t]
        /\ before'[t] = before[t] /\ count'[t] = count[t] /\ found'[t] = found[t]
    BY <1>0, <1>5 DEF ReadAll, ScanAt
  <2>2. before[t] = Generation => node[t] - 1 = count[t]
    <3>1. node[t] \in Nat /\ count[t] \in Nat
      BY <1>0
    <3>2. before[t] = Generation => node[t] \in 1..(count[t] + 1)
      BY <1>0, <2>1 DEF ScanOf, ReadSoFar
    <3> QED BY <2>1, <3>1, <3>2
  <2> QED BY <1>0, <1>b, <2>1, <2>2 DEF ScanOf, ReadSoFar
<1>6. CASE AcceptScan(t)
  <2>1. /\ scan[t] = "regen" /\ scan'[t] = "ok" /\ before[t] = Generation
        /\ before'[t] = before[t] /\ found'[t] = found[t]
    BY <1>0, <1>6 DEF AcceptScan, ScanAt, Unchanged
  <2>2. DevicesOf(found[t], Nodes, Len(Nodes)) /\ Nodes = past[before[t]]
    BY <1>0, <2>1 DEF ScanOf, ReadSoFar, Nodes
  <2> QED BY <1>0, <1>a, <1>b, <2>1, <2>2 DEF ScanOf, ReadSoFar
<1>7. CASE RetryScan(t)
  <2>1. scan'[t] \in {"gen", "failed"}
    BY <1>0, <1>7 DEF RetryScan, ScanAt
  <2> QED BY <2>1 DEF ScanOf, ReadSoFar
<1> QED BY <1>1, <1>2, <1>3, <1>4, <1>5, <1>6, <1>7 DEF ScanStep

LEMMA ScanOfNext ==
  ASSUME Types, ScanInv, [Next]_vars, NEW u \in Scanners PROVE ScanOf(u)'
<1>0. /\ past \in Seq(Layouts) /\ found \in [Scanners -> Seq(Found)]
      /\ count \in [Scanners -> Nat] /\ node \in [Scanners -> Nat]
      /\ Generation \in Nat \ {0} /\ before \in [Scanners -> 0..Generation]
      /\ attempt \in [Scanners -> 0..MaxRetries]
      /\ scan \in [Scanners -> {"none", "gen", "count", "gpuid", "files", "regen",
                                "ok", "failed"}]
      /\ ScanOf(u)
  BY NodeFacts, ScanInvOf DEF Types, TypeOK, TTypeOK
<1>1. CASE UNCHANGED tvars
  BY <1>0, <1>1, ScanKept DEF tvars
<1>2. ASSUME NEW layout \in Layouts, ChangeTopology(layout) PROVE ScanOf(u)'
  <2>1. /\ past' = Append(past, layout)
        /\ UNCHANGED <<scan, attempt, before, count, node, found>>
    BY <1>2 DEF ChangeTopology
  <2>2. Generation' = Generation + 1 /\ \A g \in 1..Generation : past'[g] = past[g]
    BY <1>0, <2>1 DEF Generation
  <2>3. before[u] # Generation' /\ (before[u] \in 1..Generation => before[u] \in 1..Generation')
    BY <1>0, <2>2
  <2>4. scan[u] = "ok" => before[u] \in 1..Generation
    BY <1>0 DEF ScanOf
  <2>5. scan[u] = "ok" => past'[before[u]] = past[before[u]]
    BY <2>2, <2>4
  <2> QED BY <1>0, <2>1, <2>3, <2>5 DEF ScanOf
<1>3. ASSUME NEW t \in Scanners, Quits(t, "failed") \/ Quits(t, "none")
      PROVE  ScanOf(u)'
  <2>1. CASE u = t
    <3>1. scan'[u] \in {"failed", "none"}
      BY <1>0, <1>3, <2>1 DEF Quits
    <3> QED BY <3>1 DEF ScanOf, ReadSoFar
  <2>2. CASE u # t
    BY <1>0, <1>3, <2>2, ScanKept DEF Quits
  <2> QED BY <2>1, <2>2
<1>4. ASSUME NEW t \in Scanners, BeginScan(t) PROVE ScanOf(u)'
  <2>1. CASE u = t
    <3>1. scan'[u] = "gen"
      BY <1>0, <1>4, <2>1 DEF BeginScan
    <3> QED BY <3>1 DEF ScanOf, ReadSoFar
  <2>2. CASE u # t
    BY <1>0, <1>4, <2>2, ScanKept DEF BeginScan
  <2> QED BY <2>1, <2>2
<1>5. ASSUME NEW t \in Scanners, ScanStep(t) PROVE ScanOf(u)'
  <2>1. CASE u = t
    BY <1>5, <2>1, ScanReads
  <2>2. CASE u # t
    <3>1. past' = past /\ found'[u] = found[u]
      BY <1>5, <2>2, FoundNode
    <3>2. /\ scan'[u] = scan[u] /\ before'[u] = before[u]
          /\ count'[u] = count[u] /\ node'[u] = node[u]
      BY <1>0, <1>5, <2>2
      DEF ScanStep, ReadGeneration, CountNodes, ReadGpuId, ReadFiles, ReadAll, AcceptScan,
          RetryScan, ScanAt
    <3> QED BY <1>0, <3>1, <3>2, ScanKept
  <2> QED BY <2>1, <2>2
<1> QED BY <1>1, <1>2, <1>3, <1>4, <1>5, TopologyMoves

LEMMA ScanInvNext == Types /\ ScanInv /\ [Next]_vars => ScanInv'
  BY ScanOfNext, ScanInvOfNext

-----------------------------------------------------------------------------
(* An accepted snapshot is the list of devices of one generation, though   *)
(* it was read file by file while the kernel changed the nodes             *)
(* (Topology::create(), topology.cpp:430).                                 *)
THEOREM SnapshotOfOneGeneration == Spec => []SnapshotConsistent
<1>1. Init => Types /\ ScanInv /\ Creations
  BY InvInit DEF CreateInv
<1>2. Types /\ ScanInv /\ Creations /\ [Next]_vars => (Types /\ ScanInv /\ Creations)'
  BY TypesNext, ScanInvNext
<1>3. ScanInv => SnapshotConsistent
  BY DEF ScanInv
<1> QED BY <1>1, <1>2, <1>3, PTL DEF Spec

-----------------------------------------------------------------------------
(* The mutexes, the pages and the runtime.                                 *)
LEMMA LocksNext == Types /\ Locks /\ [Next]_vars => Locks'
<1> SUFFICES ASSUME Types, Locks, [Next]_vars PROVE Locks'
  OBVIOUS
<1>0. /\ pc \in [Threads -> Steps] /\ Free \notin Threads
      /\ \A t \in Threads : (pageMtx = t <=> pc[t] \in InPages)
                            /\ (runtimeMtx = t <=> pc[t] = "enable")
  BY ContextAssumption DEF Types, TypeOK, Steps, Threads, Locks
<1> USE DEF Locks, Steps, Goto, InPages
<1>1. CASE UNCHANGED vars \/ Change
  BY <1>0, <1>1 DEF vars, cvars, Change
<1>2. ASSUME NEW t \in Threads,
             \/ Open(t) \/ Scan(t) \/ ScanError(t) \/ Scanned(t) \/ UseCached(t)
             \/ AcquireVm(t) \/ MakeDevice(t) \/ DevicesDone(t) \/ FreeRefused(t)
      PROVE  Locks'
  BY <1>0, <1>2
  DEF Open, Scan, ScanError, Scanned, UseCached, AcquireVm, MakeDevice, DevicesDone,
      FreeRefused, cvars, locks
<1>3. ASSUME NEW t \in Threads,
             \/ PagesReady(t) \/ PagesMissing(t) \/ RuntimeReady(t) \/ RuntimeMissing(t)
             \/ AllocEventPage(t) \/ RegisterEventPage(t) \/ AllocFencePage(t)
             \/ StoreFencePage(t) \/ CreateEvents(t) \/ StartWatcher(t)
      PROVE  Locks'
  BY <1>0, <1>3
  DEF PagesReady, PagesMissing, RuntimeReady, RuntimeMissing, AllocEventPage,
      RegisterEventPage, AllocFencePage, StoreFencePage, CreateEvents, StartWatcher,
      Step, Make, locks
<1>4. ASSUME NEW t \in Threads, LockPages(t) \/ LockRuntime(t) PROVE Locks'
  BY <1>0, <1>4 DEF LockPages, LockRuntime, Step
<1>5. ASSUME NEW t \in Threads,
             OthersMadePages(t) \/ StoreEventPage(t) \/ OthersEnabled(t) \/ EnableRuntime(t)
      PROVE  Locks'
  BY <1>0, <1>5 DEF OthersMadePages, StoreEventPage, OthersEnabled, EnableRuntime, Step
<1>6. ASSUME NEW t \in Threads, CreateFails(t) \/ Destroy(t) PROVE Locks'
  BY <1>0, <1>6 DEF CreateFails, Destroy, Release
<1> QED BY <1>1, <1>2, <1>3, <1>4, <1>5, <1>6 DEF Next, CreateStep

LEMMA PagesNext ==
  Types /\ Creations /\ Locks /\ Pages /\ PagesServeContexts /\ [Next]_vars
    => Pages' /\ PagesServeContexts'
<1> SUFFICES ASSUME Types, Creations, Locks, Pages, PagesServeContexts, [Next]_vars
             PROVE  Pages' /\ PagesServeContexts'
  OBVIOUS
<1> DEFINE Good == Pages' /\ PagesServeContexts'
<1>0. /\ pc \in [Threads -> Steps]
      /\ \A t, u \in Threads : pc[t] \in InPages /\ pc[u] \in InPages => t = u
      /\ Pages /\ PagesServeContexts
  BY DEF Types, TypeOK, Steps, Threads, Locks
<1> USE DEF Pages, PagesServeContexts, Steps, Goto, InPages
<1>1. CASE UNCHANGED vars \/ Change
  BY <1>0, <1>1 DEF vars, cvars, Change
<1>2. ASSUME NEW t \in Threads,
             \/ Open(t) \/ Scan(t) \/ ScanError(t) \/ Scanned(t) \/ UseCached(t)
             \/ AcquireVm(t) \/ MakeDevice(t) \/ DevicesDone(t) \/ FreeRefused(t)
      PROVE  Good
  BY <1>0, <1>2
  DEF Open, Scan, ScanError, Scanned, UseCached, AcquireVm, MakeDevice, DevicesDone,
      FreeRefused, cvars, globals, kernel
<1>3. ASSUME NEW t \in Threads, PagesReady(t) \/ PagesMissing(t) \/ LockPages(t)
      PROVE  Good
  BY <1>0, <1>3 DEF PagesReady, PagesMissing, LockPages, Step, globals, kernel
<1>4. ASSUME NEW t \in Threads, OthersMadePages(t) \/ AllocEventPage(t) PROVE Good
  BY <1>0, <1>4 DEF OthersMadePages, AllocEventPage, StillMissing, Step, globals, kernel
<1>5. ASSUME NEW t \in Threads, RegisterEventPage(t) PROVE Good
  <2>1. id[t] # None
    BY <1>5 DEF RegisterEventPage, Creations, Alive, None
  <2> QED BY <1>0, <1>5, <2>1 DEF RegisterEventPage, globals
<1>6. ASSUME NEW t \in Threads, AllocFencePage(t) \/ StoreFencePage(t) PROVE Good
  BY <1>0, <1>6 DEF AllocFencePage, StoreFencePage, globals, kernel
<1>7. ASSUME NEW t \in Threads, StoreEventPage(t) PROVE Good
  BY <1>0, <1>7 DEF StoreEventPage, kernel
<1>8. ASSUME NEW t \in Threads,
             \/ RuntimeReady(t) \/ RuntimeMissing(t) \/ LockRuntime(t) \/ OthersEnabled(t)
             \/ EnableRuntime(t) \/ CreateEvents(t) \/ StartWatcher(t)
      PROVE  Good
  BY <1>0, <1>8
  DEF RuntimeReady, RuntimeMissing, LockRuntime, OthersEnabled, EnableRuntime,
      CreateEvents, StartWatcher, Step, Make, globals, kernel
<1>9. ASSUME NEW t \in Threads, CreateFails(t) \/ Destroy(t) PROVE Good
  <2>1. pc[t] \notin {"fence", "storeFence", "storeEvent"}
    BY <1>9 DEF CreateFails, Destroy, MayFail
  <2>2. Release(t)
    BY <1>9 DEF CreateFails, Destroy
  <2> QED BY <1>0, <2>1, <2>2 DEF Release, globals, kernel
<1> QED BY <1>1, <1>2, <1>3, <1>4, <1>5, <1>6, <1>7, <1>8, <1>9 DEF Next, CreateStep

LEMMA OnceNext == Once /\ [Next]_vars => Once'
<1> SUFFICES ASSUME Once, [Next]_vars PROVE Once'
  OBVIOUS
<1> USE DEF Once
<1>1. CASE UNCHANGED vars \/ Change
  BY <1>1 DEF vars, cvars, Change
<1>2. ASSUME NEW t \in Threads, AcquireVm(t) \/ EnableRuntime(t) PROVE Once'
  BY <1>2 DEF AcquireVm, EnableRuntime
<1>3. ASSUME NEW t \in Threads,
             \/ Open(t) \/ Scan(t) \/ ScanError(t) \/ Scanned(t) \/ UseCached(t)
             \/ MakeDevice(t) \/ DevicesDone(t) \/ FreeRefused(t) \/ CreateFails(t)
             \/ Destroy(t)
      PROVE  Once'
  BY <1>3
  DEF Open, Scan, ScanError, Scanned, UseCached, MakeDevice, DevicesDone, FreeRefused,
      CreateFails, Destroy, Release, cvars, globals, kernel
<1>4. ASSUME NEW t \in Threads,
             \/ PagesReady(t) \/ PagesMissing(t) \/ LockPages(t) \/ OthersMadePages(t)
             \/ AllocEventPage(t) \/ RegisterEventPage(t) \/ AllocFencePage(t)
             \/ StoreFencePage(t) \/ StoreEventPage(t) \/ RuntimeReady(t)
             \/ RuntimeMissing(t) \/ LockRuntime(t) \/ OthersEnabled(t)
             \/ CreateEvents(t) \/ StartWatcher(t)
      PROVE  Once'
  BY <1>4
  DEF PagesReady, PagesMissing, LockPages, OthersMadePages, AllocEventPage,
      RegisterEventPage, AllocFencePage, StoreFencePage, StoreEventPage, RuntimeReady,
      RuntimeMissing, LockRuntime, OthersEnabled, CreateEvents, StartWatcher, Step, Make,
      globals, kernel
<1> QED BY <1>1, <1>2, <1>3, <1>4 DEF Next, CreateStep

-----------------------------------------------------------------------------
(* A creation holds things while its thread is in it, and a thread works   *)
(* on one creation at a time.                                              *)
LEMMA NothingLeftNext ==
  Types /\ Creations /\ Locks /\ NothingLeft /\ [Next]_vars /\ Locks' => NothingLeft'
<1> SUFFICES ASSUME Types, Creations, Locks, NothingLeft, [Next]_vars, Locks'
             PROVE  NothingLeft'
  OBVIOUS
<1> DEFINE Held == \A i \in 1..MaxCreates :
                     held[i] # {} => \E t \in Threads : Alive(t) /\ id[t] = i
<1>0. /\ pc \in [Threads -> Steps] /\ id \in [Threads -> 0..MaxCreates]
      /\ held \in [1..MaxCreates -> SUBSET Thing]
      /\ MaxCreates \in Nat /\ creates \in 0..MaxCreates
      /\ \A t \in Threads : Alive(t) => id[t] \in 1..creates
  BY ContextAssumption DEF Types, TypeOK, Steps, Threads, Creations
<1>a. Held
  BY DEF NothingLeft
<1>1. ({pageMtx, runtimeMtx} \ {Free} \subseteq {t \in Threads : Alive(t)})'
  <2>1. {pageMtx', runtimeMtx'} \subseteq Threads \cup {Free}
    BY Processes DEF ProcessTyped
  <2> QED BY <2>1 DEF Locks, InPages, Alive
<1>2. Held'
  <2> USE <1>a DEF Alive, Goto, Steps
  <2>1. CASE UNCHANGED vars \/ Change
    BY <1>0, <2>1 DEF vars, cvars, Change
  <2>2. ASSUME NEW t \in Threads, Open(t) PROVE Held'
    <3> SUFFICES ASSUME NEW i \in 1..MaxCreates, held'[i] # {}
                 PROVE  \E u \in Threads : pc'[u] # "idle" /\ id'[u] = i
      OBVIOUS
    <3>1. CASE i = creates + 1
      BY <1>0, <2>2, <3>1 DEF Open
    <3>2. CASE i # creates + 1
      <4>1. PICK u \in Threads : pc[u] # "idle" /\ id[u] = i
        BY <1>0, <2>2, <3>2 DEF Open
      <4> QED BY <1>0, <2>2, <4>1 DEF Open
    <3> QED BY <3>1, <3>2
  <2>3. ASSUME NEW t \in Threads, CreateFails(t) \/ Destroy(t) PROVE Held'
    <3>1. Release(t) /\ Alive(t)
      BY <2>3 DEF CreateFails, Destroy, MayFail
    <3> SUFFICES ASSUME NEW i \in 1..MaxCreates, held'[i] # {}
                 PROVE  \E u \in Threads : pc'[u] # "idle" /\ id'[u] = i
      OBVIOUS
    <3>2. i # id[t] /\ held'[i] = held[i]
      BY <1>0, <3>1 DEF Release
    <3>3. PICK u \in Threads : pc[u] # "idle" /\ id[u] = i
      BY <1>0, <3>2
    <3> QED BY <1>0, <3>1, <3>2, <3>3 DEF Release, local
  <2>4. ASSUME NEW t \in Threads, pc[t] # "idle",
               \/ UNCHANGED held
               \/ \E things : held' = [held EXCEPT ![id[t]] = things],
               \/ UNCHANGED pc
               \/ \E s \in Steps \ {"idle"} : pc' = [pc EXCEPT ![t] = s],
               UNCHANGED id
        PROVE  Held'
    <3> SUFFICES ASSUME NEW i \in 1..MaxCreates, held'[i] # {}
                 PROVE  \E u \in Threads : pc'[u] # "idle" /\ id'[u] = i
      OBVIOUS
    <3>1. \A u \in Threads : pc[u] # "idle" => pc'[u] # "idle"
      BY <1>0, <2>4
    <3>2. CASE i = id[t]
      BY <2>4, <3>1, <3>2
    <3>3. CASE i # id[t]
      <4>1. held'[i] = held[i]
        BY <1>0, <2>4, <3>3
      <4>2. PICK u \in Threads : pc[u] # "idle" /\ id[u] = i
        BY <1>0, <4>1
      <4> QED BY <2>4, <3>1, <4>2
    <3> QED BY <3>2, <3>3
  <2>5. ASSUME NEW t \in Threads,
               \/ Scan(t) \/ ScanError(t) \/ Scanned(t) \/ UseCached(t) \/ AcquireVm(t)
               \/ DevicesDone(t) \/ RegisterEventPage(t)
               \/ EnableRuntime(t)
        PROVE  Held'
    BY <2>4, <2>5
    DEF Scan, ScanError, Scanned, UseCached, AcquireVm, DevicesDone, RegisterEventPage,
        EnableRuntime, cvars, local
  <2>6. ASSUME NEW t \in Threads,
               \/ PagesReady(t) \/ PagesMissing(t) \/ LockPages(t) \/ OthersMadePages(t)
               \/ RuntimeReady(t) \/ RuntimeMissing(t) \/ LockRuntime(t)
               \/ OthersEnabled(t)
        PROVE  Held'
    BY <2>4, <2>6
    DEF PagesReady, PagesMissing, LockPages, OthersMadePages, RuntimeReady,
        RuntimeMissing, LockRuntime, OthersEnabled, Step, local
  <2>7. ASSUME NEW t \in Threads,
               \/ MakeDevice(t) \/ AllocEventPage(t) \/ AllocFencePage(t)
               \/ CreateEvents(t) \/ StartWatcher(t)
        PROVE  Held'
    BY <2>4, <2>7
    DEF MakeDevice, AllocEventPage, AllocFencePage, CreateEvents, StartWatcher, Make,
        Hold, local
  <2>8. ASSUME NEW t \in Threads, StoreFencePage(t) \/ StoreEventPage(t) PROVE Held'
    BY <2>4, <2>8 DEF StoreFencePage, StoreEventPage, local
  <2>9. ASSUME NEW t \in Threads, FreeRefused(t) PROVE Held'
    BY <1>0, <2>9 DEF FreeRefused, local
  <2> QED BY <2>1, <2>2, <2>3, <2>5, <2>6, <2>7, <2>8, <2>9 DEF Next, CreateStep
<1> QED BY <1>1, <1>2 DEF NothingLeft

-----------------------------------------------------------------------------
(* Trap handlers: a context that is alone has nobody to replace its own.   *)
LEMMA AloneNext ==
  Types /\ ScanInv /\ Creations /\ Alone /\ [Next]_vars => Alone'
<1> SUFFICES ASSUME Types, ScanInv, Creations, Alone, [Next]_vars PROVE Alone'
  OBVIOUS
<1>0. /\ pc \in [Threads -> Steps] /\ id \in [Threads -> 0..MaxCreates]
      /\ made \in [Threads -> Nat] /\ found \in [Threads -> Seq(Found)]
      /\ trap \in [Gpus -> 0..MaxCreates]
      /\ \A t \in Threads : pc[t] = "scan" => made[t] = 0
  BY DEF Types, TypeOK, Steps, Threads, Creations
<1> USE DEF Alive, Goto, Steps
<1>2. ASSUME NEW t \in Threads, pc[t] # "idle", UNCHANGED <<id, overlapped>>,
             \/ UNCHANGED pc
             \/ \E s \in Steps : pc' = [pc EXCEPT ![t] = s],
             \/ pc'[t] = "idle"
             \/ (\A i \in 1..made[t] : trap[found[t][i].gpu] = id[t])
                   => \A i \in 1..made'[t] : trap'[found'[t][i].gpu] = id[t]
      PROVE  Alone'
  <2> SUFFICES ASSUME NEW u \in Threads, pc'[u] # "idle", id[u] \notin overlapped
               PROVE  /\ \A v \in Threads \ {u} : pc'[v] = "idle"
                      /\ \A i \in 1..made'[u] : trap'[found'[u][i].gpu] = id[u]
    BY <1>2 DEF Alone
  <2>1. pc[u] # "idle"
    BY <1>0, <1>2
  <2>2. /\ \A v \in Threads \ {u} : pc[v] = "idle"
        /\ \A i \in 1..made[u] : trap[found[u][i].gpu] = id[u]
    BY <2>1 DEF Alone
  <2>3. u = t
    BY <1>2, <2>2
  <2> QED BY <1>0, <1>2, <2>2, <2>3
<1>3. CASE UNCHANGED vars
  BY <1>3 DEF Alone, vars, cvars, tvars
<1>4. CASE Change
  BY <1>4 DEF Alone, Change, ChangeTopology, cvars
<1>5. ASSUME NEW t \in Threads, Open(t) PROVE Alone'
  <2>1. /\ pc[t] = "idle" /\ pc' = [pc EXCEPT ![t] = "scan"]
        /\ id' = [id EXCEPT ![t] = creates + 1] /\ made' = [made EXCEPT ![t] = 0]
    BY <1>5 DEF Open
  <2> DEFINE others == {v \in Threads \ {t} : pc[v] # "idle"}
  <2>2. overlapped' = IF others = {} THEN overlapped
                      ELSE overlapped \cup {creates + 1} \cup {id[v] : v \in others}
    BY <1>5 DEF Open
  <2> SUFFICES ASSUME NEW u \in Threads, pc'[u] # "idle", id'[u] \notin overlapped'
               PROVE  /\ \A v \in Threads \ {u} : pc'[v] = "idle"
                      /\ \A i \in 1..made'[u] : trap'[found'[u][i].gpu] = id'[u]
    BY DEF Alone
  <2>3. CASE u = t
    <3>1. others = {}
      BY <1>0, <2>1, <2>2, <2>3
    <3> QED BY <1>0, <2>1, <2>3, <3>1
  <2>4. CASE u # t
    <3>1. u \in others /\ id'[u] = id[u]
      BY <1>0, <2>1, <2>4
    <3> QED BY <2>2, <3>1
  <2> QED BY <2>3, <2>4
<1>6. ASSUME NEW t \in Threads, Scan(t) \/ ScanError(t) PROVE Alone'
  BY <1>0, <1>2, <1>6 DEF Scan, ScanError, cvars
<1>7. ASSUME NEW t \in Threads, MakeDevice(t) PROVE Alone'
  <2>1. /\ pc[t] = "make" /\ pc' = [pc EXCEPT ![t] = "device"]
        /\ made' = [made EXCEPT ![t] = @ + 1] /\ trap' = [trap EXCEPT ![Gpu(t)] = id[t]]
        /\ UNCHANGED <<id, found, overlapped>>
    BY <1>7 DEF MakeDevice, tvars
  <2>2. \A i \in 1..made[t] : i \in 1..Len(found[t])
    BY <1>0, <2>1 DEF Creations
  <2>3. \A i \in 1..made[t] : found[t][i].gpu \in Gpus
    BY <1>0, <2>2, FoundGpu
  <2>4. Gpu(t) = found[t][made[t] + 1].gpu /\ Gpu(t) \in Gpus
    BY <2>1, GpuTyped DEF Gpu, MoreDevices, Creations
  <2>5. ASSUME \A i \in 1..made[t] : trap[found[t][i].gpu] = id[t],
               NEW i \in 1..made'[t]
        PROVE  trap'[found'[t][i].gpu] = id[t]
    <3>1. i = made[t] + 1 \/ i \in 1..made[t]
      BY <1>0, <2>1
    <3> QED BY <1>0, <2>1, <2>3, <2>4, <2>5, <3>1
  <2> QED BY <1>2, <2>1, <2>5
<1>8. ASSUME NEW t \in Threads,
             \/ Scanned(t) \/ UseCached(t) \/ AcquireVm(t) \/ DevicesDone(t)
             \/ AllocEventPage(t) \/ RegisterEventPage(t) \/ AllocFencePage(t)
             \/ StoreFencePage(t) \/ StoreEventPage(t) \/ EnableRuntime(t)
             \/ CreateEvents(t) \/ StartWatcher(t)
      PROVE  Alone'
  BY <1>2, <1>8
  DEF Scanned, UseCached, AcquireVm, DevicesDone, AllocEventPage, RegisterEventPage,
      AllocFencePage, StoreFencePage, StoreEventPage, EnableRuntime, CreateEvents,
      StartWatcher, Make, local, kernel, tvars
<1>9. ASSUME NEW t \in Threads,
             \/ PagesReady(t) \/ PagesMissing(t) \/ LockPages(t) \/ OthersMadePages(t)
             \/ RuntimeReady(t) \/ RuntimeMissing(t) \/ LockRuntime(t) \/ OthersEnabled(t)
      PROVE  Alone'
  BY <1>2, <1>9
  DEF PagesReady, PagesMissing, LockPages, OthersMadePages, RuntimeReady, RuntimeMissing,
      LockRuntime, OthersEnabled, Step, local, kernel, tvars
<1>10. ASSUME NEW t \in Threads, CreateFails(t) \/ Destroy(t) PROVE Alone'
  <2>1. Release(t) /\ pc[t] # "idle"
    BY <1>10 DEF CreateFails, Destroy, MayFail
  <2> QED BY <1>0, <1>2, <2>1 DEF Release, local
<1>11. ASSUME NEW t \in Threads, FreeRefused(t) PROVE Alone'
  BY <1>0, <1>2, <1>11 DEF FreeRefused, local, kernel, tvars
<1> QED BY <1>3, <1>4, <1>5, <1>6, <1>7, <1>8, <1>9, <1>10, <1>11 DEF Next, CreateStep

-----------------------------------------------------------------------------
LEMMA InvNext == CreateInv /\ [Next]_vars => CreateInv'
<1> SUFFICES ASSUME CreateInv, [Next]_vars PROVE CreateInv'
  OBVIOUS
<1>1. Types' /\ Creations' /\ ScanInv'
  BY TypesNext, ScanInvNext DEF CreateInv
<1>2. Locks' /\ Pages' /\ PagesServeContexts'
  BY LocksNext, PagesNext DEF CreateInv
<1>3. NothingLeft' /\ Alone' /\ Once'
  BY <1>2, NothingLeftNext, AloneNext, OnceNext DEF CreateInv
<1> QED BY <1>1, <1>2, <1>3 DEF CreateInv

LEMMA CreateInvariant == Spec => []CreateInv
  BY InvInit, InvNext, PTL DEF Spec

(* A context that has passed the check can use both pages, and one alone   *)
(* in the process has its own trap handlers, however creations of other    *)
(* threads interleave, fail and end before (Context::create(),             *)
(* setup_trap_handler()).                                                  *)
THEOREM ContextsServed == Spec => []Inv
<1>1. CreateInv => Inv
  <2> SUFFICES ASSUME CreateInv PROVE Inv
    OBVIOUS
  <2>1. TypeOK /\ PagesServeContexts
    BY DEF CreateInv, Types
  <2>2. ASSUME NEW t \in Threads, pc[t] = "live", id[t] \notin overlapped,
               NEW i \in DOMAIN found[t]
        PROVE  trap[found[t][i].gpu] = id[t]
    <3>1. i \in 1..made[t]
      BY <2>2 DEF CreateInv, Creations, AfterDevices, PagesDone, Types, Threads
    <3> QED BY <2>2, <3>1 DEF CreateInv, Alone, Alive
  <2> QED BY <2>1, <2>2 DEF Inv, OwnTrapHandler
<1> QED BY <1>1, CreateInvariant, PTL

(* Each GPU is bound to one descriptor, the event page registered once and *)
(* the runtime enabled once, by whatever creation comes first              *)
(* (open_render_fd(), Context::create()).                                  *)
THEOREM OnceInProcess == Spec => []OncePerProcess
<1>1. CreateInv => OncePerProcess
  <2> SUFFICES ASSUME CreateInv PROVE OncePerProcess
    OBVIOUS
  <2>1. bound = renderCache /\ runtimeOn = runtimeEnabled
    BY DEF CreateInv, Once
  <2>2. ASSUME NEW t \in Threads, pc[t] = "register" PROVE registered = None
    <3>1. ~eventPage /\ pageMtx = t
      BY <2>2 DEF CreateInv, Pages, Locks, InPages
    <3>2. \A u \in Threads : pc[u] \notin {"fence", "storeFence", "storeEvent"}
      BY <2>2, <3>1 DEF CreateInv, Locks, InPages
    <3> QED BY <3>1, <3>2 DEF CreateInv, Pages
  <2> QED BY <2>1, <2>2 DEF OncePerProcess, Cached
<1> QED BY <1>1, CreateInvariant, PTL

(* A creation that failed and a context that was destroyed hold nothing:   *)
(* no descriptor, memory, event or thread, and no mutex (~Context()).      *)
THEOREM NothingHeld == Spec => []NothingLeft
<1>1. CreateInv => NothingLeft
  BY DEF CreateInv
<1> QED BY <1>1, CreateInvariant, PTL
=============================================================================
