------------------------------ MODULE Topology -------------------------------
(***************************************************************************)
(* Discovery of the nodes (lib/topology.cpp).  Topology::create() reads    *)
(* the generation, counts the nodes, reads the files of each one by one,   *)
(* and reads the generation again: if it changed, the whole snapshot is    *)
(* taken anew, three times at most.                                        *)
(*                                                                         *)
(* A file is a sequence of lines [key, val], val = NoNumber when what      *)
(* follows the key is no number.  A node of the kernel is a record         *)
(* [gpu, text, caches]: its gpu_id, its properties file and the files of   *)
(* its caches.  External: the kernel changes the nodes and the generation  *)
(* together.                                                               *)
(***************************************************************************)
EXTENDS Integers, SequencesExt

CONSTANTS Scanners,      \* the threads
          Layouts,       \* the lists of nodes the kernel may have
          Keys,          \* the properties the parser knows
          MaxRetries,    \* MAX_GENERATION_RETRIES: 3
          PageSize,
          MaxChanges     \* bound: changes of the topology

NoNumber == -1

Node == UNION {ToSet(nodes) : nodes \in Layouts}

ASSUME TopologyAssumption ==
  /\ MaxRetries \in Nat \ {0} /\ MaxChanges \in Nat /\ PageSize \in Nat \ {0}
  /\ Layouts # {} /\ \A nodes \in Layouts : nodes \in Seq(Node)

VARIABLES
  past,   \* the nodes of every generation so far; the last is the present
  scan,   \* where each thread's scan is
  attempt, before, count, node,  \* its locals
  found   \* the devices it has found

tvars == <<past, scan, attempt, before, count, node, found>>

Generation == Len(past)
Nodes == past[Generation]

-----------------------------------------------------------------------------
(* parse_property(): unknown keys are ignored.                             *)
Assign(props, line) ==
  IF line.key \in Keys THEN [props EXCEPT ![line.key] = line.val] ELSE props

(* parse_properties(): lines without a number are skipped, and what no     *)
(* line names is 0.                                                        *)
Parse(text) ==
  FoldLeft(Assign, [k \in Keys |-> 0], SelectSeq(text, LAMBDA l : l.val # NoNumber))

(* read_caches(): a cache like one before it, as each compute unit has     *)
(* them, is left out.                                                      *)
Caches(files) ==
  FoldLeft(LAMBDA kept, c :
             IF \E i \in DOMAIN kept : /\ kept[i].level = c.level
                                       /\ kept[i].size = c.size
                                       /\ kept[i].type = c.type
             THEN kept ELSE Append(kept, c),
           <<>>, files)

(* vgpr_size_per_cu(), in KiB.  A version is major * 10000 + minor * 100 + *)
(* step, as the kernel writes it.                                          *)
VgprSize(gfx) ==
  IF gfx \in {90402, 90010, 90008, 90500} THEN 512
  ELSE IF gfx >= 110000 THEN 384 ELSE 256

OrOne(n) == IF n = 0 THEN 1 ELSE n
Least(a, b) == IF a < b THEN a ELSE b
PagesUp(bytes) == ((bytes + PageSize - 1) \div PageSize) * PageSize

(* compute_cwsr_sizes(): what the kernel needs to save the waves of a      *)
(* queue, computed from the properties of the node.                        *)
CwsrSizes(p) ==
  LET cus == (p["simd_count"] \div OrOne(p["simd_per_cu"])) \div OrOne(p["num_xcc"])
      gfx10 == p["gfx_target_version"] >= 100100
      engines == p["array_count"] \div OrOne(p["simd_arrays_per_engine"])
      waves == IF gfx10 THEN cus * 32 ELSE Least(cus * 40, engines * 512)
      lds == IF p["gfx_target_version"] = 90500 THEN p["lds_size_in_kb"] ELSE 64
      data == PagesUp(cus * (VgprSize(p["gfx_target_version"]) + 16 + lds + 4) * 1024)
      stack == PagesUp(40 + waves * (IF gfx10 THEN 12 ELSE 8) + 8)
      limited == IF p["gfx_target_version"] \div 10000 = 10 THEN Least(stack, 28672)
                 ELSE stack
  IN  [cwsr |-> limited + data, stack |-> limited]

(* read_node() and the sizes Topology::create() adds where the kernel does *)
(* not report them.                                                        *)
DeviceOf(gpu, text, caches) ==
  LET p == Parse(text)
      known == p["cwsr_size"] # 0 /\ p["ctl_stack_size"] # 0
  IN  [gpu |-> gpu, props |-> p, caches |-> Caches(caches),
       save |-> IF known THEN [cwsr |-> p["cwsr_size"], stack |-> p["ctl_stack_size"]]
                ELSE CwsrSizes(p)]

(* The devices of the first k nodes: one for each GPU, in their order.     *)
DevicesOf(devices, nodes, k) ==
  LET gpus == {n \in 1..k : nodes[n].gpu # 0}
  IN  \E at \in [DOMAIN devices -> gpus] :
        /\ \A i, j \in DOMAIN devices : i < j => at[i] < at[j]
        /\ \A n \in gpus : \E i \in DOMAIN devices : at[i] = n
        /\ \A i \in DOMAIN devices :
             LET n == nodes[at[i]] IN devices[i] = DeviceOf(n.gpu, n.text, n.caches)

-----------------------------------------------------------------------------
TInit ==
  /\ past \in {<<layout>> : layout \in Layouts}
  /\ scan = [t \in Scanners |-> "none"]
  /\ attempt = [t \in Scanners |-> 0] /\ before = [t \in Scanners |-> 0]
  /\ count = [t \in Scanners |-> 0] /\ node = [t \in Scanners |-> 0]
  /\ found = [t \in Scanners |-> <<>>]

TTypeOK ==
  /\ Len(past) \in 1..(MaxChanges + 1) /\ ToSet(past) \subseteq Layouts
  /\ scan \in [Scanners -> {"none", "gen", "count", "gpuid", "files", "regen",
                            "ok", "failed"}]
  /\ attempt \in [Scanners -> 0..MaxRetries]
  /\ before \in [Scanners -> 0..Generation]
  /\ \A t \in Scanners : node[t] \in 0..(count[t] + 1)

ScanAt(t, from, to) == scan[t] = from /\ scan' = [scan EXCEPT ![t] = to]

BeginScan(t) ==
  /\ scan' = [scan EXCEPT ![t] = "gen"]
  /\ attempt' = [attempt EXCEPT ![t] = 1]
  /\ UNCHANGED <<past, before, count, node, found>>

ReadGeneration(t) ==
  /\ ScanAt(t, "gen", "count")
  /\ before' = [before EXCEPT ![t] = Generation]
  /\ found' = [found EXCEPT ![t] = <<>>]
  /\ UNCHANGED <<past, attempt, count, node>>

CountNodes(t) ==
  /\ ScanAt(t, "count", "gpuid")
  /\ count' = [count EXCEPT ![t] = Len(Nodes)]
  /\ node' = [node EXCEPT ![t] = 1]
  /\ UNCHANGED <<past, attempt, before, found>>

Exists(t) == node[t] <= Len(Nodes)

(* A node that is no GPU ends here.                                        *)
ReadGpuId(t) ==
  /\ scan[t] = "gpuid" /\ node[t] <= count[t] /\ Exists(t)
  /\ LET gpu == Nodes[node[t]].gpu
     IN  \/ /\ gpu # 0 /\ ScanAt(t, "gpuid", "files")
            /\ found' = [found EXCEPT ![t] = Append(@, [gpu |-> gpu])]
            /\ UNCHANGED node
         \/ /\ gpu = 0
            /\ node' = [node EXCEPT ![t] = @ + 1]
            /\ UNCHANGED <<scan, found>>
  /\ UNCHANGED <<past, attempt, before, count>>

(* The files are read after the id, perhaps those of another device.       *)
ReadFiles(t) ==
  /\ ScanAt(t, "files", "gpuid") /\ Exists(t)
  /\ LET n == Nodes[node[t]]
         i == Len(found[t])
     IN  found' = [found EXCEPT ![t][i] = DeviceOf(@.gpu, n.text, n.caches)]
  /\ node' = [node EXCEPT ![t] = @ + 1]
  /\ UNCHANGED <<past, attempt, before, count>>

ReadAll(t) ==
  /\ ScanAt(t, "gpuid", "regen") /\ node[t] > count[t]
  /\ UNCHANGED <<past, attempt, before, count, node, found>>

(* A file is missing (the node has gone), or cannot be read.               *)
ScanFails(t) ==
  /\ \/ scan[t] \in {"gen", "regen"}
     \/ scan[t] \in {"gpuid", "files"} /\ node[t] <= count[t]
  /\ scan' = [scan EXCEPT ![t] = "failed"]
  /\ UNCHANGED <<past, attempt, before, count, node, found>>

\* Mutant of Unchanged: compares what was counted.
SameCount(t) == count[t] = Len(Nodes)

Unchanged(t) == before[t] = Generation

AcceptScan(t) ==
  /\ ScanAt(t, "regen", "ok") /\ Unchanged(t)
  /\ UNCHANGED <<past, attempt, before, count, node, found>>

RetryScan(t) ==
  /\ ~Unchanged(t)
  /\ IF attempt[t] < MaxRetries
     THEN ScanAt(t, "regen", "gen") /\ attempt' = [attempt EXCEPT ![t] = @ + 1]
     ELSE ScanAt(t, "regen", "failed") /\ UNCHANGED attempt
  /\ UNCHANGED <<past, before, count, node, found>>

ScanStep(t) ==
  \/ ReadGeneration(t) \/ CountNodes(t) \/ ReadGpuId(t) \/ ReadFiles(t)
  \/ ReadAll(t) \/ AcceptScan(t) \/ RetryScan(t)

ChangeTopology(layout) ==
  /\ Generation <= MaxChanges
  /\ past' = Append(past, layout)
  /\ UNCHANGED <<scan, attempt, before, count, node, found>>

-----------------------------------------------------------------------------
(* topology.cpp:4: a snapshot that is accepted is the list of devices of   *)
(* one generation, though it was read file by file while the kernel        *)
(* changed the nodes.                                                      *)
SnapshotConsistent ==
  \A t \in Scanners :
    scan[t] = "ok" =>
      LET nodes == past[before[t]] IN DevicesOf(found[t], nodes, Len(nodes))
=============================================================================
