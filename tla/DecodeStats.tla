----------------------------- MODULE DecodeStats -----------------------------
(***************************************************************************)
(* The records of the kubelet's summary (pkg/stats) and the functions of   *)
(* pkg/decode that turn one of them into a storage.MetricsPoint. A pointer *)
(* that may be nil is a value or NIL; a time is a number and 0 is the zero *)
(* time. Dereferencing a nil pointer panics, which ends the process: the   *)
(* ...Panics predicates say when that happens.                             *)
(***************************************************************************)
EXTENDS Quantity, Sequences, FiniteSets

CONSTANTS NIL,      \* the nil pointer
          PodRefs,  \* the references (namespace and name) of pods
          NoPod     \* the reference in a slot nothing was decoded into

ASSUME NilAssumption == NIL \notin Int /\ NoPod \notin PodRefs

(* What the decoders read of the kubelet's records, and the bytes of the   *)
(* network, which no decoder reads: decodeNetwork is never called.         *)
CPUStats     == [time: Nat, usage: Uint64 \cup {NIL}]
MemoryStats  == [time: Nat, avail: Uint64 \cup {NIL}, usage: Uint64 \cup {NIL},
                 ws: Uint64 \cup {NIL}]
NetworkStats == [time: Nat, rx: Uint64 \cup {NIL}, tx: Uint64 \cup {NIL}]
FsStats      == [time: Nat, avail: Uint64 \cup {NIL}, cap: Uint64 \cup {NIL},
                 used: Uint64 \cup {NIL}]
PodStats     == [ref: PodRefs, cpu: CPUStats \cup {NIL},
                 mem: MemoryStats \cup {NIL}, net: NetworkStats \cup {NIL},
                 fs: FsStats \cup {NIL}]
NodeStats    == [cpu: CPUStats \cup {NIL}, mem: MemoryStats \cup {NIL},
                 net: NetworkStats \cup {NIL}, fs: FsStats \cup {NIL}]

ZeroPoint ==
  [time |-> 0, cpu |-> ZeroQuantity,
   memUsage |-> ZeroQuantity, memAvail |-> ZeroQuantity, memWS |-> ZeroQuantity,
   rx |-> ZeroQuantity, tx |-> ZeroQuantity,
   fsAvail |-> ZeroQuantity, fsCap |-> ZeroQuantity, fsUsed |-> ZeroQuantity]

MetricsPoints ==
  [time: Nat, cpu: Quantities,
   memUsage: Quantities, memAvail: Quantities, memWS: Quantities,
   rx: Quantities, tx: Quantities,
   fsAvail: Quantities, fsCap: Quantities, fsUsed: Quantities]

ZeroPod == [ref |-> NoPod, point |-> ZeroPoint]

PodPoints == [ref: PodRefs \cup {NoPod}, point: MetricsPoints]

Bytes(val) == uint64Quantity(val, 0)

(*------------------------- one resource at a time ------------------------*)

CPUMissing(cpu) == cpu = NIL \/ cpu.usage = NIL

decodeCPU(point, cpu) ==
  IF CPUMissing(cpu) THEN point
  ELSE [point EXCEPT !.cpu = uint64Quantity(cpu.usage, Nano)]

MemoryMissing(mem) == mem = NIL \/ mem.ws = NIL

(* UsageBytes is optional in the summary and is dereferenced unchecked.    *)
MemoryPanics(mem) == ~MemoryMissing(mem) /\ mem.usage = NIL

decodeMemory(point, mem) ==
  IF MemoryMissing(mem) THEN point
  ELSE [point EXCEPT !.memAvail = IF mem.avail = NIL THEN @ ELSE Bytes(mem.avail),
                     !.memUsage = Bytes(mem.usage),
                     !.memWS    = Bytes(mem.ws)]

FsMissing(fs) == fs = NIL

FsPanics(fs) == ~FsMissing(fs) /\ (fs.avail = NIL \/ fs.cap = NIL)

decodeFs(point, fs) ==
  IF FsMissing(fs) THEN point
  ELSE [point EXCEPT !.fsAvail = Bytes(fs.avail),
                     !.fsCap   = Bytes(fs.cap),
                     !.fsUsed  = Bytes(IF fs.used = NIL THEN 0 ELSE fs.used)]

(* The earliest of the non-zero times of the stats present, 0 if none is.  *)
EarliestTime(stats) ==
  LET times == {s.time : s \in stats \ {NIL}} \ {0}
  IN  IF times = {} THEN 0 ELSE CHOOSE t \in times : \A u \in times : t <= u

getScrapeTimePod(cpu, mem)           == EarliestTime({cpu, mem})
getScrapeTimeNode(cpu, mem, net, fs) == EarliestTime({cpu, mem, net, fs})

Stamped(time) == [ZeroPoint EXCEPT !.time = time]

(*------------------------------ the node stats ---------------------------*)

NodeTime(node) == getScrapeTimeNode(node.cpu, node.mem, node.net, node.fs)

NodeErrs(node) ==
  IF NodeTime(node) = 0 THEN {"time"}
  ELSE {e \in {"cpu", "memory", "fs"} :
          \/ e = "cpu"    /\ CPUMissing(node.cpu)
          \/ e = "memory" /\ MemoryMissing(node.mem)
          \/ e = "fs"     /\ FsMissing(node.fs)}

NodePanics(node) ==
  NodeTime(node) # 0 /\ (MemoryPanics(node.mem) \/ FsPanics(node.fs))

(* Without a timestamp the target is left as it was.                       *)
decodeNodeStats(node, target) ==
  IF NodeTime(node) = 0 THEN target
  ELSE decodeFs(decodeMemory(decodeCPU(Stamped(NodeTime(node)), node.cpu),
                             node.mem), node.fs)

(*------------------------------- a pod's stats ---------------------------*)

PodTime(pod) == getScrapeTimePod(pod.cpu, pod.mem)

PodErrs(pod) ==
  IF PodTime(pod) = 0 THEN {"time"}
  ELSE {e \in {"cpu", "memory", "fs"} :
          \/ e = "cpu"    /\ CPUMissing(pod.cpu)
          \/ e = "memory" /\ MemoryMissing(pod.mem)
          \/ e = "fs"     /\ FsMissing(pod.fs)}

PodPanics(pod) ==
  PodTime(pod) # 0 /\ (MemoryPanics(pod.mem) \/ FsPanics(pod.fs))

Complete(pod) == PodErrs(pod) = {}

(* mutant: only the time stamp and the names are written *)
StaleSlot(pod, target) ==
  [ref |-> pod.ref, point |-> [target.point EXCEPT !.time = PodTime(pod)]]

(* The slot a pod is decoded into before anything is assigned: the target  *)
(* is overwritten as a whole, whatever an earlier pod left there.          *)
FreshSlot(pod, target) == [ref |-> pod.ref, point |-> Stamped(PodTime(pod))]

decodePodStats(pod, target) ==
  IF PodTime(pod) = 0 THEN target
  ELSE [FreshSlot(pod, target) EXCEPT
          !.point = decodeFs(decodeMemory(decodeCPU(@, pod.cpu), pod.mem), pod.fs)]

(*---------------------- what may be said of a summary --------------------*)

(* The positions up to n of the complete pods of a sequence. *)
KeptUpTo(pods, n) == {i \in 1 .. n : Complete(pods[i])}

(* points holds the complete ones of pods, decoded, in their order: pod i  *)
(* is found at the place that counts the complete pods up to i.            *)
IsSelection(points, pods) ==
  /\ Len(points) = Cardinality(KeptUpTo(pods, Len(pods)))
  /\ \A i \in KeptUpTo(pods, Len(pods)) :
       points[Cardinality(KeptUpTo(pods, i))] = decodePodStats(pods[i], ZeroPod)

SummaryPanics(s) ==
  NodePanics(s.node) \/ \E i \in 1 .. Len(s.pods) : PodPanics(s.pods[i])

SummaryFails(s) ==
  NodeErrs(s.node) # {} \/ \E i \in 1 .. Len(s.pods) : ~Complete(s.pods[i])
=============================================================================
