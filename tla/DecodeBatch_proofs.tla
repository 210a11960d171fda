------------------------- MODULE DecodeBatch_proofs -------------------------
(***************************************************************************)
(* DecodeBatch for every set of summaries: the types, the loop's           *)
(* invariant, that the loop implements DecodeBatchSpec, and which summaries *)
(* make it panic or lose the node's data point.                            *)
(***************************************************************************)
EXTENDS DecodeBatch, DecodeStats_proofs

(*------------------------------- the loop --------------------------------*)

(* What has been decoded, reported and not panicked over so far.           *)
Progress ==
  /\ pc = "node" => next = 1 /\ node = ZeroPoint
  /\ pc \in {"pods", "done"} =>
       /\ ~NodePanics(summary.node)
       /\ node = decodeNodeStats(summary.node, ZeroPoint)
       /\ \A i \in 1 .. next - 1 : ~PodPanics(summary.pods[i])
       /\ failed = \/ NodeErrs(summary.node) # {}
                   \/ \E i \in 1 .. next - 1 : ~Complete(summary.pods[i])
  /\ pc = "done" => next = Len(summary.pods) + 1

Inv == TypeOK /\ KeptPodsInOrder /\ Progress

LEMMA SummaryType ==
  ASSUME summary \in Summaries
  PROVE  /\ summary.node \in NodeStats
         /\ summary.pods \in Seq(PodStats)
         /\ Len(summary.pods) \in Nat
         /\ \A i \in 1 .. Len(summary.pods) : summary.pods[i] \in PodStats
  BY SummariesAssumption

LEMMA InvInit == Init => Inv
<1> SUFFICES ASSUME Init PROVE Inv
  OBVIOUS
<1> USE DEF Init
<1>1. Len(summary.pods) \in Nat
  BY SummaryType
<1>2. ZeroPod \in PodPoints
  BY ZeroPointType DEF ZeroPod, PodPoints
<1>3. slots \in Seq(PodPoints) /\ Len(slots) = Len(summary.pods)
  BY <1>1, <1>2
<1>4. TypeOK
  <2>1. next \in 1 .. Len(summary.pods) + 1 /\ num \in 0 .. next - 1
    BY <1>1
  <2>2. summary \in Summaries /\ node \in MetricsPoints /\ failed \in BOOLEAN /\ pc = "node"
    BY ZeroPointType
  <2> QED
    BY <1>3, <2>1, <2>2 DEF TypeOK
<1>5. KeptUpTo(summary.pods, next - 1) = {}
  BY DEF KeptUpTo
<1>6. KeptPodsInOrder
  <2>1. num = Cardinality(KeptUpTo(summary.pods, next - 1))
    BY <1>5, FS_EmptySet
  <2> QED
    BY <1>5, <2>1 DEF KeptPodsInOrder
<1>7. Progress
  BY DEF Progress
<1> QED
  BY <1>4, <1>6, <1>7 DEF Inv

LEMMA DecodeNodeStep == Inv /\ DecodeNode => Inv'
<1> SUFFICES ASSUME Inv, DecodeNode PROVE Inv'
  OBVIOUS
<1> USE DEF Inv, DecodeNode
<1>1. node' \in MetricsPoints
  BY NodeType, SummaryType DEF TypeOK
<1>2. TypeOK'
  BY <1>1 DEF TypeOK
<1>3. KeptPodsInOrder'
  BY DEF KeptPodsInOrder
<1>4. 1 .. next - 1 = {}
  BY DEF Progress
<1>5. Progress'
  BY <1>4 DEF Progress
<1> QED
  BY <1>2, <1>3, <1>5

LEMMA DecodePodStep == Inv /\ DecodePod => Inv'
<1> SUFFICES ASSUME Inv, DecodePod PROVE Inv'
  OBVIOUS
<1> USE DEF Inv, DecodePod
<1>1. /\ next \in Nat \ {0} /\ next \in 1 .. Len(summary.pods) /\ next' = next + 1
      /\ num \in 0 .. next - 1 /\ Len(summary.pods) \in Nat
  BY SummaryType DEF TypeOK
<1>2. Pod \in PodStats /\ Pod = summary.pods[next]
  BY <1>1, SummaryType DEF Pod, TypeOK
<1>3. num' = IF Complete(Pod) THEN num + 1 ELSE num
  BY DEF Advance
<1>4. slots \in Seq(PodPoints) /\ Len(slots) = Len(summary.pods) /\ num + 1 \in 1 .. Len(slots)
  BY <1>1 DEF TypeOK
<1>5. decodePodStats(Pod, slots[num + 1]) \in PodPoints
  BY <1>2, <1>4, PodType
<1>6. /\ slots' \in Seq(PodPoints) /\ Len(slots') = Len(slots)
      /\ slots'[num + 1] = decodePodStats(Pod, slots[num + 1])
      /\ \A k \in 1 .. num : slots'[k] = slots[k]
  BY <1>1, <1>4, <1>5
<1>7. TypeOK'
  BY <1>1, <1>3, <1>4, <1>6 DEF TypeOK
<1>8. KeptPodsInOrder'
  <2> DEFINE pods == summary.pods
             seen == KeptUpTo(pods, next - 1)
             place(i) == Cardinality(KeptUpTo(pods, i))
  <2>1. num = Cardinality(seen) /\ \A i \in seen : slots[place(i)] = decodePodStats(pods[i], ZeroPod)
    BY DEF KeptPodsInOrder
  <2>2. \A i \in seen : slots'[place(i)] = decodePodStats(pods[i], ZeroPod)
    BY <1>1, <1>6, <2>1, KeptPlace
  <2>3. next' - 1 = next
    BY <1>1
  <2>4. CASE ~Complete(Pod)
    <3>1. KeptUpTo(pods, next) = seen
      BY <1>1, <1>2, <2>4, KeptNext
    <3> QED
      BY <1>3, <2>1, <2>2, <2>3, <2>4, <3>1 DEF KeptPodsInOrder
  <2>5. CASE Complete(Pod)
    <3>1. /\ KeptUpTo(pods, next) = seen \cup {next}
          /\ place(next) = num + 1
      BY <1>1, <1>2, <2>1, <2>5, KeptNext
    <3>2. slots'[place(next)] = decodePodStats(pods[next], ZeroPod)
      BY <1>2, <1>6, <2>5, <3>1, CompletelyOverwritten
    <3> QED
      BY <1>3, <2>2, <2>3, <2>5, <3>1, <3>2 DEF KeptPodsInOrder
  <2> QED
    BY <2>4, <2>5
<1>9. 1 .. next' - 1 = (1 .. next - 1) \cup {next}
  BY <1>1
<1>10. Progress'
  BY <1>2, <1>9 DEF Progress
<1> QED
  BY <1>7, <1>8, <1>10

LEMMA ReturnStep == Inv /\ Return => Inv'
<1> SUFFICES ASSUME Inv, Return PROVE Inv'
  OBVIOUS
<1> USE DEF Inv, Return
<1>1. /\ next = Len(summary.pods) + 1 /\ num \in 0 .. Len(summary.pods)
      /\ slots \in Seq(PodPoints) /\ Len(slots) = Len(summary.pods)
      /\ Len(summary.pods) \in Nat
  BY SummaryType DEF TypeOK
<1>2. /\ slots' \in Seq(PodPoints) /\ Len(slots') = num
      /\ \A k \in 1 .. num : slots'[k] = slots[k]
  BY <1>1
<1>3. TypeOK'
  BY <1>1, <1>2 DEF TypeOK
<1>4. KeptPodsInOrder'
  <2> DEFINE seen == KeptUpTo(summary.pods, Len(summary.pods))
             place(i) == Cardinality(KeptUpTo(summary.pods, i))
  <2>1. next - 1 = Len(summary.pods) /\ next' - 1 = Len(summary.pods)
        /\ summary' = summary /\ num' = num
    BY <1>1
  <2>2. num = Cardinality(seen)
        /\ \A i \in seen : slots[place(i)] = decodePodStats(summary.pods[i], ZeroPod)
    BY <2>1 DEF KeptPodsInOrder
  <2>3. \A i \in seen : place(i) \in 1 .. num
    BY <1>1, <2>2, KeptPlace
  <2>4. \A i \in seen : slots'[place(i)] = decodePodStats(summary.pods[i], ZeroPod)
    <3> HIDE DEF seen, place
    <3> QED BY <1>2, <2>2, <2>3
  <2> QED BY <2>1, <2>2, <2>4 DEF KeptPodsInOrder
<1>5. Progress'
  BY <1>1 DEF Progress
<1> QED
  BY <1>3, <1>4, <1>5

LEMMA PanicStep == Inv /\ Panic => Inv'
  BY DEF Inv, Panic, TypeOK, KeptPodsInOrder, Progress

LEMMA InvStep == Inv /\ [Next]_vars => Inv'
<1>1. CASE UNCHANGED vars
  BY <1>1 DEF vars, Inv, TypeOK, KeptPodsInOrder, Progress
<1> QED
  BY <1>1, DecodeNodeStep, DecodePodStep, ReturnStep, PanicStep DEF Next

(* The decoded data keep their types; the loop indexes res.Pods within its *)
(* bounds, whatever the summary.                                           *)
THEOREM TypeCorrect == Spec => []TypeOK
<1>1. Inv => TypeOK
  BY DEF Inv
<1> QED
  BY InvInit, InvStep, <1>1, PTL DEF Spec

(* The reuse of slots is harmless: after any number of iterations the      *)
(* complete pods are at their places, decoded as if into fresh slots.      *)
THEOREM CompletePodsInOrder == Spec => []KeptPodsInOrder
<1>1. Inv => KeptPodsInOrder
  BY DEF Inv
<1> QED
  BY InvInit, InvStep, <1>1, PTL DEF Spec

-----------------------------------------------------------------------------
(*------------- how far the code departs from what is said of it ----------*)

(* The fields pkg/stats calls optional that are dereferenced unchecked.    *)
DereferencedPresent(stats) ==
  /\ stats.mem # NIL /\ stats.mem.ws # NIL => stats.mem.usage # NIL
  /\ stats.fs # NIL => stats.fs.avail # NIL /\ stats.fs.cap # NIL

(* The call has panicked over some node or pod that lacks one of them.     *)
PanickedOverMissing ==
  pc = "panicked" =>
    \/ ~DereferencedPresent(summary.node)
    \/ \E i \in 1 .. Len(summary.pods) : ~DereferencedPresent(summary.pods[i])

LEMMA PanicNeedsMissing ==
  /\ NodePanics(summary.node) => ~DereferencedPresent(summary.node)
  /\ \A i : PodPanics(summary.pods[i]) => ~DereferencedPresent(summary.pods[i])
BY DEF NodePanics, PodPanics, MemoryPanics, FsPanics, MemoryMissing, FsMissing,
       DereferencedPresent

(* Of OptionalFieldsMayBeMissing, three fields are the exception: a        *)
(* summary whose memory has UsageBytes and whose file systems have         *)
(* AvailableBytes and CapacityBytes stops no process, whatever else it     *)
(* lacks.                                                                  *)
THEOREM OnlyDereferencedFieldsPanic == Spec => []PanickedOverMissing
<1>1. Init => PanickedOverMissing
  BY DEF Init, PanickedOverMissing
<1>2. Inv /\ PanickedOverMissing /\ [Next]_vars => PanickedOverMissing'
  <2> SUFFICES ASSUME Inv, PanickedOverMissing, [Next]_vars PROVE PanickedOverMissing'
    OBVIOUS
  <2>1. CASE Panic
    <3>1. \/ NodePanics(summary.node)
          \/ \E i \in 1 .. Len(summary.pods) : PodPanics(summary.pods[i])
      BY <2>1, SummaryType DEF Panic, Pod, Inv, TypeOK
    <3> QED BY <2>1, <3>1, PanicNeedsMissing DEF Panic, PanickedOverMissing
  <2>2. CASE DecodeNode \/ DecodePod \/ Return
    BY <2>2 DEF DecodeNode, DecodePod, Return, PanickedOverMissing
  <2>3. CASE UNCHANGED vars
    BY <2>3 DEF vars, PanickedOverMissing
  <2> QED BY <2>1, <2>2, <2>3 DEF Next
<1> QED
  BY InvInit, InvStep, <1>1, <1>2, PTL DEF Spec

(* The node's data point has the time of its stats, and is none if none of *)
(* them has one.                                                           *)
PointDiscardedWithoutTime ==
  pc \in {"pods", "done"} =>
    /\ node.time = NodeTime(summary.node)
    /\ node = ZeroPoint <=> NodeTime(summary.node) = 0

(* Of the errors a node's stats can have, a missing time is the only one   *)
(* that discards the point (NodeErrorsDiscardPoint): with a time the point *)
(* is kept and goes on as metrics, zeros and all.                          *)
THEOREM OnlyMissingTimeDiscards == Spec => []PointDiscardedWithoutTime
<1>1. Inv => PointDiscardedWithoutTime
  <2> SUFFICES ASSUME Inv, pc \in {"pods", "done"}
               PROVE  /\ node.time = NodeTime(summary.node)
                      /\ node = ZeroPoint <=> NodeTime(summary.node) = 0
    BY DEF PointDiscardedWithoutTime
  <2>1. node = decodeNodeStats(summary.node, ZeroPoint)
    BY DEF Inv, Progress
  <2>2. node.time = NodeTime(summary.node)
    BY <2>1 DEF decodeNodeStats, decodeFs, decodeMemory, decodeCPU, Stamped, ZeroPoint
  <2>3. NodeTime(summary.node) = 0 => node = ZeroPoint
    BY <2>1 DEF decodeNodeStats
  <2>4. ZeroPoint.time = 0
    BY DEF ZeroPoint
  <2> QED BY <2>2, <2>3, <2>4
<1> QED
  BY InvInit, InvStep, <1>1, PTL DEF Spec

-----------------------------------------------------------------------------
(*----------------------------- the refinement ----------------------------*)

(* The operators of the abstract specification's own copy of DecodeStats   *)
(* are those of DecodeBatch.                                               *)
LEMMA SameTimes ==
  /\ \A pod : Abs!PodTime(pod) = PodTime(pod)
  /\ \A n : Abs!NodeTime(n) = NodeTime(n)
  BY DEF EarliestTime, Abs!EarliestTime, getScrapeTimePod,
         Abs!getScrapeTimePod, getScrapeTimeNode, Abs!getScrapeTimeNode,
         PodTime, Abs!PodTime, NodeTime, Abs!NodeTime

LEMMA SameErrors ==
  /\ \A pod : Abs!Complete(pod) <=> Complete(pod)
  /\ \A n : Abs!NodeErrs(n) = NodeErrs(n)
<1>1. /\ \A x : Abs!CPUMissing(x) <=> CPUMissing(x)
      /\ \A x : Abs!MemoryMissing(x) <=> MemoryMissing(x)
      /\ \A x : Abs!FsMissing(x) <=> FsMissing(x)
  BY DEF CPUMissing, Abs!CPUMissing, MemoryMissing, Abs!MemoryMissing,
         FsMissing, Abs!FsMissing
<1> QED
  BY <1>1, SameTimes DEF Complete, Abs!Complete, PodErrs, Abs!PodErrs, NodeErrs, Abs!NodeErrs

LEMMA SamePanics == \A s : Abs!SummaryPanics(s) <=> SummaryPanics(s)
<1>1. /\ \A x : Abs!MemoryPanics(x) <=> MemoryPanics(x)
      /\ \A x : Abs!FsPanics(x) <=> FsPanics(x)
  BY DEF MemoryPanics, Abs!MemoryPanics, FsPanics, Abs!FsPanics,
         MemoryMissing, Abs!MemoryMissing, FsMissing, Abs!FsMissing
<1>2. /\ \A pod : Abs!PodPanics(pod) <=> PodPanics(pod)
      /\ \A n : Abs!NodePanics(n) <=> NodePanics(n)
  BY <1>1, SameTimes DEF PodPanics, Abs!PodPanics, NodePanics, Abs!NodePanics
<1> QED
  BY <1>2 DEF SummaryPanics, Abs!SummaryPanics

LEMMA SameFailures == \A s : Abs!SummaryFails(s) <=> SummaryFails(s)
  BY SameErrors DEF SummaryFails, Abs!SummaryFails

LEMMA SameKept == \A pods, n : Abs!KeptUpTo(pods, n) = KeptUpTo(pods, n)
  BY SameErrors DEF KeptUpTo, Abs!KeptUpTo

LEMMA SameCardinality == \A S : Abs!Cardinality(S) = Cardinality(S)
  BY DEF Cardinality, Abs!Cardinality

LEMMA SamePoints ==
  /\ \A pod, t : Abs!decodePodStats(pod, t) = decodePodStats(pod, t)
  /\ \A n, t : Abs!decodeNodeStats(n, t) = decodeNodeStats(n, t)
  /\ Abs!ZeroPod = ZeroPod
  /\ Abs!ZeroPoint = ZeroPoint
<1>1. \A val, scale : Abs!uint64Quantity(val, scale) = uint64Quantity(val, scale)
  BY DEF uint64Quantity, Abs!uint64Quantity
<1>2. \A val : Abs!Bytes(val) = Bytes(val)
  BY <1>1 DEF Bytes, Abs!Bytes
<1>3. Abs!ZeroPoint = ZeroPoint
  BY DEF ZeroPoint, Abs!ZeroPoint, ZeroQuantity, Abs!ZeroQuantity
<1>4. \A t : Abs!Stamped(t) = Stamped(t)
  BY <1>3 DEF Stamped, Abs!Stamped
<1>5. \A p, x : Abs!decodeCPU(p, x) = decodeCPU(p, x)
  BY <1>1 DEF decodeCPU, Abs!decodeCPU, CPUMissing, Abs!CPUMissing, Nano, Abs!Nano
<1>6. \A p, x : Abs!decodeMemory(p, x) = decodeMemory(p, x)
  BY <1>2 DEF decodeMemory, Abs!decodeMemory, MemoryMissing, Abs!MemoryMissing
<1>7. \A p, x : Abs!decodeFs(p, x) = decodeFs(p, x)
  BY <1>2 DEF decodeFs, Abs!decodeFs, FsMissing, Abs!FsMissing
<1>8. \A pod, t : Abs!decodePodStats(pod, t) = decodePodStats(pod, t)
  BY <1>4, <1>5, <1>6, <1>7, SameTimes
     DEF decodePodStats, Abs!decodePodStats, FreshSlot, Abs!FreshSlot
<1>9. \A n, t : Abs!decodeNodeStats(n, t) = decodeNodeStats(n, t)
  BY <1>4, <1>5, <1>6, <1>7, SameTimes DEF decodeNodeStats, Abs!decodeNodeStats
<1> QED
  BY <1>3, <1>8, <1>9 DEF ZeroPod, Abs!ZeroPod

LEMMA PendingStep == DecodeNode \/ DecodePod => UNCHANGED Abs!vars
  BY DEF DecodeNode, DecodePod, Abs!vars, Result

LEMMA ReturnRefines == Inv /\ Inv' /\ Return => Abs!Return
<1> SUFFICES ASSUME Inv, Inv', Return PROVE Abs!Return
  OBVIOUS
<1>1. Result = Abs!Pending /\ summary' = summary
  BY DEF Return, Result, Abs!Pending
<1>2. Result' = [status |-> "done", node |-> node', pods |-> slots', failed |-> failed']
  BY DEF Return, Result
<1>3. next - 1 = Len(summary.pods) /\ next' - 1 = Len(summary.pods)
  BY SummaryType DEF Return, Inv, TypeOK
<1>4. ~SummaryPanics(summary)
  BY <1>3 DEF SummaryPanics, Inv, Progress, Return
<1>5. node' = decodeNodeStats(summary.node, ZeroPoint)
  BY DEF Inv, Progress, Return
<1>6. failed' = SummaryFails(summary)
  BY <1>3 DEF SummaryFails, Inv, Progress, Return
<1>7. Abs!IsSelection(slots', summary.pods)
  <2>1. Len(slots') = num' /\ num' = Cardinality(KeptUpTo(summary.pods, Len(summary.pods)))
    BY <1>3 DEF Inv, TypeOK, KeptPodsInOrder, Return
  <2>2. \A i \in KeptUpTo(summary.pods, Len(summary.pods)) :
          slots'[Cardinality(KeptUpTo(summary.pods, i))]
            = decodePodStats(summary.pods[i], ZeroPod)
    BY <1>1, <1>3 DEF Inv, KeptPodsInOrder
  <2>3. Abs!KeptUpTo(summary.pods, Len(summary.pods))
          = KeptUpTo(summary.pods, Len(summary.pods))
    BY SameKept
  <2>4. Len(slots') = Cardinality(Abs!KeptUpTo(summary.pods, Len(summary.pods)))
    BY <2>1, <2>3
  <2>5. ASSUME NEW i \in Abs!KeptUpTo(summary.pods, Len(summary.pods))
        PROVE  slots'[Cardinality(Abs!KeptUpTo(summary.pods, i))]
                 = Abs!decodePodStats(summary.pods[i], Abs!ZeroPod)
    <3>1. Abs!KeptUpTo(summary.pods, i) = KeptUpTo(summary.pods, i)
      BY SameKept
    <3>2. Abs!decodePodStats(summary.pods[i], Abs!ZeroPod)
            = decodePodStats(summary.pods[i], ZeroPod)
      BY SamePoints
    <3> QED
      BY <2>2, <2>3, <3>1, <3>2
  <2> QED
    BY <2>4, <2>5, SameCardinality DEF Abs!IsSelection
<1> QED
  BY <1>1, <1>2, <1>4, <1>5, <1>6, <1>7, SamePanics, SameFailures, SamePoints
     DEF Abs!Return

LEMMA PanicRefines == Inv /\ Panic => Abs!Panic
<1> SUFFICES ASSUME Inv, Panic PROVE Abs!Panic
  OBVIOUS
<1>1. Result = Abs!Pending /\ summary' = summary
  BY DEF Panic, Result, Abs!Pending
<1>2. Result' = [status |-> "panicked"]
  BY DEF Panic, Result
<1>3. SummaryPanics(summary)
  BY SummaryType DEF Panic, SummaryPanics, Pod, Inv, TypeOK
<1> QED
  BY <1>1, <1>2, <1>3, SamePanics DEF Abs!Panic

(* DecodeBatch, with its slots and its loop, does what DecodeBatchSpec     *)
(* promises: it selects the complete pods, in order, each decoded on its   *)
(* own, and reports an error exactly if something was partial.             *)
THEOREM LoopSelectsCompletePods == Spec => SelectsCompletePods
<1>1. Init => Abs!Init
  BY DEF Init, Abs!Init, Abs!Pending, Result
<1>2. Inv /\ Inv' /\ [Next]_vars => [Abs!Next]_(Abs!vars)
  <2>1. UNCHANGED vars => UNCHANGED Abs!vars
    BY DEF vars, Abs!vars, Result
  <2> QED
    BY <2>1, PendingStep, ReturnRefines, PanicRefines DEF Next, Abs!Next
<1> QED
  BY InvInit, InvStep, <1>1, <1>2, PTL DEF Spec, SelectsCompletePods, Abs!Spec
=============================================================================
