------------------------- MODULE NodeCollector_proofs -------------------------
(***************************************************************************)
(* For any summaries, nodes and overlapping calls: what a reply of GetNode *)
(* says of the pods. A reply is a function of the summary and of the       *)
(* totals its own call has read, neither of which is that of another call; *)
(* the rest is what the decoders and the quantities do with them.          *)
(***************************************************************************)
EXTENDS NodeCollector, DecodeStats_proofs

(*-------------------- what a quantity is read back as --------------------*)

LEMMA Remainder == ASSUME NEW x \in Int, NEW n \in Nat \ {0} PROVE x % n \in 0 .. n - 1
OBVIOUS

(* What is left of a product is an int64.                                  *)
LEMMA WrapType == ASSUME NEW x \in Int PROVE WrapInt64(x) \in Int64
<1>1. x + MaxInt64 + 1 \in Int /\ 2 * MaxInt64 + 2 \in Nat \ {0}
  BY MaxInt64Assumption
<1>2. (x + MaxInt64 + 1) % (2 * MaxInt64 + 2) \in 0 .. (2 * MaxInt64 + 2) - 1
  BY <1>1, Remainder
<1> QED BY <1>2, MaxInt64Assumption DEF WrapInt64, Int64

(* Scale 0 is read as it is, a negative one never.                         *)
LEMMA ReadCases ==
  ASSUME NEW q
  PROVE  /\ q.scale = 0 => Reading(q) = q.value
         /\ q.scale # 0 /\ q.scale < 0 => Reading(q) = 0
<1>1. ASSUME q.scale = 0 PROVE AsInt64(q) = [n |-> q.value, ok |-> TRUE]
  <2>1. ~(q.scale < 0) /\ q.scale \notin Unrolled
    BY <1>1 DEF Unrolled
  <2> QED BY <1>1, <2>1, Zenon DEF AsInt64
<1>2. ASSUME q.scale # 0, q.scale < 0 PROVE AsInt64(q) = [n |-> 0, ok |-> FALSE]
  <2>1. q.scale \notin Unrolled
    BY <1>2 DEF Unrolled
  <2> QED BY <1>2, <2>1, Zenon DEF AsInt64
<1> QED BY <1>1, <1>2 DEF Reading

(* An int64 comes out, whatever the quantity.                              *)
LEMMA ReadingType == ASSUME NEW q \in Quantities PROVE Reading(q) \in Int64
<1> DEFINE product == 10 ^ q.scale * q.value
<1>1. q.value \in Int64 /\ q.value \in Int /\ q.scale \in Int
  BY DEF Quantities, Int64
<1>2. 0 \in Int64
  BY MaxInt64Assumption DEF Int64
<1>3. CASE q.scale = 0
  BY <1>1, <1>3, ReadCases
<1>4. CASE q.scale < 0
  <2>1. q.scale # 0
    BY <1>1, <1>4
  <2> QED BY <1>2, <1>4, <2>1, ReadCases
<1>5. CASE q.scale > 0
  <2>1. ~(q.scale = 0) /\ ~(q.scale < 0)
    BY <1>1, <1>5
  <2>2. CASE q.scale \in Unrolled
    <3>1. Reading(q) = WrapInt64(product)
      BY <2>1, <2>2, Zenon DEF Reading, AsInt64
    <3>2. q.scale \in Nat
      BY <1>1, <1>5
    <3>3. product \in Int
      BY ONLY <1>1, <3>2
    <3> HIDE DEF product
    <3> QED BY <3>1, <3>3, WrapType
  <2>3. CASE q.scale \notin Unrolled
    <3>1. Reading(q) = IF product \in Int64 THEN product ELSE 0
      BY <2>1, <2>3, Zenon DEF Reading, AsInt64
    <3> HIDE DEF product
    <3> QED BY <1>2, <3>1
  <2> QED BY <2>2, <2>3
<1> QED BY <1>1, <1>3, <1>4, <1>5

(* A count of bytes that fits arrives as it was sent.                      *)
LEMMA BytesReadBack ==
  ASSUME NEW val \in Uint64, val <= MaxInt64
  PROVE  Reading(Bytes(val)) = val
BY ReadCases DEF Bytes, uint64Quantity

(* A count of nanocores never does, large or small.                        *)
LEMMA NanoNeverRead == ASSUME NEW val PROVE Reading(uint64Quantity(val, Nano)) = 0
<1>1. CASE val <= MaxInt64
  BY <1>1, ReadCases DEF uint64Quantity, Nano
<1>2. CASE ~(val <= MaxInt64)
  BY <1>2, ReadCases DEF uint64Quantity, Nano
<1> QED BY <1>1, <1>2

(*---------------------------- the decoded pods ----------------------------*)

(* A summary Scrap may return: one the kubelet sends that does not panic,  *)
(* or the empty one.                                                       *)
Decodable(s) == (s \in Summaries /\ ~SummaryPanics(s)) \/ s = EmptySummary

Kept(s) == KeptUpTo(s.pods, Len(s.pods))

LEMMA KeptPod ==
  ASSUME NEW s, Decodable(s), NEW i \in Kept(s)
  PROVE  /\ s.pods[i] \in PodStats /\ Complete(s.pods[i]) /\ ~PodPanics(s.pods[i])
         /\ PodTime(s.pods[i]) # 0
<1>1. i \in 1 .. Len(s.pods) /\ Complete(s.pods[i])
  BY DEF Kept, KeptUpTo
<1>2. s # EmptySummary
  BY <1>1 DEF EmptySummary
<1>3. s \in Summaries /\ ~SummaryPanics(s)
  BY <1>2 DEF Decodable
<1>4. s.pods \in Seq(PodStats)
  BY <1>3, ConstantsAssumption
<1>5. s.pods[i] \in PodStats /\ ~PodPanics(s.pods[i])
  BY <1>1, <1>3, <1>4 DEF SummaryPanics
<1>6. PodTime(s.pods[i]) # 0
  BY <1>1 DEF Complete, PodErrs
<1> QED BY <1>1, <1>5, <1>6

(* A complete pod's record is its own, with the memory it was sent and     *)
(* without any of the network.                                             *)
LEMMA DecodedPod ==
  ASSUME NEW pod \in PodStats, Complete(pod), ~PodPanics(pod)
  PROVE  LET d == decodePodStats(pod, ZeroPod)
         IN  /\ d.ref = pod.ref /\ d.point \in MetricsPoints
             /\ d.point.cpu = uint64Quantity(pod.cpu.usage, Nano)
             /\ d.point.memUsage = Bytes(pod.mem.usage) /\ pod.mem.usage \in Uint64
             /\ d.point.rx = ZeroQuantity /\ d.point.tx = ZeroQuantity
<1> DEFINE stamped == Stamped(PodTime(pod))
           cpu     == decodeCPU(stamped, pod.cpu)
           mem     == decodeMemory(cpu, pod.mem)
           fs      == decodeFs(mem, pod.fs)
           d       == decodePodStats(pod, ZeroPod)
<1>1. /\ PodTime(pod) # 0 /\ ~CPUMissing(pod.cpu) /\ ~MemoryMissing(pod.mem) /\ ~FsMissing(pod.fs)
      /\ ~MemoryPanics(pod.mem) /\ ~FsPanics(pod.fs)
  BY DEF Complete, PodErrs, PodPanics
<1>2. d = [ref |-> pod.ref, point |-> fs]
  BY <1>1 DEF decodePodStats, FreshSlot
<1>3. stamped \in MetricsPoints
  BY PodTimeType, StampedType
<1>4. /\ pod.ref \in PodRefs /\ pod.cpu \in CPUStats \cup {NIL}
      /\ pod.mem \in MemoryStats \cup {NIL} /\ pod.fs \in FsStats \cup {NIL}
  BY DEF PodStats
<1>5. cpu \in MetricsPoints /\ mem \in MetricsPoints /\ fs \in MetricsPoints
  <2>1. cpu \in MetricsPoints
    BY <1>3, <1>4, CPUType
  <2>2. mem \in MetricsPoints
    BY <1>1, <1>4, <2>1, MemoryType
  <2> QED BY <1>1, <1>4, <2>1, <2>2, FsType
<1>6. stamped.rx = ZeroQuantity /\ stamped.tx = ZeroQuantity
  BY DEF Stamped, ZeroPoint
<1>7. cpu.cpu = uint64Quantity(pod.cpu.usage, Nano) /\ cpu.rx = ZeroQuantity /\ cpu.tx = ZeroQuantity
  <2> HIDE DEF stamped
  <2> QED BY <1>1, <1>3, <1>6 DEF decodeCPU, MetricsPoints
<1>8. /\ mem.memUsage = Bytes(pod.mem.usage) /\ mem.cpu = cpu.cpu
      /\ mem.rx = ZeroQuantity /\ mem.tx = ZeroQuantity
  <2> HIDE DEF cpu
  <2> QED BY <1>1, <1>5, <1>7 DEF decodeMemory, MetricsPoints
<1>9. /\ fs.memUsage = mem.memUsage /\ fs.cpu = mem.cpu
      /\ fs.rx = ZeroQuantity /\ fs.tx = ZeroQuantity
  <2> HIDE DEF mem
  <2> QED BY <1>1, <1>5, <1>8 DEF decodeFs, MetricsPoints
<1>10. pod.mem.usage \in Uint64
  BY <1>1, <1>4 DEF MemoryMissing, MemoryPanics, MemoryStats
<1> QED BY <1>2, <1>5, <1>7, <1>8, <1>9, <1>10

-----------------------------------------------------------------------------
(*--------------------------------- an answer ------------------------------*)

(* What Reply makes of a summary and of the totals.                        *)
AnswerTo(s, t) ==
  IF Repeated(DecodedPods(s)) \/ ~Encodable(AllSamples(DecodedPods(s), t)) THEN Refused
  ELSE [status |-> "ok", samples |-> AllSamples(DecodedPods(s), t)]

Totals == [cpu: Int64, mem: Int64, fs: Int64]

(* Collect reads the array that DecodeBatch returns: by the promise of     *)
(* DecodeBatchSpec it has the decoded pods, so that the answer is the one  *)
(* that the array itself would give.                                       *)
LEMMA DecodedPodsOfBatch ==
  ASSUME NEW s, s.pods \in Seq(PodStats), NEW points \in Seq(PodPoints),
         IsSelection(points, s.pods)
  PROVE  /\ {points[k] : k \in DOMAIN points} = {DecodedPods(s)[i] : i \in DOMAIN DecodedPods(s)}
         /\ Repeated(points) <=> Repeated(DecodedPods(s))
<1> DEFINE kept     == KeptUpTo(s.pods, Len(s.pods))
           place(i) == Cardinality(KeptUpTo(s.pods, i))
           pods     == DecodedPods(s)
<1>1. Len(s.pods) \in Nat /\ DOMAIN pods = kept
  BY DEF DecodedPods
<1>2. /\ \A i, j \in kept : place(i) = place(j) => i = j
      /\ \A k \in 1 .. Cardinality(kept) : \E i \in kept : place(i) = k
      /\ \A i \in kept : place(i) \in 1 .. Cardinality(kept)
  BY <1>1, KeptPlaces, KeptPlace
<1>3. DOMAIN points = 1 .. Cardinality(kept) /\ \A i \in kept : points[place(i)] = pods[i]
  BY DEF IsSelection, DecodedPods
<1> HIDE DEF kept, place, pods
<1>4. {points[k] : k \in DOMAIN points} = {pods[i] : i \in DOMAIN pods}
  BY <1>1, <1>2, <1>3
<1>5. Repeated(points) <=> Repeated(pods)
  BY <1>1, <1>2, <1>3 DEF Repeated
<1> QED BY <1>4, <1>5 DEF pods

THEOREM AnswerToBatch ==
  ASSUME NEW s, s.pods \in Seq(PodStats), NEW points \in Seq(PodPoints),
         IsSelection(points, s.pods), NEW t
  PROVE  AnswerTo(s, t) =
           IF Repeated(points) \/ ~Encodable(AllSamples(points, t)) THEN Refused
           ELSE [status |-> "ok", samples |-> AllSamples(points, t)]
<1>1. /\ {points[k] : k \in DOMAIN points} = {DecodedPods(s)[i] : i \in DOMAIN DecodedPods(s)}
      /\ Repeated(points) <=> Repeated(DecodedPods(s))
  BY DecodedPodsOfBatch
<1>2. \A pods : AllSamples(pods, t) = UNION {Samples(pod, t) : pod \in {pods[i] : i \in DOMAIN pods}}
  BY DEF AllSamples
<1>3. AllSamples(points, t) = AllSamples(DecodedPods(s), t)
  BY <1>1, <1>2
<1> QED BY <1>1, <1>3 DEF AnswerTo

(* The samples of an answer, each with the pod it is of.                   *)
LEMMA SampleOfPod ==
  ASSUME NEW s, NEW t, NEW x
  PROVE  x \in AllSamples(DecodedPods(s), t) <=>
           \E i \in Kept(s), f \in Families :
             LET d == decodePodStats(s.pods[i], ZeroPod)
             IN  x = [family |-> f, ref |-> d.ref, num |-> Usage(d.point, f), den |-> Divisor(t, f)]
<1>1. /\ DOMAIN DecodedPods(s) = Kept(s)
      /\ \A i \in Kept(s) : DecodedPods(s)[i] = decodePodStats(s.pods[i], ZeroPod)
  BY DEF DecodedPods, Kept
<1>2. x \in AllSamples(DecodedPods(s), t) <=> \E i \in Kept(s) : x \in Samples(DecodedPods(s)[i], t)
  BY <1>1 DEF AllSamples
<1> QED BY <1>1, <1>2 DEF Samples

LEMMA UsageOf ==
  ASSUME NEW point
  PROVE  /\ \A f \in {"CPU_Core_Counter", "CPU_Core_Gauge"} : Usage(point, f) = Reading(point.cpu)
         /\ \A f \in {"Memory_Counter", "Memory_Gauge"} : Usage(point, f) = Reading(point.memUsage)
         /\ \A f \in {"Storage_Counter", "Storage_Gauge"} : Usage(point, f) = Reading(point.fsUsed)
         /\ Usage(point, "Network_Gauge") = Reading(point.rx)
         /\ Usage(point, "Network_Counter") = Reading(point.tx)
BY DEF Usage

LEMMA DivisorType == ASSUME NEW t \in Totals, NEW f PROVE Divisor(t, f) \in Int64
<1>1. t.cpu \in Int64 /\ t.mem \in Int64 /\ t.fs \in Int64 /\ 1 \in Int64
  BY MaxInt64Assumption DEF Totals, Int64
<1> QED BY <1>1 DEF Divisor

LEMMA AnswerType ==
  ASSUME NEW s, Decodable(s), NEW t \in Totals
  PROVE  /\ AnswerTo(s, t).status \in {"ok", "error"}
         /\ AnswerTo(s, t).samples \subseteq SampleSet
<1> SUFFICES ASSUME NEW x \in AllSamples(DecodedPods(s), t) PROVE x \in SampleSet
  BY DEF AnswerTo, Refused
<1>1. PICK i \in Kept(s), f \in Families :
        LET d == decodePodStats(s.pods[i], ZeroPod)
        IN  x = [family |-> f, ref |-> d.ref, num |-> Usage(d.point, f), den |-> Divisor(t, f)]
  BY SampleOfPod
<1> DEFINE d == decodePodStats(s.pods[i], ZeroPod)
<1>2. s.pods[i] \in PodStats /\ Complete(s.pods[i]) /\ ~PodPanics(s.pods[i])
  BY KeptPod
<1>3. d.ref = s.pods[i].ref /\ d.point \in MetricsPoints
  BY <1>2, DecodedPod
<1>4. d.ref \in PodRefs
  BY <1>2, <1>3 DEF PodStats
<1>5. Usage(d.point, f) \in Int64
  <2>1. \A q \in {d.point.cpu, d.point.memUsage, d.point.fsUsed, d.point.rx, d.point.tx} :
          Reading(q) \in Int64
    BY <1>3, ReadingType DEF MetricsPoints
  <2> HIDE DEF d
  <2> QED BY <2>1, UsageOf DEF Families, CounterFamilies, GaugeFamilies
<1> HIDE DEF d
<1> QED BY <1>1, <1>4, <1>5, DivisorType DEF SampleSet, d

(* An answer that is one has all the families of the complete pods, and of *)
(* no other, and the memory they were sent with.                           *)
LEMMA AnswerComplete ==
  ASSUME NEW s, Decodable(s), NEW t, AnswerTo(s, t).status = "ok"
  PROVE  LET pods == CompletePods(s)
             sent == AnswerTo(s, t).samples
         IN  /\ {<<x.family, x.ref>> : x \in sent} = Families \X {p.ref : p \in pods}
             /\ \A p \in pods : p.mem.usage <= MaxInt64 =>
                  \E x \in sent : /\ x.family = "Memory_Counter" /\ x.ref = p.ref
                                  /\ x.num = p.mem.usage
<1> DEFINE sent == AllSamples(DecodedPods(s), t)
           d(i) == decodePodStats(s.pods[i], ZeroPod)
           sample(i, f) == [family |-> f, ref |-> d(i).ref, num |-> Usage(d(i).point, f),
                            den |-> Divisor(t, f)]
<1>1. AnswerTo(s, t).samples = sent
  BY DEF AnswerTo, Refused
<1>2. \A i \in Kept(s), f \in Families : sample(i, f) \in sent
  BY SampleOfPod
<1>3. \A x \in sent : \E i \in Kept(s), f \in Families : x = sample(i, f)
  BY SampleOfPod
<1>4. \A i \in Kept(s) : /\ d(i).ref = s.pods[i].ref
                         /\ d(i).point.memUsage = Bytes(s.pods[i].mem.usage)
                         /\ s.pods[i].mem.usage \in Uint64
  BY KeptPod, DecodedPod
<1>5. CompletePods(s) = {s.pods[i] : i \in Kept(s)}
  BY DEF CompletePods, Kept
<1>6. {<<x.family, x.ref>> : x \in sent} = Families \X {p.ref : p \in CompletePods(s)}
  <2> HIDE DEF sent, d
  <2>1. ASSUME NEW x \in sent
        PROVE  <<x.family, x.ref>> \in Families \X {p.ref : p \in CompletePods(s)}
    BY <1>3, <1>4, <1>5
  <2>2. ASSUME NEW f \in Families, NEW p \in CompletePods(s)
        PROVE  \E x \in sent : <<f, p.ref>> = <<x.family, x.ref>>
    <3>1. PICK i \in Kept(s) : p = s.pods[i]
      BY <1>5
    <3>2. sample(i, f).family = f /\ sample(i, f).ref = p.ref
      BY <1>4, <3>1
    <3> QED BY <1>2, <3>2
  <2> QED BY <2>1, <2>2
<1>7. ASSUME NEW p \in CompletePods(s), p.mem.usage <= MaxInt64
      PROVE  \E x \in sent : x.family = "Memory_Counter" /\ x.ref = p.ref /\ x.num = p.mem.usage
  <2>1. PICK i \in Kept(s) : p = s.pods[i]
    BY <1>5
  <2>2. Usage(d(i).point, "Memory_Counter") = p.mem.usage
    BY <1>4, <1>7, <2>1, UsageOf, BytesReadBack
  <2>3. "Memory_Counter" \in Families
    BY DEF Families, CounterFamilies
  <2> HIDE DEF sent, d
  <2> QED BY <1>2, <1>4, <2>1, <2>2, <2>3
<1> QED BY <1>1, <1>6, <1>7

-----------------------------------------------------------------------------
(*------------------------------ the invariant ----------------------------*)

Typed ==
  /\ up \in BOOLEAN
  /\ kubeletClient \in {NIL, NewKubeletClient}
  /\ pc \in [Requests -> {"idle", "node", "scrap", "gather", "replied"}]
  /\ total \in [Requests -> Totals]
  /\ summary \in [Requests -> Summaries \cup {EmptySummary}]
  /\ reply = [r \in Requests |-> reply[r]]

(* A call has a summary that could be decoded, and once it has replied,    *)
(* the answer is that of its own summary and totals, which stay until the  *)
(* call is over.                                                           *)
Answered ==
  \A r \in Requests :
    /\ Decodable(summary[r])
    /\ reply[r] = IF pc[r] = "replied" THEN AnswerTo(summary[r], total[r]) ELSE NoReply

IInv == Typed /\ Answered

LEMMA InvInit == Init => IInv
<1> SUFFICES ASSUME Init PROVE IInv
  OBVIOUS
<1>1. NoTotal \in Totals
  BY MaxInt64Assumption DEF NoTotal, Totals, Int64
<1> QED BY <1>1 DEF Init, IInv, Typed, Answered, Decodable

(* The end of a process is its state before the start.                     *)
LEMMA ProcessEndsStep == ASSUME ProcessEnds PROVE IInv'
<1>1. NoTotal \in Totals
  BY MaxInt64Assumption DEF NoTotal, Totals, Int64
<1> QED BY <1>1 DEF ProcessEnds, IInv, Typed, Answered, Decodable

LEMMA ReadAllocatableStep ==
  ASSUME IInv, NEW r \in Requests, ReadAllocatable(r)
  PROVE  IInv'
<1>1. PICK t \in Totals : total' = [total EXCEPT ![r] = t]
  <2>1. NoTotal \in Totals
    BY MaxInt64Assumption DEF NoTotal, Totals, Int64
  <2>2. ASSUME NEW a \in Allocatables
        PROVE  [cpu |-> Reading(a.cpu), mem |-> Reading(a.mem), fs |-> Reading(a.fs)] \in Totals
    <3>1. a.cpu \in Quantities /\ a.mem \in Quantities /\ a.fs \in Quantities
      BY ConstantsAssumption
    <3>2. Reading(a.cpu) \in Int64 /\ Reading(a.mem) \in Int64 /\ Reading(a.fs) \in Int64
      BY <3>1, ReadingType
    <3> QED BY <3>2 DEF Totals
  <2> QED BY <2>1, <2>2 DEF ReadAllocatable
<1>2. /\ pc[r] = "node" /\ pc' = [pc EXCEPT ![r] = "scrap"]
      /\ UNCHANGED <<up, kubeletClient, summary, reply>>
  BY DEF ReadAllocatable, Goto
<1>3. Typed'
  BY <1>1, <1>2 DEF IInv, Typed
<1>4. Answered'
  BY <1>1, <1>2 DEF IInv, Typed, Answered
<1> QED BY <1>3, <1>4 DEF IInv

LEMMA ScrapStep ==
  ASSUME IInv, NEW r \in Requests, Scrap(r)
  PROVE  IInv'
<1>1. PICK s \in Summaries \cup {EmptySummary} :
        Decodable(s) /\ summary' = [summary EXCEPT ![r] = s]
  <2>1. CASE UNCHANGED summary
    <3>1. summary' = [summary EXCEPT ![r] = summary[r]]
      BY <2>1 DEF IInv, Typed
    <3> QED BY <3>1 DEF IInv, Typed, Answered
  <2>2. ASSUME NEW s \in Summaries, ~SummaryPanics(s), summary' = [summary EXCEPT ![r] = s]
        PROVE  Decodable(s) /\ summary' = [summary EXCEPT ![r] = s]
    BY <2>2 DEF Decodable
  <2> QED BY <2>1, <2>2 DEF Scrap
<1>2. /\ pc[r] = "scrap" /\ pc' = [pc EXCEPT ![r] = "gather"]
      /\ UNCHANGED <<up, kubeletClient, total, reply>>
  BY DEF Scrap, Goto
<1>3. Typed'
  BY <1>1, <1>2 DEF IInv, Typed
<1>4. Answered'
  BY <1>1, <1>2 DEF IInv, Typed, Answered
<1> QED BY <1>3, <1>4 DEF IInv

LEMMA ReplyStep ==
  ASSUME IInv, NEW r \in Requests, Reply(r)
  PROVE  IInv'
<1>1. /\ reply' = [reply EXCEPT ![r] = AnswerTo(summary[r], total[r])]
      /\ pc' = [pc EXCEPT ![r] = "replied"]
      /\ UNCHANGED <<up, kubeletClient, total, summary>>
  BY DEF Reply, AnswerTo, Goto
<1>2. Typed'
  BY <1>1 DEF IInv, Typed
<1>3. Answered'
  BY <1>1 DEF IInv, Typed, Answered
<1> QED BY <1>2, <1>3 DEF IInv

LEMMA InvStep == IInv /\ [Next]_vars => IInv'
<1> SUFFICES ASSUME IInv, [Next]_vars PROVE IInv'
  OBVIOUS
<1>1. CASE Initmetrics
  BY <1>1 DEF Initmetrics, IInv, Typed, Answered
<1>2. CASE Killed
  BY <1>2, ProcessEndsStep DEF Killed
<1>3. ASSUME NEW r \in Requests, GetNode(r) PROVE IInv'
  BY <1>3 DEF GetNode, Goto, IInv, Typed, Answered
<1>4. ASSUME NEW r \in Requests, Collect(r) PROVE IInv'
  BY <1>4, ReadAllocatableStep, ScrapStep DEF Collect
<1>5. ASSUME NEW r \in Requests, Panic(r) PROVE IInv'
  BY <1>5, ProcessEndsStep DEF Panic
<1>6. ASSUME NEW r \in Requests, Reply(r) PROVE IInv'
  BY <1>6, ReplyStep
<1>7. ASSUME NEW r \in Requests, Finish(r) PROVE IInv'
  <2>1. NoTotal \in Totals
    BY MaxInt64Assumption DEF NoTotal, Totals, Int64
  <2> QED BY <1>7, <2>1 DEF Finish, Goto, IInv, Typed, Answered, Decodable
<1>8. CASE UNCHANGED vars
  BY <1>8 DEF vars, IInv, Typed, Answered
<1> QED BY <1>1, <1>2, <1>3, <1>4, <1>5, <1>6, <1>7, <1>8 DEF Next

LEMMA Invariance == Spec => []IInv
BY InvInit, InvStep, PTL DEF Spec

-----------------------------------------------------------------------------
(* The variables keep their types: what a call holds is a summary of the   *)
(* kubelet or none, and every number of a reply is an int64, whatever      *)
(* uint64 the kubelet has sent.                                            *)
LEMMA InvTypeOK == IInv => TypeOK
<1> SUFFICES ASSUME IInv PROVE TypeOK
  OBVIOUS
<1>1. \A r \in Requests : /\ reply[r].status \in {"none", "ok", "error"}
                         /\ reply[r].samples \subseteq SampleSet
  <2> SUFFICES ASSUME NEW r \in Requests
               PROVE  /\ reply[r].status \in {"none", "ok", "error"}
                      /\ reply[r].samples \subseteq SampleSet
    OBVIOUS
  <2>1. CASE reply[r] = NoReply
    BY <2>1 DEF NoReply
  <2>2. CASE reply[r] = AnswerTo(summary[r], total[r])
    BY <2>2, AnswerType DEF IInv, Typed, Answered
  <2> QED BY <2>1, <2>2 DEF IInv, Answered
<1> QED BY <1>1 DEF IInv, Typed, TypeOK, Totals

THEOREM TypeCorrect == Spec => []TypeOK
BY InvTypeOK, Invariance, PTL

(* A reply that is not an error is the answer to its own summary.          *)
LEMMA OkIsAnswer ==
  ASSUME IInv, NEW r \in Requests, reply[r].status = "ok"
  PROVE  /\ Decodable(summary[r]) /\ reply[r] = AnswerTo(summary[r], total[r])
BY DEF IInv, Answered, NoReply

LEMMA InvMissingNotZero == IInv => MissingNotZero
BY OkIsAnswer, AnswerComplete DEF MissingNotZero

(* All families of the pods whose stats are complete and nothing of the    *)
(* others, and the memory as it was sent, for any summaries and any calls  *)
(* beside each other.                                                      *)
THEOREM MissingIsNotZero == Spec => []MissingNotZero
BY InvMissingNotZero, Invariance, PTL

(* What a pod used of the CPU, received and sent is 0 in every reply, for  *)
(* whatever summary: the code reads none of it. That UsageReported is      *)
(* violated is no matter of one summary.                                   *)
UsageZero ==
  \A r \in Requests :
    reply[r].status = "ok" =>
      \A x \in reply[r].samples :
        x.family \in {"CPU_Core_Counter", "CPU_Core_Gauge", "Network_Gauge", "Network_Counter"} =>
          x.num = 0

LEMMA InvUsageZero == IInv => UsageZero
<1> SUFFICES ASSUME IInv, NEW r \in Requests, reply[r].status = "ok",
                    NEW x \in reply[r].samples,
                    x.family \in {"CPU_Core_Counter", "CPU_Core_Gauge", "Network_Gauge", "Network_Counter"}
             PROVE  x.num = 0
  BY DEF UsageZero
<1> DEFINE s    == summary[r]
           d(i) == decodePodStats(s.pods[i], ZeroPod)
<1>1. Decodable(s) /\ x \in AllSamples(DecodedPods(s), total[r])
  <2>1. Decodable(s) /\ reply[r] = AnswerTo(s, total[r])
    BY OkIsAnswer
  <2>2. AnswerTo(s, total[r]).samples \subseteq AllSamples(DecodedPods(s), total[r])
    BY DEF AnswerTo, Refused
  <2> QED BY <2>1, <2>2
<1>2. PICK i \in Kept(s), f \in Families :
        x = [family |-> f, ref |-> d(i).ref, num |-> Usage(d(i).point, f), den |-> Divisor(total[r], f)]
  BY <1>1, SampleOfPod
<1>3. /\ d(i).point.cpu = uint64Quantity(s.pods[i].cpu.usage, Nano)
      /\ d(i).point.rx = ZeroQuantity /\ d(i).point.tx = ZeroQuantity
  BY <1>1, KeptPod, DecodedPod
<1>4. Reading(ZeroQuantity) = 0
  BY ReadCases DEF ZeroQuantity
<1>5. Reading(d(i).point.cpu) = 0 /\ Reading(d(i).point.rx) = 0 /\ Reading(d(i).point.tx) = 0
  <2> HIDE DEF d
  <2> QED BY <1>3, <1>4, NanoNeverRead
<1> HIDE DEF d
<1>6. x.family = f /\ x.num = Usage(d(i).point, f)
  BY <1>2
<1> QED BY <1>5, <1>6, UsageOf

THEOREM UsageNeverReported == Spec => []UsageZero
BY InvUsageZero, Invariance, PTL
=============================================================================
