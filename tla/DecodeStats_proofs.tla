------------------------- MODULE DecodeStats_proofs -------------------------
(***************************************************************************)
(* Lemmas about the decoders of DecodeStats and the quantities they make:  *)
(* what they return is well typed, which values arrive unchanged, and how  *)
(* the complete pods of a summary are counted.                             *)
(***************************************************************************)
EXTENDS DecodeStats, FiniteSetTheorems, TLAPS

(*---------------------- the decoders keep the types ----------------------*)

LEMMA QuantityType ==
  ASSUME NEW val \in Uint64, NEW scale \in Int
  PROVE  uint64Quantity(val, scale) \in Quantities
<1>1. CASE val <= MaxInt64
  BY <1>1, MaxInt64Assumption DEF uint64Quantity, Quantities, Int64, Uint64
<1>2. CASE val > MaxInt64
  <2>1. val \div 10 \in Int64
    BY <1>2, MaxInt64Assumption DEF Int64, Uint64
  <2> QED
    BY <1>2, <2>1, MaxInt64Assumption DEF uint64Quantity, Quantities, Uint64
<1> QED
  BY <1>1, <1>2, MaxInt64Assumption DEF Uint64

LEMMA BytesType == ASSUME NEW val \in Uint64 PROVE Bytes(val) \in Quantities
  BY QuantityType DEF Bytes

(* The time a resource's stats contribute, as a set.                       *)
TimeOf(s) == IF s = NIL THEN {} ELSE {s.time} \ {0}

HasEarliest(times) ==
  times \subseteq Nat /\ (times = {} \/ \E t \in times : \A u \in times : t <= u)

LEMMA EarliestOfUnion ==
  ASSUME NEW S, NEW T, HasEarliest(S), HasEarliest(T)
  PROVE  HasEarliest(S \cup T)
<1>1. CASE S = {} \/ T = {}
  BY <1>1 DEF HasEarliest
<1>2. CASE S # {} /\ T # {}
  <2>1. PICK s \in S : \A u \in S : s <= u
    BY <1>2 DEF HasEarliest
  <2>2. PICK t \in T : \A u \in T : t <= u
    BY <1>2 DEF HasEarliest
  <2>3. s \in Nat /\ t \in Nat /\ S \cup T \subseteq Nat
    BY DEF HasEarliest
  <2>4. CASE s <= t
    BY <2>1, <2>2, <2>3, <2>4 DEF HasEarliest
  <2>5. CASE t <= s
    BY <2>1, <2>2, <2>3, <2>5 DEF HasEarliest
  <2> QED
    BY <2>3, <2>4, <2>5
<1> QED
  BY <1>1, <1>2

LEMMA EarliestOfOne ==
  ASSUME NEW s, s = NIL \/ s.time \in Nat
  PROVE  HasEarliest(TimeOf(s))
  BY DEF HasEarliest, TimeOf

LEMMA EarliestTimeType ==
  ASSUME NEW stats, HasEarliest({s.time : s \in stats \ {NIL}} \ {0})
  PROVE  EarliestTime(stats) \in Nat
  BY DEF EarliestTime, HasEarliest

LEMMA PodTimeType == ASSUME NEW pod \in PodStats PROVE PodTime(pod) \in Nat
<1>1. {s.time : s \in {pod.cpu, pod.mem} \ {NIL}} \ {0} = TimeOf(pod.cpu) \cup TimeOf(pod.mem)
  BY DEF TimeOf
<1>2. HasEarliest(TimeOf(pod.cpu)) /\ HasEarliest(TimeOf(pod.mem))
  BY EarliestOfOne DEF PodStats, CPUStats, MemoryStats
<1> QED
  <2>1. HasEarliest({s.time : s \in {pod.cpu, pod.mem} \ {NIL}} \ {0})
    BY <1>1, <1>2, EarliestOfUnion
  <2> QED
    BY <2>1, EarliestTimeType DEF PodTime, getScrapeTimePod

LEMMA NodeTimeType == ASSUME NEW n \in NodeStats PROVE NodeTime(n) \in Nat
<1>1. {s.time : s \in {n.cpu, n.mem, n.net, n.fs} \ {NIL}} \ {0}
        = (TimeOf(n.cpu) \cup TimeOf(n.mem)) \cup (TimeOf(n.net) \cup TimeOf(n.fs))
  BY DEF TimeOf
<1>2. /\ HasEarliest(TimeOf(n.cpu)) /\ HasEarliest(TimeOf(n.mem))
      /\ HasEarliest(TimeOf(n.net)) /\ HasEarliest(TimeOf(n.fs))
  BY EarliestOfOne DEF NodeStats, CPUStats, MemoryStats, NetworkStats, FsStats
<1>3. /\ HasEarliest(TimeOf(n.cpu) \cup TimeOf(n.mem))
      /\ HasEarliest(TimeOf(n.net) \cup TimeOf(n.fs))
  BY <1>2, EarliestOfUnion
<1> QED
  <2>1. HasEarliest({s.time : s \in {n.cpu, n.mem, n.net, n.fs} \ {NIL}} \ {0})
    BY <1>1, <1>3, EarliestOfUnion
  <2> QED
    BY <2>1, EarliestTimeType DEF NodeTime, getScrapeTimeNode

LEMMA ZeroPointType == ZeroPoint \in MetricsPoints
  BY MaxInt64Assumption DEF ZeroPoint, MetricsPoints, ZeroQuantity, Quantities, Int64

LEMMA StampedType == ASSUME NEW t \in Nat PROVE Stamped(t) \in MetricsPoints
  BY ZeroPointType DEF Stamped, MetricsPoints, ZeroPoint

LEMMA CPUType ==
  ASSUME NEW point \in MetricsPoints, NEW cpu \in CPUStats \cup {NIL}
  PROVE  decodeCPU(point, cpu) \in MetricsPoints
<1>1. CASE CPUMissing(cpu)
  BY <1>1 DEF decodeCPU
<1>2. CASE ~CPUMissing(cpu)
  <2>1. cpu.usage \in Uint64
    BY <1>2 DEF CPUMissing, CPUStats
  <2>2. uint64Quantity(cpu.usage, Nano) \in Quantities
    BY <2>1, QuantityType DEF Nano
  <2> QED
    BY <1>2, <2>2 DEF decodeCPU, MetricsPoints
<1> QED
  BY <1>1, <1>2

LEMMA MemoryType ==
  ASSUME NEW point \in MetricsPoints, NEW mem \in MemoryStats \cup {NIL},
         ~MemoryPanics(mem)
  PROVE  decodeMemory(point, mem) \in MetricsPoints
<1>1. CASE MemoryMissing(mem)
  BY <1>1 DEF decodeMemory
<1>2. CASE ~MemoryMissing(mem)
  <2>1. /\ mem.ws \in Uint64 /\ mem.usage \in Uint64
        /\ mem.avail # NIL => mem.avail \in Uint64
    BY <1>2 DEF MemoryMissing, MemoryPanics, MemoryStats
  <2>2. /\ Bytes(mem.ws) \in Quantities /\ Bytes(mem.usage) \in Quantities
        /\ mem.avail # NIL => Bytes(mem.avail) \in Quantities
    BY <2>1, BytesType
  <2> QED
    BY <1>2, <2>2 DEF decodeMemory, MetricsPoints
<1> QED
  BY <1>1, <1>2

LEMMA FsType ==
  ASSUME NEW point \in MetricsPoints, NEW fs \in FsStats \cup {NIL}, ~FsPanics(fs)
  PROVE  decodeFs(point, fs) \in MetricsPoints
<1>1. CASE FsMissing(fs)
  BY <1>1 DEF decodeFs
<1>2. CASE ~FsMissing(fs)
  <2>1. /\ fs.avail \in Uint64 /\ fs.cap \in Uint64
        /\ (IF fs.used = NIL THEN 0 ELSE fs.used) \in Uint64
    BY <1>2, MaxInt64Assumption DEF FsMissing, FsPanics, FsStats, Uint64
  <2>2. /\ Bytes(fs.avail) \in Quantities /\ Bytes(fs.cap) \in Quantities
        /\ Bytes(IF fs.used = NIL THEN 0 ELSE fs.used) \in Quantities
    BY <2>1, BytesType
  <2> QED
    BY <1>2, <2>2 DEF decodeFs, MetricsPoints
<1> QED
  BY <1>1, <1>2

LEMMA PodType ==
  ASSUME NEW pod \in PodStats, NEW target \in PodPoints, ~PodPanics(pod)
  PROVE  decodePodStats(pod, target) \in PodPoints
<1> DEFINE stamped == Stamped(PodTime(pod))
           cpu     == decodeCPU(stamped, pod.cpu)
           mem     == decodeMemory(cpu, pod.mem)
<1>1. CASE PodTime(pod) = 0
  BY <1>1 DEF decodePodStats
<1>2. CASE PodTime(pod) # 0
  <2>1. ~MemoryPanics(pod.mem) /\ ~FsPanics(pod.fs)
    BY <1>2 DEF PodPanics
  <2>2. /\ pod.ref \in PodRefs /\ pod.cpu \in CPUStats \cup {NIL}
        /\ pod.mem \in MemoryStats \cup {NIL} /\ pod.fs \in FsStats \cup {NIL}
    BY DEF PodStats
  <2>3. stamped \in MetricsPoints
    BY PodTimeType, StampedType
  <2>4. mem \in MetricsPoints
    BY <2>1, <2>2, <2>3, CPUType, MemoryType
  <2>5. decodeFs(mem, pod.fs) \in MetricsPoints
    BY <2>1, <2>2, <2>4, FsType
  <2>6. decodePodStats(pod, target) = [ref |-> pod.ref, point |-> decodeFs(mem, pod.fs)]
    BY <1>2 DEF decodePodStats, FreshSlot
  <2> QED
    BY <2>2, <2>5, <2>6 DEF PodPoints
<1> QED
  BY <1>1, <1>2

LEMMA NodeType ==
  ASSUME NEW n \in NodeStats, NEW target \in MetricsPoints, ~NodePanics(n)
  PROVE  decodeNodeStats(n, target) \in MetricsPoints
<1> DEFINE stamped == Stamped(NodeTime(n))
           cpu     == decodeCPU(stamped, n.cpu)
           mem     == decodeMemory(cpu, n.mem)
<1>1. CASE NodeTime(n) = 0
  BY <1>1 DEF decodeNodeStats
<1>2. CASE NodeTime(n) # 0
  <2>1. ~MemoryPanics(n.mem) /\ ~FsPanics(n.fs)
    BY <1>2 DEF NodePanics
  <2>2. /\ n.cpu \in CPUStats \cup {NIL} /\ n.mem \in MemoryStats \cup {NIL}
        /\ n.fs \in FsStats \cup {NIL}
    BY DEF NodeStats
  <2>3. stamped \in MetricsPoints
    BY NodeTimeType, StampedType
  <2>4. mem \in MetricsPoints
    BY <2>1, <2>2, <2>3, CPUType, MemoryType
  <2>5. decodeFs(mem, n.fs) \in MetricsPoints
    BY <2>1, <2>2, <2>4, FsType
  <2> QED
    BY <1>2, <2>5 DEF decodeNodeStats
<1> QED
  BY <1>1, <1>2

-----------------------------------------------------------------------------
(*-------------------------- counting complete pods ------------------------*)

LEMMA KeptCount ==
  ASSUME NEW pods, NEW n \in Nat
  PROVE  IsFiniteSet(KeptUpTo(pods, n)) /\ Cardinality(KeptUpTo(pods, n)) \in 0 .. n
<1>1. IsFiniteSet(1 .. n) /\ Cardinality(1 .. n) = n
  BY FS_Interval
<1>2. KeptUpTo(pods, n) \in SUBSET (1 .. n)
  BY DEF KeptUpTo
<1> QED
  BY <1>1, <1>2, FS_Subset, FS_CardinalityType

(* One more pod adds its position, or nothing.                             *)
LEMMA KeptNext ==
  ASSUME NEW pods, NEW n \in Nat \ {0}
  PROVE  /\ Complete(pods[n]) =>
              /\ KeptUpTo(pods, n) = KeptUpTo(pods, n - 1) \cup {n}
              /\ Cardinality(KeptUpTo(pods, n)) = Cardinality(KeptUpTo(pods, n - 1)) + 1
         /\ ~Complete(pods[n]) => KeptUpTo(pods, n) = KeptUpTo(pods, n - 1)
<1>1. 1 .. n = (1 .. n - 1) \cup {n} /\ n \notin 1 .. n - 1
  OBVIOUS
<1>2. ~Complete(pods[n]) => KeptUpTo(pods, n) = KeptUpTo(pods, n - 1)
  BY <1>1 DEF KeptUpTo
<1>3. ASSUME Complete(pods[n])
      PROVE  KeptUpTo(pods, n) = KeptUpTo(pods, n - 1) \cup {n}
  BY <1>1, <1>3 DEF KeptUpTo
<1>4. n \notin KeptUpTo(pods, n - 1)
  BY <1>1 DEF KeptUpTo
<1>5. IsFiniteSet(KeptUpTo(pods, n - 1))
  BY KeptCount
<1> QED
  BY <1>2, <1>3, <1>4, <1>5, FS_AddElement

(* The place of a complete pod is one of the places taken.                 *)
LEMMA KeptPlace ==
  ASSUME NEW pods, NEW n \in Nat, NEW i \in KeptUpTo(pods, n)
  PROVE  Cardinality(KeptUpTo(pods, i)) \in 1 .. Cardinality(KeptUpTo(pods, n))
<1>1. i \in 1 .. n /\ i \in KeptUpTo(pods, i)
  BY DEF KeptUpTo
<1>2. KeptUpTo(pods, i) \in SUBSET KeptUpTo(pods, n)
  BY <1>1 DEF KeptUpTo
<1>3. /\ IsFiniteSet(KeptUpTo(pods, n)) /\ Cardinality(KeptUpTo(pods, n)) \in Nat
      /\ IsFiniteSet(KeptUpTo(pods, i)) /\ Cardinality(KeptUpTo(pods, i)) \in Nat
  BY <1>1, KeptCount
<1>4. Cardinality(KeptUpTo(pods, i)) <= Cardinality(KeptUpTo(pods, n))
  BY <1>2, <1>3, FS_Subset
<1>5. Cardinality(KeptUpTo(pods, i)) # 0
  BY <1>1, <1>3, FS_EmptySet
<1> QED
  BY <1>3, <1>4, <1>5

(* Every place is that of one complete pod.                                *)
LEMMA KeptPlaces ==
  ASSUME NEW pods, NEW n \in Nat
  PROVE  /\ \A i, j \in KeptUpTo(pods, n) :
              Cardinality(KeptUpTo(pods, i)) = Cardinality(KeptUpTo(pods, j)) => i = j
         /\ \A k \in 1 .. Cardinality(KeptUpTo(pods, n)) : \E i \in KeptUpTo(pods, n) :
              Cardinality(KeptUpTo(pods, i)) = k
<1> DEFINE kept     == KeptUpTo(pods, n)
           place(i) == Cardinality(KeptUpTo(pods, i))
           places   == 1 .. Cardinality(kept)
           f        == [i \in kept |-> place(i)]
<1>1. kept \subseteq 1 .. n /\ \A i \in kept : place(i) \in Nat
  BY KeptCount DEF KeptUpTo
<1>2. ASSUME NEW i \in kept, NEW j \in kept, i < j
      PROVE  place(i) < place(j)
  <2>1. i \in Nat /\ j \in Nat \ {0} /\ j - 1 \in Nat /\ Complete(pods[j])
    BY <1>1 DEF KeptUpTo
  <2>2. place(j) = Cardinality(KeptUpTo(pods, j - 1)) + 1
    BY <2>1, KeptNext
  <2>3. i \in KeptUpTo(pods, j - 1)
    BY <1>2, <2>1 DEF KeptUpTo
  <2>4. place(i) \in 1 .. Cardinality(KeptUpTo(pods, j - 1))
    BY <2>1, <2>3, KeptPlace
  <2>5. Cardinality(KeptUpTo(pods, j - 1)) \in Nat
    BY <2>1, KeptCount
  <2> HIDE DEF place
  <2> QED BY <2>2, <2>4, <2>5
<1>3. \A i, j \in kept : place(i) = place(j) => i = j
  <2> HIDE DEF kept, place
  <2> QED BY <1>1, <1>2
<1>4. IsFiniteSet(kept) /\ Cardinality(kept) \in Nat
  BY KeptCount
<1>5. IsFiniteSet(places) /\ Cardinality(places) = Cardinality(kept)
  BY <1>4, FS_Interval
<1>6. f \in Injection(kept, places)
  <2>1. \A i \in kept : place(i) \in places
    BY KeptPlace
  <2> HIDE DEF kept, place, places
  <2>2. \A i \in kept : f[i] = place(i)
    OBVIOUS
  <2>3. f \in [kept -> places]
    BY <2>1
  <2> HIDE DEF f
  <2> QED BY <1>3, <2>2, <2>3 DEF Injection, IsInjective
<1>7. f \in Surjection(kept, places)
  BY <1>5, <1>6, FS_Injection
<1> HIDE DEF kept, place, places
<1>8. \A k \in places : \E i \in kept : place(i) = k
  BY <1>7 DEF Surjection
<1> QED BY <1>3, <1>8 DEF kept, place, places

(* What a slot held before does not matter to a complete pod.              *)
LEMMA CompletelyOverwritten ==
  ASSUME NEW pod, NEW s, NEW t, Complete(pod)
  PROVE  decodePodStats(pod, s) = decodePodStats(pod, t)
<1>1. PodTime(pod) # 0
  BY DEF Complete, PodErrs
<1> QED
  BY <1>1 DEF decodePodStats, FreshSlot
=============================================================================
