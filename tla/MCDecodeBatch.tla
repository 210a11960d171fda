---------------------------- MODULE MCDecodeBatch ----------------------------
(* The summaries TLC explores DecodeBatch with. *)
EXTENDS DecodeBatch

CONSTANTS p1, p2

CONSTANT MaxPods       \* the pods of a summary, at most

(* Stats that differ in every way the decoders tell apart: missing, with   *)
(* each pointer nil, without a time stamp, complete, and above MaxInt64.   *)
CPUs ==
  { NIL,
    [time |-> 0, usage |-> 3],
    [time |-> 2, usage |-> NIL],
    [time |-> 2, usage |-> 4] }

Mems ==
  { NIL,
    [time |-> 0, avail |-> NIL, usage |-> 5, ws |-> 2],
    [time |-> 1, avail |-> 6,   usage |-> 7, ws |-> 17],
    [time |-> 3, avail |-> NIL, usage |-> NIL, ws |-> 1],
    [time |-> 3, avail |-> 1,   usage |-> NIL, ws |-> NIL] }

Fss ==
  { NIL,
    [time |-> 4, avail |-> 8,   cap |-> 9,   used |-> NIL],
    [time |-> 4, avail |-> NIL, cap |-> 9,   used |-> 1],
    [time |-> 0, avail |-> 2,   cap |-> NIL, used |-> 1] }

Nets == {NIL, [time |-> 1, rx |-> 2, tx |-> NIL]}

Nodes == [cpu: CPUs, mem: Mems, net: Nets, fs: Fss]

Pod1(cpu, mem, fs) == [ref |-> p1, cpu |-> cpu, mem |-> mem, net |-> NIL, fs |-> fs]
Pod2(cpu, mem, fs) ==
  [ref |-> p2, cpu |-> cpu, mem |-> mem, net |-> [time |-> 1, rx |-> 5, tx |-> 2], fs |-> fs]

GoodCPU == [time |-> 2, usage |-> 4]
GoodMem == [time |-> 1, avail |-> 6, usage |-> 7, ws |-> 17]
GoodFs  == [time |-> 4, avail |-> 8, cap |-> 9, used |-> NIL]
NoAvail == [time |-> 3, avail |-> NIL, usage |-> 5, ws |-> 2]
NoUsage == [time |-> 3, avail |-> NIL, usage |-> NIL, ws |-> 1]

SomePods ==
  { Pod1(GoodCPU, GoodMem, GoodFs),   \* complete
    Pod2(GoodCPU, NoAvail, GoodFs),   \* complete, without available bytes
    Pod1(NIL, GoodMem, GoodFs),       \* partial, leaves bytes in its slot
    Pod2(GoodCPU, GoodMem, NIL),      \* partial, leaves bytes in its slot
    Pod1(NIL, NIL, GoodFs),           \* no time stamp
    Pod2(GoodCPU, NoUsage, GoodFs) }  \* panics

OneNode == [cpu |-> GoodCPU, mem |-> NIL, net |-> NIL, fs |-> GoodFs]

PodSeqs == UNION {[1 .. n -> SomePods] : n \in 0 .. MaxPods}

MCSummaries ==
  [node: Nodes, pods: {<<>>, <<Pod1(GoodCPU, GoodMem, GoodFs)>>}]
    \cup [node: {OneNode}, pods: PodSeqs]
=============================================================================
