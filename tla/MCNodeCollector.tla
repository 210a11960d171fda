--------------------------- MODULE MCNodeCollector ---------------------------
(* Summaries and nodes that differ in what NodeCollector makes of them. *)
EXTENDS NodeCollector

CONSTANTS p1, p2, r1, r2

Good(ref, usage) ==
  [ref |-> ref, cpu |-> [time |-> 1, usage |-> 4],
   mem |-> [time |-> 2, avail |-> NIL, usage |-> usage, ws |-> 1],
   net |-> [time |-> 2, rx |-> 3, tx |-> 2],
   fs  |-> [time |-> 2, avail |-> 5, cap |-> 8, used |-> 3]]

WithoutCPU(ref)   == [Good(ref, 6) EXCEPT !.cpu = NIL]
WithoutUsage(ref) == [Good(ref, 6) EXCEPT !.mem.usage = NIL]

Node == [cpu |-> NIL, mem |-> NIL, net |-> NIL, fs |-> NIL]

\* both complete; one partial; one pod twice; above MaxInt64; none; a panic
PodLists ==
  { <<Good(p1, 6), Good(p2, 7)>>,
    <<WithoutCPU(p1), Good(p2, 5)>>,
    <<Good(p1, 6), Good(p1, 2)>>,
    <<Good(p2, 31)>>,
    <<>> }

MCSummaries == [node: {Node}, pods: PodLists]

MCSummariesPanic == [node: {Node}, pods: PodLists \cup {<<WithoutUsage(p2)>>}]

Q(v, s) == [value |-> v, scale |-> s]

\* whole cores; 3.9 cores, which the API server writes in thousandths
MCAllocatables ==
  { [cpu |-> Q(8, 0), mem |-> Q(9, 0), fs |-> Q(7, 0)],
    [cpu |-> Q(3, -3), mem |-> Q(9, 0), fs |-> Q(7, 0)] }
=============================================================================
