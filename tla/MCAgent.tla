------------------------------- MODULE MCAgent -------------------------------
(* One agent with two calls of GetGPU and one of GetNode. *)
EXTENDS Agent

CONSTANTS r1, r2, q1, g1, g2, p1

Pod(usage) ==
  [ref |-> p1, cpu |-> [time |-> 1, usage |-> 4],
   mem |-> [time |-> 2, avail |-> NIL, usage |-> usage, ws |-> 1],
   net |-> NIL, fs |-> [time |-> 2, avail |-> 5, cap |-> 8, used |-> 3]]

NoStats == [cpu |-> NIL, mem |-> NIL, net |-> NIL, fs |-> NIL]

\* one that is decoded, one that panics
MCSummaries == [node: {NoStats}, pods: {<<Pod(6)>>, <<Pod(NIL)>>}]

Q(v) == [value |-> v, scale |-> 0]

MCAllocatables == {[cpu |-> Q(8), mem |-> Q(9), fs |-> Q(7)]}
=============================================================================
