----------------------------- MODULE DecodeBatch -----------------------------
(***************************************************************************)
(* DecodeBatch of pkg/decode, one action per call it makes: the node's     *)
(* stats first, then each pod of the summary into the next free slot of a  *)
(* result array of the summary's length, a slot being reused when its pod  *)
(* turned out partial; at the end the array is cut to the slots in use.    *)
(***************************************************************************)
EXTENDS DecodeStats

CONSTANT Summaries   \* the summaries a kubelet may send

ASSUME SummariesAssumption ==
  \A s \in Summaries : s.node \in NodeStats /\ s.pods \in Seq(PodStats)

VARIABLES
  summary,  \* the argument: [node, pods]
  node,     \* res.Node
  slots,    \* res.Pods
  num,      \* the number of slots in use
  next,     \* the position of the range loop over summary.Pods
  failed,   \* errs is not empty
  pc        \* "node", "pods", then "done" or "panicked"

vars == <<summary, node, slots, num, next, failed, pc>>

Init ==
  /\ summary \in Summaries
  /\ node = ZeroPoint
  /\ slots = [i \in 1 .. Len(summary.pods) |-> ZeroPod]
  /\ num = 0
  /\ next = 1
  /\ failed = FALSE
  /\ pc = "node"

(* With errors the data point is kept: the branch that would discard it is *)
(* empty.                                                                  *)
DecodeNode ==
  /\ pc = "node"
  /\ ~NodePanics(summary.node)
  /\ node' = decodeNodeStats(summary.node, node)
  /\ failed' = (NodeErrs(summary.node) # {})
  /\ pc' = "pods"
  /\ UNCHANGED <<summary, slots, num, next>>

Pod == summary.pods[next]

(* mutant: the slot is kept although its pod was partial *)
AdvanceAlways == num + 1

(* A partial pod's slot is left to the next pod. *)
Advance == IF Complete(Pod) THEN num + 1 ELSE num

DecodePod ==
  /\ pc = "pods"
  /\ next <= Len(summary.pods)
  /\ ~PodPanics(Pod)
  /\ slots' = [slots EXCEPT ![num + 1] = decodePodStats(Pod, @)]
  /\ num' = Advance
  /\ failed' = (failed \/ ~Complete(Pod))
  /\ next' = next + 1
  /\ UNCHANGED <<summary, node, pc>>

(* mutant: the array is returned with its unused slots *)
ReturnUncut ==
  /\ pc = "pods"
  /\ next > Len(summary.pods)
  /\ pc' = "done"
  /\ UNCHANGED <<summary, node, slots, num, next, failed>>

Return ==
  /\ pc = "pods"
  /\ next > Len(summary.pods)
  /\ slots' = SubSeq(slots, 1, num)
  /\ pc' = "done"
  /\ UNCHANGED <<summary, node, num, next, failed>>

Panic ==
  /\ \/ pc = "node" /\ NodePanics(summary.node)
     \/ pc = "pods" /\ next <= Len(summary.pods) /\ PodPanics(Pod)
  /\ pc' = "panicked"
  /\ UNCHANGED <<summary, node, slots, num, next, failed>>

Next == DecodeNode \/ DecodePod \/ Return \/ Panic

Spec == Init /\ [][Next]_vars

-----------------------------------------------------------------------------
(* The decoded data keep their types, the loop stays within the array      *)
(* (res.Pods[num] is in bounds whenever a pod is decoded) and the array is *)
(* cut to the slots in use at the end.                                     *)
TypeOK ==
  /\ summary \in Summaries
  /\ node \in MetricsPoints
  /\ slots \in Seq(PodPoints)
  /\ next \in 1 .. Len(summary.pods) + 1
  /\ num \in 0 .. next - 1
  /\ failed \in BOOLEAN
  /\ pc \in {"node", "pods", "done", "panicked"}
  /\ Len(slots) = IF pc = "done" THEN num ELSE Len(summary.pods)

(* Whatever partial pods came before it and whatever they left in the slot *)
(* it was given, a complete pod is found at its place among the complete   *)
(* pods, decoded as if into a fresh slot; no partial pod takes a place     *)
(* (the comments in the loop of DecodeBatch).                              *)
KeptPodsInOrder ==
  LET seen == KeptUpTo(summary.pods, next - 1)
  IN  /\ num = Cardinality(seen)
      /\ \A i \in seen :
           slots[Cardinality(KeptUpTo(summary.pods, i))]
             = decodePodStats(summary.pods[i], ZeroPod)

(* The loop with its shared slots implements the abstract specification:   *)
(* the selection, in order, of the complete pods.                          *)
Result ==
  CASE pc = "done"     -> [status |-> "done", node |-> node,
                           pods |-> slots, failed |-> failed]
    [] pc = "panicked" -> [status |-> "panicked"]
    [] OTHER           -> [status |-> "pending"]

Abs == INSTANCE DecodeBatchSpec WITH result <- Result

SelectsCompletePods == Abs!Spec

(* Said of the node's stats by the comment in DecodeBatch: with errors the *)
(* data point is discarded, so that no metric is reported as zero.         *)
NodeErrorsDiscardPoint ==
  pc \in {"pods", "done"} /\ NodeErrs(summary.node) # {} => node = ZeroPoint

(* The fields pkg/stats calls optional may be missing: no summary stops    *)
(* the process.                                                            *)
OptionalFieldsMayBeMissing == pc # "panicked"
=============================================================================
