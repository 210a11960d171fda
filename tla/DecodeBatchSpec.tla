--------------------------- MODULE DecodeBatchSpec ---------------------------
(***************************************************************************)
(* What DecodeBatch promises of one summary, whatever way it gets there:   *)
(* the pods whose stats are complete, each decoded on its own, in the      *)
(* order of the summary; the pods with partial stats are left out, and an  *)
(* error is reported exactly when something was left out or the node's     *)
(* stats were partial.                                                     *)
(***************************************************************************)
EXTENDS DecodeStats

VARIABLES summary, \* [node, pods]: what the kubelet sent
          result   \* [status, node, pods, failed]: what the caller gets

vars == <<summary, result>>

Pending == [status |-> "pending"]

Init == result = Pending

Return ==
  /\ result = Pending
  /\ ~SummaryPanics(summary)
  /\ result'.status = "done"
  /\ result'.node   = decodeNodeStats(summary.node, ZeroPoint)
  /\ IsSelection(result'.pods, summary.pods)
  /\ result'.failed = SummaryFails(summary)
  /\ UNCHANGED summary

Panic ==
  /\ result = Pending
  /\ SummaryPanics(summary)
  /\ result' = [status |-> "panicked"]
  /\ UNCHANGED summary

Next == Return \/ Panic

Spec == Init /\ [][Next]_vars
=============================================================================
