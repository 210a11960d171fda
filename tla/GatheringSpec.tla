---------------------------- MODULE GatheringSpec ----------------------------
(***************************************************************************)
(* What GetNode and GetGPU promise: a call has its answer in one step, and *)
(* it is a function of the metrics the collector sends in that call.       *)
(***************************************************************************)
CONSTANTS
  Collections,   \* what the collector may send in one call
  NoMetrics,     \* and what it has sent when there is no call
  AnswerTo(_),   \* the answer that the metrics give
  NoReply

VARIABLES metrics, pc, reply

specVars == <<metrics, pc, reply>>

Init == metrics = NoMetrics /\ pc = "idle" /\ reply = NoReply

Call ==
  /\ pc = "idle"
  /\ pc' = "called"
  /\ metrics' \in Collections
  /\ UNCHANGED reply

Answer ==
  /\ pc = "called"
  /\ pc' = "replied"
  /\ reply' = AnswerTo(metrics)
  /\ UNCHANGED metrics

(* The answer is sent, or the process has ended.                           *)
Over ==
  /\ pc # "idle"
  /\ pc' = "idle"
  /\ metrics' = NoMetrics
  /\ reply' = NoReply

Next == Call \/ Answer \/ Over

Spec == Init /\ [][Next]_specVars
=============================================================================
