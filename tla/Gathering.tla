------------------------------ MODULE Gathering ------------------------------
(***************************************************************************)
(* One call of GetNode or GetGPU of pkg/collector through Gather of the    *)
(* registry. Each registry has one collector, wrapped to give its metrics  *)
(* one label more. A goroutine runs the collector, which hands its metrics *)
(* over to the wrapping one's, and that puts them into a channel;          *)
(* another closes the channel when the wrapping collector is through; the  *)
(* call's own takes them out, checks each, and leaves when the channel is  *)
(* closed and empty. Then the families are put in order and converted one  *)
(* by one.                                                                 *)
(* Everything but the registry, which is not written after the start, is   *)
(* local to the call, so that calls overlap without touching.              *)
(***************************************************************************)
EXTENDS Metrics

CONSTANT Capacity   \* of the channel: capMetricChan

ASSUME CapacityAssumption == Capacity \in Nat \ {0}

VARIABLES
  metrics,    \* what the collector sends in this call
  taken,      \* how many of them the wrapping collector has
  sent,       \* and how many it has put into checkedMetricChan
  collecting, \* the collector has not returned
  wrapping,   \* nor has the wrapping one: wg.Wait() waits
  closed,     \* checkedMetricChan is closed
  received,   \* how many metrics processMetric has seen
  kept,       \* the metrics in metricFamiliesByName
  errs,       \* some of them were refused
  pc,         \* where the call is
  todo,       \* the families to be converted yet
  reply

vars == <<metrics, taken, sent, collecting, wrapping, closed, received, kept, errs, pc, todo, reply>>
channel == <<metrics, taken, sent, collecting, wrapping, closed>>
result  == <<kept, errs>>

NoReply == [status |-> "none", message |-> EmptyMessage]
Refused == [status |-> "error", message |-> EmptyMessage]

NoCall ==
  /\ metrics = <<>> /\ taken = 0 /\ sent = 0
  /\ collecting = FALSE /\ wrapping = FALSE /\ closed = FALSE
  /\ received = 0 /\ kept = {} /\ errs = FALSE /\ todo = {}

Init == NoCall /\ pc = "idle" /\ reply = NoReply

Call ==
  /\ pc = "idle"
  /\ pc' = "gather"
  /\ metrics' \in Collections
  /\ collecting' = TRUE
  /\ wrapping' = TRUE
  /\ UNCHANGED <<taken, sent, closed, received, kept, errs, todo, reply>>

(*------------------------ the collector's goroutines ---------------------*)

(* The channel between the two has no room: a metric is sent when the      *)
(* wrapping collector is ready for it.                                     *)
HandOver ==
  /\ collecting
  /\ taken < Len(metrics)
  /\ taken = sent
  /\ taken' = taken + 1
  /\ UNCHANGED <<metrics, sent, collecting, wrapping, closed, received, result, pc, todo, reply>>

CollectReturns ==
  /\ collecting
  /\ taken = Len(metrics)
  /\ collecting' = FALSE
  /\ UNCHANGED <<metrics, taken, sent, wrapping, closed, received, result, pc, todo, reply>>

(* It blocks while the channel is full.                                    *)
Send ==
  /\ sent < taken
  /\ sent - received < Capacity
  /\ sent' = sent + 1
  /\ UNCHANGED <<metrics, taken, collecting, wrapping, closed, received, result, pc, todo, reply>>

(* Its range is over when the collector has returned.                      *)
WrapperReturns ==
  /\ wrapping
  /\ ~collecting
  /\ sent = taken
  /\ wrapping' = FALSE
  /\ UNCHANGED <<metrics, taken, sent, collecting, closed, received, result, pc, todo, reply>>

(* mutant: the channel is closed when the collector was started *)
CloseAtOnce ==
  /\ pc = "gather"
  /\ ~closed
  /\ closed' = TRUE
  /\ UNCHANGED <<metrics, taken, sent, collecting, wrapping, received, result, pc, todo, reply>>

Close ==
  /\ pc = "gather"
  /\ ~wrapping
  /\ ~closed
  /\ closed' = TRUE
  /\ UNCHANGED <<metrics, taken, sent, collecting, wrapping, received, result, pc, todo, reply>>

(*--------------------------- the call's goroutine ------------------------*)

(* processMetric: with the name and the labels of another one it is an     *)
(* error, and is left out. The types and helps of one family agree, for    *)
(* they have one Desc.                                                     *)
ProcessMetric(m) ==
  IF HashOf(m) \in {HashOf(k) : k \in kept}
  THEN errs' = TRUE /\ UNCHANGED kept
  ELSE kept' = kept \cup {m} /\ UNCHANGED errs

(* mutant: after an error the channel is not read any more *)
ReceiveUntilError ==
  /\ pc = "gather"
  /\ received < sent
  /\ ~errs
  /\ received' = received + 1
  /\ ProcessMetric(Write(metrics[received + 1]))
  /\ UNCHANGED <<channel, pc, todo, reply>>

Receive ==
  /\ pc = "gather"
  /\ received < sent
  /\ received' = received + 1
  /\ ProcessMetric(Write(metrics[received + 1]))
  /\ UNCHANGED <<channel, pc, todo, reply>>

(* mutant: an empty channel is taken for a closed one *)
Emptied == received = sent

(* A closed channel gives what is in it first: only then is cmc nil.       *)
Drained == closed /\ received = sent

(* An error of Gather is returned; the families are dropped.               *)
Gathered ==
  /\ pc = "gather"
  /\ Drained
  /\ IF errs
     THEN pc' = "replied" /\ reply' = Refused /\ UNCHANGED todo
     ELSE pc' = "convert" /\ todo' = {m.name : m \in kept} /\ UNCHANGED reply
  /\ UNCHANGED <<channel, received, result>>

MetricsToConvert(n) == {m \in kept : m.name = n}

(* One family after the other; the first that cannot be encoded is the     *)
(* answer.                                                                 *)
Convert(n) ==
  /\ pc = "convert"
  /\ n \in todo
  /\ IF Encodable(MetricsToConvert(n))
     THEN todo' = todo \ {n} /\ UNCHANGED <<pc, reply>>
     ELSE todo' = {} /\ pc' = "replied" /\ reply' = Refused
  /\ UNCHANGED <<channel, received, result>>

Respond ==
  /\ pc = "convert"
  /\ todo = {}
  /\ pc' = "replied"
  /\ reply' = [status |-> "ok", message |-> Message(kept)]
  /\ UNCHANGED <<channel, received, result, todo>>

(* The answer is sent, or the process has ended.                           *)
Over ==
  /\ pc # "idle"
  /\ pc' = "idle"
  /\ metrics' = <<>> /\ taken' = 0 /\ sent' = 0
  /\ collecting' = FALSE /\ wrapping' = FALSE /\ closed' = FALSE
  /\ received' = 0 /\ kept' = {} /\ errs' = FALSE /\ todo' = {}
  /\ reply' = NoReply

Collector == HandOver \/ CollectReturns
Wrapper   == Send \/ WrapperReturns
Gatherer  == Receive \/ Gathered \/ (\E n \in Names : Convert(n)) \/ Respond

Next == Call \/ Collector \/ Wrapper \/ Close \/ Gatherer \/ Over

(* The four goroutines are scheduled.                                      *)
Fairness == WF_vars(Collector) /\ WF_vars(Wrapper) /\ WF_vars(Close) /\ WF_vars(Gatherer)

Spec == Init /\ [][Next]_vars /\ Fairness

-----------------------------------------------------------------------------
(* The channel never holds more than it can, and is closed only when the   *)
(* collector cannot send into it any more.                                 *)
InFlight ==
  /\ metrics \in Collections \cup {<<>>}
  /\ taken \in 0 .. Len(metrics) /\ sent \in 0 .. taken /\ taken - sent <= 1
  /\ collecting \in BOOLEAN /\ wrapping \in BOOLEAN
  /\ closed \in BOOLEAN /\ (closed => ~wrapping /\ sent = Len(metrics))
  /\ received \in 0 .. sent /\ sent - received <= Capacity
  /\ kept \subseteq Written(metrics)
  /\ errs \in BOOLEAN
  /\ pc \in {"idle", "gather", "convert", "replied"}
  /\ todo \subseteq Names

TypeOK ==
  /\ InFlight
  /\ kept \subseteq ConstMetric
  /\ reply.status \in {"none", "ok", "error"}
  /\ DOMAIN reply.message \subseteq Names
  /\ \A n \in DOMAIN reply.message : reply.message[n] \in MetricFamily

(* The answer the metrics of a collection give: all of them, family by     *)
(* family in the order of their labels. If two of a family have the same   *)
(* labels, or one has a value JSON has no form for, it is an error.        *)
AnswerTo(ms) ==
  IF Repeated(ms) \/ ~Encodable(Written(ms)) THEN Refused
  ELSE [status |-> "ok", message |-> Message(Written(ms))]

(* What a call answers depends on what the collector sent and on nothing   *)
(* else: not on how the goroutines take turns, nor on where the channel    *)
(* was full, nor on which error came first. No metric is lost or answered  *)
(* twice, none of another call, and an error is an error of the whole.     *)
Abstract == INSTANCE GatheringSpec
              WITH NoMetrics <- <<>>,
                   pc <- IF pc \in {"gather", "convert"} THEN "called" ELSE pc
AnswersAtOnce == Abstract!Spec

(* Work prints the first metric of each family as those of one node: they  *)
(* are those of one GPU, or of one pod, in whatever order the collector    *)
(* sent them; and the fourth label of the version is the version. It has   *)
(* one label more than the others, that comes after theirs.                *)
Said(m) ==
  IF m.name = DriverVersion THEN Last(m.metric.label).value ELSE m.metric.gauge.value

OneSource ==
  reply.status = "ok" /\ metrics # <<>> =>
    \E i \in DOMAIN metrics : \A n \in DOMAIN reply.message :
      \E j \in DOMAIN metrics :
        /\ metrics[j].name = n
        /\ SameSource(metrics[j].metric.label, metrics[i].metric.label)
        /\ Shown(reply.message, n) = Said(metrics[j])

(* However many metrics there are and whichever are refused, the collector *)
(* and the call do not come to wait for each other.                        *)
GatherReturns == pc = "gather" ~> pc \in {"replied", "idle"}
=============================================================================
