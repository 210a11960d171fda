---------------------------- MODULE NodeCollector ----------------------------
(***************************************************************************)
(* The GetNode service of one agent process, from its start to its death:  *)
(* Initmetrics of pkg/worker, Provider.GetNode of pkg/collector, the       *)
(* NodeCollector the registry calls back, and GetSummary of the kubelet    *)
(* client. Each call reads the node from the API server, then the          *)
(* kubelet's summary; both may fail, and the code goes on with what it     *)
(* has. A panic in any call ends the process and every call in it; the     *)
(* container is then started again.                                        *)
(* DecodeBatch is taken at its abstract specification: the complete pods,  *)
(* decoded.                                                                *)
(***************************************************************************)
EXTENDS DecodeStats

CONSTANTS
  Requests,      \* the calls of GetNode that may be in flight together
  Summaries,     \* the summaries the kubelet may send
  Allocatables,  \* what the node may have to allocate: [cpu, mem, fs]
  APIMayFail,    \* the API server may not answer
  KubeletFaults  \* how the kubelet may fail: "unreachable", "garbage"

ASSUME ConstantsAssumption ==
  /\ \A s \in Summaries : s.node \in NodeStats /\ s.pods \in Seq(PodStats)
  /\ Allocatables \subseteq [cpu: Quantities, mem: Quantities, fs: Quantities]
  /\ APIMayFail \in BOOLEAN
  /\ KubeletFaults \subseteq {"unreachable", "garbage"}

VARIABLES
  up,             \* the process is serving
  kubeletClient,  \* MetricWorker.KubeletClient, NIL if it was not made
  pc,             \* where each request is
  total,          \* the node's totals, as Collect has read them
  summary,        \* the summary GetSummary returned
  reply           \* what the caller got

vars == <<up, kubeletClient, pc, total, summary, reply>>

EmptyNode    == [cpu |-> NIL, mem |-> NIL, net |-> NIL, fs |-> NIL]
EmptySummary == [node |-> EmptyNode, pods |-> <<>>]

NoTotal == [cpu |-> 0, mem |-> 0, fs |-> 0]
NoReply == [status |-> "none", samples |-> {}]
Refused == [status |-> "error", samples |-> {}]

Init ==
  /\ up = FALSE
  /\ kubeletClient = NIL
  /\ pc = [r \in Requests |-> "idle"]
  /\ total = [r \in Requests |-> NoTotal]
  /\ summary = [r \in Requests |-> EmptySummary]
  /\ reply = [r \in Requests |-> NoReply]

Goto(r, label) == pc' = [pc EXCEPT ![r] = label]

(*------------------------------ the start --------------------------------*)

NewKubeletClient == "client"

(* The node's InternalIP gives the kubelet client. When the API server     *)
(* does not answer this is logged, the node is empty, and the process      *)
(* serves without a client.                                                *)
Initmetrics ==
  /\ ~up
  /\ up' = TRUE
  /\ \/ kubeletClient' = NewKubeletClient
     \/ APIMayFail /\ kubeletClient' = NIL
  /\ UNCHANGED <<pc, total, summary, reply>>

(*------------------------------- one call --------------------------------*)

GetNode(r) ==
  /\ up
  /\ pc[r] = "idle"
  /\ Goto(r, "node")
  /\ UNCHANGED <<up, kubeletClient, total, summary, reply>>

(* A failed Get is logged and leaves an empty node, whose totals are 0.    *)
ReadAllocatable(r) ==
  /\ pc[r] = "node"
  /\ \/ \E a \in Allocatables :
          total' = [total EXCEPT ![r] =
            [cpu |-> Reading(a.cpu), mem |-> Reading(a.mem), fs |-> Reading(a.fs)]]
     \/ APIMayFail /\ total' = [total EXCEPT ![r] = NoTotal]
  /\ Goto(r, "scrap")
  /\ UNCHANGED <<up, kubeletClient, summary, reply>>

(* mutant: GetSummary tolerates a nil client *)
NilTolerated == FALSE

NilDereferenced == kubeletClient = NIL

(* GetSummary logs a failed request and returns the summary as far as it   *)
(* was filled, empty if nothing came and in part if a field had the wrong  *)
(* type, without an error. Scrap drops the errors of DecodeBatch as well.  *)
Scrap(r) ==
  /\ pc[r] = "scrap"
  /\ ~NilDereferenced
  /\ \/ \E s \in Summaries :
          /\ ~SummaryPanics(s)
          /\ summary' = [summary EXCEPT ![r] = s]
     \/ /\ "unreachable" \in KubeletFaults
        /\ UNCHANGED summary
  /\ Goto(r, "gather")
  /\ UNCHANGED <<up, kubeletClient, total, reply>>

(* A nil client, a summary without an optional field that is dereferenced, *)
(* and an answer that is not JSON: each of them panics.                    *)
ScrapMayPanic ==
  \/ NilDereferenced
  \/ \E s \in Summaries : SummaryPanics(s)
  \/ "garbage" \in KubeletFaults

(* The calls and the client are gone with the process.                     *)
ProcessEnds ==
  /\ up' = FALSE
  /\ kubeletClient' = NIL
  /\ pc' = [r \in Requests |-> "idle"]
  /\ total' = [r \in Requests |-> NoTotal]
  /\ summary' = [r \in Requests |-> EmptySummary]
  /\ reply' = [r \in Requests |-> NoReply]

(* The panic is on the collector's goroutine, where nothing recovers.      *)
Panic(r) ==
  /\ pc[r] = "scrap"
  /\ ScrapMayPanic
  /\ ProcessEnds

(* A fatal query of the other service, or the end of the container.        *)
Killed == up /\ ProcessEnds

(*------------------------------ the reply --------------------------------*)

(* mutant: partial pods keep their place *)
DecodedPodsAll(s) == [i \in 1 .. Len(s.pods) |-> decodePodStats(s.pods[i], ZeroPod)]

(* mutant: the array is not cut to the slots in use *)
DecodedPodsUncut(s) ==
  [i \in 1 .. Len(s.pods) |->
     IF Complete(s.pods[i]) THEN decodePodStats(s.pods[i], ZeroPod) ELSE ZeroPod]

(* The pods of a batch: what DecodeBatch selects of the summary, each at   *)
(* its position there. Their order is kept, and is of no use to Collect.   *)
DecodedPods(s) ==
  [i \in KeptUpTo(s.pods, Len(s.pods)) |-> decodePodStats(s.pods[i], ZeroPod)]

CounterFamilies == {"CPU_Core_Counter", "Memory_Counter", "Storage_Counter",
                    "Network_Gauge", "Network_Counter"}
GaugeFamilies   == {"CPU_Core_Gauge", "Memory_Gauge", "Storage_Gauge"}
Families        == CounterFamilies \cup GaugeFamilies

(* The eight samples of a pod, each a fraction: a gauge is divided by the  *)
(* node's total, and is NaN or infinite when that is 0.                    *)
Usage(point, f) ==
  Reading(CASE f \in {"CPU_Core_Counter", "CPU_Core_Gauge"} -> point.cpu
            [] f \in {"Memory_Counter", "Memory_Gauge"}     -> point.memUsage
            [] f \in {"Storage_Counter", "Storage_Gauge"}   -> point.fsUsed
            [] f = "Network_Gauge"                          -> point.rx
            [] f = "Network_Counter"                        -> point.tx)

Divisor(t, f) == CASE f = "CPU_Core_Gauge" -> t.cpu
                   [] f = "Memory_Gauge"   -> t.mem
                   [] f = "Storage_Gauge"  -> t.fs
                   [] OTHER                -> 1

Samples(pod, t) ==
  {[family |-> f, ref |-> pod.ref, num |-> Usage(pod.point, f), den |-> Divisor(t, f)] :
     f \in Families}

(* Gather fails when two metrics of a family have the same labels.         *)
Repeated(pods) == \E i, j \in DOMAIN pods : i # j /\ pods[i].ref = pods[j].ref

(* json.Marshal fails on NaN and on the infinities.                        *)
Encodable(samples) == \A x \in samples : x.den # 0

AllSamples(pods, t) ==
  UNION {Samples(pods[i], t) : i \in DOMAIN pods}

Reply(r) ==
  /\ pc[r] = "gather"
  /\ \E samples \in {AllSamples(DecodedPods(summary[r]), total[r])} :
       reply' = [reply EXCEPT ![r] =
                   IF Repeated(DecodedPods(summary[r])) \/ ~Encodable(samples) THEN Refused
                   ELSE [status |-> "ok", samples |-> samples]]
  /\ Goto(r, "replied")
  /\ UNCHANGED <<up, kubeletClient, total, summary>>

Finish(r) ==
  /\ pc[r] = "replied"
  /\ Goto(r, "idle")
  /\ total' = [total EXCEPT ![r] = NoTotal]
  /\ summary' = [summary EXCEPT ![r] = EmptySummary]
  /\ reply' = [reply EXCEPT ![r] = NoReply]
  /\ UNCHANGED <<up, kubeletClient>>

Collect(r) == ReadAllocatable(r) \/ Scrap(r)

Next ==
  \/ Initmetrics \/ Killed
  \/ \E r \in Requests : GetNode(r) \/ Collect(r) \/ Panic(r) \/ Reply(r) \/ Finish(r)

(* The kubelet's answer or failure comes at last, a dead container is      *)
(* started again, and not every start finds the API server away. Nobody    *)
(* has to call: the watcher asks those it has listed, and only those.      *)
Fairness ==
  /\ SF_vars(Initmetrics /\ kubeletClient' # NIL)
  /\ WF_vars(Initmetrics)
  /\ \A r \in Requests :
       WF_vars(Collect(r) \/ Panic(r)) /\ WF_vars(Reply(r)) /\ WF_vars(Finish(r))

Spec == Init /\ [][Next]_vars /\ Fairness

-----------------------------------------------------------------------------
CompletePods(s) == {s.pods[i] : i \in KeptUpTo(s.pods, Len(s.pods))}

SampleSet == [family: Families, ref: PodRefs, num: Int64, den: Int64]

TypeOK ==
  /\ up \in BOOLEAN
  /\ kubeletClient \in {NIL, NewKubeletClient}
  /\ pc \in [Requests -> {"idle", "node", "scrap", "gather", "replied"}]
  /\ total \in [Requests -> [cpu: Int64, mem: Int64, fs: Int64]]
  /\ summary \in [Requests -> Summaries \cup {EmptySummary}]
  /\ \A r \in Requests : /\ reply[r].status \in {"none", "ok", "error"}
                         /\ reply[r].samples \subseteq SampleSet

(* A reply has all eight families of every pod whose stats were complete,  *)
(* with the memory the kubelet reported as far as an int64 holds it, and   *)
(* nothing of the others: the metrics of a partial pod are missing, they   *)
(* are not zero (the comment in the loop of DecodeBatch).                  *)
MissingNotZero ==
  \A r \in Requests :
    reply[r].status = "ok" =>
      LET pods == CompletePods(summary[r])
          sent == reply[r].samples
      IN  /\ {<<x.family, x.ref>> : x \in sent} = Families \X {p.ref : p \in pods}
          /\ \A p \in pods : p.mem.usage <= MaxInt64 =>
               \E x \in sent : /\ x.family = "Memory_Counter" /\ x.ref = p.ref
                               /\ x.num = p.mem.usage

(* An agent that was started while the API server was away has no kubelet  *)
(* client and no way to get one: a call kills it, and the next start may   *)
(* give it one. An agent that is called again and again has a client again *)
(* and again. Whether it is called is the watcher's matter: one the        *)
(* watcher never listed may serve without a client for ever.               *)
ClientIfPolled ==
  []<>(\E r \in Requests : pc[r] # "idle") => []<>(kubeletClient # NIL)

(* The documentation of AsInt64: when it returns false callers must use    *)
(* the inf.Dec form; and the helps of the two network families: they are   *)
(* the pod's RX and TX. The counters of a pod that used CPU, received or   *)
(* sent are not 0.                                                         *)
Used(pod, family) ==
  CASE family = "CPU_Core_Counter" -> pod.cpu.usage > 0
    [] family = "Network_Gauge"    -> pod.net # NIL /\ pod.net.rx # NIL /\ pod.net.rx > 0
    [] family = "Network_Counter"  -> pod.net # NIL /\ pod.net.tx # NIL /\ pod.net.tx > 0

UsageReported ==
  \A r \in Requests :
    reply[r].status = "ok" =>
      \A p \in CompletePods(summary[r]),
         f \in {"CPU_Core_Counter", "Network_Gauge", "Network_Counter"} :
        Used(p, f) =>
          \E x \in reply[r].samples : x.family = f /\ x.ref = p.ref /\ x.num # 0
=============================================================================
