# Verification of metric-collector

TLA+ models of KETI's metric collector (`src/cmd`, `src/pkg`), the TLC runs that
check them on small instances, and TLAPS proofs of their main safety properties for
all instances. Source references are to files below `src/`.

## 1. The system

One binary runs on every node of a Kubernetes cluster. The name of the node decides
its role (`cmd/main.go`): a name with "gpu" makes a GPU agent, a name with "master"
makes an agent that is also the watcher, any other name a plain agent.

| Part | Code | State it keeps | Operations |
|---|---|---|---|
| start | `cmd/main.go`, `worker.Initmetrics`, `NewClusterManager` | two registries, the kubelet client (nil if the API server was away) | build the collectors, serve |
| service | `pkg/collector/node.go` | `Provider.IsGPU`, the registries | `GetNode`, `GetGPU`: gather a registry, convert through JSON |
| node collector | `pkg/worker/workers.go` 236-327, 579-608 | none between calls | `Collect`: the node from the API server, the summary from the kubelet, eight samples per pod |
| kubelet client | `pkg/client/kubelet` | the address and token | `GetSummary` |
| decoding | `pkg/decode`, records of `pkg/stats` and `pkg/storage` | the batch being built | `DecodeBatch` and the decoders below it |
| quantities | vendored `apimachinery/pkg/api/resource` | value and scale | `NewScaledQuantity`, `AsInt64` |
| GPU collector | `pkg/worker/workers.go` 329-577, 610-647 | none between calls, but NVML's reference count is one per process | `Collect`: Init, version, count, fourteen queries (the handle is one) and nine samples per device, processes, Shutdown |
| registry | vendored `prometheus` | descriptions; a channel and four goroutines per gathering | `Gather`: run the collector and the one that wraps it, check, sort |
| messages and stubs | `pkg/client/grpc` | | the messages, `GetNode` and `GetGPU` of client and service |
| watcher | `pkg/watcher/watcher.go` | `NodeIPMapper`, read once | `InitWatcher`, `Work`: poll every agent, forever |
| other generated code | `pkg/client/podmap`, `grpc/analysis`; `pkg/client/k8s` | | not reached |

How they interact. The watcher dials an agent, calls `GetGPU` (nodes named "gpu") and
`GetNode`, each with a timeout of one second, prints what it gets, and goes on to the
next node; after all nodes it sleeps ten seconds. gRPC runs each call on a goroutine
of its own. A call gathers a registry, which runs the collector's `Collect` on further
goroutines, and nothing serialises two calls. The client's timeout does not
stop the collection, so collections of successive polls overlap. A node collection
asks the API server and the kubelet, one after the other; a GPU collection uses the
process's one NVML library. A panic or `klog.Fatalf` anywhere ends the process and
every call of both services in it; the container is restarted
(`deploy/deamonset/deamonset.yaml:81`).

What makes it hard: the overlap of collections over NVML's reference count; the
errors dropped at every level between the kubelet and the caller; calls that die with
the process because another one met a fatal error; late answers and collections that
outlive their call; the reused slots of the decoding loop; the goroutines of a
gathering over a channel that fills; integers that lose digits, scale or sign on their
way to a sample. The full list, each at its line, is in `PROJECT.json` under `hazards`.

What makes each part correct:

- *decoding*: the pods with complete stats are kept, in order, each with its own
  values; partial pods are left out, and an error is reported exactly if something
  was partial.
- *node metrics*: a reply has what the kubelet reported of the complete pods and
  nothing else; an agent that is polled comes to have a kubelet client.
- *GPU metrics*: Init and Shutdown balance however collections overlap and fail; NVML
  is released after use; a reply is complete or empty; only a GPU whose memory cannot be
  reported is refused.
- *one agent*: a call that is dropped is dropped with every other one; else each
  service behaves as if it were alone; every call ends.
- *gathering*: an answer is a function of what the collector sent; nobody waits for
  ever on the channel; what is printed side by side is of one source.
- *watcher*: what it prints under a node's name is that node's, and fresh; no agent that
  dies, hangs, fails or moves keeps it from the other nodes; its calls do not make
  collections pile up in an agent.

## 2. The modules

| Module | Models | Notes |
|---|---|---|
| `Quantity` | `uint64Quantity`, `AsInt64` | pure; the width of an int64 is the constant `MaxInt64` |
| `DecodeStats` | the records, `decodeCPU`, `decodeMemory`, `decodeFs`, `getScrapeTime...`, `decodeNodeStats`, `decodePodStats` | pure; a nil pointer is `NIL`, a panic is a predicate of the input |
| `DecodeBatchSpec` | what `DecodeBatch` promises | abstract: one step from summary to result |
| `DecodeBatch` | the loop of `DecodeBatch` | one action per call it makes; implements `DecodeBatchSpec` |
| `GPUCollector` | `GetGPU`, `GPUCollector.Collect`, `GetGPUProcess`, NVML | one action per NVML call or per group of queries of one device |
| `NodeCollector` | `Initmetrics`, `GetNode`, `NodeCollector.Collect`, `Scrap`, `GetSummary` | `DecodeBatch` at its abstract specification |
| `Agent` | the process with both services, `run` | composes `GPUCollector` (EXTENDS) and `NodeCollector` (INSTANCE); implements each |
| `Metrics` | metrics, families, messages; the registry's check and order, the wrapper's label, the getters the watcher reads with | pure |
| `GatheringSpec` | what a call promises of the metrics collected in it | abstract: one step from metrics to answer |
| `Gathering` | `Registry.Gather`, `processMetric`, `wrappingCollector.Collect`, the conversion in `GetNode` and `GetGPU` | one action per send, receive, close, family; implements `GatheringSpec` |
| `Watcher` | `InitWatcher`, `Work`, `GetGPUMetric`, `GetNodeMetric`, and the agents as the watcher meets them | no time; who answers whom |
| `Polling` | the same calls, the stub and the service's description, in seconds | time, deadlines, collections that outlive their call |
| `MC...` | | the finite inputs TLC explores |
| `..._proofs` | | theorems and proofs for `DecodeBatch`, `NodeCollector`, `GPUCollector`, `Agent`, `Gathering`, `Watcher`, `Polling`; `DecodeStats_proofs` has the lemmas on decoders and quantities that the first two share |

Modules are cut where the code is: each takes of its neighbour what that neighbour is
shown to do. `NodeCollector` takes the decoding at `DecodeBatchSpec`. `GPUCollector` and
`NodeCollector` answer in one step, `Reply`, which is what `GatheringSpec` allows and
`Gathering` is shown to do. `Watcher` takes of an agent that it answers with all families
or with none, which is `CompleteOrEmpty` and `MissingNotZero`. `Watcher` and `Polling`
are two views of one loop, of whose metrics are shown and of when.

### DecodeBatch

`slots` is `res.Pods`, `num` the slots in use, `next` the position of the `range`
loop. `DecodeNode` is the call of `decodeNodeStats`, `DecodePod` one turn of the loop
(`Advance` is the `continue` or the `num++`), `Return` the cut of the array,
`Panic` the dereference of a nil pointer in whichever decoder meets it. A record is
decoded by the same functions the code has; the order of the assignments inside one
decoder cannot be observed and is not modelled. `decodeNetwork` is never called, so
the network fields stay zero. Names, error texts and the `Format` of a quantity are
left out. Times are small numbers, 0 being the zero time.

`DecodeBatchSpec` speaks of the summary and the result only. `IsSelection` (of
`DecodeStats`) says that the result holds the complete pods at the positions that count them, each decoded
into a fresh record. The refinement hides the loop: `Result` is "pending" until the
call returns or panics.

### GPUCollector

One process, its NVML with the reference count `refs`, and a set `Requests` of calls
that may be in flight at once; `pc[r]` is where call r is. `NvmlInit` fails or takes a
reference, and goes on either way, as the code does. `QueryDevice` stands for the
queries of one device from `DeviceGetHandleByIndex` to `GetFanSpeed` and its nine
samples, `GetGPUProcess` for the two process snapshots and the samples made of them,
`Fatal` for a `klog.Fatalf` in either. `NvmlShutdown` is the deferred function, which
runs on every return whether or not Init succeeded. `session` is whether the call's own
Init succeeded; `initFailed` and `unfit` are history (an Init has failed in this
process, the call has met a GPU whose memory it cannot report); the three are read by
properties and change no behaviour. A sample
is its family and its device; values are left out, but for the one that cannot be
marshalled: with `ZeroMemory` a GPU may report a total memory of 0, by which the memory
of its processes is divided (`workers.go:548`). `failing` is that a metric was sent
twice, which Gather reports, or is a NaN or an infinity, which `json.Marshal` reports. A query succeeds only while
`refs > 0`; it may fail at any time if `QueryMayFail`. Calls are cut into steps where
another call can come between, and no finer: between two queries of one device
another call's Shutdown could also come, and has the same outcome as one right before
the group, `Fatal`. `Killed` is the end of the process by anybody else.

Left out: `libnvidia-ml` missing on the node (the next NVML call then dies in the
dynamic linker); the count of `dlopen`, which a failed Init raises too, so that
`Close` in Shutdown never closes more than was opened; the write of the versioned
symbols by every Init, which writes the same values again.

### NodeCollector

`Initmetrics` is the start: with the API server away the client stays NIL and the
process serves. `ReadAllocatable` reads the totals, `Scrap` the summary; each may fail
and the code goes on with an empty node or summary. `KubeletFaults` says how the
kubelet may fail: "unreachable" (no answer, or a status that is not OK) and "garbage"
(not JSON, which panics). An answer with a field of the wrong type is logged and the
rest of it kept, so it is one more summary with stats missing. `Reply` is the end of
the gathering and the conversion: repeated labels or a number that JSON cannot hold
refuse the whole call. A sample keeps numerator and denominator; a denominator of 0 is
NaN or an infinity. `Panic` and `Killed` end the process and every call in it. A
configuration that cannot be built makes the process die and start again without any
other effect and is not modelled. The decoding happens inside one step: it touches no
shared state, and what it returns is what `DecodeBatch` is shown to return. `DecodedPods`
names the decoded pods by the positions of their stats; the lemma `AnswerToBatch` proves
that the answer made of them is the one made of the array that `IsSelection` describes.

### Agent

The two services share nothing but the process, `up`. An action of the agent is an
action of one service with the variables of the other unchanged, or one that both take
together: `Run` (`Start` with `Initmetrics`), and the ends, `FatalGPU`, `PanicNode` and
`Stopped`: to the service that did not cause the end it is its `Killed`. That `Agent` implements both specifications is no accident of the conjunctions:
it needs that every end ends both, and that nothing but an end cuts a call short: with a server
that recovered from a panic (the mutant of `ServesNode`), or a failing query that only
made `Collect` return (the mutant of `ServesGPU`), it would not.

### Gathering

One call, from the service's `Gather` to the message. `metrics` is what the collector
sends in this call. The collector is registered through `prometheus.WrapRegistererWith`,
so there are two goroutines on the way: `HandOver` is a send of the collector to the
wrapper over a channel without room (`taken` counts them), `Send` the wrapper's send
into `checkedMetricChan`, that has room for `Capacity` (`sent`, `received`).
`CollectReturns` and `WrapperReturns` end the two, `Close` is the goroutine that waits
for the group. `Receive` is a turn of the loop with `processMetric`; `kept` is
`metricFamiliesByName`, `errs` that an error was appended. `Gathered` leaves the loop
once the channel is closed *and* empty (`Drained`), `Convert` is a family's way through
JSON, `Respond` the reply. `Over` is the end of the call or of the process.

A wrapped metric writes itself with the label `metricType` added, in the order of names:
that is what makes the version of the driver, the family's third label, `Label[3]`
where the watcher reads it (`watcher.go:142`). Families are sorted by their labels
(`Less`), not in the order they were sent. `Ordered` is `sort.Sort`: any enumeration in
which no element comes before one that is below it. The proofs show that there is one,
and that it is the only one for labels and for the metrics of a family.

`CollectAssumption` is what the code makes sure of in all that a collector sends, and TLC
evaluates it on the collections of the run. `Labelled`: `NewDesc` refuses a label name
twice, `wrapDesc` one that is the wrapper's, and `MakeLabelPairs` sorts the pairs by name.
`SameDesc` and `OfVersion`: the metrics of a family are made of one `Desc`, and those of a
collector have the same label names, but for the version of the driver, which has one
more (`workers.go:121-180`, `191-231`). `EachOfEach`: each turn of the loops of `Collect`
sends every family (`workers.go:393-550`, `266-325`).

Two gatherings share the registry alone, which is not written after the start; so one
call is enough, and overlapping calls need no more. The upper bound of collectors'
goroutines is never met with one collector, and the loop's branch that starts another
one is left out with it. All metrics of a family have one `Desc`, so that the checks of
its type and help cannot fail. A hash stands for what is hashed.

### Watcher

`mapper` is `NodeIPMapper`, `todo` what the `range` over it has not come to, `at` the
node of the loop and `kind` the half of its body: "GPU" first if the node's name says
so, then "Node". `Ask` dials, `Answer` and `GiveUp` end the call, `PrintMetrics` is the
printing with the nil check before it, `Panic` the printing of a family that is not in
the reply. `GiveUp` may come at any time, with an agent at work on the call or without:
the second of the timeout, a refused connection and an error are all the same nil
reply. `report` records whose metrics were last printed under a name and `moved` the
nodes whose pod was replaced since the addresses were taken; both are history.

The environment is `addr`, the address of each node's pod, and `serving`. Pods get an
address, lose it and get another, possibly one another pod had before; agents start and
die at any time, also while they serve a call. Who answers a
call is decided when it is made (`Reached`). An empty address is dialled as ":50052",
which gRPC takes for the local host (`determineAuthority`): that is the master's own
agent, in the watcher's process, whose end is the watcher's (`MasterDies`). An agent
that does not collect GPU metrics answers `GetGPU` with an error.

Abstractions: every node has one pod, and the master's is not replaced while it runs
(the watcher would go with it). A configuration that cannot be built leaves a nil
watcher, whose `Work` then panics at once; this is the crash at the start and is left
out. The label the watcher lists pods by (`watcher.go:47`) is not the one of
`deploy/deamonset/deamonset.yaml:54`; the model takes the list to be that of the agents'
pods, or empty when `List` fails.

### Polling

Discrete time: `timer` is what is left of the watcher's sleep or of a call's deadline.
`listed` and `local` are `NodeIPMapper`: the names in it, and those of them whose address
is empty. A call is for a name and of a method, and goes to whoever has the address of
the name (`Holders`): the master for an empty one, as `Watcher` has it, and for another
one any agent that is not the master's, since pods move; so `collections[<<c, n>>]` are
the ages of the collections that call c has under way in agent n. `Ask` makes the call;
`Invoke` is the handler beginning its collection, at any moment of the call's second or
never; `Answered` and `AnsweredTooLate` end a collection with somebody waiting and with
nobody; `GivenUp` is the deadline, or an error before it; `AgentDies` and
`MasterRestarts` end the processes. A restarted master sleeps first, and collections it
has begun elsewhere go on.

`InitWatcher` is the List: it has no deadline and comes back at any time after the sleep,
with any of the names, any of them (but the master's) without an address, or with none.
`AskedInTime` therefore counts from the list on, and says nothing of a watcher whose List
never comes back.

`InFlightBounded` is a bound in an agent: of the calls of one kind that can come to it, by
whichever name, each has at most one collection more under way in it than pauses go into
the longest one. Per name is all the code gives: two names whose addresses come to be one
agent's are asked one right after the other. With addresses that never move an agent has
one name, and the master besides its own those of the pods listed without an address.

Idealisations. The watcher's own computing takes no time (`NothingDue` lets no time pass
in "round"). A request that reaches its agent does so before its deadline, which gRPC
sends along. `Longest`, what a collection may take, is an assumption
on the environment: the request to the kubelet has no timeout (`kubeletclient.go:88`),
and against a kubelet that accepts and never answers nothing bounds the collections. A
pod that is not bound to a node yet is listed under an empty name; it would be one more
name without an address.

## 3. The runs

| Run | Bounds | Shows |
|---|---|---|
| `decode_batch` | up to 4 pods from 6 that are complete, partial in each way, without time, panicking; 240 node records with 0 or 1 pods | types and bounds of the loop, `KeptPodsInOrder`, and `SelectsCompletePods`: the loop implements the abstract selection |
| `agent` | 2 calls of `GetGPU`, 1 of `GetNode`, 2 devices, 2 processes, a total memory that may be 0; Init, queries, API server and kubelet may fail, both services may end the process | types, `SessionsCounted`, `ReleasedWhenUnused`, `CompleteOrEmpty`, `RefusedIffUnfit`, `DroppedTogether`, `EachCallEnds` (liveness), and `ServesGPU`, `ServesNode`: the agent implements each service with its fairness |
| `node_replies` | 2 calls, 6 pod lists, 2 nodes, every fault | types, `MissingNotZero`, and `ClientIfPolled` (liveness): an agent that is called again and again has a kubelet client again and again |
| `gathering` | 7 collections of up to 7 metrics (none, one and two GPUs in either order, shared before and after, a NaN); a channel of 2 | types, `OneSource`, `AnswersAtOnce`: it implements `GatheringSpec`, and `GatherReturns` (liveness) |
| `watcher` | a master, a GPU node and a worker, 3 addresses; pods are replaced, agents and master die, the list may fail | types, `ReportsAttributed`, and `EachNodeAsked` (liveness) |
| `polling` | a master, a node and a GPU node (4 calls by name and method); sleeps of 2, a timeout of 1, collections of up to 2; every list of them, with and without addresses, that pass from one to the other | types, `InFlightBounded`, `ShownFresh`, `AskedInTime` |

and six runs that show a disagreement between the code and what the repository says
of it (`findings` in `PROJECT.json`):

| Run | The code | What it contradicts |
|---|---|---|
| `node_usage` | CPU metrics are always 0 (a quantity of scale -9 is never read by `AsInt64`, and the flag that says so is dropped), network metrics too (`decodeNetwork` is never called) | the documentation of `AsInt64`, the metrics' helps |
| `decode_node` | a partial node keeps its data point, zeros included | the comment at `decode.go:40` |
| `decode_optional` | optional fields are dereferenced unchecked | `+optional` in `stats.go` |
| `gpu_shared` | two processes on a GPU make the call fail | the help of `GPU_Pod_Num` |
| `gpu_shutdown` | a failed Init is followed by Shutdown all the same | `nvml.h:2275`, `2335` |
| `watcher_names` | a pod that was pending when the addresses were taken is polled at the local host, and the master's metrics are printed under its node's name | what `watcher.go:126` prints above them |

Why the bounds are enough. Two calls of a service show every pair of steps that can
interfere, and a call of the other one the ends that come from outside. Two devices have a
first, a last and a step between them; a loop of one would hide an early end. Two
processes are the least that share a GPU. Four pods let a partial pod come before,
between and after complete ones, and leave values in a slot that is used again.
`MaxInt64 = 15` has values below it, above it, and above it such that reading them back
wraps. A channel of two is full with a metric in the wrapper's hand and one in the
collector's, and has a state between full and empty; the collections are longer than it.
The nodes of the watcher are one of each kind it tells apart; an address can be without
an owner, another pod's, or one's own of before. `Polling` has an agent beside the master whose address another one can
get, and both methods; what matters of the times is how they compare: a pause is longer
than a call and no longer than the sleep at the start, and a longest collection of one
pause lets two of a call run at once, the bound `InFlightBounded` gives. (With a master
and a GPU node TLC also passes the code's own times, 10, 10 and 1, and collections
of 20.) Deadlock is checked everywhere but in the decoding runs,
where the call ends.

Addresses are interchangeable and the master's stays, so the run `watcher` starts with
the master at `a1` (`MCSpec`); every other start is one of these renamed. No symmetry
sets are used, since the runs have liveness.

Fairness. `GPUCollector`: weak fairness of each call's steps (a goroutine is
scheduled), of taking the reply, and of the restart (`restartPolicy: Always`); nobody
has to call. `NodeCollector`: the same for the steps of a call, which takes the API
server's and the kubelet's answer or failure to come at last (the kubelet request has
no timeout: see the hazards); and strong fairness of a start that finds the API server,
because it is not away at every start. Here too nobody has to call: the watcher asks
only those it has listed, so `ClientIfPolled` has the calls as its premise. `Agent`: the same of the actions that compose them; the
goroutine of a call is one fair action, from its begin to its end. `Gathering`: weak
fairness of each of its four goroutines, and of nothing else. `Watcher`: weak fairness
of the master's start (again `restartPolicy`), of the loop's own steps, and of giving
up, since each call has a deadline; pods and agents need do nothing. `Polling` states
its deadlines as safety and has no fairness.

## 4. The proofs

TLAPS proves, for every value of the constants under the assumptions the modules name
(`ConstantsAssumption`, `SummariesAssumption`, `NilAssumption`, `MaxInt64Assumption`,
`NodeAssumption`, `MetricsAssumption`, `CollectAssumption`, `CapacityAssumption`; TLC
evaluates them on every run). Every invariant and every action property that a passing
run checks is the property of one of these theorems:

- `GPUCollector_proofs`: `TypeCorrect`, `SessionsAlwaysCounted`, `NvmlReleased`,
  `RepliesCompleteOrEmpty`, `OnlyUnfitGPUsRefused`, and `InitialisedUnlessInitFailed`:
  as long as no Init has failed, NVML is never shut down under a collection. Together
  with the run `gpu_shutdown` this says that the failing Init is the *only* way to that
  violation; `OnlyUnfitGPUsRefused` says of `gpu_shared` that a shared GPU, or one in use
  with no memory to divide by, is the only way to it.
- `NodeCollector_proofs`: `TypeCorrect` and `MissingIsNotZero`: for any summaries, totals
  and overlapping calls, a reply has every family of every complete pod and of no other,
  with the memory the kubelet reported as far as an int64 holds it. `UsageNeverReported` says how far the violation of `node_usage`
  goes: *no* reply ever has a CPU or network value other than 0.
- `Agent_proofs`: `AgentServesBoth` (each step of the agent is one of each service or
  leaves it alone), `GPUServiceInAgent` and `NodeServiceInAgent` (so all of the above
  holds in the agent), and `NoCallDroppedAlone`.
- `DecodeBatch_proofs`: `TypeCorrect` (the loop stays within its array),
  `CompletePodsInOrder`, and `LoopSelectsCompletePods`: DecodeBatch implements
  DecodeBatchSpec. `OnlyDereferencedFieldsPanic`: of the optional fields it is
  `UsageBytes` of the memory and `AvailableBytes` and `CapacityBytes` of a file system
  that may not be missing, and no others (`decode_optional`); `OnlyMissingTimeDiscards`:
  a node's data point is discarded if its stats have no time, and for no other error
  (`decode_node`).
- `Gathering_proofs`: `TypeCorrect`, `NoSendAfterClose`, `GatherAnswersAtOnce`: Gathering
  implements GatheringSpec for any collections, channel and turns of the goroutines; and
  `PrintedOfOneSource`: what the watcher prints of an answer is of one GPU, or of one pod,
  whatever the labels are and in whichever order the metrics were sent.
- `Watcher_proofs`: `TypeCorrect` and `ReportsFromTheirNode`: for
  any nodes and addresses, a node's report is its own, or the master's if it had no
  address when the addresses were taken, unless its pod was replaced. With the run
  `watcher_names` this says that the pending pod is the only way to that misattribution.
- `Polling_proofs`: `TypeCorrect`, `ShownInTime`, and `CollectionsBounded`: for any
  nodes, lists, addresses, sleeps and timeout, the collections of a kind under way in an
  agent are, for each name it can be asked under, at most one more than the pauses in the
  longest one; and `AskedAgainInTime`: from the list to the first question to a name, and
  from one to the next, it takes at most a pause and the timeouts of two rounds less one.

The argument for NVML's count. `SessionsCounted` and `ReleasedWhenUnused` compare the
count with the number of calls that hold a session; neither is inductive, since a step
changes both. The strengthening says at which labels a call may hold a session, and,
while no Init has failed, that it holds one at all of them; a step of call r then adds or
removes r from the set of sessions just when it changes the count, and the cardinality
follows from the theorems on finite sets.

The argument for complete replies. `out[r]` is not described by any property while the
loop runs; the invariant says that at device d it holds every family of the devices
before d (and the host families of d once they are sent), so that at the end of the
loop it is everything, while the early returns leave it empty. The same description
shows that no sample was there before it was sent, so that only the memory of a GPU with
several processes, or without a total, makes the reply fail (`FailureInv`).

The argument for the agent. A case for each of its actions: those of one service leave
the variables of the other as they are, `up` included, so that the invariants of
`GPUCollector` carry over. For the node service, `NodeCollector_proofs` is instantiated
beside the instance the agent is made of. The two read the same (`SameInit`, and
`SameNext` action by action), so the inductive step of `NodeCollector` applies to the
agent's steps; `NoCallDroppedAlone` needs only the labels its calls are at.

The argument for the node's replies. `Typed` says that a call past `Scrap` holds a summary
that the kubelet may send and that does not panic, or the empty one; `Answered`, that a
successful reply is the answer to its own call's summary and totals. The rest is about the
answer. Each place of the array is that of one complete pod (`KeptPlaces`), whose record
is its own (`DecodedPod`); a count up to `MaxInt64` is read back as it was
(`BytesReadBack`), and a quantity of scale -9 is read as 0 whatever it holds
(`NanoNeverRead`).

The argument for the decoding. `KeptPodsInOrder` describes the slots below `num`;
the positions that count complete pods are strictly increasing along the pods, so the
slot a pod is written to lies above all those that are described, and a partial pod's
slot stays undescribed. The inductive invariant adds the progress of node, errors and
panics through the loop, which the refinement needs: at `Return` no pod has panicked
and the errors are those of the whole summary.

The argument for the gathering. `Processed` says what the loop has made of the metrics
received so far: the hashes seen are theirs, an error means that two of the collection
agree, and without one all were kept and none agree. `Stages` ties the call to the
channel: once the wrapper has returned everything was sent, so that at `Drained`
everything was received, and the families converted so far have no NaN. The one step of
`GatheringSpec` is whichever step replies.

The argument for the source. The answer is made with sorts, and before anything can be
said of it they need to have one outcome: a finite set with a strict total order has an
enumeration in its order (`EnumerationExists`) and no other one (`EnumerationUnique`). So
the label the wrapper writes is the collector's with one pair put in its place
(`WrittenLabel`), which is the same place for all metrics (`OnePlace`); comparing two
written labels is comparing those of the collector (`LessOfLabels`), a strict total order
within a family without repeated metrics (`FamilyOrder`). The first metric of a family is
the least one. Two families are sent for the same GPUs, so their least metrics agree in
the labels they share (`FirstsOfOneSource`). The invariant adds to this only that a reply
is the answer to the metrics of its own call.

The argument for the reports. A report is copied from a reply, a reply from a call, a
call goes to whoever owns the address of the snapshot, and between the snapshot and the
print all the agents may have come and gone. The invariant `Attribution` holds the whole
chain together: no two pods have the same address; an address of the snapshot is still
its node's, unless the node's pod was replaced; and a call in
progress, a reply and a report each come from the node the loop is at, or from the
master where the snapshot's address is empty.

The argument for the polling. Collections of one call in one agent are bounded because
they begin a pause apart (`Running`), whichever agents its other collections went to; that
is inductive only with `Apart`: what the watcher still sleeps makes up
for what is missing to a pause since it last asked, and a call still to be made in
this round has no collection younger than a pause. A restart resets the timer to a sleep no shorter
than the pause (the assumption `Pause <= StartUp`; with the mutant that starts the
watcher at once the bound is violated). The collections in an agent are those of the
calls that can come to it, as many times that bound (`InFlightBound`). `Own` says that
the newest collection of the
call at hand began within its second, from which freshness follows. For `AskedInTime`,
`OnTime` bounds the time since a call was made and what is left of the timer by what the
round has spent, a timeout for each call made in it; the calls of a round are finitely
many because `NodeIPMapper` is a map.

Only model-checked: the liveness properties `EachCallEnds`, `ClientIfPolled`,
`GatherReturns` and `EachNodeAsked`, and the fairness that `ServesGPU` and `ServesNode`
promise of the agent's services (their initial states and steps are proved):
fairness and ENABLED are beyond the prover. Each of the six violations has a theorem that
says how far it goes (`InitialisedUnlessInitFailed`, `OnlyUnfitGPUsRefused`,
`ReportsFromTheirNode`, `UsageNeverReported`, `OnlyDereferencedFieldsPanic`,
`OnlyMissingTimeDiscards`).

## 5. Not modelled

- `GetMultiMetric`, `StartGRPCServer`, and with them `grpc/analysis`; `podmap`, whose
  client is commented out in `Collect`; `pkg/client/k8s`: not reached from `main`.
- Generated code beyond the messages, stub and handlers in use: reflection,
  descriptors and the wire format. Interceptors are not used.
- The texts: what is printed, formats, logs, HTTP headers and TLS, the names of
  architectures (`ConvertGPUArchtoString`), and the values of GPU metrics. No property
  is about them.
- Stats of containers, accelerators, volumes, the runtime and rlimits: the code does
  not decode them.
- Of the registry: pedantic and unchecked collectors, several collectors, collisions of
  hashes, labels that are no UTF-8, summaries and histograms.
- That `Scrap` drops the errors of a scrape, that a failed `List` leaves the watcher
  without nodes, that a reply without metrics panics it, and that a pod listed twice or a
  total that was not read refuses the whole call, are in the models and have no property:
  nothing in the repository says otherwise.

## 6. Plan

Done: all modules of section 2 and the proofs of every safety property of their runs.
What may follow:
`GPUCollector` and `NodeCollector` answer in one step, `Reply`, which `Gathering` is shown
to do for metrics; what remains is to map their samples to metrics and to state `Reply`
as an instance of `GatheringSpec`.
