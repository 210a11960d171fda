---------------------------- MODULE GPUCollector ----------------------------
(***************************************************************************)
(* The GetGPU service of one agent process: Provider.GetGPU of             *)
(* pkg/collector, the GPUCollector of pkg/worker that the registry calls   *)
(* back, and the NVML library underneath. Every call runs on a goroutine   *)
(* of its own and nothing serialises them: a collection goes on after its  *)
(* client has timed out, and the next poll starts another one beside it.   *)
(*                                                                         *)
(* NVML is one library per process. It counts nvmlInit against             *)
(* nvmlShutdown calls and serves queries only while the count is positive. *)
(* Any failing device query ends the process (klog.Fatalf), all collections*)
(* with it, and anything else in the process may end it (Agent composes    *)
(* this service with the other one); the container is then restarted.      *)
(***************************************************************************)
EXTENDS Integers, FiniteSets

CONSTANTS
  Requests,     \* the calls of GetGPU that may be in flight together
  NumDevices,   \* the GPUs of the node
  Pids,         \* the processes that may use a GPU
  InitMayFail,  \* nvml.Init may fail, the driver not answering
  QueryMayFail, \* a query of an initialised NVML may fail
  ZeroMemory    \* a GPU may report a total memory of 0

ASSUME ConstantsAssumption ==
  /\ IsFiniteSet(Requests)
  /\ IsFiniteSet(Pids)
  /\ NumDevices \in Nat
  /\ InitMayFail \in BOOLEAN
  /\ QueryMayFail \in BOOLEAN
  /\ ZeroMemory \in BOOLEAN

VARIABLES
  isGPU,     \* Provider.IsGPU, from the node's name
  up,        \* the process is running
  refs,      \* NVML's reference count
  initFailed,\* history: an Init has failed in the life of this process
  pc,        \* where each request is
  session,   \* this request's nvml.Init has succeeded, its Shutdown is to come
  dev,       \* the device of the loop in Collect
  out,       \* the metrics sent to the registry: [family, device]
  unfit,     \* history: the request found a GPU whose memory it cannot report
  failing,   \* it sent what Gather or json.Marshal will report as an error
  reply      \* what the caller got

local == <<session, dev, out, unfit, failing, reply>>
vars  == <<isGPU, up, refs, initFailed, pc, session, dev, out, unfit, failing, reply>>

Devices == 1 .. NumDevices

HostFamilies ==
  {"Host_GPU_Core_Gauge", "Host_GPU_Memory_Gauge", "Host_GPU_Power_Gauge",
   "GPU_Temperature", "GPU_Flops", "GPU_Architecture", "GPU_FanSpeed",
   "GPU_Bandwidth", "GPU_Driver_Version"}

ProcessFamilies == {"GPU_Pod_Num", "GPU_Memory_Counter", "GPU_Memory_Gauge"}

Families == HostFamilies \cup ProcessFamilies

Samples(families, d) == [family: families, device: {d}]

Metrics == [family: Families, device: Devices]

NoReply == [status |-> "none", metrics |-> {}]
Refused == [status |-> "error", metrics |-> {}]

Init ==
  /\ isGPU \in BOOLEAN
  /\ up = FALSE
  /\ refs = 0
  /\ initFailed = FALSE
  /\ pc = [r \in Requests |-> "idle"]
  /\ session = [r \in Requests |-> FALSE]
  /\ dev = [r \in Requests |-> 1]
  /\ out = [r \in Requests |-> {}]
  /\ unfit = [r \in Requests |-> FALSE]
  /\ failing = [r \in Requests |-> FALSE]
  /\ reply = [r \in Requests |-> NoReply]

Goto(r, label) == pc' = [pc EXCEPT ![r] = label]

(*------------------------------- the service -----------------------------*)

(* GetGPU refuses on a node without a GPU and else starts a collection.    *)
Refuse(r) ==
  /\ up /\ pc[r] = "idle" /\ ~isGPU
  /\ Goto(r, "replied")
  /\ reply' = [reply EXCEPT ![r] = Refused]
  /\ UNCHANGED <<isGPU, up, refs, initFailed, session, dev, out, unfit, failing>>

Gather(r) ==
  /\ up /\ pc[r] = "idle" /\ isGPU
  /\ Goto(r, "init")
  /\ UNCHANGED <<isGPU, up, refs, initFailed, local>>

(* Gather fails on a metric sent twice, json.Marshal on a NaN or an        *)
(* infinity, and the whole call with them.                                 *)
Reply(r) ==
  /\ pc[r] = "gathered"
  /\ Goto(r, "replied")
  /\ reply' = [reply EXCEPT ![r] =
                 IF failing[r] THEN Refused
                                ELSE [status |-> "ok", metrics |-> out[r]]]
  /\ UNCHANGED <<isGPU, up, refs, initFailed, session, dev, out, unfit, failing>>

(* mutant: the metrics of one call are still there in the next *)
FinishKeepingMetrics(r) ==
  /\ pc[r] = "replied"
  /\ Goto(r, "idle")
  /\ dev' = [dev EXCEPT ![r] = 1]
  /\ reply' = [reply EXCEPT ![r] = NoReply]
  /\ UNCHANGED <<isGPU, up, refs, initFailed, session, out, unfit, failing>>

(* The caller has its answer; the slot serves another call.                *)
Finish(r) ==
  /\ pc[r] = "replied"
  /\ Goto(r, "idle")
  /\ dev' = [dev EXCEPT ![r] = 1]
  /\ out' = [out EXCEPT ![r] = {}]
  /\ unfit' = [unfit EXCEPT ![r] = FALSE]
  /\ failing' = [failing EXCEPT ![r] = FALSE]
  /\ reply' = [reply EXCEPT ![r] = NoReply]
  /\ UNCHANGED <<isGPU, up, refs, initFailed, session>>

(*------------------------- GPUCollector.Collect --------------------------*)

(* A failed Init is logged and the collection goes on.                     *)
NvmlInit(r) ==
  /\ pc[r] = "init"
  /\ \/ /\ refs' = refs + 1
        /\ session' = [session EXCEPT ![r] = TRUE]
        /\ UNCHANGED initFailed
     \/ /\ InitMayFail
        /\ initFailed' = TRUE
        /\ UNCHANGED <<refs, session>>
  /\ Goto(r, "version")
  /\ UNCHANGED <<isGPU, up, dev, out, unfit, failing, reply>>

(* A query fails of an uninitialised NVML, and may fail of any.            *)
QueryFails == refs = 0 \/ QueryMayFail

(* Without the driver version Collect returns, having sent nothing.        *)
SystemGetDriverVersion(r) ==
  /\ pc[r] = "version"
  /\ \/ refs > 0 /\ Goto(r, "count")
     \/ QueryFails /\ Goto(r, "shutdown")
  /\ UNCHANGED <<isGPU, up, refs, initFailed, local>>

(* Without the device count Collect goes on with 0 devices.                *)
DeviceGetCount(r) ==
  /\ pc[r] = "count"
  /\ \/ refs > 0 /\ NumDevices > 0 /\ Goto(r, "device")
     \/ (QueryFails \/ NumDevices = 0) /\ Goto(r, "shutdown")
  /\ UNCHANGED <<isGPU, up, refs, initFailed, local>>

(* The handle and the thirteen other queries of one device, then its nine  *)
(* host metrics.                                                           *)
QueryDevice(r) ==
  /\ pc[r] = "device"
  /\ refs > 0
  /\ out' = [out EXCEPT ![r] = @ \cup Samples(HostFamilies, dev[r])]
  /\ failing' = [failing EXCEPT
                    ![r] = @ \/ out[r] \cap Samples(HostFamilies, dev[r]) # {}]
  /\ Goto(r, "process")
  /\ UNCHANGED <<isGPU, up, refs, initFailed, session, dev, unfit, reply>>

(* mutant: the device's own number is not advanced *)
SameDevice(r) == dev[r]

NextDevice(r) == dev[r] + 1

(* mutant: the loop over the devices ends one early *)
LastDeviceEarly(r) == NextDevice(r) >= NumDevices

(* mutant: the loop over the devices ends one late *)
LastDeviceLate(r) == dev[r] > NumDevices

LastDevice(r) == dev[r] >= NumDevices

(* GetGPUProcess takes two snapshots, of the compute processes and of the  *)
(* MPS ones, and merges them by pid. The memory families are sent once per *)
(* pid, with the labels of the device alone, and the gauge is divided by   *)
(* the device's total memory.                                              *)
GetGPUProcess(r) ==
  /\ pc[r] = "process"
  /\ refs > 0
  /\ out' = [out EXCEPT ![r] = @ \cup Samples(ProcessFamilies, dev[r])]
  /\ \E compute, mps \in SUBSET Pids, noTotal \in {FALSE, ZeroMemory} :
       LET users     == compute \cup mps
           several   == \E p, q \in users : p # q
           undivided == noTotal /\ users # {}
       IN  /\ unfit' = [unfit EXCEPT ![r] = @ \/ several \/ undivided]
           /\ failing' = [failing EXCEPT
                 ![r] = \/ @ \/ several \/ undivided
                        \/ out[r] \cap Samples(ProcessFamilies, dev[r]) # {}]
  /\ dev' = [dev EXCEPT ![r] = NextDevice(r)]
  /\ Goto(r, IF LastDevice(r) THEN "shutdown" ELSE "device")
  /\ UNCHANGED <<isGPU, up, refs, initFailed, session, reply>>

(* nvml.Shutdown takes a reference whoever's it is; at 0 there is none.    *)
Released(r) == IF refs > 0 THEN refs - 1 ELSE 0

(* mutant: Shutdown is skipped when the collection sent nothing *)
ShutdownUnlessEmpty(r) ==
  /\ pc[r] = "shutdown"
  /\ refs' = IF out[r] = {} THEN refs ELSE Released(r)
  /\ session' = [session EXCEPT ![r] = FALSE]
  /\ Goto(r, "gathered")
  /\ UNCHANGED <<isGPU, up, initFailed, dev, out, unfit, failing, reply>>

(* The deferred Shutdown runs on every return of Collect, whether or not   *)
(* its Init has succeeded.                                                 *)
NvmlShutdown(r) ==
  /\ pc[r] = "shutdown"
  /\ refs' = Released(r)
  /\ session' = [session EXCEPT ![r] = FALSE]
  /\ Goto(r, "gathered")
  /\ UNCHANGED <<isGPU, up, initFailed, dev, out, unfit, failing, reply>>

(*----------------------------- the process -------------------------------*)

Start ==
  /\ ~up
  /\ up' = TRUE
  /\ UNCHANGED <<isGPU, refs, initFailed, pc, local>>

(* No deferred call runs, the calls are dropped, and NVML's count with     *)
(* them.                                                                   *)
ProcessEnds ==
  /\ up' = FALSE
  /\ refs' = 0
  /\ initFailed' = FALSE
  /\ pc' = [r \in Requests |-> "idle"]
  /\ session' = [r \in Requests |-> FALSE]
  /\ dev' = [r \in Requests |-> 1]
  /\ out' = [r \in Requests |-> {}]
  /\ unfit' = [r \in Requests |-> FALSE]
  /\ failing' = [r \in Requests |-> FALSE]
  /\ reply' = [r \in Requests |-> NoReply]
  /\ UNCHANGED isGPU

(* klog.Fatalf on a failing device query.                                  *)
Fatal(r) ==
  /\ pc[r] \in {"device", "process"}
  /\ QueryFails
  /\ ProcessEnds

(* Another goroutine's panic, or the end of the container.                 *)
Killed == up /\ ProcessEnds

Collect(r) ==
  \/ NvmlInit(r) \/ SystemGetDriverVersion(r) \/ DeviceGetCount(r)
  \/ QueryDevice(r) \/ GetGPUProcess(r) \/ NvmlShutdown(r)

Next ==
  \/ Start \/ Killed
  \/ \E r \in Requests :
       Refuse(r) \/ Gather(r) \/ Collect(r) \/ Fatal(r) \/ Reply(r) \/ Finish(r)

(* The goroutine of a request is scheduled again and again, a reply is     *)
(* taken and a dead container restarted. Nobody has to call.               *)
Fairness ==
  /\ WF_vars(Start)
  /\ \A r \in Requests :
       WF_vars(Collect(r) \/ Fatal(r)) /\ WF_vars(Reply(r)) /\ WF_vars(Finish(r))

Spec == Init /\ [][Next]_vars /\ Fairness

-----------------------------------------------------------------------------
Labels == {"idle", "init", "version", "count", "device", "process",
           "shutdown", "gathered", "replied"}

Replies == [status: {"none", "ok", "error"}, metrics: SUBSET Metrics]

TypeOK ==
  /\ isGPU \in BOOLEAN
  /\ up \in BOOLEAN
  /\ refs \in Nat
  /\ initFailed \in BOOLEAN
  /\ pc \in [Requests -> Labels]
  /\ session \in [Requests -> BOOLEAN]
  /\ dev \in [Requests -> 1 .. NumDevices + 1]
  /\ out \in [Requests -> SUBSET Metrics]
  /\ unfit \in [Requests -> BOOLEAN]
  /\ failing \in [Requests -> BOOLEAN]
  /\ reply \in [Requests -> Replies]

Sessions == {r \in Requests : session[r]}

(* As long as no Init has failed, the Init and Shutdown calls of           *)
(* overlapping collections balance on every path out of Collect, the early *)
(* returns and the death of the process included: NVML counts the          *)
(* collections in it.                                                      *)
SessionsCounted == ~initFailed => refs = Cardinality(Sessions)

(* Even if Init fails now and then, no reference outlives the collections: *)
(* when none is running NVML is shut down.                                 *)
ReleasedWhenUnused == refs <= Cardinality(Sessions)

(* What nvml.h asks of its users: nvmlShutdown comes once NVML is no       *)
(* longer being used. No collection that has initialised NVML finds it     *)
(* shut down.                                                              *)
InitialisedWhileUsed == \A r \in Requests : session[r] => refs > 0

(* A reply does not drop a device or a family in silence: either it has    *)
(* all of them, or Collect has returned early and it has none.             *)
CompleteOrEmpty ==
  \A r \in Requests :
    reply[r].status = "ok" => reply[r].metrics \in {{}, Metrics}

(* A collection that comes to its end is refused if it found a GPU that    *)
(* several processes use, or one in use that has no memory to divide by,   *)
(* and for no other reason: whichever calls overlap or precede, no metric  *)
(* is sent twice but those of the memory.                                  *)
RefusedIffUnfit ==
  isGPU =>
    \A r \in Requests :
      pc[r] = "replied" => (reply[r].status = "error" <=> unfit[r])

(* The help of GPU_Pod_Num: it counts the pods that use a GPU. A GPU that  *)
(* several processes use is reported too.                                  *)
SharedGPUsReported ==
  isGPU => \A r \in Requests : pc[r] = "replied" => reply[r].status = "ok"

(* Every call ends, with an answer or with the process, whatever NVML      *)
(* answers to this one and to the others.                                  *)
EachCallEnds == \A r \in Requests : pc[r] # "idle" ~> pc[r] = "idle"
=============================================================================
