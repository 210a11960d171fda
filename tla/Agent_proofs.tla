---------------------------- MODULE Agent_proofs ----------------------------
(***************************************************************************)
(* The two services in one process: each step of the agent is a step of    *)
(* each service or leaves it as it is, so that what was proved of          *)
(* GPUCollector alone holds beside the node service and its panics, and    *)
(* what was proved of NodeCollector beside fatal queries.                  *)
(***************************************************************************)
EXTENDS Agent, GPUCollector_proofs

LEMMA AgentStepOfGPU == [AgentNext]_agentVars => [Next]_vars
<1> SUFFICES ASSUME [AgentNext]_agentVars PROVE [Next]_vars
  OBVIOUS
<1>1. CASE Run
  BY <1>1 DEF Run, Next
<1>2. CASE Stopped
  BY <1>2 DEF Stopped, Next
<1>3. ASSUME NEW r \in Requests, GetGPU(r) \/ ServeGPU(r) PROVE Next
  BY <1>3 DEF GetGPU, ServeGPU, CollectGPU, FatalGPU, ReplyGPU, FinishGPU, Next
<1>4. ASSUME NEW q \in NodeRequests,
             GetNode(q) \/ CollectNode(q) \/ ReplyNode(q) \/ FinishNode(q)
      PROVE  UNCHANGED vars
  <2>1. UNCHANGED otherGPU
    BY <1>4 DEF GetNode, CollectNode, ReplyNode, FinishNode
  <2>2. UNCHANGED up
    BY <1>4 DEF GetNode, CollectNode, ReplyNode, FinishNode, Node!GetNode, Node!Collect,
                Node!ReadAllocatable, Node!Scrap, Node!Reply, Node!Finish
  <2> QED
    BY <2>1, <2>2 DEF otherGPU, gpuVars, vars
<1>5. ASSUME NEW q \in NodeRequests, PanicNode(q) PROVE Next
  BY <1>5 DEF PanicNode, Next
<1>6. CASE UNCHANGED agentVars
  BY <1>6 DEF agentVars, gpuVars, vars
<1> QED
  BY <1>1, <1>2, <1>3, <1>4, <1>5, <1>6 DEF AgentNext, ServeNode

LEMMA AgentStepOfNode == [AgentNext]_agentVars => [Node!Next]_(Node!vars)
<1> SUFFICES ASSUME [AgentNext]_agentVars PROVE [Node!Next]_(Node!vars)
  OBVIOUS
<1>1. CASE Run
  BY <1>1 DEF Run, Node!Next
<1>2. CASE Stopped
  BY <1>2 DEF Stopped, Node!Next
<1>3. ASSUME NEW q \in NodeRequests, GetNode(q) \/ ServeNode(q) PROVE Node!Next
  BY <1>3 DEF GetNode, ServeNode, CollectNode, PanicNode, ReplyNode, FinishNode, Node!Next
<1>4. ASSUME NEW r \in Requests, GetGPU(r) \/ CollectGPU(r) \/ ReplyGPU(r) \/ FinishGPU(r)
      PROVE  UNCHANGED Node!vars
  <2>1. UNCHANGED nodeVars
    BY <1>4 DEF GetGPU, CollectGPU, ReplyGPU, FinishGPU
  <2>2. UNCHANGED up
    BY <1>4 DEF GetGPU, CollectGPU, ReplyGPU, FinishGPU, Refuse, Gather, Collect, NvmlInit,
                SystemGetDriverVersion, DeviceGetCount, QueryDevice, GetGPUProcess,
                NvmlShutdown, Reply, Finish
  <2> QED
    BY <2>1, <2>2 DEF nodeVars, Node!vars
<1>5. ASSUME NEW r \in Requests, FatalGPU(r) PROVE Node!Next
  BY <1>5 DEF FatalGPU, Node!Next
<1>6. CASE UNCHANGED agentVars
  BY <1>6 DEF agentVars, nodeVars, Node!vars
<1> QED
  BY <1>1, <1>2, <1>3, <1>4, <1>5, <1>6 DEF AgentNext, ServeGPU

(* The agent implements both services: it serves GetGPU as GPUCollector    *)
(* says and GetNode as NodeCollector says, each of them being to the other *)
(* no more than a process that may end at any time.                        *)
THEOREM AgentServesBoth ==
  AgentSpec => /\ Init /\ [][Next]_vars
               /\ Node!Init /\ [][Node!Next]_(Node!vars)
<1>1. AgentInit => Init /\ Node!Init
  BY DEF AgentInit
<1> QED
  BY <1>1, AgentStepOfGPU, AgentStepOfNode, PTL DEF AgentSpec

-----------------------------------------------------------------------------
(* Beside a node service that panics, NVML's count is that of the          *)
(* collections as long as no Init has failed, no reference is leaked, and  *)
(* no reply drops a part of the metrics or is refused without reason.      *)
THEOREM GPUServiceInAgent ==
  AgentSpec => [](/\ TypeOK
                  /\ SessionsCounted /\ ReleasedWhenUnused
                  /\ CompleteOrEmpty /\ RefusedIffUnfit)
<1> DEFINE IInv == TypeInv /\ SessionInv /\ FailureInv
<1>1. AgentInit => IInv
  BY TypeInit, SessionInit, FailureInit DEF AgentInit
<1>2. IInv /\ [AgentNext]_agentVars => IInv'
  BY AgentStepOfGPU, TypeStep, SessionStep, FailureStep
<1>3. IInv => /\ TypeOK
              /\ SessionsCounted /\ ReleasedWhenUnused
              /\ CompleteOrEmpty /\ RefusedIffUnfit
  BY DEF TypeInv, SessionInv, FailureInv, Progress, SessionsCounted, ReleasedWhenUnused,
         CompleteOrEmpty, RefusedIffUnfit
<1> QED
  BY <1>1, <1>2, <1>3, PTL DEF AgentSpec

-----------------------------------------------------------------------------
(* A request of the node service is where the last step left it.           *)
NodeTyped == nodePc \in [NodeRequests -> {"idle", "node", "scrap", "gather", "replied"}]

LEMMA NodeTypedStep == NodeTyped /\ [AgentNext]_agentVars => NodeTyped'
<1> SUFFICES ASSUME NodeTyped, [Node!Next]_(Node!vars) PROVE NodeTyped'
  BY AgentStepOfNode
<1>1. CASE Node!Initmetrics
  BY <1>1 DEF NodeTyped, Node!Initmetrics
<1>2. CASE Node!ProcessEnds
  BY <1>2 DEF NodeTyped, Node!ProcessEnds
<1>3. ASSUME NEW q \in NodeRequests,
             Node!GetNode(q) \/ Node!Collect(q) \/ Node!Reply(q) \/ Node!Finish(q)
      PROVE  NodeTyped'
  <2>1. \E label \in {"idle", "node", "scrap", "gather", "replied"} :
          nodePc' = [nodePc EXCEPT ![q] = label]
    BY <1>3 DEF Node!GetNode, Node!Collect, Node!ReadAllocatable, Node!Scrap, Node!Reply,
                Node!Finish, Node!Goto
  <2> QED
    BY <2>1 DEF NodeTyped
<1>4. CASE UNCHANGED Node!vars
  BY <1>4 DEF NodeTyped, Node!vars
<1> QED
  BY <1>1, <1>2, <1>3, <1>4 DEF Node!Next, Node!Panic, Node!Killed

(* What the end of the process does to the calls of both services.         *)
AllEnd == /\ ~up'
          /\ \A r \in Requests : pc'[r] = "idle" /\ ~session'[r]
          /\ \A q \in NodeRequests : nodePc'[q] = "idle"

LEMMA EndsTogether == ProcessEnds /\ Node!ProcessEnds => AllEnd
  BY DEF ProcessEnds, Node!ProcessEnds, AllEnd

LEMMA DroppedStep ==
  TypeInv /\ NodeTyped /\ [AgentNext]_agentVars => (Dropped => AllEnd)
<1> SUFFICES ASSUME TypeInv, NodeTyped, [AgentNext]_agentVars PROVE Dropped => AllEnd
  OBVIOUS
<1> USE DEF TypeInv, TypeOK, NodeTyped
<1>1. CASE Run
  BY <1>1 DEF Run, Start, Node!Initmetrics, Dropped
<1>2. CASE Stopped
  BY <1>2, EndsTogether DEF Stopped, Killed, Node!Killed
<1>3. ASSUME NEW r \in Requests, GetGPU(r) \/ CollectGPU(r) \/ ReplyGPU(r) \/ FinishGPU(r)
      PROVE  ~Dropped
  <2>1. UNCHANGED nodePc
    BY <1>3 DEF GetGPU, CollectGPU, ReplyGPU, FinishGPU, nodeVars
  <2>2. \E label \in Labels :
          /\ pc' = [pc EXCEPT ![r] = label]
          /\ label = "idle" => pc[r] = "replied"
    BY <1>3 DEF GetGPU, CollectGPU, ReplyGPU, FinishGPU, Refuse, Gather, Collect, NvmlInit,
                SystemGetDriverVersion, DeviceGetCount, QueryDevice, GetGPUProcess,
                NvmlShutdown, Reply, Finish, Goto, Labels
  <2> QED
    BY <2>1, <2>2 DEF Dropped
<1>4. ASSUME NEW r \in Requests, FatalGPU(r) PROVE AllEnd
  BY <1>4, EndsTogether DEF FatalGPU, Fatal, Node!Killed
<1>5. ASSUME NEW q \in NodeRequests,
             GetNode(q) \/ CollectNode(q) \/ ReplyNode(q) \/ FinishNode(q)
      PROVE  ~Dropped
  <2>1. UNCHANGED pc
    BY <1>5 DEF GetNode, CollectNode, ReplyNode, FinishNode, otherGPU, gpuVars
  <2>2. \E label \in {"idle", "node", "scrap", "gather", "replied"} :
          /\ nodePc' = [nodePc EXCEPT ![q] = label]
          /\ label = "idle" => nodePc[q] = "replied"
    BY <1>5 DEF GetNode, CollectNode, ReplyNode, FinishNode, Node!GetNode, Node!Collect,
                Node!ReadAllocatable, Node!Scrap, Node!Reply, Node!Finish, Node!Goto
  <2> QED
    BY <2>1, <2>2 DEF Dropped
<1>6. ASSUME NEW q \in NodeRequests, PanicNode(q) PROVE AllEnd
  BY <1>6, EndsTogether DEF PanicNode, Node!Panic, Killed
<1>7. CASE UNCHANGED agentVars
  BY <1>7 DEF agentVars, gpuVars, nodeVars, Dropped
<1> QED
  BY <1>1, <1>2, <1>3, <1>4, <1>5, <1>6, <1>7 DEF AgentNext, ServeGPU, ServeNode

(* A call of either service is dropped without an answer only together     *)
(* with every other call of both: nothing but the end of the process does  *)
(* it, and that leaves no collection and no session of NVML behind.        *)
THEOREM NoCallDroppedAlone == AgentSpec => DroppedTogether
<1>1. AgentInit => TypeInv /\ NodeTyped
  BY TypeInit DEF AgentInit, Node!Init, NodeTyped
<1>2. TypeInv /\ NodeTyped /\ [AgentNext]_agentVars => (TypeInv /\ NodeTyped)'
  BY AgentStepOfGPU, TypeStep, NodeTypedStep
<1>3. TypeInv /\ NodeTyped /\ [AgentNext]_agentVars =>
        [Dropped => /\ ~up'
                    /\ \A r \in Requests : pc'[r] = "idle" /\ ~session'[r]
                    /\ \A q \in NodeRequests : nodePc'[q] = "idle"]_agentVars
  BY DroppedStep DEF AllEnd
<1> QED
  BY <1>1, <1>2, <1>3, PTL DEF AgentSpec, DroppedTogether

-----------------------------------------------------------------------------
(* The node service once more, with what was proved of it. It is the text  *)
(* Agent has as Node; the lemmas compare the definitions its steps use.    *)
Service == INSTANCE NodeCollector_proofs
             WITH Requests <- NodeRequests, pc <- nodePc, reply <- nodeReply

LEMMA SamePanics == \A s : Node!SummaryPanics(s) <=> Service!SummaryPanics(s)
BY DEF Node!SummaryPanics, Service!SummaryPanics, Node!NodePanics, Service!NodePanics,
       Node!PodPanics, Service!PodPanics, Node!MemoryPanics, Service!MemoryPanics,
       Node!FsPanics, Service!FsPanics, Node!MemoryMissing, Service!MemoryMissing,
       Node!FsMissing, Service!FsMissing, Node!NodeTime, Service!NodeTime, Node!PodTime, Service!PodTime,
       Node!getScrapeTimePod, Service!getScrapeTimePod,
       Node!getScrapeTimeNode, Service!getScrapeTimeNode, Node!EarliestTime, Service!EarliestTime

LEMMA SamePods == \A s : Node!DecodedPods(s) = Service!DecodedPods(s)
BY DEF Node!DecodedPods, Service!DecodedPods, Node!KeptUpTo, Service!KeptUpTo,
       Node!Complete, Service!Complete, Node!PodErrs, Service!PodErrs, Node!PodTime, Service!PodTime,
       Node!getScrapeTimePod, Service!getScrapeTimePod, Node!EarliestTime, Service!EarliestTime,
       Node!CPUMissing, Service!CPUMissing, Node!MemoryMissing, Service!MemoryMissing,
       Node!FsMissing, Service!FsMissing,
       Node!decodePodStats, Service!decodePodStats, Node!FreshSlot, Service!FreshSlot,
       Node!ZeroPod, Service!ZeroPod, Node!ZeroPoint, Service!ZeroPoint, Node!Stamped, Service!Stamped,
       Node!decodeCPU, Service!decodeCPU, Node!decodeMemory, Service!decodeMemory,
       Node!decodeFs, Service!decodeFs, Node!Bytes, Service!Bytes, Node!Nano, Service!Nano,
       Node!uint64Quantity, Service!uint64Quantity, Node!ZeroQuantity, Service!ZeroQuantity,
       Node!WrapInt64, Service!WrapInt64

LEMMA SameSamples == \A pods, t : Node!AllSamples(pods, t) = Service!AllSamples(pods, t)
BY DEF Node!AllSamples, Service!AllSamples, Node!Samples, Service!Samples, Node!Usage, Service!Usage,
       Node!Divisor, Service!Divisor, Node!Families, Service!Families,
       Node!CounterFamilies, Service!CounterFamilies, Node!GaugeFamilies, Service!GaugeFamilies,
       Node!Reading, Service!Reading, Node!AsInt64, Service!AsInt64, Node!Unrolled, Service!Unrolled,
       Node!WrapInt64, Service!WrapInt64, Node!Int64, Service!Int64

LEMMA SameInit == Node!Init <=> Service!Init
BY DEF Node!Init, Service!Init, Node!NoTotal, Service!NoTotal, Node!EmptySummary, Service!EmptySummary,
       Node!EmptyNode, Service!EmptyNode, Node!NoReply, Service!NoReply

LEMMA SameNext == Node!Next <=> Service!Next
<1>1. Node!Initmetrics <=> Service!Initmetrics
  BY DEF Node!Initmetrics, Service!Initmetrics, Node!NewKubeletClient, Service!NewKubeletClient
<1>2. Node!ProcessEnds <=> Service!ProcessEnds
  BY DEF Node!ProcessEnds, Service!ProcessEnds, Node!EmptySummary, Service!EmptySummary,
         Node!EmptyNode, Service!EmptyNode, Node!NoTotal, Service!NoTotal, Node!NoReply, Service!NoReply
<1>3. Node!Killed <=> Service!Killed
  BY <1>2 DEF Node!Killed, Service!Killed
<1>4. ASSUME NEW q \in NodeRequests
      PROVE  /\ Node!GetNode(q) <=> Service!GetNode(q)
             /\ Node!Collect(q) <=> Service!Collect(q)
             /\ Node!Panic(q) <=> Service!Panic(q)
             /\ Node!Reply(q) <=> Service!Reply(q)
             /\ Node!Finish(q) <=> Service!Finish(q)
  <2>1. Node!GetNode(q) <=> Service!GetNode(q)
    BY DEF Node!GetNode, Service!GetNode, Node!Goto, Service!Goto
  <2>2. Node!Collect(q) <=> Service!Collect(q)
    <3>1. Node!ReadAllocatable(q) <=> Service!ReadAllocatable(q)
      BY DEF Node!ReadAllocatable, Service!ReadAllocatable, Node!Goto, Service!Goto,
             Node!NoTotal, Service!NoTotal, Node!Reading, Service!Reading, Node!AsInt64, Service!AsInt64,
             Node!Unrolled, Service!Unrolled, Node!WrapInt64, Service!WrapInt64,
             Node!Int64, Service!Int64
    <3>2. Node!Scrap(q) <=> Service!Scrap(q)
      BY SamePanics DEF Node!Scrap, Service!Scrap, Node!Goto, Service!Goto,
             Node!NilDereferenced, Service!NilDereferenced,
             Node!EmptySummary, Service!EmptySummary, Node!EmptyNode, Service!EmptyNode
    <3> QED BY <3>1, <3>2 DEF Node!Collect, Service!Collect
  <2>3. Node!Panic(q) <=> Service!Panic(q)
    BY <1>2, SamePanics DEF Node!Panic, Service!Panic, Node!NilDereferenced, Service!NilDereferenced,
           Node!ScrapMayPanic, Service!ScrapMayPanic
  <2>4. Node!Reply(q) <=> Service!Reply(q)
    BY SamePods, SameSamples DEF Node!Reply, Service!Reply, Node!Goto, Service!Goto,
           Node!Repeated, Service!Repeated, Node!Encodable, Service!Encodable,
           Node!Refused, Service!Refused
  <2>5. Node!Finish(q) <=> Service!Finish(q)
    BY DEF Node!Finish, Service!Finish, Node!Goto, Service!Goto, Node!NoReply, Service!NoReply,
           Node!NoTotal, Service!NoTotal, Node!EmptySummary, Service!EmptySummary,
           Node!EmptyNode, Service!EmptyNode
  <2> QED BY <2>1, <2>2, <2>3, <2>4, <2>5
<1> QED BY <1>1, <1>3, <1>4 DEF Node!Next, Service!Next

LEMMA SameAssumptions ==
  Service!ConstantsAssumption /\ Service!NilAssumption /\ Service!MaxInt64Assumption
BY NodeAssumption
   DEF Node!ConstantsAssumption, Service!ConstantsAssumption, Node!NilAssumption, Service!NilAssumption,
       Node!MaxInt64Assumption, Service!MaxInt64Assumption, Node!NodeStats, Service!NodeStats,
       Node!PodStats, Service!PodStats, Node!CPUStats, Service!CPUStats, Node!MemoryStats, Service!MemoryStats,
       Node!FsStats, Service!FsStats, Node!NetworkStats, Service!NetworkStats,
       Node!Quantities, Service!Quantities, Node!Uint64, Service!Uint64, Node!Int64, Service!Int64

(* Beside a GPU service that ends the process at any time, an answer of    *)
(* GetNode has all metrics of the complete pods and of no other, each of   *)
(* them made of int64 numbers.                                             *)
THEOREM NodeServiceInAgent ==
  AgentSpec => [](Service!TypeOK /\ Service!MissingNotZero)
<1>1. AgentInit => Service!IInv
  <2>1. Service!Init => Service!IInv
    BY SameAssumptions, Service!InvInit
  <2> QED BY <2>1, SameInit DEF AgentInit
<1>2. Service!IInv /\ [AgentNext]_agentVars => Service!IInv'
  <2>1. Service!IInv /\ [Service!Next]_(Service!vars) => Service!IInv'
    BY SameAssumptions, Service!InvStep
  <2>2. [Node!Next]_(Node!vars) => [Service!Next]_(Service!vars)
    <3>1. UNCHANGED Node!vars <=> UNCHANGED Service!vars
      BY DEF Node!vars, Service!vars
    <3> QED BY <3>1, SameNext
  <2> QED BY <2>1, <2>2, AgentStepOfNode
<1>3. Service!IInv => Service!TypeOK /\ Service!MissingNotZero
  BY SameAssumptions, Service!InvTypeOK, Service!InvMissingNotZero
<1> QED BY <1>1, <1>2, <1>3, PTL DEF AgentSpec
=============================================================================
