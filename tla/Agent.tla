-------------------------------- MODULE Agent --------------------------------
(***************************************************************************)
(* One agent process: the GetGPU service (GPUCollector) and the GetNode    *)
(* service (NodeCollector) of the one gRPC server that run of cmd starts.  *)
(* They share no variable but the process: it serves after Initmetrics,    *)
(* and a fatal query or a panic on any goroutine of either ends both, with *)
(* every call in them.                                                     *)
(* An action of the agent is one of a service beside the idle other, or    *)
(* the end of the process, which is the end of both.                       *)
(***************************************************************************)
EXTENDS GPUCollector

CONSTANTS
  NodeRequests,   \* the calls of GetNode that may be in flight together
  Summaries, Allocatables, APIMayFail, KubeletFaults,   \* see NodeCollector
  MaxInt64, NIL, PodRefs, NoPod                         \* see DecodeStats

VARIABLES
  nodePc, kubeletClient, total, summary, nodeReply      \* see NodeCollector

Node == INSTANCE NodeCollector
          WITH Requests <- NodeRequests, pc <- nodePc, reply <- nodeReply

ASSUME NodeAssumption ==
  Node!ConstantsAssumption /\ Node!NilAssumption /\ Node!MaxInt64Assumption

gpuVars   == <<refs, initFailed, pc, session, dev, out, unfit, failing, reply>>
nodeVars  == <<nodePc, kubeletClient, total, summary, nodeReply>>
agentVars == <<isGPU, up, gpuVars, nodeVars>>

AgentInit == Init /\ Node!Init

(* run: Initmetrics is over when the server starts. A node whose name has  *)
(* no "gpu" in it has the server too; its GetGPU refuses.                  *)
Run == Start /\ Node!Initmetrics

(*------------------------- one service at a time -------------------------*)

CollectGPU(r) == Collect(r) /\ UNCHANGED nodeVars
ReplyGPU(r)   == Reply(r) /\ UNCHANGED nodeVars
FinishGPU(r)  == Finish(r) /\ UNCHANGED nodeVars
GetGPU(r)     == (Refuse(r) \/ Gather(r)) /\ UNCHANGED nodeVars

otherGPU == <<isGPU, gpuVars>>

CollectNode(q) == Node!Collect(q) /\ UNCHANGED otherGPU
ReplyNode(q)   == Node!Reply(q) /\ UNCHANGED otherGPU
FinishNode(q)  == Node!Finish(q) /\ UNCHANGED otherGPU
GetNode(q)     == Node!GetNode(q) /\ UNCHANGED otherGPU

(*------------------------- the end of the process ------------------------*)

(* mutant: a failing query makes Collect return; the process lives on *)
FatalReturns(r) ==
  /\ pc[r] \in {"device", "process"}
  /\ QueryFails
  /\ Goto(r, "shutdown")
  /\ UNCHANGED <<isGPU, up, refs, initFailed, local, nodeVars>>

FatalGPU(r) == Fatal(r) /\ Node!Killed

(* mutant: the server recovers from the panic; its call ends without an    *)
(* answer, and everything else goes on                                     *)
PanicRecovered(q) ==
  /\ nodePc[q] = "scrap"
  /\ Node!ScrapMayPanic
  /\ nodePc' = [nodePc EXCEPT ![q] = "idle"]
  /\ total' = [total EXCEPT ![q] = Node!NoTotal]
  /\ summary' = [summary EXCEPT ![q] = Node!EmptySummary]
  /\ UNCHANGED <<up, kubeletClient, nodeReply, otherGPU>>

PanicNode(q) == Node!Panic(q) /\ Killed

(* The container is stopped, the pod replaced.                             *)
Stopped == Killed /\ Node!Killed

(* The goroutine of a call, from its begin to its end.                     *)
ServeGPU(r)  == CollectGPU(r) \/ FatalGPU(r) \/ ReplyGPU(r) \/ FinishGPU(r)
ServeNode(q) == CollectNode(q) \/ PanicNode(q) \/ ReplyNode(q) \/ FinishNode(q)

AgentNext ==
  \/ Run \/ Stopped
  \/ \E r \in Requests : GetGPU(r) \/ ServeGPU(r)
  \/ \E q \in NodeRequests : GetNode(q) \/ ServeNode(q)

(* The fairness of the two services: their goroutines are scheduled, the   *)
(* kubelet's answer or failure comes at last, and a dead container is      *)
(* started again and finds the API server now and then. Nobody has to call *)
(* either of them.                                                         *)
AgentFairness ==
  /\ WF_agentVars(Run) /\ SF_agentVars(Run /\ kubeletClient' # NIL)
  /\ \A r \in Requests : WF_agentVars(ServeGPU(r))
  /\ \A q \in NodeRequests : WF_agentVars(ServeNode(q))

AgentSpec == AgentInit /\ [][AgentNext]_agentVars /\ AgentFairness

-----------------------------------------------------------------------------
(* The agent serves GetGPU as GPUCollector says, and GetNode as            *)
(* NodeCollector says: to each service the other one is no more than a     *)
(* process that may end at any time.                                       *)
ServesGPU  == Spec
ServesNode == Node!Spec

(* A call that is dropped without an answer is never dropped alone: it     *)
(* takes the process with it, every call of both services included.        *)
Dropped ==
  \/ \E r \in Requests : pc[r] \notin {"idle", "replied"} /\ pc'[r] = "idle"
  \/ \E q \in NodeRequests : nodePc[q] \notin {"idle", "replied"} /\ nodePc'[q] = "idle"

DroppedTogether ==
  [][Dropped => /\ ~up'
                /\ \A r \in Requests : pc'[r] = "idle" /\ ~session'[r]
                /\ \A q \in NodeRequests : nodePc'[q] = "idle"]_agentVars
=============================================================================
