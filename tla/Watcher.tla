------------------------------- MODULE Watcher -------------------------------
(***************************************************************************)
(* The watcher of the master (pkg/watcher) and the agents it polls. It     *)
(* takes the addresses of the agents' pods once, ten seconds after its     *)
(* start, and then asks every address in turn, first for GPU metrics if    *)
(* the node's name says so and then for node metrics, giving each call one *)
(* second. The calls go to whoever answers at the address; an empty one    *)
(* is dialled too and is the master's own agent.                           *)
(* Of an agent only this is taken: it is there or not, it answers, late or *)
(* never, with an error, with all the families or with none (what the two  *)
(* collectors reply). An agent shares the process of its node's pod, and   *)
(* the master's shares the watcher's.                                      *)
(***************************************************************************)
EXTENDS FiniteSets

CONSTANTS
  Nodes,      \* the nodes that have an agent's pod
  GPUNodes,   \* those with "gpu" in their name
  Master,     \* the one with "master" in its name
  Addresses,  \* the addresses pods can have
  NoAddress,  \* the empty string: the address of a pending pod
  NoNode

ASSUME ConstantsAssumption ==
  /\ Master \in Nodes /\ GPUNodes \subseteq Nodes \ {Master}
  /\ NoNode \notin Nodes /\ NoAddress \notin Addresses

VARIABLES
  addr,     \* the address of each node's pod
  serving,  \* whether its agent is running
  moved,    \* history: the nodes whose pod was replaced since InitWatcher
  pc,       \* where the watcher is
  kind,     \* the metrics it is about: "GPU" or "Node"
  mapper,   \* Watcher.NodeIPMapper
  todo,     \* the nodes the range loop has not come to yet
  at,       \* the node of the loop
  server,   \* the agent that has the call, if any
  reply,    \* what the call returned
  report    \* the agent whose metrics were last printed under a node's name

vars == <<addr, serving, moved, pc, kind, mapper, todo, at, server, reply, report>>
agents == <<addr, serving, moved>>

(* The families Work reads of a reply.                                     *)
Printed(k) ==
  IF k = "GPU"
  THEN {"GPU_Architecture", "Host_GPU_Core_Gauge", "Host_GPU_Memory_Gauge",
        "Host_GPU_Power_Gauge", "GPU_Memory_Gauge", "GPU_Memory_Counter",
        "GPU_Temperature", "GPU_Flops", "GPU_FanSpeed", "GPU_Pod_Num",
        "GPU_Bandwidth", "GPU_Driver_Version"}
  ELSE {"CPU_Core_Gauge", "Memory_Gauge", "Storage_Gauge", "CPU_Core_Counter",
        "Memory_Counter", "Storage_Counter", "Network_Gauge", "Network_Counter"}

NoReply == [from |-> NoNode, families |-> {}]
NoEntry == [n \in {} |-> NoAddress]

Init ==
  /\ addr \in [Nodes -> Addresses \cup {NoAddress}]
  /\ addr[Master] # NoAddress
  /\ \A m, n \in Nodes : m # n /\ addr[m] = addr[n] => addr[n] = NoAddress
  /\ serving = [n \in Nodes |-> FALSE]
  /\ moved = {}
  /\ pc = "down"
  /\ kind = "Node"
  /\ mapper = NoEntry
  /\ todo = {}
  /\ at = NoNode
  /\ server = NoNode
  /\ reply = NoReply
  /\ report = [n \in Nodes |-> NoNode]

(*------------------------------- the agents ------------------------------*)

PodScheduled(n) ==
  /\ addr[n] = NoAddress
  /\ \E a \in Addresses :
       /\ \A m \in Nodes : addr[m] # a
       /\ addr' = [addr EXCEPT ![n] = a]
  /\ UNCHANGED <<serving, moved, pc, kind, mapper, todo, at, server, reply, report>>

AgentStarts(n) ==
  /\ n # Master
  /\ addr[n] # NoAddress
  /\ ~serving[n]
  /\ serving' = [serving EXCEPT ![n] = TRUE]
  /\ UNCHANGED <<addr, moved, pc, kind, mapper, todo, at, server, reply, report>>

(* The agent's process ends and with it the call it was serving.           *)
AgentGone(n) ==
  /\ serving' = [serving EXCEPT ![n] = FALSE]
  /\ server' = IF server = n THEN NoNode ELSE server
  /\ UNCHANGED <<pc, kind, mapper, todo, at, reply, report>>

AgentDies(n) ==
  /\ n # Master
  /\ serving[n]
  /\ AgentGone(n)
  /\ UNCHANGED <<addr, moved>>

(* A new pod comes in the place of the old one, pending at first.          *)
PodReplaced(n) ==
  /\ n # Master
  /\ addr[n] # NoAddress
  /\ addr' = [addr EXCEPT ![n] = NoAddress]
  /\ moved' = moved \cup {n}
  /\ AgentGone(n)

(*----------------------------- the master's process ----------------------*)

(* Its server is started first; then it sleeps.                            *)
MasterStarts ==
  /\ pc = "down"
  /\ pc' = "starting"
  /\ serving' = [serving EXCEPT ![Master] = TRUE]
  /\ UNCHANGED <<addr, moved, kind, mapper, todo, at, server, reply, report>>

MasterDown ==
  /\ pc' = "down"
  /\ serving' = [serving EXCEPT ![Master] = FALSE]
  /\ moved' = {}
  /\ kind' = "Node"
  /\ mapper' = NoEntry
  /\ todo' = {}
  /\ at' = NoNode
  /\ server' = NoNode
  /\ reply' = NoReply
  /\ report' = [n \in Nodes |-> NoNode]
  /\ UNCHANGED addr

(* Its own agent ends the process.                                         *)
MasterDies == pc # "down" /\ MasterDown

(* A failed List is printed, and leaves no addresses.                      *)
InitWatcher ==
  /\ pc = "starting"
  /\ \/ mapper' = addr
     \/ mapper' = NoEntry
  /\ moved' = {}
  /\ todo' = DOMAIN mapper'
  /\ pc' = "round"
  /\ UNCHANGED <<addr, serving, kind, at, server, reply, report>>

(*-------------------------------- one round ------------------------------*)

(* mutant: the node is left among those to come *)
NextNodeAgain(n) ==
  /\ pc = "round"
  /\ n \in todo
  /\ at' = n
  /\ kind' = IF n \in GPUNodes THEN "GPU" ELSE "Node"
  /\ pc' = "ask"
  /\ UNCHANGED <<agents, mapper, todo, server, reply, report>>

NextNode(n) ==
  /\ pc = "round"
  /\ n \in todo
  /\ todo' = todo \ {n}
  /\ at' = n
  /\ kind' = IF n \in GPUNodes THEN "GPU" ELSE "Node"
  /\ pc' = "ask"
  /\ UNCHANGED <<agents, mapper, server, reply, report>>

(* All were asked: ten seconds later it starts over.                       *)
NextRound ==
  /\ pc = "round"
  /\ todo = {}
  /\ todo' = DOMAIN mapper
  /\ UNCHANGED <<agents, pc, kind, mapper, at, server, reply, report>>

(* Who takes a call to an address.                                         *)
Reached(a) ==
  LET there == IF a = NoAddress THEN {Master} ELSE {n \in Nodes : addr[n] = a}
  IN  IF \E n \in there : serving[n] THEN CHOOSE n \in there : serving[n] ELSE NoNode

Ask ==
  /\ pc = "ask"
  /\ server' = Reached(mapper[at])
  /\ pc' = "wait"
  /\ UNCHANGED <<agents, kind, mapper, todo, at, reply, report>>

(* An agent without a GPU answers the question for GPU metrics with an     *)
(* error; any agent may, which is the same to the watcher as giving up.    *)
Answer ==
  /\ pc = "wait"
  /\ server # NoNode
  /\ kind = "GPU" => server \in GPUNodes
  /\ \E families \in {Printed(kind), {}} :
       reply' = [from |-> server, families |-> families]
  /\ server' = NoNode
  /\ pc' = "print"
  /\ UNCHANGED <<agents, kind, mapper, todo, at, report>>

(* mutant: a call has no deadline *)
GiveUpIfRefused ==
  /\ pc = "wait"
  /\ server = NoNode
  /\ reply' = NoReply
  /\ pc' = "print"
  /\ UNCHANGED <<agents, kind, mapper, todo, at, server, report>>

(* Refused, failed, or not answered within the second: r is nil.           *)
GiveUp ==
  /\ pc = "wait"
  /\ reply' = NoReply
  /\ server' = NoNode
  /\ pc' = "print"
  /\ UNCHANGED <<agents, kind, mapper, todo, at, report>>

(* respGPU, respNode is nil *)
Skipped == reply = NoReply

(* mutant: the name is read when the loop has gone on to the next node     *)
PrintUnderNextName ==
  /\ pc = "print"
  /\ \/ Skipped /\ UNCHANGED report
     \/ /\ ~Skipped
        /\ Printed(kind) \subseteq reply.families
        /\ report' = [report EXCEPT
             ![IF todo = {} THEN at ELSE CHOOSE n \in todo : TRUE] = reply.from]
  /\ pc' = IF kind = "GPU" THEN "ask" ELSE "round"
  /\ kind' = "Node"
  /\ reply' = NoReply
  /\ UNCHANGED <<agents, mapper, todo, at, server>>

(* After the GPU metrics come the node metrics, after these the next node; *)
(* the reply is gone.                                                      *)
PrintMetrics ==
  /\ pc = "print"
  /\ \/ Skipped /\ UNCHANGED report
     \/ /\ ~Skipped
        /\ Printed(kind) \subseteq reply.families
        /\ report' = [report EXCEPT ![at] = reply.from]
  /\ pc' = IF kind = "GPU" THEN "ask" ELSE "round"
  /\ kind' = "Node"
  /\ reply' = NoReply
  /\ UNCHANGED <<agents, mapper, todo, at, server>>

(* A family that is missing is a nil pointer.                              *)
Panic ==
  /\ pc = "print"
  /\ ~Skipped
  /\ ~(Printed(kind) \subseteq reply.families)
  /\ MasterDown

Work == InitWatcher \/ (\E n \in Nodes : NextNode(n)) \/ NextRound \/ Ask \/ PrintMetrics \/ Panic

Next ==
  \/ MasterStarts \/ MasterDies \/ Work \/ Answer \/ GiveUp
  \/ \E n \in Nodes : PodScheduled(n) \/ AgentStarts(n) \/ AgentDies(n) \/ PodReplaced(n)

(* The watcher's goroutine is scheduled, its deadline passes, and a dead   *)
(* master is started again. The agents need do nothing.                    *)
Fairness == WF_vars(MasterStarts) /\ WF_vars(Work) /\ WF_vars(GiveUp)

Spec == Init /\ [][Next]_vars /\ Fairness

-----------------------------------------------------------------------------
TypeOK ==
  /\ addr \in [Nodes -> Addresses \cup {NoAddress}]
  /\ serving \in [Nodes -> BOOLEAN]
  /\ moved \subseteq Nodes
  /\ pc \in {"down", "starting", "round", "ask", "wait", "print"}
  /\ kind \in {"GPU", "Node"}
  /\ DOMAIN mapper \in {{}, Nodes}
  /\ \A n \in DOMAIN mapper : mapper[n] \in Addresses \cup {NoAddress}
  /\ todo \subseteq DOMAIN mapper
  /\ at \in Nodes \cup {NoNode}
  /\ pc \in {"ask", "wait", "print"} => at \in DOMAIN mapper \ todo
  /\ server \in Nodes \cup {NoNode}
  /\ reply \in [from: Nodes \cup {NoNode}, families: {{}} \cup {Printed(k) : k \in {"GPU", "Node"}}]
  /\ report \in [Nodes -> Nodes \cup {NoNode}]

(* What Work prints under a node's name comes from that node, however      *)
(* calls fail, time out or are answered by an agent started anew, and      *)
(* whoever else moves; unless its own pod was replaced since the addresses *)
(* were taken, or had no address then and is taken for the master.         *)
ReportsAttributed ==
  \A n \in Nodes \ moved :
    \/ report[n] \in {n, NoNode}
    \/ n \in DOMAIN mapper /\ mapper[n] = NoAddress /\ report[n] = Master

(* What is printed under "Node Name" comes from the node of that name.     *)
ReportsOfTheirNode == \A n \in Nodes \ moved : report[n] \in {n, NoNode}

(* Whatever the agents do, no one of them keeps the watcher from the       *)
(* others: every node whose address it has is asked again and again.       *)
EachNodeAsked ==
  \A n \in Nodes :
    [](n \in DOMAIN mapper => <>(pc = "down" \/ (pc = "ask" /\ at = n)))
=============================================================================
