------------------------------- MODULE Polling -------------------------------
(***************************************************************************)
(* The time of the watcher's calls (Work, GetGPUMetric and GetNodeMetric   *)
(* of pkg/watcher, with the client and the service of pkg/client/grpc) and *)
(* of the collections they start in the agents. A call has a second; the   *)
(* collection behind it has no limit, is not told that the caller is gone  *)
(* and reads the kubelet and NVML for as long as these take. A call is for *)
(* a node's name but goes to whoever has the address listed for it.        *)
(* The watcher's own computing takes no time, and a collection takes       *)
(* Longest seconds at most: that is for the kubelet and the connection to  *)
(* it to see to, for the client of pkg/client/kubelet sets no timeout.     *)
(***************************************************************************)
EXTENDS Integers, Sequences, SequencesExt, FiniteSets

CONSTANTS
  Nodes,     \* the nodes that have an agent
  GPUNodes,  \* those with "gpu" in their name
  Master,    \* the one whose process has the watcher
  NoNode,
  StartUp,   \* the sleep before InitWatcher
  Pause,     \* the sleep after a round
  Timeout,   \* of a call
  Longest    \* what a collection may take

ASSUME ConstantsAssumption ==
  /\ IsFiniteSet(Nodes) /\ GPUNodes \subseteq Nodes /\ Master \in Nodes \ GPUNodes
  /\ NoNode \notin Nodes
  /\ StartUp \in Nat /\ Pause \in Nat \ {0} /\ Timeout \in Nat \ {0} /\ Longest \in Nat
  /\ Pause <= StartUp    \* both are ten seconds

(* A call is for a node and of a method; the nodes come by their names.    *)
Calls == (Nodes \X {"GetNode"}) \cup (GPUNodes \X {"GetGPU"})
CallsFor(names) == {c \in Calls : c[1] \in names}
NoCall == <<>>

(* A call and the agent it may come to. One without a GPU refuses GetGPU   *)
(* and collects nothing for it; the master's pod has the watcher, and its  *)
(* address is the master's own.                                            *)
Served ==
  {s \in Calls \X Nodes : /\ s[1][2] = "GetGPU" => s[2] \in GPUNodes
                          /\ s[1][1] = Master => s[2] = Master}

VARIABLES
  pc,           \* where the watcher is
  timer,        \* what is left of its sleep, or of the call's second
  listed,       \* the names in Watcher.NodeIPMapper
  local,        \* those whose address in it is empty
  todo,         \* the calls of this round not made yet
  at,           \* the call being made
  request,      \* and what has become of it
  server,       \* the agent at work on it, if any
  collections,  \* the ages of each call's collections, the newest first
  shown,        \* the age of what was last printed for each call
  asked         \* the time since each call, or since the list was taken

vars == <<pc, timer, listed, local, todo, at, request, server, collections, shown, asked>>
mapper == <<listed, local>>

Init ==
  /\ pc = "starting"
  /\ timer = StartUp
  /\ listed = {}
  /\ local = {}
  /\ todo = {}
  /\ at = NoCall
  /\ request = "none"
  /\ server = NoNode
  /\ collections = [s \in Served |-> <<>>]
  /\ shown = [c \in Calls |-> 0]
  /\ asked = [c \in Calls |-> 0]

(*-------------------------------- the rounds -----------------------------*)

(* The List comes back at any time after the sleep, for it has no          *)
(* deadline: with the pods there are then, those not scheduled yet without *)
(* an address, or with an error and no pods. The master's own pod is       *)
(* running. The first round begins at once.                                *)
InitWatcher ==
  /\ pc = "starting"
  /\ timer = 0
  /\ listed' \in SUBSET Nodes
  /\ local' \in SUBSET (listed' \ {Master})
  /\ todo' = CallsFor(listed')
  /\ pc' = "round"
  /\ UNCHANGED <<timer, at, request, server, collections, shown, asked>>

RoundBegins ==
  /\ pc = "pause"
  /\ timer = 0
  /\ pc' = "round"
  /\ todo' = CallsFor(listed)
  /\ UNCHANGED <<timer, mapper, at, request, server, collections, shown, asked>>

(* mutant: a failed call ends the round *)
RoundEndsEarly ==
  /\ pc = "round"
  /\ pc' = "pause"
  /\ timer' = Pause
  /\ UNCHANGED <<mapper, todo, at, request, server, collections, shown, asked>>

RoundEnds ==
  /\ pc = "round"
  /\ todo = {}
  /\ pc' = "pause"
  /\ timer' = Pause
  /\ UNCHANGED <<mapper, todo, at, request, server, collections, shown, asked>>

(* The nodes come in any order; a GPU node is asked for its GPU metrics    *)
(* and then, before any other node, for its node metrics.                  *)
Ready(c) ==
  LET begun == {n \in GPUNodes : <<n, "GetNode">> \in todo /\ <<n, "GetGPU">> \notin todo}
  IN  /\ c \in todo
      /\ begun # {} => c[1] \in begun
      /\ c[1] \in GPUNodes /\ c[2] = "GetNode" => c[1] \in begun

(*-------------------------------- one call -------------------------------*)

Ask(c) ==
  /\ pc = "round"
  /\ Ready(c)
  /\ pc' = "wait"
  /\ todo' = todo \ {c}
  /\ at' = c
  /\ request' = "sent"
  /\ timer' = Timeout
  /\ asked' = [asked EXCEPT ![c] = 0]
  /\ UNCHANGED <<mapper, server, collections, shown>>

(* Who may have the address listed for a name: an empty one is dialled as  *)
(* the local host, and one a pod has lost may be any other pod's by now,   *)
(* but for the master's.                                                   *)
Holders(name) ==
  IF name \in local \cup {Master} THEN {Master} ELSE Nodes \ {Master}

(* The stub names the method, and the service's description has a handler  *)
(* for it. The handler is at work once there is a connection, at any time  *)
(* of the call's second, or never, if nobody is to be reached.             *)
Handler == [GetNode |-> "GetNode", GetGPU |-> "GetGPU"]

Invoke(c, n) ==
  LET served == <<<<c[1], Handler[c[2]]>>, n>>
  IN  /\ pc = "wait"
      /\ at = c
      /\ request = "sent"
      /\ n \in Holders(c[1])
      /\ served \in Served
      /\ request' = "begun"
      /\ server' = n
      /\ collections' = [collections EXCEPT ![served] = <<0>> \o @]
      /\ UNCHANGED <<pc, timer, mapper, todo, at, shown, asked>>

(* mutant: the reply is not cleared *)
ReturnedWithReply ==
  /\ pc' = "round"
  /\ at' = NoCall
  /\ timer' = 0
  /\ UNCHANGED <<request, server>>

Returned ==
  /\ pc' = "round"
  /\ at' = NoCall
  /\ request' = "none"
  /\ server' = NoNode
  /\ timer' = 0

(* mutant: an answer is taken for the call at hand whichever it is to *)
AnyAnswer(s, i) == pc = "wait" /\ at = s[1]

(* The newest collection of the call is its own: each call has a           *)
(* connection to itself, that is closed after it.                          *)
Awaited(s, i) == pc = "wait" /\ s = <<at, server>> /\ i = 1

Answered(s, i) ==
  /\ i \in DOMAIN collections[s]
  /\ Awaited(s, i)
  /\ collections' = [collections EXCEPT ![s] = RemoveAt(@, i)]
  /\ \/ shown' = [shown EXCEPT ![s[1]] = collections[s][i]]
     \/ UNCHANGED shown   \* the agent answers with an error
  /\ Returned
  /\ UNCHANGED <<mapper, todo, asked>>

(* Its caller has given up: the answer goes nowhere.                       *)
AnsweredTooLate(s, i) ==
  /\ i \in DOMAIN collections[s]
  /\ ~Awaited(s, i)
  /\ collections' = [collections EXCEPT ![s] = RemoveAt(@, i)]
  /\ UNCHANGED <<pc, timer, mapper, todo, at, request, server, shown, asked>>

(* The deadline is over, or the call has failed. The stub returns nil; the *)
(* collection goes on.                                                     *)
GivenUp ==
  /\ pc = "wait"
  /\ timer = 0 \/ request # "begun"
  /\ Returned
  /\ UNCHANGED <<mapper, todo, collections, shown, asked>>

(*------------------------------- the processes ---------------------------*)

Ended(n) == [s \in Served |-> IF s[2] = n THEN <<>> ELSE collections[s]]

(* An agent's process ends, with every collection in it.                   *)
AgentDies(n) ==
  /\ n # Master
  /\ \E s \in Served : s[2] = n /\ collections[s] # <<>>
  /\ collections' = Ended(n)
  /\ request' = IF server = n THEN "lost" ELSE request
  /\ server' = IF server = n THEN NoNode ELSE server
  /\ UNCHANGED <<pc, timer, mapper, todo, at, shown, asked>>

(* The watcher and its list are gone with the master's process, while the  *)
(* collections it has begun in other agents go on.                         *)
MasterEnds ==
  /\ pc' = "starting"
  /\ listed' = {}
  /\ local' = {}
  /\ todo' = {}
  /\ at' = NoCall
  /\ request' = "none"
  /\ server' = NoNode
  /\ collections' = Ended(Master)
  /\ asked' = [c \in Calls |-> 0]
  /\ UNCHANGED shown

(* mutant: the watcher starts with the server *)
MasterRestartsAtOnce == MasterEnds /\ timer' = 0

(* The master is started again, and sleeps.                                *)
MasterRestarts == MasterEnds /\ timer' = StartUp

(*--------------------------------- the time ------------------------------*)

(* Time does not pass what is due: a timer, a collection at its longest,   *)
(* or the watcher's own work. The List may take any time.                  *)
NothingDue ==
  /\ pc # "round"
  /\ timer > 0 \/ pc = "starting"
  /\ \A s \in Served : \A i \in DOMAIN collections[s] : collections[s][i] < Longest

Tick ==
  /\ NothingDue
  /\ timer' = IF timer = 0 THEN 0 ELSE timer - 1
  /\ collections' = [s \in Served |-> [i \in DOMAIN collections[s] |-> collections[s][i] + 1]]
  /\ asked' = [c \in Calls |-> IF c[1] \in listed THEN asked[c] + 1 ELSE asked[c]]
  /\ UNCHANGED <<pc, mapper, todo, at, request, server, shown>>

Next ==
  \/ InitWatcher \/ RoundBegins \/ RoundEnds \/ GivenUp \/ MasterRestarts \/ Tick
  \/ \E c \in Calls : Ask(c) \/ \E n \in Nodes : Invoke(c, n)
  \/ \E s \in Served : \E i \in DOMAIN collections[s] : Answered(s, i) \/ AnsweredTooLate(s, i)
  \/ \E n \in Nodes : AgentDies(n)

Spec == Init /\ [][Next]_vars

-----------------------------------------------------------------------------
TypeOK ==
  /\ pc \in {"starting", "pause", "round", "wait"} /\ (pc = "starting" => listed = {})
  /\ timer \in Nat
  /\ listed \subseteq Nodes /\ local \subseteq listed \ {Master}
  /\ todo \subseteq CallsFor(listed)
  /\ at \in Calls \cup {NoCall} /\ (pc = "wait" <=> at # NoCall)
  /\ request \in {"none", "sent", "begun", "lost"} /\ (request = "none" <=> pc # "wait")
  /\ server \in Nodes \cup {NoNode} /\ (request = "begun" <=> server # NoNode)
  /\ collections \in [Served -> Seq(Nat)]
  /\ shown \in [Calls -> Nat]
  /\ asked \in [Calls -> Nat]

(* The collections of a kind that an agent has under way: the call they    *)
(* were begun for, and which of that call's they are.                      *)
From(n, k) == {s \in Served : s[2] = n /\ s[1][2] = k}
InFlight(n, k) == UNION {{s} \X DOMAIN collections[s] : s \in From(n, k)}

(* However the calls time out, the agents die, move to each other's        *)
(* addresses or are taken for the master, and the master restarts: for     *)
(* each name it can be asked under, an agent has no more collections of a  *)
(* kind at once than pauses begin in the longest one. They do not pile up, *)
(* and their number does not depend on how long the watcher has been       *)
(* running.                                                                *)
InFlightBounded ==
  \A n \in Nodes : \A k \in {"GetNode", "GetGPU"} :
    Cardinality(InFlight(n, k)) <= Cardinality(From(n, k)) * (Longest \div Pause + 1)

(* What is printed was asked for by the call it is printed for: it is no   *)
(* older than the call's second, and never the late answer to another one. *)
ShownFresh == \A c \in Calls : shown[c] <= Timeout

(* Agents that hang cost the watcher a second a call and no more: from one *)
(* question to the next, and from the list to the first one, it takes the  *)
(* pause and twice a round of calls that all time out, less one, for the   *)
(* order of the nodes is another one.                                      *)
AskedInTime ==
  LET round == Timeout * Cardinality(CallsFor(listed))
  IN  \A c \in CallsFor(listed) : asked[c] <= Pause + 2 * round - Timeout
=============================================================================
