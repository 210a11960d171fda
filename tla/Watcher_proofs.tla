--------------------------- MODULE Watcher_proofs ---------------------------
(***************************************************************************)
(* What holds of Watcher for every set of nodes and of addresses.          *)
(***************************************************************************)
EXTENDS Watcher, TLAPS

USE ConstantsAssumption

LEMMA TypeInit == Init => TypeOK
  BY DEF Init, TypeOK, NoReply, NoEntry

LEMMA DownType == TypeOK /\ MasterDown => TypeOK'
  BY DEF TypeOK, MasterDown, NoReply, NoEntry

LEMMA GoneType ==
  ASSUME TypeOK, NEW n \in Nodes, AgentGone(n), moved' \subseteq Nodes,
         addr' \in [Nodes -> Addresses \cup {NoAddress}]
  PROVE  TypeOK'
  BY DEF TypeOK, AgentGone

(* A call goes to a node or to nobody.                                     *)
LEMMA ReachedType ==
  ASSUME NEW a PROVE Reached(a) \in Nodes \cup {NoNode}
<1> DEFINE there == IF a = NoAddress THEN {Master} ELSE {n \in Nodes : addr[n] = a}
<1>1. there \subseteq Nodes
  OBVIOUS
<1>2. CASE \E n \in there : serving[n]
  <2>1. (CHOOSE n \in there : serving[n]) \in there
    BY <1>2
  <2> QED
    BY <1>1, <1>2, <2>1 DEF Reached
<1>3. CASE ~\E n \in there : serving[n]
  BY <1>3 DEF Reached
<1> QED
  BY <1>2, <1>3

LEMMA TypeStep == TypeOK /\ [Next]_vars => TypeOK'
<1> SUFFICES ASSUME TypeOK, [Next]_vars PROVE TypeOK'
  OBVIOUS
<1> USE DEF agents
<1>1. ASSUME NEW n \in Nodes, PodScheduled(n) PROVE TypeOK'
  BY <1>1 DEF PodScheduled, TypeOK
<1>2. ASSUME NEW n \in Nodes, AgentStarts(n) PROVE TypeOK'
  BY <1>2 DEF AgentStarts, TypeOK
<1>3. ASSUME NEW n \in Nodes, AgentDies(n) PROVE TypeOK'
  BY <1>3, GoneType DEF AgentDies, TypeOK
<1>4. ASSUME NEW n \in Nodes, PodReplaced(n) PROVE TypeOK'
  BY <1>4, GoneType DEF PodReplaced, TypeOK
<1>5. CASE MasterStarts
  BY <1>5 DEF MasterStarts, TypeOK
<1>6. CASE MasterDies \/ Panic
  BY <1>6, DownType DEF MasterDies, Panic
<1>7. CASE InitWatcher
  <2>1. mapper' = addr \/ mapper' = NoEntry
    BY <1>7 DEF InitWatcher
  <2>2. CASE mapper' = addr
    BY <1>7, <2>2 DEF InitWatcher, TypeOK
  <2>3. CASE mapper' = NoEntry
    BY <1>7, <2>3 DEF InitWatcher, TypeOK, NoEntry
  <2> QED
    BY <2>1, <2>2, <2>3
<1>8. ASSUME NEW n \in Nodes, NextNode(n) PROVE TypeOK'
  BY <1>8 DEF NextNode, TypeOK
<1>9. CASE NextRound
  BY <1>9 DEF NextRound, TypeOK
<1>10. CASE Ask
  BY <1>10, ReachedType DEF Ask, TypeOK
<1>11. CASE Answer
  <2>1. PICK families \in {{}, Printed(kind)} :
          reply' = [from |-> server, families |-> families]
    BY <1>11 DEF Answer
  <2>2. reply' \in [from: Nodes \cup {NoNode},
                    families: {{}} \cup {Printed(k) : k \in {"GPU", "Node"}}]
    BY <2>1 DEF TypeOK
  <2> QED
    BY <1>11, <2>2 DEF Answer, TypeOK
<1>12. CASE GiveUp
  BY <1>12 DEF GiveUp, TypeOK, NoReply
<1>13. CASE PrintMetrics
  <2>1. report' \in [Nodes -> Nodes \cup {NoNode}]
    BY <1>13 DEF PrintMetrics, TypeOK
  <2>2. reply' = [from |-> NoNode, families |-> {}]
    BY <1>13 DEF PrintMetrics, NoReply
  <2> QED
    BY <1>13, <2>1, <2>2 DEF PrintMetrics, TypeOK
<1>14. CASE UNCHANGED vars
  BY <1>14 DEF vars, TypeOK
<1> QED
  BY <1>1, <1>2, <1>3, <1>4, <1>5, <1>6, <1>7, <1>8, <1>9, <1>10, <1>11, <1>12,
     <1>13, <1>14 DEF Next, Work

(* The variables of the watcher and of the agents keep their types.        *)
THEOREM TypeCorrect == Spec => []TypeOK
  BY TypeInit, TypeStep, PTL DEF Spec

-----------------------------------------------------------------------------
(* Who may be heard of under a node's name.                                *)
Rightly(n, m) ==
  \/ m \in {n, NoNode}
  \/ n \in DOMAIN mapper /\ mapper[n] = NoAddress /\ m = Master

(* No address is shared, and of a pod that stayed the watcher has its      *)
(* address; so the agent that has a call, or has answered it, is the right *)
(* one.                                                                    *)
Attribution ==
  /\ \A m, n \in Nodes : m # n /\ addr[m] = addr[n] => addr[n] = NoAddress
  /\ \A n \in DOMAIN mapper \ moved : mapper[n] # NoAddress => addr[n] = mapper[n]
  /\ pc = "wait" /\ at \notin moved  => Rightly(at, server)
  /\ pc = "print" /\ at \notin moved => Rightly(at, reply.from)
  /\ \A n \in Nodes \ moved : Rightly(n, report[n])
  /\ pc \in {"down", "starting"} => \A n \in Nodes : report[n] = NoNode

(* Unless its node's address was unknown, a call reaches its node's agent. *)
LEMMA ReachedRightly ==
  ASSUME TypeOK, Attribution, NEW n \in DOMAIN mapper \ moved
  PROVE  Rightly(n, Reached(mapper[n]))
<1>1. n \in Nodes
  BY DEF TypeOK
<1>2. CASE mapper[n] = NoAddress
  BY <1>2 DEF Reached, Rightly
<1>3. CASE mapper[n] # NoAddress
  <2>1. {m \in Nodes : addr[m] = mapper[n]} = {n}
    BY <1>1, <1>3 DEF Attribution
  <2> QED
    BY <1>3, <2>1 DEF Reached, Rightly
<1> QED
  BY <1>2, <1>3

LEMMA AttributionInit == Init => Attribution
  BY DEF Init, Attribution, Rightly, NoEntry

LEMMA DownAttribution == Attribution /\ MasterDown => Attribution'
  BY DEF Attribution, MasterDown, Rightly, NoEntry

LEMMA AttributionStep == TypeOK /\ Attribution /\ [Next]_vars => Attribution'
<1> SUFFICES ASSUME TypeOK, Attribution, [Next]_vars PROVE Attribution'
  OBVIOUS
<1> USE DEF agents, Attribution, Rightly
<1>1. ASSUME NEW n \in Nodes, PodScheduled(n) PROVE Attribution'
  <2>1. \A m \in Nodes : m # n => addr'[m] # addr'[n]
    BY <1>1 DEF PodScheduled, TypeOK
  <2>2. \A m \in Nodes : m # n => addr'[m] = addr[m]
    BY <1>1 DEF PodScheduled, TypeOK
  <2>3. \A m \in DOMAIN mapper \ moved : mapper[m] # NoAddress => addr[m] # NoAddress
    BY DEF TypeOK
  <2>4. addr[n] = NoAddress
    BY <1>1 DEF PodScheduled
  <2>5. DOMAIN mapper \subseteq Nodes
    BY DEF TypeOK
  <2>6. \A m \in DOMAIN mapper \ moved : mapper[m] # NoAddress => addr'[m] = mapper[m]
    BY <2>2, <2>3, <2>4, <2>5
  <2> QED
    BY <1>1, <2>1, <2>2, <2>6 DEF PodScheduled
<1>2. ASSUME NEW n \in Nodes, AgentStarts(n) PROVE Attribution'
  BY <1>2 DEF AgentStarts
<1>3. ASSUME NEW n \in Nodes, AgentDies(n) PROVE Attribution'
  BY <1>3 DEF AgentDies, AgentGone
<1>4. ASSUME NEW n \in Nodes, PodReplaced(n) PROVE Attribution'
  BY <1>4 DEF PodReplaced, AgentGone, TypeOK
<1>5. CASE MasterStarts
  BY <1>5 DEF MasterStarts
<1>6. CASE MasterDies \/ Panic
  BY <1>6, DownAttribution DEF MasterDies, Panic
<1>7. CASE InitWatcher
  <2>1. mapper' = addr \/ mapper' = NoEntry
    BY <1>7 DEF InitWatcher
  <2>2. \A n \in DOMAIN mapper' : mapper'[n] # NoAddress => addr'[n] = mapper'[n]
    BY <1>7, <2>1 DEF InitWatcher, NoEntry
  <2> QED
    BY <1>7, <2>2 DEF InitWatcher
<1>8. ASSUME NEW n \in Nodes, NextNode(n) PROVE Attribution'
  BY <1>8 DEF NextNode
<1>9. CASE NextRound
  BY <1>9 DEF NextRound
<1>10. CASE Ask
  <2>1. at \in DOMAIN mapper
    BY <1>10 DEF Ask, TypeOK
  <2>2. at \notin moved => Rightly(at, Reached(mapper[at]))
    BY <2>1, ReachedRightly
  <2> QED
    BY <1>10, <2>2 DEF Ask
<1>11. CASE Answer
  BY <1>11 DEF Answer
<1>12. CASE GiveUp
  BY <1>12 DEF GiveUp, NoReply
<1>13. CASE PrintMetrics
  BY <1>13 DEF PrintMetrics, TypeOK
<1>14. CASE UNCHANGED vars
  BY <1>14 DEF vars
<1> QED
  BY <1>1, <1>2, <1>3, <1>4, <1>5, <1>6, <1>7, <1>8, <1>9, <1>10, <1>11, <1>12,
     <1>13, <1>14 DEF Next, Work

(* What Work prints under a node's name comes from its agent, or from the  *)
(* master's if the pod had no address when the watcher took them, as long  *)
(* as the node's own pod is the one it was then.                           *)
THEOREM ReportsFromTheirNode == Spec => []ReportsAttributed
<1>1. Attribution => ReportsAttributed
  BY DEF Attribution, ReportsAttributed, Rightly
<1> QED
  BY TypeInit, TypeStep, AttributionInit, AttributionStep, <1>1, PTL DEF Spec
=============================================================================
