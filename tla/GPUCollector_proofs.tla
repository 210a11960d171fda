------------------------ MODULE GPUCollector_proofs ------------------------
(***************************************************************************)
(* What holds of GPUCollector for every number of calls, devices and       *)
(* processes.                                                              *)
(***************************************************************************)
EXTENDS GPUCollector, FiniteSetTheorems, TLAPS

(* All the metrics of the devices up to d.                                 *)
UpTo(d) == [family: Families, device: 1 .. d]

Before     == {"idle", "init", "version", "count"}
InCollect  == {"version", "count", "device", "process", "shutdown"}

(* How far the loop of a request has come, and what it has sent by then.   *)
Progress(r) ==
  /\ pc[r] \in Before => dev[r] = 1 /\ out[r] = {}
  /\ pc[r] = "device" => dev[r] <= NumDevices /\ out[r] = UpTo(dev[r] - 1)
  /\ pc[r] = "process" =>
       /\ dev[r] <= NumDevices
       /\ out[r] = UpTo(dev[r] - 1) \cup Samples(HostFamilies, dev[r])
  /\ pc[r] \in {"shutdown", "gathered"} => out[r] \in {{}, Metrics}
  /\ pc[r] # "replied" => reply[r] = NoReply
  /\ reply[r].status = "ok" => reply[r].metrics \in {{}, Metrics}

TypeInv == TypeOK /\ \A r \in Requests : Progress(r)

(* The metrics of a device: those of the devices before it, its host       *)
(* metrics and its process metrics.                                        *)
LEMMA MetricsOfADevice ==
  ASSUME NEW d \in Devices
  PROVE  /\ UpTo(0) = {}
         /\ UpTo(NumDevices) = Metrics
         /\ UpTo(d - 1) \cup Samples(HostFamilies, d) \cup Samples(ProcessFamilies, d)
              = UpTo(d)
         /\ Samples(HostFamilies, d) \subseteq Metrics
         /\ Samples(ProcessFamilies, d) \subseteq Metrics
         /\ UpTo(d - 1) \subseteq Metrics
<1>1. UpTo(0) = {}
  BY DEF UpTo
<1>2. UpTo(NumDevices) = Metrics
  BY DEF UpTo, Metrics, Devices
<1>3. 1 .. d = (1 .. d - 1) \cup {d}
  BY ConstantsAssumption DEF Devices
<1>4. UpTo(d) = UpTo(d - 1) \cup Samples(Families, d)
  BY <1>3 DEF UpTo, Samples
<1>5. Samples(Families, d) = Samples(HostFamilies, d) \cup Samples(ProcessFamilies, d)
  BY DEF Families, Samples
<1>6. Samples(Families, d) \subseteq Metrics
  BY DEF Samples, Metrics
<1>7. 1 .. d - 1 \subseteq Devices
  BY ConstantsAssumption DEF Devices
<1>8. UpTo(d - 1) \subseteq Metrics
  BY <1>7 DEF UpTo, Metrics
<1> QED
  BY <1>1, <1>2, <1>4, <1>5, <1>6, <1>8

LEMMA TypeInit == Init => TypeInv
<1> SUFFICES ASSUME Init PROVE TypeInv
  OBVIOUS
<1>1. TypeOK
  <2>1. NoReply \in Replies
    BY DEF Replies, NoReply
  <2>2. reply \in [Requests -> Replies] /\ out \in [Requests -> SUBSET Metrics]
    BY <2>1 DEF Init
  <2>3. /\ session \in [Requests -> BOOLEAN]
        /\ unfit \in [Requests -> BOOLEAN] /\ failing \in [Requests -> BOOLEAN]
    BY DEF Init
  <2>4. pc \in [Requests -> Labels] /\ dev \in [Requests -> 1 .. NumDevices + 1]
    BY ConstantsAssumption DEF Init, Labels
  <2>5. isGPU \in BOOLEAN /\ up \in BOOLEAN /\ refs \in Nat /\ initFailed \in BOOLEAN
    BY DEF Init
  <2> QED
    BY <2>2, <2>3, <2>4, <2>5 DEF TypeOK
<1>2. ASSUME NEW r \in Requests PROVE Progress(r)
  BY DEF Init, Progress, NoReply, Before
<1> QED
  BY <1>1, <1>2 DEF TypeInv

(* Nothing is left of the calls when the process ends.                     *)
LEMMA TypeAtTheEnd == TypeInv /\ ProcessEnds => TypeInv'
<1> SUFFICES ASSUME TypeInv, ProcessEnds PROVE TypeInv'
  OBVIOUS
<1> USE ConstantsAssumption DEF TypeInv, TypeOK, Progress, Labels, Before
<1>1. NoReply \in Replies
  BY DEF NoReply, Replies
<1>2. reply' \in [Requests -> Replies] /\ out' \in [Requests -> SUBSET Metrics]
  BY <1>1 DEF ProcessEnds
<1>3. /\ pc' \in [Requests -> Labels] /\ session' \in [Requests -> BOOLEAN]
      /\ dev' \in [Requests -> 1 .. NumDevices + 1]
      /\ unfit' \in [Requests -> BOOLEAN] /\ failing' \in [Requests -> BOOLEAN]
  BY DEF ProcessEnds
<1>4. TypeOK'
  BY <1>2, <1>3 DEF ProcessEnds
<1>5. ASSUME NEW r \in Requests PROVE Progress(r)'
  <2>1. pc'[r] = "idle" /\ dev'[r] = 1 /\ out'[r] = {} /\ reply'[r] = NoReply
    BY DEF ProcessEnds
  <2> QED
    BY <2>1 DEF NoReply
<1> QED
  BY <1>4, <1>5

LEMMA TypeStep == TypeInv /\ [Next]_vars => TypeInv'
<1> SUFFICES ASSUME TypeInv, [Next]_vars PROVE TypeInv'
  OBVIOUS
<1> USE ConstantsAssumption DEF TypeInv, TypeOK, Progress, Goto, Labels, Before
<1>1. ASSUME NEW r \in Requests, Refuse(r) PROVE TypeInv'
  BY <1>1 DEF Refuse, Replies, Refused
<1>2. ASSUME NEW r \in Requests, Gather(r) PROVE TypeInv'
  BY <1>2 DEF Gather, local
<1>3. ASSUME NEW r \in Requests, NvmlInit(r) PROVE TypeInv'
  <2>1. TypeOK'
    <3>1. refs' \in Nat
      BY <1>3 DEF NvmlInit
    <3>3. session' \in [Requests -> BOOLEAN]
      <4>1. CASE session' = [session EXCEPT ![r] = TRUE]
        BY <4>1
      <4>2. CASE UNCHANGED session
        BY <4>2
      <4> QED
        BY <1>3, <4>1, <4>2 DEF NvmlInit
    <3>2. pc' \in [Requests -> Labels]
      BY <1>3 DEF NvmlInit
    <3>4. initFailed' \in BOOLEAN
      BY <1>3 DEF NvmlInit
    <3> QED
      BY <1>3, <3>1, <3>2, <3>3, <3>4 DEF NvmlInit
  <2>2. \A s \in Requests : Progress(s)'
    BY <1>3 DEF NvmlInit
  <2> QED
    BY <2>1, <2>2
<1>4. ASSUME NEW r \in Requests, SystemGetDriverVersion(r) PROVE TypeInv'
  BY <1>4 DEF SystemGetDriverVersion, local
<1>5. ASSUME NEW r \in Requests, DeviceGetCount(r) PROVE TypeInv'
  <2>1. TypeOK'
    BY <1>5 DEF DeviceGetCount, local
  <2>2. NumDevices > 0 => UpTo(0) = {}
    BY MetricsOfADevice DEF Devices
  <2>3. Progress(r)'
    <3>1. out'[r] = {} /\ dev'[r] = 1 /\ reply'[r] = NoReply
      BY <1>5 DEF DeviceGetCount, local
    <3>2. \/ pc'[r] = "device" /\ NumDevices > 0
          \/ pc'[r] = "shutdown"
      BY <1>5 DEF DeviceGetCount
    <3>3. 1 - 1 = 0
      OBVIOUS
    <3> QED
      BY <3>1, <3>2, <3>3, <2>2 DEF NoReply
  <2>4. \A s \in Requests \ {r} : Progress(s)'
    BY <1>5 DEF DeviceGetCount, local
  <2> QED
    BY <2>1, <2>3, <2>4
<1>6. ASSUME NEW r \in Requests, QueryDevice(r) PROVE TypeInv'
  <2>1. dev[r] \in Devices
    BY <1>6 DEF QueryDevice, Devices
  <2>2. Samples(HostFamilies, dev[r]) \subseteq Metrics
    BY <2>1, MetricsOfADevice
  <2>3. TypeOK'
    BY <1>6, <2>2 DEF QueryDevice
  <2>4. \A s \in Requests : Progress(s)'
    BY <1>6 DEF QueryDevice
  <2> QED
    BY <2>3, <2>4
<1>7. ASSUME NEW r \in Requests, GetGPUProcess(r) PROVE TypeInv'
  <2>1. dev[r] \in Devices
    BY <1>7 DEF GetGPUProcess, Devices
  <2>2. Samples(ProcessFamilies, dev[r]) \subseteq Metrics
    BY <2>1, MetricsOfADevice
  <2>3. TypeOK'
    <3>1. out' \in [Requests -> SUBSET Metrics]
      BY <1>7, <2>2 DEF GetGPUProcess
    <3>2. dev' \in [Requests -> 1 .. NumDevices + 1]
      BY <1>7, <2>1 DEF GetGPUProcess, NextDevice, Devices
    <3>3. unfit' \in [Requests -> BOOLEAN] /\ failing' \in [Requests -> BOOLEAN]
      BY <1>7 DEF GetGPUProcess
    <3>4. pc' \in [Requests -> Labels]
      BY <1>7 DEF GetGPUProcess
    <3> QED
      BY <1>7, <3>1, <3>2, <3>3, <3>4 DEF GetGPUProcess
  <2>4. out'[r] = UpTo(dev[r])
    BY <1>7, <2>1, MetricsOfADevice DEF GetGPUProcess
  <2>5. LastDevice(r) => dev[r] = NumDevices /\ out'[r] = Metrics
    BY <2>1, <2>4, MetricsOfADevice DEF LastDevice, Devices
  <2>6. Progress(r)'
    BY <1>7, <2>1, <2>4, <2>5 DEF GetGPUProcess, NextDevice, LastDevice, Devices
  <2>7. \A s \in Requests \ {r} : Progress(s)'
    BY <1>7 DEF GetGPUProcess
  <2> QED
    BY <2>3, <2>6, <2>7
<1>8. ASSUME NEW r \in Requests, NvmlShutdown(r) PROVE TypeInv'
  BY <1>8 DEF NvmlShutdown, Released
<1>9. CASE ProcessEnds
  BY <1>9, TypeAtTheEnd
<1>10. ASSUME NEW r \in Requests, Reply(r) PROVE TypeInv'
  BY <1>10 DEF Reply, Replies, Refused
<1>11. ASSUME NEW r \in Requests, Finish(r) PROVE TypeInv'
  BY <1>11 DEF Finish, Replies, NoReply
<1>12. CASE Start
  BY <1>12 DEF Start, local
<1>13. CASE UNCHANGED vars
  BY <1>13 DEF vars
<1> QED
  BY <1>1, <1>2, <1>3, <1>4, <1>5, <1>6, <1>7, <1>8, <1>9, <1>10, <1>11, <1>12,
     <1>13 DEF Next, Collect, Fatal, Killed

(* Every state has values of the declared types; in particular no request  *)
(* asks NVML for a device it does not have, and sends none of its metrics. *)
THEOREM TypeCorrect == Spec => []TypeOK
<1>1. TypeInv => TypeOK
  BY DEF TypeInv
<1> QED
  BY TypeInit, TypeStep, <1>1, PTL DEF Spec

(* A reply of GetGPU leaves out no device and no family in silence: it is  *)
(* complete, or empty because Collect returned early.                      *)
THEOREM RepliesCompleteOrEmpty == Spec => []CompleteOrEmpty
<1>1. TypeInv => CompleteOrEmpty
  BY DEF TypeInv, Progress, CompleteOrEmpty
<1> QED
  BY TypeInit, TypeStep, <1>1, PTL DEF Spec

-----------------------------------------------------------------------------
(* The sessions are the requests between their Init and their Shutdown; as *)
(* long as no Init has failed, all of these.                               *)
SessionInv ==
  /\ \A r \in Requests : session[r] => pc[r] \in InCollect
  /\ ~initFailed => \A r \in Requests : pc[r] \in InCollect => session[r]
  /\ refs <= Cardinality(Sessions)
  /\ ~initFailed => refs = Cardinality(Sessions)

(* A session that begins or ends counts for one.                           *)
LEMMA SessionCount ==
  ASSUME TypeOK, TypeOK', NEW r \in Requests, NEW b \in BOOLEAN,
         session' = [session EXCEPT ![r] = b]
  PROVE  /\ Cardinality(Sessions) \in Nat
         /\ Cardinality(Sessions)' =
              CASE b /\ ~session[r] -> Cardinality(Sessions) + 1
                [] ~b /\ session[r] -> Cardinality(Sessions) - 1
                [] OTHER            -> Cardinality(Sessions)
         /\ session[r] => Cardinality(Sessions) > 0
<1>1. IsFiniteSet(Sessions) /\ Cardinality(Sessions) \in Nat
  BY ConstantsAssumption, FS_Subset, FS_CardinalityType DEF Sessions
<1>2. Sessions' = IF b THEN Sessions \cup {r} ELSE Sessions \ {r}
  BY DEF Sessions, TypeOK
<1>3. r \in Sessions <=> session[r]
  BY DEF Sessions
<1>4. r \in Sessions => Cardinality(Sessions) > 0
  BY <1>1, FS_EmptySet
<1>5. /\ Cardinality(Sessions \cup {r}) =
           IF r \in Sessions THEN Cardinality(Sessions) ELSE Cardinality(Sessions) + 1
      /\ Cardinality(Sessions \ {r}) =
           IF r \in Sessions THEN Cardinality(Sessions) - 1 ELSE Cardinality(Sessions)
  BY <1>1, FS_AddElement, FS_RemoveElement
<1>6. CASE b
  BY <1>1, <1>2, <1>3, <1>4, <1>5, <1>6
<1>7. CASE ~b
  BY <1>1, <1>2, <1>3, <1>4, <1>5, <1>7
<1> QED
  BY <1>6, <1>7

LEMMA SessionInit == Init => SessionInv
<1> SUFFICES ASSUME Init PROVE SessionInv
  OBVIOUS
<1>1. Sessions = {}
  BY DEF Init, Sessions
<1>2. Cardinality(Sessions) = 0
  BY <1>1, FS_EmptySet
<1> QED
  BY <1>2 DEF Init, SessionInv, InCollect

LEMMA SessionStep ==
  TypeInv /\ TypeInv' /\ SessionInv /\ [Next]_vars => SessionInv'
<1> SUFFICES ASSUME TypeOK, TypeOK', SessionInv, [Next]_vars PROVE SessionInv'
  BY DEF TypeInv
<1> USE DEF SessionInv, InCollect
(* The steps that neither begin nor end a session move a request within    *)
(* Collect or outside it.                                                  *)
<1>1. ASSUME NEW r \in Requests, NEW label \in Labels,
             UNCHANGED <<refs, initFailed, session>>, Goto(r, label),
             pc[r] \in InCollect <=> label \in InCollect
      PROVE  SessionInv'
  <2>1. Sessions' = Sessions
    BY <1>1 DEF Sessions
  <2> QED
    BY <1>1, <2>1 DEF Goto, TypeOK
<1>2. ASSUME NEW r \in Requests, NvmlInit(r) PROVE SessionInv'
  <2>1. ~session[r]
    BY <1>2 DEF NvmlInit
  <2>2. CASE /\ refs' = refs + 1 /\ session' = [session EXCEPT ![r] = TRUE]
             /\ UNCHANGED initFailed
    <3>1. /\ Cardinality(Sessions) \in Nat
          /\ Cardinality(Sessions)' = Cardinality(Sessions) + 1
      BY <2>1, <2>2, SessionCount
    <3>2. refs' <= Cardinality(Sessions)' /\ (~initFailed' => refs' = Cardinality(Sessions)')
      BY <2>2, <3>1 DEF TypeOK
    <3> QED
      BY <1>2, <2>2, <3>2 DEF NvmlInit, Goto, TypeOK
  <2>3. CASE initFailed' = TRUE /\ UNCHANGED <<refs, session>>
    <3>1. Sessions' = Sessions
      BY <2>3 DEF Sessions
    <3> QED
      BY <1>2, <2>1, <2>3, <3>1 DEF NvmlInit, Goto, TypeOK
  <2> QED
    BY <1>2, <2>2, <2>3 DEF NvmlInit
<1>3. ASSUME NEW r \in Requests, NvmlShutdown(r) PROVE SessionInv'
  <2>1. session' = [session EXCEPT ![r] = FALSE] /\ refs' = Released(r)
    BY <1>3 DEF NvmlShutdown
  <2>2. /\ Cardinality(Sessions) \in Nat
        /\ Cardinality(Sessions)' =
             IF session[r] THEN Cardinality(Sessions) - 1 ELSE Cardinality(Sessions)
        /\ session[r] => Cardinality(Sessions) > 0
    BY <2>1, SessionCount
  <2>3. initFailed' = initFailed /\ (~initFailed => session[r])
    BY <1>3 DEF NvmlShutdown
  <2>4. refs' <= Cardinality(Sessions)' /\ (~initFailed' => refs' = Cardinality(Sessions)')
    BY <2>1, <2>2, <2>3 DEF Released, TypeOK
  <2> QED
    BY <1>3, <2>1, <2>4 DEF NvmlShutdown, Goto, TypeOK
<1>4. CASE ProcessEnds
  <2>1. Sessions' = {} /\ refs' = 0
    BY <1>4 DEF ProcessEnds, Sessions
  <2>2. Cardinality(Sessions)' = 0
    BY <2>1, FS_EmptySet
  <2> QED
    BY <1>4, <2>1, <2>2 DEF ProcessEnds
<1>5. CASE UNCHANGED <<refs, initFailed, session, pc>>
  BY <1>5 DEF Sessions
<1>6. ASSUME NEW r \in Requests, Refuse(r) \/ Gather(r) \/ Reply(r) \/ Finish(r)
      PROVE  SessionInv'
  BY <1>1, <1>6 DEF Refuse, Gather, Reply, Finish, local, Labels
<1>7. ASSUME NEW r \in Requests,
             \/ SystemGetDriverVersion(r) \/ DeviceGetCount(r)
             \/ QueryDevice(r) \/ GetGPUProcess(r)
      PROVE  SessionInv'
  BY <1>1, <1>7
     DEF SystemGetDriverVersion, DeviceGetCount, QueryDevice, GetGPUProcess, local, Labels
<1> QED
  BY <1>2, <1>3, <1>4, <1>5, <1>6, <1>7 DEF Next, Collect, Fatal, Killed, Start, vars, local

(* As long as no Init has failed, NVML's reference count is the number of  *)
(* collections between their Init and their Shutdown, however many overlap *)
(* and on whichever path they leave Collect.                               *)
THEOREM SessionsAlwaysCounted == Spec => []SessionsCounted
<1>1. SessionInv => SessionsCounted
  BY DEF SessionInv, SessionsCounted
<1> QED
  BY TypeInit, TypeStep, SessionInit, SessionStep, <1>1, PTL DEF Spec

(* Even if nvml.Init fails now and then, no reference is leaked.           *)
THEOREM NvmlReleased == Spec => []ReleasedWhenUnused
<1>1. SessionInv => ReleasedWhenUnused
  BY DEF SessionInv, ReleasedWhenUnused
<1> QED
  BY TypeInit, TypeStep, SessionInit, SessionStep, <1>1, PTL DEF Spec

(* As long as no Init has failed, NVML stays initialised while some        *)
(* collection uses it: the only danger is a failed Init.                   *)
THEOREM InitialisedUnlessInitFailed == Spec => [](~initFailed => InitialisedWhileUsed)
<1>1. TypeInv /\ SessionInv => (~initFailed => InitialisedWhileUsed)
  <2> SUFFICES ASSUME TypeInv, SessionInv, ~initFailed, NEW r \in Requests, session[r]
               PROVE  refs > 0
    BY DEF InitialisedWhileUsed
  <2>1. IsFiniteSet(Sessions) /\ Cardinality(Sessions) \in Nat
    BY ConstantsAssumption, FS_Subset, FS_CardinalityType DEF Sessions
  <2>2. Cardinality(Sessions) # 0
    BY <2>1, FS_EmptySet DEF Sessions
  <2> QED
    BY <2>1, <2>2 DEF SessionInv
<1> QED
  BY TypeInit, TypeStep, SessionInit, SessionStep, <1>1, PTL DEF Spec

-----------------------------------------------------------------------------
(* What cannot be gathered or marshalled is the memory of a GPU that       *)
(* several processes use or that has none, and only that.                  *)
FailureInv ==
  isGPU =>
    \A r \in Requests :
      /\ failing[r] = unfit[r]
      /\ pc[r] = "replied" => (reply[r].status = "error" <=> unfit[r])

LEMMA NothingSentBefore ==
  ASSUME NEW d \in Devices
  PROVE  /\ UpTo(d - 1) \cap Samples(HostFamilies, d) = {}
         /\ (UpTo(d - 1) \cup Samples(HostFamilies, d)) \cap Samples(ProcessFamilies, d) = {}
<1>1. d \notin 1 .. d - 1
  BY DEF Devices
<1>2. ASSUME NEW families PROVE UpTo(d - 1) \cap Samples(families, d) = {}
  BY <1>1 DEF UpTo, Samples
<1>3. HostFamilies \cap ProcessFamilies = {}
  BY DEF HostFamilies, ProcessFamilies
<1>4. Samples(HostFamilies, d) \cap Samples(ProcessFamilies, d) = {}
  BY <1>3 DEF Samples
<1> QED
  BY <1>2, <1>4

LEMMA FailureInit == Init => FailureInv
  BY DEF Init, FailureInv

LEMMA FailureStep == TypeInv /\ FailureInv /\ [Next]_vars => FailureInv'
<1> SUFFICES ASSUME TypeInv, FailureInv, [Next]_vars, isGPU', NEW s \in Requests
             PROVE  /\ failing'[s] = unfit'[s]
                    /\ pc'[s] = "replied" => (reply'[s].status = "error" <=> unfit'[s])
  BY DEF FailureInv
<1> DEFINE Kept == /\ failing'[s] = unfit'[s]
                   /\ pc'[s] = "replied" => (reply'[s].status = "error" <=> unfit'[s])
<1>1. isGPU
  BY DEF Next, Collect, Refuse, Gather, NvmlInit, SystemGetDriverVersion, DeviceGetCount,
         QueryDevice, GetGPUProcess, NvmlShutdown, Fatal, Killed, ProcessEnds, Reply,
         Finish, Start, vars
<1>2. \A r \in Requests :
        /\ failing[r] = unfit[r]
        /\ pc[r] = "replied" => (reply[r].status = "error" <=> unfit[r])
  BY <1>1 DEF FailureInv
<1> USE DEF Goto, TypeInv, TypeOK
<1>3. ASSUME NEW r \in Requests, QueryDevice(r) PROVE Kept
  <2>1. dev[r] \in Devices /\ out[r] = UpTo(dev[r] - 1)
    BY <1>3 DEF QueryDevice, Progress, Devices
  <2>2. out[r] \cap Samples(HostFamilies, dev[r]) = {}
    BY <2>1, NothingSentBefore
  <2>3. failing'[s] = failing[s]
    BY <1>3, <2>2 DEF QueryDevice
  <2>4. UNCHANGED <<unfit, reply>> /\ (pc'[s] = "replied" => pc[s] = "replied")
    BY <1>3 DEF QueryDevice
  <2> QED
    BY <1>2, <2>3, <2>4
<1>4. ASSUME NEW r \in Requests, GetGPUProcess(r) PROVE Kept
  <2>1. /\ dev[r] \in Devices
        /\ out[r] = UpTo(dev[r] - 1) \cup Samples(HostFamilies, dev[r])
    BY <1>4 DEF GetGPUProcess, Progress, Devices
  <2>2. out[r] \cap Samples(ProcessFamilies, dev[r]) = {}
    BY <2>1, NothingSentBefore
  <2>3. PICK several \in BOOLEAN, undivided \in BOOLEAN :
          /\ unfit' = [unfit EXCEPT ![r] = @ \/ several \/ undivided]
          /\ failing' = [failing EXCEPT ![r] = @ \/ several \/ undivided \/ FALSE]
    BY <1>4, <2>2 DEF GetGPUProcess
  <2>4. failing'[s] = unfit'[s]
    BY <1>2, <2>3
  <2>5. reply' = reply /\ (pc'[s] = "replied" => pc[s] = "replied" /\ s # r)
    BY <1>4 DEF GetGPUProcess
  <2>6. s # r => unfit'[s] = unfit[s]
    BY <2>3
  <2> QED
    BY <1>2, <2>4, <2>5, <2>6
<1>5. ASSUME NEW r \in Requests, Reply(r) PROVE Kept
  BY <1>2, <1>5 DEF Reply, Refused
<1>6. ASSUME NEW r \in Requests, Finish(r) PROVE Kept
  BY <1>2, <1>6 DEF Finish
<1>7. ASSUME NEW r \in Requests,
             \/ Gather(r) \/ NvmlInit(r) \/ SystemGetDriverVersion(r)
             \/ DeviceGetCount(r) \/ NvmlShutdown(r)
      PROVE  Kept
  <2>1. UNCHANGED <<unfit, failing, reply>>
    BY <1>7
       DEF Gather, NvmlInit, SystemGetDriverVersion, DeviceGetCount, NvmlShutdown, local
  <2>2. \E label \in Labels \ {"replied"} : pc' = [pc EXCEPT ![r] = label]
    BY <1>7 DEF Gather, NvmlInit, SystemGetDriverVersion, DeviceGetCount,
                NvmlShutdown, Labels
  <2> QED
    BY <1>2, <2>1, <2>2
<1>8. CASE ProcessEnds
  BY <1>8 DEF ProcessEnds
<1>9. CASE Start \/ UNCHANGED vars
  BY <1>2, <1>9 DEF Start, vars, local
<1>10. ASSUME NEW r \in Requests, Refuse(r) PROVE FALSE
  BY <1>1, <1>10 DEF Refuse
<1> QED
  BY <1>3, <1>4, <1>5, <1>6, <1>7, <1>8, <1>9, <1>10 DEF Next, Collect, Fatal, Killed

(* On a GPU node a collection that comes to its end is refused exactly if  *)
(* it found a GPU that several processes use, or one in use that has no    *)
(* memory to divide by, whatever overlaps.                                 *)
THEOREM OnlyUnfitGPUsRefused == Spec => []RefusedIffUnfit
<1>1. FailureInv => RefusedIffUnfit
  BY DEF FailureInv, RefusedIffUnfit
<1> QED
  BY TypeInit, TypeStep, FailureInit, FailureStep, <1>1, PTL DEF Spec
=============================================================================
