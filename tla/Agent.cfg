SPECIFICATION AgentSpec
CONSTANTS
  MaxInt64 = 15
  NIL = NIL
  NoPod = NoPod
  r1 = r1
  r2 = r2
  q1 = q1
  g1 = g1
  g2 = g2
  p1 = p1
  PodRefs = {p1}
  Requests = {r1, r2}
  NumDevices = 2
  Pids = {g1, g2}
  InitMayFail = TRUE
  QueryMayFail = TRUE
  ZeroMemory = TRUE
  NodeRequests = {q1}
  Summaries <- MCSummaries
  Allocatables <- MCAllocatables
  APIMayFail = TRUE
  KubeletFaults = {"unreachable", "garbage"}
INVARIANTS
  TypeOK
  SessionsCounted
  ReleasedWhenUnused
  CompleteOrEmpty
  RefusedIffUnfit
PROPERTIES
  DroppedTogether
  EachCallEnds
  ServesGPU
  ServesNode
