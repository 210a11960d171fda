SPECIFICATION Spec
CONSTANTS
  MaxInt64 = 15
  NIL = NIL
  NoPod = NoPod
  p1 = p1
  p2 = p2
  r1 = r1
  r2 = r2
  PodRefs = {p1, p2}
  Requests = {r1}
  Summaries <- MCSummaries
  Allocatables <- MCAllocatables
  APIMayFail = FALSE
  KubeletFaults = {}
INVARIANT UsageReported
