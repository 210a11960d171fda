SPECIFICATION Spec
CONSTANTS
  MaxInt64 = 15
  NIL = NIL
  NoPod = NoPod
  p1 = p1
  p2 = p2
  PodRefs = {p1, p2}
  MaxPods = 2
  Summaries <- MCSummaries
CHECK_DEADLOCK FALSE
INVARIANT NodeErrorsDiscardPoint
