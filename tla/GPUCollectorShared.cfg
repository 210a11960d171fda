SPECIFICATION Spec
CONSTANTS
  r1 = r1
  r2 = r2
  p1 = p1
  p2 = p2
  Requests = {r1}
  NumDevices = 1
  Pids = {p1, p2}
  InitMayFail = FALSE
  QueryMayFail = FALSE
  ZeroMemory = FALSE
INVARIANT SharedGPUsReported
