SPECIFICATION Spec
CONSTANTS
  master = master
  node = node
  gpu = gpu
  none = none
  Master = master
  Nodes = {master, node, gpu}
  GPUNodes = {gpu}
  NoNode = none
  StartUp = 2
  Pause = 2
  Timeout = 1
  Longest = 2
INVARIANTS
  TypeOK
  InFlightBounded
  ShownFresh
  AskedInTime
