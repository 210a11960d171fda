SPECIFICATION Spec
CONSTANTS
  master = master
  gpu = gpu
  worker = worker
  a1 = a1
  a2 = a2
  a3 = a3
  NoAddress = NoAddress
  NoNode = NoNode
  Master = master
  GPUNodes = {gpu}
  Nodes = {master, gpu}
  Addresses = {a1, a2}
INVARIANT ReportsOfTheirNode
