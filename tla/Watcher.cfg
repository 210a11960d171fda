SPECIFICATION MCSpec
CONSTANTS
  master = master
  gpu = gpu
  worker = worker
  a1 = a1
  a2 = a2
  a3 = a3
  NoAddress = NoAddress
  NoNode = NoNode
  Master = master
  GPUNodes = {gpu}
  Nodes = {master, gpu, worker}
  Addresses = {a1, a2, a3}
INVARIANTS
  TypeOK
  ReportsAttributed
PROPERTY EachNodeAsked
