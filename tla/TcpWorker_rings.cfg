SPECIFICATION Spec
CONSTANTS
  n1 = n1
  n2 = n2
  n3 = n3
  Node = {n1, n2, n3}
  NoNode = NoNode
  Packet = {1, 2}
  Client = {}
  TCP_WORKER_QUEUE_CAP = 2
  TCP_WORKER_BATCH_LIMIT = 2
  CACHE_MAX = 2
  CACHE_KEEP = 1
  GRAB = 2
  CanStop = FALSE
SYMMETRY NodeSymmetry
INVARIANTS
  TypeOK
  NodesAccounted
  NoLostWakeup
PROPERTIES
  PacketsInOrder
