SPECIFICATION FairSpec
CONSTANTS
  n1 = n1
  n2 = n2
  n3 = n3
  Node = {n1, n2, n3}
  NoNode = NoNode
  Packet = {1}
  Client = {1}
  TCP_WORKER_QUEUE_CAP = 2
  TCP_WORKER_BATCH_LIMIT = 1
  CACHE_MAX = 1
  CACHE_KEEP = 1
  GRAB = 2
  CanStop = TRUE
PROPERTIES
  PacketsProcessed
  StopWaitsForClients
