SPECIFICATION Spec
CONSTANTS
  A = A
  B = B
  Peer = {A, B}
  i1 = i1
  i2 = i2
  i3 = i3
  Index = {i1, i2, i3}
  NoIndex = NoIndex
  NoPeer = NoPeer
  x1 = x1
  Configured = {A}
  Packet = {x1}
  Keepalive = Keepalive
  PEER_QUEUE_SIZE = 1
  MAX_TIMER_HANDSHAKES = 1
  MaxInitiations = 4
  MaxNonce = 1
  MaxResets = 0
  Ages = {"reject"}
SYMMETRY IndexSymmetry
INVARIANTS
  FlushTerminates
CHECK_DEADLOCK FALSE
