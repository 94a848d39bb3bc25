SPECIFICATION MCSpec
CONSTANTS
  A = A
  B = B
  Peer = {A, B}
  i1 = i1
  i2 = i2
  i3 = i3
  Index = {i1, i2, i3}
  NoIndex = NoIndex
  NoPeer = NoPeer
  x1 = x1
  Configured = {A}
  Packet = {x1}
  Keepalive = Keepalive
  PEER_QUEUE_SIZE = 1
  MAX_TIMER_HANDSHAKES = 1
  MaxInitiations = 2
  MaxNonce = 2
  MaxResets = 1
  Ages = {}
SYMMETRY IndexSymmetry
INVARIANTS
  IndexTableConsistent
  KeyAgreement
  CurrentIsConfirmed
  NonceUnique
  DeliveredAtMostOnce
PROPERTIES
  NewerInitiationWins
CHECK_DEADLOCK FALSE
