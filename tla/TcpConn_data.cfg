SPECIFICATION Spec
CONSTANTS
  SEQ_MOD = 32
  ISS = 29
  IRS = 30
  WG_TCP_MSS = 2
  WG_TCP_SENDBUF_SIZE = 3
  WG_TCP_RECV_OOO_SIZE = 2
  WG_TCP_DELAYED_ACK_SEGMENTS = 2
  WG_TCP_MAX_RETRANSMIT = 1
  Roles = {"connect", "listen"}
  Windows = {0, 2}
  SendMax = 3
  RemoteLen = 4
  CanClose = FALSE
  RemoteEnds = TRUE
  CanReset = FALSE
INVARIANTS
  
  SendbufExact
  DeliveredInOrder
  OutputScheduled
CHECK_DEADLOCK FALSE
