SPECIFICATION Spec
CONSTANTS
  SEQ_MOD = 32
  ISS = 29
  IRS = 30
  WG_TCP_MSS = 2
  WG_TCP_SENDBUF_SIZE = 3
  WG_TCP_RECV_OOO_SIZE = 4
  WG_TCP_DELAYED_ACK_SEGMENTS = 2
  WG_TCP_MAX_RETRANSMIT = 1
  Roles = {"connect", "listen"}
  Windows = {0, 2}
  SendMax = 2
  RemoteLen = 2
  CanClose = TRUE
  RemoteEnds = TRUE
  CanReset = TRUE
PROPERTIES
  ImplementsService
CHECK_DEADLOCK FALSE
