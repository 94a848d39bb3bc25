\* A send buffer of four bytes, buffers of two and three, and clients and local servers
\* with more bytes than fit into them together.
SPECIFICATION Spec
CONSTANTS
  SendBuffer = 4
  MaxBytes = 3
  SOCKS5_PENDING_LIMIT = 3
  SOCKS5_CLIENT_OUTBUF_LIMIT = 2
  FlushSize = 2
  AuthRequired = TRUE
  ReadSize = 2
  ClientBytes = 6
  EarlyBytes = 4
  Pipelined = FALSE
  FORWARD_PENDING_LIMIT = 2
  LocalBytes = 7
  CanFail = TRUE
INVARIANTS
  
  OutbufScheduled
  
  
PROPERTY
  EventuallyFreed
CHECK_DEADLOCK FALSE
