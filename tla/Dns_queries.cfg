\* Three clients, two names, memory for two queries and two entries; entries live for two
\* of three ticks.
SPECIFICATION Spec
CONSTANTS
  c1 = c1
  c2 = c2
  c3 = c3
  d1 = d1
  d2 = d2
  a1 = a1
  a2 = a2
  NULL = NULL
  Client = {c1, c2, c3}
  Domain = {d1, d2}
  Address = {a1, a2}
  Ctx = {1, 2}
  SOCKS5_DNS_CACHE_SIZE = 2
  SOCKS5_DNS_TTL_MS = 2
  LocalIp6 = FALSE
  MaxTime = 3
INVARIANTS
  WaitersLinked
  CacheIsLatest
PROPERTY
  Answered
CHECK_DEADLOCK FALSE
