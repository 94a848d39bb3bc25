SPECIFICATION Spec
CONSTANTS
  NULL = NULL
  Bits4 = 2
  Bits6 = 1
  o1 = o1
  o2 = o2
  Object = {o1, o2}
  k1 = k1
  k2 = k2
  PublicKey = {k1, k2}
  Secret = {1}
  TIMERS = 2
  NetAddr = {2, 3}
  Cidr4 = {0, 2, 3}
  Cidr6 = {}
  WgOrder = TRUE
SYMMETRY Symmetry
INVARIANTS
  RoutesExact
  SourcesExact
  
  TimersSound
CHECK_DEADLOCK FALSE
