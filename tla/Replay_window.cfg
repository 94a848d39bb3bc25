SPECIFICATION Spec
CONSTANTS
  REPLAY_BLOCK_BITS = 2
  REPLAY_RING_BLOCKS = 4
  Limit = 17
INVARIANTS
  WindowExact
CHECK_DEADLOCK FALSE
