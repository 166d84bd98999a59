SPECIFICATION Spec
CONSTANTS
  n1 = n1
  n2 = n2
  v1 = v1
  v2 = v2
  down = down
  Nodes <- MCNodes
  Validators <- MCValidators
  Producers <- MCProducers
  Skew <- MCSkew
  Draws <- MCDraws
  Heavier <- MCHeavier
  SLOT_TIMEOUT = 2
  MAX_SLOT_ROUNDS = 2
  MAX_SKEW = 1
  MaxWork = 1
  MaxHeight = 2
INVARIANT PlannedSlotHolds
PROPERTIES
  NoEarlyFallback
  BlocksKeepComing
CHECK_DEADLOCK FALSE
