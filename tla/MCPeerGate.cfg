SPECIFICATION Spec
CONSTANTS
  honest = honest
  other = other
  b1 = b1
  b2 = b2
  late = late
  fork = fork
  junk = junk
  garbled = garbled
  Peers <- MCPeers
  Honest <- MCHonest
  Envelopes <- MCEnvelopes
  From <- MCFrom
  Says <- MCSays
  CAPACITY = 2
  INITIAL_SCORE <- MCInitialScore
  BAN_THRESHOLD <- MCBanThreshold
  GOOD_DELTA = 1
  BAD_DELTA <- MCBadDelta
  SCORE_MIN <- MCScoreMin
  SCORE_MAX = 2
  BAN_TIME = 2
  MaxTip = 2
  MaxHandlers = 2
INVARIANT RelayingIsFree
PROPERTIES
  ReplayNeedsFlood
  BansAreEarned
  EveryBanEnds
