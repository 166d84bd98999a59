SPECIFICATION Spec
CONSTANTS
  n1 = n1
  n2 = n2
  n3 = n3
  Nodes <- MCNodes
  Founders <- MCFounders
  Gaps <- MCGaps
  RETARGET_INTERVAL = 3
  TARGET_BLOCK_SECONDS = 15
  MIN_DIFFICULTY = 1
  MAX_DIFFICULTY = 3
  GenesisDifficulty = 2
  FinalityDepth = 2
  MaxHeight = 6
  MaxBlocks = 9
SYMMETRY MCSymmetry
INVARIANTS
  TypeOK
  SealedBlocksFit
  BundlesRestore
PROPERTIES
  ImplementsFullNetwork
CHECK_DEADLOCK FALSE
