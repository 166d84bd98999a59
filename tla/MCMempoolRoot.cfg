SPECIFICATION Spec
CONSTANTS
  a = a
  b = b
  c = c
  Handlers = {h1, h2}
  Users <- MCUsers
  Ids <- MCIds
  Txs <- MCTxs
  Anchors <- MCAnchors
  Funds <- MCFunds
  MAX_PENDING_TXS = 3
  MAX_BLOCK_TXS = 2
  PeerBlockTxs = 2
  TX_FEE = 1
  BASE_FEE_MAX = 2
  BASE_FEE_TARGET_TXS = 1
INVARIANT PlannedRootIsExecuted
