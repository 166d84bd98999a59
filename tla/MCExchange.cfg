SPECIFICATION Spec
CONSTANTS
  Users = {u1, u2}
  AMM_POOL_ACCOUNT = pool
  Endowment = 20
  BaseFee = 1
  MINIMUM_LIQUIDITY = 1
  SWAP_FEE_BPS = 30
  AMM_FEE_DENOM = 10000
  MAX_U64 = 63
  Amounts = {2, 3, 7}
  MaxTokens = 2
  MaxNonce = 3
SYMMETRY MCUserSymmetry
INVARIANTS
  TypeOK
  UnitsConserved
  SharesUnderRoot
  ReservesNeverEmpty
  PoolsBacked
PROPERTY ShareValueNeverDrops
CHECK_DEADLOCK FALSE
