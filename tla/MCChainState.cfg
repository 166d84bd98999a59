SPECIFICATION Spec
CONSTANTS
  Users = {u1, u2}
  Treasury = u1
  NoProducer = none
  STAKING_POOL_ACCOUNT = stakingPool
  VESTING_POOL_ACCOUNT = vestingPool
  Allowlist = {}
  InitialSupply = 16
  GENESIS_VALIDATOR_STAKE = 8
  MIN_VALIDATOR_STAKE = 4
  TX_FEE = 1
  BASE_FEE_MAX = 3
  BASE_FEE_TARGET_TXS = 1
  SLASH_PERCENT = 45
  UNBONDING_BLOCKS = 1
  SLASHING_WINDOW_BLOCKS = 1
  BlockReward <- MCBlockReward
  MAX_U64 = 24
  Amounts = {4, 24}
  CredentialIds = {c1}
  Schedules <- MCSchedules
  MaxNonce = 2
  MaxHeight = 3
INVARIANTS
  TypeOK
  SupplyConserved
  PoolsSolvent
  SupplyOnSchedule
  OffenceStaysPunishable
  ExitsSettled
  VestingOnSchedule
PROPERTIES
  OnlyOwnersAct
  ImplementsFeeMarket
CHECK_DEADLOCK FALSE
