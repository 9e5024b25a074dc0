SPECIFICATION MintSpec
CONSTANTS
  root = root
  bob = bob
  NoOwner = NoOwner
  NoAllowance = NoAllowance
  Infinity = Infinity
  Lookback = 2
  LookbackTx = 3
  Rank <- MCRank
  MintUsers = {root, bob}
  Fulfillers = {root}
  Deployments <- OneWayForNFTs
  MaxSupply = 2
  MaxCapacity = 3
  MaxNftMint = 2
  MaxBatch = 1
  MaxQuantity = 2
  MaxTime = 5
  MaxEntries = 3
INVARIANTS MintTypeOK LimitsHoldInBursts InstancesAreUnique
PROPERTY MintsSpendAllowances
CHECK_DEADLOCK FALSE
