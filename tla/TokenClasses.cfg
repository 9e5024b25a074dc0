SPECIFICATION Spec
CONSTANTS
  alice = alice
  curator = curator
  first = first
  second = second
  None = None
  Users = {alice, curator}
  Names = {first, second, "postMintLock"}
  Curators = {curator}
  MaxSupply = 2
  Allocations <- MCAllocations
  StartDates = {1}
  Configurations <- MCConfigurations
  Expiration = 1
  LockAuthority = curator
  Times = {1, 2, 3, 4}
  MaxHolds = 2
INVARIANTS TypeOK VestsOnSchedule MintIsCovered
CHECK_DEADLOCK FALSE
