SPECIFICATION Spec
CONSTANTS
  alice = alice
  issuer = issuer
  Users <- MCUsers
  Names = {None}
  None = None
  Authorities = {issuer}
  MaxSupply = 2
  LockAuthorities = {None, issuer}
  Times = {2, 4}
  Expiries = {0, 3}
  VestingStarts = {None, 3}
  VestingPeriods <- MCVestingPeriods
  MaxHolds = 2
  MaxBatch = 2
INVARIANTS TypeOK Conservation LockedIsCovered
PROPERTY HoldsAreRespected
CHECK_DEADLOCK FALSE
