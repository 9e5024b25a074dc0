SPECIFICATION SwapSpec
CONSTANTS
  alice = alice
  bob = bob
  s1 = s1
  s2 = s2
  gold = gold
  Users = {alice, bob}
  Names = {s1, s2, none}
  None = None
  Authorities = {bob}
  MaxSupply = 1
  Times = {1, 2}
  Fungibles = {gold}
  InitialCoins <- MCInitialCoins
  SwapIds = {s1, s2}
  Terms <- MCTerms
  SwapExpiries = {0, 2}
  FillUses = {1, 2}
  Recipients = {None}
  LockExpiries = {0, 2}
  OldSwaps <- MCOldSwaps
  SwapAllowances <- MCSwapAllowances
INVARIANTS OwnershipAgrees LockedIsThere LockedCoinsAreCovered OfferIsHeld OverIsFree SwapsAreFound
CHECK_DEADLOCK FALSE
