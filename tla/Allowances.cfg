SPECIFICATION Spec
CONSTANTS
  alice = alice
  carol = carol
  NoAllowance = NoAllowance
  Infinity = Infinity
  coin = coin
  nft = nft
  Permissions = {coin, nft}
  NFTs = {nft}
  Locks = {nft}
  Grantors = {alice, carol}
  Owners <- MCOwners
  Sources = {{alice}, {alice, carol}}
  Quantities = {1, 2, Infinity}
  Uses = {0, 2}
  Expiries = {0, 2}
  Times = {1, 2}
  MaxGrants = 2
  MaxUsesSpent = 2
  MaxNamed = 2
  MaxAllowances = 2
INVARIANTS TypeOK ClaimsWereGranted ChecksAgree
CHECK_DEADLOCK FALSE
