---------------------------- MODULE TokenClasses ----------------------------
(***************************************************************************)
(* How a token class comes about and is administered                       *)
(* (src/chaincode/src/token, nftCollections, vesting, and the              *)
(* configuration of mints): one class key, which is created as it is, in a *)
(* collection of NFTs, or with vesting allocations, and then updated,      *)
(* configured, minted, transferred and unlocked.                           *)
(*                                                                         *)
(* Each action is an atomic transaction at a time that its client sets.  A *)
(* percentage is one of a hundred.                                         *)
(***************************************************************************)
EXTENDS TokenBalance, FiniteSetsExt

CONSTANTS
  Curators,        \* users of the curators' organization
  MaxSupply,       \* of the class
  Allocations,     \* sequences of [owner, quantity, cliff, vestingDays]
  StartDates,      \* of vesting, in days
  Configurations,  \* what clients ask for: [preMintBurn, postMintBurn, postMintLock]
  Expiration,      \* postMintLock.expirationModifier
  LockAuthority,   \* postMintLock.lockAuthority
  Times,           \* of transactions, in days
  MaxHolds         \* bound of the model: holds in one balance

Allocation == [owner : Users, quantity : Nat, cliff : Nat, vestingDays : Nat, name : Names]

\* The percentages of a burn and of a lock, or None.
IsBurnToMint(c) == c = None \/ c \in 0 .. 100
IsPostMintLock(c) == c = None \/ c \in 0 .. 100

ASSUME ClassAssumption ==
  /\ IsFiniteSet(Users) /\ Curators \subseteq Users /\ LockAuthority \in Users
  /\ MaxSupply \in Nat \ {0} /\ Times \subseteq Nat \ {0} /\ StartDates \subseteq Nat
  /\ Allocations \subseteq Seq(Allocation)
  /\ Expiration \in Nat /\ "postMintLock" \in Names

VARIABLES
  class,          \* the TokenClass, or None
  authorized,     \* NftCollectionAuthorization.authorizedUsers, or None
  vesting,        \* the VestingToken, or None
  configuration,  \* the TokenMintConfiguration, or None
  balances,       \* of each user
  latest          \* the latest time of a transaction so far

vars == <<class, authorized, vesting, configuration, balances, latest>>

Quantities == 1 .. MaxSupply
Authorities == (SUBSET Users) \ {{}}

\* The objects on the chain.
TokenClassObjects == [isNonFungible : BOOLEAN, authorities : Authorities, totalSupply : 0 .. MaxSupply]
VestingTokens == [startDate : StartDates, allocations : Allocations]
NftCollectionAuthorizations == SUBSET Users

ASSUME NoneAssumption == None \notin Nat /\ None \notin TokenClassObjects /\ None \notin VestingTokens

\* The calls.
CreateTokenClassDtos == [isNonFungible : BOOLEAN, authorities : Authorities \cup {None}]
UpdateTokenClassDtos == [authorities : Authorities, overwriteAuthorities : BOOLEAN]
CreateNftCollectionDtos == [authorities : Authorities \cup {None}]
CreateVestingTokenDtos ==
  [authorities : Authorities \cup {None}, startDate : StartDates, allocations : Allocations]
GrantNftCollectionAuthorizationDtos == [authorizedUser : Users]
RevokeNftCollectionAuthorizationDtos == [authorizedUser : Users]

TokenMintConfigurationDtos ==
  {c \in Configurations : /\ IsBurnToMint(c.preMintBurn) /\ IsBurnToMint(c.postMintBurn)
                          /\ IsPostMintLock(c.postMintLock)}

GivenAuthorities(dto, by) == IF dto.authorities = None THEN {by} ELSE dto.authorities

Init ==
  /\ class = None /\ authorized = None /\ vesting = None /\ configuration = None
  /\ balances = [u \in Users |-> EmptyBalance]
  /\ latest = 0

At(t) == latest' = Max({latest, t})

-----------------------------------------------------------------------------
(* Classes and collections.                                                *)

\* A class key is used once.
CreateTokenClass(isNonFungible, authorities, supply) ==
  /\ class = None
  /\ class' = [isNonFungible |-> isNonFungible, authorities |-> authorities, totalSupply |-> supply]

CreateClass(by, dto) ==
  /\ by \in Curators
  /\ CreateTokenClass(dto.isNonFungible, GivenAuthorities(dto, by), 0)
  /\ UNCHANGED <<authorized, vesting, configuration, balances>>

UpdateTokenClass(by, dto) ==
  /\ by \in Curators /\ class # None /\ by \in class.authorities
  /\ class' = [class EXCEPT !.authorities =
                 IF dto.overwriteAuthorities THEN dto.authorities ELSE @ \cup dto.authorities]
  /\ UNCHANGED <<authorized, vesting, configuration, balances>>

\* Who may call this is up to the contract that has the method.
GrantNftCollectionAuthorization(dto) ==
  /\ authorized' = {dto.authorizedUser} \cup IF authorized = None THEN {} ELSE authorized
  /\ UNCHANGED <<class, vesting, configuration, balances>>

\* The last one may revoke his own authorization: the object stays, with no user.
RevokeNftCollectionAuthorization(by, dto) ==
  /\ authorized # None /\ by \in authorized
  /\ authorized' = authorized \ {dto.authorizedUser}
  /\ UNCHANGED <<class, vesting, configuration, balances>>

CreateNftCollection(by, dto) ==
  /\ authorized # None /\ by \in authorized
  /\ CreateTokenClass(TRUE, GivenAuthorities(dto, by), 0)
  /\ UNCHANGED <<authorized, vesting, configuration, balances>>

-----------------------------------------------------------------------------
(* Vesting.                                                                *)

VestingHoldOfDays(a, startDate, by, t) ==
  [quantity |-> a.quantity, expires |-> Max({startDate + a.vestingDays, t}), name |-> a.name,
   createdBy |-> a.owner, lockAuthority |-> by, vestingStart |-> startDate + a.cliff]

VestingHold(a, startDate, by, t) ==
  LET start   == startDate + a.cliff
      expires == IF a.cliff = 0 THEN startDate ELSE start + a.vestingDays
  IN  [quantity |-> a.quantity, expires |-> Max({expires, t}), name |-> a.name,
       createdBy |-> a.owner, lockAuthority |-> by,
       vestingStart |-> IF start = 0 THEN None ELSE start]

\* The quantity is minted for its owner, and locked by the one who calls.
Allocate(held, a, startDate, by, t) ==
  [held EXCEPT ![a.owner] = LockQuantity(AddQuantity(@, a.quantity), VestingHold(a, startDate, by, t), t)]

AllocationTotal(allocations) == FoldLeft(LAMBDA sum, a : sum + a.quantity, 0, allocations)

\* The caller grants himself what he mints, so he is one of the authorities.
CreateVestingToken(by, dto, t) ==
  /\ by \in Curators \cap GivenAuthorities(dto, by)
  /\ AllocationTotal(dto.allocations) = MaxSupply
  /\ CreateTokenClass(FALSE, GivenAuthorities(dto, by), MaxSupply)
  /\ balances' = FoldLeft(LAMBDA held, a : Allocate(held, a, dto.startDate, by, t),
                          balances, dto.allocations)
  /\ vesting' = [startDate |-> dto.startDate, allocations |-> dto.allocations]
  /\ UNCHANGED <<authorized, configuration>>

-----------------------------------------------------------------------------
(* Mints, with what is configured to be done before and after them.        *)

\* times(percentage), rounded down to the decimals of the class.
Part(q, percentage) == (q * percentage) \div 100

Percentage(field) == IF field = None THEN 0 ELSE field

\* validatePostProcessingTotals.
IsWithinMint(c) == Percentage(c.postMintBurn) + Percentage(c.postMintLock) <= 100

TokenMintConfigurations == {c \in TokenMintConfigurationDtos : IsWithinMint(c)}

SaveAnyConfiguration(by, c) ==
  /\ class # None /\ by \in Curators \cup class.authorities
  /\ configuration' = c
  /\ UNCHANGED <<class, authorized, vesting, balances>>

SaveTokenMintConfiguration(by, c) ==
  /\ class # None /\ by \in Curators \cup class.authorities
  /\ IsWithinMint(c)
  /\ configuration' = c
  /\ UNCHANGED <<class, authorized, vesting, balances>>

DeleteTokenMintConfiguration(by) ==
  /\ configuration # None /\ by \in Curators \cup class.authorities
  /\ configuration' = None
  /\ UNCHANGED <<class, authorized, vesting, balances>>

Configured(field) ==
  configuration # None /\ ~class.isNonFungible /\ configuration[field] # None

\* burnToMintProcessing, of the one who gets the tokens.
CanBurnToMint(field, balance, q, t) ==
  Configured(field) => IsSpendable(balance, Part(q, configuration[field]), t)

BurnToMint(field, balance, q) ==
  IF Configured(field) THEN SubtractQuantity(balance, Part(q, configuration[field])) ELSE balance

\* lockOnMintProcessing: fungible tokens are locked by their owner alone.  The names of
\* its holds differ by the transaction: who unlocks several of them may do so one by one.
CanLockOnMint(balance, owner, by, q, t) ==
  Configured("postMintLock") =>
    by = owner /\ IsSpendable(balance, Part(q, configuration.postMintLock), t)

LockOnMint(balance, owner, q, t) ==
  IF Configured("postMintLock")
  THEN LockQuantity(balance, [quantity |-> Part(q, configuration.postMintLock),
                              expires |-> t + Expiration, name |-> "postMintLock", createdBy |-> owner,
                              lockAuthority |-> LockAuthority, vestingStart |-> None], t)
  ELSE balance

IsWithinSupplyBefore(q) == class.totalSupply <= MaxSupply

IsWithinSupply(q) == class.totalSupply + q <= MaxSupply

(***************************************************************************)
(* MintTokenWithAllowance with its entry and exit gates, which are parts   *)
(* of the transaction (of an NFT class, nothing of it is on balances).     *)
(***************************************************************************)
MintToken(by, owner, q, t) ==
  LET before == BurnToMint("preMintBurn", balances[owner], q)
      minted == AddQuantity(before, q)
      burnt  == BurnToMint("postMintBurn", minted, q)
  IN  /\ class # None /\ ~class.isNonFungible /\ by \in class.authorities
      /\ IsWithinSupply(q)
      /\ CanBurnToMint("preMintBurn", balances[owner], q, t)
      /\ CanBurnToMint("postMintBurn", minted, q, t)
      /\ CanLockOnMint(burnt, owner, by, q, t)
      /\ class' = [class EXCEPT !.totalSupply = @ + q]
      /\ balances' = [balances EXCEPT ![owner] = LockOnMint(burnt, owner, q, t)]
      /\ Len(balances'[owner].holds) <= MaxHolds
      /\ UNCHANGED <<authorized, vesting, configuration>>

Transfer(from, to, q, t) ==
  /\ from # to
  /\ IsSpendable(balances[from], q, t)
  /\ balances' = [balances EXCEPT ![from] = SubtractQuantity(@, q), ![to] = AddQuantity(@, q)]
  /\ UNCHANGED <<class, authorized, vesting, configuration>>

Unlock(by, owner, q, name, t) ==
  /\ class # None
  /\ \E order \in VisitOrders(UnexpiredHolds(balances[owner], t)) :
       LET result == UnlockQuantity(balances[owner], q, t, name, owner, by, by \in class.authorities, order)
       IN  /\ result.remaining = 0
           /\ balances' = [balances EXCEPT ![owner].holds = result.kept]
  /\ UNCHANGED <<class, authorized, vesting, configuration>>

NextClass(by, t) ==
  \/ \E dto \in CreateTokenClassDtos : CreateClass(by, dto)
  \/ \E dto \in UpdateTokenClassDtos : UpdateTokenClass(by, dto)
  \/ \E dto \in CreateNftCollectionDtos : CreateNftCollection(by, dto)
  \/ \E dto \in CreateVestingTokenDtos : CreateVestingToken(by, dto, t)
  \/ \E dto \in GrantNftCollectionAuthorizationDtos : GrantNftCollectionAuthorization(dto)
  \/ \E dto \in RevokeNftCollectionAuthorizationDtos : RevokeNftCollectionAuthorization(by, dto)
  \/ \E dto \in TokenMintConfigurationDtos : SaveTokenMintConfiguration(by, dto)
  \/ DeleteTokenMintConfiguration(by)

Next == \E by \in Users, t \in Times :
  /\ At(t)
  /\ \/ NextClass(by, t)
     \/ \E u \in Users, q \in Quantities :
          \/ MintToken(by, u, q, t)
          \/ Transfer(by, u, q, t)
          \/ \E name \in Names : Unlock(by, u, q, name, t)

Spec == Init /\ [][Next]_vars

-----------------------------------------------------------------------------

\* The types of the variables.
TypeOK ==
  /\ class \in TokenClassObjects \cup {None}
  /\ vesting \in VestingTokens \cup {None}
  /\ authorized \in NftCollectionAuthorizations \cup {None}
  /\ configuration \in TokenMintConfigurations \cup {None}
  /\ \A u \in Users : balances[u].quantity \in 0 .. MaxSupply
  /\ latest \in Times \cup {0}

(***************************************************************************)
(* "Number of full calendar days in the cliff period before linear vesting *)
(* begins", "Number of full calendar days over which the allocation vests  *)
(* after the cliff" (VestingToken.ts): what has not vested by the latest   *)
(* transaction is in the balance of its owner.                             *)
(***************************************************************************)
Unvested(a, startDate, t) ==
  LET start == startDate + a.cliff
      end   == start + a.vestingDays
  IN  CASE t < start -> a.quantity
        [] t >= end  -> 0
        [] OTHER     -> (a.quantity * (end - t)) \div a.vestingDays

VestsOnSchedule ==
  vesting # None => \A u \in Users :
    balances[u].quantity >=
      FoldLeft(LAMBDA sum, a : sum + IF a.owner = u THEN Unvested(a, vesting.startDate, latest) ELSE 0,
               0, vesting.allocations)

(***************************************************************************)
(* What is minted suffices for what is burnt and locked of it              *)
(* (validatePostProcessingTotals): of whatever quantity, and whatever is   *)
(* locked of the balance already, no mint for oneself fails after it.      *)
(***************************************************************************)
MintIsCovered ==
  configuration # None /\ ~class.isNonFungible =>
    \A u \in Users, q \in Quantities, t \in Times :
      LET minted == AddQuantity(balances[u], q)
          burnt  == BurnToMint("postMintBurn", minted, q)
      IN  t >= latest => /\ CanBurnToMint("postMintBurn", minted, q, t)
                         /\ CanLockOnMint(burnt, u, u, q, t)
=============================================================================
