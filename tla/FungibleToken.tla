---------------------------- MODULE FungibleToken ----------------------------
(***************************************************************************)
(* The balances of one fungible token class, and the operations on them:   *)
(* transferToken, lockToken, unlockFungibleToken, burnTokens and the mint  *)
(* (src/chaincode/src/transfer, locks, burns, mint).  Each is a            *)
(* transaction, atomic as GalaTransaction shows.  A step is labelled with  *)
(* the caller and the transaction time.  The client sets that time, so it  *)
(* need not grow from one transaction to the next.                         *)
(***************************************************************************)
EXTENDS TokenBalance, FiniteSets

CONSTANTS
  Authorities,     \* of the token class
  MaxSupply,       \* of the token class
  Times,           \* of transactions
  Expiries,        \* of holds: times, and 0 for never
  VestingStarts,   \* of holds: times, and None
  VestingPeriods,  \* of new classes: [start, expires]
  LockAuthorities, \* of holds: users, and None
  MaxHolds,        \* bound of the model: holds in one balance
  MaxBatch         \* bound of the model: quantities in one call

ASSUME SupplyAssumption == IsFiniteSet(Users) /\ MaxSupply \in Nat \ {0}
ASSUME AuthoritiesAssumption ==
  /\ Authorities \subseteq Users /\ LockAuthorities \subseteq Users \cup {None}
  /\ None \in Names /\ None \notin Users
ASSUME TimesAssumption ==
  /\ Times \subseteq Nat \ {0} /\ Expiries \subseteq Nat /\ VestingStarts \ {None} \subseteq Nat \ {0}
  /\ VestingPeriods \subseteq [start : Nat \ {0}, expires : Nat]

VARIABLES
  balances,   \* [Users -> balance]
  minted,     \* the quantity minted so far
  burnt,      \* the quantity of all TokenBurn records
  latest,     \* the latest time of a transaction so far
  last        \* the caller and the time of the last transaction

vars == <<balances, minted, burnt, latest, last>>

Quantities == 1 .. MaxSupply
UsersIfAny == Users \cup {None}

(***************************************************************************)
(* The calls.  A user that is left out is the caller.  A quantity of a     *)
(* batch to lock names no owner: fungible tokens are locked by their owner *)
(* alone.                                                                  *)
(***************************************************************************)
TransferTokenDtos == [from : UsersIfAny, to : Users, quantity : Quantities]
LockTokenDtos ==
  [owner : UsersIfAny, lockAuthority : LockAuthorities, quantity : Quantities,
   vestingPeriodStart : VestingStarts]
UnlockTokenDtos == [owner : UsersIfAny, quantity : Quantities, lockedHoldName : Names]

BurnTokenQuantities == Quantities
LockTokenQuantities == [owner : UsersIfAny, quantity : Quantities]
IsBatch(quantities) == SumFunction(quantities) <= MaxSupply
Batches(set) == UNION {[1 .. n -> set] : n \in 1 .. MaxBatch}

BurnTokensDtos ==
  [tokenInstances : {b \in Batches(BurnTokenQuantities) : IsBatch(b)}, owner : UsersIfAny]
LockTokensDtos ==
  [lockAuthority : LockAuthorities, tokenInstances : {b \in Batches(Quantities) : IsBatch(b)},
   name : Names, expires : Expiries]
UnlockTokensDtos ==
  [tokenInstances : {b \in Batches(LockTokenQuantities) : IsBatch([i \in DOMAIN b |-> b[i].quantity])},
   name : Names]

OrCaller(user, by) == IF user = None THEN by ELSE user

Latest(now) == IF now > latest THEN now ELSE latest

Called(by, now) == /\ last' = [caller |-> by, time |-> now]
                   /\ latest' = Latest(now)

Init == /\ balances = [u \in Users |-> EmptyBalance]
        /\ minted = 0
        /\ burnt = 0
        /\ latest = 0
        /\ last = [caller |-> None, time |-> 0]

\* The caller has a mint allowance of an authority.
Mint(by, to, q, now) ==
  /\ minted + q <= MaxSupply
  /\ minted' = minted + q
  /\ balances' = [balances EXCEPT ![to] = AddQuantity(@, q)]
  /\ Called(by, now)
  /\ UNCHANGED burnt

(***************************************************************************)
(* Both balances are fetched, changed and put, the recipient's last: were  *)
(* they the same, the put of the sender's would be lost.  The owner calls, *)
(* or a user with an allowance (see Allowances).                           *)
(***************************************************************************)
TransferToAnyone(by, from, to, q, now) ==
  /\ IsSpendable(balances[from], q, now)
  /\ balances' = [balances EXCEPT ![from] = SubtractQuantity(balances[from], q),
                                  ![to] = AddQuantity(balances[to], q)]
  /\ Called(by, now)
  /\ UNCHANGED <<minted, burnt>>

Transfer(by, from, to, q, now) ==
  /\ from # to
  /\ IsSpendable(balances[from], q, now)
  /\ balances' = [balances EXCEPT ![from] = SubtractQuantity(balances[from], q),
                                  ![to] = AddQuantity(balances[to], q)]
  /\ Called(by, now)
  /\ UNCHANGED <<minted, burnt>>

TransferToken(by, dto, now) == Transfer(by, OrCaller(dto.from, by), dto.to, dto.quantity, now)

BurnLocked(by, owner, q, now) ==
  /\ balances[owner].quantity >= q
  /\ balances' = [balances EXCEPT ![owner] = SubtractQuantity(@, q)]
  /\ burnt' = burnt + q
  /\ Called(by, now)
  /\ UNCHANGED minted

Burn(by, owner, q, now) ==
  /\ IsSpendable(balances[owner], q, now)
  /\ balances' = [balances EXCEPT ![owner] = SubtractQuantity(@, q)]
  /\ burnt' = burnt + q
  /\ Called(by, now)
  /\ UNCHANGED minted

\* The quantities of one token instance are burnt as their sum.
AggregateBurnQuantities(quantities) == SumFunction(quantities)

BurnTokens(by, dto, now) ==
  Burn(by, OrCaller(dto.owner, by), AggregateBurnQuantities(dto.tokenInstances), now)

-----------------------------------------------------------------------------
(* Locks and unlocks.                                                      *)

\* A hold that the caller puts on his own tokens.
Hold(by, q, expires, name, authority, vestingStart) ==
  [quantity |-> q, expires |-> expires, name |-> name, createdBy |-> by,
   lockAuthority |-> authority, vestingStart |-> vestingStart]

\* The balance after the lock, if the tokens are there.
LockInto(locked, hold, now) ==
  [isSpendable |-> locked.isSpendable /\ IsSpendable(locked.balance, hold.quantity, now),
   balance     |-> LockQuantity(locked.balance, hold, now)]

\* One after the other; what the first one locks, the next cannot.
LockAll(balance, holds, now) ==
  FoldLeft(LAMBDA acc, hold : LockInto(acc, hold, now), [isSpendable |-> TRUE, balance |-> balance], holds)

LockHolds(by, holds, now) ==
  LET locked == LockAll(balances[by], holds, now)
  IN  /\ \A i \in DOMAIN holds : holds[i].expires > 0 => holds[i].expires >= now
      /\ locked.isSpendable
      /\ balances' = [balances EXCEPT ![by] = locked.balance]
      /\ Len(locked.balance.holds) <= MaxHolds
      /\ Called(by, now)
      /\ UNCHANGED burnt

(***************************************************************************)
(* The hold never expires, and with a vesting start it is one that nobody  *)
(* can unlock.  It locks the whole quantity up to the start, and from then *)
(* on, being past its expiry of 0, nothing.                                *)
(***************************************************************************)
LockToken(by, dto, now) ==
  /\ dto.owner \in {None, by}
  /\ LockHolds(by, <<Hold(by, dto.quantity, 0, None, dto.lockAuthority, dto.vestingPeriodStart)>>, now)
  /\ UNCHANGED minted

LockTokens(by, dto, now) ==
  /\ LockHolds(by, [i \in DOMAIN dto.tokenInstances |->
                      Hold(by, dto.tokenInstances[i], dto.expires, dto.name, dto.lockAuthority, None)], now)
  /\ UNCHANGED minted

\* Of a new class: the supply is minted for the owner of an allocation, and held
\* until it has vested (see TokenClasses).
CreateVestingToken(by, owner, period, now) ==
  LET hold == Hold(owner, MaxSupply, period.expires, None, by, period.start)
  IN  /\ latest = 0 /\ by \in Authorities
      /\ period.expires >= now
      /\ minted' = MaxSupply
      /\ balances' = [balances EXCEPT ![owner] = LockQuantity(AddQuantity(@, MaxSupply), hold, now)]
      /\ Called(by, now)
      /\ UNCHANGED burnt

\* What unlockFungibleToken can make of the balances.
Unlocked(held, by, owner, q, name, now) ==
  LET results == {UnlockQuantity(held[owner], q, now, name, owner, by, by \in Authorities, order) :
                    order \in VisitOrders(UnexpiredHolds(held[owner], now))}
  IN  {[held EXCEPT ![owner].holds = result.kept] : result \in {r \in results : r.remaining = 0}}

UnlockToken(by, dto, now) ==
  /\ balances' \in Unlocked(balances, by, OrCaller(dto.owner, by), dto.quantity, dto.lockedHoldName, now)
  /\ Called(by, now)
  /\ UNCHANGED <<minted, burnt>>

\* What unlocking the quantities one after the other can make of the balances.
UnlockFrom(outcomes, by, t, name, now) ==
  UNION {Unlocked(held, by, OrCaller(t.owner, by), t.quantity, name, now) : held \in outcomes}

UnlockAll(held, by, quantities, name, now) ==
  FoldLeft(LAMBDA outcomes, t : UnlockFrom(outcomes, by, t, name, now), {held}, quantities)

UnlockTokens(by, dto, now) ==
  /\ balances' \in UnlockAll(balances, by, dto.tokenInstances, dto.name, now)
  /\ Called(by, now)
  /\ UNCHANGED <<minted, burnt>>

Next == \E by \in Users, now \in Times :
  \/ \E to \in Users, q \in Quantities : Mint(by, to, q, now)
  \/ \E dto \in TransferTokenDtos : TransferToken(by, dto, now)
  \/ \E dto \in BurnTokensDtos : BurnTokens(by, dto, now)
  \/ \E dto \in LockTokenDtos : LockToken(by, dto, now)
  \/ \E dto \in LockTokensDtos : LockTokens(by, dto, now)
  \/ \E owner \in Users, period \in VestingPeriods : CreateVestingToken(by, owner, period, now)
  \/ \E dto \in UnlockTokenDtos : UnlockToken(by, dto, now)
  \/ \E dto \in UnlockTokensDtos : UnlockTokens(by, dto, now)

Spec == Init /\ [][Next]_vars

-----------------------------------------------------------------------------

\* The types of the variables.
TypeOK ==
  /\ \A u \in Users : /\ balances[u].quantity \in Nat
                      /\ balances[u].holds \in Seq(Holds(Quantities, Nat))
  /\ minted \in 0 .. MaxSupply
  /\ burnt \in 0 .. MaxSupply
  /\ latest \in Times \cup {0}

TotalBalance == SumFunction([u \in Users |-> balances[u].quantity])

\* Tokens are neither created nor lost but by the mint and by burns.
Conservation == TotalBalance + burnt = minted

(***************************************************************************)
(* What is locked is there: from the latest transaction on, the holds of a *)
(* balance never add up to more than its quantity, whatever the times the  *)
(* clients gave to earlier transactions.                                   *)
(***************************************************************************)
LockedIsCovered ==
  \A u \in Users : \A t \in Times :
    t >= latest => LockedQuantity(balances[u], t) <= balances[u].quantity

(***************************************************************************)
(* "User who will be able to unlock token" (TokenHold.lockAuthority): what *)
(* is held for a lock authority, and has not expired, is released only by  *)
(* that user or by an authority of the token class, and a vesting hold by  *)
(* nobody.                                                                 *)
(***************************************************************************)
HeldFor(balance, authority, now) ==
  LET isHeld(h) == ~IsExpired(h, now) /\ h.lockAuthority = authority /\ ~IsVesting(h)
  IN  SumFunction([i \in DOMAIN balance.holds |->
                     IF isHeld(balance.holds[i]) THEN balance.holds[i].quantity ELSE 0])

VestingHolds(balance, now) == {h \in ToSet(balance.holds) : ~IsExpired(h, now) /\ IsVesting(h)}

HoldsAreRespected ==
  [][\A u \in Users : balances'[u] # balances[u] =>
       LET now == last'.time
       IN  /\ \A authority \in Users :
                HeldFor(balances'[u], authority, now) < HeldFor(balances[u], authority, now)
                  => last'.caller \in Authorities \cup {authority}
           /\ VestingHolds(balances[u], now) \subseteq VestingHolds(balances'[u], now)]_vars
=============================================================================
