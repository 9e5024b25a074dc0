---------------------------- MODULE TokenBalance ----------------------------
(***************************************************************************)
(* The fungible half of TokenBalance and TokenHold                         *)
(* (src/chain-api/src/types/TokenBalance.ts): what its methods compute.    *)
(*                                                                         *)
(* Quantities are integers: multiples of the smallest amount that a        *)
(* BigNumber division yields.  A vesting hold releases its quantity        *)
(* linearly over time, and that division rounds half up.                   *)
(***************************************************************************)
EXTENDS Integers, SequencesExt

CONSTANTS
  Users,
  Names,   \* of holds, NoName included
  None     \* a field that is not there

EmptyBalance == [quantity |-> 0, holds |-> << >>]

Holds(quantities, times) ==
  [quantity : quantities, expires : times, name : Names, createdBy : Users,
   lockAuthority : Users \cup {None}, vestingStart : times \cup {None}]

\* A hold that expires at time 0 never does.
IsExpired(hold, now) == hold.expires # 0 /\ now > hold.expires

UnexpiredHolds(balance, now) ==
  LET kept[n \in 0 .. Len(balance.holds)] ==
        IF n = 0 THEN << >>
        ELSE IF IsExpired(balance.holds[n], now) THEN kept[n - 1]
        ELSE Append(kept[n - 1], balance.holds[n])
  IN  kept[Len(balance.holds)]

IsVesting(hold) == hold.vestingStart # None

LockedVestingQuantity(hold, now) ==
  IF now < hold.vestingStart THEN hold.quantity
  ELSE IF now > hold.expires THEN 0
  ELSE LET period == hold.expires - hold.vestingStart
           vested == (2 * hold.quantity * (now - hold.vestingStart) + period) \div (2 * period)
       IN  hold.quantity - vested

HoldQuantity(hold, now) ==
  IF IsVesting(hold) THEN LockedVestingQuantity(hold, now) ELSE hold.quantity

\* What the holds that have not expired lock.
LockedQuantity(balance, now) ==
  SumFunction([i \in DOMAIN balance.holds |->
                 IF IsExpired(balance.holds[i], now) THEN 0 ELSE HoldQuantity(balance.holds[i], now)])

SpendableQuantity(balance, now) == balance.quantity - LockedQuantity(balance, now)

(***************************************************************************)
(* ensureQuantityIsSpendable, and the check of the balance that is put.    *)
(* Where a vesting hold starts and expires at once, at that time its       *)
(* locked quantity is zero over zero: nothing is less than that.           *)
(***************************************************************************)
IsNaN(hold, now) == IsVesting(hold) /\ now = hold.vestingStart /\ now = hold.expires

IsSpendable(balance, q, now) ==
  /\ q <= balance.quantity
  /\ \/ \E h \in ToSet(balance.holds) : IsNaN(h, now)
     \/ SpendableQuantity(balance, now) >= q

AddQuantity(balance, q) == [balance EXCEPT !.quantity = @ + q]

\* The expired holds stay in the balance.
SubtractQuantity(balance, q) == [balance EXCEPT !.quantity = @ - q]

LockQuantity(balance, hold, now) ==
  [balance EXCEPT !.holds = Append(UnexpiredHolds(balance, now), hold)]

IsCallingUserAuthorized(hold, name, owner, caller, isTokenAuthority) ==
  /\ hold.name = name
  /\ \/ isTokenAuthority
     \/ caller = hold.lockAuthority
     \/ hold.lockAuthority = None /\ caller \in {owner, hold.createdBy}

(***************************************************************************)
(* The orders in which unlockQuantity may visit the holds: the first to    *)
(* expire first, those that never expire last.  sortByAscendingExpiration  *)
(* calls each of two holds with the same expiry the smaller one, so their  *)
(* order is the engine's choice.                                           *)
(***************************************************************************)
ExpiresBefore(a, b) == a.expires # 0 /\ (b.expires = 0 \/ a.expires < b.expires)

VisitOrders(holds) ==
  LET n == Len(holds)
  IN  {order \in [1 .. n -> 1 .. n] :
         /\ IsInjective(order)
         /\ \A i, j \in 1 .. n : i < j => ~ExpiresBefore(holds[order[j]], holds[order[i]])}

(***************************************************************************)
(* One turn of the loop of unlockQuantity: a hold of another name, user or *)
(* kind is kept; of the others as much is released as is still to unlock.  *)
(***************************************************************************)
UnlockHoldOfAnyUser(hold, name, owner, caller, isTokenAuthority, acc) ==
  IF IsVesting(hold) \/ hold.name # name
  THEN [acc EXCEPT !.kept = Append(@, hold)]
  ELSE IF hold.quantity <= acc.remaining
  THEN [acc EXCEPT !.remaining = @ - hold.quantity]
  ELSE [remaining |-> 0, kept |-> Append(acc.kept, [hold EXCEPT !.quantity = @ - acc.remaining])]

UnlockHoldBelow(hold, name, owner, caller, isTokenAuthority, acc) ==
  IF IsVesting(hold) \/ ~IsCallingUserAuthorized(hold, name, owner, caller, isTokenAuthority)
  THEN [acc EXCEPT !.kept = Append(@, hold)]
  ELSE IF hold.quantity < acc.remaining
  THEN [acc EXCEPT !.remaining = @ - hold.quantity]
  ELSE [remaining |-> 0, kept |-> Append(acc.kept, [hold EXCEPT !.quantity = @ - acc.remaining])]

UnlockHold(hold, name, owner, caller, isTokenAuthority, acc) ==
  IF IsVesting(hold) \/ ~IsCallingUserAuthorized(hold, name, owner, caller, isTokenAuthority)
  THEN [acc EXCEPT !.kept = Append(@, hold)]
  ELSE IF hold.quantity <= acc.remaining
  THEN [acc EXCEPT !.remaining = @ - hold.quantity]
  ELSE [remaining |-> 0, kept |-> Append(acc.kept, [hold EXCEPT !.quantity = @ - acc.remaining])]

\* What is left to unlock, and the holds that are kept.
UnlockQuantity(balance, q, now, name, owner, caller, isTokenAuthority, order) ==
  LET unexpired == UnexpiredHolds(balance, now)
  IN  FoldLeft(LAMBDA acc, i : UnlockHold(unexpired[i], name, owner, caller, isTokenAuthority, acc),
               [remaining |-> q, kept |-> << >>], order)
=============================================================================
