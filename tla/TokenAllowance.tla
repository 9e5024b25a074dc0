--------------------------- MODULE TokenAllowance ---------------------------
(***************************************************************************)
(* What the functions of src/chaincode/src/allowances compute from a map   *)
(* of allowances of one grantee.  A key is the rest of the chain key: what *)
(* the allowance is of, who granted it, and when.                          *)
(***************************************************************************)
EXTENDS Integers, SequencesExt, FiniteSetsExt

CONSTANTS
  Infinity,     \* the quantity of an allowance that does not count
  NoAllowance   \* of a key that has none

NewAllowance(quantity, uses, expires) ==
  [quantity |-> quantity, quantitySpent |-> 0, uses |-> uses, usesSpent |-> 0, expires |-> expires]

IsFinite(allowance) == allowance.quantity # Infinity

\* Of an allowance that does not count, uses are not counted either.
IsAllowanceSpent(allowance) ==
  /\ IsFinite(allowance)
  /\ \/ allowance.usesSpent >= allowance.uses
     \/ allowance.quantitySpent >= allowance.quantity

IsAllowanceExpired(allowance, now) == allowance.expires # 0 /\ allowance.expires <= now

(***************************************************************************)
(* Whether the grantor has the token is not asked here: every caller goes  *)
(* on to take it from the grantor's balance, and fails if it is not there. *)
(***************************************************************************)
IsAllowanceInvalid(allowance, now) == IsAllowanceSpent(allowance) \/ IsAllowanceExpired(allowance, now)

\* The conditions of grantAllowance, for another lock allowance, ...
AllowanceIsUseable(allowance, now) ==
  /\ ~IsAllowanceExpired(allowance, now)
  /\ IsFinite(allowance) => /\ allowance.usesSpent < allowance.uses
                            /\ allowance.quantitySpent < allowance.quantity

\* ... and those of fullAllowanceCheck.
IsUsedUpByQuantity(allowance, now) ==
  \/ IsFinite(allowance) /\ allowance.quantitySpent >= allowance.quantity
  \/ allowance.expires # 0 /\ allowance.expires <= now

IsUsedUp(allowance, now) ==
  \/ IsFinite(allowance) /\ \/ allowance.usesSpent >= allowance.uses
                            \/ allowance.quantitySpent >= allowance.quantity
  \/ allowance.expires # 0 /\ allowance.expires <= now

Existing(allowances) == {k \in DOMAIN allowances : allowances[k] # NoAllowance}

\* cleanAllowances deletes those of the keys that are invalid.
CleanAllowances(allowances, keys, now) ==
  [k \in DOMAIN allowances |->
     IF k \in keys /\ IsAllowanceInvalid(allowances[k], now) THEN NoAllowance ELSE allowances[k]]

Unspent(allowance) == allowance.quantity - allowance.quantitySpent

\* checkAllowances, compared with the quantity that the action asks for.
AllowsQuantity(allowances, keys, quantity, now) ==
  LET valid == {i \in DOMAIN keys : ~IsAllowanceInvalid(allowances[keys[i]], now)}
      finite == {i \in valid : IsFinite(allowances[keys[i]])}
  IN  \/ finite # valid
      \/ SumFunction([i \in finite |-> Unspent(allowances[keys[i]])]) >= quantity

(***************************************************************************)
(* One turn of the loop of useAllowances.  `acc` has the quantity that     *)
(* remains, the allowances that count and those that do not of which the   *)
(* action made use, and the objects it has put.  An allowance that was     *)
(* deleted a moment ago as spent is still in the list.                     *)
(***************************************************************************)
UseWithoutLimit(acc, k, allowance, now) ==
  IF acc.remaining = 0 \/ IsAllowanceExpired(allowance, now) THEN acc
  ELSE IF ~IsFinite(allowance) THEN [acc EXCEPT !.used = @ \cup {k}]
  ELSE LET after == [allowance EXCEPT !.quantitySpent = @ + acc.remaining, !.usesSpent = @ + 1]
       IN  [remaining |-> 0, used |-> acc.used \cup {k}, put |-> [acc.put EXCEPT ![k] = after]]

UseAllowance(acc, k, allowance, now) ==
  IF acc.remaining = 0 \/ IsAllowanceExpired(allowance, now) THEN acc
  ELSE IF ~IsFinite(allowance) THEN [acc EXCEPT !.used = @ \cup {k}]
  ELSE LET taken == Min({acc.remaining, Unspent(allowance)})
           after == [allowance EXCEPT !.quantitySpent = @ + taken, !.usesSpent = @ + 1]
       IN  [remaining |-> acc.remaining - taken,
            used |-> acc.used \cup {k},
            put |-> [acc.put EXCEPT ![k] =
              IF after.usesSpent = after.uses \/ after.quantitySpent = after.quantity
              THEN [after EXCEPT !.expires = now] ELSE after]]

UseAllowances(allowances, keys, quantity, now) ==
  FoldLeft(LAMBDA acc, k : UseAllowance(acc, k, allowances[k], now),
           [remaining |-> quantity, used |-> {}, put |-> CleanAllowances(allowances, ToSet(keys), now)],
           keys)

\* The loop ends well: all is taken, or an allowance does not count.
Succeeds(allowances, result) ==
  result.remaining = 0 \/ \E k \in result.used : ~IsFinite(allowances[k])

\* The keys that a client names, each of them once, and those of a permission.
KeepDuplicates(keys) == keys

Deduplicate(keys) == FoldLeft(LAMBDA s, k : IF Contains(s, k) THEN s ELSE Append(s, k), << >>, keys)

OfPermission(keys, permission) ==
  FoldLeft(LAMBDA s, k : IF k.permission = permission THEN Append(s, k) ELSE s, << >>, keys)
=============================================================================
