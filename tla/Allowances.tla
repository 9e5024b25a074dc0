----------------------------- MODULE Allowances -----------------------------
(***************************************************************************)
(* The allowances of one grantee (src/chaincode/src/allowances): granted,  *)
(* refreshed and deleted, and used when the grantee transfers, locks or    *)
(* burns for the grantor, or mints.  A permission is what an allowance is  *)
(* of: a token instance and a type of action.                              *)
(*                                                                         *)
(* Each action is an atomic transaction at a time that its client sets.    *)
(***************************************************************************)
EXTENDS TokenAllowance

CONSTANTS
  Grantors,
  Permissions,
  NFTs,         \* permissions of instances that are not fungible
  Locks,        \* permissions to lock
  Owners,       \* [Permissions -> SUBSET Grantors]: those who may grant it: who
                \* has the instance, and the authorities of the class for mints
  Sources,      \* sets of grantors whose allowances an action may use: of one
                \* grantor if it takes from a balance, of the authorities if it mints
  Quantities,   \* of allowances, Infinity perhaps included
  Uses,         \* of allowances
  Expiries,     \* of allowances: times, and 0 for never
  Times,        \* of transactions
  MaxGrants,    \* bound of the model: quantity granted in all
  MaxUsesSpent, \* bound of the model: uses of one allowance
  MaxNamed,     \* bound of the model: allowance keys named in a transfer
  MaxAllowances \* bound of the model: allowances at one time

ASSUME NumbersAssumption ==
  /\ Quantities \ {Infinity} \subseteq Nat \ {0}
  /\ Uses \subseteq Nat
  /\ Times \subseteq Nat \ {0}
  /\ Expiries \subseteq Nat
  /\ MaxNamed \in Nat
ASSUME PermissionsAssumption ==
  /\ IsFiniteSet(Permissions)
  /\ Sources \subseteq SUBSET Grantors /\ Owners \in [Permissions -> SUBSET Grantors]
  /\ NFTs \subseteq Permissions /\ Locks \subseteq Permissions

TokenAllowances == [quantity : Quantities, quantitySpent : Nat, uses : Uses, usesSpent : Nat, expires : Nat]

ASSUME AllowancesAssumption == NoAllowance \notin TokenAllowances

VARIABLES
  allowances,   \* TokenAllowance of each key, or NoAllowance
  granted,      \* [Permissions -> Nat]: the finite quantities granted so far
  claimed       \* [Permissions -> Nat]: the quantities of the TokenClaims made so far

vars == <<allowances, granted, claimed>>

Keys == [permission : Permissions, grantedBy : Grantors, created : Times]

Init == /\ allowances = [k \in Keys |-> NoAllowance]
        /\ granted = [p \in Permissions |-> 0]
        /\ claimed = [p \in Permissions |-> 0]

KeysOf(permissions, grantors) ==
  {k \in Existing(allowances) : k.permission \in permissions /\ k.grantedBy \in grantors}

-----------------------------------------------------------------------------
(* What clients send, but for the grantor, who is the caller. *)

\* GrantAllowanceDto of a complete instance key.
GrantAllowanceDtos ==
  [permission : Permissions, quantity : Quantities, uses : Uses, expires : Expiries]

\* A RefreshAllowancesDto that gives all its keys the same uses and time.
RefreshAllowancesDtos(by) ==
  [keys : SUBSET KeysOf(Permissions, {by}) \ {{}}, uses : Uses, expires : Expiries]

\* TokenInstanceQueryKey: fields that are not given leave all instances.
QueryKeys == {Permissions} \cup {{p} : p \in Permissions}

DeleteAllowancesDtos ==
  [permissions : QueryKeys,
   grantors : {Grantors} \cup {{g} : g \in Grantors},
   times : {Times} \cup {{t} : t \in Times}]

\* For the tokens of an owner, and an allowanceType.
FullAllowanceCheckDtos == [owner : Grantors, locking : BOOLEAN]

\* AllowanceKeys that a transfer may name; those of no allowance make it fail.
NamedAllowances == BoundedSeq(Existing(allowances), MaxNamed)

-----------------------------------------------------------------------------

GrantedIn(new, quantity) ==
  /\ granted' = [p \in Permissions |->
                   granted[p] + IF p \in new /\ quantity # Infinity THEN quantity ELSE 0]
  /\ MapThenSumSet(LAMBDA p : granted'[p], Permissions) <= MaxGrants
  /\ Cardinality(Existing(allowances')) <= MaxAllowances
  /\ UNCHANGED claimed

(***************************************************************************)
(* A second grant of the same grantor in the same millisecond has the same *)
(* key, and takes the place of the first.  A lock allowance is not granted *)
(* while there is another that can be used.                                *)
(***************************************************************************)
PreventDuplicateAllowance(permission, by, now) ==
  \A k \in KeysOf({permission}, {by}) : ~AllowanceIsUseable(allowances[k], now)

GrantAllowance(by, dto, now) ==
  /\ by \in Owners[dto.permission]
  /\ dto.permission \in Locks => PreventDuplicateAllowance(dto.permission, by, now)
  /\ allowances' = [allowances EXCEPT
       ![[permission |-> dto.permission, grantedBy |-> by, created |-> now]] =
          NewAllowance(dto.quantity, dto.uses, dto.expires)]
  /\ GrantedIn({dto.permission}, dto.quantity)

(***************************************************************************)
(* The key of a class and less: of the instances that the caller has, those*)
(* with allowances have them refreshed, spent ones too, and the others are *)
(* granted one each, unless they are fungible.                             *)
(***************************************************************************)
GrantAllowanceByPartialKey(by, owned, dto, now) ==
  LET had == KeysOf(owned, {by})
      new == {p \in owned \cap NFTs : \A k \in had : k.permission # p}
      keys == [permission : new, grantedBy : {by}, created : {now}]
  IN  /\ allowances' = [k \in Keys |->
           CASE k \in had -> [allowances[k] EXCEPT !.uses = dto.uses, !.expires = dto.expires]
             [] k \in keys -> NewAllowance(dto.quantity, dto.uses, dto.expires)
             [] OTHER -> allowances[k]]
      /\ GrantedIn(new, dto.quantity)

RefreshAllowances(dto) ==
  /\ allowances' = [k \in Keys |->
       IF k \in dto.keys
       THEN [allowances[k] EXCEPT !.uses = dto.uses, !.expires = dto.expires]
       ELSE allowances[k]]
  /\ UNCHANGED <<granted, claimed>>

\* By the grantor, or by the grantee for one or all grantors, of a time or all.
DeleteAllowances(dto) ==
  /\ allowances' = [k \in Keys |->
       IF k \in KeysOf(dto.permissions, dto.grantors) /\ k.created \in dto.times
       THEN NoAllowance ELSE allowances[k]]
  /\ UNCHANGED <<granted, claimed>>

UseKeys(permission, keys, quantity, now) ==
  LET result == UseAllowances(allowances, keys, quantity, now)
  IN  /\ AllowsQuantity(allowances, keys, quantity, now)
      /\ Succeeds(allowances, result)
      /\ allowances' = result.put
      /\ \A k \in Existing(allowances') : allowances'[k].usesSpent <= MaxUsesSpent
      /\ claimed' = [claimed EXCEPT ![permission] = @ + quantity - result.remaining]
      /\ UNCHANGED granted

\* fetchAllowances returns them in the order in which they were created.
FetchAllowances(permission, grantors) ==
  {s \in SetToSeqs(KeysOf({permission}, grantors)) :
     \A i, j \in DOMAIN s : i < j => s[i].created <= s[j].created}

VerifyAndUseAllowances(permission, grantors, quantity, now) ==
  \E keys \in FetchAllowances(permission, grantors) : UseKeys(permission, keys, quantity, now)

\* Keys of other tokens are left out; only keys of the grantor may be left.
VerifyAndUseTransferAllowancesByKeys(permission, named, quantity, now) ==
  LET applicable == OfPermission(Deduplicate(named), permission)
  IN  /\ \E grantor \in Grantors : \A k \in ToSet(applicable) : k.grantedBy = grantor
      /\ UseKeys(permission, applicable, quantity, now)

(***************************************************************************)
(* fullAllowanceCheck: the instances of an owner which the grantee lacks an*)
(* allowance of that can be used.                                          *)
(***************************************************************************)
MissingAllowances(owner, owned, now) ==
  {p \in owned \cap NFTs : \A k \in KeysOf({p}, {owner}) : IsUsedUp(allowances[k], now)}

\* The permissions of one type for the tokens that a user has.
OwnedFor(user, locking) == {p \in Permissions : user \in Owners[p] /\ (p \in Locks <=> locking)}

FullAllowanceCheck(dto, now) ==
  LET missing == MissingAllowances(dto.owner, OwnedFor(dto.owner, dto.locking), now)
  IN  [all |-> missing = {}, missing |-> missing]

GrantCall(now) == \E by \in Grantors, dto \in GrantAllowanceDtos :
  \/ GrantAllowance(by, dto, now)
  \/ \E owned \in {query \cap OwnedFor(by, dto.permission \in Locks) : query \in QueryKeys} \ {{}} :
       GrantAllowanceByPartialKey(by, owned, dto, now)

UseCall(now) == \E quantity \in 1 .. MaxGrants :
  \/ \E permission \in Permissions, source \in Sources :
       VerifyAndUseAllowances(permission, source, quantity, now)
  \/ \E permission \in Permissions \ Locks, named \in NamedAllowances :
       VerifyAndUseTransferAllowancesByKeys(permission, named, quantity, now)

Next ==
  \/ \E now \in Times : GrantCall(now) \/ UseCall(now)
  \/ \E by \in Grantors : \E dto \in RefreshAllowancesDtos(by) : RefreshAllowances(dto)
  \/ \E dto \in DeleteAllowancesDtos : DeleteAllowances(dto)

Spec == Init /\ [][Next]_vars

-----------------------------------------------------------------------------

\* The types of the variables; no allowance is spent beyond its quantity.
TypeOK ==
  /\ allowances \in [Keys -> TokenAllowances \cup {NoAllowance}]
  /\ \A k \in Existing(allowances) :
       /\ IsFinite(allowances[k]) => Unspent(allowances[k]) \in Nat
       /\ allowances[k].expires \in Expiries \cup Times
  /\ granted \in [Permissions -> Nat]
  /\ claimed \in [Permissions -> Nat]

UnspentOf(keys) == SumFunction([k \in {j \in keys : IsFinite(allowances[j])} |-> Unspent(allowances[k])])

(***************************************************************************)
(* The claims never exceed the grants, and cannot do so later: what was    *)
(* claimed and what is still unspent were granted for the same permission, *)
(* whichever allowances one action draws on, however often a client names  *)
(* one of them, and whatever else is granted and refreshed with them.      *)
(***************************************************************************)
ClaimsWereGranted ==
  \A p \in Permissions : claimed[p] + UnspentOf(KeysOf({p}, Grantors)) <= granted[p]

(***************************************************************************)
(* "We should not have started updating allowances if we didn't have enough*)
(* and we should not have gotten here unless we removed enough"            *)
(* (useAllowances): the quantity that checkAllowances adds up from the     *)
(* allowances it leaves is taken in full from the list before the cleaning.*)
(***************************************************************************)
CheckIsEnough ==
  \A now \in Times, quantity \in 1 .. MaxGrants, permission \in Permissions, source \in Sources :
    \A keys \in FetchAllowances(permission, source) :
      AllowsQuantity(allowances, keys, quantity, now)
        => Succeeds(allowances, UseAllowances(allowances, keys, quantity, now))

(***************************************************************************)
(* fullAllowanceCheck has conditions of its own, and they agree with those *)
(* of checkAllowances: an instance is missing if and only if the grantee   *)
(* cannot act on it for its owner; and all are there if each one is.       *)
(***************************************************************************)
FullCheckAgrees ==
  \A now \in Times, dto \in FullAllowanceCheckDtos :
    LET owned  == NFTs \cap OwnedFor(dto.owner, dto.locking)
        usable == {p \in owned : \A keys \in FetchAllowances(p, {dto.owner}) :
                                   AllowsQuantity(allowances, keys, 1, now)}
    IN  FullAllowanceCheck(dto, now) = [all |-> usable = owned, missing |-> owned \ usable]

\* What the checks let pass succeeds, whichever of the two a client relies on.
ChecksAgree == CheckIsEnough /\ FullCheckAgrees

=============================================================================
