-------------------------- MODULE TokenSwapsProofs --------------------------
(***************************************************************************)
(* For any users, tokens, swaps and transaction times.  First the instances*)
(* of NonFungibleToken, where each call keeps one inductive invariant, then*)
(* the calls of swaps, which move and lock instances and coins together.   *)
(***************************************************************************)
EXTENDS TokenSwaps, TokenBalanceProofs

InstanceInv == TypeOK /\ OwnershipAgrees /\ HoldsAreDistinct /\ LockedIsThere

LEMMA InstanceInit == Init => InstanceInv
BY UsersAssumption, NumbersAssumption
DEF Init, InstanceInv, TypeOK, OwnershipAgrees, HoldsAreDistinct, LockedIsThere, Instances,
    UnexpiredLockedHolds

\* The latest time stays a time, and does not decrease.
LEMMA LatestGrows ==
  ASSUME TypeOK, NEW now \in Times, Called(now)
  PROVE  /\ latest' \in Times /\ latest' \in Nat /\ latest \in Nat /\ now \in Nat
         /\ latest' >= latest /\ latest' >= now
BY NumbersAssumption DEF TypeOK, Called

\* Time only lets holds expire.
LEMMA ExpiredStays ==
  ASSUME NEW h, h.expires \in Nat, NEW s \in Nat, NEW t \in Nat, t >= s, ~IsExpired(h, t)
  PROVE  ~IsExpired(h, s)
BY DEF IsExpired

LEMMA MintInv ==
  ASSUME InstanceInv, NEW u \in Users, NEW now \in Times, Mint(u, now)
  PROVE  InstanceInv'
<1> DEFINE i == totalSupply + 1
<1> USE DEF InstanceInv
<1>1. i \in Instances
  BY NumbersAssumption DEF Mint, TypeOK, Instances
<1>2. /\ totalSupply' = i
      /\ tokenOwner' = [tokenOwner EXCEPT ![i] = u]
      /\ instanceIds' = [instanceIds EXCEPT ![u] = @ \cup {i}]
      /\ lockedHolds' = lockedHolds
  BY DEF Mint
<1>3. latest' \in Times \cup {0} /\ latest' >= latest
  BY LatestGrows DEF Mint
<1>4. TypeOK'
  BY <1>1, <1>2, <1>3, NumbersAssumption DEF TypeOK, Instances
<1>5. \A v \in Users : i \notin instanceIds[v]
  BY <1>1, UsersAssumption, NumbersAssumption DEF TypeOK, OwnershipAgrees, Instances
<1>6. OwnershipAgrees'
  <2>1. \A v \in Users, j \in Instances : j \in instanceIds'[v] => tokenOwner'[j] = v
    BY <1>1, <1>2, <1>5 DEF TypeOK, OwnershipAgrees
  <2>2. \A j \in Instances : j > totalSupply' <=> tokenOwner'[j] = None
    BY <1>1, <1>2, UsersAssumption, NumbersAssumption DEF TypeOK, OwnershipAgrees, Instances
  <2>3. QED
    BY <2>1, <2>2 DEF OwnershipAgrees
<1>7. HoldsAreDistinct'
  BY <1>2 DEF HoldsAreDistinct
<1>8. LockedIsThere'
  BY <1>2, <1>3, NumbersAssumption DEF TypeOK, LockedIsThere, UnexpiredLockedHolds
<1>9. QED
  BY <1>4, <1>6, <1>7, <1>8

(***************************************************************************)
(* Instances leave balances: the holds that are left behind are expired    *)
(* from now on.                                                            *)
(***************************************************************************)
LEMMA RemoveKeepsLocked ==
  ASSUME InstanceInv, NEW now \in Times, Called(now),
         \A u \in Users : lockedHolds'[u] \subseteq lockedHolds[u],
         \A u \in Users : \A h \in lockedHolds'[u] :
           h.instance \in instanceIds[u] /\ h.instance \notin instanceIds'[u] => IsExpired(h, now)
  PROVE  LockedIsThere'
<1> SUFFICES ASSUME NEW v \in Users, NEW t \in Times, NEW h \in UnexpiredLockedHolds(v, t)',
                    t >= latest'
             PROVE  h.instance \in instanceIds'[v]
  BY DEF LockedIsThere
<1>1. latest' >= latest /\ latest' >= now /\ latest' \in Nat /\ latest \in Nat /\ now \in Nat
  BY LatestGrows DEF InstanceInv
<1>2. t >= latest /\ t >= now /\ t \in Nat
  BY <1>1, NumbersAssumption
<1>3. h \in lockedHolds'[v] /\ h \in lockedHolds[v] /\ ~IsExpired(h, t)
  BY DEF UnexpiredLockedHolds
<1>4. h.instance \in instanceIds[v]
  BY <1>2, <1>3 DEF InstanceInv, LockedIsThere, UnexpiredLockedHolds
<1>5. h.expires \in Nat
  BY <1>3 DEF InstanceInv, TypeOK, InstanceHolds
<1>6. ~IsExpired(h, now)
  BY <1>1, <1>2, <1>3, <1>5, ExpiredStays
<1>7. QED
  BY <1>3, <1>4, <1>6

\* An instance with a hold that has not expired is not removed.
LEMMA RemovedIsUnlocked ==
  ASSUME InstanceInv, NEW u \in Users, NEW i, NEW now, CanRemoveInstance(u, i, now),
         NEW h \in lockedHolds[u], h.instance = i
  PROVE  IsExpired(h, now)
BY DEF CanRemoveInstance, IsInstanceLocked, UnexpiredLockedHolds

LEMMA TransferInv ==
  ASSUME InstanceInv, NEW from \in Users, NEW to \in Users, NEW i \in Instances, NEW now \in Times,
         Transfer(from, to, i, now)
  PROVE  InstanceInv'
<1> USE DEF InstanceInv
<1>1. /\ from # to /\ i \in instanceIds[from] /\ CanRemoveInstance(from, i, now)
      /\ instanceIds' = [instanceIds EXCEPT ![from] = @ \ {i}, ![to] = @ \cup {i}]
      /\ tokenOwner' = [tokenOwner EXCEPT ![i] = to]
      /\ Called(now) /\ UNCHANGED <<totalSupply, lockedHolds>>
  BY DEF Transfer, CanRemoveInstance
<1>2. TypeOK'
  BY <1>1, LatestGrows DEF TypeOK
<1>3. OwnershipAgrees'
  <2>1. tokenOwner[i] # None
    BY <1>1, UsersAssumption DEF OwnershipAgrees
  <2>2. QED
    BY <1>1, <2>1, UsersAssumption DEF TypeOK, OwnershipAgrees
<1>4. HoldsAreDistinct'
  BY <1>1 DEF HoldsAreDistinct
<1>5. \A v \in Users : \A j \in instanceIds[v] : v # from \/ j # i => j \in instanceIds'[v]
  BY <1>1 DEF TypeOK
<1>6. \A v \in Users : \A h \in lockedHolds'[v] :
        h.instance \in instanceIds[v] /\ h.instance \notin instanceIds'[v] => IsExpired(h, now)
  BY <1>1, <1>5, RemovedIsUnlocked
<1>7. LockedIsThere'
  BY <1>1, <1>6, RemoveKeepsLocked
<1>8. QED
  BY <1>2, <1>3, <1>4, <1>7

LEMMA BurnInv ==
  ASSUME InstanceInv, NEW u \in Users, NEW i \in Instances, NEW now \in Times, Burn(u, i, now)
  PROVE  InstanceInv'
<1> USE DEF InstanceInv
<1>1. /\ CanRemoveInstance(u, i, now)
      /\ instanceIds' = [instanceIds EXCEPT ![u] = @ \ {i}]
      /\ Called(now) /\ UNCHANGED <<totalSupply, tokenOwner, lockedHolds>>
  BY DEF Burn
<1>2. TypeOK'
  BY <1>1, LatestGrows DEF TypeOK
<1>3. OwnershipAgrees'
  BY <1>1 DEF TypeOK, OwnershipAgrees
<1>4. HoldsAreDistinct'
  BY <1>1 DEF HoldsAreDistinct
<1>5. \A v \in Users : \A j \in instanceIds[v] : v # u \/ j # i => j \in instanceIds'[v]
  BY <1>1 DEF TypeOK
<1>6. \A v \in Users : \A h \in lockedHolds'[v] :
        h.instance \in instanceIds[v] /\ h.instance \notin instanceIds'[v] => IsExpired(h, now)
  BY <1>1, <1>5, RemovedIsUnlocked
<1>7. LockedIsThere'
  BY <1>1, <1>6, RemoveKeepsLocked
<1>8. QED
  BY <1>2, <1>3, <1>4, <1>7

(***************************************************************************)
(* The holds change, to holds that were there and new ones on instances in *)
(* the balance, that no other has the name of.                             *)
(***************************************************************************)
LEMMA HoldsChangeInv ==
  ASSUME InstanceInv, NEW now \in Times, Called(now),
         UNCHANGED <<totalSupply, tokenOwner, instanceIds>>,
         lockedHolds' \in [Users -> SUBSET InstanceHolds],
         \A u \in Users : \A h \in lockedHolds'[u] :
           \/ h \in lockedHolds[u]
           \/ /\ h.instance \in instanceIds[u]
              /\ \A g \in lockedHolds'[u] : g.instance = h.instance /\ g.name = h.name => g = h
  PROVE  InstanceInv'
<1> USE DEF InstanceInv
<1>1. latest' \in Times \cup {0} /\ latest' >= latest /\ latest' \in Nat /\ latest \in Nat
  BY LatestGrows
<1>2. TypeOK'
  BY <1>1 DEF TypeOK
<1>3. OwnershipAgrees'
  BY DEF OwnershipAgrees
<1>4. HoldsAreDistinct'
  BY DEF HoldsAreDistinct
<1>5. LockedIsThere'
  BY <1>1, NumbersAssumption DEF LockedIsThere, UnexpiredLockedHolds
<1>6. QED
  BY <1>2, <1>3, <1>4, <1>5

LEMMA LockInv ==
  ASSUME InstanceInv, NEW by \in Users, NEW u \in Users, NEW i \in Instances, NEW now \in Times,
         NEW expires \in Nat, NEW name \in Names, NEW authority \in Users \cup {None},
         Lock(by, u, i, expires, name, authority, now)
  PROVE  InstanceInv'
<1> DEFINE h == [instance |-> i, expires |-> expires, name |-> name, createdBy |-> by,
                 lockAuthority |-> authority]
           kept == UnexpiredLockedHolds(u, now)
<1>1. h \in InstanceHolds /\ kept \subseteq lockedHolds[u] /\ h.instance = i /\ h.name = name
  BY DEF InstanceHolds, UnexpiredLockedHolds
<1>2. \A g \in kept : ~(g.instance = i /\ g.name = name)
  BY DEF Lock, FindLockedHold
<1>3. i \in instanceIds[u] /\ lockedHolds' = [lockedHolds EXCEPT ![u] = kept \cup {h}]
  BY DEF Lock
<1>4. Called(now) /\ UNCHANGED <<totalSupply, tokenOwner, instanceIds>>
  BY DEF Lock
<1>5. lockedHolds \in [Users -> SUBSET InstanceHolds]
  BY DEF InstanceInv, TypeOK
<1> HIDE DEF kept, h
<1>6. lockedHolds' \in [Users -> SUBSET InstanceHolds]
  BY <1>1, <1>3, <1>5
<1>7. \A v \in Users : \A g \in lockedHolds'[v] :
        \/ g \in lockedHolds[v]
        \/ /\ g.instance \in instanceIds[v]
           /\ \A k \in lockedHolds'[v] : k.instance = g.instance /\ k.name = g.name => k = g
  BY <1>1, <1>2, <1>3, <1>5
<1>8. QED
  BY <1>4, <1>6, <1>7, HoldsChangeInv

LEMMA UnlockInv ==
  ASSUME InstanceInv, NEW by \in Users, NEW i \in Instances, NEW name \in Names, NEW now \in Times,
         Unlock(by, i, name, now)
  PROVE  InstanceInv'
<1>1. tokenOwner[i] \in Users
  BY DEF Unlock, InstanceInv, TypeOK
<1>2. PICK u \in Users : u = tokenOwner[i]
  BY <1>1
<1> DEFINE kept == UnexpiredLockedHolds(u, now) \ FindLockedHold(u, i, name, now)
<1>3. kept \subseteq lockedHolds[u]
  BY DEF UnexpiredLockedHolds
<1>4. lockedHolds' = [lockedHolds EXCEPT ![u] = kept]
  BY <1>2 DEF Unlock
<1>5. Called(now) /\ UNCHANGED <<totalSupply, tokenOwner, instanceIds>>
  BY DEF Unlock
<1>6. lockedHolds \in [Users -> SUBSET InstanceHolds]
  BY DEF InstanceInv, TypeOK
<1> HIDE DEF kept
<1>7. lockedHolds' \in [Users -> SUBSET InstanceHolds]
  BY <1>3, <1>4, <1>6
<1>8. \A v \in Users : \A h \in lockedHolds'[v] : h \in lockedHolds[v]
  BY <1>3, <1>4, <1>6
<1>9. QED
  BY <1>5, <1>7, <1>8, HoldsChangeInv

\* Instances are no longer looked at.
LEMMA InstanceStutter ==
  ASSUME InstanceInv, UNCHANGED vars
  PROVE  InstanceInv'
BY DEF vars, InstanceInv, TypeOK, OwnershipAgrees, HoldsAreDistinct, LockedIsThere, UnexpiredLockedHolds

\* Without swaps: an instance is in the balance of its owner or in none, and what is locked is there.
THEOREM InstancesAreOwned == Spec => [](OwnershipAgrees /\ HoldsAreDistinct /\ LockedIsThere)
<1>1. ASSUME InstanceInv, [Next]_vars PROVE InstanceInv'
  <2>1. CASE UNCHANGED vars
    BY <1>1, <2>1, InstanceStutter
  <2>2. Times \cup {0} \subseteq Nat
    BY NumbersAssumption
  <2>3. CASE Next
    BY <1>1, <2>2, <2>3, MintInv, TransferInv, BurnInv, LockInv, UnlockInv DEF Next
  <2>4. QED
    BY <1>1, <2>1, <2>3
<1>2. InstanceInv => OwnershipAgrees /\ HoldsAreDistinct /\ LockedIsThere
  BY DEF InstanceInv
<1>3. QED
  BY <1>1, <1>2, InstanceInit, PTL DEF Spec

-----------------------------------------------------------------------------
(* The types of swaps and coins, in any state that a call leaves.          *)

Fates == {"unused", "held", "released", "terminated"}

SwapTyped ==
  /\ coins \in [Fungibles -> [Users -> BalanceOf(PlainHolds)]]
  /\ swaps \in [SwapIds -> TokenSwapRequests \cup {None}]
  /\ fate \in [SwapIds -> Fates]
  /\ \A id \in SwapIds : swaps[id] # None => /\ fate[id] # "unused"
                                             /\ swaps[id].usesSpent <= swaps[id].terms.uses

LEMMA TermsType ==
  ASSUME NEW terms \in Terms \cup OldTerms
  PROVE  /\ terms.uses \in Nat /\ terms.uses >= 1
         /\ DOMAIN terms.offered \subseteq Tokens /\ DOMAIN terms.offered # {}
         /\ DOMAIN terms.wanted \subseteq Tokens /\ DOMAIN terms.wanted # {}
         /\ \A token \in DOMAIN terms.offered :
              terms.offered[token] \in Nat /\ terms.offered[token] >= 1
         /\ \A token \in DOMAIN terms.wanted :
              terms.wanted[token] \in Nat /\ terms.wanted[token] >= 1
<1>1. ASSUME NEW side \in {terms.offered, terms.wanted}
      PROVE  /\ DOMAIN side \in SUBSET Tokens /\ DOMAIN side # {}
             /\ \A token \in DOMAIN side : side[token] \in Nat \ {0}
  <2>1. /\ DOMAIN side \in (SUBSET Tokens) \ {{}}
        /\ \A token \in DOMAIN side : side[token] \in Nat \ {0}
    BY TermsAssumption
  <2> HIDE DEF Tokens
  <2>2. QED
    BY <2>1
<1>2. terms.uses \in 1 .. 99
  BY TermsAssumption
<1>3. \A n \in Nat \ {0} : n \in Nat /\ n >= 1
  OBVIOUS
<1>4. terms.uses \in Nat /\ terms.uses >= 1
  BY <1>2
<1>5. QED
  BY <1>1, <1>3, <1>4

LEMMA SwapType ==
  ASSUME SwapTyped, NEW id \in SwapIds, swaps[id] # None
  PROVE  /\ swaps[id] \in TokenSwapRequests /\ swaps[id].terms \in Terms \cup OldTerms
         /\ swaps[id].offeredBy \in Users /\ swaps[id].offeredTo \in Users \cup {None}
         /\ swaps[id].expires \in Nat /\ swaps[id].usesSpent \in Nat
         /\ Remaining(swaps[id]) \in Nat /\ Remaining(swaps[id]) <= swaps[id].terms.uses
         /\ fate[id] # "unused"
<1>1. swaps[id] \in TokenSwapRequests
  BY DEF SwapTyped
<1>2. /\ swaps[id].terms \in Terms \cup OldTerms /\ swaps[id].offeredBy \in Users
      /\ swaps[id].offeredTo \in Users \cup {None}
      /\ swaps[id].expires \in Nat /\ swaps[id].usesSpent \in Nat
  BY <1>1 DEF TokenSwapRequests
<1>3. swaps[id].terms.uses \in Nat
  BY <1>2, TermsType
<1>4. swaps[id].usesSpent <= swaps[id].terms.uses /\ fate[id] # "unused"
  BY DEF SwapTyped
<1>5. QED
  BY <1>1, <1>2, <1>3, <1>4 DEF Remaining

LEMMA PlainKind == Kind(PlainHolds) /\ PlainHolds \subseteq AllHolds /\ PlainHolds \subseteq RegularHolds
BY DEF Kind, PlainHolds, AllHolds, Holds, IsVesting, RegularHolds

LEMMA QuantityType ==
  ASSUME NEW side, NEW token \in DOMAIN side, side[token] \in Nat, side[token] >= 1, NEW uses \in Nat
  PROVE  /\ QuantityOf(side, token, uses) \in Nat
         /\ uses >= 1 => QuantityOf(side, token, uses) >= 1
         /\ uses = 0 => QuantityOf(side, token, uses) = 0
<1>1. \A a \in Nat, b \in Nat : a * b \in Nat /\ (a >= 1 /\ b >= 1 => a * b >= 1) /\ a * 0 = 0
  OBVIOUS
<1>2. QED
  BY <1>1 DEF QuantityOf

LEMMA OfferHoldType ==
  ASSUME NEW u \in Users, NEW id \in SwapIds, NEW terms \in Terms \cup OldTerms,
         NEW f \in DOMAIN terms.offered, NEW expires \in Nat
  PROVE  LET hold == OfferHold(u, id, terms, f, expires)
         IN  /\ hold \in PlainHolds /\ hold.name = id /\ hold.expires = expires
             /\ hold.quantity = QuantityOf(terms.offered, f, terms.uses) /\ hold.quantity \in Nat
<1>1. QuantityOf(terms.offered, f, terms.uses) \in Nat \ {0}
  BY TermsType, QuantityType
<1>2. id \in Names
  BY SwapsAssumption
<1> DEFINE hold == OfferHold(u, id, terms, f, expires)
<1>3. /\ hold \in AllHolds /\ ~IsVesting(hold) /\ hold.name = id /\ hold.expires = expires
      /\ hold.quantity = QuantityOf(terms.offered, f, terms.uses)
  BY <1>1, <1>2 DEF OfferHold, Offered, AllHolds, Holds, IsVesting
<1>4. QED
  BY <1>1, <1>3 DEF PlainHolds

-----------------------------------------------------------------------------
(* What swaps do to instances.                                             *)

LEMMA NoInstanceTouched ==
  ASSUME InstanceInv, NEW now \in Times, Called(now),
         UNCHANGED <<totalSupply, tokenOwner, instanceIds, lockedHolds>>
  PROVE  InstanceInv'
<1>1. lockedHolds \in [Users -> SUBSET InstanceHolds]
  BY DEF InstanceInv, TypeOK
<1>2. QED
  BY <1>1, HoldsChangeInv

LEMMA RequestInstances ==
  ASSUME InstanceInv, NEW now \in Times, NEW u \in Users, NEW to, NEW id \in SwapIds, NEW terms \in Terms,
         NEW expires \in Nat, RequestTokenSwap(u, to, id, terms, expires, now)
  PROVE  InstanceInv'
<1> DEFINE instances == DOMAIN terms.offered \cap Instances
           new == {OfferLock(u, id, i, expires) : i \in instances}
           kept == UnexpiredLockedHolds(u, now)
<1>1. /\ \A i \in instances : CanRemoveInstance(u, i, now)
      /\ lockedHolds' = IF instances = {} THEN lockedHolds
                        ELSE [lockedHolds EXCEPT ![u] = kept \cup new]
      /\ Called(now) /\ UNCHANGED <<totalSupply, tokenOwner, instanceIds>>
  BY DEF RequestTokenSwap
<1>2. CASE instances = {}
  BY <1>1, <1>2, NoInstanceTouched
<1>3. CASE instances # {}
  <2>1. id \in Names
    BY SwapsAssumption
  <2>2. \A h \in new : h \in InstanceHolds /\ h.instance \in instances /\ h.name = id
    BY <2>1 DEF OfferLock, InstanceHolds
  <2>3. \A g, h \in new : g.instance = h.instance => g = h
    BY DEF OfferLock
  <2>4. \A i \in instances : i \in instanceIds[u] /\ \A h \in kept : h.instance # i
    BY <1>1 DEF CanRemoveInstance, IsInstanceLocked
  <2>5. kept \subseteq lockedHolds[u]
    BY DEF UnexpiredLockedHolds
  <2>6. lockedHolds \in [Users -> SUBSET InstanceHolds]
    BY DEF InstanceInv, TypeOK
  <2> HIDE DEF new, kept, instances
  <2>7. lockedHolds' = [lockedHolds EXCEPT ![u] = kept \cup new]
    BY <1>1, <1>3
  <2>8. lockedHolds' \in [Users -> SUBSET InstanceHolds]
    BY <2>2, <2>5, <2>6, <2>7
  <2>9. \A v \in Users : \A h \in lockedHolds'[v] :
           \/ h \in lockedHolds[v]
           \/ /\ h.instance \in instanceIds[v]
              /\ \A g \in lockedHolds'[v] : g.instance = h.instance /\ g.name = h.name => g = h
    <3> SUFFICES ASSUME NEW v \in Users, NEW h \in lockedHolds'[v], h \notin lockedHolds[v]
                 PROVE  /\ h.instance \in instanceIds[v]
                        /\ \A g \in lockedHolds'[v] : g.instance = h.instance /\ g.name = h.name => g = h
      OBVIOUS
    <3>1. v = u /\ h \in new /\ lockedHolds'[v] = kept \cup new
      BY <2>5, <2>6, <2>7
    <3>2. QED
      BY <2>2, <2>3, <2>4, <3>1
  <2>10. QED
    BY <1>1, <2>8, <2>9, HoldsChangeInv
<1>4. QED
  BY <1>2, <1>3

LEMMA FillInstances ==
  ASSUME InstanceInv, SwapTyped, NEW now \in Times, NEW caller \in Users, NEW u \in Users,
         NEW id \in SwapIds, NEW uses \in FillUses, NEW expected, FillTokenSwap(caller, u, id, uses, expected, now)
  PROVE  InstanceInv'
<1> DEFINE swap == swaps[id]
           o    == swap.offeredBy
           out  == DOMAIN swap.terms.offered \cap Instances
           in   == DOMAIN swap.terms.wanted \cap Instances
<1>1. o \in Users /\ u # o /\ Called(now) /\ totalSupply' = totalSupply
  BY SwapType DEF FillTokenSwap, CanFill
<1>2. ASSUME NEW i \in out
      PROVE  /\ i \in instanceIds[o] /\ i \notin instanceIds[u]
             /\ {h \in UnexpiredLockedHolds(o, now) : h.instance = i} = FindLockedHold(o, i, id, now)
  <2>1. i \notin Fungibles
    BY TokensAssumption
  <2>2. QED
    BY <2>1 DEF FillTokenSwap, GiveOffer
<1>3. ASSUME NEW i \in in PROVE CanRemoveInstance(u, i, now) /\ i \in instanceIds[u] /\ i \notin instanceIds[o]
  <2>1. i \notin Fungibles
    BY TokensAssumption
  <2>2. QED
    BY <2>1 DEF FillTokenSwap, GiveWanted, CanRemoveInstance
<1>4. /\ instanceIds' = [instanceIds EXCEPT ![o] = (@ \ out) \cup in, ![u] = (@ \ in) \cup out]
      /\ tokenOwner' = [i \in Instances |-> IF i \in out THEN u ELSE IF i \in in THEN o ELSE tokenOwner[i]]
      /\ lockedHolds' = IF out = {} THEN lockedHolds
                        ELSE [lockedHolds EXCEPT ![o] = {h \in UnexpiredLockedHolds(o, now) :
                                                           ~(h.instance \in out /\ h.name = id)}]
  BY DEF FillTokenSwap, MoveInstances
<1>5. /\ instanceIds \in [Users -> SUBSET Instances] /\ tokenOwner \in [Instances -> Users \cup {None}]
      /\ lockedHolds \in [Users -> SUBSET InstanceHolds] /\ totalSupply \in 0 .. MaxSupply
  BY DEF InstanceInv, TypeOK
<1>6. out \subseteq Instances /\ in \subseteq Instances
  OBVIOUS
<1>7. \A v \in Users : /\ lockedHolds'[v] \subseteq lockedHolds[v]
                       /\ \A h \in lockedHolds'[v] : v = o /\ h.instance \in out => IsExpired(h, now)
  <2>1. \A h \in lockedHolds[o] : ~IsExpired(h, now) => h \in UnexpiredLockedHolds(o, now)
    BY DEF UnexpiredLockedHolds
  <2>2. \A i \in out : \A h \in UnexpiredLockedHolds(o, now) : h.instance = i => h.name = id
    BY <1>2 DEF FindLockedHold
  <2>3. UnexpiredLockedHolds(o, now) \subseteq lockedHolds[o]
    BY DEF UnexpiredLockedHolds
  <2> HIDE DEF out, o
  <2>4. QED
    BY <1>1, <1>4, <1>5, <2>1, <2>2, <2>3
<1> HIDE DEF out, in, swap, o
<1>8. TypeOK'
  <2>1. latest' \in Times \cup {0}
    BY <1>1, LatestGrows DEF InstanceInv
  <2>2. instanceIds' \in [Users -> SUBSET Instances] /\ tokenOwner' \in [Instances -> Users \cup {None}]
    BY <1>1, <1>4, <1>5, <1>6
  <2>3. lockedHolds' \in [Users -> SUBSET InstanceHolds]
    BY <1>1, <1>4, <1>5, <1>7
  <2>4. QED
    BY <1>1, <1>5, <2>1, <2>2, <2>3 DEF TypeOK
<1>9. OwnershipAgrees'
  <2>1. \A v \in Users, i \in Instances : i \in instanceIds[v] => tokenOwner[i] = v
    BY DEF InstanceInv, OwnershipAgrees
  <2>2. \A v \in Users, i \in Instances : i \in instanceIds'[v] => tokenOwner'[i] = v
    BY <1>1, <1>2, <1>3, <1>4, <1>5, <1>6, <2>1
  <2>3. \A i \in Instances : i > totalSupply <=> tokenOwner[i] = None
    BY DEF InstanceInv, OwnershipAgrees
  <2>4. \A i \in out \cup in : tokenOwner[i] # None /\ tokenOwner'[i] # None
    BY <1>1, <1>2, <1>3, <1>4, <1>6, <2>1, UsersAssumption
  <2>5. \A i \in Instances : i \notin out \cup in => tokenOwner'[i] = tokenOwner[i]
    BY <1>4
  <2>6. \A i \in Instances : i > totalSupply' <=> tokenOwner'[i] = None
    BY <1>1, <1>6, <2>3, <2>4, <2>5
  <2>7. QED
    BY <2>2, <2>6 DEF OwnershipAgrees
<1>10. HoldsAreDistinct'
  BY <1>7 DEF InstanceInv, HoldsAreDistinct
<1>11. LockedIsThere'
  <2>1. ASSUME NEW v \in Users, NEW h \in lockedHolds'[v],
               h.instance \in instanceIds[v], h.instance \notin instanceIds'[v]
        PROVE  IsExpired(h, now)
    <3>1. (v = o /\ h.instance \in out) \/ (v = u /\ h.instance \in in)
      BY <1>1, <1>4, <1>5, <2>1
    <3>2. CASE v = o /\ h.instance \in out
      BY <1>7, <3>2
    <3>3. CASE v = u /\ h.instance \in in
      <4>1. h \in lockedHolds[u] /\ CanRemoveInstance(u, h.instance, now)
        BY <1>3, <1>7, <3>3
      <4>2. QED
        BY <4>1, RemovedIsUnlocked
    <3>4. QED
      BY <3>1, <3>2, <3>3
  <2>2. QED
    BY <1>1, <1>7, <2>1, RemoveKeepsLocked
<1>12. QED
  BY <1>8, <1>9, <1>10, <1>11 DEF InstanceInv

LEMMA TerminateInstances ==
  ASSUME InstanceInv, NEW now \in Times, NEW caller \in Users, NEW id \in SwapIds,
         TerminateTokenSwap(caller, id, now)
  PROVE  InstanceInv'
<1>1. Called(now) /\ UNCHANGED <<totalSupply, tokenOwner, instanceIds>>
  BY DEF TerminateTokenSwap
<1>2. lockedHolds \in [Users -> SUBSET InstanceHolds]
  BY DEF InstanceInv, TypeOK
<1>3. \A u \in Users : lockedHolds'[u] \subseteq lockedHolds[u]
  BY DEF TerminateTokenSwap, UnlockOffer, UnexpiredLockedHolds
<1>4. lockedHolds' \in [Users -> SUBSET InstanceHolds]
  <2>1. lockedHolds' = [u \in Users |-> lockedHolds'[u]]
    BY DEF TerminateTokenSwap, UnlockOffer
  <2> DEFINE after == lockedHolds'
  <2>2. after = [u \in Users |-> after[u]] /\ \A u \in Users : after[u] \in SUBSET InstanceHolds
    BY <1>2, <1>3, <2>1
  <2> HIDE DEF after
  <2>3. after \in [Users -> SUBSET InstanceHolds]
    BY <2>2
  <2>4. QED
    BY <2>3 DEF after
<1>5. QED
  BY <1>1, <1>3, <1>4, HoldsChangeInv

-----------------------------------------------------------------------------
(* What a call makes of the balance of a coin.                             *)

LEMMA LockedNat ==
  ASSUME NEW H, H \subseteq RegularHolds, NEW balance \in BalanceOf(H), NEW t \in Nat
  PROVE  LockedQuantity(balance, t) \in Nat
<1> DEFINE value == LockedOfAll(H, t)
           zero  == [h \in H |-> 0]
<1>1. balance.holds \in Seq(H) /\ value \in [H -> Int] /\ value \in [H -> Nat]
  BY LockedOfAllType DEF BalanceOf
<1>2. LockedQuantity(balance, t) = SumOver(balance.holds, value)
  BY LockedIsSum
<1> DEFINE weights == [i \in DOMAIN balance.holds |-> value[balance.holds[i]]]
<1>3. /\ weights \in Seq(Int) /\ DOMAIN balance.holds = 1 .. Len(balance.holds)
      /\ \A i \in DOMAIN balance.holds : balance.holds[i] \in H
  BY <1>1, SumOverSequence
<1>4. Summable(weights, DOMAIN weights) /\ \A i \in DOMAIN weights : 0 <= weights[i]
  <2>1. Summable(weights, DOMAIN weights)
    BY <1>3, SequenceSummable, SMTT(30)
  <2> HIDE DEF value
  <2>2. \A i \in DOMAIN weights : weights[i] = value[balance.holds[i]] /\ value[balance.holds[i]] \in Nat
    BY <1>1, <1>3
  <2>3. QED
    BY <2>1, <2>2
<1>5. SumOver(balance.holds, value) = SumFunctionOnSet(weights, DOMAIN weights)
  BY DEF SumOver, SumFunction
<1> HIDE DEF weights
<1>6. SumFunctionOnSet(weights, DOMAIN weights) \in Nat
  BY <1>4, SumNat
<1>7. QED
  BY <1>2, <1>5, <1>6

(***************************************************************************)
(* The holds of a balance stay, those of the names in ids and some of `new`*)
(* excepted; they may be reduced, or go when they have expired.            *)
(***************************************************************************)
Turns(b, c, ids, new, now) ==
  \A H \in SUBSET PlainHolds : Kind(H) /\ b.holds \in Seq(H) =>
    /\ c.holds \in Seq(H \cup new)
    /\ \A name : name \notin ids =>
         /\ QuantityNamed(c.holds, name) <= QuantityNamed(b.holds, name)
         /\ Fresh(H, name, now) => QuantityNamed(c.holds, name) = QuantityNamed(b.holds, name)

BalanceStep(b, c, ids, new, now, since) ==
  c \in BalanceOf(PlainHolds) /\ CoveredFrom(c, since) /\ Turns(b, c, ids, new, now)

LEMMA SameHoldsTurn ==
  ASSUME NEW b, NEW c, c.holds = b.holds, NEW ids, NEW now
  PROVE  Turns(b, c, ids, {}, now)
<1> SUFFICES ASSUME NEW H \in SUBSET PlainHolds, b.holds \in Seq(H), NEW name
             PROVE  /\ c.holds \in Seq(H \cup {})
                    /\ QuantityNamed(c.holds, name) <= QuantityNamed(b.holds, name)
                    /\ QuantityNamed(c.holds, name) = QuantityNamed(b.holds, name)
  BY DEF Turns
<1>1. H \cup {} = H /\ H \subseteq AllHolds
  BY DEF PlainHolds
<1>2. QuantityNamed(b.holds, name) \in Nat
  BY <1>1, NamedIsSum
<1>3. QED
  BY <1>1, <1>2

LEMMA StillCovered ==
  ASSUME NEW b, NEW latter \in Nat, NEW since \in Nat, latter <= since, CoveredFrom(b, latter)
  PROVE  CoveredFrom(b, since)
BY DEF CoveredFrom

LEMMA KeepStep ==
  ASSUME NEW b \in BalanceOf(PlainHolds), NEW ids, NEW now, NEW latter \in Nat, NEW since \in Nat,
         latter <= since, CoveredFrom(b, latter)
  PROVE  BalanceStep(b, b, ids, {}, now, since)
BY SameHoldsTurn, StillCovered DEF BalanceStep

LEMMA AddStep ==
  ASSUME NEW b \in BalanceOf(PlainHolds), NEW ids, NEW now, NEW latter \in Nat, NEW since \in Nat,
         latter <= since, CoveredFrom(b, latter), NEW q \in Nat
  PROVE  BalanceStep(b, AddQuantity(b, q), ids, {}, now, since)
<1> DEFINE c == AddQuantity(b, q)
<1>1. /\ c \in BalanceOf(PlainHolds) /\ c.holds = b.holds /\ c.quantity = b.quantity + q
      /\ b.quantity \in Nat
  BY DEF BalanceOf, AddQuantity
<1> HIDE DEF c
<1>2. CoveredFrom(c, since)
  <2> SUFFICES ASSUME NEW t \in Nat, since <= t
               PROVE  LockedQuantity(c, t) <= c.quantity
    BY DEF CoveredFrom
  <2>1. LockedQuantity(b, t) <= b.quantity
    BY DEF CoveredFrom
  <2>2. LockedQuantity(c, t) = LockedQuantity(b, t) /\ LockedQuantity(b, t) \in Nat
    BY <1>1, SameHoldsLocked, LockedNat, PlainKind
  <2>3. QED
    BY <1>1, <2>1, <2>2
<1>3. QED
  BY <1>1, <1>2, SameHoldsTurn DEF BalanceStep, c

\* What can be spent is not locked, now or later.
LEMMA TakeStep ==
  ASSUME NEW b, NEW a \in BalanceOf(PlainHolds), NEW ids, NEW now \in Nat, NEW since \in Nat, now <= since,
         Turns(b, a, ids, {}, now), NEW q \in Nat, SpendableQuantity(a, now) >= q
  PROVE  BalanceStep(b, SubtractQuantity(a, q), ids, {}, now, since)
<1> DEFINE c == SubtractQuantity(a, q)
<1>1. a.quantity \in Nat /\ LockedQuantity(a, now) \in Nat
  BY LockedNat, PlainKind DEF BalanceOf
<1>2. a.quantity - q \in Nat /\ LockedQuantity(a, now) <= a.quantity - q
  BY <1>1 DEF SpendableQuantity
<1>3. c \in BalanceOf(PlainHolds) /\ c.holds = a.holds /\ c.quantity = a.quantity - q
  BY <1>2 DEF BalanceOf, SubtractQuantity
<1> HIDE DEF c
<1>4. CoveredFrom(c, since)
  <2> SUFFICES ASSUME NEW t \in Nat, since <= t
               PROVE  LockedQuantity(c, t) <= c.quantity
    BY DEF CoveredFrom
  <2>1. LockedQuantity(c, t) = LockedQuantity(a, t) /\ LockedQuantity(a, t) \in Nat
    BY <1>3, SameHoldsLocked, LockedNat, PlainKind
  <2>2. LockedQuantity(a, t) <= LockedQuantity(a, now)
    BY PlainKind, LockedReleases
  <2>3. QED
    BY <1>1, <1>2, <1>3, <2>1, <2>2
<1>5. Turns(b, c, ids, {}, now)
  BY <1>3 DEF Turns
<1>6. QED
  BY <1>3, <1>4, <1>5 DEF BalanceStep, c

(***************************************************************************)
(* Unlocking looks at the holds in some order; there is one.               *)
(***************************************************************************)
LEMMA UnlockingOrder ==
  ASSUME NEW b \in BalanceOf(PlainHolds), NEW q, NEW now, NEW id, NEW owner, NEW caller, NEW isTokenAuthority
  PROVE  \E order \in VisitOrders(UnexpiredHolds(b, now)) :
           Unlocking(b, owner, caller, q, id, isTokenAuthority, now)
             = UnlockQuantity(b, q, now, id, owner, caller, isTokenAuthority, order)
<1>1. UnexpiredHolds(b, now) \in Seq(PlainHolds)
  BY UnexpiredType
<1> DEFINE holds == UnexpiredHolds(b, now)
           order == CHOOSE o \in VisitOrders(holds) : TRUE
<1>2. \E o : o \in VisitOrders(holds)
  <2> HIDE DEF holds
  <2>1. holds \in Seq(AllHolds)
    BY <1>1, PlainKind DEF holds
  <2>2. QED
    BY <2>1, VisitExists
<1>3. order \in VisitOrders(holds)
  <2> HIDE DEF holds
  <2>1. QED
    BY <1>2
<1>4. QED
  BY <1>3 DEF Unlocking

\* Holds of the name lose what is unlocked, all of it if they have not expired.
Lessened(b, c, id, q, remaining, now) ==
  \A H \in SUBSET PlainHolds : Kind(H) /\ b.holds \in Seq(H) =>
    /\ QuantityNamed(c.holds, id) <= QuantityNamed(b.holds, id)
    /\ Fresh(H, id, now) => QuantityNamed(c.holds, id) - remaining = QuantityNamed(b.holds, id) - q

LEMMA UnlockingStep ==
  ASSUME NEW b \in BalanceOf(PlainHolds), NEW q \in Nat, NEW now \in Nat, NEW id, NEW owner, NEW caller,
         NEW isTokenAuthority
  PROVE  LET result == Unlocking(b, owner, caller, q, id, isTokenAuthority, now)
             after  == [b EXCEPT !.holds = result.kept]
         IN  /\ result.remaining \in Nat
             /\ after \in BalanceOf(PlainHolds) /\ after.quantity = b.quantity /\ after.holds = result.kept
             /\ Turns(b, after, {id}, {}, now)
             /\ \A latter \in Nat, since \in Nat :
                  now <= since /\ latter <= since /\ CoveredFrom(b, latter) => CoveredFrom(after, since)
             /\ Lessened(b, after, id, q, result.remaining, now)
<1> DEFINE result == Unlocking(b, owner, caller, q, id, isTokenAuthority, now)
           after  == [b EXCEPT !.holds = result.kept]
<1>1. PICK order \in VisitOrders(UnexpiredHolds(b, now)) :
        result = UnlockQuantity(b, q, now, id, owner, caller, isTokenAuthority, order)
  BY UnlockingOrder
<1> HIDE DEF result
<1>2. /\ result.remaining \in Nat /\ after \in BalanceOf(PlainHolds)
      /\ after.quantity = b.quantity /\ after.holds = result.kept
      /\ \A t \in Nat : now <= t => LockedQuantity(after, t) <= LockedQuantity(b, t)
  BY <1>1, PlainKind, UnlockLocksLess
<1> HIDE DEF after
<1>3. ASSUME NEW latter \in Nat, NEW since \in Nat, now <= since, latter <= since, CoveredFrom(b, latter)
      PROVE  CoveredFrom(after, since)
  <2> SUFFICES ASSUME NEW t \in Nat, since <= t
               PROVE  LockedQuantity(after, t) <= after.quantity
    BY DEF CoveredFrom
  <2>1. LockedQuantity(b, t) <= b.quantity
    BY <1>3 DEF CoveredFrom
  <2>2. LockedQuantity(after, t) <= LockedQuantity(b, t)
    BY <1>2, <1>3
  <2>3. LockedQuantity(after, t) \in Nat /\ LockedQuantity(b, t) \in Nat /\ b.quantity \in Nat
    BY <1>2, LockedNat, PlainKind DEF BalanceOf
  <2>4. QED
    BY <1>2, <2>1, <2>2, <2>3
<1>4. ASSUME NEW H \in SUBSET PlainHolds, Kind(H), b.holds \in Seq(H)
      PROVE  /\ after.holds \in Seq(H)
             /\ \A name :
                  /\ QuantityNamed(after.holds, name) <= QuantityNamed(b.holds, name)
                  /\ name # id /\ Fresh(H, name, now)
                       => QuantityNamed(after.holds, name) = QuantityNamed(b.holds, name)
                  /\ name = id /\ Fresh(H, name, now)
                       => QuantityNamed(after.holds, name) - result.remaining
                            = QuantityNamed(b.holds, name) - q
  <2>1. b \in BalanceOf(H)
    BY <1>4 DEF BalanceOf
  <2> DEFINE unlocked == UnlockQuantity(b, q, now, id, owner, caller, isTokenAuthority, order)
  <2>u. unlocked = result
    BY <1>1
  <2>2. after.holds \in Seq(H)
    <3>1. unlocked.kept \in Seq(H)
      BY <1>4, <2>1, UnlockLocksLess
    <3>2. QED
      BY <1>2, <2>u, <3>1
  <2>3. ASSUME NEW name
        PROVE  /\ QuantityNamed(result.kept, name) <= QuantityNamed(b.holds, name)
               /\ name # id /\ Fresh(H, name, now)
                    => QuantityNamed(result.kept, name) = QuantityNamed(b.holds, name)
               /\ name = id /\ Fresh(H, name, now)
                    => QuantityNamed(result.kept, name) - result.remaining
                         = QuantityNamed(b.holds, name) - q
    <3>1. /\ Kind(H) /\ H \subseteq PlainHolds /\ b \in BalanceOf(H) /\ q \in Nat
          /\ order \in VisitOrders(UnexpiredHolds(b, now))
      BY <1>4, <2>1
    <3>2. /\ QuantityNamed(unlocked.kept, name) <= QuantityNamed(b.holds, name)
          /\ name # id /\ Fresh(H, name, now)
               => QuantityNamed(unlocked.kept, name) = QuantityNamed(b.holds, name)
          /\ name = id /\ Fresh(H, name, now)
               => QuantityNamed(unlocked.kept, name) - unlocked.remaining
                    = QuantityNamed(b.holds, name) - q
      BY ONLY <3>1, NamedAfterUnlock
    <3>3. QED
      BY <2>u, <3>2
  <2>4. QED
    BY <1>2, <2>2, <2>3
<1>5. Turns(b, after, {id}, {}, now)
  <2>1. \A H : H \cup {} = H
    OBVIOUS
  <2>2. QED
    BY <1>4, <2>1 DEF Turns
<1>6. Lessened(b, after, id, q, result.remaining, now)
  BY <1>4 DEF Lessened
<1>7. QED
  BY <1>2, <1>3, <1>5, <1>6 DEF result, after

LEMMA LockStep ==
  ASSUME NEW b \in BalanceOf(PlainHolds), NEW now \in Nat, NEW since \in Nat, now <= since,
         NEW hold \in PlainHolds, SpendableQuantity(b, now) >= hold.quantity
  PROVE  LET c == LockQuantity(b, hold, now)
         IN  /\ BalanceStep(b, c, {hold.name}, {hold}, now, since)
             /\ \A H \in SUBSET PlainHolds : Kind(H) /\ b.holds \in Seq(H) /\ Fresh(H, hold.name, now) =>
                  QuantityNamed(c.holds, hold.name) = QuantityNamed(b.holds, hold.name) + hold.quantity
<1> DEFINE c == LockQuantity(b, hold, now)
<1>1. c \in BalanceOf(PlainHolds) /\ c.quantity = b.quantity
  BY PlainKind, LockedAfterLock
<1>2. CoveredFrom(c, since)
  <2> SUFFICES ASSUME NEW t \in Nat, since <= t
               PROVE  LockedQuantity(c, t) <= c.quantity
    BY DEF CoveredFrom
  <2>1. LockedQuantity(c, t) <= LockedQuantity(b, t) + hold.quantity
    BY PlainKind, LockedAfterLock
  <2>2. LockedQuantity(b, t) <= LockedQuantity(b, now)
    BY PlainKind, LockedReleases
  <2>3. LockedQuantity(b, t) \in Nat /\ LockedQuantity(b, now) \in Nat /\ LockedQuantity(c, t) \in Nat
    BY <1>1, LockedNat, PlainKind
  <2>4. b.quantity \in Nat /\ hold.quantity \in Nat
    BY PlainKind, HoldFields DEF BalanceOf
  <2> HIDE DEF c
  <2>5. QED
    BY <1>1, <2>1, <2>2, <2>3, <2>4 DEF SpendableQuantity
<1>3. ASSUME NEW H \in SUBSET PlainHolds, b.holds \in Seq(H)
      PROVE  /\ c.holds \in Seq(H \cup {hold})
             /\ \A name : /\ name # hold.name => QuantityNamed(c.holds, name) <= QuantityNamed(b.holds, name)
                          /\ name # hold.name /\ Fresh(H, name, now)
                               => QuantityNamed(c.holds, name) = QuantityNamed(b.holds, name)
                          /\ name = hold.name /\ Fresh(H, name, now)
                               => QuantityNamed(c.holds, name) = QuantityNamed(b.holds, name) + hold.quantity
  <2> DEFINE K == H \cup {hold}
  <2>1. UnexpiredHolds(b, now) \in Seq(H)
    <3>1. b \in BalanceOf(H)
      BY <1>3 DEF BalanceOf
    <3>2. QED
      BY <3>1, UnexpiredType
  <2>2. c.holds = Append(UnexpiredHolds(b, now), hold)
    BY DEF LockQuantity, BalanceOf
  <2>3. c.holds \in Seq(K)
    <3> DEFINE s == UnexpiredHolds(b, now)
    <3>1. s \in Seq(H) /\ c.holds = Append(s, hold) /\ hold \in K /\ H \subseteq K
      BY <2>1, <2>2
    <3> HIDE DEF s, c, K
    <3>2. s \in Seq(K)
      BY <3>1
    <3>3. QED
      BY <3>1, <3>2
  <2>4. H \subseteq AllHolds /\ K \subseteq AllHolds /\ b \in BalanceOf(H) /\ hold \in K
    BY <1>3, PlainKind DEF BalanceOf
  <2>5. ASSUME NEW name
        PROVE  LET left  == SumOver(UnexpiredHolds(b, now), Named(H, name))
                   added == IF hold.name = name THEN hold.quantity ELSE 0
               IN  QuantityNamed(c.holds, name) = left + added /\ left \in Nat /\ hold.quantity \in Nat
    <3> DEFINE s == UnexpiredHolds(b, now)
               value == Named(K, name)
    <3>1. s \in Seq(H) /\ s \in Seq(K) /\ c.holds = Append(s, hold) /\ value \in [K -> Int]
          /\ value[hold] = (IF hold.name = name THEN hold.quantity ELSE 0) /\ hold.quantity \in Nat
      <4>1. s \in Seq(K)
        <5> HIDE DEF s
        <5>1. QED
          BY <2>1 DEF s
      <4>2. QED
        BY <2>1, <2>2, <2>4, <4>1, NamedIsSum, HoldFields DEF Named
    <3> HIDE DEF s, value, K, c
    <3>2. QuantityNamed(c.holds, name) = SumOver(c.holds, value)
      BY <2>3, <2>4, NamedIsSum DEF value
    <3>3. SumOver(c.holds, value) = SumOver(s, value) + value[hold]
      BY <2>4, <3>1, SumOverAppend
    <3>4. /\ SumOver(s, value) = QuantityNamed(s, name) /\ SumOver(s, Named(H, name)) = QuantityNamed(s, name)
          /\ QuantityNamed(s, name) \in Nat
      BY <2>4, <3>1, NamedIsSum DEF value
    <3>5. QED
      BY <3>1, <3>2, <3>3, <3>4 DEF s
  <2>6. ASSUME NEW name
        PROVE  LET left == SumOver(UnexpiredHolds(b, now), Named(H, name))
               IN  /\ left <= QuantityNamed(b.holds, name)
                   /\ Fresh(H, name, now) => left = QuantityNamed(b.holds, name)
    BY <2>4, NamedUnexpired
  <2>7. \A name : QuantityNamed(b.holds, name) \in Nat
    BY <1>3, <2>4, NamedIsSum
  <2> HIDE DEF c
  <2>8. QED
    BY <2>3, <2>5, <2>6, <2>7
<1> HIDE DEF c
<1>4. Turns(b, c, {hold.name}, {hold}, now)
  BY <1>3 DEF Turns
<1>5. QED
  BY <1>1, <1>2, <1>3, <1>4 DEF BalanceStep, c

-----------------------------------------------------------------------------
(* What the calls make of the coins.                                       *)

Covered == \A f \in Fungibles, u \in Users : CoveredFrom(coins[f][u], latest)

\* What the proofs about one call start from.
Before == InstanceInv /\ SwapTyped /\ Covered

CoinSteps(ids, new, now) ==
  /\ coins' \in [Fungibles -> [Users -> BalanceOf(PlainHolds)]]
  /\ \A f \in Fungibles, u \in Users :
       BalanceStep(coins[f][u], coins'[f][u], ids, new[f][u], now, latest')

NoNew == [f \in Fungibles |-> [u \in Users |-> {}]]

\* The holds of the name lose exactly q, if they have not expired.
Paid(b, c, id, q, now) ==
  \A H \in SUBSET PlainHolds : Kind(H) /\ b.holds \in Seq(H) /\ Fresh(H, id, now) =>
    QuantityNamed(c.holds, id) = QuantityNamed(b.holds, id) - q

LEMMA TimesGo ==
  ASSUME Before, NEW now \in Times, Called(now)
  PROVE  /\ latest' \in Nat /\ latest \in Nat /\ now \in Nat
         /\ latest <= latest' /\ now <= latest'
BY LatestGrows DEF Before, InstanceInv

LEMMA OneCoin ==
  ASSUME Before, NEW f \in Fungibles, NEW u \in Users
  PROVE  coins[f] \in [Users -> BalanceOf(PlainHolds)] /\ coins[f][u] \in BalanceOf(PlainHolds)
         /\ CoveredFrom(coins[f][u], latest) /\ NoNew[f][u] = {}
BY DEF Before, SwapTyped, Covered, NoNew

LEMMA CoinsKept ==
  ASSUME Before, NEW now \in Times, Called(now), UNCHANGED coins, NEW ids
  PROVE  CoinSteps(ids, NoNew, now)
<1>1. coins' \in [Fungibles -> [Users -> BalanceOf(PlainHolds)]]
  BY DEF Before, SwapTyped
<1>2. ASSUME NEW f \in Fungibles, NEW u \in Users
      PROVE  BalanceStep(coins[f][u], coins'[f][u], ids, NoNew[f][u], now, latest')
  <2>1. NoNew[f][u] = {} /\ BalanceStep(coins[f][u], coins[f][u], ids, {}, now, latest')
    BY OneCoin, TimesGo, KeepStep
  <2>2. QED
    BY <2>1
<1>3. QED
  BY <1>1, <1>2 DEF CoinSteps

AllCovered(balances, t) == \A u \in Users : CoveredFrom(balances[u], t)

CanPay(balance, q, now) == SpendableQuantity(balance, now) >= q

BalanceSteps(balances, after, ids, now, since) ==
  \A u \in Users : BalanceStep(balances[u], after[u], ids, {}, now, since)

\* Coins that can be spent go from one user to another.
LEMMA GiveSteps ==
  ASSUME NEW balances \in [Users -> BalanceOf(PlainHolds)], NEW from \in Users, NEW to \in Users, from # to,
         NEW balance \in BalanceOf(PlainHolds), NEW ids, NEW now \in Nat, NEW latter \in Nat, NEW since \in Nat,
         now <= since, latter <= since, AllCovered(balances, latter),
         Turns(balances[from], balance, ids, {}, now),
         NEW q \in Nat, CanPay(balance, q, now),
         NEW after, after = GiveCoins(balances, from, balance, to, q)
  PROVE  /\ after \in [Users -> BalanceOf(PlainHolds)]
         /\ BalanceSteps(balances, after, ids, now, since)
<1> DEFINE paid  == SubtractQuantity(balance, q)
           got   == AddQuantity(balances[to], q)
<1>1. after = [balances EXCEPT ![from] = paid, ![to] = got]
  BY DEF GiveCoins
<1>2. BalanceStep(balances[from], paid, ids, {}, now, since)
  BY TakeStep DEF AllCovered, CanPay
<1>3. BalanceStep(balances[to], got, ids, {}, now, since)
  BY AddStep DEF AllCovered
<1>4. \A u \in Users : BalanceStep(balances[u], balances[u], ids, {}, now, since)
  BY KeepStep DEF AllCovered
<1> HIDE DEF paid, got
<1>6. \A u \in Users : BalanceStep(balances[u], after[u], ids, {}, now, since)
  BY <1>1, <1>2, <1>3, <1>4
<1>7. paid \in BalanceOf(PlainHolds) /\ got \in BalanceOf(PlainHolds)
  BY <1>2, <1>3 DEF BalanceStep
<1>8. after \in [Users -> BalanceOf(PlainHolds)]
  BY <1>1, <1>7
<1>9. QED
  BY <1>6, <1>8 DEF BalanceSteps

LEMMA TransferCoinsSteps ==
  ASSUME Before, NEW now \in Times, NEW from \in Users, NEW to \in Users, NEW f \in Fungibles, NEW q \in Nat,
         TransferCoins(from, to, f, q, now)
  PROVE  CoinSteps({}, NoNew, now)
<1>1. /\ from # to /\ SpendableQuantity(coins[f][from], now) >= q
      /\ coins' = [coins EXCEPT ![f] = GiveCoins(coins[f], from, coins[f][from], to, q)] /\ Called(now)
  BY DEF TransferCoins
<1> DEFINE after == GiveCoins(coins[f], from, coins[f][from], to, q)
<1>2. Turns(coins[f][from], coins[f][from], {}, {}, now)
  BY SameHoldsTurn
<1>3. /\ after \in [Users -> BalanceOf(PlainHolds)]
      /\ BalanceSteps(coins[f], after, {}, now, latest')
  <2>1. coins[f] \in [Users -> BalanceOf(PlainHolds)] /\ coins[f][from] \in BalanceOf(PlainHolds)
        /\ AllCovered(coins[f], latest)
    BY OneCoin DEF AllCovered
  <2>2. QED
    BY <1>1, <1>2, <2>1, TimesGo, GiveSteps DEF CanPay
<1> HIDE DEF after
<1>4. coins' = [coins EXCEPT ![f] = after] /\ coins \in [Fungibles -> [Users -> BalanceOf(PlainHolds)]]
  BY <1>1 DEF after, Before, SwapTyped
<1>5. coins' \in [Fungibles -> [Users -> BalanceOf(PlainHolds)]]
  BY <1>3, <1>4
<1>6. ASSUME NEW g \in Fungibles, NEW u \in Users
      PROVE  BalanceStep(coins[g][u], coins'[g][u], {}, NoNew[g][u], now, latest')
  <2>1. NoNew[g][u] = {} /\ BalanceStep(coins[g][u], coins[g][u], {}, {}, now, latest')
    BY <1>1, OneCoin, TimesGo, KeepStep
  <2>2. QED
    BY <1>3, <1>4, <2>1 DEF BalanceSteps
<1>7. QED
  BY <1>5, <1>6 DEF CoinSteps

LEMMA UnlockCoinsSteps ==
  ASSUME Before, NEW now \in Times, NEW by \in Users, NEW owner \in Users, NEW f \in Fungibles, NEW q \in Nat,
         NEW name, UnlockCoins(by, owner, f, q, name, now)
  PROVE  /\ CoinSteps({name}, NoNew, now)
         /\ \A g \in Fungibles, u \in Users :
              QuantityNamed(coins'[g][u].holds, name) <= QuantityNamed(coins[g][u].holds, name)
<1> DEFINE result == Unlocking(coins[f][owner], owner, by, q, name, by \in Authorities, now)
           after  == [coins[f][owner] EXCEPT !.holds = result.kept]
<1>1. coins' = [coins EXCEPT ![f][owner].holds = result.kept] /\ Called(now)
  BY DEF UnlockCoins
<1>2. coins \in [Fungibles -> [Users -> BalanceOf(PlainHolds)]]
  BY DEF Before, SwapTyped
<1>3. coins' = [coins EXCEPT ![f] = [coins[f] EXCEPT ![owner] = after]]
  BY <1>1, <1>2
<1>4. /\ after \in BalanceOf(PlainHolds) /\ Turns(coins[f][owner], after, {name}, {}, now)
      /\ CoveredFrom(after, latest')
      /\ QuantityNamed(after.holds, name) <= QuantityNamed(coins[f][owner].holds, name)
  <2>1. coins[f][owner] \in BalanceOf(PlainHolds) /\ CoveredFrom(coins[f][owner], latest)
        /\ coins[f][owner].holds \in Seq(PlainHolds)
    BY OneCoin DEF BalanceOf
  <2>2. /\ now \in Nat /\ now <= latest' /\ latest <= latest' /\ latest \in Nat /\ latest' \in Nat
    BY <1>1, TimesGo
  <2> DEFINE b == coins[f][owner]
  <2> HIDE DEF b
  <2>3. LET r == Unlocking(b, owner, by, q, name, by \in Authorities, now)
            c == [b EXCEPT !.holds = r.kept]
        IN  /\ c \in BalanceOf(PlainHolds) /\ Turns(b, c, {name}, {}, now)
            /\ CoveredFrom(c, latest')
            /\ Lessened(b, c, name, q, r.remaining, now)
    BY <2>1, <2>2, UnlockingStep DEF b
  <2>4. LET r == Unlocking(b, owner, by, q, name, by \in Authorities, now)
            c == [b EXCEPT !.holds = r.kept]
        IN  QuantityNamed(c.holds, name) <= QuantityNamed(b.holds, name)
    BY <2>1, <2>3, PlainKind DEF Lessened, b
  <2>5. QED
    BY <2>3, <2>4 DEF b
<1>5. BalanceStep(coins[f][owner], after, {name}, {}, now, latest')
  BY <1>4 DEF BalanceStep
<1> HIDE DEF after, result
<1>6. coins' \in [Fungibles -> [Users -> BalanceOf(PlainHolds)]]
  BY <1>2, <1>3, <1>4
<1>7. ASSUME NEW g \in Fungibles, NEW u \in Users
      PROVE  coins'[g][u] = IF g = f /\ u = owner THEN after ELSE coins[g][u]
  BY <1>2, <1>3
<1>8. ASSUME NEW g \in Fungibles, NEW u \in Users
      PROVE  BalanceStep(coins[g][u], coins'[g][u], {name}, NoNew[g][u], now, latest')
  <2>1. NoNew[g][u] = {} /\ BalanceStep(coins[g][u], coins[g][u], {name}, {}, now, latest')
    BY <1>1, OneCoin, TimesGo, KeepStep
  <2>2. QED
    BY <1>5, <1>7, <2>1
<1>9. ASSUME NEW g \in Fungibles, NEW u \in Users
      PROVE  QuantityNamed(coins'[g][u].holds, name) <= QuantityNamed(coins[g][u].holds, name)
  <2>1. QuantityNamed(coins[g][u].holds, name) \in Nat
    <3>1. coins[g][u].holds \in Seq(PlainHolds)
      BY OneCoin DEF BalanceOf
    <3>2. QED
      BY <3>1, PlainKind, NamedIsSum
  <2>2. QED
    BY <1>4, <1>7, <2>1
<1>10. QED
  BY <1>6, <1>8, <1>9 DEF CoinSteps

LEMMA RequestSteps ==
  ASSUME Before, NEW now \in Times, NEW u \in Users, NEW to, NEW id \in SwapIds, NEW terms \in Terms,
         NEW expires \in Nat, RequestTokenSwap(u, to, id, terms, expires, now)
  PROVE  /\ CoinSteps({id}, [f \in Fungibles |-> [v \in Users |->
                        IF f \in DOMAIN terms.offered /\ v = u THEN {OfferHold(u, id, terms, f, expires)} ELSE {}]], now)
         /\ \A f \in DOMAIN terms.offered \cap Fungibles :
              \A H \in SUBSET PlainHolds : Kind(H) /\ coins[f][u].holds \in Seq(H) /\ Fresh(H, id, now) =>
                QuantityNamed(coins'[f][u].holds, id)
                  = QuantityNamed(coins[f][u].holds, id) + QuantityOf(terms.offered, f, terms.uses)
<1> DEFINE Hold(f) == OfferHold(u, id, terms, f, expires)
           fungible == DOMAIN terms.offered \cap Fungibles
           new == [f \in Fungibles |-> [v \in Users |->
                     IF f \in DOMAIN terms.offered /\ v = u THEN {Hold(f)} ELSE {}]]
           Grown(f) == \A H \in SUBSET PlainHolds :
                         Kind(H) /\ coins[f][u].holds \in Seq(H) /\ Fresh(H, id, now) =>
                           QuantityNamed(coins'[f][u].holds, id)
                             = QuantityNamed(coins[f][u].holds, id) + QuantityOf(terms.offered, f, terms.uses)
<1>1. /\ coins' = [f \in Fungibles |-> IF f \notin fungible THEN coins[f]
                                       ELSE [coins[f] EXCEPT ![u] = LockQuantity(coins[f][u], Hold(f), now)]]
      /\ \A f \in fungible : Offered(terms, f) <= SpendableQuantity(coins[f][u], now)
      /\ Called(now)
  BY DEF RequestTokenSwap
<1>2. /\ latest' \in Nat /\ latest \in Nat /\ now \in Nat /\ latest <= latest' /\ now <= latest'
  BY <1>1, TimesGo
<1>3. coins \in [Fungibles -> [Users -> BalanceOf(PlainHolds)]]
  BY DEF Before, SwapTyped
<1>4. ASSUME NEW f \in fungible
      PROVE  /\ BalanceStep(coins[f][u], LockQuantity(coins[f][u], Hold(f), now), {id}, {Hold(f)}, now, latest')
             /\ coins'[f] = [coins[f] EXCEPT ![u] = LockQuantity(coins[f][u], Hold(f), now)]
             /\ Grown(f)
  <2> DEFINE b == coins[f][u]
             hold == Hold(f)
  <2>1. coins'[f] = [coins[f] EXCEPT ![u] = LockQuantity(b, hold, now)]
    BY <1>1
  <2>2. coins'[f][u] = LockQuantity(b, hold, now)
    BY <1>3, <2>1
  <2>3. b \in BalanceOf(PlainHolds)
    BY <1>3
  <2>4. /\ hold \in PlainHolds /\ hold.name = id /\ hold.quantity = QuantityOf(terms.offered, f, terms.uses)
        /\ hold.quantity \in Nat
    BY OfferHoldType
  <2>5. SpendableQuantity(b, now) >= hold.quantity
    <3>1. Offered(terms, f) = hold.quantity
      BY <2>4 DEF Offered
    <3>2. SpendableQuantity(b, now) \in Int
      BY <1>2, <2>3, PlainKind, LockedNat DEF SpendableQuantity, BalanceOf
    <3>3. Offered(terms, f) <= SpendableQuantity(b, now)
      BY <1>1
    <3> HIDE DEF b, hold
    <3>4. QED
      BY <2>4, <3>1, <3>2, <3>3
  <2> HIDE DEF b, hold
  <2>6. /\ BalanceStep(b, LockQuantity(b, hold, now), {hold.name}, {hold}, now, latest')
        /\ \A H \in SUBSET PlainHolds : Kind(H) /\ b.holds \in Seq(H) /\ Fresh(H, hold.name, now) =>
             QuantityNamed(LockQuantity(b, hold, now).holds, hold.name)
               = QuantityNamed(b.holds, hold.name) + hold.quantity
    BY <1>2, <2>3, <2>4, <2>5, LockStep
  <2>7. \A H \in SUBSET PlainHolds : Kind(H) /\ b.holds \in Seq(H) /\ Fresh(H, id, now) =>
          QuantityNamed(coins'[f][u].holds, id)
            = QuantityNamed(b.holds, id) + QuantityOf(terms.offered, f, terms.uses)
    BY <2>2, <2>4, <2>6
  <2>8. Grown(f)
    BY <2>7 DEF b
  <2>9. QED
    BY <2>1, <2>4, <2>6, <2>8 DEF b, hold
<1>5. ASSUME NEW f \in Fungibles, NEW v \in Users
      PROVE  /\ BalanceStep(coins[f][v], coins'[f][v], {id}, new[f][v], now, latest')
             /\ coins'[f] \in [Users -> BalanceOf(PlainHolds)]
  <2>1. BalanceStep(coins[f][v], coins[f][v], {id}, {}, now, latest')
    BY <1>2, OneCoin, KeepStep
  <2>2. new[f][v] = IF f \in fungible /\ v = u THEN {Hold(f)} ELSE {}
    OBVIOUS
  <2> HIDE DEF new
  <2>3. CASE f \notin fungible
    <3>1. coins'[f] = coins[f] /\ new[f][v] = {}
      BY <1>1, <2>2, <2>3
    <3>2. QED
      BY <1>3, <2>1, <3>1
  <2>4. CASE f \in fungible
    <3> DEFINE c == LockQuantity(coins[f][u], Hold(f), now)
    <3>1. BalanceStep(coins[f][u], c, {id}, {Hold(f)}, now, latest') /\ coins'[f] = [coins[f] EXCEPT ![u] = c]
      BY <1>4, <2>4
    <3>2. new[f][v] = IF v = u THEN {Hold(f)} ELSE {}
      BY <2>2, <2>4
    <3>3. c \in BalanceOf(PlainHolds)
      BY <3>1 DEF BalanceStep
    <3> HIDE DEF c, Hold
    <3>4. QED
      BY <1>3, <2>1, <3>1, <3>2, <3>3
  <2>5. QED
    BY <2>3, <2>4
<1>6. coins' \in [Fungibles -> [Users -> BalanceOf(PlainHolds)]]
  <2> DEFINE after == coins'
  <2>1. after = [f \in Fungibles |-> after[f]]
    BY <1>1
  <2>2. \A f \in Fungibles : after[f] \in [Users -> BalanceOf(PlainHolds)]
    BY <1>5
  <2> HIDE DEF after
  <2>3. after \in [Fungibles -> [Users -> BalanceOf(PlainHolds)]]
    BY <2>1, <2>2
  <2>4. QED
    BY <2>3 DEF after
<1> HIDE DEF Grown
<1>7. CoinSteps({id}, new, now)
  BY <1>5, <1>6 DEF CoinSteps
<1>8. \A f \in fungible : Grown(f)
  BY <1>4
<1>9. QED
  BY <1>7, <1>8 DEF Grown

LEMMA UnlockedPays ==
  ASSUME NEW b \in BalanceOf(PlainHolds), NEW q \in Nat, NEW now \in Nat, NEW id, NEW owner, NEW caller,
         NEW isTokenAuthority, Unlocking(b, owner, caller, q, id, isTokenAuthority, now).remaining = 0
  PROVE  LET after == [b EXCEPT !.holds = Unlocking(b, owner, caller, q, id, isTokenAuthority, now).kept]
         IN  /\ after \in BalanceOf(PlainHolds) /\ Turns(b, after, {id}, {}, now) /\ Paid(b, after, id, q, now)
             /\ \A latter \in Nat, since \in Nat :
                  now <= since /\ latter <= since /\ CoveredFrom(b, latter) => CoveredFrom(after, since)
<1> DEFINE after == [b EXCEPT !.holds = Unlocking(b, owner, caller, q, id, isTokenAuthority, now).kept]
<1>1. /\ after \in BalanceOf(PlainHolds) /\ Turns(b, after, {id}, {}, now)
      /\ \A latter \in Nat, since \in Nat :
           now <= since /\ latter <= since /\ CoveredFrom(b, latter) => CoveredFrom(after, since)
  BY UnlockingStep
<1>2. \A H \in SUBSET PlainHolds : Kind(H) /\ b.holds \in Seq(H) /\ Fresh(H, id, now) =>
        QuantityNamed(after.holds, id) - 0 = QuantityNamed(b.holds, id) - q
  <2> DEFINE result == Unlocking(b, owner, caller, q, id, isTokenAuthority, now)
  <2>1. Lessened(b, after, id, q, result.remaining, now)
    BY UnlockingStep
  <2>2. result.remaining = 0
    OBVIOUS
  <2> HIDE DEF result, after
  <2>3. QED
    BY <2>1, <2>2 DEF Lessened
<1> HIDE DEF after
<1>3. QuantityNamed(after.holds, id) \in Nat
  BY <1>1, PlainKind, NamedIsSum DEF BalanceOf
<1>4. Paid(b, after, id, q, now)
  BY <1>2, <1>3 DEF Paid
<1>5. QED
  BY <1>1, <1>4 DEF after

LEMMA FillSteps ==
  ASSUME Before, NEW now \in Times, NEW caller \in Users, NEW u \in Users, NEW id \in SwapIds,
         NEW uses \in FillUses, NEW expected, FillTokenSwap(caller, u, id, uses, expected, now)
  PROVE  LET swap == swaps[id]
         IN  /\ CoinSteps({id}, NoNew, now)
             /\ \A f \in DOMAIN swap.terms.offered \cap Fungibles :
                  Paid(coins[f][swap.offeredBy], coins'[f][swap.offeredBy], id,
                       QuantityOf(swap.terms.offered, f, uses), now)
<1> DEFINE swap == swaps[id]
           o == swap.offeredBy
           offered == swap.terms.offered
           wanted == swap.terms.wanted
           Due(f) == QuantityOf(offered, f, uses)
           Price(f) == QuantityOf(wanted, f, uses)
           PaidOffer(f) == Paid(coins[f][o], coins'[f][o], id, Due(f), now)
<1>1. /\ swap # None /\ Called(now) /\ u # o
      /\ GiveOffer(u, id, swap, uses, now) /\ GiveWanted(caller, u, swap, uses, now)
      /\ MoveCoins(u, id, swap, uses, now)
  BY DEF FillTokenSwap, CanFill
<1>2. /\ latest' \in Nat /\ latest \in Nat /\ now \in Nat /\ latest <= latest' /\ now <= latest'
  BY <1>1, TimesGo
<1>3. coins \in [Fungibles -> [Users -> BalanceOf(PlainHolds)]]
  BY DEF Before, SwapTyped
<1>4. o \in Users /\ swap.terms \in Terms \cup OldTerms /\ uses \in Nat
  BY <1>1, SwapType, SwapsAssumption DEF Before
<1>5. /\ \A f \in DOMAIN offered : Due(f) \in Nat
      /\ \A f \in DOMAIN wanted : Price(f) \in Nat
  BY <1>4, TermsType, QuantityType
<1>6. coins' = [f \in Fungibles |->
        IF f \in DOMAIN offered
        THEN GiveCoins(coins[f], o, Unlocked(coins[f][o], o, Due(f), id, now), u, Due(f))
        ELSE IF f \in DOMAIN wanted THEN GiveCoins(coins[f], u, coins[f][u], o, Price(f))
        ELSE coins[f]]
  BY <1>1 DEF MoveCoins
<1>7. ASSUME NEW f \in Fungibles, f \in DOMAIN offered
      PROVE  /\ Unlocking(coins[f][o], o, o, Due(f), id, FALSE, now).remaining = 0
             /\ SpendableQuantity(Unlocked(coins[f][o], o, Due(f), id, now), now) >= Due(f)
  BY <1>1, <1>7 DEF GiveOffer
<1>8. ASSUME NEW f \in Fungibles, f \in DOMAIN wanted
      PROVE  SpendableQuantity(coins[f][u], now) >= Price(f)
  BY <1>1, <1>8 DEF GiveWanted
<1> HIDE DEF swap, o, offered, wanted, Due, Price, PaidOffer
<1>9. ASSUME NEW f \in Fungibles
      PROVE  /\ coins'[f] \in [Users -> BalanceOf(PlainHolds)]
             /\ \A v \in Users : BalanceStep(coins[f][v], coins'[f][v], {id}, {}, now, latest')
             /\ f \in DOMAIN offered => PaidOffer(f)
  <2>1. /\ coins[f] \in [Users -> BalanceOf(PlainHolds)]
        /\ \A v \in Users : coins[f][v] \in BalanceOf(PlainHolds) /\ CoveredFrom(coins[f][v], latest)
        /\ AllCovered(coins[f], latest)
    BY OneCoin DEF AllCovered
  <2>2. CASE f \in DOMAIN offered
    <3> DEFINE b == coins[f][o]
               unlocked == Unlocked(b, o, Due(f), id, now)
               after == GiveCoins(coins[f], o, unlocked, u, Due(f))
    <3>1. b \in BalanceOf(PlainHolds)
      BY <1>4, <2>1
    <3>2. unlocked = [b EXCEPT !.holds = Unlocking(b, o, o, Due(f), id, FALSE, now).kept]
      BY DEF Unlocked
    <3>3. Unlocking(b, o, o, Due(f), id, FALSE, now).remaining = 0 /\ SpendableQuantity(unlocked, now) >= Due(f)
      BY <1>7, <2>2
    <3>4. coins'[f] = after
      BY <1>6, <2>2
    <3> HIDE DEF b, unlocked, after
    <3>5. /\ unlocked \in BalanceOf(PlainHolds) /\ Turns(b, unlocked, {id}, {}, now)
          /\ Paid(b, unlocked, id, Due(f), now)
      BY <1>2, <1>5, <2>2, <3>1, <3>2, <3>3, UnlockedPays
    <3>6. Turns(coins[f][o], unlocked, {id}, {}, now)
      BY <3>5 DEF b
    <3>7. /\ after \in [Users -> BalanceOf(PlainHolds)] /\ after[o].holds = unlocked.holds
          /\ BalanceSteps(coins[f], after, {id}, now, latest')
      <4>1. coins[f] \in [Users -> BalanceOf(PlainHolds)] /\ AllCovered(coins[f], latest)
        BY <2>1
      <4>2. PICK q \in Nat : q = Due(f)
        BY <1>5, <2>2
      <4>3. PICK since \in Nat : since = latest'
        BY <1>2
      <4>4. CanPay(unlocked, q, now) /\ after = GiveCoins(coins[f], o, unlocked, u, q)
        BY <3>3, <4>2 DEF CanPay, after
      <4>5. o \in Users /\ u \in Users /\ o # u /\ unlocked \in BalanceOf(PlainHolds)
        BY <1>1, <1>4, <3>5
      <4>6. /\ after \in [Users -> BalanceOf(PlainHolds)]
            /\ BalanceSteps(coins[f], after, {id}, now, since)
        BY <1>2, <3>6, <4>1, <4>3, <4>4, <4>5, GiveSteps
      <4>7. after[o].holds = unlocked.holds
        <5>1. after[o] = SubtractQuantity(unlocked, q)
          BY <4>1, <4>4, <4>5 DEF GiveCoins
        <5>2. QED
          BY <4>5, <5>1 DEF SubtractQuantity, BalanceOf
      <4>8. QED
        BY <4>3, <4>6, <4>7
    <3>8. PaidOffer(f)
      <4>1. Paid(b, after[o], id, Due(f), now)
        BY <3>5, <3>7 DEF Paid
      <4>2. QED
        BY <3>4, <4>1 DEF PaidOffer, b
    <3>9. QED
      BY <3>4, <3>7, <3>8 DEF BalanceSteps
  <2>3. CASE f \notin DOMAIN offered /\ f \in DOMAIN wanted
    <3> DEFINE after == GiveCoins(coins[f], u, coins[f][u], o, Price(f))
    <3>1. coins'[f] = after /\ SpendableQuantity(coins[f][u], now) >= Price(f)
      BY <1>6, <1>8, <2>3
    <3>2. Turns(coins[f][u], coins[f][u], {id}, {}, now)
      BY SameHoldsTurn
    <3>3. /\ after \in [Users -> BalanceOf(PlainHolds)]
          /\ BalanceSteps(coins[f], after, {id}, now, latest')
      BY <1>1, <1>2, <1>4, <1>5, <2>1, <2>3, <3>1, <3>2, GiveSteps DEF CanPay
    <3> HIDE DEF after
    <3>4. QED
      BY <2>3, <3>1, <3>3 DEF BalanceSteps
  <2>4. CASE f \notin DOMAIN offered /\ f \notin DOMAIN wanted
    <3>1. coins'[f] = coins[f]
      BY <1>6, <2>4
    <3>2. \A v \in Users : BalanceStep(coins[f][v], coins[f][v], {id}, {}, now, latest')
      BY <1>2, <2>1, KeepStep
    <3>3. QED
      BY <2>1, <2>4, <3>1, <3>2
  <2>5. QED
    BY <2>2, <2>3, <2>4
<1>10. coins' \in [Fungibles -> [Users -> BalanceOf(PlainHolds)]]
  <2> DEFINE after == coins'
  <2>1. after = [f \in Fungibles |-> after[f]]
    BY <1>6
  <2>2. \A f \in Fungibles : after[f] \in [Users -> BalanceOf(PlainHolds)]
    BY <1>9
  <2> HIDE DEF after
  <2>3. after \in [Fungibles -> [Users -> BalanceOf(PlainHolds)]]
    BY <2>1, <2>2
  <2>4. QED
    BY <2>3 DEF after
<1>11. ASSUME NEW f \in Fungibles, NEW v \in Users
       PROVE  BalanceStep(coins[f][v], coins'[f][v], {id}, NoNew[f][v], now, latest')
  <2>1. NoNew[f][v] = {}
    BY DEF NoNew
  <2>2. QED
    BY <1>9, <2>1
<1>12. CoinSteps({id}, NoNew, now)
  BY <1>10, <1>11 DEF CoinSteps
<1>13. \A f \in DOMAIN offered \cap Fungibles : PaidOffer(f)
  BY <1>9
<1>14. QED
  BY <1>12, <1>13 DEF PaidOffer, Due, offered, o, swap

LEMMA TerminateSteps ==
  ASSUME Before, NEW now \in Times, NEW caller \in Users, NEW id \in SwapIds, TerminateTokenSwap(caller, id, now)
  PROVE  LET swap == swaps[id]
         IN  /\ CoinSteps({id}, NoNew, now)
             /\ \A f \in DOMAIN swap.terms.offered \cap Fungibles :
                  Paid(coins[f][swap.offeredBy], coins'[f][swap.offeredBy], id,
                       QuantityOf(swap.terms.offered, f, Remaining(swap)), now)
<1> DEFINE swap == swaps[id]
           o == swap.offeredBy
           offered == swap.terms.offered
           Due(f) == QuantityOf(offered, f, Remaining(swap))
           authority == caller \in Authorities
           PaidOffer(f) == Paid(coins[f][o], coins'[f][o], id, Due(f), now)
           After(f) == [coins[f][o] EXCEPT !.holds =
                          Unlocking(coins[f][o], o, caller, Due(f), id, authority, now).kept]
<1>1. /\ swap # None /\ Called(now)
      /\ \A token \in DOMAIN offered : CanUnlockOffer(caller, id, swap, token, Due(token), now)
      /\ UnlockOffer(caller, id, swap, Remaining(swap), now)
  BY DEF TerminateTokenSwap
<1>2. /\ latest' \in Nat /\ latest \in Nat /\ now \in Nat /\ latest <= latest' /\ now <= latest'
  BY <1>1, TimesGo
<1>3. coins \in [Fungibles -> [Users -> BalanceOf(PlainHolds)]]
  BY DEF Before, SwapTyped
<1>4. o \in Users /\ swap.terms \in Terms \cup OldTerms /\ Remaining(swap) \in Nat
  BY <1>1, SwapType DEF Before
<1>5. \A f \in DOMAIN offered : Due(f) \in Nat
  BY <1>4, TermsType, QuantityType
<1>6. coins' = [f \in Fungibles |-> IF f \notin DOMAIN offered THEN coins[f]
                                    ELSE [coins[f] EXCEPT ![o].holds =
                                      Unlocking(coins[f][o], o, caller, Due(f), id, authority, now).kept]]
  BY <1>1 DEF UnlockOffer
<1>7. ASSUME NEW f \in Fungibles, f \in DOMAIN offered
      PROVE  Unlocking(coins[f][o], o, caller, Due(f), id, authority, now).remaining = 0
  BY <1>1, <1>7 DEF CanUnlockOffer
<1>8. ASSUME NEW f \in Fungibles, f \in DOMAIN offered
      PROVE  coins'[f] = [coins[f] EXCEPT ![o] = After(f)]
  BY <1>3, <1>6, <1>8
<1> HIDE DEF swap, o, offered, Due, authority
<1>9. ASSUME NEW f \in Fungibles
      PROVE  /\ coins'[f] \in [Users -> BalanceOf(PlainHolds)]
             /\ \A v \in Users : BalanceStep(coins[f][v], coins'[f][v], {id}, {}, now, latest')
             /\ f \in DOMAIN offered => PaidOffer(f)
  <2>1. /\ coins[f] \in [Users -> BalanceOf(PlainHolds)]
        /\ \A v \in Users : coins[f][v] \in BalanceOf(PlainHolds) /\ CoveredFrom(coins[f][v], latest)
    BY OneCoin
  <2>2. \A v \in Users : BalanceStep(coins[f][v], coins[f][v], {id}, {}, now, latest')
    BY <1>2, <2>1, KeepStep
  <2>3. CASE f \in DOMAIN offered
    <3> DEFINE b == coins[f][o]
               after == After(f)
    <3>1. b \in BalanceOf(PlainHolds) /\ CoveredFrom(b, latest)
      BY <1>4, <2>1
    <3>2. Unlocking(b, o, caller, Due(f), id, authority, now).remaining = 0
      BY <1>7, <2>3
    <3>3. after = [b EXCEPT !.holds = Unlocking(b, o, caller, Due(f), id, authority, now).kept]
      OBVIOUS
    <3>4. coins'[f] = [coins[f] EXCEPT ![o] = after]
      BY <1>8, <2>3
    <3> HIDE DEF b, after
    <3>5. /\ after \in BalanceOf(PlainHolds) /\ Turns(b, after, {id}, {}, now) /\ Paid(b, after, id, Due(f), now)
          /\ CoveredFrom(after, latest')
      BY <1>2, <1>5, <2>3, <3>1, <3>2, <3>3, UnlockedPays
    <3>6. BalanceStep(coins[f][o], after, {id}, {}, now, latest')
      BY <3>5 DEF BalanceStep, b
    <3>7. coins'[f][o] = after /\ coins'[f] \in [Users -> BalanceOf(PlainHolds)]
      BY <1>4, <2>1, <3>4, <3>5
    <3>8. \A v \in Users : BalanceStep(coins[f][v], coins'[f][v], {id}, {}, now, latest')
      BY <2>1, <2>2, <3>4, <3>6
    <3>9. PaidOffer(f)
      BY <3>5, <3>7 DEF b
    <3> HIDE DEF PaidOffer
    <3>10. QED
      BY <3>7, <3>8, <3>9
  <2>4. CASE f \notin DOMAIN offered
    <3>1. coins'[f] = coins[f]
      BY <1>6, <2>4
    <3>2. QED
      BY <2>1, <2>2, <2>4, <3>1
  <2>5. QED
    BY <2>3, <2>4
<1> HIDE DEF PaidOffer, After
<1>10. coins' \in [Fungibles -> [Users -> BalanceOf(PlainHolds)]]
  <2> DEFINE after == coins'
  <2>1. after = [f \in Fungibles |-> after[f]]
    BY <1>6
  <2>2. \A f \in Fungibles : after[f] \in [Users -> BalanceOf(PlainHolds)]
    BY <1>9
  <2> HIDE DEF after
  <2>3. after \in [Fungibles -> [Users -> BalanceOf(PlainHolds)]]
    BY <2>1, <2>2
  <2>4. QED
    BY <2>3 DEF after
<1>11. ASSUME NEW f \in Fungibles, NEW v \in Users
       PROVE  BalanceStep(coins[f][v], coins'[f][v], {id}, NoNew[f][v], now, latest')
  <2>1. NoNew[f][v] = {}
    BY DEF NoNew
  <2>2. QED
    BY <1>9, <2>1
<1>12. CoinSteps({id}, NoNew, now)
  BY <1>10, <1>11 DEF CoinSteps
<1>13. \A f \in DOMAIN offered \cap Fungibles : PaidOffer(f)
  BY <1>9
<1>14. QED
  BY <1>12, <1>13 DEF PaidOffer, Due, offered, o, swap

-----------------------------------------------------------------------------
(* Every call leaves the types, the instances, and what is locked.         *)

LEMMA CoinStepsCover ==
  ASSUME NEW ids, NEW new, NEW now, CoinSteps(ids, new, now)
  PROVE  coins' \in [Fungibles -> [Users -> BalanceOf(PlainHolds)]] /\ Covered'
<1>1. \A f \in Fungibles, u \in Users : CoveredFrom(coins'[f][u], latest')
  BY DEF CoinSteps, BalanceStep
<1>2. QED
  BY <1>1 DEF CoinSteps, Covered

LEMMA SameSwapsTyped ==
  ASSUME SwapTyped, coins' \in [Fungibles -> [Users -> BalanceOf(PlainHolds)]], swaps' = swaps,
         fate' \in [SwapIds -> Fates], \A id \in SwapIds : fate[id] # "unused" => fate'[id] # "unused"
  PROVE  SwapTyped'
BY DEF SwapTyped

LEMMA ReleasedFate ==
  ASSUME SwapTyped, NEW name, Released(name)
  PROVE  /\ fate' \in [SwapIds -> Fates]
         /\ \A id \in SwapIds : fate[id] # "unused" => fate'[id] # "unused"
BY DEF SwapTyped, Released, Fates

LEMMA MarkedFate ==
  ASSUME SwapTyped, NEW id \in SwapIds, NEW mark \in Fates, mark # "unused", fate' = [fate EXCEPT ![id] = mark]
  PROVE  /\ fate' \in [SwapIds -> Fates] /\ fate'[id] = mark
         /\ \A j \in SwapIds : j # id => fate'[j] = fate[j]
BY DEF SwapTyped

LEMMA NewSwapType ==
  ASSUME NEW u \in Users, NEW to \in Users \cup {None}, NEW terms \in Terms \cup OldTerms, NEW expires \in Nat
  PROVE  LET swap == NewSwap(u, to, terms, expires)
         IN  /\ swap \in TokenSwapRequests /\ swap # None /\ swap.usesSpent <= swap.terms.uses
             /\ swap.usesSpent = 0 /\ swap.terms = terms /\ swap.offeredBy = u
             /\ swap.offeredTo = to /\ swap.expires = expires
<1> DEFINE swap == NewSwap(u, to, terms, expires)
<1>1. swap \in TokenSwapRequests
  BY DEF NewSwap, TokenSwapRequests
<1>2. swap.usesSpent = 0 /\ swap.terms = terms /\ swap.offeredBy = u /\ swap.offeredTo = to /\ swap.expires = expires
  BY DEF NewSwap
<1>3. QED
  BY <1>1, <1>2, TermsType, SwapRequestsAssumption

LEMMA RequestTyped ==
  ASSUME SwapTyped, NEW now \in Times, NEW u \in Users, NEW to \in Users \cup {None}, NEW id \in SwapIds,
         NEW terms \in Terms, NEW expires \in Nat, RequestTokenSwap(u, to, id, terms, expires, now),
         coins' \in [Fungibles -> [Users -> BalanceOf(PlainHolds)]]
  PROVE  SwapTyped'
<1> DEFINE swap == NewSwap(u, to, terms, expires)
<1>1. swaps' = [swaps EXCEPT ![id] = swap] /\ fate' = [fate EXCEPT ![id] = "held"]
  BY DEF RequestTokenSwap
<1>2. swap \in TokenSwapRequests /\ swap.usesSpent <= swap.terms.uses
  BY NewSwapType
<1>3. /\ fate' \in [SwapIds -> Fates] /\ fate'[id] = "held"
      /\ \A j \in SwapIds : j # id => fate'[j] = fate[j]
  BY <1>1, MarkedFate DEF Fates
<1> HIDE DEF swap
<1>4. swaps' \in [SwapIds -> TokenSwapRequests \cup {None}]
  BY <1>1, <1>2 DEF SwapTyped
<1>5. ASSUME NEW j \in SwapIds, swaps'[j] # None
      PROVE  fate'[j] # "unused" /\ swaps'[j].usesSpent <= swaps'[j].terms.uses
  <2>1. CASE j = id
    BY <1>1, <1>2, <1>3, <2>1 DEF SwapTyped
  <2>2. CASE j # id
    BY <1>1, <1>3, <1>5, <2>2 DEF SwapTyped
  <2>3. QED
    BY <2>1, <2>2
<1>6. QED
  BY <1>3, <1>4, <1>5 DEF SwapTyped

\* A swap that is written again, with what may change of it.
LEMMA WrittenTyped ==
  ASSUME SwapTyped, NEW id \in SwapIds, swaps[id] # None, NEW swap \in TokenSwapRequests,
         swap.usesSpent <= swap.terms.uses, swaps' = [swaps EXCEPT ![id] = swap],
         coins' \in [Fungibles -> [Users -> BalanceOf(PlainHolds)]],
         fate' \in [SwapIds -> Fates], \A j \in SwapIds : fate[j] # "unused" => fate'[j] # "unused"
  PROVE  SwapTyped'
<1>1. swaps' \in [SwapIds -> TokenSwapRequests \cup {None}]
  BY DEF SwapTyped
<1>2. ASSUME NEW j \in SwapIds, swaps'[j] # None
      PROVE  fate'[j] # "unused" /\ swaps'[j].usesSpent <= swaps'[j].terms.uses
  <2>1. CASE j = id
    BY <2>1 DEF SwapTyped
  <2>2. CASE j # id
    BY <1>2, <2>2 DEF SwapTyped
  <2>3. QED
    BY <2>1, <2>2
<1>3. QED
  BY <1>1, <1>2 DEF SwapTyped

\* What fills and terminations write of a swap.
Filled(swap, id, u, uses, now) ==
  [swap EXCEPT !.usesSpent = @ + uses, !.fillIds = Append(@, FillKey(id, u, now))]

LEMMA FilledSwap ==
  ASSUME SwapTyped, NEW now \in Times, NEW caller, NEW u \in Users, NEW id \in SwapIds,
         NEW uses \in FillUses, NEW expected, FillTokenSwap(caller, u, id, uses, expected, now)
  PROVE  LET filled == Filled(swaps[id], id, u, uses, now)
         IN  /\ swaps' = [swaps EXCEPT ![id] = filled] /\ filled \in TokenSwapRequests
             /\ filled.terms = swaps[id].terms /\ filled.offeredBy = swaps[id].offeredBy
             /\ filled.offeredTo = swaps[id].offeredTo /\ filled.expires = swaps[id].expires
             /\ filled.usesSpent = swaps[id].usesSpent + uses
             /\ filled.usesSpent <= filled.terms.uses /\ filled.usesSpent \in Nat
             /\ swaps[id] # None /\ uses \in Nat /\ uses >= 1
<1> DEFINE swap == swaps[id]
           filled == Filled(swap, id, u, uses, now)
<1>1. swap # None /\ uses <= Remaining(swap)
  BY DEF FillTokenSwap, CanFill
<1>2. swap \in TokenSwapRequests /\ swap.usesSpent \in Nat /\ swap.terms.uses \in Nat
  BY <1>1, SwapType, TermsType
<1>3. uses \in Nat /\ uses >= 1
  BY SwapsAssumption
<1>4. FillKey(id, u, now) \in FillKeys
  BY DEF FillKey, FillKeys
<1>5. filled \in TokenSwapRequests /\ filled.usesSpent = swap.usesSpent + uses
  <2> DEFINE spent == swap.usesSpent + uses
             ids == Append(swap.fillIds, FillKey(id, u, now))
  <2>1. filled = [swap EXCEPT !.usesSpent = spent, !.fillIds = ids]
    BY DEF Filled
  <2>2. spent \in Nat
    BY <1>2, <1>3
  <2>3. ids \in Seq(FillKeys)
    BY <1>2, <1>4 DEF TokenSwapRequests
  <2> HIDE DEF spent, ids, filled, swap
  <2>4. filled \in TokenSwapRequests /\ filled.usesSpent = spent
    BY <1>2, <2>1, <2>2, <2>3 DEF TokenSwapRequests
  <2>5. QED
    BY <2>4 DEF spent
<1>6. /\ filled.terms = swap.terms /\ filled.offeredBy = swap.offeredBy
      /\ filled.offeredTo = swap.offeredTo /\ filled.expires = swap.expires
  BY <1>2 DEF TokenSwapRequests, Filled
<1>7. swaps' = [swaps EXCEPT ![id] = filled]
  <2>1. swaps' = [swaps EXCEPT ![id].usesSpent = @ + uses, ![id].fillIds = Append(@, FillKey(id, u, now))]
    BY DEF FillTokenSwap
  <2>2. swaps = [j \in SwapIds |-> swaps[j]]
    BY DEF SwapTyped
  <2>3. QED
    BY <1>2, <2>1, <2>2 DEF TokenSwapRequests, Filled
<1>8. filled.usesSpent <= filled.terms.uses /\ filled.usesSpent \in Nat
  BY <1>1, <1>2, <1>3, <1>5, <1>6 DEF Remaining
<1>9. QED
  BY <1>1, <1>3, <1>5, <1>6, <1>7, <1>8

LEMMA TerminatedSwap ==
  ASSUME SwapTyped, NEW now \in Times, NEW caller, NEW id \in SwapIds, TerminateTokenSwap(caller, id, now)
  PROVE  LET ended == [swaps[id] EXCEPT !.expires = now]
         IN  /\ swaps' = [swaps EXCEPT ![id] = ended] /\ ended \in TokenSwapRequests
             /\ ended.terms = swaps[id].terms /\ ended.offeredBy = swaps[id].offeredBy
             /\ ended.offeredTo = swaps[id].offeredTo /\ ended.expires = now
             /\ ended.usesSpent = swaps[id].usesSpent
             /\ swaps[id] # None
<1>1. swaps[id] # None /\ swaps' = [swaps EXCEPT ![id].expires = now]
  BY DEF TerminateTokenSwap
<1>2. swaps[id] \in TokenSwapRequests /\ now \in Nat
  BY <1>1, SwapType, NumbersAssumption
<1>3. swaps = [j \in SwapIds |-> swaps[j]]
  BY DEF SwapTyped
<1>4. swaps' = [swaps EXCEPT ![id] = [swaps[id] EXCEPT !.expires = now]]
  BY <1>1, <1>3
<1>5. QED
  BY <1>1, <1>2, <1>4 DEF TokenSwapRequests

LEMMA FillTyped ==
  ASSUME SwapTyped, NEW now \in Times, NEW caller, NEW u \in Users, NEW id \in SwapIds,
         NEW uses \in FillUses, NEW expected, FillTokenSwap(caller, u, id, uses, expected, now),
         coins' \in [Fungibles -> [Users -> BalanceOf(PlainHolds)]]
  PROVE  SwapTyped'
<1> DEFINE filled == Filled(swaps[id], id, u, uses, now)
<1>1. /\ swaps' = [swaps EXCEPT ![id] = filled] /\ filled \in TokenSwapRequests
      /\ filled.usesSpent <= filled.terms.uses /\ swaps[id] # None
  BY FilledSwap
<1>2. fate' = fate
  BY DEF FillTokenSwap
<1>3. fate' \in [SwapIds -> Fates] /\ \A j \in SwapIds : fate[j] # "unused" => fate'[j] # "unused"
  BY <1>2 DEF SwapTyped
<1> HIDE DEF filled
<1>4. QED
  BY <1>1, <1>3, WrittenTyped

LEMMA TerminateTyped ==
  ASSUME SwapTyped, NEW now \in Times, NEW caller, NEW id \in SwapIds, TerminateTokenSwap(caller, id, now),
         coins' \in [Fungibles -> [Users -> BalanceOf(PlainHolds)]]
  PROVE  SwapTyped'
<1> DEFINE ended == [swaps[id] EXCEPT !.expires = now]
<1>1. /\ swaps' = [swaps EXCEPT ![id] = ended] /\ ended \in TokenSwapRequests
      /\ ended.terms = swaps[id].terms /\ ended.usesSpent = swaps[id].usesSpent /\ swaps[id] # None
  BY TerminatedSwap
<1>2. fate' = [fate EXCEPT ![id] = "terminated"]
  BY DEF TerminateTokenSwap
<1>3. fate' \in [SwapIds -> Fates] /\ \A j \in SwapIds : fate[j] # "unused" => fate'[j] # "unused"
  BY <1>2 DEF SwapTyped, Fates
<1> HIDE DEF ended
<1>4. ended.usesSpent <= ended.terms.uses
  BY <1>1 DEF SwapTyped
<1>5. QED
  BY <1>1, <1>3, <1>4, WrittenTyped

LEMMA BeforeStays ==
  ASSUME Before, UNCHANGED allVars
  PROVE  Before'
<1>1. UNCHANGED vars /\ coins' = coins /\ swaps' = swaps /\ fate' = fate /\ latest' = latest
  BY DEF allVars, swapVars, vars
<1>2. InstanceInv'
  BY <1>1, InstanceStutter DEF Before
<1>3. SwapTyped' /\ Covered'
  BY <1>1 DEF Before, SwapTyped, Covered
<1>4. QED
  BY <1>2, <1>3 DEF Before

LEMMA TokenCallTypes ==
  ASSUME Before, NEW u \in Users, NEW now \in Times, TokenCall(u, now)
  PROVE  Before'
<1>0. InstanceInv /\ SwapTyped
  BY DEF Before
<1>1. CASE /\ \/ Mint(u, now)
              \/ \E i \in Instances :
                   \/ \E to \in Users : Transfer(u, to, i, now)
                   \/ Burn(u, i, now)
                   \/ \E expires \in LockExpiries, name \in Names \ SwapIds :
                        Lock(u, u, i, expires, name, None, now)
           /\ UNCHANGED swapVars
  <2>1. InstanceInv' /\ Called(now)
    <3>1. LockExpiries \subseteq Nat
      BY SwapsAssumption
    <3>2. ASSUME Mint(u, now) PROVE InstanceInv' /\ Called(now)
      BY <1>0, <3>2, MintInv DEF Mint
    <3>3. ASSUME NEW i \in Instances, NEW to \in Users, Transfer(u, to, i, now) PROVE InstanceInv' /\ Called(now)
      BY <1>0, <3>3, TransferInv DEF Transfer
    <3>4. ASSUME NEW i \in Instances, Burn(u, i, now) PROVE InstanceInv' /\ Called(now)
      BY <1>0, <3>4, BurnInv DEF Burn
    <3>5. ASSUME NEW i \in Instances, NEW expires \in LockExpiries, NEW name \in Names \ SwapIds,
                 Lock(u, u, i, expires, name, None, now)
          PROVE  InstanceInv' /\ Called(now)
      BY <1>0, <3>1, <3>5, LockInv DEF Lock
    <3>6. QED
      BY <1>1, <3>2, <3>3, <3>4, <3>5
  <2>2. coins' = coins /\ swaps' = swaps /\ fate' = fate
    BY <1>1 DEF swapVars
  <2>3. coins' \in [Fungibles -> [Users -> BalanceOf(PlainHolds)]] /\ Covered'
    BY <2>1, <2>2, CoinsKept, CoinStepsCover
  <2>4. SwapTyped'
    BY <2>2, <1>0 DEF SwapTyped
  <2>5. QED
    BY <2>1, <2>3, <2>4 DEF Before
<1>2. ASSUME NEW i \in Instances, NEW name \in Names,
             Unlock(u, i, name, now), Released(name), UNCHANGED <<coins, swaps, fills, index>>
      PROVE  Before'
  <2>1. InstanceInv' /\ Called(now)
    BY <1>0, <1>2, UnlockInv DEF Unlock
  <2>2. coins' \in [Fungibles -> [Users -> BalanceOf(PlainHolds)]] /\ Covered'
    BY <1>2, <2>1, CoinsKept, CoinStepsCover
  <2>3. SwapTyped'
    BY <1>0, <1>2, <2>2, ReleasedFate, SameSwapsTyped
  <2>4. QED
    BY <2>1, <2>2, <2>3 DEF Before
<1>3. ASSUME NEW f \in Fungibles, NEW q \in 1 .. CoinSupply(f), NEW to \in Users, TransferCoins(u, to, f, q, now)
      PROVE  Before'
  <2>1. /\ Called(now) /\ swaps' = swaps /\ fate' = fate
        /\ UNCHANGED <<totalSupply, tokenOwner, instanceIds, lockedHolds>>
    BY <1>3 DEF TransferCoins
  <2>2. InstanceInv'
    BY <1>0, <2>1, NoInstanceTouched
  <2>3. coins' \in [Fungibles -> [Users -> BalanceOf(PlainHolds)]] /\ Covered'
    <3>1. CoinSteps({}, NoNew, now)
      BY <1>3, TransferCoinsSteps
    <3>2. QED
      BY <3>1, CoinStepsCover
  <2>4. SwapTyped'
    BY <1>0, <2>1, <2>3 DEF SwapTyped
  <2>5. QED
    BY <2>2, <2>3, <2>4 DEF Before
<1>4. ASSUME NEW f \in Fungibles, NEW q \in 1 .. CoinSupply(f), NEW owner \in Users, NEW id \in SwapIds,
             UnlockCoins(u, owner, f, q, id, now)
      PROVE  Before'
  <2>1. /\ Called(now) /\ swaps' = swaps /\ Released(id)
        /\ UNCHANGED <<totalSupply, tokenOwner, instanceIds, lockedHolds>>
    BY <1>4 DEF UnlockCoins
  <2>2. InstanceInv'
    BY <1>0, <2>1, NoInstanceTouched
  <2>3. coins' \in [Fungibles -> [Users -> BalanceOf(PlainHolds)]] /\ Covered'
    <3>1. q \in Nat
      OBVIOUS
    <3>2. CoinSteps({id}, NoNew, now)
      BY <1>4, <3>1, UnlockCoinsSteps
    <3>3. QED
      BY <3>2, CoinStepsCover
  <2>4. SwapTyped'
    BY <1>0, <2>1, <2>3, ReleasedFate, SameSwapsTyped
  <2>5. QED
    BY <2>2, <2>3, <2>4 DEF Before
<1>5. QED
  BY <1>1, <1>2, <1>3, <1>4 DEF TokenCall

LEMMA SwapCallTypes ==
  ASSUME Before, NEW u \in Users, NEW now \in Times, SwapCall(u, now)
  PROVE  Before'
<1>0. InstanceInv /\ SwapTyped
  BY DEF Before
<1>1. ASSUME NEW id \in SwapIds, NEW dto \in RequestTokenSwapDtos,
             RequestTokenSwap(u, dto.offeredTo, id, dto.terms, dto.expires, now)
      PROVE  Before'
  <2>1. dto.offeredTo \in Users \cup {None} /\ dto.terms \in Terms /\ dto.expires \in Nat
    BY SwapsAssumption DEF RequestTokenSwapDtos
  <2>2. InstanceInv'
    BY <1>0, <1>1, <2>1, RequestInstances
  <2>3. coins' \in [Fungibles -> [Users -> BalanceOf(PlainHolds)]] /\ Covered'
    BY <1>1, <2>1, RequestSteps, CoinStepsCover
  <2>4. SwapTyped'
    BY <1>0, <1>1, <2>1, <2>3, RequestTyped
  <2>5. QED
    BY <2>2, <2>3, <2>4 DEF Before
<1>2. ASSUME NEW dto \in FillTokenSwapDtos,
             FillTokenSwap(u, dto.filledBy, dto.swapRequestId, dto.uses, dto.expected, now)
      PROVE  Before'
  <2>1. dto.filledBy \in Users /\ dto.swapRequestId \in SwapIds /\ dto.uses \in FillUses
    BY DEF FillTokenSwapDtos
  <2>2. InstanceInv'
    BY <1>0, <1>2, <2>1, FillInstances
  <2>3. coins' \in [Fungibles -> [Users -> BalanceOf(PlainHolds)]] /\ Covered'
    BY <1>2, <2>1, FillSteps, CoinStepsCover
  <2>4. SwapTyped'
    BY <1>0, <1>2, <2>1, <2>3, FillTyped
  <2>5. QED
    BY <2>2, <2>3, <2>4 DEF Before
<1>3. ASSUME NEW id \in SwapIds, TerminateTokenSwap(u, id, now)
      PROVE  Before'
  <2>1. InstanceInv'
    BY <1>0, <1>3, TerminateInstances
  <2>2. coins' \in [Fungibles -> [Users -> BalanceOf(PlainHolds)]] /\ Covered'
    BY <1>3, TerminateSteps, CoinStepsCover
  <2>3. SwapTyped'
    BY <1>0, <1>3, <2>2, TerminateTyped
  <2>4. QED
    BY <2>1, <2>2, <2>3 DEF Before
<1>4. QED
  BY <1>1, <1>2, <1>3 DEF SwapCall

LEMMA CuratorCallTypes ==
  ASSUME Before, NEW now \in Times, CuratorCall(now)
  PROVE  Before'
<1>0. InstanceInv /\ SwapTyped
  BY DEF Before
<1>1. /\ Called(now) /\ coins' = coins /\ fate' = fate
      /\ UNCHANGED <<totalSupply, tokenOwner, instanceIds, lockedHolds>>
  BY DEF CuratorCall, CleanTokenSwaps, EnsureTokenSwapIndexing
<1>2. InstanceInv'
  BY <1>0, <1>1, NoInstanceTouched
<1>3. coins' \in [Fungibles -> [Users -> BalanceOf(PlainHolds)]] /\ Covered'
  BY <1>1, CoinsKept, CoinStepsCover
<1>4. swaps' \in [SwapIds -> TokenSwapRequests \cup {None}]
      /\ \A id \in SwapIds : swaps'[id] \in {None, swaps[id]}
  <2>1. ASSUME NEW ids, EnsureTokenSwapIndexing(ids, now) PROVE swaps' = swaps
    BY <2>1 DEF EnsureTokenSwapIndexing
  <2>2. ASSUME NEW ids, CleanTokenSwaps(ids, now)
        PROVE  \E over : swaps' = [id \in SwapIds |-> IF id \in over THEN None ELSE swaps[id]]
    BY <2>2 DEF CleanTokenSwaps
  <2>3. QED
    BY <1>0, <2>1, <2>2 DEF CuratorCall, SwapTyped
<1>5. SwapTyped'
  BY <1>0, <1>1, <1>3, <1>4 DEF SwapTyped
<1>6. QED
  BY <1>2, <1>3, <1>5 DEF Before

LEMMA NextTypes ==
  ASSUME Before, [SwapNext]_allVars
  PROVE  Before'
BY BeforeStays, TokenCallTypes, SwapCallTypes, CuratorCallTypes DEF SwapNext

-----------------------------------------------------------------------------
(* The initial states.                                                     *)

LEMMA EmptyStart ==
  ASSUME NEW b, NEW q \in Nat, b = [EmptyBalance EXCEPT !.quantity = q]
  PROVE  /\ b \in BalanceOf(PlainHolds) /\ b.holds = << >> /\ b.quantity = q /\ CoveredFrom(b, 0)
         /\ \A name : QuantityNamed(b.holds, name) = 0
<1>1. b \in BalanceOf(PlainHolds) /\ b.holds = << >> /\ b.quantity = q
  <2> DEFINE empty == << >>
  <2>1. empty \in Seq(PlainHolds)
    OBVIOUS
  <2>2. b = [[quantity |-> 0, holds |-> empty] EXCEPT !.quantity = q]
    BY DEF EmptyBalance
  <2> HIDE DEF empty
  <2>3. b \in BalanceOf(PlainHolds) /\ b.holds = empty /\ b.quantity = q
    BY <2>1, <2>2 DEF BalanceOf
  <2>4. QED
    BY <2>3 DEF empty
<1>2. \A t : LockedQuantity(b, t) = 0
  BY <1>1, LockedIsSum, SumOverEmpty
<1>3. ASSUME NEW name PROVE QuantityNamed(b.holds, name) = 0
  <2>1. << >> \in Seq(PlainHolds)
    OBVIOUS
  <2>2. QED
    BY <1>1, <2>1, PlainKind, NamedIsSum, SumOverEmpty
<1>4. QED
  BY <1>1, <1>2, <1>3 DEF CoveredFrom

OldBalance(q, hold) == [[EmptyBalance EXCEPT !.quantity = q] EXCEPT !.holds = <<hold>>]

LEMMA OldStart ==
  ASSUME NEW b, NEW q \in Nat, NEW hold \in PlainHolds, hold.quantity <= q, b = OldBalance(q, hold)
  PROVE  /\ b \in BalanceOf(PlainHolds) /\ b.holds = <<hold>> /\ b.quantity = q /\ CoveredFrom(b, 0)
         /\ \A name : QuantityNamed(b.holds, name) = IF hold.name = name THEN hold.quantity ELSE 0
<1> DEFINE empty == << >>
           one == <<hold>>
<1>1. empty \in Seq(PlainHolds) /\ one = Append(empty, hold) /\ one \in Seq(PlainHolds)
  OBVIOUS
<1>2. b = [[[quantity |-> 0, holds |-> empty] EXCEPT !.quantity = q] EXCEPT !.holds = one]
  BY DEF EmptyBalance, OldBalance
<1>3. \A value : SumOver(empty, value) = 0
  BY SumOverEmpty
<1> HIDE DEF empty, one
<1>4. b \in BalanceOf(PlainHolds) /\ b.holds = one /\ b.quantity = q
  BY <1>1, <1>2 DEF BalanceOf
<1>5. hold.quantity \in Nat
  BY PlainKind, HoldFields
<1>6. ASSUME NEW value \in [PlainHolds -> Int] PROVE SumOver(b.holds, value) = value[hold]
  <2>1. SumOver(one, value) = SumOver(empty, value) + value[hold]
    BY <1>1, SumOverAppend
  <2>2. SumOver(empty, value) = 0 /\ value[hold] \in Int
    BY <1>3
  <2>3. QED
    BY <1>4, <2>1, <2>2
<1>7. ASSUME NEW t \in Nat PROVE LockedQuantity(b, t) <= b.quantity
  <2>1. LockedQuantity(b, t) = SumOver(b.holds, LockedOfAll(PlainHolds, t))
        /\ LockedOfAll(PlainHolds, t) \in [PlainHolds -> Int]
    BY <1>4, PlainKind, LockedIsSum, LockedOfAllType
  <2>2. SumOver(b.holds, LockedOfAll(PlainHolds, t)) = LockedOfAll(PlainHolds, t)[hold]
    BY <1>6, <2>1
  <2>3. LockedOfAll(PlainHolds, t)[hold] \in 0 .. hold.quantity
    BY PlainKind, HoldLocks DEF LockedOfAll, RegularHolds
  <2>4. QED
    BY <1>4, <1>5, <2>1, <2>2, <2>3
<1>8. ASSUME NEW name PROVE QuantityNamed(b.holds, name) = IF hold.name = name THEN hold.quantity ELSE 0
  <2>1. /\ QuantityNamed(b.holds, name) = SumOver(b.holds, Named(PlainHolds, name))
        /\ Named(PlainHolds, name) \in [PlainHolds -> Int]
    BY <1>1, <1>4, PlainKind, NamedIsSum
  <2>2. SumOver(b.holds, Named(PlainHolds, name)) = Named(PlainHolds, name)[hold]
    BY <1>6, <2>1
  <2>3. Named(PlainHolds, name)[hold] = IF hold.name = name THEN hold.quantity ELSE 0
    BY DEF Named
  <2>4. QED
    BY <1>5, <2>1, <2>2, <2>3
<1>9. QED
  BY <1>1, <1>4, <1>7, <1>8 DEF CoveredFrom, one

\* Where nothing was offered before.
NoSwaps ==
  /\ \A f \in Fungibles, u \in Users : /\ coins[f][u].holds = << >>
                                       /\ \A name : QuantityNamed(coins[f][u].holds, name) = 0
  /\ \A id \in SwapIds : swaps[id] = None /\ fate[id] = "unused"

\* Where an old swap has its holds.
OneOldSwap(old) ==
  /\ old \in OldSwaps /\ old.id \in SwapIds /\ old.offeredBy \in Users /\ old.terms \in OldTerms
  /\ \A f \in Fungibles, u \in Users :
       LET hold == OfferHold(old.offeredBy, old.id, old.terms, f, 0)
           mine == f \in DOMAIN old.terms.offered /\ u = old.offeredBy
       IN  /\ coins[f][u].holds = IF mine THEN <<hold>> ELSE << >>
           /\ \A name : QuantityNamed(coins[f][u].holds, name)
                = IF mine /\ name = old.id THEN QuantityOf(old.terms.offered, f, old.terms.uses) ELSE 0
  /\ \A id \in SwapIds : /\ swaps[id] = IF id = old.id THEN NewSwap(old.offeredBy, None, old.terms, 0) ELSE None
                         /\ fate[id] = IF id = old.id THEN "held" ELSE "unused"

LEMMA EmptyCoin ==
  ASSUME NEW f \in Fungibles
  PROVE  /\ EmptyCoins[f] = [u \in Users |-> [EmptyBalance EXCEPT !.quantity = InitialCoins[f][u]]]
         /\ \A u \in Users : InitialCoins[f][u] \in Nat
BY SwapsAssumption DEF EmptyCoins

LEMMA SwapsStart ==
  ASSUME SwapInit
  PROVE  Before /\ index = {} /\ lockedHolds = [u \in Users |-> {}] /\ (NoSwaps \/ \E old : OneOldSwap(old))
<1>1. InstanceInv /\ latest = 0 /\ index = {} /\ lockedHolds = [u \in Users |-> {}]
  BY InstanceInit DEF SwapInit, Init
<1>2. ASSUME NEW f \in Fungibles, NEW u \in Users, NEW b, b = EmptyCoins[f][u]
      PROVE  /\ b \in BalanceOf(PlainHolds) /\ b.holds = << >> /\ CoveredFrom(b, 0)
             /\ \A name : QuantityNamed(b.holds, name) = 0
  <2>1. InitialCoins[f][u] \in Nat /\ b = [EmptyBalance EXCEPT !.quantity = InitialCoins[f][u]]
    BY <1>2, EmptyCoin
  <2>2. QED
    BY <2>1, EmptyStart
<1>3. CASE /\ coins = EmptyCoins
           /\ swaps = [id \in SwapIds |-> None]
           /\ fate = [id \in SwapIds |-> "unused"]
  <2>1. coins \in [Fungibles -> [Users -> BalanceOf(PlainHolds)]]
    <3>1. coins = [f \in Fungibles |-> coins[f]]
      BY <1>3 DEF EmptyCoins
    <3>2. ASSUME NEW f \in Fungibles PROVE coins[f] \in [Users -> BalanceOf(PlainHolds)]
      <4>1. coins[f] = [u \in Users |-> coins[f][u]]
        BY <1>3, EmptyCoin
      <4>2. \A u \in Users : coins[f][u] \in BalanceOf(PlainHolds)
        BY <1>2, <1>3
      <4>3. QED
        BY <4>1, <4>2
    <3>3. QED
      BY <3>1, <3>2
  <2>2. SwapTyped
    BY <1>3, <2>1 DEF SwapTyped, Fates
  <2>3. Covered
    BY <1>1, <1>2, <1>3 DEF Covered
  <2>4. NoSwaps
    BY <1>2, <1>3 DEF NoSwaps
  <2>5. QED
    BY <1>1, <2>2, <2>3, <2>4 DEF Before
<1>4. ASSUME NEW old \in OldSwaps,
             coins = [f \in Fungibles |->
               IF f \notin DOMAIN old.terms.offered THEN EmptyCoins[f]
               ELSE [EmptyCoins[f] EXCEPT ![old.offeredBy].holds =
                       <<OfferHold(old.offeredBy, old.id, old.terms, f, 0)>>]],
             swaps = [id \in SwapIds |->
               IF id = old.id THEN NewSwap(old.offeredBy, None, old.terms, 0) ELSE None],
             fate = [id \in SwapIds |-> IF id = old.id THEN "held" ELSE "unused"]
      PROVE  Before /\ OneOldSwap(old)
  <2> DEFINE o == old.offeredBy
             terms == old.terms
             swap == NewSwap(o, None, terms, 0)
             Hold(f) == OfferHold(o, old.id, terms, f, 0)
             Old(f) == [[EmptyBalance EXCEPT !.quantity = InitialCoins[f][o]] EXCEPT !.holds = <<Hold(f)>>]
             Named0(f, u, name) == IF f \in DOMAIN terms.offered /\ u = o /\ name = old.id
                                   THEN QuantityOf(terms.offered, f, terms.uses) ELSE 0
  <2>1. /\ old.id \in SwapIds /\ o \in Users /\ terms \in OldTerms /\ terms \in Terms \cup OldTerms
        /\ \A f \in DOMAIN terms.offered : f \in Fungibles /\ terms.offered[f] * terms.uses <= InitialCoins[f][o]
    BY OldSwapsAssumption DEF OldTerms
  <2>2. ASSUME NEW f \in DOMAIN terms.offered
        PROVE  /\ Hold(f) \in PlainHolds /\ Hold(f).name = old.id /\ Hold(f).quantity <= InitialCoins[f][o]
               /\ Hold(f).quantity = QuantityOf(terms.offered, f, terms.uses)
    BY <2>1, OfferHoldType DEF QuantityOf
  <2>3. ASSUME NEW f \in Fungibles
        PROVE  coins[f] = IF f \in DOMAIN terms.offered THEN [EmptyCoins[f] EXCEPT ![o] = Old(f)] ELSE EmptyCoins[f]
    <3>1. EmptyCoins[f] = [u \in Users |-> [EmptyBalance EXCEPT !.quantity = InitialCoins[f][u]]]
      BY EmptyCoin
    <3>2. EmptyCoins[f][o] = [EmptyBalance EXCEPT !.quantity = InitialCoins[f][o]]
      BY <2>1, <3>1
    <3>3. QED
      BY <1>4, <2>1, <3>1, <3>2
  <2> HIDE DEF Hold
  <2>4. ASSUME NEW f \in Fungibles, NEW u \in Users
        PROVE  /\ coins[f][u] \in BalanceOf(PlainHolds) /\ CoveredFrom(coins[f][u], 0)
               /\ coins[f][u].holds = IF f \in DOMAIN terms.offered /\ u = o THEN <<Hold(f)>> ELSE << >>
               /\ \A name : QuantityNamed(coins[f][u].holds, name) = Named0(f, u, name)
    <3>1. CASE f \in DOMAIN terms.offered /\ u = o
      <4>1. coins[f][u] = Old(f)
        BY <2>1, <2>3, <3>1, EmptyCoin
      <4>2. InitialCoins[f][o] \in Nat
        BY <2>1, EmptyCoin
      <4>3. /\ coins[f][u] \in BalanceOf(PlainHolds) /\ CoveredFrom(coins[f][u], 0)
            /\ coins[f][u].holds = <<Hold(f)>>
            /\ \A name : QuantityNamed(coins[f][u].holds, name)
                           = IF Hold(f).name = name THEN Hold(f).quantity ELSE 0
        <5> DEFINE q == InitialCoins[f][o]
                   b == coins[f][u]
                   hold == Hold(f)
        <5>1. /\ q \in Nat /\ hold \in PlainHolds /\ hold.quantity <= q
              /\ b = OldBalance(q, hold)
          BY <2>2, <3>1, <4>1, <4>2 DEF OldBalance
        <5> HIDE DEF q, b, hold
        <5>2. b \in BalanceOf(PlainHolds) /\ CoveredFrom(b, 0) /\ b.holds = <<hold>>
          BY <5>1, OldStart
        <5>3. \A name : QuantityNamed(b.holds, name) = IF hold.name = name THEN hold.quantity ELSE 0
          BY <5>1, OldStart
        <5>4. QED
          BY <5>2, <5>3 DEF b, hold
      <4>4. QED
        BY <2>2, <3>1, <4>3
    <3>2. CASE ~(f \in DOMAIN terms.offered /\ u = o)
      <4>1. coins[f][u] = EmptyCoins[f][u]
        BY <2>1, <2>3, <3>2, EmptyCoin
      <4>2. QED
        BY <1>2, <3>2, <4>1
    <3>3. QED
      BY <3>1, <3>2
  <2>5. coins \in [Fungibles -> [Users -> BalanceOf(PlainHolds)]]
    <3>1. coins = [f \in Fungibles |-> coins[f]]
      BY <1>4
    <3>2. ASSUME NEW f \in Fungibles PROVE coins[f] \in [Users -> BalanceOf(PlainHolds)]
      <4>1. coins[f] = [u \in Users |-> coins[f][u]]
        BY <2>3, EmptyCoin
      <4>2. \A u \in Users : coins[f][u] \in BalanceOf(PlainHolds)
        BY <2>4
      <4>3. QED
        BY <4>1, <4>2
    <3>3. QED
      BY <3>1, <3>2
  <2>6. SwapTyped
    <3>1. swap \in TokenSwapRequests /\ swap.usesSpent <= swap.terms.uses
      BY <2>1, NewSwapType
    <3> HIDE DEF swap
    <3>2. swaps = [id \in SwapIds |-> IF id = old.id THEN swap ELSE None]
      BY <1>4 DEF swap
    <3>3. QED
      BY <1>4, <2>5, <3>1, <3>2 DEF SwapTyped, Fates
  <2>7. Covered
    BY <1>1, <2>4 DEF Covered
  <2>8. OneOldSwap(old)
    BY <1>4, <2>1, <2>4 DEF OneOldSwap, Hold
  <2>9. QED
    BY <1>1, <2>6, <2>7, <2>8 DEF Before
<1>5. QED
  BY <1>1, <1>3, <1>4 DEF SwapInit

LEMMA AlwaysBefore == SwapSpec => []Before
<1>1. SwapInit => Before
  BY SwapsStart
<1>2. Before /\ [SwapNext]_allVars => Before'
  BY NextTypes
<1>3. QED
  BY <1>1, <1>2, PTL DEF SwapSpec

(***************************************************************************)
(* With swaps, too: an instance is in the balance of its owner or in none, *)
(* and no two holds of a user on an instance have the same name, of which  *)
(* unlockToken would check one and remove the other.                       *)
(***************************************************************************)
THEOREM OwnershipAlwaysAgrees == SwapSpec => [](OwnershipAgrees /\ HoldsAreDistinct)
<1>1. Before => OwnershipAgrees /\ HoldsAreDistinct
  BY DEF Before, InstanceInv
<1>2. QED
  BY <1>1, AlwaysBefore, PTL

(***************************************************************************)
(* A locked instance stays in its balance, by fillTokenSwap too, which     *)
(* moves it out after its unlock, and although client times go back.       *)
(***************************************************************************)
THEOREM LockedAlwaysThere == SwapSpec => []LockedIsThere
<1>1. Before => LockedIsThere
  BY DEF Before, InstanceInv
<1>2. QED
  BY <1>1, AlwaysBefore, PTL

(***************************************************************************)
(* From the latest transaction on, a balance has the coins that are locked *)
(* in it: no fill, whose first check is of the total quantity, pays with   *)
(* what is held for another swap.                                          *)
(***************************************************************************)
THEOREM CoinsAlwaysCovered == SwapSpec => []LockedCoinsAreCovered
<1>1. Before => LockedCoinsAreCovered
  <2> SUFFICES ASSUME Before,
                      NEW f \in Fungibles, NEW u \in Users, NEW t \in Times, t >= latest
               PROVE  SpendableQuantity(coins[f][u], t) >= 0
    BY DEF LockedCoinsAreCovered
  <2>1. t \in Nat /\ latest \in Nat
    BY NumbersAssumption DEF Before, InstanceInv, TypeOK
  <2>2. coins[f][u] \in BalanceOf(PlainHolds) /\ LockedQuantity(coins[f][u], t) <= coins[f][u].quantity
    BY <2>1, OneCoin DEF CoveredFrom
  <2>3. LockedQuantity(coins[f][u], t) \in Nat /\ coins[f][u].quantity \in Nat
    BY <2>1, <2>2, PlainKind, LockedNat DEF BalanceOf
  <2>4. QED
    BY <2>2, <2>3 DEF SpendableQuantity
<1>2. QED
  BY <1>1, AlwaysBefore, PTL

-----------------------------------------------------------------------------
(***************************************************************************)
(* The index: of a swap it has all objects, or of an old one those that    *)
(* ensureTokenSwapIndexing writes, or none; and it has no others.          *)
(***************************************************************************)
Old(id) == swaps[id].terms \in OldTerms

EnsuredOf(id, swap) == {entry \in IndexOf(id, swap) : entry[1] # "InstanceWanted"}

FoundBy(id) ==
  LET all == IndexOf(id, swaps[id])
  IN  /\ ~Old(id) => all \subseteq index
      /\ Old(id) => /\ swaps[id].offeredTo = None
                    /\ all \cap index \in {{}, EnsuredOf(id, swaps[id])}

Indexed ==
  /\ index \subseteq UNION {IndexOf(id, swaps[id]) : id \in Written}
  /\ \A id \in Written : FoundBy(id)

LEMMA EntryOfOne ==
  ASSUME NEW id, NEW swap, NEW entry \in IndexOf(id, swap)
  PROVE  entry[3] = id
BY DEF IndexOf

LEMMA EntryFound ==
  ASSUME Indexed, NEW entry \in index
  PROVE  \E id \in Written : entry \in IndexOf(id, swaps[id]) /\ entry[3] = id
BY EntryOfOne DEF Indexed

LEMMA OldIsNotNew ==
  ASSUME NEW terms \in Terms
  PROVE  terms \notin OldTerms
BY OldSwapsAssumption DEF OldTerms

\* What the index has of a swap does not depend on its uses or its expiry.
LEMMA SameIndex ==
  ASSUME Indexed, index' = index, \A id \in SwapIds : swaps[id] = None <=> swaps'[id] = None,
         \A id \in Written : /\ swaps'[id].terms = swaps[id].terms
                             /\ swaps'[id].offeredBy = swaps[id].offeredBy
                             /\ swaps'[id].offeredTo = swaps[id].offeredTo
  PROVE  Indexed'
<1>1. Written' = Written
  BY DEF Written
<1>2. ASSUME NEW id \in Written PROVE IndexOf(id, swaps'[id]) = IndexOf(id, swaps[id])
  BY <1>2 DEF IndexOf
<1>3. ASSUME NEW id \in Written PROVE FoundBy(id)'
  <2>1. FoundBy(id)
    BY DEF Indexed
  <2>2. Old(id)' <=> Old(id)
    BY DEF Old
  <2>3. IndexOf(id, swaps'[id]) = IndexOf(id, swaps[id]) /\ EnsuredOf(id, swaps'[id]) = EnsuredOf(id, swaps[id])
    BY <1>2 DEF EnsuredOf
  <2>4. QED
    BY <2>1, <2>2, <2>3 DEF FoundBy
<1>4. \A entry \in index : \E id \in Written : entry \in IndexOf(id, swaps[id])
  BY EntryFound
<1>5. index' \subseteq UNION {IndexOf(id, swaps'[id]) : id \in Written}
  BY <1>2, <1>4
<1>6. QED
  BY <1>1, <1>3, <1>5 DEF Indexed

LEMMA RequestIndexed ==
  ASSUME SwapTyped, Indexed, NEW now \in Times, NEW u \in Users, NEW to \in Users \cup {None}, NEW id \in SwapIds, NEW terms \in Terms,
         NEW expires \in Nat, RequestTokenSwap(u, to, id, terms, expires, now)
  PROVE  Indexed'
<1> DEFINE swap == NewSwap(u, to, terms, expires)
<1>1. fate[id] = "unused" /\ swaps' = [swaps EXCEPT ![id] = swap] /\ index' = index \cup IndexOf(id, swap)
  BY DEF RequestTokenSwap
<1>2. swaps[id] = None /\ swaps \in [SwapIds -> TokenSwapRequests \cup {None}]
  BY <1>1 DEF SwapTyped
<1>3. swaps'[id] = swap /\ \A j \in SwapIds : j # id => swaps'[j] = swaps[j]
  BY <1>1, <1>2
<1>4. swap.terms = terms /\ terms \notin OldTerms
  BY OldIsNotNew DEF NewSwap
<1>5. swaps'[id] # None
  BY <1>3, NewSwapType
<1> HIDE DEF swap
<1>6. id \notin Written /\ Written' = Written \cup {id} /\ \A j \in Written : j # id /\ swaps'[j] = swaps[j]
  BY <1>2, <1>3, <1>5 DEF Written
<1>7. FoundBy(id)'
  BY <1>1, <1>3, <1>4 DEF FoundBy, Old
<1>8. ASSUME NEW j \in Written PROVE FoundBy(j)'
  <2>1. FoundBy(j) /\ j # id /\ swaps'[j] = swaps[j]
    BY <1>6 DEF Indexed
  <2>2. \A entry \in IndexOf(j, swaps[j]) : entry \in index' <=> entry \in index
    BY <1>1, <2>1, EntryOfOne
  <2>3. IndexOf(j, swaps[j]) \cap index' = IndexOf(j, swaps[j]) \cap index
    BY <2>2
  <2>4. IndexOf(j, swaps[j]) \subseteq index => IndexOf(j, swaps[j]) \subseteq index'
    BY <1>1
  <2>5. Old(j)' <=> Old(j)
    BY <2>1 DEF Old
  <2>6. QED
    BY <2>1, <2>3, <2>4, <2>5 DEF FoundBy
<1>9. index' \subseteq UNION {IndexOf(j, swaps'[j]) : j \in Written'}
  <2>1. \A entry \in index : \E j \in Written : entry \in IndexOf(j, swaps[j])
    BY EntryFound
  <2>2. QED
    BY <1>1, <1>3, <1>6, <2>1
<1>10. QED
  BY <1>6, <1>7, <1>8, <1>9 DEF Indexed

LEMMA CleanIndexed ==
  ASSUME Indexed, NEW now, NEW ids \in SUBSET SwapIds, CleanTokenSwaps(ids, now)
  PROVE  Indexed'
<1> DEFINE over == {id \in ids : CanClean(swaps[id], now)}
<1>1. /\ swaps' = [id \in SwapIds |-> IF id \in over THEN None ELSE swaps[id]]
      /\ index' = index \ UNION {IndexOf(id, swaps[id]) : id \in over}
  BY DEF CleanTokenSwaps, Deindex
<1> HIDE DEF over
<1>2. Written' = Written \ over /\ \A id \in Written' : id \in Written /\ swaps'[id] = swaps[id]
  BY <1>1 DEF Written
<1>3. ASSUME NEW id \in Written' PROVE FoundBy(id)'
  <2>1. FoundBy(id) /\ swaps'[id] = swaps[id] /\ id \notin over
    BY <1>2 DEF Indexed
  <2>2. \A entry \in IndexOf(id, swaps[id]) : entry \in index' <=> entry \in index
    BY <1>1, <2>1, EntryOfOne
  <2>3. IndexOf(id, swaps[id]) \cap index' = IndexOf(id, swaps[id]) \cap index
    BY <2>2
  <2>4. IndexOf(id, swaps[id]) \subseteq index => IndexOf(id, swaps[id]) \subseteq index'
    BY <2>2
  <2>5. Old(id)' <=> Old(id)
    BY <2>1 DEF Old
  <2>6. QED
    BY <2>1, <2>3, <2>4, <2>5 DEF FoundBy
<1>4. ASSUME NEW entry \in index' PROVE \E id \in Written' : entry \in IndexOf(id, swaps'[id])
  <2>1. PICK id \in Written : entry \in IndexOf(id, swaps[id])
    BY <1>1, EntryFound
  <2>2. id \notin over
    BY <1>1, <2>1
  <2>3. QED
    BY <1>2, <2>1, <2>2
<1>5. QED
  BY <1>3, <1>4 DEF Indexed

LEMMA EnsureIndexed ==
  ASSUME Indexed, NEW now, NEW ids \in SUBSET SwapIds, EnsureTokenSwapIndexing(ids, now)
  PROVE  Indexed'
<1> DEFINE new == {entry \in UNION {IndexOf(id, swaps[id]) : id \in ids} : entry[1] # "InstanceWanted"}
<1>1. ids \subseteq Written /\ index' = index \cup new /\ swaps' = swaps /\ Written' = Written
  BY DEF EnsureTokenSwapIndexing, Written
<1>2. ASSUME NEW id \in Written PROVE FoundBy(id)'
  <2> DEFINE all == IndexOf(id, swaps[id])
  <2>1. FoundBy(id) /\ (Old(id)' <=> Old(id)) /\ swaps'[id] = swaps[id]
    BY <1>1 DEF Indexed, Old
  <2>2. all \cap new = IF id \in ids THEN EnsuredOf(id, swaps[id]) ELSE {}
    <3>1. \A entry \in all : entry \in new <=> id \in ids /\ entry[1] # "InstanceWanted"
      BY EntryOfOne
    <3> HIDE DEF new
    <3>2. QED
      BY <3>1 DEF EnsuredOf
  <2>3. EnsuredOf(id, swaps[id]) \subseteq all
    BY DEF EnsuredOf
  <2> HIDE DEF all, new
  <2>4. all \cap index' = (all \cap index) \cup (all \cap new)
    BY <1>1
  <2>5. /\ ~Old(id) => all \subseteq index
        /\ Old(id) => swaps[id].offeredTo = None /\ all \cap index \in {{}, EnsuredOf(id, swaps[id])}
    BY <2>1 DEF FoundBy, all
  <2>6. /\ ~Old(id) => all \subseteq index'
        /\ Old(id) => swaps[id].offeredTo = None /\ all \cap index' \in {{}, EnsuredOf(id, swaps[id])}
    BY <1>1, <2>2, <2>4, <2>5
  <2>7. QED
    BY <2>1, <2>6 DEF FoundBy, all
<1>3. ASSUME NEW entry \in index' PROVE \E id \in Written : entry \in IndexOf(id, swaps[id])
  <2>1. CASE entry \in index
    BY <2>1, EntryFound
  <2>2. CASE entry \in new
    BY <1>1, <2>2
  <2>3. QED
    BY <1>1, <2>1, <2>2
<1> HIDE DEF new
<1>4. QED
  BY <1>1, <1>2, <1>3 DEF Indexed

LEMMA IndexStart ==
  ASSUME SwapInit
  PROVE  Indexed
<1>1. index = {}
  BY SwapsStart
<1>2. ASSUME NEW id \in Written PROVE FoundBy(id)
  <2>1. PICK old : OneOldSwap(old)
    BY SwapsStart DEF NoSwaps, Written
  <2>2. swaps[id] = NewSwap(old.offeredBy, None, old.terms, 0) /\ old.terms \in OldTerms
    BY <2>1 DEF OneOldSwap, Written
  <2>3. swaps[id].offeredTo = None /\ Old(id)
    BY <2>2 DEF NewSwap, Old
  <2>4. QED
    BY <1>1, <2>3 DEF FoundBy
<1>3. QED
  BY <1>1, <1>2 DEF Indexed

\* The calls that leave the index alone.
LEMMA FillIndexed ==
  ASSUME SwapTyped, Indexed, NEW now \in Times, NEW caller, NEW u \in Users, NEW id \in SwapIds,
         NEW uses \in FillUses, NEW expected, FillTokenSwap(caller, u, id, uses, expected, now)
  PROVE  Indexed'
<1> DEFINE filled == Filled(swaps[id], id, u, uses, now)
<1>1. /\ swaps' = [swaps EXCEPT ![id] = filled] /\ filled \in TokenSwapRequests
      /\ filled.terms = swaps[id].terms /\ filled.offeredBy = swaps[id].offeredBy
      /\ filled.offeredTo = swaps[id].offeredTo /\ swaps[id] # None
  BY FilledSwap
<1>2. index' = index /\ filled # None
  BY <1>1, SwapRequestsAssumption DEF FillTokenSwap
<1> HIDE DEF filled
<1>3. \A j \in SwapIds : swaps'[j] = IF j = id THEN filled ELSE swaps[j]
  BY <1>1 DEF SwapTyped
<1>4. \A j \in SwapIds : swaps[j] = None <=> swaps'[j] = None
  BY <1>1, <1>2, <1>3
<1>5. \A j \in Written : /\ swaps'[j].terms = swaps[j].terms
                         /\ swaps'[j].offeredBy = swaps[j].offeredBy
                         /\ swaps'[j].offeredTo = swaps[j].offeredTo
  BY <1>1, <1>3 DEF Written
<1>6. QED
  BY <1>2, <1>4, <1>5, SameIndex

LEMMA TerminateIndexed ==
  ASSUME SwapTyped, Indexed, NEW now \in Times, NEW caller, NEW id \in SwapIds,
         TerminateTokenSwap(caller, id, now)
  PROVE  Indexed'
<1> DEFINE ended == [swaps[id] EXCEPT !.expires = now]
<1>1. /\ swaps' = [swaps EXCEPT ![id] = ended] /\ ended \in TokenSwapRequests
      /\ ended.terms = swaps[id].terms /\ ended.offeredBy = swaps[id].offeredBy
      /\ ended.offeredTo = swaps[id].offeredTo /\ swaps[id] # None
  BY TerminatedSwap
<1>2. index' = index /\ ended # None
  BY <1>1, SwapRequestsAssumption DEF TerminateTokenSwap
<1> HIDE DEF ended
<1>3. \A j \in SwapIds : swaps'[j] = IF j = id THEN ended ELSE swaps[j]
  BY <1>1 DEF SwapTyped
<1>4. \A j \in SwapIds : swaps[j] = None <=> swaps'[j] = None
  BY <1>1, <1>2, <1>3
<1>5. \A j \in Written : /\ swaps'[j].terms = swaps[j].terms
                         /\ swaps'[j].offeredBy = swaps[j].offeredBy
                         /\ swaps'[j].offeredTo = swaps[j].offeredTo
  BY <1>1, <1>3 DEF Written
<1>6. QED
  BY <1>2, <1>4, <1>5, SameIndex

LEMMA NextIndexed ==
  ASSUME Before, Indexed, [SwapNext]_allVars
  PROVE  Indexed'
<1>0. SwapTyped
  BY DEF Before
<1>1. ASSUME UNCHANGED <<swaps, index>> PROVE Indexed'
  BY <1>1, SameIndex
<1>2. ASSUME NEW u \in Users, NEW now \in Times, TokenCall(u, now) PROVE UNCHANGED <<swaps, index>>
  BY <1>2 DEF TokenCall, TransferCoins, UnlockCoins, swapVars
<1>3. ASSUME NEW u \in Users, NEW now \in Times, SwapCall(u, now) PROVE Indexed'
  <2>1. ASSUME NEW id \in SwapIds, NEW dto \in RequestTokenSwapDtos,
               RequestTokenSwap(u, dto.offeredTo, id, dto.terms, dto.expires, now)
        PROVE  Indexed'
    <3>1. dto.offeredTo \in Users \cup {None} /\ dto.terms \in Terms /\ dto.expires \in Nat
      BY SwapsAssumption DEF RequestTokenSwapDtos
    <3>2. QED
      BY <1>0, <2>1, <3>1, RequestIndexed
  <2>2. ASSUME NEW dto \in FillTokenSwapDtos,
               FillTokenSwap(u, dto.filledBy, dto.swapRequestId, dto.uses, dto.expected, now)
        PROVE  Indexed'
    <3>1. dto.filledBy \in Users /\ dto.swapRequestId \in SwapIds /\ dto.uses \in FillUses
      BY DEF FillTokenSwapDtos
    <3>2. QED
      BY <1>0, <2>2, <3>1, FillIndexed
  <2>3. ASSUME NEW id \in SwapIds, TerminateTokenSwap(u, id, now) PROVE Indexed'
    BY <1>0, <2>3, TerminateIndexed
  <2>4. QED
    BY <1>3, <2>1, <2>2, <2>3 DEF SwapCall
<1>4. ASSUME NEW now \in Times, CuratorCall(now) PROVE Indexed'
  BY <1>4, CleanIndexed, EnsureIndexed DEF CuratorCall
<1>5. CASE UNCHANGED allVars
  BY <1>1, <1>5 DEF allVars, swapVars
<1>6. QED
  BY <1>1, <1>2, <1>3, <1>4, <1>5 DEF SwapNext

LEMMA IndexFinds ==
  ASSUME SwapTyped, Indexed
  PROVE  SwapsAreFound
<1>1. ASSUME NEW id \in Written
      PROVE  /\ DOMAIN swaps[id].terms.offered # {} /\ DOMAIN swaps[id].terms.wanted # {}
             /\ FoundBy(id)
    <2>1. swaps[id].terms \in Terms \cup OldTerms
      BY SwapType DEF Written
    <2>2. QED
      BY <2>1, TermsType DEF Indexed
<1>2. index \subseteq UNION {IndexOf(id, swaps[id]) : id \in Written}
  BY DEF Indexed
<1>3. ASSUME NEW id \in Written, Old(id)
      PROVE  {entry[1] : entry \in IndexOf(id, swaps[id]) \ index}
               \in {{"InstanceWanted"}, {"InstanceWanted", "InstanceOffered", "OfferedBy"}}
  <2> DEFINE all == IndexOf(id, swaps[id])
             offered == DOMAIN swaps[id].terms.offered
             wanted == DOMAIN swaps[id].terms.wanted
  <2>1. all = {<<"InstanceOffered", t, id>> : t \in offered} \cup {<<"InstanceWanted", t, id>> : t \in wanted}
                \cup {<<"OfferedBy", swaps[id].offeredBy, id>>}
    BY <1>1, <1>3 DEF FoundBy, IndexOf
  <2>2. /\ \A t \in offered : <<"InstanceOffered", t, id>> \in all
        /\ \A t \in wanted : <<"InstanceWanted", t, id>> \in all
        /\ <<"OfferedBy", swaps[id].offeredBy, id>> \in all
        /\ \A entry \in all : entry[1] \in {"InstanceWanted", "InstanceOffered", "OfferedBy"}
    BY <2>1
  <2>3. PICK o \in offered : <<"InstanceOffered", o, id>> \in all
    BY <1>1, <2>2
  <2>4. PICK w \in wanted : <<"InstanceWanted", w, id>> \in all
    BY <1>1, <2>2
  <2>5. all \cap index = {} \/ all \cap index = EnsuredOf(id, swaps[id])
    BY <1>1, <1>3 DEF FoundBy
  <2> HIDE DEF all
  <2>6. CASE all \cap index = {}
    <3>1. all \ index = all
      BY <2>6
    <3>2. {entry[1] : entry \in all} = {"InstanceWanted", "InstanceOffered", "OfferedBy"}
      <4>1. ASSUME NEW kind \in {"InstanceWanted", "InstanceOffered", "OfferedBy"}
            PROVE  \E entry \in all : entry[1] = kind
        BY <2>2, <2>3, <2>4
      <4>2. QED
        BY <2>2, <4>1
    <3>3. QED
      BY <3>1, <3>2 DEF all
  <2>7. CASE all \cap index = EnsuredOf(id, swaps[id])
    <3>1. \A entry \in all : entry \in index <=> entry[1] # "InstanceWanted"
      BY <2>7 DEF EnsuredOf, all
    <3>2. \A entry \in all \ index : entry[1] = "InstanceWanted"
      BY <3>1
    <3>3. <<"InstanceWanted", w, id>> \in all \ index
      BY <2>4, <3>1
    <3>4. {entry[1] : entry \in all \ index} = {"InstanceWanted"}
      BY <3>2, <3>3
    <3>5. QED
      BY <3>4 DEF all
  <2>8. QED
    BY <2>5, <2>6, <2>7
<1>4. ASSUME NEW id \in Written, ~Old(id), NEW entry, entry[3] = id
      PROVE  entry \in index <=> entry \in IndexOf(id, swaps[id])
  BY <1>1, <1>4, EntryFound DEF FoundBy
<1>5. ASSUME NEW id \in Written, ~Old(id)
      PROVE  /\ \A tokens : /\ id \in SwapsByInstanceOffered(tokens)
                                 <=> DOMAIN swaps[id].terms.offered \cap tokens # {}
                            /\ id \in SwapsByInstanceWanted(tokens)
                                 <=> DOMAIN swaps[id].terms.wanted \cap tokens # {}
             /\ \A u \in Users : /\ id \in SwapsOfferedByUser(u) <=> swaps[id].offeredBy = u
                                 /\ id \in SwapsOfferedToUser(u) <=> swaps[id].offeredTo = u
  <2>1. \A t : /\ <<"InstanceOffered", t, id>> \in index <=> t \in DOMAIN swaps[id].terms.offered
               /\ <<"InstanceWanted", t, id>> \in index <=> t \in DOMAIN swaps[id].terms.wanted
               /\ <<"OfferedBy", t, id>> \in index <=> t = swaps[id].offeredBy
               /\ <<"OfferedTo", t, id>> \in index <=> t = swaps[id].offeredTo /\ t # None
    BY <1>4, <1>5 DEF IndexOf
  <2>2. id \in SwapIds
    BY DEF Written
  <2>3. QED
    BY <2>1, <2>2, UsersAssumption
    DEF SwapsByInstanceOffered, SwapsByInstanceWanted, SwapsOfferedByUser, SwapsOfferedToUser
<1>6. QED
  BY <1>2, <1>3, <1>5 DEF SwapsAreFound, Old

\* The queries find the swaps that there are, and no others, whatever is cleaned and indexed again.
THEOREM QueriesFindSwaps == SwapSpec => []SwapsAreFound
<1>1. SwapInit => Before /\ Indexed
  BY SwapsStart, IndexStart
<1>2. Before /\ Indexed => SwapsAreFound
  BY IndexFinds DEF Before
<1>3. Before /\ Indexed /\ [SwapNext]_allVars => Before' /\ Indexed'
  BY NextTypes, NextIndexed
<1>4. QED
  BY <1>1, <1>2, <1>3, PTL DEF SwapSpec
-----------------------------------------------------------------------------
(***************************************************************************)
(* The offers.  A hold with the id of a swap is one of the offer, or of an *)
(* offer that is gone; together they are the uses that remain, as long as  *)
(* nobody has unlocked them in another way and the swap can be filled.     *)
(***************************************************************************)

\* cleanTokenSwaps deletes no swap for its uses that has some left, although it compares strings.
CleanedWhenSpent ==
  \A terms \in Terms \cup OldTerms : \A spent \in 0 .. terms.uses :
    StringLeq(terms.uses, spent) => spent = terms.uses

\* Of a swap, or of a hold.
Gone(x) == SwapIsExpired(x, latest)

Kept == {"held", "released"}

IsOffered(h, f, u) ==
  LET swap == swaps[h.name]
  IN  /\ fate[h.name] # "unused"
      /\ swap = None => (CleanedWhenSpent => Gone(h))
      /\ swap # None => /\ fate[h.name] \in Kept /\ swap.offeredBy = u
                        /\ f \in DOMAIN swap.terms.offered /\ h.expires = swap.expires

SwapHolds(f, u) == {h \in PlainHolds : h.name \in SwapIds => IsOffered(h, f, u)}

CoinsOf(swap) == DOMAIN swap.terms.offered \cap Fungibles

IsHeld(f, id) ==
  LET swap  == swaps[id]
      named == QuantityNamed(coins[f][swap.offeredBy].holds, id)
      due   == QuantityOf(swap.terms.offered, f, Remaining(swap))
  IN  /\ named <= due
      /\ fate[id] = "held" /\ ~Gone(swap) => named = due

CoinsHeld ==
  /\ \A f \in Fungibles, u \in Users : coins[f][u].holds \in Seq(SwapHolds(f, u))
  /\ \A id \in Written : \A f \in CoinsOf(swaps[id]) : IsHeld(f, id)

LEMMA TimesTell ==
  ASSUME NEW x, x.expires \in Nat, NEW s \in Nat, NEW t \in Nat
  PROVE  /\ IsExpired(x, t) /\ t <= s => SwapIsExpired(x, s)
         /\ SwapIsExpired(x, s) /\ s < t => IsExpired(x, t)
         /\ SwapIsExpired(x, s) /\ s <= t => SwapIsExpired(x, t)
BY DEF IsExpired, SwapIsExpired

LEMMA SwapHoldsKind ==
  ASSUME NEW f, NEW u
  PROVE  /\ SwapHolds(f, u) \in SUBSET PlainHolds /\ Kind(SwapHolds(f, u))
         /\ SwapHolds(f, u) \subseteq AllHolds
<1> DEFINE H == SwapHolds(f, u)
<1>1. H \subseteq PlainHolds /\ PlainHolds \subseteq AllHolds
  BY PlainKind DEF SwapHolds
<1>2. ASSUME NEW h \in H, NEW m \in 1 .. h.quantity
      PROVE  [h EXCEPT !.quantity = m] \in H
  <2> DEFINE part == [h EXCEPT !.quantity = m]
  <2>1. part \in PlainHolds
    BY <1>1, PlainKind DEF Kind
  <2>2. part.name = h.name /\ part.expires = h.expires
    BY <1>1 DEF AllHolds, Holds
  <2>3. h.name \in SwapIds => IsOffered(h, f, u)
    BY DEF SwapHolds
  <2> HIDE DEF part
  <2>4. IsOffered(h, f, u) => IsOffered(part, f, u)
    BY <2>2 DEF IsOffered, Gone, SwapIsExpired
  <2>5. part \in H
    BY <2>1, <2>2, <2>3, <2>4 DEF SwapHolds
  <2>6. QED
    BY <2>5 DEF part
<1>3. QED
  BY <1>1, <1>2 DEF Kind

\* A swap that can be filled has holds that have not expired.
LEMMA FreshOffer ==
  ASSUME NEW f, NEW u, NEW now \in Nat, NEW id \in SwapIds,
         swaps[id] # None => ~SwapIsExpired(swaps[id], now),
         swaps[id] = None => fate[id] = "unused"
  PROVE  Fresh(SwapHolds(f, u), id, now)
<1> SUFFICES ASSUME NEW h \in SwapHolds(f, u), h.name = id
             PROVE  ~IsExpired(h, now)
  BY DEF Fresh
<1>1. IsOffered(h, f, u) /\ h.expires \in Nat
  BY SwapHoldsKind, HoldFields DEF SwapHolds
<1>2. swaps[id] # None /\ h.expires = swaps[id].expires
  BY <1>1 DEF IsOffered
<1>3. QED
  BY <1>1, <1>2 DEF SwapIsExpired, IsExpired

LEMMA ZeroNamed ==
  ASSUME NEW H, H \subseteq AllHolds, NEW holds \in Seq(H), NEW name, \A h \in H : h.name # name
  PROVE  QuantityNamed(holds, name) = 0
<1> DEFINE n == Len(holds)
           f == [i \in DOMAIN holds |-> IF holds[i].name = name THEN holds[i].quantity ELSE 0]
<1>1. DOMAIN holds = 1 .. n /\ n \in Nat /\ \A i \in 1 .. n : holds[i] \in H
  OBVIOUS
<1> HIDE DEF n
<1>2. DOMAIN f = 1 .. n /\ \A i \in 1 .. n : f[i] = 0
  BY <1>1
<1> HIDE DEF f
<1>3. Summable(f, 1 .. n)
  BY <1>1, <1>2, FS_Interval DEF Summable
<1>4. QED
  BY <1>2, <1>3, SumOfZeros DEF QuantityNamed, SumFunction, f

\* What a call may change of a swap, and of its offer, for a hold to be of the offer still.
SameOffer(id) ==
  /\ swaps[id] = None => swaps'[id] = None
  /\ swaps[id] # None => /\ swaps'[id] # None
                         /\ swaps'[id].terms = swaps[id].terms
                         /\ swaps'[id].offeredBy = swaps[id].offeredBy
                         /\ swaps'[id].expires = swaps[id].expires
  /\ fate[id] # "unused" => fate'[id] # "unused"
  /\ fate[id] \in Kept => fate'[id] \in Kept

LEMMA OfferStays ==
  ASSUME NEW f, NEW u, NEW h \in SwapHolds(f, u), h.name \in SwapIds => SameOffer(h.name),
         latest \in Nat, latest' \in Nat, latest <= latest'
  PROVE  h \in SwapHolds(f, u)'
<1>1. h \in PlainHolds /\ h.expires \in Nat
  BY SwapHoldsKind, HoldFields DEF SwapHolds
<1>2. ASSUME h.name \in SwapIds PROVE IsOffered(h, f, u)'
  <2>1. IsOffered(h, f, u) /\ SameOffer(h.name)
    BY <1>2 DEF SwapHolds
  <2>2. Gone(h) => Gone(h)'
    BY <1>1, TimesTell DEF Gone
  <2>3. QED
    BY <2>1, <2>2 DEF IsOffered, SameOffer, CleanedWhenSpent
<1>3. QED
  BY <1>1, <1>2 DEF SwapHolds

LEMMA HoldsStay ==
  ASSUME CoinsHeld, NEW now, NEW ids, NEW new, CoinSteps(ids, new, now), NEW f \in Fungibles, NEW u \in Users,
         \A h \in SwapHolds(f, u) \cup new[f][u] : h \in SwapHolds(f, u)'
  PROVE  coins'[f][u].holds \in Seq(SwapHolds(f, u)')
<1> DEFINE H == SwapHolds(f, u)
           more == H \cup new[f][u]
           after == coins'[f][u].holds
           HH == SwapHolds(f, u)'
<1>1. coins[f][u].holds \in Seq(H) /\ H \in SUBSET PlainHolds /\ Kind(H)
  BY SwapHoldsKind DEF CoinsHeld
<1>2. Turns(coins[f][u], coins'[f][u], ids, new[f][u], now)
  BY DEF CoinSteps, BalanceStep
<1>3. after \in Seq(more)
  BY <1>1, <1>2 DEF Turns
<1>4. more \subseteq HH
  OBVIOUS
<1> HIDE DEF more, after, HH
<1>5. after \in Seq(HH)
  BY <1>3, <1>4
<1>6. QED
  BY <1>5 DEF after, HH

\* The holds of a swap that a call leaves alone.
LEMMA HeldStays ==
  ASSUME Before, CoinsHeld, NEW now \in Times, Called(now), NEW ids, NEW new, CoinSteps(ids, new, now),
         NEW id \in SwapIds, id \notin ids, swaps[id] # None, swaps'[id] = swaps[id],
         fate'[id] = "held" => fate[id] = "held", NEW f \in CoinsOf(swaps[id])
  PROVE  IsHeld(f, id)'
<1> DEFINE swap == swaps[id]
           o == swap.offeredBy
           H == SwapHolds(f, o)
           b == coins[f][o]
           c == coins'[f][o]
<1>1. /\ latest' \in Nat /\ latest \in Nat /\ now \in Nat /\ latest <= latest' /\ now <= latest'
  BY TimesGo
<1>2. o \in Users /\ swap.expires \in Nat /\ f \in Fungibles
  BY SwapType DEF Before, CoinsOf
<1>3. b.holds \in Seq(H) /\ H \in SUBSET PlainHolds /\ Kind(H)
  BY <1>2, SwapHoldsKind DEF CoinsHeld
<1>4. Turns(b, c, ids, new[f][o], now)
  BY <1>2 DEF CoinSteps, BalanceStep
<1>5. /\ QuantityNamed(c.holds, id) <= QuantityNamed(b.holds, id)
      /\ Fresh(H, id, now) => QuantityNamed(c.holds, id) = QuantityNamed(b.holds, id)
  BY <1>3, <1>4 DEF Turns
<1>6. ASSUME ~Gone(swap)' PROVE ~Gone(swap) /\ Fresh(H, id, now)
  <2>1. ~SwapIsExpired(swap, latest') /\ swap' = swap
    BY <1>6 DEF Gone
  <2>2. ~SwapIsExpired(swap, latest) /\ ~SwapIsExpired(swap, now)
    BY <1>1, <1>2, <2>1, TimesTell
  <2>3. QED
    BY <1>1, <2>2, FreshOffer DEF Gone
<1>7. QuantityNamed(b.holds, id) \in Nat /\ QuantityNamed(c.holds, id) \in Nat
  <2>1. b \in BalanceOf(PlainHolds) /\ c \in BalanceOf(PlainHolds)
    BY <1>2, OneCoin DEF CoinSteps
  <2>2. b.holds \in Seq(PlainHolds) /\ c.holds \in Seq(PlainHolds)
    BY <2>1 DEF BalanceOf
  <2> HIDE DEF b, c
  <2>3. QED
    BY <2>2, PlainKind, NamedIsSum
<1> DEFINE due == QuantityOf(swap.terms.offered, f, Remaining(swap))
<1>8. due \in Nat
  BY <1>2, SwapType, TermsType, QuantityType DEF Before, CoinsOf
<1>9. /\ QuantityNamed(b.holds, id) <= due
      /\ fate[id] = "held" /\ ~Gone(swap) => QuantityNamed(b.holds, id) = due
  <2>1. IsHeld(f, id)
    BY DEF CoinsHeld, Written
  <2>2. QED
    BY <2>1 DEF IsHeld
<1>10. /\ QuantityNamed(c.holds, id) <= due
       /\ fate'[id] = "held" /\ ~Gone(swap)' => QuantityNamed(c.holds, id) = due
  <2> HIDE DEF due, b, c, H
  <2>1. QED
    BY <1>5, <1>6, <1>7, <1>8, <1>9
<1>11. swap' = swap /\ o' = o /\ c = b' /\ due' = due
  BY DEF Remaining, QuantityOf
<1>12. QED
  BY <1>10, <1>11 DEF IsHeld

\* Calls that lock no coins.
LEMMA CoinsHeldNext ==
  ASSUME Before, CoinsHeld, NEW now \in Times, Called(now), NEW ids, CoinSteps(ids, NoNew, now),
         \A id \in SwapIds : SameOffer(id),
         \A id \in SwapIds : id \notin ids => /\ swaps'[id] = swaps[id]
                                              /\ fate'[id] = "held" => fate[id] = "held",
         \A id \in SwapIds : id \in ids /\ swaps'[id] # None =>
           \A f \in CoinsOf(swaps'[id]) : IsHeld(f, id)'
  PROVE  CoinsHeld'
<1>1. ASSUME NEW f \in Fungibles, NEW u \in Users
      PROVE  coins'[f][u].holds \in Seq(SwapHolds(f, u)')
  <2>1. \A h \in SwapHolds(f, u) : h \in SwapHolds(f, u)'
    BY TimesGo, OfferStays
  <2>2. NoNew[f][u] = {}
    BY DEF NoNew
  <2>3. QED
    BY <2>1, <2>2, HoldsStay
<1>2. ASSUME NEW id \in SwapIds, swaps'[id] # None, NEW f \in CoinsOf(swaps'[id])
      PROVE  IsHeld(f, id)'
  <2>1. CASE id \in ids
    BY <1>2, <2>1
  <2>2. CASE id \notin ids
    <3>1. swaps[id] # None /\ f \in CoinsOf(swaps[id])
      BY <1>2, <2>2
    <3>2. QED
      BY <2>2, <3>1, HeldStays
  <2>3. QED
    BY <2>1, <2>2
<1>3. QED
  BY <1>1, <1>2 DEF CoinsHeld, Written, CoinsOf

LEMMA ReleasedOffers ==
  ASSUME SwapTyped, NEW name, Released(name), swaps' = swaps
  PROVE  /\ \A id \in SwapIds : SameOffer(id) /\ (fate'[id] = "held" => fate[id] = "held")
         /\ name \in SwapIds => fate'[name] # "held"
BY DEF SwapTyped, Released, SameOffer, Kept, Fates

LEMMA SameFates ==
  ASSUME swaps' = swaps, fate' = fate
  PROVE  \A id \in SwapIds : /\ SameOffer(id) /\ swaps'[id] = swaps[id]
                             /\ fate'[id] = "held" => fate[id] = "held"
BY DEF SameOffer

LEMMA CoinNames ==
  ASSUME Before, NEW f \in Fungibles, NEW u \in Users, NEW name
  PROVE  QuantityNamed(coins[f][u].holds, name) \in Nat
<1>1. coins[f][u].holds \in Seq(PlainHolds)
  BY OneCoin DEF BalanceOf
<1>2. QED
  BY <1>1, PlainKind, NamedIsSum

LEMMA UnlockCoinsHeld ==
  ASSUME Before, CoinsHeld, NEW now \in Times, NEW by \in Users, NEW owner \in Users, NEW g \in Fungibles,
         NEW q \in Nat, NEW id \in SwapIds, UnlockCoins(by, owner, g, q, id, now)
  PROVE  CoinsHeld'
<1>1. Called(now) /\ swaps' = swaps /\ Released(id)
  BY DEF UnlockCoins
<1>2. /\ CoinSteps({id}, NoNew, now)
      /\ \A f \in Fungibles, u \in Users :
           QuantityNamed(coins'[f][u].holds, id) <= QuantityNamed(coins[f][u].holds, id)
  BY UnlockCoinsSteps
<1>3. /\ \A j \in SwapIds : SameOffer(j) /\ (fate'[j] = "held" => fate[j] = "held")
      /\ fate'[id] # "held"
  BY <1>1, ReleasedOffers DEF Before
<1>4. ASSUME swaps'[id] # None, NEW f \in CoinsOf(swaps'[id])
      PROVE  IsHeld(f, id)'
  <2> DEFINE swap == swaps[id]
             o == swap.offeredBy
             due == QuantityOf(swap.terms.offered, f, Remaining(swap))
             before == QuantityNamed(coins[f][o].holds, id)
             after == QuantityNamed(coins'[f][o].holds, id)
  <2>1. swap # None /\ swap' = swap /\ f \in CoinsOf(swap) /\ f \in Fungibles
    BY <1>1, <1>4 DEF CoinsOf
  <2>2. o \in Users /\ due \in Nat
    BY <2>1, SwapType, TermsType, QuantityType DEF Before, CoinsOf
  <2>3. before <= due
    BY <2>1 DEF CoinsHeld, Written, IsHeld
  <2>4. before \in Nat /\ after \in Nat /\ after <= before
    <3>1. coins'[f][o] \in BalanceOf(PlainHolds)
      BY <1>2, <2>1, <2>2 DEF CoinSteps
    <3>2. coins'[f][o].holds \in Seq(PlainHolds)
      BY <3>1 DEF BalanceOf
    <3>3. QED
      BY <1>2, <2>1, <2>2, <3>2, CoinNames, PlainKind, NamedIsSum
  <2>5. after <= due
    BY <2>2, <2>3, <2>4
  <2>6. QED
    BY <1>1, <1>3, <2>5 DEF IsHeld, Remaining, QuantityOf
<1>5. QED
  BY <1>1, <1>2, <1>3, <1>4, CoinsHeldNext

LEMMA TokenCallHeld ==
  ASSUME Before, CoinsHeld, NEW u \in Users, NEW now \in Times, TokenCall(u, now)
  PROVE  CoinsHeld'
<1>1. CASE /\ \/ Mint(u, now)
              \/ \E i \in Instances :
                   \/ \E to \in Users : Transfer(u, to, i, now)
                   \/ Burn(u, i, now)
                   \/ \E expires \in LockExpiries, name \in Names \ SwapIds :
                        Lock(u, u, i, expires, name, None, now)
           /\ UNCHANGED swapVars
  <2>1. Called(now) /\ coins' = coins /\ swaps' = swaps /\ fate' = fate
    BY <1>1 DEF Mint, Transfer, Burn, Lock, swapVars
  <2>2. CoinSteps({}, NoNew, now)
    BY <2>1, CoinsKept
  <2>3. QED
    BY <2>1, <2>2, SameFates, CoinsHeldNext
<1>2. ASSUME NEW i \in Instances, NEW name \in Names,
             Unlock(u, i, name, now), Released(name), UNCHANGED <<coins, swaps, fills, index>>
      PROVE  CoinsHeld'
  <2>1. Called(now) /\ coins' = coins /\ swaps' = swaps
    BY <1>2 DEF Unlock
  <2>2. CoinSteps({}, NoNew, now)
    BY <2>1, CoinsKept
  <2>3. \A j \in SwapIds : SameOffer(j) /\ (fate'[j] = "held" => fate[j] = "held")
    BY <1>2, <2>1, ReleasedOffers DEF Before
  <2>4. QED
    BY <2>1, <2>2, <2>3, CoinsHeldNext
<1>3. ASSUME NEW f \in Fungibles, NEW q \in 1 .. CoinSupply(f), NEW to \in Users, TransferCoins(u, to, f, q, now)
      PROVE  CoinsHeld'
  <2>1. Called(now) /\ swaps' = swaps /\ fate' = fate
    BY <1>3 DEF TransferCoins
  <2>2. CoinSteps({}, NoNew, now)
    BY <1>3, TransferCoinsSteps
  <2>3. QED
    BY <2>1, <2>2, SameFates, CoinsHeldNext
<1>4. ASSUME NEW f \in Fungibles, NEW q \in 1 .. CoinSupply(f), NEW owner \in Users, NEW id \in SwapIds,
             UnlockCoins(u, owner, f, q, id, now)
      PROVE  CoinsHeld'
  BY <1>4, UnlockCoinsHeld
<1>5. QED
  BY <1>1, <1>2, <1>3, <1>4 DEF TokenCall

LEMMA RequestHeld ==
  ASSUME Before, CoinsHeld, NEW now \in Times, NEW u \in Users, NEW to \in Users \cup {None}, NEW id \in SwapIds,
         NEW terms \in Terms, NEW expires \in Nat, RequestTokenSwap(u, to, id, terms, expires, now)
  PROVE  CoinsHeld'
<1> DEFINE new == [f \in Fungibles |-> [v \in Users |->
                     IF f \in DOMAIN terms.offered /\ v = u THEN {OfferHold(u, id, terms, f, expires)} ELSE {}]]
           swap == NewSwap(u, to, terms, expires)
<1>1. /\ fate[id] = "unused" /\ Called(now)
      /\ swaps' = [swaps EXCEPT ![id] = swap] /\ fate' = [fate EXCEPT ![id] = "held"]
  BY DEF RequestTokenSwap
<1>2. /\ swaps'[id] = swap /\ fate'[id] = "held" /\ swaps[id] = None
      /\ \A j \in SwapIds : j # id => swaps'[j] = swaps[j] /\ fate'[j] = fate[j]
  BY <1>1 DEF Before, SwapTyped
<1>3. /\ swap # None /\ swap.terms = terms /\ swap.offeredBy = u /\ swap.expires = expires /\ swap.usesSpent = 0
  BY NewSwapType
<1>4. /\ latest' \in Nat /\ latest \in Nat /\ now \in Nat /\ latest <= latest' /\ now <= latest'
  BY <1>1, TimesGo
<1>5. /\ CoinSteps({id}, new, now)
      /\ \A f \in DOMAIN terms.offered \cap Fungibles :
           \A H \in SUBSET PlainHolds : Kind(H) /\ coins[f][u].holds \in Seq(H) /\ Fresh(H, id, now) =>
             QuantityNamed(coins'[f][u].holds, id)
               = QuantityNamed(coins[f][u].holds, id) + QuantityOf(terms.offered, f, terms.uses)
  BY RequestSteps
<1> HIDE DEF swap
<1>6. \A f, v : \A h \in SwapHolds(f, v) : h.name # id
  BY <1>1 DEF SwapHolds, IsOffered
<1>7. ASSUME NEW f \in Fungibles, NEW v \in Users
      PROVE  coins'[f][v].holds \in Seq(SwapHolds(f, v)')
  <2>1. ASSUME NEW h \in SwapHolds(f, v) PROVE h \in SwapHolds(f, v)'
    <3>1. h.name \in SwapIds => SameOffer(h.name)
      BY <1>2, <1>6 DEF SameOffer
    <3>2. QED
      BY <1>4, <3>1, OfferStays
  <2>2. ASSUME NEW h \in new[f][v] PROVE h \in SwapHolds(f, v)'
    <3>1. f \in DOMAIN terms.offered /\ v = u /\ h = OfferHold(u, id, terms, f, expires)
      BY <2>2
    <3>2. h \in PlainHolds /\ h.name = id /\ h.expires = expires
      BY <3>1, OfferHoldType
    <3>3. IsOffered(h, f, v)'
      BY <1>2, <1>3, <3>1, <3>2 DEF IsOffered, Kept
    <3>4. QED
      BY <3>2, <3>3 DEF SwapHolds
  <2> HIDE DEF new
  <2>3. \A h \in SwapHolds(f, v) \cup new[f][v] : h \in SwapHolds(f, v)'
    BY <2>1, <2>2
  <2>4. QED
    BY <1>5, <2>3, HoldsStay
<1> HIDE DEF new
<1>8. ASSUME NEW f \in CoinsOf(swap)
      PROVE  IsHeld(f, id)'
  <2> DEFINE H == SwapHolds(f, u)
             due == QuantityOf(terms.offered, f, terms.uses)
  <2>1. f \in DOMAIN terms.offered /\ f \in Fungibles
    BY <1>3 DEF CoinsOf
  <2>2. /\ coins[f][u].holds \in Seq(H) /\ H \in SUBSET PlainHolds /\ Kind(H) /\ H \subseteq AllHolds
        /\ Fresh(H, id, now)
    BY <1>6, <2>1, SwapHoldsKind DEF CoinsHeld, Fresh
  <2>3. QuantityNamed(coins[f][u].holds, id) = 0
    BY <1>6, <2>2, ZeroNamed
  <2>4. due \in Nat
    BY <2>1, TermsType, QuantityType
  <2>5. QuantityNamed(coins'[f][u].holds, id) = due
    <3> HIDE DEF due
    <3>1. QuantityNamed(coins'[f][u].holds, id) = QuantityNamed(coins[f][u].holds, id) + due
      BY <1>5, <2>1, <2>2 DEF due
    <3>2. QED
      BY <2>3, <2>4, <3>1
  <2>6. Remaining(swap) = terms.uses
    BY <1>3, TermsType DEF Remaining
  <2> HIDE DEF H
  <2>7. IsHeld(f, id)' = LET named == QuantityNamed(coins'[f][u].holds, id)
                             owed  == QuantityOf(terms.offered, f, Remaining(swap))
                         IN  /\ named <= owed
                             /\ fate'[id] = "held" /\ ~Gone(swap)' => named = owed
    BY <1>2, <1>3 DEF IsHeld, Gone
  <2>8. QED
    BY <2>4, <2>5, <2>6, <2>7
<1>9. ASSUME NEW j \in SwapIds, swaps'[j] # None, NEW f \in CoinsOf(swaps'[j])
      PROVE  IsHeld(f, j)'
  <2>1. CASE j = id
    BY <1>2, <1>8, <1>9, <2>1
  <2>2. CASE j # id
    <3>1. swaps'[j] = swaps[j] /\ fate'[j] = fate[j] /\ swaps[j] # None /\ f \in CoinsOf(swaps[j])
      BY <1>2, <1>9, <2>2
    <3>2. j \notin {id}
      BY <2>2
    <3>3. QED
      BY <1>1, <1>5, <3>1, <3>2, HeldStays
  <2>3. QED
    BY <2>1, <2>2
<1>10. QED
  BY <1>7, <1>9 DEF CoinsHeld, Written, CoinsOf

\* While a swap can be filled, what is paid of its offer is of its holds.
LEMMA OfferPaid ==
  ASSUME Before, CoinsHeld, NEW now \in Nat, NEW id \in SwapIds, swaps[id] # None, ~SwapIsExpired(swaps[id], now),
         NEW f \in CoinsOf(swaps[id]), NEW c \in BalanceOf(PlainHolds), NEW q \in Nat,
         Paid(coins[f][swaps[id].offeredBy], c, id, q, now)
  PROVE  /\ QuantityNamed(c.holds, id) = QuantityNamed(coins[f][swaps[id].offeredBy].holds, id) - q
         /\ QuantityNamed(c.holds, id) \in Nat
         /\ QuantityNamed(coins[f][swaps[id].offeredBy].holds, id) \in Nat
<1> DEFINE o == swaps[id].offeredBy
           H == SwapHolds(f, o)
<1>1. o \in Users /\ f \in Fungibles
  BY SwapType DEF Before, CoinsOf
<1>2. coins[f][o].holds \in Seq(H) /\ H \in SUBSET PlainHolds /\ Kind(H) /\ Fresh(H, id, now)
  BY <1>1, SwapHoldsKind, FreshOffer DEF CoinsHeld
<1>3. QuantityNamed(c.holds, id) = QuantityNamed(coins[f][o].holds, id) - q
  BY <1>2 DEF Paid
<1>4. c.holds \in Seq(PlainHolds)
  BY DEF BalanceOf
<1>5. QED
  BY <1>1, <1>3, <1>4, CoinNames, PlainKind, NamedIsSum

LEMMA FillHeld ==
  ASSUME Before, CoinsHeld, NEW now \in Times, NEW caller \in Users, NEW u \in Users, NEW id \in SwapIds,
         NEW uses \in FillUses, NEW expected, FillTokenSwap(caller, u, id, uses, expected, now)
  PROVE  CoinsHeld'
<1> DEFINE swap == swaps[id]
           filled == Filled(swap, id, u, uses, now)
           o == swap.offeredBy
<1>1. /\ Called(now) /\ fate' = fate /\ ~SwapIsExpired(swap, now) /\ swap # None
  BY DEF FillTokenSwap, CanFill
<1>2. /\ latest' \in Nat /\ latest \in Nat /\ now \in Nat /\ latest <= latest' /\ now <= latest'
  BY <1>1, TimesGo
<1>3. /\ swaps' = [swaps EXCEPT ![id] = filled] /\ filled \in TokenSwapRequests
      /\ filled.terms = swap.terms /\ filled.offeredBy = o /\ filled.expires = swap.expires
      /\ filled.usesSpent = swap.usesSpent + uses /\ filled.usesSpent <= filled.terms.uses
      /\ uses \in Nat /\ swap.usesSpent \in Nat
  BY <1>1, FilledSwap, SwapType DEF Before
<1>4. CoinSteps({id}, NoNew, now)
  BY FillSteps
<1>5. ASSUME NEW f \in CoinsOf(swap)
      PROVE  Paid(coins[f][o], coins'[f][o], id, QuantityOf(swap.terms.offered, f, uses), now)
  <2>1. f \in DOMAIN swaps[id].terms.offered \cap Fungibles
    BY DEF CoinsOf
  <2>2. QED
    BY <2>1, FillSteps
<1> HIDE DEF filled
<1>6. /\ swaps'[id] = filled /\ filled # None
      /\ \A j \in SwapIds : j # id => swaps'[j] = swaps[j]
  BY <1>3, SwapRequestsAssumption DEF Before, SwapTyped
<1>7. \A j \in SwapIds : SameOffer(j)
  BY <1>1, <1>3, <1>6 DEF SameOffer
<1>8. ASSUME NEW f \in CoinsOf(filled)
      PROVE  IsHeld(f, id)'
  <2> DEFINE before == QuantityNamed(coins[f][o].holds, id)
             after  == QuantityNamed(coins'[f][o].holds, id)
             offered == swap.terms.offered
  <2>1. f \in CoinsOf(swap) /\ f \in DOMAIN offered /\ f \in Fungibles /\ o \in Users
    BY <1>1, <1>3, SwapType DEF CoinsOf, Before
  <2>2. PICK a \in Nat : a = offered[f]
    BY <1>1, <2>1, SwapType, TermsType DEF Before
  <2>3. PICK rest \in Nat : rest = Remaining(filled) /\ Remaining(swap) = rest + uses
    <3>1. swap.terms.uses \in Nat
      BY <1>1, SwapType, TermsType DEF Before
    <3>2. filled.terms.uses - filled.usesSpent \in Nat
      BY <1>3, <3>1
    <3>3. filled.terms.uses - filled.usesSpent + uses = swap.terms.uses - swap.usesSpent
      BY <1>3, <3>1
    <3>4. QED
      BY <3>2, <3>3 DEF Remaining
  <2>4. /\ QuantityOf(offered, f, uses) = a * uses /\ QuantityOf(offered, f, Remaining(swap)) = a * (rest + uses)
        /\ QuantityOf(offered, f, Remaining(filled)) = a * rest
    BY <2>2, <2>3 DEF QuantityOf
  <2>5. a * uses \in Nat /\ a * rest \in Nat /\ a * (rest + uses) = a * rest + a * uses
    BY <1>3
  <2>6. after = before - a * uses /\ after \in Nat /\ before \in Nat
    <3>1. coins'[f][o] \in BalanceOf(PlainHolds)
      BY <1>4, <2>1 DEF CoinSteps
    <3>2. PICK q \in Nat : q = QuantityOf(offered, f, uses)
      BY <2>4, <2>5
    <3>3. Paid(coins[f][o], coins'[f][o], id, q, now)
      BY <1>5, <2>1, <3>2
    <3>4. after = before - q /\ after \in Nat /\ before \in Nat
      BY <1>1, <1>2, <2>1, <3>1, <3>3, OfferPaid
    <3>5. QED
      BY <2>4, <3>2, <3>4
  <2>7. /\ before <= a * (rest + uses)
        /\ fate[id] = "held" /\ ~Gone(swap) => before = a * (rest + uses)
    <3>1. IsHeld(f, id)
      BY <1>1, <2>1 DEF CoinsHeld, Written
    <3>2. QED
      BY <2>4, <3>1 DEF IsHeld
  <2>8. ~SwapIsExpired(filled, latest') => ~Gone(swap)
    <3>1. swap.expires \in Nat
      BY <1>1, SwapType DEF Before
    <3>2. SwapIsExpired(swap, latest) => SwapIsExpired(swap, latest')
      BY <1>2, <3>1, TimesTell
    <3>3. SwapIsExpired(filled, latest') = SwapIsExpired(swap, latest')
      BY <1>3 DEF SwapIsExpired
    <3>4. QED
      BY <3>2, <3>3 DEF Gone
  <2> DEFINE paid == a * uses
             due  == a * rest
             total == a * (rest + uses)
  <2> HIDE DEF before, after, paid, due, total
  <2>9. after <= due /\ (fate[id] = "held" /\ ~SwapIsExpired(filled, latest') => after = due)
    <3>1. /\ paid \in Nat /\ due \in Nat /\ total = due + paid /\ after = before - paid
          /\ after \in Nat /\ before \in Nat /\ before <= total
      BY <2>5, <2>6, <2>7 DEF paid, due, total
    <3>2. fate[id] = "held" /\ ~SwapIsExpired(filled, latest') => before = total
      BY <2>7, <2>8 DEF total
    <3>3. QED
      BY <3>1, <3>2
  <2>10. IsHeld(f, id)' = LET named == QuantityNamed(coins'[f][o].holds, id)
                              owed  == QuantityOf(offered, f, Remaining(filled))
                          IN  /\ named <= owed
                              /\ fate[id] = "held" /\ ~SwapIsExpired(filled, latest') => named = owed
    BY <1>1, <1>3, <1>6 DEF IsHeld, Gone
  <2>11. QED
    BY <2>4, <2>9, <2>10 DEF due, after
<1>9. QED
  BY <1>1, <1>4, <1>6, <1>7, <1>8, CoinsHeldNext

\* A termination leaves no coins under the id of the swap.
LEMMA TerminateHeld ==
  ASSUME Before, CoinsHeld, NEW now \in Times, NEW caller \in Users, NEW id \in SwapIds,
         TerminateTokenSwap(caller, id, now)
  PROVE  CoinsHeld'
<1> DEFINE swap == swaps[id]
           ended == [swap EXCEPT !.expires = now]
           o == swap.offeredBy
<1>1. /\ Called(now) /\ fate' = [fate EXCEPT ![id] = "terminated"] /\ ~SwapIsExpired(swap, now) /\ swap # None
  BY DEF TerminateTokenSwap
<1>2. /\ latest' \in Nat /\ latest \in Nat /\ now \in Nat /\ latest <= latest' /\ now <= latest'
  BY <1>1, TimesGo
<1>3. /\ swaps' = [swaps EXCEPT ![id] = ended] /\ ended \in TokenSwapRequests
      /\ ended.terms = swap.terms /\ ended.offeredBy = o /\ ended.usesSpent = swap.usesSpent
  BY <1>1, TerminatedSwap DEF Before
<1>4. CoinSteps({id}, NoNew, now)
  BY TerminateSteps
<1>5. ASSUME NEW f \in CoinsOf(swap)
      PROVE  Paid(coins[f][o], coins'[f][o], id, QuantityOf(swap.terms.offered, f, Remaining(swap)), now)
  <2>1. f \in DOMAIN swaps[id].terms.offered \cap Fungibles
    BY DEF CoinsOf
  <2>2. QED
    BY <2>1, TerminateSteps
<1> HIDE DEF ended
<1>6. /\ swaps'[id] = ended /\ fate'[id] = "terminated"
      /\ \A j \in SwapIds : j # id => swaps'[j] = swaps[j] /\ fate'[j] = fate[j]
  BY <1>1, <1>3 DEF Before, SwapTyped
<1>7. ASSUME NEW f \in CoinsOf(swap)
      PROVE  /\ QuantityNamed(coins'[f][o].holds, id) = 0
             /\ QuantityOf(swap.terms.offered, f, Remaining(swap)) \in Nat
  <2> DEFINE due == QuantityOf(swap.terms.offered, f, Remaining(swap))
             before == QuantityNamed(coins[f][o].holds, id)
             after  == QuantityNamed(coins'[f][o].holds, id)
  <2>1. due \in Nat
    BY <1>1, SwapType, TermsType, QuantityType DEF Before, CoinsOf
  <2>2. coins'[f][o] \in BalanceOf(PlainHolds)
    BY <1>1, <1>4, SwapType DEF CoinSteps, CoinsOf, Before
  <2>3. after = before - due /\ after \in Nat /\ before \in Nat
    BY <1>1, <1>2, <1>5, <2>1, <2>2, OfferPaid
  <2>4. before <= due
    BY <1>1 DEF CoinsHeld, Written, IsHeld
  <2> HIDE DEF due, before, after
  <2>5. after = 0
    BY <2>1, <2>3, <2>4
  <2>6. QED
    BY <2>1, <2>5 DEF after, due
<1>8. ASSUME NEW f \in Fungibles, NEW u \in Users
      PROVE  coins'[f][u].holds \in Seq(SwapHolds(f, u)')
  <2> DEFINE H == SwapHolds(f, u)
             others == {h \in H : h.name # id}
             HH == SwapHolds(f, u)'
             after == coins'[f][u].holds
  <2>1. coins[f][u].holds \in Seq(H) /\ H \in SUBSET PlainHolds /\ Kind(H) /\ H \subseteq AllHolds
    BY SwapHoldsKind DEF CoinsHeld
  <2>2. after \in Seq(H)
    <3>1. Turns(coins[f][u], coins'[f][u], {id}, NoNew[f][u], now) /\ NoNew[f][u] = {}
      BY <1>4 DEF CoinSteps, BalanceStep, NoNew
    <3>2. after \in Seq(H \cup {})
      BY <2>1, <3>1 DEF Turns
    <3>3. H \cup {} = H
      OBVIOUS
    <3>4. QED
      BY <3>2, <3>3
  <2>3. after \in Seq(others)
    <3>1. CASE f \in CoinsOf(swap) /\ u = o
      <4>1. QuantityNamed(after, id) = 0
        BY <1>7, <3>1
      <4> HIDE DEF after, H
      <4>2. QED
        BY <2>1, <2>2, <4>1, NoneNamed
    <3>2. CASE ~(f \in CoinsOf(swap) /\ u = o)
      <4>1. \A h \in H : h.name # id
        BY <1>1, <3>2 DEF SwapHolds, IsOffered, CoinsOf
      <4>2. others = H
        BY <4>1
      <4> HIDE DEF after, H, others
      <4>3. QED
        BY <2>2, <4>2
    <3>3. QED
      BY <3>1, <3>2
  <2>4. ASSUME NEW h \in others PROVE h \in HH
    <3>1. h.name \in SwapIds => SameOffer(h.name)
      BY <1>6 DEF SameOffer
    <3>2. h \in SwapHolds(f, u)
      OBVIOUS
    <3>3. QED
      BY <1>2, <3>1, <3>2, OfferStays
  <2> HIDE DEF after, others, HH
  <2>5. after \in Seq(HH)
    BY <2>3, <2>4
  <2>6. QED
    BY <2>5 DEF after, HH
<1>9. ASSUME NEW j \in SwapIds, swaps'[j] # None, NEW f \in CoinsOf(swaps'[j])
      PROVE  IsHeld(f, j)'
  <2>1. CASE j = id
    <3>1. f \in CoinsOf(swap)
      BY <1>3, <1>6, <1>9, <2>1 DEF CoinsOf
    <3>2. QuantityOf(ended.terms.offered, f, Remaining(ended)) = QuantityOf(swap.terms.offered, f, Remaining(swap))
      BY <1>3 DEF Remaining
    <3>3. QED
      BY <1>3, <1>6, <1>7, <2>1, <3>1, <3>2 DEF IsHeld
  <2>2. CASE j # id
    <3>1. swaps'[j] = swaps[j] /\ fate'[j] = fate[j] /\ swaps[j] # None /\ f \in CoinsOf(swaps[j])
      BY <1>6, <1>9, <2>2
    <3>2. j \notin {id}
      BY <2>2
    <3>3. QED
      BY <1>1, <1>4, <3>1, <3>2, HeldStays
  <2>3. QED
    BY <2>1, <2>2
<1>10. QED
  BY <1>8, <1>9 DEF CoinsHeld, Written, CoinsOf

LEMMA CleanHeld ==
  ASSUME Before, CoinsHeld, NEW now \in Times, NEW ids \in SUBSET SwapIds, CleanTokenSwaps(ids, now)
  PROVE  CoinsHeld'
<1> DEFINE over == {id \in ids : CanClean(swaps[id], now)}
<1>1. /\ Called(now) /\ coins' = coins /\ fate' = fate
      /\ swaps' = [id \in SwapIds |-> IF id \in over THEN None ELSE swaps[id]]
      /\ \A id \in over : swaps[id] # None /\ CanClean(swaps[id], now)
  BY DEF CleanTokenSwaps
<1>2. /\ latest' \in Nat /\ latest \in Nat /\ now \in Nat /\ latest <= latest' /\ now <= latest'
  BY <1>1, TimesGo
<1> HIDE DEF over
<1>3. ASSUME NEW f \in Fungibles, NEW u \in Users, NEW k \in DOMAIN coins[f][u].holds,
             NEW h, h = coins[f][u].holds[k]
      PROVE  h \in SwapHolds(f, u)'
  <2> DEFINE H == SwapHolds(f, u)
             holds == coins[f][u].holds
             id == h.name
             swap == swaps[id]
  <2>1. holds \in Seq(H) /\ H \subseteq PlainHolds /\ h \in H /\ h.expires \in Nat /\ h \in PlainHolds
    <3>1. holds \in Seq(H) /\ H \subseteq PlainHolds /\ H \subseteq AllHolds
      BY SwapHoldsKind DEF CoinsHeld
    <3>2. h \in H
      BY <1>3, <3>1
    <3>3. QED
      BY <3>1, <3>2, HoldFields DEF SwapHolds
  <2>2. CASE id \notin SwapIds \/ id \notin over
    <3>1. id \in SwapIds => SameOffer(id)
      BY <1>1, <2>2 DEF SameOffer
    <3>2. QED
      BY <1>2, <2>1, <3>1, OfferStays
  <2>3. CASE id \in SwapIds /\ id \in over
    <3>1. IsOffered(h, f, u) /\ swap # None /\ CanClean(swap, now)
      BY <1>1, <2>1, <2>3 DEF SwapHolds
    <3>2. fate[id] # "unused" /\ swap.offeredBy = u /\ f \in CoinsOf(swap) /\ h.expires = swap.expires
      BY <3>1 DEF IsOffered, CoinsOf
    <3>3. ASSUME CleanedWhenSpent PROVE SwapIsExpired(h, latest')
      <4>1. CASE SwapIsExpired(swap, now)
        <5>1. SwapIsExpired(h, now)
          BY <3>2, <4>1 DEF SwapIsExpired
        <5>2. QED
          BY <1>2, <2>1, <5>1, TimesTell
      <4>2. CASE StringLeq(swap.terms.uses, swap.usesSpent)
        <5>1. /\ swap.terms \in Terms \cup OldTerms /\ swap.usesSpent \in Nat /\ swap.terms.uses \in Nat
              /\ swap.usesSpent <= swap.terms.uses
          BY <2>3, <3>1, SwapType, TermsType DEF Before, SwapTyped
        <5>2. swap.usesSpent = swap.terms.uses
          <6>1. swap.usesSpent \in 0 .. swap.terms.uses
            BY <5>1
          <6>2. QED
            BY <3>3, <4>2, <5>1, <6>1 DEF CleanedWhenSpent
        <5>3. Remaining(swap) = 0 /\ QuantityOf(swap.terms.offered, f, Remaining(swap)) = 0
          <6>1. Remaining(swap) = 0
            BY <5>1, <5>2 DEF Remaining
          <6>2. swap.terms.offered[f] \in Nat
            BY <3>2, <5>1, TermsType DEF CoinsOf
          <6>3. QED
            BY <6>1, <6>2 DEF QuantityOf
        <5>4. QuantityNamed(holds, id) <= 0
          BY <2>3, <3>1, <3>2, <5>3 DEF CoinsHeld, Written, IsHeld
        <5>5. QuantityNamed(holds, id) = 0
          BY <5>4, CoinNames
        <5>6. holds \in Seq({g \in H : g.name # id})
          <6> HIDE DEF H, holds, id
          <6>1. QED
            BY <2>1, <5>5, NoneNamed
        <5>7. h \in {g \in H : g.name # id}
          <6> DEFINE others == {g \in H : g.name # id}
          <6>1. holds \in Seq(others) /\ k \in DOMAIN holds
            BY <5>6
          <6> HIDE DEF others
          <6>2. holds[k] \in others
            BY <6>1
          <6>3. QED
            BY <1>3, <6>2 DEF others
        <5>8. QED
          BY <5>7
      <4>3. QED
        BY <3>1, <4>1, <4>2 DEF CanClean
    <3>4. IsOffered(h, f, u)'
      <4>1. swaps'[id] = None /\ fate'[id] # "unused"
        BY <1>1, <2>3, <3>2
      <4>2. (CleanedWhenSpent => Gone(h))'
        BY <3>3 DEF Gone, CleanedWhenSpent
      <4>3. QED
        BY <4>1, <4>2 DEF IsOffered
    <3>5. QED
      BY <2>1, <3>4 DEF SwapHolds
  <2>4. QED
    BY <2>2, <2>3
<1>4. ASSUME NEW f \in Fungibles, NEW u \in Users
      PROVE  coins'[f][u].holds \in Seq(SwapHolds(f, u)')
  <2> DEFINE holds == coins[f][u].holds
             HH == SwapHolds(f, u)'
  <2>1. DOMAIN holds = 1 .. Len(holds) /\ Len(holds) \in Nat
        /\ holds = [k \in DOMAIN holds |-> holds[k]]
    <3>1. holds \in Seq(PlainHolds)
      BY OneCoin DEF BalanceOf
    <3> HIDE DEF holds
    <3>2. QED
      BY <3>1
  <2>2. \A k \in DOMAIN holds : holds[k] \in HH
    BY <1>3
  <2>3. coins'[f][u].holds = holds
    BY <1>1
  <2> HIDE DEF holds, HH
  <2>4. holds \in [1 .. Len(holds) -> HH]
    BY <2>1, <2>2
  <2>5. holds \in Seq(HH)
    BY <2>1, <2>4, FunctionSequence
  <2>6. QED
    BY <2>3, <2>5 DEF HH
<1>5. ASSUME NEW j \in SwapIds, swaps'[j] # None, NEW f \in CoinsOf(swaps'[j])
      PROVE  IsHeld(f, j)'
  <2>1. swaps'[j] = swaps[j] /\ fate'[j] = fate[j] /\ swaps[j] # None /\ f \in CoinsOf(swaps[j])
    BY <1>1, <1>5
  <2>2. CoinSteps({}, NoNew, now)
    BY <1>1, CoinsKept
  <2>3. j \notin {}
    OBVIOUS
  <2>4. QED
    BY <1>1, <2>1, <2>2, <2>3, HeldStays
<1>6. QED
  BY <1>4, <1>5 DEF CoinsHeld, Written, CoinsOf

LEMMA NextHeld ==
  ASSUME Before, CoinsHeld, [SwapNext]_allVars
  PROVE  CoinsHeld'
<1>1. CASE UNCHANGED allVars
  <2>1. coins' = coins /\ swaps' = swaps /\ fate' = fate /\ latest' = latest
    BY <1>1 DEF allVars, swapVars, vars
  <2>2. QED
    BY <2>1 DEF CoinsHeld, Written, CoinsOf, SwapHolds, IsOffered, IsHeld, CleanedWhenSpent, Gone
<1>2. ASSUME NEW now \in Times, NEW u \in Users, SwapCall(u, now)
      PROVE  CoinsHeld'
  <2>1. ASSUME NEW id \in SwapIds, NEW dto \in RequestTokenSwapDtos,
               RequestTokenSwap(u, dto.offeredTo, id, dto.terms, dto.expires, now)
        PROVE  CoinsHeld'
    <3>1. dto.offeredTo \in Users \cup {None} /\ dto.terms \in Terms /\ dto.expires \in Nat
      BY SwapsAssumption DEF RequestTokenSwapDtos
    <3>2. QED
      BY <2>1, <3>1, RequestHeld
  <2>2. ASSUME NEW dto \in FillTokenSwapDtos,
               FillTokenSwap(u, dto.filledBy, dto.swapRequestId, dto.uses, dto.expected, now)
        PROVE  CoinsHeld'
    <3>1. dto.filledBy \in Users /\ dto.swapRequestId \in SwapIds /\ dto.uses \in FillUses
      BY DEF FillTokenSwapDtos
    <3>2. QED
      BY <2>2, <3>1, FillHeld
  <2>3. QED
    BY <1>2, <2>1, <2>2, TerminateHeld DEF SwapCall
<1>3. ASSUME NEW now \in Times, CuratorCall(now)
      PROVE  CoinsHeld'
  <2>1. ASSUME NEW ids \in SUBSET SwapIds, EnsureTokenSwapIndexing(ids, now)
        PROVE  CoinsHeld'
    <3>1. Called(now) /\ coins' = coins /\ swaps' = swaps /\ fate' = fate
      BY <2>1 DEF EnsureTokenSwapIndexing
    <3>2. CoinSteps({}, NoNew, now)
      BY <3>1, CoinsKept
    <3>3. QED
      BY <3>1, <3>2, SameFates, CoinsHeldNext
  <2>2. QED
    BY <1>3, <2>1, CleanHeld DEF CuratorCall
<1>4. QED
  BY <1>1, <1>2, <1>3, TokenCallHeld DEF SwapNext

-----------------------------------------------------------------------------
(***************************************************************************)
(* The same of the instances that are offered.  An instance is locked once,*)
(* and the lock of a swap that is over has expired, or it would have been  *)
(* found and removed: the instance cannot have left the balance before.    *)
(***************************************************************************)
IsLocked(h, u) ==
  LET swap == swaps[h.name]
  IN  /\ fate[h.name] # "unused"
      /\ swap = None => (CleanedWhenSpent => Gone(h))
      /\ swap # None => /\ swap.offeredBy = u /\ h.instance \in DOMAIN swap.terms.offered
                        /\ \/ Gone(h)
                           \/ fate[h.name] \in Kept /\ Remaining(swap) # 0 /\ h.expires = swap.expires

SwapLocks(u) == {h \in InstanceHolds : h.name \in SwapIds => IsLocked(h, u)}

InstancesOf(swap) == DOMAIN swap.terms.offered \cap Instances

HasLock(i, id) == \E h \in lockedHolds[swaps[id].offeredBy] :
                    h.instance = i /\ h.name = id /\ h.expires = swaps[id].expires

IsOfferLocked(i, id) ==
  /\ swaps[id].terms.uses = 1
  /\ fate[id] = "held" /\ ~Gone(swaps[id]) /\ Remaining(swaps[id]) # 0 => HasLock(i, id)

InstancesHeld ==
  /\ \A u \in Users : lockedHolds[u] \in SUBSET SwapLocks(u)
  /\ \A id \in Written : \A i \in InstancesOf(swaps[id]) : IsOfferLocked(i, id)

LEMMA LockFields ==
  ASSUME InstanceInv, NEW u \in Users, NEW h \in lockedHolds[u]
  PROVE  h \in InstanceHolds /\ h.instance \in Instances /\ h.expires \in Nat
BY DEF InstanceInv, TypeOK, InstanceHolds

\* What a call may change of a swap for a lock to be of it still.
SameLock(id) == SameOffer(id) /\ (swaps[id] # None => Remaining(swaps[id])' = Remaining(swaps[id]))

LEMMA LockStays ==
  ASSUME NEW u, NEW h \in SwapLocks(u), h.name \in SwapIds => SameLock(h.name),
         latest \in Nat, latest' \in Nat, latest <= latest'
  PROVE  h \in SwapLocks(u)'
<1>1. h \in InstanceHolds /\ h.expires \in Nat
  BY DEF SwapLocks, InstanceHolds
<1>2. ASSUME h.name \in SwapIds PROVE IsLocked(h, u)'
  <2>1. IsLocked(h, u) /\ SameLock(h.name)
    BY <1>2 DEF SwapLocks
  <2>2. Gone(h) => Gone(h)'
    BY <1>1, TimesTell DEF Gone
  <2>3. QED
    BY <2>1, <2>2 DEF IsLocked, SameLock, SameOffer, CleanedWhenSpent
<1>3. QED
  BY <1>1, <1>2 DEF SwapLocks

\* No lock goes that has not expired, unless it is of the names in ids.
LocksKept(ids, now) ==
  \A u \in Users : \A h \in lockedHolds[u] : h.name \notin ids /\ ~IsExpired(h, now) => h \in lockedHolds'[u]

LEMMA OfferLockStays ==
  ASSUME Before, NEW now \in Times, Called(now), NEW ids, LocksKept(ids, now),
         NEW id \in SwapIds, id \notin ids, swaps[id] # None, swaps'[id] = swaps[id],
         fate'[id] = "held" => fate[id] = "held", NEW i \in InstancesOf(swaps[id]), IsOfferLocked(i, id)
  PROVE  IsOfferLocked(i, id)'
<1> DEFINE swap == swaps[id]
           o == swap.offeredBy
<1>1. /\ latest' \in Nat /\ latest \in Nat /\ now \in Nat /\ latest <= latest' /\ now <= latest'
  BY TimesGo
<1>2. o \in Users /\ swap.expires \in Nat
  BY SwapType DEF Before
<1>3. ASSUME fate'[id] = "held", ~SwapIsExpired(swap, latest'), Remaining(swap) # 0
      PROVE  \E h \in lockedHolds'[o] : h.instance = i /\ h.name = id /\ h.expires = swap.expires
  <2>1. ~SwapIsExpired(swap, latest) /\ ~SwapIsExpired(swap, now)
    BY <1>1, <1>2, <1>3, TimesTell
  <2>2. HasLock(i, id)
    BY <1>3, <2>1 DEF IsOfferLocked, Gone
  <2>3. PICK h \in lockedHolds[o] : h.instance = i /\ h.name = id /\ h.expires = swap.expires
    BY <2>2 DEF HasLock
  <2>4. ~IsExpired(h, now)
    BY <1>1, <1>2, <2>1, <2>3 DEF IsExpired, SwapIsExpired
  <2>5. h \in lockedHolds'[o]
    BY <1>2, <2>3, <2>4 DEF LocksKept
  <2>6. QED
    BY <2>3, <2>5
<1>4. swap.terms.uses = 1
  BY DEF IsOfferLocked
<1>5. QED
  BY <1>3, <1>4 DEF IsOfferLocked, HasLock, Gone, Remaining

\* Calls that give no new locks with the id of a swap, and change the uses of no swap that has locks.
LEMMA InstancesHeldNext ==
  ASSUME Before, InstancesHeld, NEW now \in Times, Called(now), NEW ids, LocksKept(ids, now),
         lockedHolds' \in [Users -> SUBSET InstanceHolds],
         \A u \in Users : \A h \in lockedHolds'[u] : h \notin lockedHolds[u] => h.name \notin SwapIds,
         \A u \in Users : \A h \in lockedHolds'[u] : h.name \in SwapIds => SameLock(h.name),
         \A id \in SwapIds : id \notin ids /\ swaps'[id] # None =>
           swaps'[id] = swaps[id] /\ (fate'[id] = "held" => fate[id] = "held"),
         \A id \in SwapIds : id \in ids /\ swaps'[id] # None =>
           \A i \in InstancesOf(swaps'[id]) : IsOfferLocked(i, id)'
  PROVE  InstancesHeld'
<1>1. ASSUME NEW u \in Users, NEW h \in lockedHolds'[u]
      PROVE  h \in SwapLocks(u)'
  <2>1. CASE h \in lockedHolds[u]
    BY <1>1, <2>1, TimesGo, LockStays DEF InstancesHeld
  <2>2. CASE h \notin lockedHolds[u]
    BY <1>1, <2>2 DEF SwapLocks
  <2>3. QED
    BY <2>1, <2>2
<1>2. ASSUME NEW id \in SwapIds, swaps'[id] # None, NEW i \in InstancesOf(swaps'[id])
      PROVE  IsOfferLocked(i, id)'
  <2>1. CASE id \in ids
    BY <1>2, <2>1
  <2>2. CASE id \notin ids
    <3>1. swaps[id] # None /\ i \in InstancesOf(swaps[id]) /\ swaps'[id] = swaps[id]
          /\ (fate'[id] = "held" => fate[id] = "held")
      BY <1>2, <2>2
    <3>2. IsOfferLocked(i, id)
      BY <3>1 DEF InstancesHeld, Written
    <3>3. QED
      BY <2>2, <3>1, <3>2, OfferLockStays
  <2>3. QED
    BY <2>1, <2>2
<1>3. QED
  BY <1>1, <1>2 DEF InstancesHeld, Written, InstancesOf

LEMMA SameLocks ==
  ASSUME swaps' = swaps, \A id \in SwapIds : SameOffer(id)
  PROVE  \A id \in SwapIds : SameLock(id)
BY DEF SameLock, Remaining

LEMMA NoLockTouched ==
  ASSUME lockedHolds' = lockedHolds, NEW ids, NEW now
  PROVE  LocksKept(ids, now)
BY DEF LocksKept

LEMMA LocksType ==
  ASSUME Before
  PROVE  lockedHolds \in [Users -> SUBSET InstanceHolds]
BY DEF Before, InstanceInv, TypeOK

\* Locks stay, and some that have expired may go.
LEMMA UnexpiredKept ==
  ASSUME NEW u, NEW now
  PROVE  /\ UnexpiredLockedHolds(u, now) \subseteq lockedHolds[u]
         /\ \A h \in lockedHolds[u] : ~IsExpired(h, now) => h \in UnexpiredLockedHolds(u, now)
         /\ \A h \in UnexpiredLockedHolds(u, now) : ~IsExpired(h, now)
BY DEF UnexpiredLockedHolds

LEMMA TokenCallLocked ==
  ASSUME Before, InstancesHeld, NEW u \in Users, NEW now \in Times, TokenCall(u, now)
  PROVE  InstancesHeld'
<1>0. lockedHolds \in [Users -> SUBSET InstanceHolds]
  BY LocksType
<1>1. ASSUME lockedHolds' = lockedHolds, Called(now), swaps' = swaps, \A id \in SwapIds : SameOffer(id),
             \A id \in SwapIds : fate'[id] = "held" => fate[id] = "held"
      PROVE  InstancesHeld'
  <2>1. LocksKept({}, now) /\ \A id \in SwapIds : SameLock(id)
    BY <1>1, NoLockTouched, SameLocks
  <2>2. QED
    BY <1>0, <1>1, <2>1, InstancesHeldNext
<1>2. CASE (Mint(u, now) \/ \E i \in Instances : Burn(u, i, now) \/ \E to \in Users : Transfer(u, to, i, now))
           /\ UNCHANGED swapVars
  <2>1. lockedHolds' = lockedHolds /\ Called(now) /\ swaps' = swaps /\ fate' = fate
    BY <1>2 DEF Mint, Burn, Transfer, swapVars
  <2>2. QED
    BY <1>1, <2>1, SameFates
<1>3. ASSUME NEW i \in Instances, NEW expires \in LockExpiries, NEW name \in Names \ SwapIds,
             Lock(u, u, i, expires, name, None, now), UNCHANGED swapVars
      PROVE  InstancesHeld'
  <2> DEFINE lock == [instance |-> i, expires |-> expires, name |-> name, createdBy |-> u, lockAuthority |-> None]
             kept == UnexpiredLockedHolds(u, now)
  <2>1. /\ lockedHolds' = [lockedHolds EXCEPT ![u] = kept \cup {lock}]
        /\ Called(now) /\ swaps' = swaps /\ fate' = fate
    BY <1>3 DEF Lock, swapVars
  <2>2. lock \in InstanceHolds /\ lock.name \notin SwapIds
    BY SwapsAssumption DEF InstanceHolds
  <2> HIDE DEF lock, kept
  <2>3. kept \subseteq lockedHolds[u] /\ \A h \in lockedHolds[u] : ~IsExpired(h, now) => h \in kept
    BY UnexpiredKept DEF kept
  <2>4. lockedHolds' \in [Users -> SUBSET InstanceHolds] /\ LocksKept({}, now)
    BY <1>0, <2>1, <2>2, <2>3 DEF LocksKept
  <2>5. \A v \in Users : \A h \in lockedHolds'[v] : h \notin lockedHolds[v] => h.name \notin SwapIds
    BY <1>0, <2>1, <2>2, <2>3
  <2>6. \A id \in SwapIds : SameLock(id)
    BY <2>1, SameFates, SameLocks
  <2>7. QED
    BY <2>1, <2>4, <2>5, <2>6, SameFates, InstancesHeldNext
<1>4. ASSUME NEW i \in Instances, NEW name \in Names,
             Unlock(u, i, name, now), Released(name), UNCHANGED <<coins, swaps, fills, index>>
      PROVE  InstancesHeld'
  <2> DEFINE o == tokenOwner[i]
             kept == UnexpiredLockedHolds(o, now) \ FindLockedHold(o, i, name, now)
  <2>1. /\ o # None /\ lockedHolds' = [lockedHolds EXCEPT ![o] = kept] /\ Called(now) /\ swaps' = swaps
    BY <1>4 DEF Unlock
  <2>2. o \in Users
    BY <2>1 DEF Before, InstanceInv, TypeOK
  <2>3. kept \subseteq lockedHolds[o]
        /\ \A h \in lockedHolds[o] : h.name # name /\ ~IsExpired(h, now) => h \in kept
    BY UnexpiredKept DEF FindLockedHold
  <2> HIDE DEF kept, o
  <2>4. lockedHolds' \in [Users -> SUBSET InstanceHolds] /\ LocksKept({name}, now)
    BY <1>0, <2>1, <2>2, <2>3 DEF LocksKept
  <2>5. \A v \in Users : \A h \in lockedHolds'[v] : h \in lockedHolds[v]
    BY <1>0, <2>1, <2>2, <2>3
  <2>6. /\ \A id \in SwapIds : SameOffer(id) /\ (fate'[id] = "held" => fate[id] = "held")
        /\ name \in SwapIds => fate'[name] # "held"
    BY <1>4, <2>1, ReleasedOffers DEF Before
  <2>7. ASSUME NEW id \in SwapIds, id \in {name}, swaps'[id] # None, NEW j \in InstancesOf(swaps'[id])
        PROVE  IsOfferLocked(j, id)'
    <3>1. swaps'[id].terms.uses = 1
      BY <2>1, <2>7 DEF InstancesHeld, Written, IsOfferLocked
    <3>2. QED
      BY <2>6, <2>7, <3>1 DEF IsOfferLocked
  <2>8. QED
    BY <2>1, <2>4, <2>5, <2>6, <2>7, SameLocks, InstancesHeldNext
<1>5. ASSUME NEW f \in Fungibles, NEW q \in 1 .. CoinSupply(f), NEW to \in Users, TransferCoins(u, to, f, q, now)
      PROVE  InstancesHeld'
  <2>1. lockedHolds' = lockedHolds /\ Called(now) /\ swaps' = swaps /\ fate' = fate
    BY <1>5 DEF TransferCoins
  <2>2. QED
    BY <1>1, <2>1, SameFates
<1>6. ASSUME NEW f \in Fungibles, NEW q \in 1 .. CoinSupply(f), NEW owner \in Users, NEW id \in SwapIds,
             UnlockCoins(u, owner, f, q, id, now)
      PROVE  InstancesHeld'
  <2>1. lockedHolds' = lockedHolds /\ Called(now) /\ swaps' = swaps /\ Released(id)
    BY <1>6 DEF UnlockCoins
  <2>2. QED
    BY <1>1, <2>1, ReleasedOffers DEF Before
<1>7. QED
  BY <1>2, <1>3, <1>4, <1>5, <1>6 DEF TokenCall

LEMMA RequestLocked ==
  ASSUME Before, InstancesHeld, NEW now \in Times, NEW u \in Users, NEW to \in Users \cup {None}, NEW id \in SwapIds,
         NEW terms \in Terms, NEW expires \in Nat, RequestTokenSwap(u, to, id, terms, expires, now)
  PROVE  InstancesHeld'
<1> DEFINE swap == NewSwap(u, to, terms, expires)
           instances == DOMAIN terms.offered \cap Instances
           new == {OfferLock(u, id, i, expires) : i \in instances}
           kept == UnexpiredLockedHolds(u, now)
<1>0. lockedHolds \in [Users -> SUBSET InstanceHolds]
  BY LocksType
<1>1. /\ fate[id] = "unused" /\ Called(now)
      /\ swaps' = [swaps EXCEPT ![id] = swap] /\ fate' = [fate EXCEPT ![id] = "held"]
      /\ \A i \in instances : Offered(terms, i) = 1
      /\ lockedHolds' = IF instances = {} THEN lockedHolds
                        ELSE [lockedHolds EXCEPT ![u] = kept \cup new]
  BY DEF RequestTokenSwap
<1>2. /\ swaps'[id] = swap /\ fate'[id] = "held" /\ swaps[id] = None
      /\ \A j \in SwapIds : j # id => swaps'[j] = swaps[j] /\ fate'[j] = fate[j]
  BY <1>1 DEF Before, SwapTyped
<1>3. /\ swap # None /\ swap.terms = terms /\ swap.offeredBy = u /\ swap.expires = expires /\ swap.usesSpent = 0
  BY NewSwapType
<1>4. /\ latest' \in Nat /\ latest \in Nat /\ now \in Nat /\ latest <= latest' /\ now <= latest'
  BY <1>1, TimesGo
<1>5. id \in Names
  BY SwapsAssumption
<1>6. /\ \A i \in instances : \E h \in new : h.instance = i
      /\ \A h \in new : /\ h \in InstanceHolds /\ h.instance \in instances /\ h.name = id
                        /\ h.expires = expires
  <2>1. ASSUME NEW i \in instances
        PROVE  LET h == OfferLock(u, id, i, expires)
               IN  /\ h \in InstanceHolds /\ h.instance = i /\ h.name = id /\ h.expires = expires
                   /\ h \in new
    <3>1. i \in Instances
      OBVIOUS
    <3>2. OfferLock(u, id, i, expires) \in InstanceHolds
      BY <1>5, <3>1 DEF OfferLock, InstanceHolds
    <3>3. QED
      BY <3>2 DEF OfferLock
  <2>2. ASSUME NEW h \in new
        PROVE  \E i \in instances : h = OfferLock(u, id, i, expires)
    OBVIOUS
  <2> HIDE DEF new, instances
  <2>3. QED
    BY <2>1, <2>2
<1>7. \A i \in instances : terms.uses = 1
  <2> SUFFICES ASSUME NEW i \in instances PROVE terms.uses = 1
    OBVIOUS
  <2>1. PICK a \in Nat : a = terms.offered[i] /\ a >= 1
    BY TermsType
  <2>2. PICK n \in Nat : n = terms.uses /\ n >= 1
    BY TermsType
  <2>3. a * n = 1
    BY <1>1, <2>1, <2>2 DEF Offered, QuantityOf
  <2>4. \A x \in Nat, y \in Nat : x >= 1 /\ y >= 2 => x * y >= 2
    OBVIOUS
  <2>5. QED
    BY <2>1, <2>2, <2>3, <2>4
<1>8. kept \subseteq lockedHolds[u] /\ \A h \in lockedHolds[u] : ~IsExpired(h, now) => h \in kept
  BY UnexpiredKept
<1> HIDE DEF swap, new, kept
<1>9. LocksKept({id}, now)
  BY <1>0, <1>1, <1>8 DEF LocksKept
<1>10. ASSUME NEW v \in Users, NEW h \in lockedHolds'[v]
       PROVE  h \in SwapLocks(v)'
  <2>1. CASE h \in lockedHolds[v]
    <3>1. h \in SwapLocks(v)
      BY <2>1 DEF InstancesHeld
    <3>2. h.name \in SwapIds => h.name # id
      BY <1>1, <3>1 DEF SwapLocks, IsLocked
    <3>3. h.name \in SwapIds => SameLock(h.name)
      BY <1>2, <3>2 DEF SameLock, SameOffer, Remaining
    <3>4. QED
      BY <1>4, <3>1, <3>3, LockStays
  <2>2. CASE h \notin lockedHolds[v]
    <3>1. v = u /\ h \in new
      BY <1>0, <1>1, <1>8, <1>10, <2>2
    <3>2. h \in InstanceHolds /\ h.instance \in instances /\ h.name = id /\ h.expires = expires
      BY <1>6, <3>1
    <3>3. Remaining(swap) = 1
      BY <1>3, <1>7, <3>2 DEF Remaining
    <3>4. IsLocked(h, v)'
      BY <1>2, <1>3, <3>1, <3>2, <3>3 DEF IsLocked, Kept, Remaining
    <3>5. QED
      BY <3>2, <3>4 DEF SwapLocks
  <2>3. QED
    BY <2>1, <2>2
<1>11. ASSUME NEW j \in SwapIds, swaps'[j] # None, NEW i \in InstancesOf(swaps'[j])
       PROVE  IsOfferLocked(i, j)'
  <2>1. CASE j = id
    <3>1. i \in instances
      BY <1>2, <1>3, <1>11, <2>1 DEF InstancesOf
    <3>2. lockedHolds'[u] = kept \cup new
      BY <1>0, <1>1, <3>1
    <3>3. \E h \in lockedHolds'[u] : h.instance = i /\ h.name = id /\ h.expires = expires
      BY <1>6, <3>1, <3>2
    <3>4. QED
      BY <1>2, <1>3, <1>7, <2>1, <3>1, <3>3 DEF IsOfferLocked, HasLock
  <2>2. CASE j # id
    <3>1. swaps'[j] = swaps[j] /\ fate'[j] = fate[j] /\ swaps[j] # None /\ i \in InstancesOf(swaps[j])
      BY <1>2, <1>11, <2>2
    <3>2. j \notin {id} /\ IsOfferLocked(i, j)
      BY <2>2, <3>1 DEF InstancesHeld, Written
    <3>3. QED
      BY <1>1, <1>9, <3>1, <3>2, OfferLockStays
  <2>3. QED
    BY <2>1, <2>2
<1>12. QED
  BY <1>10, <1>11 DEF InstancesHeld, Written, InstancesOf

LEMMA FillLocked ==
  ASSUME Before, InstancesHeld, NEW now \in Times, NEW caller \in Users, NEW u \in Users, NEW id \in SwapIds,
         NEW uses \in FillUses, NEW expected, FillTokenSwap(caller, u, id, uses, expected, now)
  PROVE  InstancesHeld'
<1> DEFINE swap == swaps[id]
           filled == Filled(swap, id, u, uses, now)
           o == swap.offeredBy
           out == InstancesOf(swap)
           kept == {h \in UnexpiredLockedHolds(o, now) : ~(h.instance \in out /\ h.name = id)}
<1>0. lockedHolds \in [Users -> SUBSET InstanceHolds]
  BY LocksType
<1>1. /\ Called(now) /\ fate' = fate /\ swap # None /\ uses <= Remaining(swap)
      /\ lockedHolds' = IF out = {} THEN lockedHolds ELSE [lockedHolds EXCEPT ![o] = kept]
  BY DEF FillTokenSwap, CanFill, MoveInstances, InstancesOf
<1>2. o \in Users
  BY <1>1, SwapType DEF Before
<1>3. /\ swaps' = [swaps EXCEPT ![id] = filled] /\ filled \in TokenSwapRequests
      /\ filled.terms = swap.terms /\ filled.offeredBy = o /\ filled.expires = swap.expires
      /\ filled.usesSpent = swap.usesSpent + uses /\ filled.usesSpent <= filled.terms.uses
      /\ uses \in Nat /\ uses >= 1 /\ swap.usesSpent \in Nat
  BY <1>1, FilledSwap, SwapType DEF Before
<1>4. kept \subseteq lockedHolds[o]
      /\ \A h \in lockedHolds[o] : ~IsExpired(h, now) /\ h.name # id => h \in kept
  BY UnexpiredKept
<1>5. \A h \in kept : h.instance \in out => h.name # id
  OBVIOUS
<1> HIDE DEF filled, kept, out
<1>6. /\ swaps'[id] = filled /\ filled # None
      /\ \A j \in SwapIds : j # id => swaps'[j] = swaps[j]
  BY <1>3, SwapRequestsAssumption DEF Before, SwapTyped
<1>7. lockedHolds' \in [Users -> SUBSET InstanceHolds] /\ LocksKept({id}, now)
  BY <1>0, <1>1, <1>2, <1>4 DEF LocksKept
<1>8. \A v \in Users : \A h \in lockedHolds'[v] : h \in lockedHolds[v]
  BY <1>0, <1>1, <1>2, <1>4
<1>9. ASSUME NEW i \in out PROVE swap.terms.uses = 1 /\ Remaining(filled) = 0
  <2>1. swap.terms.uses = 1
    BY <1>1, <1>9 DEF InstancesHeld, Written, IsOfferLocked, out
  <2>2. QED
    BY <1>1, <1>3, <2>1 DEF Remaining
<1>10. ASSUME NEW v \in Users, NEW h \in lockedHolds'[v], h.name \in SwapIds
       PROVE  SameLock(h.name)
  <2>1. CASE h.name = id
    <3>1. h \in lockedHolds[v] /\ IsLocked(h, v) /\ h.instance \in Instances
      BY <1>8, <1>10, LockFields DEF InstancesHeld, SwapLocks, Before
    <3>2. v = o /\ h.instance \in out
      BY <1>1, <2>1, <3>1 DEF IsLocked, out, InstancesOf
    <3>3. h \in kept
      BY <1>0, <1>1, <1>2, <1>10, <3>2
    <3>4. QED
      BY <1>5, <2>1, <3>2, <3>3
  <2>2. CASE h.name # id
    BY <1>1, <1>6, <1>10, <2>2 DEF SameLock, SameOffer, Remaining
  <2>3. QED
    BY <2>1, <2>2
<1>11. ASSUME NEW j \in SwapIds, j \in {id}, swaps'[j] # None, NEW i \in InstancesOf(swaps'[j])
       PROVE  IsOfferLocked(i, j)'
  <2>1. j = id /\ swaps'[j] = filled /\ i \in out
    BY <1>3, <1>6, <1>11 DEF InstancesOf, out
  <2>2. filled.terms.uses = 1 /\ Remaining(filled) = 0
    BY <1>3, <1>9, <2>1
  <2>3. QED
    BY <2>1, <2>2 DEF IsOfferLocked, Remaining
<1>12. QED
  BY <1>1, <1>6, <1>7, <1>8, <1>10, <1>11, InstancesHeldNext

LEMMA TerminateLocked ==
  ASSUME Before, InstancesHeld, NEW now \in Times, NEW caller \in Users, NEW id \in SwapIds,
         TerminateTokenSwap(caller, id, now)
  PROVE  InstancesHeld'
<1> DEFINE swap == swaps[id]
           ended == [swap EXCEPT !.expires = now]
           o == swap.offeredBy
           out == InstancesOf(swap)
           Found(u) == \E i \in out : tokenOwner[i] = u /\ FindLockedHold(u, i, id, now) # {}
           Left(u) == {h \in UnexpiredLockedHolds(u, now) : ~(h.instance \in out /\ h.name = id)}
<1>0. lockedHolds \in [Users -> SUBSET InstanceHolds]
  BY LocksType
<1>1. /\ Called(now) /\ fate' = [fate EXCEPT ![id] = "terminated"] /\ ~SwapIsExpired(swap, now) /\ swap # None
      /\ lockedHolds' = [u \in Users |-> IF Found(u) THEN Left(u) ELSE lockedHolds[u]]
  BY DEF TerminateTokenSwap, UnlockOffer, InstancesOf
<1>2. /\ latest' \in Nat /\ latest \in Nat /\ now \in Nat /\ latest <= latest' /\ now <= latest'
      /\ latest' \in Times \cup {0} /\ now \in Times
  BY <1>1, TimesGo, LatestGrows DEF Before, InstanceInv
<1>3. /\ swaps' = [swaps EXCEPT ![id] = ended] /\ ended \in TokenSwapRequests
      /\ ended.terms = swap.terms /\ ended.offeredBy = o /\ ended.usesSpent = swap.usesSpent
  BY <1>1, TerminatedSwap DEF Before
<1>4. \A u \in Users : /\ Left(u) \subseteq lockedHolds[u]
                       /\ \A h \in lockedHolds[u] : ~IsExpired(h, now) /\ h.name # id => h \in Left(u)
                       /\ \A h \in Left(u) : h.instance \in out => h.name # id
  BY UnexpiredKept
<1>f. ASSUME NEW u \in Users, NEW h \in lockedHolds[u], h.instance \in out, h.name = id, ~IsExpired(h, now),
             tokenOwner[h.instance] = u
      PROVE  Found(u)
  <2>1. h \in FindLockedHold(u, h.instance, id, now)
    BY <1>f DEF FindLockedHold, UnexpiredLockedHolds
  <2>2. QED
    BY <1>f, <2>1
<1> HIDE DEF ended, out, Found, Left
<1>5. o \in Users
  BY <1>1, SwapType DEF Before
<1>6. /\ swaps'[id] = ended /\ fate'[id] = "terminated"
      /\ \A j \in SwapIds : j # id => swaps'[j] = swaps[j] /\ fate'[j] = fate[j]
  BY <1>1, <1>3 DEF Before, SwapTyped
<1>7. LocksKept({id}, now)
  BY <1>0, <1>1, <1>4 DEF LocksKept
<1>8. ASSUME NEW v \in Users, NEW h \in lockedHolds'[v]
      PROVE  h \in SwapLocks(v)'
  <2>1. h \in lockedHolds[v] /\ h \in SwapLocks(v) /\ h \in InstanceHolds /\ h.expires \in Nat
        /\ h.instance \in Instances
    <3>1. h \in lockedHolds[v]
      BY <1>0, <1>1, <1>4, <1>8
    <3>2. QED
      BY <3>1, LockFields DEF InstancesHeld, Before
  <2>2. CASE h.name \in SwapIds => h.name # id
    <3>1. h.name \in SwapIds => SameLock(h.name)
      BY <1>6, <2>2 DEF SameLock, SameOffer, Remaining
    <3>2. QED
      BY <1>2, <2>1, <3>1, LockStays
  <2>3. CASE h.name = id
    <3>1. IsLocked(h, v)
      BY <2>1, <2>3 DEF SwapLocks
    <3>2. v = o /\ h.instance \in out /\ (Gone(h) \/ h.expires = swap.expires)
      BY <1>1, <2>1, <2>3, <3>1 DEF IsLocked, out, InstancesOf
    <3>3. SwapIsExpired(h, latest')
      <4>1. CASE Gone(h)
        BY <1>2, <2>1, <4>1, TimesTell DEF Gone
      <4>2. CASE h.expires = swap.expires /\ ~SwapIsExpired(h, latest')
        <5>1. ~IsExpired(h, now) /\ ~IsExpired(h, latest')
          BY <1>2, <2>1, <4>2, TimesTell
        <5>2. latest' \in Times
          BY <1>1, <1>2 DEF Called
        <5>3. h.instance \in instanceIds[o]
          BY <1>2, <1>5, <2>1, <3>2, <5>1, <5>2 DEF Before, InstanceInv, LockedIsThere, UnexpiredLockedHolds
        <5>4. tokenOwner[h.instance] = o
          BY <1>5, <2>1, <5>3 DEF Before, InstanceInv, OwnershipAgrees
        <5>5. Found(o)
          BY <1>5, <1>f, <2>1, <2>3, <3>2, <5>1, <5>4
        <5>6. h \in Left(o)
          BY <1>1, <1>5, <1>8, <3>2, <5>5
        <5>7. QED
          BY <1>4, <1>5, <2>3, <3>2, <5>6
      <4>3. QED
        BY <3>2, <4>1, <4>2
    <3>4. IsLocked(h, v)'
      BY <1>1, <1>3, <1>6, <2>3, <3>2, <3>3 DEF IsLocked, Gone, out, InstancesOf
    <3>5. QED
      BY <2>1, <3>4 DEF SwapLocks
  <2>4. QED
    BY <2>2, <2>3
<1>9. ASSUME NEW j \in SwapIds, swaps'[j] # None, NEW i \in InstancesOf(swaps'[j])
      PROVE  IsOfferLocked(i, j)'
  <2>1. CASE j = id
    <3>1. i \in out
      BY <1>3, <1>6, <1>9, <2>1 DEF InstancesOf, out
    <3>2. ended.terms.uses = 1
      BY <1>1, <1>3, <3>1 DEF InstancesHeld, Written, IsOfferLocked, out
    <3>3. QED
      BY <1>6, <2>1, <3>2 DEF IsOfferLocked
  <2>2. CASE j # id
    <3>1. swaps'[j] = swaps[j] /\ fate'[j] = fate[j] /\ swaps[j] # None /\ i \in InstancesOf(swaps[j])
      BY <1>6, <1>9, <2>2
    <3>2. j \notin {id} /\ IsOfferLocked(i, j)
      BY <2>2, <3>1 DEF InstancesHeld, Written
    <3>3. QED
      BY <1>1, <1>7, <3>1, <3>2, OfferLockStays
  <2>3. QED
    BY <2>1, <2>2
<1>10. QED
  BY <1>8, <1>9 DEF InstancesHeld, Written, InstancesOf

LEMMA CleanLocked ==
  ASSUME Before, InstancesHeld, NEW now \in Times, NEW ids \in SUBSET SwapIds, CleanTokenSwaps(ids, now)
  PROVE  InstancesHeld'
<1> DEFINE over == {id \in ids : CanClean(swaps[id], now)}
<1>1. /\ Called(now) /\ lockedHolds' = lockedHolds /\ fate' = fate
      /\ swaps' = [id \in SwapIds |-> IF id \in over THEN None ELSE swaps[id]]
      /\ \A id \in over : swaps[id] # None /\ CanClean(swaps[id], now)
  BY DEF CleanTokenSwaps
<1>2. /\ latest' \in Nat /\ latest \in Nat /\ now \in Nat /\ latest <= latest' /\ now <= latest'
  BY <1>1, TimesGo
<1> HIDE DEF over
<1>3. ASSUME NEW v \in Users, NEW h \in lockedHolds[v]
      PROVE  h \in SwapLocks(v)'
  <2>1. h \in SwapLocks(v) /\ h \in InstanceHolds /\ h.expires \in Nat
    BY <1>3, LockFields DEF InstancesHeld, Before
  <2>2. CASE h.name \notin SwapIds \/ h.name \notin over
    <3>1. h.name \in SwapIds => SameLock(h.name)
      BY <1>1, <2>2 DEF SameLock, SameOffer, Remaining
    <3>2. QED
      BY <1>2, <2>1, <3>1, LockStays
  <2>3. CASE h.name \in SwapIds /\ h.name \in over
    <3> DEFINE swap == swaps[h.name]
    <3>1. IsLocked(h, v) /\ swap # None /\ CanClean(swap, now)
      BY <1>1, <2>1, <2>3 DEF SwapLocks
    <3>2. fate[h.name] # "unused" /\ (Gone(h) \/ (Remaining(swap) # 0 /\ h.expires = swap.expires))
      BY <3>1 DEF IsLocked
    <3>3. ASSUME CleanedWhenSpent PROVE SwapIsExpired(h, latest')
      <4>1. CASE Gone(h)
        BY <1>2, <2>1, <4>1, TimesTell DEF Gone
      <4>2. CASE Remaining(swap) # 0 /\ h.expires = swap.expires
        <5>1. /\ swap.terms \in Terms \cup OldTerms /\ swap.usesSpent \in Nat /\ swap.terms.uses \in Nat
              /\ swap.usesSpent <= swap.terms.uses
          BY <2>3, <3>1, SwapType, TermsType DEF Before, SwapTyped
        <5>2. swap.usesSpent \in 0 .. swap.terms.uses /\ swap.usesSpent # swap.terms.uses
          BY <4>2, <5>1 DEF Remaining
        <5>3. SwapIsExpired(swap, now)
          BY <3>1, <3>3, <5>1, <5>2 DEF CanClean, CleanedWhenSpent
        <5>4. SwapIsExpired(h, now)
          BY <4>2, <5>3 DEF SwapIsExpired
        <5>5. QED
          BY <1>2, <2>1, <5>4, TimesTell
      <4>3. QED
        BY <3>2, <4>1, <4>2
    <3>4. IsLocked(h, v)'
      <4>1. swaps'[h.name] = None /\ fate'[h.name] # "unused"
        BY <1>1, <2>3, <3>2
      <4>2. (CleanedWhenSpent => Gone(h))'
        BY <3>3 DEF Gone, CleanedWhenSpent
      <4>3. QED
        BY <4>1, <4>2 DEF IsLocked
    <3>5. QED
      BY <2>1, <3>4 DEF SwapLocks
  <2>4. QED
    BY <2>2, <2>3
<1>4. ASSUME NEW j \in SwapIds, swaps'[j] # None, NEW i \in InstancesOf(swaps'[j])
      PROVE  IsOfferLocked(i, j)'
  <2>1. swaps'[j] = swaps[j] /\ fate'[j] = fate[j] /\ swaps[j] # None /\ i \in InstancesOf(swaps[j])
    BY <1>1, <1>4
  <2>2. LocksKept({}, now) /\ j \notin {} /\ IsOfferLocked(i, j)
    BY <1>1, <2>1, NoLockTouched DEF InstancesHeld, Written
  <2>3. QED
    BY <1>1, <2>1, <2>2, OfferLockStays
<1>5. QED
  BY <1>1, <1>3, <1>4 DEF InstancesHeld, Written, InstancesOf

LEMMA NextLocked ==
  ASSUME Before, InstancesHeld, [SwapNext]_allVars
  PROVE  InstancesHeld'
<1>1. CASE UNCHANGED allVars
  <2>1. lockedHolds' = lockedHolds /\ swaps' = swaps /\ fate' = fate /\ latest' = latest
    BY <1>1 DEF allVars, swapVars, vars
  <2>2. QED
    BY <2>1
    DEF InstancesHeld, Written, InstancesOf, SwapLocks, IsLocked, IsOfferLocked, HasLock, CleanedWhenSpent, Gone, Remaining
<1>2. ASSUME NEW now \in Times, NEW u \in Users, SwapCall(u, now)
      PROVE  InstancesHeld'
  <2>1. ASSUME NEW id \in SwapIds, NEW dto \in RequestTokenSwapDtos,
               RequestTokenSwap(u, dto.offeredTo, id, dto.terms, dto.expires, now)
        PROVE  InstancesHeld'
    <3>1. dto.offeredTo \in Users \cup {None} /\ dto.terms \in Terms /\ dto.expires \in Nat
      BY SwapsAssumption DEF RequestTokenSwapDtos
    <3>2. QED
      BY <2>1, <3>1, RequestLocked
  <2>2. ASSUME NEW dto \in FillTokenSwapDtos,
               FillTokenSwap(u, dto.filledBy, dto.swapRequestId, dto.uses, dto.expected, now)
        PROVE  InstancesHeld'
    <3>1. dto.filledBy \in Users /\ dto.swapRequestId \in SwapIds /\ dto.uses \in FillUses
      BY DEF FillTokenSwapDtos
    <3>2. QED
      BY <2>2, <3>1, FillLocked
  <2>3. QED
    BY <1>2, <2>1, <2>2, TerminateLocked DEF SwapCall
<1>3. ASSUME NEW now \in Times, CuratorCall(now)
      PROVE  InstancesHeld'
  <2>1. ASSUME NEW ids \in SUBSET SwapIds, EnsureTokenSwapIndexing(ids, now)
        PROVE  InstancesHeld'
    <3>1. Called(now) /\ lockedHolds' = lockedHolds /\ swaps' = swaps /\ fate' = fate
      BY <2>1 DEF EnsureTokenSwapIndexing
    <3>2. LocksKept({}, now) /\ \A id \in SwapIds : SameLock(id)
      BY <3>1, NoLockTouched, SameFates, SameLocks
    <3>3. QED
      BY <3>1, <3>2, SameFates, LocksType, InstancesHeldNext
  <2>2. QED
    BY <1>3, <2>1, CleanLocked DEF CuratorCall
<1>4. QED
  BY <1>1, <1>2, <1>3, TokenCallLocked DEF SwapNext

-----------------------------------------------------------------------------
(***************************************************************************)
(* What the offers say of the holds at a time, and the theorems.           *)
(***************************************************************************)
OffersHeld == Before /\ CoinsHeld /\ InstancesHeld

LEMMA StartHeld ==
  ASSUME SwapInit
  PROVE  OffersHeld
<1>1. Before /\ lockedHolds = [u \in Users |-> {}] /\ (NoSwaps \/ \E old : OneOldSwap(old))
  BY SwapsStart
<1>2. \A u \in Users : lockedHolds[u] \in SUBSET SwapLocks(u)
  BY <1>1
<1>3. CASE NoSwaps
  <2>1. ASSUME NEW f \in Fungibles, NEW u \in Users
        PROVE  coins[f][u].holds \in Seq(SwapHolds(f, u))
    <3>1. coins[f][u].holds = << >>
      BY <1>3 DEF NoSwaps
    <3>2. QED
      BY <3>1
  <2>2. Written = {}
    BY <1>3 DEF NoSwaps, Written
  <2>3. QED
    BY <1>1, <1>2, <2>1, <2>2 DEF OffersHeld, CoinsHeld, InstancesHeld
<1>4. ASSUME NEW old, OneOldSwap(old)
      PROVE  OffersHeld
  <2> DEFINE o == old.offeredBy
             terms == old.terms
             swap == NewSwap(o, None, terms, 0)
             Hold(f) == OfferHold(o, old.id, terms, f, 0)
  <2>1. old \in OldSwaps /\ old.id \in SwapIds /\ o \in Users /\ terms \in Terms \cup OldTerms
    BY <1>4 DEF OneOldSwap
  <2>2. /\ swaps[old.id] = swap /\ fate[old.id] = "held"
        /\ \A id \in SwapIds : id # old.id => swaps[id] = None /\ fate[id] = "unused"
    BY <1>4 DEF OneOldSwap
  <2>3. /\ swap # None /\ swap.terms = terms /\ swap.offeredBy = o /\ swap.expires = 0 /\ swap.usesSpent = 0
    BY <2>1, NewSwapType
  <2>4. terms.uses \in Nat /\ Remaining(swap) = terms.uses
    BY <2>1, <2>3, TermsType DEF Remaining
  <2>5. ASSUME NEW f \in Fungibles, NEW u \in Users
        PROVE  coins[f][u].holds \in Seq(SwapHolds(f, u))
    <3>1. CASE f \in DOMAIN terms.offered /\ u = o
      <4>1. coins[f][u].holds = <<Hold(f)>>
        BY <1>4, <3>1 DEF OneOldSwap
      <4>2. Hold(f) \in PlainHolds /\ Hold(f).name = old.id /\ Hold(f).expires = 0
        BY <2>1, <3>1, OfferHoldType
      <4>3. ASSUME NEW h, h = Hold(f) PROVE h \in SwapHolds(f, u)
        <5>1. h \in PlainHolds /\ h.name = old.id /\ h.expires = 0
          BY <4>2, <4>3
        <5>2. IsOffered(h, f, u)
          BY <2>2, <2>3, <3>1, <5>1 DEF IsOffered, Kept
        <5>3. QED
          BY <5>1, <5>2 DEF SwapHolds
      <4>4. QED
        BY <4>1, <4>3
    <3>2. CASE ~(f \in DOMAIN terms.offered /\ u = o)
      <4>1. coins[f][u].holds = << >>
        BY <1>4, <3>2 DEF OneOldSwap
      <4>2. QED
        BY <4>1
    <3>3. QED
      BY <3>1, <3>2
  <2>6. ASSUME NEW f \in DOMAIN terms.offered, f \in Fungibles
        PROVE  QuantityNamed(coins[f][o].holds, old.id) = QuantityOf(terms.offered, f, terms.uses)
    BY <1>4, <2>1, <2>6 DEF OneOldSwap
  <2>7. ASSUME NEW f \in DOMAIN terms.offered
        PROVE  f \in Fungibles /\ f \notin Instances /\ QuantityOf(terms.offered, f, terms.uses) \in Nat
    BY <2>1, <2>4, <2>7, OldSwapsAssumption, TokensAssumption, TermsType, QuantityType
  <2> HIDE DEF swap, Hold, o, terms
  <2>8. ASSUME NEW id \in Written, NEW f \in CoinsOf(swaps[id]) PROVE IsHeld(f, id)
    <3>1. id = old.id /\ f \in DOMAIN terms.offered
      BY <2>2, <2>3 DEF Written, CoinsOf
    <3>2. QED
      BY <2>2, <2>3, <2>4, <2>6, <2>7, <3>1 DEF IsHeld
  <2>9. ASSUME NEW id \in Written, NEW i \in InstancesOf(swaps[id]) PROVE IsOfferLocked(i, id)
    <3>1. id = old.id /\ i \in DOMAIN terms.offered /\ i \in Instances
      BY <2>2, <2>3 DEF Written, InstancesOf
    <3>2. QED
      BY <2>7, <3>1
  <2>10. QED
    BY <1>1, <1>2, <2>5, <2>8, <2>9 DEF OffersHeld, CoinsHeld, InstancesHeld
<1>5. QED
  BY <1>1, <1>3, <1>4

LEMMA AlwaysHeld == SwapSpec => []OffersHeld
<1>1. SwapInit => OffersHeld
  BY StartHeld
<1>2. OffersHeld /\ [SwapNext]_allVars => OffersHeld'
  BY NextTypes, NextHeld, NextLocked DEF OffersHeld
<1>3. QED
  BY <1>1, <1>2, PTL DEF SwapSpec

\* What is held is what has the name, where nothing of the name has expired, and nothing, where all of it has.
LEMMA HeldIsNamed ==
  ASSUME NEW f, NEW u, NEW id, NEW t, NEW H, H \subseteq AllHolds, coins[f][u].holds \in Seq(H)
  PROVE  /\ Fresh(H, id, t) => HeldQuantity(f, u, id, t) = QuantityNamed(coins[f][u].holds, id)
         /\ (\A h \in H : h.name = id => IsExpired(h, t)) => HeldQuantity(f, u, id, t) = 0
<1> DEFINE holds == coins[f][u].holds
           n == Len(holds)
           held == [k \in DOMAIN holds |->
                      IF holds[k].name = id /\ ~IsExpired(holds[k], t) THEN holds[k].quantity ELSE 0]
           named == [k \in DOMAIN holds |-> IF holds[k].name = id THEN holds[k].quantity ELSE 0]
<1>1. DOMAIN holds = 1 .. n /\ n \in Nat /\ \A k \in 1 .. n : holds[k] \in H
  OBVIOUS
<1>2. HeldQuantity(f, u, id, t) = SumFunction(held) /\ QuantityNamed(holds, id) = SumFunction(named)
  BY DEF HeldQuantity, QuantityNamed
<1>3. ASSUME Fresh(H, id, t) PROVE held = named
  BY <1>1, <1>3 DEF Fresh
<1>4. ASSUME \A h \in H : h.name = id => IsExpired(h, t)
      PROVE  SumFunction(held) = 0
  <2>1. DOMAIN held = 1 .. n /\ \A k \in 1 .. n : held[k] = 0
    BY <1>1, <1>4
  <2> HIDE DEF held, n, holds
  <2>2. IsFiniteSet(1 .. n)
    BY <1>1, FS_Interval
  <2>3. Summable(held, 1 .. n)
    BY <2>1, <2>2 DEF Summable
  <2>4. QED
    BY <2>1, <2>3, SumOfZeros DEF SumFunction
<1>5. QED
  BY <1>2, <1>3, <1>4

\* The offer of a swap that can be filled at a time.
LEMMA OfferAt ==
  ASSUME OffersHeld, NEW id \in Written, NEW t \in Times, t >= latest, fate[id] = "held",
         ~SwapIsExpired(swaps[id], t), NEW token \in DOMAIN swaps[id].terms.offered
  PROVE  LET swap == swaps[id]
         IN  IF token \in Fungibles
             THEN HeldQuantity(token, swap.offeredBy, id, t) = QuantityOf(swap.terms.offered, token, Remaining(swap))
             ELSE \/ Remaining(swap) = 0
                  \/ /\ token \in instanceIds[swap.offeredBy]
                     /\ FindLockedHold(swap.offeredBy, token, id, t) # {}
<1> DEFINE swap == swaps[id]
           o == swap.offeredBy
<1>1. id \in SwapIds /\ swap # None /\ Before /\ CoinsHeld /\ InstancesHeld
  BY DEF Written, OffersHeld
<1>2. o \in Users /\ swap.expires \in Nat /\ swap.terms \in Terms \cup OldTerms
  BY <1>1, SwapType DEF Before
<1>3. t \in Nat /\ latest \in Nat
  BY <1>1, NumbersAssumption DEF Before, InstanceInv, TypeOK
<1>4. ~Gone(swap)
  BY <1>2, <1>3, TimesTell DEF Gone
<1>5. CASE token \in Fungibles
  <2> DEFINE H == SwapHolds(token, o)
  <2>1. coins[token][o].holds \in Seq(H) /\ H \subseteq AllHolds
    BY <1>1, <1>2, <1>5, SwapHoldsKind DEF CoinsHeld
  <2>2. Fresh(H, id, t)
    BY <1>1, <1>3, FreshOffer
  <2>3. IsHeld(token, id)
    BY <1>1, <1>5 DEF CoinsHeld, CoinsOf
  <2>4. QuantityNamed(coins[token][o].holds, id) = QuantityOf(swap.terms.offered, token, Remaining(swap))
    BY <1>4, <2>3 DEF IsHeld
  <2> HIDE DEF H
  <2>5. HeldQuantity(token, o, id, t) = QuantityNamed(coins[token][o].holds, id)
    BY <2>1, <2>2, HeldIsNamed
  <2>6. QED
    BY <1>5, <2>4, <2>5
<1>6. CASE token \notin Fungibles
  <2>1. token \in InstancesOf(swap)
    BY <1>2, <1>6, TermsType DEF Tokens, InstancesOf
  <2>2. IsOfferLocked(token, id)
    BY <1>1, <2>1 DEF InstancesHeld
  <2>3. ASSUME Remaining(swap) # 0
        PROVE  token \in instanceIds[o] /\ FindLockedHold(o, token, id, t) # {}
    <3>1. HasLock(token, id)
      BY <1>4, <2>2, <2>3 DEF IsOfferLocked
    <3>2. PICK h \in lockedHolds[o] : h.instance = token /\ h.name = id /\ h.expires = swap.expires
      BY <3>1 DEF HasLock
    <3>3. ~IsExpired(h, t)
      BY <1>2, <1>3, <3>2 DEF IsExpired, SwapIsExpired
    <3>4. h \in UnexpiredLockedHolds(o, t)
      BY <3>2, <3>3 DEF UnexpiredLockedHolds
    <3>5. LockedIsThere
      BY <1>1 DEF Before, InstanceInv
    <3>6. h.instance \in instanceIds[o]
      BY <1>2, <3>4, <3>5 DEF LockedIsThere
    <3>7. QED
      BY <3>2, <3>4, <3>6 DEF FindLockedHold
  <2>4. QED
    BY <1>6, <2>3
<1>7. QED
  BY <1>5, <1>6

(***************************************************************************)
(* A swap that can be filled has its offer: from the latest transaction on *)
(* what requestTokenSwap locked for the uses that remain is held under the *)
(* id of the swap, whatever is filled, terminated, cleaned, transferred,   *)
(* locked and unlocked in between, unless the locks of this swap are       *)
(* released by unlockToken.                                                *)
(***************************************************************************)
THEOREM OffersAlwaysHeld == SwapSpec => []OfferIsHeld
<1>1. OffersHeld => OfferIsHeld
  BY OfferAt DEF OfferIsHeld
<1>2. QED
  BY <1>1, AlwaysHeld, PTL

\* The holds of a swap that is over.
LEMMA OverAt ==
  ASSUME CleanedWhenSpent, OffersHeld, NEW id \in SwapIds, NEW u \in Users, NEW t \in Times, t > latest, IsOver(id)
  PROVE  /\ \A f \in Fungibles : HeldQuantity(f, u, id, t) = 0
         /\ \A h \in UnexpiredLockedHolds(u, t) : h.name # id
<1> DEFINE swap == swaps[id]
<1>1. Before /\ CoinsHeld /\ InstancesHeld
  BY DEF OffersHeld
<1>2. t \in Nat /\ latest \in Nat
  BY <1>1, NumbersAssumption DEF Before, InstanceInv, TypeOK
<1>3. ASSUME NEW f \in Fungibles
      PROVE  HeldQuantity(f, u, id, t) = 0
  <2> DEFINE holds == coins[f][u].holds
             H == SwapHolds(f, u)
             rest == {h \in H : h.name # id}
  <2>1. holds \in Seq(H) /\ H \subseteq AllHolds /\ H \subseteq PlainHolds
    BY <1>1, SwapHoldsKind DEF CoinsHeld
  <2>2. ASSUME NEW h \in H, h.name = id, swap = None
        PROVE  IsExpired(h, t)
    <3>1. Gone(h) /\ h.expires \in Nat
      BY <2>1, <2>2, HoldFields DEF SwapHolds, IsOffered
    <3>2. QED
      BY <1>2, <3>1, TimesTell DEF Gone
  <2>3. ASSUME NEW h \in H, h.name = id, swap # None
        PROVE  fate[id] \in Kept /\ swap.offeredBy = u /\ f \in DOMAIN swap.terms.offered
    BY <2>3 DEF SwapHolds, IsOffered
  <2>4. ASSUME swap # None, fate[id] \in Kept, swap.offeredBy = u, f \in DOMAIN swap.terms.offered
        PROVE  holds \in Seq(rest)
    <3>1. Remaining(swap) = 0
      BY <2>4 DEF IsOver, Kept
    <3>2. swap.terms \in Terms \cup OldTerms
      BY <1>1, <2>4, SwapType DEF Before
    <3>3. QuantityOf(swap.terms.offered, f, Remaining(swap)) = 0
      BY <2>4, <3>1, <3>2, TermsType, QuantityType
    <3>4. QuantityNamed(holds, id) <= 0
      <4>1. IsHeld(f, id)
        BY <1>1, <2>4 DEF CoinsHeld, Written, CoinsOf
      <4>2. QED
        BY <2>4, <3>3, <4>1 DEF IsHeld
    <3> HIDE DEF holds, H
    <3>5. QuantityNamed(holds, id) \in Nat
      BY <2>1, NamedIsSum
    <3>6. QuantityNamed(holds, id) = 0
      BY <3>4, <3>5
    <3>7. QED
      BY <2>1, <3>6, NoneNamed
  <2>5. CASE swap = None
    <3> HIDE DEF H
    <3>1. QED
      BY <2>1, <2>2, <2>5, HeldIsNamed
  <2>6. CASE swap # None /\ fate[id] \in Kept /\ swap.offeredBy = u /\ f \in DOMAIN swap.terms.offered
    <3>1. holds \in Seq(rest) /\ rest \subseteq AllHolds /\ \A h \in rest : h.name # id
      BY <2>1, <2>4, <2>6
    <3> HIDE DEF rest
    <3>2. QED
      BY <3>1, HeldIsNamed
  <2>7. CASE swap # None /\ ~(fate[id] \in Kept /\ swap.offeredBy = u /\ f \in DOMAIN swap.terms.offered)
    <3>1. \A h \in H : h.name # id
      BY <2>3, <2>7
    <3> HIDE DEF H
    <3>2. QED
      BY <2>1, <3>1, HeldIsNamed
  <2>8. QED
    BY <2>5, <2>6, <2>7
<1>4. ASSUME NEW h \in UnexpiredLockedHolds(u, t), h.name = id
      PROVE  FALSE
  <2>1. h \in lockedHolds[u] /\ ~IsExpired(h, t)
    BY DEF UnexpiredLockedHolds
  <2>2. IsLocked(h, u) /\ h.expires \in Nat
    BY <1>1, <1>4, <2>1, LockFields DEF InstancesHeld, SwapLocks, Before
  <2>3. ~Gone(h)
    BY <1>2, <2>1, <2>2, TimesTell DEF Gone
  <2>4. swap # None /\ fate[id] \in Kept /\ Remaining(swap) # 0
    BY <1>4, <2>2, <2>3 DEF IsLocked
  <2>5. QED
    BY <2>4 DEF IsOver, Kept
<1>5. QED
  BY <1>3, <1>4

(***************************************************************************)
(* A swap that is filled for all its uses, terminated by                   *)
(* terminateTokenSwap, or deleted by cleanTokenSwaps has nothing locked    *)
(* under its id after the latest transaction, in no balance, where the     *)
(* comparison in cleanTokenSwaps of uses and usesSpent, as strings, takes  *)
(* no swap with uses left for one that is spent.                           *)
(***************************************************************************)
THEOREM OverAlwaysFree ==
  ASSUME CleanedWhenSpent
  PROVE  SwapSpec => []OverIsFree
<1>1. OffersHeld => OverIsFree
  BY OverAt DEF OverIsFree
<1>2. QED
  BY <1>1, AlwaysHeld, PTL

(***************************************************************************)
(* The strings of uses and usesSpent are in the order of the numbers as    *)
(* long as a swap has less than ten uses.                                  *)
(***************************************************************************)
LEMMA FewUsesAreCompared ==
  ASSUME \A terms \in Terms \cup OldTerms : terms.uses < 10
  PROVE  CleanedWhenSpent
<1> SUFFICES ASSUME NEW terms \in Terms \cup OldTerms, NEW spent \in 0 .. terms.uses, StringLeq(terms.uses, spent)
             PROVE  spent = terms.uses
  BY DEF CleanedWhenSpent
<1>1. PICK n \in Nat : n = terms.uses /\ n < 10
  BY TermsType
<1>2. spent \in Nat /\ spent <= n /\ StringLeq(n, spent)
  BY <1>1
<1>3. Digits(n) = <<n>> /\ Digits(spent) = <<spent>>
  BY <1>1, <1>2 DEF Digits
<1>4. n < spent \/ n = spent
  BY <1>1, <1>2, <1>3 DEF StringLeq
<1>5. QED
  BY <1>1, <1>2, <1>4
=============================================================================
