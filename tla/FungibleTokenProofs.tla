------------------------- MODULE FungibleTokenProofs -------------------------
(***************************************************************************)
(* Proofs about FungibleToken: the types, the conservation of tokens, and  *)
(* that what is locked is there.                                           *)
(***************************************************************************)
EXTENDS FungibleToken, TokenBalanceProofs

-----------------------------------------------------------------------------
(* Locks and unlocks of several quantities.                                *)

LEMMA LockAllStays ==
  ASSUME NEW X, NEW A, NEW balance, NEW holds \in Seq(X), NEW now,
         [isSpendable |-> TRUE, balance |-> balance] \in A,
         \A acc \in A : \A hold \in X : LockInto(acc, hold, now) \in A
  PROVE  LockAll(balance, holds, now) \in A
<1> DEFINE base == [isSpendable |-> TRUE, balance |-> balance]
           Turn(hold, acc) == LockInto(acc, hold, now)
           G == [hold \in X |-> [acc \in A |-> Turn(hold, acc)]]
           Solves(iter) == iter = [T \in SUBSET DOMAIN holds |->
                                     IF T = {} THEN base ELSE Turn(holds[Max(T)], iter[T \ {Max(T)}])]
<1>1. base \in A /\ \A hold \in X : \A acc \in A : Turn(hold, acc) \in A
  OBVIOUS
<1> HIDE DEF base, Turn
<1>2. G \in [X -> [A -> A]] /\ \A hold \in X : \A acc \in A : G[hold][acc] = Turn(hold, acc)
  BY <1>1
<1> HIDE DEF G
<1>3. Foldable(holds, X, A, base, G)
  BY <1>1, <1>2 DEF Foldable
<1>4. DOMAIN holds = 1 .. Len(holds) /\ Len(holds) \in Nat /\ \A i \in 1 .. Len(holds) : holds[i] \in X
  OBVIOUS
<1>5. ASSUME NEW T \in SUBSET DOMAIN holds, T # {} PROVE holds[Max(T)] \in X
  BY <1>4, <1>5, MaxOfIndices
<1>6. PICK it \in [SUBSET DOMAIN holds -> A] : Accumulates(it, holds, base, A, G)
  BY <1>3, AccumulatorsExist
<1>7. \E iter : Solves(iter)
  <2>1. ASSUME NEW T \in SUBSET DOMAIN holds
        PROVE  it[T] = IF T = {} THEN base ELSE Turn(holds[Max(T)], it[T \ {Max(T)}])
    <3>1. it[T] = IF T = {} THEN base ELSE G[holds[Max(T)]][it[T \ {Max(T)}]]
      BY <1>6 DEF Accumulates
    <3>2. it[T \ {Max(T)}] \in A
      BY <1>6
    <3>3. QED
      BY <1>2, <1>5, <3>1, <3>2
  <2>2. Solves(it)
    BY <1>6, <2>1
  <2>3. QED
    BY <2>2
<1> DEFINE iter == CHOOSE iter : Solves(iter)
<1>8. Solves(iter)
  BY <1>7
<1>9. LockAll(balance, holds, now) = iter[DOMAIN holds]
  BY DEF LockAll, FoldLeft, MapThenFoldSet, base, Turn
<1> HIDE DEF iter
<1>10. AccumulatesWithin(iter, holds, base, A, G)
  <2>1. iter[{}] = base
    BY <1>8
  <2>2. ASSUME NEW T \in SUBSET DOMAIN holds, T # {}, iter[T \ {Max(T)}] \in A
        PROVE  iter[T] = G[holds[Max(T)]][iter[T \ {Max(T)}]]
    <3>1. iter[T] = Turn(holds[Max(T)], iter[T \ {Max(T)}])
      BY <1>8, <2>2
    <3>2. QED
      BY <1>2, <1>5, <2>2, <3>1
  <2>3. QED
    BY <2>1, <2>2 DEF AccumulatesWithin
<1>11. QED
  BY <1>3, <1>9, <1>10, FoldStays

LEMMA UnlockAllStays ==
  ASSUME NEW X, NEW A, NEW held, NEW quantities \in Seq(X), NEW by, NEW name, NEW now,
         {held} \in A,
         \A outcomes \in A : \A t \in X : UnlockFrom(outcomes, by, t, name, now) \in A
  PROVE  UnlockAll(held, by, quantities, name, now) \in A
<1> DEFINE base == {held}
           Turn(t, outcomes) == UnlockFrom(outcomes, by, t, name, now)
           G == [t \in X |-> [outcomes \in A |-> Turn(t, outcomes)]]
           Solves(iter) == iter = [T \in SUBSET DOMAIN quantities |->
                                     IF T = {} THEN base ELSE Turn(quantities[Max(T)], iter[T \ {Max(T)}])]
<1>1. base \in A /\ \A t \in X : \A outcomes \in A : Turn(t, outcomes) \in A
  OBVIOUS
<1> HIDE DEF base, Turn
<1>2. G \in [X -> [A -> A]] /\ \A t \in X : \A outcomes \in A : G[t][outcomes] = Turn(t, outcomes)
  BY <1>1
<1> HIDE DEF G
<1>3. Foldable(quantities, X, A, base, G)
  BY <1>1, <1>2 DEF Foldable
<1>4. /\ DOMAIN quantities = 1 .. Len(quantities) /\ Len(quantities) \in Nat
      /\ \A i \in 1 .. Len(quantities) : quantities[i] \in X
  OBVIOUS
<1>5. ASSUME NEW T \in SUBSET DOMAIN quantities, T # {} PROVE quantities[Max(T)] \in X
  BY <1>4, <1>5, MaxOfIndices
<1>6. PICK it \in [SUBSET DOMAIN quantities -> A] : Accumulates(it, quantities, base, A, G)
  BY <1>3, AccumulatorsExist
<1>7. \E iter : Solves(iter)
  <2>1. ASSUME NEW T \in SUBSET DOMAIN quantities
        PROVE  it[T] = IF T = {} THEN base ELSE Turn(quantities[Max(T)], it[T \ {Max(T)}])
    <3>1. it[T] = IF T = {} THEN base ELSE G[quantities[Max(T)]][it[T \ {Max(T)}]]
      BY <1>6 DEF Accumulates
    <3>2. it[T \ {Max(T)}] \in A
      BY <1>6
    <3>3. QED
      BY <1>2, <1>5, <3>1, <3>2
  <2>2. Solves(it)
    BY <1>6, <2>1
  <2>3. QED
    BY <2>2
<1> DEFINE iter == CHOOSE iter : Solves(iter)
<1>8. Solves(iter)
  BY <1>7
<1>9. UnlockAll(held, by, quantities, name, now) = iter[DOMAIN quantities]
  BY DEF UnlockAll, FoldLeft, MapThenFoldSet, base, Turn
<1> HIDE DEF iter
<1>10. AccumulatesWithin(iter, quantities, base, A, G)
  <2>1. iter[{}] = base
    BY <1>8
  <2>2. ASSUME NEW T \in SUBSET DOMAIN quantities, T # {}, iter[T \ {Max(T)}] \in A
        PROVE  iter[T] = G[quantities[Max(T)]][iter[T \ {Max(T)}]]
    <3>1. iter[T] = Turn(quantities[Max(T)], iter[T \ {Max(T)}])
      BY <1>8, <2>2
    <3>2. QED
      BY <1>2, <1>5, <2>2, <3>1
  <2>3. QED
    BY <2>1, <2>2 DEF AccumulatesWithin
<1>11. QED
  BY <1>3, <1>9, <1>10, FoldStays

-----------------------------------------------------------------------------
(* What is held for an authority, and vests, as sums.                      *)

HeldOf(H, authority, now) ==
  [h \in H |-> IF ~IsExpired(h, now) /\ h.lockAuthority = authority /\ ~IsVesting(h)
               THEN h.quantity ELSE 0]

LEMMA HeldOfType ==
  ASSUME NEW H, H \subseteq AllHolds, NEW authority, NEW now
  PROVE  HeldOf(H, authority, now) \in [H -> Int] /\ \A h \in H : 0 <= HeldOf(H, authority, now)[h]
<1>1. \A h \in H : h.quantity \in Nat
  BY HoldFields
<1>2. QED
  BY <1>1 DEF HeldOf

LEMMA HeldIsSum ==
  ASSUME NEW H, NEW balance \in BalanceOf(H), NEW authority, NEW now
  PROVE  HeldFor(balance, authority, now) = SumOver(balance.holds, HeldOf(H, authority, now))
<1> DEFINE s == balance.holds
<1>1. \A i \in DOMAIN s : s[i] \in H
  BY DEF BalanceOf
<1>2. [i \in DOMAIN s |-> IF ~IsExpired(s[i], now) /\ s[i].lockAuthority = authority /\ ~IsVesting(s[i])
                          THEN s[i].quantity ELSE 0]
        = [i \in DOMAIN s |-> HeldOf(H, authority, now)[s[i]]]
  BY <1>1 DEF HeldOf
<1> HIDE DEF s
<1>3. QED
  BY <1>2 DEF HeldFor, SumOver, s

\* How often a hold is in a sequence tells whether it is.
Occurs(H, hold) == [h \in H |-> IF h = hold THEN 1 ELSE 0]

LEMMA OccursInSum ==
  ASSUME NEW H, NEW seq \in Seq(H), NEW hold \in H
  PROVE  /\ SumOver(seq, Occurs(H, hold)) \in Nat
         /\ hold \in ToSet(seq) <=> SumOver(seq, Occurs(H, hold)) # 0
<1> DEFINE value == Occurs(H, hold)
           s == [i \in DOMAIN seq |-> value[seq[i]]]
<1>1. value \in [H -> Int]
  BY DEF Occurs
<1>2. s \in Seq(Int) /\ DOMAIN s = DOMAIN seq /\ \A i \in DOMAIN seq : seq[i] \in H
  <2> HIDE DEF value
  <2>1. QED
    BY <1>1, SumOverSequence
<1>3. \A i \in DOMAIN s : s[i] = IF seq[i] = hold THEN 1 ELSE 0
  BY <1>2 DEF Occurs
<1>4. SumOver(seq, value) = SumFunctionOnSet(s, DOMAIN s)
  BY DEF SumOver, SumFunction
<1> HIDE DEF value, s
<1>5. Summable(s, DOMAIN s) /\ \A i \in DOMAIN s : 0 <= s[i]
  BY <1>2, <1>3, SequenceSummable
<1>6. SumOver(seq, value) \in Nat
  BY <1>4, <1>5, SumNat
<1>7. ASSUME hold \in ToSet(seq) PROVE SumOver(seq, value) # 0
  <2>1. PICK i \in DOMAIN s : s[i] = 1
    BY <1>2, <1>3, <1>7 DEF ToSet
  <2>2. SumFunctionOnSet(s, DOMAIN s) = s[i] + SumFunctionOnSet(s, DOMAIN s \ {i})
    BY <1>5, <2>1, SumRemove
  <2>3. SumFunctionOnSet(s, DOMAIN s \ {i}) \in Nat
    <3> DEFINE rest == DOMAIN s \ {i}
    <3>1. Summable(s, rest) /\ \A j \in rest : 0 <= s[j]
      BY <1>5, SummableSubset
    <3> HIDE DEF rest
    <3>2. SumFunctionOnSet(s, rest) \in Nat
      BY <3>1, SumNat
    <3>3. QED
      BY <3>2 DEF rest
  <2>4. QED
    BY <1>4, <2>1, <2>2, <2>3
<1>8. ASSUME hold \notin ToSet(seq) PROVE SumOver(seq, value) = 0
  <2>1. \A i \in DOMAIN s : s[i] = 0
    BY <1>2, <1>3, <1>8 DEF ToSet
  <2>2. SumFunctionOnSet(s, DOMAIN s) = 0
    BY <1>5, <2>1, SumOfZeros
  <2>3. QED
    BY <1>4, <2>2
<1>9. QED
  BY <1>6, <1>7, <1>8 DEF value

-----------------------------------------------------------------------------
(* What an unlock makes of a balance.                                      *)

AfterUnlock(balance, q, now, name, owner, by, order) ==
  [balance EXCEPT !.holds =
     UnlockQuantity(balance, q, now, name, owner, by, by \in Authorities, order).kept]

LEMMA UnlockType ==
  ASSUME NEW H, Kind(H), NEW balance \in BalanceOf(H), NEW q \in Nat, NEW now,
         NEW name, NEW owner, NEW by, NEW order \in VisitOrders(UnexpiredHolds(balance, now))
  PROVE  LET after == AfterUnlock(balance, q, now, name, owner, by, order)
         IN  /\ after \in BalanceOf(H) /\ after.quantity = balance.quantity
             /\ after.holds \in Seq(H) /\ balance.holds \in Seq(H)
             /\ after.holds = UnlockQuantity(balance, q, now, name, owner, by, by \in Authorities, order).kept
BY UnlockLocksLess DEF AfterUnlock

LEMMA UnlockReleases ==
  ASSUME NEW H, Kind(H), H \subseteq RegularHolds, NEW balance \in BalanceOf(H), NEW q \in Nat,
         NEW now \in Nat, NEW t \in Nat, now <= t,
         NEW name, NEW owner, NEW by, NEW order \in VisitOrders(UnexpiredHolds(balance, now))
  PROVE  LockedQuantity(AfterUnlock(balance, q, now, name, owner, by, order), t)
           <= LockedQuantity(balance, t)
BY UnlockLocksLess DEF AfterUnlock

\* Of the holds for an authority, nobody else but one of the class releases any.
LEMMA UnlockKeepsHeld ==
  ASSUME NEW H, Kind(H), NEW balance \in BalanceOf(H), NEW q \in Nat, NEW now,
         NEW name, NEW owner, NEW by, NEW order \in VisitOrders(UnexpiredHolds(balance, now)),
         NEW authority \in Users, by \notin Authorities \cup {authority}
  PROVE  HeldFor(AfterUnlock(balance, q, now, name, owner, by, order), authority, now)
           = HeldFor(balance, authority, now)
<1> DEFINE after == AfterUnlock(balance, q, now, name, owner, by, order)
           value == HeldOf(H, authority, now)
<1>1. value \in [H -> Int] /\ \A h \in H : IsExpired(h, now) => value[h] = 0
  BY HeldOfType DEF Kind, HeldOf
<1>2. Unreleased(H, value, name, owner, by, by \in Authorities)
  <2>1. ASSUME NEW h \in H, ~IsVesting(h),
               IsCallingUserAuthorized(h, name, owner, by, by \in Authorities)
        PROVE  value[h] = 0 /\ \A m \in 1 .. h.quantity : value[[h EXCEPT !.quantity = m]] = 0
    <3>1. h \in AllHolds /\ h.quantity \in Nat
      BY HoldFields DEF Kind
    <3>2. h.lockAuthority # authority
      BY <2>1, AuthoritiesAssumption DEF IsCallingUserAuthorized
    <3>3. ASSUME NEW m \in 1 .. h.quantity PROVE value[[h EXCEPT !.quantity = m]] = 0
      <4> DEFINE part == [h EXCEPT !.quantity = m]
      <4>2. part \in H
        BY DEF Kind
      <4>3. part.lockAuthority = h.lockAuthority
        BY <3>1 DEF AllHolds, Holds
      <4> HIDE DEF part
      <4>4. value[part] = 0
        BY <3>2, <4>2, <4>3 DEF HeldOf
      <4>5. QED
        BY <4>4 DEF part
    <3>4. QED
      BY <3>2, <3>3 DEF HeldOf
  <2>2. QED
    BY <2>1 DEF Unreleased
<1>3. after \in BalanceOf(H)
  BY UnlockType
<1>4. /\ HeldFor(after, authority, now) = SumOver(after.holds, value)
      /\ HeldFor(balance, authority, now) = SumOver(balance.holds, value)
  BY <1>3, HeldIsSum
<1> HIDE DEF value
<1>5. SumOver(UnexpiredHolds(balance, now), value) = SumOver(balance.holds, value)
  BY <1>1, SumOfUnexpired
<1>6. SumOver(after.holds, value) = SumOver(UnexpiredHolds(balance, now), value)
  BY <1>1, <1>2, UnlockSums, UnlockType
<1>7. QED
  BY <1>4, <1>5, <1>6

LEMMA UnlockKeepsVesting ==
  ASSUME NEW H, Kind(H), NEW balance \in BalanceOf(H), NEW q \in Nat, NEW now,
         NEW name, NEW owner, NEW by, NEW order \in VisitOrders(UnexpiredHolds(balance, now))
  PROVE  VestingHolds(balance, now)
           \subseteq VestingHolds(AfterUnlock(balance, q, now, name, owner, by, order), now)
<1> DEFINE after == AfterUnlock(balance, q, now, name, owner, by, order)
<1>1. after.holds \in Seq(H) /\ balance.holds \in Seq(H)
  BY UnlockType
<1>2. UnexpiredHolds(balance, now) \in Seq(H)
  BY UnexpiredType
<1> SUFFICES ASSUME NEW hold \in ToSet(balance.holds), ~IsExpired(hold, now), IsVesting(hold)
             PROVE  hold \in ToSet(after.holds)
  BY DEF VestingHolds
<1>3. hold \in H /\ hold \in ToSet(UnexpiredHolds(balance, now))
  BY <1>1, UnexpiredElements DEF ToSet
<1> DEFINE value == Occurs(H, hold)
<1>4. value \in [H -> Int]
  BY DEF Occurs
<1>5. Unreleased(H, value, name, owner, by, by \in Authorities)
  <2>1. ASSUME NEW h \in H, ~IsVesting(h)
        PROVE  value[h] = 0 /\ \A m \in 1 .. h.quantity : value[[h EXCEPT !.quantity = m]] = 0
    <3>1. h \in AllHolds /\ h.quantity \in Nat
      BY HoldFields DEF Kind
    <3>2. ASSUME NEW m \in 1 .. h.quantity PROVE value[[h EXCEPT !.quantity = m]] = 0
      <4> DEFINE part == [h EXCEPT !.quantity = m]
      <4>2. part \in H
        BY DEF Kind
      <4>3. ~IsVesting(part)
        BY <2>1, <3>1 DEF AllHolds, Holds, IsVesting
      <4> HIDE DEF part
      <4>4. value[part] = 0
        BY <4>2, <4>3 DEF Occurs
      <4>5. QED
        BY <4>4 DEF part
    <3>3. QED
      BY <2>1, <3>2 DEF Occurs
  <2>2. QED
    BY <2>1 DEF Unreleased
<1>6. SumOver(UnexpiredHolds(balance, now), value) # 0
  BY <1>2, <1>3, OccursInSum
<1>7. SumOver(after.holds, value) = SumOver(UnexpiredHolds(balance, now), value)
  <2> HIDE DEF value
  <2>1. QED
    BY <1>4, <1>5, UnlockSums, UnlockType
<1>8. QED
  BY <1>1, <1>3, <1>6, <1>7, OccursInSum

-----------------------------------------------------------------------------
(* What calls make of the holds of a balance.                              *)

\* Who releases holds of the balance b, so that it becomes c, may do so.
RespectsHolds(b, c, by, now) ==
  /\ \A authority \in Users :
       HeldFor(c, authority, now) < HeldFor(b, authority, now) => by \in Authorities \cup {authority}
  /\ VestingHolds(b, now) \subseteq VestingHolds(c, now)

LocksNoMore(b, c, now) ==
  \A t \in Nat : now <= t => LockedQuantity(c, t) <= LockedQuantity(b, t)

\* Only holds have changed, and only been released.
Follows(H, b, c, by, now) ==
  /\ c \in BalanceOf(H) /\ c.quantity = b.quantity
  /\ RespectsHolds(b, c, by, now)
  /\ H \subseteq RegularHolds => LocksNoMore(b, c, now)

LEMMA HeldForType ==
  ASSUME NEW H, H \subseteq AllHolds, NEW balance \in BalanceOf(H), NEW authority, NEW now
  PROVE  HeldFor(balance, authority, now) \in Int
<1> DEFINE value == HeldOf(H, authority, now)
<1>1. value \in [H -> Int] /\ HeldFor(balance, authority, now) = SumOver(balance.holds, value)
  BY HeldOfType, HeldIsSum
<1>2. balance.holds \in Seq(H)
  BY DEF BalanceOf
<1> HIDE DEF value
<1>3. QED
  BY <1>1, <1>2, SumOverType

LEMMA RespectsTransitive ==
  ASSUME NEW H, H \subseteq AllHolds, NEW b \in BalanceOf(H), NEW c \in BalanceOf(H), NEW d \in BalanceOf(H),
         NEW by, NEW now, RespectsHolds(b, c, by, now), RespectsHolds(c, d, by, now)
  PROVE  RespectsHolds(b, d, by, now)
<1>1. ASSUME NEW authority \in Users, HeldFor(d, authority, now) < HeldFor(b, authority, now)
      PROVE  by \in Authorities \cup {authority}
  <2>1. /\ HeldFor(b, authority, now) \in Int /\ HeldFor(c, authority, now) \in Int
        /\ HeldFor(d, authority, now) \in Int
    BY HeldForType
  <2>2. \/ HeldFor(c, authority, now) < HeldFor(b, authority, now)
        \/ HeldFor(d, authority, now) < HeldFor(c, authority, now)
    BY <1>1, <2>1
  <2>3. QED
    BY <2>2 DEF RespectsHolds
<1>2. QED
  BY <1>1 DEF RespectsHolds

LEMMA RespectsItself ==
  ASSUME NEW H, H \subseteq AllHolds, NEW b \in BalanceOf(H), NEW c, c.holds = b.holds, NEW by, NEW now
  PROVE  RespectsHolds(b, c, by, now)
<1>1. ASSUME NEW authority \in Users
      PROVE  ~(HeldFor(c, authority, now) < HeldFor(b, authority, now))
  <2>1. HeldFor(c, authority, now) = HeldFor(b, authority, now)
    BY DEF HeldFor
  <2>2. HeldFor(b, authority, now) \in Int
    BY HeldForType
  <2>3. QED
    BY <2>1, <2>2
<1>2. VestingHolds(c, now) = VestingHolds(b, now)
  BY DEF VestingHolds
<1>3. QED
  BY <1>1, <1>2 DEF RespectsHolds

LEMMA FollowsItself ==
  ASSUME NEW H, H \subseteq AllHolds, NEW b \in BalanceOf(H), NEW by, NEW now \in Nat
  PROVE  Follows(H, b, b, by, now)
<1>1. RespectsHolds(b, b, by, now)
  BY RespectsItself
<1>2. ASSUME H \subseteq RegularHolds, NEW t \in Nat
      PROVE  LockedQuantity(b, t) <= LockedQuantity(b, t)
  <2>1. LockedQuantity(b, t) \in Int
    BY <1>2, LockedType
  <2>2. QED
    BY <2>1
<1>3. QED
  BY <1>1, <1>2 DEF Follows, LocksNoMore

LEMMA FollowsTransitive ==
  ASSUME NEW H, H \subseteq AllHolds, NEW b \in BalanceOf(H), NEW c, NEW d, NEW by, NEW now \in Nat,
         Follows(H, b, c, by, now), Follows(H, c, d, by, now)
  PROVE  Follows(H, b, d, by, now)
<1>1. c \in BalanceOf(H) /\ d \in BalanceOf(H) /\ d.quantity = b.quantity
  BY DEF Follows
<1>2. RespectsHolds(b, d, by, now)
  BY <1>1, RespectsTransitive DEF Follows
<1>3. ASSUME H \subseteq RegularHolds, NEW t \in Nat, now <= t
      PROVE  LockedQuantity(d, t) <= LockedQuantity(b, t)
  <2>1. /\ LockedQuantity(b, t) \in Int /\ LockedQuantity(c, t) \in Int
        /\ LockedQuantity(d, t) \in Int
    BY <1>1, <1>3, LockedType
  <2>2. LockedQuantity(c, t) <= LockedQuantity(b, t) /\ LockedQuantity(d, t) <= LockedQuantity(c, t)
    BY <1>3 DEF Follows, LocksNoMore
  <2>3. QED
    BY <2>1, <2>2
<1>4. QED
  BY <1>1, <1>2, <1>3 DEF Follows, LocksNoMore

LEMMA UnlockFollows ==
  ASSUME NEW H, Kind(H), NEW balance \in BalanceOf(H), NEW q \in Nat, NEW now \in Nat,
         NEW name, NEW owner, NEW by, NEW order \in VisitOrders(UnexpiredHolds(balance, now))
  PROVE  Follows(H, balance, AfterUnlock(balance, q, now, name, owner, by, order), by, now)
<1> DEFINE after == AfterUnlock(balance, q, now, name, owner, by, order)
<1>1. after \in BalanceOf(H) /\ after.quantity = balance.quantity /\ H \subseteq AllHolds
  BY UnlockType DEF Kind
<1>2. ASSUME NEW authority \in Users, HeldFor(after, authority, now) < HeldFor(balance, authority, now)
      PROVE  by \in Authorities \cup {authority}
  <2>1. HeldFor(balance, authority, now) \in Int
    BY <1>1, HeldForType
  <2>2. HeldFor(after, authority, now) # HeldFor(balance, authority, now)
    BY <1>2, <2>1
  <2>3. QED
    BY <2>2, UnlockKeepsHeld
<1>3. VestingHolds(balance, now) \subseteq VestingHolds(after, now)
  BY UnlockKeepsVesting
<1>4. H \subseteq RegularHolds => LocksNoMore(balance, after, now)
  BY UnlockReleases DEF LocksNoMore
<1> HIDE DEF after
<1>5. QED
  BY <1>1, <1>2, <1>3, <1>4 DEF Follows, RespectsHolds, after

FollowAll(H, old, new, by, now) ==
  new \in [Users -> BalanceOf(H)] /\ \A u \in Users : Follows(H, old[u], new[u], by, now)

LEMMA UnlockedFollow ==
  ASSUME NEW H, Kind(H), NEW held \in [Users -> BalanceOf(H)], NEW by, NEW owner \in Users,
         NEW q \in Nat, NEW name, NEW now \in Nat, NEW new \in Unlocked(held, by, owner, q, name, now)
  PROVE  FollowAll(H, held, new, by, now)
<1>1. PICK order \in VisitOrders(UnexpiredHolds(held[owner], now)) :
        new = [held EXCEPT ![owner].holds =
                 UnlockQuantity(held[owner], q, now, name, owner, by, by \in Authorities, order).kept]
  BY DEF Unlocked
<1> DEFINE after == AfterUnlock(held[owner], q, now, name, owner, by, order)
<1>2. held[owner] \in BalanceOf(H) /\ H \subseteq AllHolds
  BY DEF Kind
<1>3. Follows(H, held[owner], after, by, now)
  BY <1>2, UnlockFollows
<1>4. new = [held EXCEPT ![owner] = after]
  BY <1>1 DEF AfterUnlock
<1> HIDE DEF after
<1>5. after \in BalanceOf(H)
  BY <1>3 DEF Follows
<1>6. new \in [Users -> BalanceOf(H)]
  BY <1>4, <1>5
<1>7. ASSUME NEW u \in Users PROVE Follows(H, held[u], new[u], by, now)
  <2>1. CASE u = owner
    BY <1>3, <1>4, <2>1
  <2>2. CASE u # owner
    <3>1. new[u] = held[u] /\ held[u] \in BalanceOf(H)
      BY <1>4, <2>2
    <3>2. QED
      BY <1>2, <3>1, FollowsItself
  <2>3. QED
    BY <2>1, <2>2
<1>8. QED
  BY <1>6, <1>7 DEF FollowAll

LEMMA UnlockAllFollow ==
  ASSUME NEW H, Kind(H), NEW held \in [Users -> BalanceOf(H)], NEW by \in Users,
         NEW quantities \in Seq(LockTokenQuantities), NEW name, NEW now \in Nat,
         NEW new \in UnlockAll(held, by, quantities, name, now)
  PROVE  FollowAll(H, held, new, by, now)
<1> DEFINE good == {b \in [Users -> BalanceOf(H)] : FollowAll(H, held, b, by, now)}
           A == SUBSET good
<1>1. H \subseteq AllHolds
  BY DEF Kind
<1>2. {held} \in A
  <2>1. \A u \in Users : Follows(H, held[u], held[u], by, now)
    BY <1>1, FollowsItself
  <2>2. QED
    BY <2>1 DEF FollowAll
<1>3. ASSUME NEW outcomes \in A, NEW t \in LockTokenQuantities
      PROVE  UnlockFrom(outcomes, by, t, name, now) \in A
  <2>1. OrCaller(t.owner, by) \in Users /\ t.quantity \in Nat
    BY SupplyAssumption DEF LockTokenQuantities, OrCaller, UsersIfAny, Quantities
  <2>2. ASSUME NEW b \in outcomes, NEW c \in Unlocked(b, by, OrCaller(t.owner, by), t.quantity, name, now)
        PROVE  c \in good
    <3>1. b \in [Users -> BalanceOf(H)] /\ FollowAll(H, held, b, by, now)
      OBVIOUS
    <3>2. FollowAll(H, b, c, by, now)
      BY <2>1, <3>1, UnlockedFollow
    <3>3. ASSUME NEW u \in Users PROVE Follows(H, held[u], c[u], by, now)
      <4>1. held[u] \in BalanceOf(H)
        OBVIOUS
      <4>2. Follows(H, held[u], b[u], by, now) /\ Follows(H, b[u], c[u], by, now)
        BY <3>1, <3>2 DEF FollowAll
      <4>3. QED
        BY <1>1, <4>1, <4>2, FollowsTransitive
    <3>4. FollowAll(H, held, c, by, now) /\ c \in [Users -> BalanceOf(H)]
      BY <3>2, <3>3 DEF FollowAll
    <3>5. QED
      BY <3>4
  <2> HIDE DEF good
  <2>3. QED
    BY <2>2 DEF UnlockFrom
<1> HIDE DEF A
<1>4. UnlockAll(held, by, quantities, name, now) \in A
  BY <1>2, <1>3, UnlockAllStays
<1>5. QED
  BY <1>4 DEF A

LEMMA LockRespects ==
  ASSUME NEW H, H \subseteq AllHolds, NEW b \in BalanceOf(H), NEW hold \in H, NEW by, NEW now
  PROVE  /\ LockQuantity(b, hold, now) \in BalanceOf(H)
         /\ LockQuantity(b, hold, now).quantity = b.quantity
         /\ RespectsHolds(b, LockQuantity(b, hold, now), by, now)
<1> DEFINE s == UnexpiredHolds(b, now)
           c == LockQuantity(b, hold, now)
<1>1. s \in Seq(H) /\ b.holds \in Seq(H)
  BY UnexpiredType DEF BalanceOf
<1>2. c \in BalanceOf(H) /\ c.quantity = b.quantity /\ c.holds = Append(s, hold)
  <2>1. Append(s, hold) \in Seq(H)
    BY <1>1
  <2> HIDE DEF s
  <2>2. QED
    BY <2>1 DEF LockQuantity, BalanceOf, s
<1>3. ASSUME NEW authority \in Users
      PROVE  ~(HeldFor(c, authority, now) < HeldFor(b, authority, now))
  <2> DEFINE value == HeldOf(H, authority, now)
  <2>1. value \in [H -> Int] /\ 0 <= value[hold] /\ \A h \in H : IsExpired(h, now) => value[h] = 0
    BY HeldOfType DEF HeldOf
  <2>2. HeldFor(c, authority, now) = SumOver(Append(s, hold), value)
    <3>1. HeldFor(c, authority, now) = SumOver(c.holds, value)
      <4> HIDE DEF c
      <4>1. QED
        BY <1>2, HeldIsSum
    <3> HIDE DEF c, s, value
    <3>2. QED
      BY <1>2, <3>1
  <2>3. HeldFor(b, authority, now) = SumOver(b.holds, value)
    BY HeldIsSum
  <2> HIDE DEF value
  <2>4. SumOver(s, value) = SumOver(b.holds, value)
    BY <2>1, SumOfUnexpired
  <2>5. SumOver(s, value) \in Int
    BY <1>1, <2>1, SumOverType
  <2>6. SumOver(Append(s, hold), value) = SumOver(s, value) + value[hold]
    <3> HIDE DEF s
    <3>1. QED
      BY <1>1, <2>1, SumOverAppend
  <2>7. value[hold] \in Int
    BY <2>1
  <2> HIDE DEF s, c
  <2>8. QED
    BY <2>1, <2>2, <2>3, <2>4, <2>5, <2>6, <2>7
<1>4. VestingHolds(b, now) \subseteq VestingHolds(c, now)
  <2>1. ToSet(c.holds) = ToSet(s) \cup {hold}
    <3> HIDE DEF s
    <3>1. QED
      BY <1>1, <1>2, AppendElements
  <2>2. ToSet(s) = {h \in ToSet(b.holds) : ~IsExpired(h, now)}
    BY UnexpiredElements
  <2> HIDE DEF s, c
  <2>3. QED
    BY <2>1, <2>2 DEF VestingHolds
<1>5. QED
  BY <1>2, <1>3, <1>4 DEF RespectsHolds

LEMMA LockAllCovers ==
  ASSUME NEW H, Kind(H), NEW b \in BalanceOf(H), NEW holds \in Seq(H), NEW by,
         NEW now \in Nat, NEW since \in Nat, now <= since,
         H \subseteq RegularHolds => CoveredFrom(b, since)
  PROVE  LET locked == LockAll(b, holds, now)
         IN  /\ locked.balance \in BalanceOf(H)
             /\ locked.balance.quantity = b.quantity
             /\ RespectsHolds(b, locked.balance, by, now)
             /\ H \subseteq RegularHolds /\ locked.isSpendable => CoveredFrom(locked.balance, since)
<1> DEFINE Good(acc) ==
             /\ acc.balance.quantity = b.quantity
             /\ RespectsHolds(b, acc.balance, by, now)
             /\ H \subseteq RegularHolds /\ acc.isSpendable => CoveredFrom(acc.balance, since)
           A == {acc \in [isSpendable : BOOLEAN, balance : BalanceOf(H)] : Good(acc)}
<1>1. H \subseteq AllHolds
  BY DEF Kind
<1>2. [isSpendable |-> TRUE, balance |-> b] \in A
  BY <1>1, RespectsItself
<1>3. ASSUME NEW acc \in A, NEW hold \in H PROVE LockInto(acc, hold, now) \in A
  <2> DEFINE c == LockQuantity(acc.balance, hold, now)
             next == LockInto(acc, hold, now)
  <2>1. acc.balance \in BalanceOf(H) /\ acc.isSpendable \in BOOLEAN /\ Good(acc)
    OBVIOUS
  <2>2. c \in BalanceOf(H) /\ c.quantity = acc.balance.quantity /\ RespectsHolds(acc.balance, c, by, now)
    BY <1>1, <2>1, LockRespects
  <2>3. RespectsHolds(b, c, by, now)
    BY <1>1, <2>1, <2>2, RespectsTransitive
  <2>4. ASSUME H \subseteq RegularHolds, IsSpendable(acc.balance, hold.quantity, now)
        PROVE  CoveredFrom(c, since)
    <3>1. ASSUME NEW t \in Nat, since <= t PROVE LockedQuantity(c, t) <= c.quantity
      <4>1. hold.quantity \in Nat /\ acc.balance.quantity \in Nat /\ now <= t
        BY <1>1, <2>1, <3>1, HoldFields DEF BalanceOf
      <4>2. LockedQuantity(acc.balance, now) + hold.quantity <= acc.balance.quantity
        BY <2>1, <2>4, <4>1, SpendableIsFree
      <4>3. LockedQuantity(acc.balance, t) <= LockedQuantity(acc.balance, now)
        BY <2>1, <2>4, <4>1, LockedReleases
      <4>4. LockedQuantity(c, t) <= LockedQuantity(acc.balance, t) + hold.quantity
        BY <2>1, <2>4, <4>1, LockedAfterLock
      <4>5. /\ LockedQuantity(acc.balance, t) \in Int /\ LockedQuantity(acc.balance, now) \in Int
            /\ LockedQuantity(c, t) \in Int
        BY <2>1, <2>2, <2>4, LockedType
      <4> HIDE DEF c
      <4>6. QED
        BY <2>2, <4>1, <4>2, <4>3, <4>4, <4>5
    <3>2. QED
      BY <3>1 DEF CoveredFrom
  <2> DEFINE free == acc.isSpendable /\ IsSpendable(acc.balance, hold.quantity, now)
  <2>5. next = [isSpendable |-> free, balance |-> c] /\ free \in BOOLEAN
    BY DEF LockInto
  <2>6. free => IsSpendable(acc.balance, hold.quantity, now)
    OBVIOUS
  <2> HIDE DEF c, free, next
  <2>7. next.balance = c /\ next.isSpendable = free /\ next \in [isSpendable : BOOLEAN, balance : BalanceOf(H)]
    BY <2>2, <2>5
  <2>8. Good(next)
    BY <2>1, <2>2, <2>3, <2>4, <2>6, <2>7
  <2>9. QED
    BY <2>7, <2>8 DEF next
<1> HIDE DEF A
<1>4. LockAll(b, holds, now) \in A
  BY <1>2, <1>3, LockAllStays
<1>5. QED
  BY <1>4 DEF A

-----------------------------------------------------------------------------
(* What is added to and spent of a balance.                                *)

\* A balance to which is added.
LEMMA AddCovers ==
  ASSUME NEW H, NEW b \in BalanceOf(H), NEW q \in Nat, NEW by, NEW now, H \subseteq AllHolds
  PROVE  /\ AddQuantity(b, q) \in BalanceOf(H) /\ AddQuantity(b, q).quantity = b.quantity + q
         /\ RespectsHolds(b, AddQuantity(b, q), by, now)
         /\ \A since, later \in Nat :
              H \subseteq RegularHolds /\ since <= later /\ CoveredFrom(b, since)
                => CoveredFrom(AddQuantity(b, q), later)
<1> DEFINE c == AddQuantity(b, q)
<1>1. c \in BalanceOf(H) /\ c.quantity = b.quantity + q /\ c.holds = b.holds /\ b.quantity \in Nat
  BY DEF AddQuantity, BalanceOf
<1> HIDE DEF c
<1>2. RespectsHolds(b, c, by, now)
  BY <1>1, RespectsItself
<1>3. ASSUME NEW since \in Nat, NEW later \in Nat, H \subseteq RegularHolds, since <= later,
             CoveredFrom(b, since), NEW t \in Nat, later <= t
      PROVE  LockedQuantity(c, t) <= c.quantity
  <2>1. LockedQuantity(c, t) = LockedQuantity(b, t)
    BY <1>1, SameHoldsLocked
  <2>2. LockedQuantity(b, t) <= b.quantity
    BY <1>3 DEF CoveredFrom
  <2>3. LockedQuantity(b, t) \in Int
    BY <1>3, LockedType
  <2>4. QED
    BY <1>1, <2>1, <2>2, <2>3
<1>4. QED
  BY <1>1, <1>2, <1>3 DEF CoveredFrom, c

\* A balance of which is spent what is spendable.
LEMMA SpendCovers ==
  ASSUME NEW H, H \subseteq AllHolds, NEW b \in BalanceOf(H), NEW q \in Nat, NEW by, NEW now \in Nat,
         IsSpendable(b, q, now)
  PROVE  /\ SubtractQuantity(b, q) \in BalanceOf(H) /\ SubtractQuantity(b, q).quantity = b.quantity - q
         /\ RespectsHolds(b, SubtractQuantity(b, q), by, now)
         /\ \A later \in Nat :
              H \subseteq RegularHolds /\ now <= later => CoveredFrom(SubtractQuantity(b, q), later)
<1> DEFINE c == SubtractQuantity(b, q)
<1>1. b.quantity \in Nat /\ q <= b.quantity
  BY DEF IsSpendable, BalanceOf
<1>2. c \in BalanceOf(H) /\ c.quantity = b.quantity - q /\ c.holds = b.holds
  <2>1. b.quantity - q \in Nat
    BY <1>1
  <2>2. QED
    BY <2>1 DEF SubtractQuantity, BalanceOf
<1> HIDE DEF c
<1>3. RespectsHolds(b, c, by, now)
  BY <1>2, RespectsItself
<1>4. ASSUME NEW later \in Nat, H \subseteq RegularHolds, now <= later, NEW t \in Nat, later <= t
      PROVE  LockedQuantity(c, t) <= c.quantity
  <2>1. LockedQuantity(c, t) = LockedQuantity(b, t)
    BY <1>2, SameHoldsLocked
  <2>2. LockedQuantity(b, now) + q <= b.quantity
    BY <1>4, SpendableIsFree
  <2>3. LockedQuantity(b, t) <= LockedQuantity(b, now)
    BY <1>4, LockedReleases
  <2>4. LockedQuantity(b, t) \in Int /\ LockedQuantity(b, now) \in Int
    BY <1>4, LockedType
  <2>5. QED
    BY <1>1, <1>2, <2>1, <2>2, <2>3, <2>4
<1>5. QED
  BY <1>2, <1>3, <1>4 DEF CoveredFrom, c

-----------------------------------------------------------------------------
(* The kinds of holds.                                                     *)

\* No new class has a vesting period that is over as it starts.
NoInstantVesting == \A period \in VestingPeriods : period.start # period.expires

ClassHolds == Holds(Quantities, Nat)

\* The holds that calls make are of the kind.
HoldKind(H) ==
  /\ Kind(H) /\ H \subseteq ClassHolds
  /\ \A h \in ClassHolds :
       \/ ~IsVesting(h)
       \/ h.expires = 0 /\ h.vestingStart \in VestingStarts
       \/ \E period \in VestingPeriods : h.vestingStart = period.start /\ h.expires = period.expires
       => h \in H

LEMMA ClassHoldsKind == HoldKind(ClassHolds)
<1>1. ClassHolds \subseteq AllHolds
  BY SupplyAssumption DEF ClassHolds, AllHolds, Holds, Quantities
<1>2. ASSUME NEW h \in ClassHolds, NEW m \in 1 .. h.quantity
      PROVE  [h EXCEPT !.quantity = m] \in ClassHolds
  <2>1. m \in Quantities
    BY SupplyAssumption DEF ClassHolds, Holds, Quantities
  <2>2. QED
    BY <2>1 DEF ClassHolds, Holds
<1>3. QED
  BY <1>1, <1>2 DEF HoldKind, Kind

RegularClassHolds == ClassHolds \cap RegularHolds

LEMMA RegularHoldsKind ==
  ASSUME NoInstantVesting
  PROVE  HoldKind(RegularClassHolds)
<1> DEFINE H == ClassHolds \cap RegularHolds
<1>1. ASSUME NEW h \in H, NEW m \in 1 .. h.quantity
      PROVE  [h EXCEPT !.quantity = m] \in H
  <2> DEFINE part == [h EXCEPT !.quantity = m]
  <2>1. part \in ClassHolds /\ ClassHolds \subseteq AllHolds
    BY ClassHoldsKind DEF HoldKind, Kind
  <2>2. part.vestingStart = h.vestingStart /\ part.expires = h.expires
    BY DEF ClassHolds, Holds
  <2> HIDE DEF part
  <2>3. part \in H
    BY <2>1, <2>2 DEF RegularHolds, IsVesting
  <2>4. QED
    BY <2>3 DEF part
<1>2. ASSUME NEW h \in ClassHolds, IsVesting(h), h.expires = 0, h.vestingStart \in VestingStarts
      PROVE  h.vestingStart # h.expires
  BY <1>2, TimesAssumption DEF IsVesting
<1>3. ASSUME NEW h \in ClassHolds, NEW period \in VestingPeriods,
             h.vestingStart = period.start, h.expires = period.expires
      PROVE  h.vestingStart # h.expires
  BY <1>3, NoInstantVesting DEF NoInstantVesting
<1>4. ClassHolds \subseteq AllHolds
  BY ClassHoldsKind DEF HoldKind, Kind
<1>5. ASSUME NEW h \in ClassHolds,
             \/ ~IsVesting(h)
             \/ h.expires = 0 /\ h.vestingStart \in VestingStarts
             \/ \E period \in VestingPeriods : h.vestingStart = period.start /\ h.expires = period.expires
      PROVE  h \in H
  BY <1>2, <1>3, <1>4, <1>5 DEF RegularHolds
<1>6. QED
  BY <1>1, <1>4, <1>5 DEF HoldKind, Kind, RegularClassHolds

\* What the calls put is of every kind.
LEMMA HoldOfKind ==
  ASSUME NEW H, HoldKind(H), NEW by \in Users, NEW q \in Quantities, NEW expires \in Nat,
         NEW name \in Names, NEW authority \in Users \cup {None}, NEW start \in Nat \cup {None},
         \/ start = None
         \/ expires = 0 /\ start \in VestingStarts
         \/ \E period \in VestingPeriods : start = period.start /\ expires = period.expires
  PROVE  Hold(by, q, expires, name, authority, start) \in H
<1> DEFINE h == Hold(by, q, expires, name, authority, start)
<1>1. h \in ClassHolds
  BY DEF Hold, ClassHolds, Holds
<1>2. h.vestingStart = start /\ h.expires = expires
  BY DEF Hold
<1> HIDE DEF h
<1>3. h \in H
  BY <1>1, <1>2 DEF HoldKind, IsVesting
<1>4. QED
  BY <1>3 DEF h

-----------------------------------------------------------------------------
(* The inductive invariant.                                                *)

Typed(H) ==
  /\ balances \in [Users -> BalanceOf(H)]
  /\ minted \in 0 .. MaxSupply /\ burnt \in Nat /\ latest \in Times \cup {0}

\* Before the first transaction there is nothing.
Untouched == latest = 0 => minted = 0 /\ burnt = 0 /\ balances = [u \in Users |-> EmptyBalance]

Covered(H) == H \subseteq RegularHolds => \A u \in Users : CoveredFrom(balances[u], latest)

IInv(H) == Typed(H) /\ Conservation /\ Untouched /\ Covered(H)

Respected(by, now) == \A u \in Users : RespectsHolds(balances[u], balances'[u], by, now)

Keeps(H, by, now) == IInv(H)' /\ Respected(by, now)

LEMMA InitHolds ==
  ASSUME NEW H, Init
  PROVE  IInv(H)
<1>1. \A u \in Users : balances[u] = EmptyBalance
  BY DEF Init
<1>2. Typed(H)
  BY EmptyBalances, SupplyAssumption DEF Init, Typed
<1>3. Untouched
  BY DEF Init, Untouched
<1>4. Covered(H)
  BY <1>1, EmptyBalances DEF Covered, CoveredFrom
<1>5. Conservation
  <2>1. /\ Summable([u \in Users |-> balances[u].quantity], Users)
        /\ Total(balances) = SumFunctionOnSet([u \in Users |-> balances[u].quantity], Users)
        /\ \A u \in Users : [v \in Users |-> balances[v].quantity][u] = balances[u].quantity
    BY <1>2, TotalSummable, SupplyAssumption DEF Typed
  <2>2. \A u \in Users : [v \in Users |-> balances[v].quantity][u] = 0
    BY <1>1, EmptyBalances
  <2>3. Total(balances) = 0
    BY <2>1, <2>2, SumOfZeros
  <2>4. QED
    BY <2>3 DEF Conservation, TotalBalance, Total, Init
<1>6. QED
  BY <1>2, <1>3, <1>4, <1>5 DEF IInv

\* The time of a call.
LEMMA CallTimes ==
  ASSUME NEW H, Typed(H), NEW by, NEW now \in Times, Called(by, now)
  PROVE  /\ now \in Nat /\ latest \in Nat /\ latest' \in Nat /\ latest' \in Times /\ latest' # 0
         /\ now <= latest' /\ latest <= latest'
         /\ last'.caller = by /\ last'.time = now
BY TimesAssumption DEF Typed, Called, Latest

\* What a call leaves to show, for the balances and for the quantities.
LEMMA CallKeeps ==
  ASSUME NEW H, HoldKind(H), IInv(H), NEW by, NEW now \in Times, Called(by, now),
         balances' \in [Users -> BalanceOf(H)],
         minted' \in 0 .. MaxSupply, burnt' \in Nat, Total(balances') + burnt' = minted',
         H \subseteq RegularHolds => \A u \in Users : CoveredFrom(balances'[u], latest'),
         \A u \in Users : RespectsHolds(balances[u], balances'[u], by, now)
  PROVE  Keeps(H, by, now)
<1>1. latest' \in Times /\ latest' # 0
  BY CallTimes DEF IInv
<1>2. Typed(H)'
  BY <1>1 DEF Typed
<1>3. Conservation'
  BY DEF Conservation, TotalBalance, Total
<1>4. Untouched' /\ Covered(H)'
  BY <1>1 DEF Untouched, Covered
<1>5. QED
  BY <1>2, <1>3, <1>4 DEF Keeps, IInv, Respected

\* A balance that a call does not change.
LEMMA Unchanging ==
  ASSUME NEW H, HoldKind(H), IInv(H), NEW by, NEW now \in Times, Called(by, now), NEW u \in Users
  PROVE  /\ balances[u] \in BalanceOf(H)
         /\ RespectsHolds(balances[u], balances[u], by, now)
         /\ H \subseteq RegularHolds => CoveredFrom(balances[u], latest')
<1>1. balances[u] \in BalanceOf(H) /\ H \subseteq AllHolds
  BY DEF IInv, Typed, HoldKind, Kind
<1>2. RespectsHolds(balances[u], balances[u], by, now)
  BY <1>1, RespectsItself
<1>3. H \subseteq RegularHolds => CoveredFrom(balances[u], latest')
  <2>1. latest \in Nat /\ latest' \in Nat /\ latest <= latest'
    BY CallTimes DEF IInv
  <2>2. QED
    BY <2>1 DEF IInv, Covered, CoveredFrom
<1>4. QED
  BY <1>1, <1>2, <1>3

\* A call that changes one balance.
LEMMA OneBalance ==
  ASSUME NEW H, HoldKind(H), IInv(H), NEW by, NEW now \in Times, Called(by, now),
         NEW x \in Users, NEW c \in BalanceOf(H), balances' = [balances EXCEPT ![x] = c],
         RespectsHolds(balances[x], c, by, now),
         H \subseteq RegularHolds => CoveredFrom(c, latest'),
         minted' \in 0 .. MaxSupply, burnt' \in Nat,
         c.quantity - balances[x].quantity = (minted' - minted) - (burnt' - burnt)
  PROVE  Keeps(H, by, now)
<1>1. balances \in [Users -> BalanceOf(H)] /\ minted \in Nat /\ burnt \in Nat
  BY SupplyAssumption DEF IInv, Typed
<1>2. balances' \in [Users -> BalanceOf(H)] /\ balances'[x] = c
      /\ \A u \in Users \ {x} : balances'[u] = balances[u]
  BY <1>1
<1>3. Total(balances') = Total(balances) + (c.quantity - balances[x].quantity)
  <2> DEFINE new == balances'
  <2>1. /\ new \in [Users -> BalanceOf(H)] /\ new[x].quantity = c.quantity
        /\ \A u \in Users \ {x} : new[u].quantity = balances[u].quantity
    BY <1>2
  <2> HIDE DEF new
  <2>2. Total(new) = Total(balances) + (new[x].quantity - balances[x].quantity)
    BY <1>1, <2>1, TotalChange, SupplyAssumption
  <2>3. QED
    BY <2>1, <2>2 DEF new
<1>4. Total(balances) + burnt = minted /\ Total(balances) \in Nat
  BY <1>1, TotalType, SupplyAssumption DEF IInv, Conservation, TotalBalance, Total
<1>5. Total(balances') + burnt' = minted'
  <2> DEFINE d == c.quantity - balances[x].quantity
  <2>1. d \in Int /\ minted' \in Nat
    <3>1. balances[x] \in BalanceOf(H)
      BY <1>1
    <3>2. balances[x].quantity \in Nat /\ c.quantity \in Nat
      BY <3>1 DEF BalanceOf
    <3>3. minted' \in Nat
      BY SupplyAssumption
    <3>4. QED
      BY <3>2, <3>3
  <2>2. d = (minted' - minted) - (burnt' - burnt)
    OBVIOUS
  <2>3. Total(balances') = Total(balances) + d
    BY <1>3
  <2> DEFINE m == minted  n == minted'  o == burnt  p == burnt'
             before == Total(balances)  after == Total(balances')
  <2>4. /\ m \in Nat /\ n \in Nat /\ o \in Nat /\ p \in Nat /\ before \in Nat
        /\ before + o = m /\ d = (n - m) - (p - o) /\ after = before + d
    BY <1>1, <1>4, <2>1, <2>2, <2>3
  <2> HIDE DEF d, m, n, o, p, before, after
  <2>5. after + p = n
    BY <2>1, <2>4
  <2>6. QED
    BY <2>5 DEF after, p, n
<1>6. ASSUME NEW u \in Users
      PROVE  /\ RespectsHolds(balances[u], balances'[u], by, now)
             /\ H \subseteq RegularHolds => CoveredFrom(balances'[u], latest')
  BY <1>2, Unchanging
<1>7. QED
  BY <1>2, <1>5, <1>6, CallKeeps

-----------------------------------------------------------------------------
(* Each call keeps the invariant, and what others hold.                    *)

LEMMA OrCallerType ==
  ASSUME NEW user \in UsersIfAny, NEW by \in Users
  PROVE  OrCaller(user, by) \in Users
BY DEF OrCaller, UsersIfAny

LEMMA MintKeeps ==
  ASSUME NEW H, HoldKind(H), IInv(H), NEW by \in Users, NEW now \in Times,
         NEW to \in Users, NEW q \in Quantities, Mint(by, to, q, now)
  PROVE  Keeps(H, by, now)
<1> DEFINE b == balances[to]
           c == AddQuantity(b, q)
<1>1. b \in BalanceOf(H) /\ H \subseteq AllHolds /\ q \in Nat /\ minted \in Nat /\ burnt \in Nat
  BY SupplyAssumption DEF IInv, Typed, HoldKind, Kind, Quantities
<1>2. Called(by, now) /\ balances' = [balances EXCEPT ![to] = c]
  BY DEF Mint
<1>3. /\ c \in BalanceOf(H) /\ c.quantity = b.quantity + q /\ RespectsHolds(b, c, by, now)
      /\ \A since, later \in Nat :
           H \subseteq RegularHolds /\ since <= later /\ CoveredFrom(b, since) => CoveredFrom(c, later)
  BY <1>1, AddCovers
<1>4. latest' \in Nat
  BY <1>2, CallTimes DEF IInv
<1>5. H \subseteq RegularHolds => CoveredFrom(c, latest')
  BY <1>2, <1>3, <1>4, Unchanging
<1>6. /\ minted' \in 0 .. MaxSupply /\ burnt' \in Nat
      /\ c.quantity - b.quantity = (minted' - minted) - (burnt' - burnt)
  <2>1. b.quantity \in Nat /\ minted' = minted + q /\ burnt' = burnt /\ minted' <= MaxSupply
    BY <1>1 DEF BalanceOf, Mint
  <2> HIDE DEF b, c
  <2>2. QED
    BY <1>1, <1>3, <2>1, SupplyAssumption
<1> HIDE DEF c
<1>7. QED
  BY <1>2, <1>3, <1>5, <1>6, OneBalance

LEMMA BurnKeeps ==
  ASSUME NEW H, HoldKind(H), IInv(H), NEW by, NEW now \in Times,
         NEW owner \in Users, NEW q \in Nat, Burn(by, owner, q, now)
  PROVE  Keeps(H, by, now)
<1> DEFINE b == balances[owner]
           c == SubtractQuantity(b, q)
<1>1. b \in BalanceOf(H) /\ H \subseteq AllHolds /\ minted \in 0 .. MaxSupply /\ burnt \in Nat
  BY DEF IInv, Typed, HoldKind, Kind
<1>2. Called(by, now) /\ balances' = [balances EXCEPT ![owner] = c] /\ IsSpendable(b, q, now)
  BY DEF Burn
<1>3. now \in Nat /\ latest' \in Nat /\ now <= latest'
  BY <1>2, CallTimes DEF IInv
<1>4. /\ c \in BalanceOf(H) /\ c.quantity = b.quantity - q /\ RespectsHolds(b, c, by, now)
      /\ \A later \in Nat : H \subseteq RegularHolds /\ now <= later => CoveredFrom(c, later)
  BY <1>1, <1>2, <1>3, SpendCovers
<1>5. /\ minted' \in 0 .. MaxSupply /\ burnt' \in Nat
      /\ c.quantity - b.quantity = (minted' - minted) - (burnt' - burnt)
  <2>1. b.quantity \in Nat /\ minted' = minted /\ burnt' = burnt + q
    BY <1>1 DEF BalanceOf, Burn
  <2> HIDE DEF b, c
  <2>2. QED
    BY <1>1, <1>4, <2>1, SupplyAssumption
<1> HIDE DEF c
<1>6. QED
  BY <1>2, <1>3, <1>4, <1>5, OneBalance

LEMMA BurnTokensKeeps ==
  ASSUME NEW H, HoldKind(H), IInv(H), NEW by \in Users, NEW now \in Times,
         NEW dto \in BurnTokensDtos, BurnTokens(by, dto, now)
  PROVE  Keeps(H, by, now)
<1> DEFINE batch == dto.tokenInstances
<1>1. OrCaller(dto.owner, by) \in Users
  BY OrCallerType DEF BurnTokensDtos
<1>2. PICK n \in 1 .. MaxBatch : batch \in [1 .. n -> Quantities]
  BY DEF BurnTokensDtos, Batches, BurnTokenQuantities
<1>3. batch \in Seq(Int) /\ \A i \in DOMAIN batch : 0 <= batch[i]
  <2>1. n \in Nat /\ Quantities \subseteq Nat
    BY SupplyAssumption DEF Quantities
  <2> HIDE DEF batch
  <2> HIDE DEF batch
  <2>2. batch \in [1 .. n -> Int] /\ \A i \in 1 .. n : 0 <= batch[i]
    <3>1. \A i \in 1 .. n : batch[i] \in Nat
      BY <1>2, <2>1
    <3>2. QED
      BY <1>2, <3>1
  <2>3. batch \in Seq(Int) /\ DOMAIN batch = 1 .. n
    BY <2>1, <2>2, FunctionSequence
  <2>4. QED
    BY <2>2, <2>3
<1> HIDE DEF batch
<1>4. AggregateBurnQuantities(batch) \in Nat
  BY <1>3, SequenceSummable, SumNat DEF AggregateBurnQuantities, SumFunction
<1>5. Burn(by, OrCaller(dto.owner, by), AggregateBurnQuantities(batch), now)
  BY DEF BurnTokens, batch
<1>6. QED
  BY <1>1, <1>4, <1>5, BurnKeeps

LEMMA TransferKeeps ==
  ASSUME NEW H, HoldKind(H), IInv(H), NEW by, NEW now \in Times,
         NEW from \in Users, NEW to \in Users, NEW q \in Nat, Transfer(by, from, to, q, now)
  PROVE  Keeps(H, by, now)
<1> DEFINE c == SubtractQuantity(balances[from], q)
           d == AddQuantity(balances[to], q)
           between == [balances EXCEPT ![from] = c]
           after == [between EXCEPT ![to] = d]
<1>1. /\ balances \in [Users -> BalanceOf(H)] /\ H \subseteq AllHolds
      /\ minted \in 0 .. MaxSupply /\ burnt \in Nat
      /\ balances[from] \in BalanceOf(H) /\ balances[to] \in BalanceOf(H)
  BY DEF IInv, Typed, HoldKind, Kind
<1>2. Called(by, now) /\ from # to /\ IsSpendable(balances[from], q, now)
      /\ minted' = minted /\ burnt' = burnt
  BY DEF Transfer
<1>3. balances' = after
  BY <1>1 DEF Transfer
<1>4. now \in Nat /\ latest' \in Nat /\ now <= latest'
  BY <1>2, CallTimes DEF IInv
<1>5. /\ c \in BalanceOf(H) /\ c.quantity = balances[from].quantity - q
      /\ RespectsHolds(balances[from], c, by, now)
      /\ \A later \in Nat : H \subseteq RegularHolds /\ now <= later => CoveredFrom(c, later)
  BY <1>1, <1>2, <1>4, SpendCovers
<1>6. /\ d \in BalanceOf(H) /\ d.quantity = balances[to].quantity + q
      /\ RespectsHolds(balances[to], d, by, now)
      /\ \A since, later \in Nat : H \subseteq RegularHolds /\ since <= later
                                     /\ CoveredFrom(balances[to], since) => CoveredFrom(d, later)
  BY <1>1, AddCovers
<1>7. H \subseteq RegularHolds => CoveredFrom(d, latest')
  BY <1>2, <1>4, <1>6, Unchanging
<1> HIDE DEF c, d
<1>8. between \in [Users -> BalanceOf(H)] /\ after \in [Users -> BalanceOf(H)]
  BY <1>1, <1>5, <1>6
<1>9. /\ between[from] = c /\ between[to] = balances[to] /\ after[to] = d /\ after[from] = c
      /\ \A u \in Users \ {from} : between[u] = balances[u]
      /\ \A u \in Users \ {to} : after[u] = between[u]
  BY <1>1, <1>2
<1> HIDE DEF between, after
<1>10. Total(after) = Total(balances)
  <2>1. Total(between) = Total(balances) + (between[from].quantity - balances[from].quantity)
    <3>1. \A u \in Users \ {from} : between[u].quantity = balances[u].quantity
      BY <1>9
    <3>2. QED
      BY <1>1, <1>8, <3>1, TotalChange, SupplyAssumption
  <2>2. Total(after) = Total(between) + (after[to].quantity - between[to].quantity)
    <3>1. \A u \in Users \ {to} : after[u].quantity = between[u].quantity
      BY <1>9
    <3>2. QED
      BY <1>8, <3>1, TotalChange, SupplyAssumption
  <2>3. Total(balances) \in Nat /\ balances[from].quantity \in Nat /\ balances[to].quantity \in Nat
    BY <1>1, TotalType, SupplyAssumption DEF BalanceOf
  <2>4. QED
    BY <1>5, <1>6, <1>9, <2>1, <2>2, <2>3
<1>11. Total(balances') + burnt' = minted'
  BY <1>2, <1>3, <1>10 DEF IInv, Conservation, TotalBalance, Total
<1>12. ASSUME NEW u \in Users
       PROVE  /\ RespectsHolds(balances[u], after[u], by, now)
              /\ H \subseteq RegularHolds => CoveredFrom(after[u], latest')
  <2>1. CASE u = from
    BY <1>4, <1>5, <1>9, <2>1
  <2>2. CASE u = to
    BY <1>6, <1>7, <1>9, <2>2
  <2>3. CASE u \notin {from, to}
    <3>1. after[u] = balances[u]
      BY <1>9, <2>3
    <3>2. QED
      BY <1>2, <3>1, Unchanging
  <2>4. QED
    BY <2>1, <2>2, <2>3
<1>13. QED
  BY <1>1, <1>2, <1>3, <1>8, <1>11, <1>12, CallKeeps

LEMMA LockHoldsKeeps ==
  ASSUME NEW H, HoldKind(H), IInv(H), NEW by \in Users, NEW now \in Times,
         NEW holds \in Seq(H), LockHolds(by, holds, now), minted' = minted
  PROVE  Keeps(H, by, now)
<1> DEFINE locked == LockAll(balances[by], holds, now)
           c == locked.balance
<1>1. balances[by] \in BalanceOf(H) /\ minted \in 0 .. MaxSupply /\ burnt \in Nat
  BY DEF IInv, Typed
<1>2. Called(by, now) /\ locked.isSpendable /\ burnt' = burnt
      /\ balances' = [balances EXCEPT ![by] = c]
  BY DEF LockHolds
<1>3. now \in Nat /\ latest' \in Nat /\ now <= latest'
  BY <1>2, CallTimes DEF IInv
<1>4. H \subseteq RegularHolds => CoveredFrom(balances[by], latest')
  BY <1>2, Unchanging
<1>5. /\ c \in BalanceOf(H) /\ c.quantity = balances[by].quantity
      /\ RespectsHolds(balances[by], c, by, now)
      /\ H \subseteq RegularHolds /\ locked.isSpendable => CoveredFrom(c, latest')
  <2> DEFINE b == balances[by]
             since == latest'
  <2>1. /\ b \in BalanceOf(H) /\ since \in Nat /\ now <= since
        /\ H \subseteq RegularHolds => CoveredFrom(b, since)
    BY <1>1, <1>3, <1>4
  <2> HIDE DEF b, since
  <2>2. Kind(H)
    BY DEF HoldKind
  <2>3. LET outcome == LockAll(b, holds, now)
        IN  /\ outcome.balance \in BalanceOf(H)
            /\ outcome.balance.quantity = b.quantity
            /\ RespectsHolds(b, outcome.balance, by, now)
            /\ H \subseteq RegularHolds /\ outcome.isSpendable => CoveredFrom(outcome.balance, since)
    BY <1>3, <2>1, <2>2, LockAllCovers
  <2>4. QED
    BY <2>3 DEF b, since
<1> HIDE DEF locked
<1>6. /\ minted' \in 0 .. MaxSupply /\ burnt' \in Nat
      /\ c.quantity - balances[by].quantity = (minted' - minted) - (burnt' - burnt)
  <2>1. balances[by].quantity \in Nat
    BY <1>1 DEF BalanceOf
  <2>2. QED
    BY <1>1, <1>2, <1>5, <2>1, SupplyAssumption
<1> HIDE DEF c
<1>7. QED
  BY <1>2, <1>5, <1>6, OneBalance

LEMMA LockTokenKeeps ==
  ASSUME NEW H, HoldKind(H), IInv(H), NEW by \in Users, NEW now \in Times,
         NEW dto \in LockTokenDtos, LockToken(by, dto, now)
  PROVE  Keeps(H, by, now)
<1> DEFINE hold == Hold(by, dto.quantity, 0, None, dto.lockAuthority, dto.vestingPeriodStart)
<1>1. /\ dto.quantity \in Quantities /\ dto.lockAuthority \in Users \cup {None}
      /\ dto.vestingPeriodStart \in VestingStarts
  BY AuthoritiesAssumption DEF LockTokenDtos
<1>2. dto.vestingPeriodStart \in Nat \cup {None} /\ None \in Names /\ 0 \in Nat
  BY <1>1, TimesAssumption, AuthoritiesAssumption
<1>3. hold \in H
  BY <1>1, <1>2, HoldOfKind
<1> HIDE DEF hold
<1>4. <<hold>> \in Seq(H)
  BY <1>3
<1>5. LockHolds(by, <<hold>>, now) /\ minted' = minted
  BY DEF LockToken, hold
<1>6. QED
  BY <1>4, <1>5, LockHoldsKeeps

LEMMA LockTokensKeeps ==
  ASSUME NEW H, HoldKind(H), IInv(H), NEW by \in Users, NEW now \in Times,
         NEW dto \in LockTokensDtos, LockTokens(by, dto, now)
  PROVE  Keeps(H, by, now)
<1> DEFINE batch == dto.tokenInstances
           hold(q) == Hold(by, q, dto.expires, dto.name, dto.lockAuthority, None)
           holds == [i \in DOMAIN batch |-> hold(batch[i])]
<1>1. PICK n \in 1 .. MaxBatch : batch \in [1 .. n -> Quantities]
  BY DEF LockTokensDtos, Batches
<1>2. ASSUME NEW q \in Quantities PROVE hold(q) \in H
  <2>1. /\ dto.expires \in Nat /\ dto.name \in Names /\ dto.lockAuthority \in Users \cup {None}
        /\ None \in Nat \cup {None}
    BY TimesAssumption, AuthoritiesAssumption DEF LockTokensDtos
  <2>2. QED
    BY <2>1, HoldOfKind
<1> HIDE DEF batch, hold
<1>3. holds \in [1 .. n -> H] /\ n \in Nat
  BY <1>1, <1>2
<1>4. holds \in Seq(H)
  BY <1>3, FunctionSequence
<1>5. LockHolds(by, holds, now) /\ minted' = minted
  BY DEF LockTokens, batch, hold
<1> HIDE DEF holds
<1>6. QED
  BY <1>4, <1>5, LockHoldsKeeps

LEMMA CreateVestingTokenKeeps ==
  ASSUME NEW H, HoldKind(H), IInv(H), NEW by \in Users, NEW now \in Times, NEW owner \in Users,
         NEW period \in VestingPeriods, CreateVestingToken(by, owner, period, now)
  PROVE  Keeps(H, by, now)
<1> DEFINE hold == Hold(owner, MaxSupply, period.expires, None, by, period.start)
           b == AddQuantity(EmptyBalance, MaxSupply)
           c == LockQuantity(b, hold, now)
<1>1. /\ balances[owner] = EmptyBalance /\ minted = 0 /\ burnt = 0
      /\ H \subseteq AllHolds /\ MaxSupply \in Nat /\ MaxSupply \in Quantities
  BY SupplyAssumption DEF CreateVestingToken, IInv, Untouched, HoldKind, Kind, Quantities
<1>2. /\ Called(by, now) /\ minted' = MaxSupply /\ burnt' = burnt
      /\ balances' = [balances EXCEPT ![owner] = c]
  BY <1>1 DEF CreateVestingToken
<1>3. now \in Nat /\ latest' \in Nat /\ now <= latest'
  BY <1>2, CallTimes DEF IInv
<1>4. hold \in H
  <2>1. period.start \in Nat \cup {None} /\ period.expires \in Nat /\ by \in Users \cup {None}
        /\ None \in Names
    BY TimesAssumption, AuthoritiesAssumption
  <2>2. QED
    BY <1>1, <2>1, HoldOfKind
<1>5. hold.quantity = MaxSupply
  BY DEF Hold
<1>6. /\ b \in BalanceOf(H) /\ b.quantity = MaxSupply /\ b.holds = << >>
      /\ RespectsHolds(EmptyBalance, b, by, now)
  <2>1. EmptyBalance \in BalanceOf(H) /\ EmptyBalance.quantity = 0
    BY EmptyBalances
  <2>2. b \in BalanceOf(H) /\ b.quantity = 0 + MaxSupply /\ RespectsHolds(EmptyBalance, b, by, now)
    BY <1>1, <2>1, AddCovers
  <2>3. b.holds = << >>
    BY DEF AddQuantity, EmptyBalance
  <2>4. QED
    BY <1>1, <2>2, <2>3
<1> HIDE DEF hold, b
<1>7. /\ c \in BalanceOf(H) /\ c.quantity = MaxSupply /\ RespectsHolds(b, c, by, now)
  BY <1>1, <1>4, <1>6, LockRespects
<1>8. RespectsHolds(balances[owner], c, by, now)
  <2>1. EmptyBalance \in BalanceOf(H)
    BY EmptyBalances
  <2>2. QED
    BY <1>1, <1>6, <1>7, <2>1, RespectsTransitive
<1>9. ASSUME H \subseteq RegularHolds, NEW t \in Nat, latest' <= t
      PROVE  LockedQuantity(c, t) <= c.quantity
  <2>1. now <= t
    BY <1>3, <1>9
  <2>2. LockedQuantity(c, t) <= LockedQuantity(b, t) + MaxSupply
    BY <1>3, <1>4, <1>5, <1>6, <1>9, <2>1, LockedAfterLock
  <2>3. LockedQuantity(b, t) = 0
    BY <1>6, EmptyBalances, SameHoldsLocked
  <2>4. LockedQuantity(c, t) \in Int
    BY <1>7, <1>9, LockedType
  <2> HIDE DEF c
  <2>5. QED
    BY <1>1, <1>7, <2>2, <2>3, <2>4
<1>10. /\ minted' \in 0 .. MaxSupply /\ burnt' \in Nat
       /\ c.quantity - balances[owner].quantity = (minted' - minted) - (burnt' - burnt)
  BY <1>1, <1>2, <1>7, EmptyBalances
<1> HIDE DEF c
<1>11. QED
  BY <1>2, <1>7, <1>8, <1>9, <1>10, OneBalance DEF CoveredFrom

\* Unlocks change the holds alone, and release what the caller may.
LEMMA UnlocksKeep ==
  ASSUME NEW H, HoldKind(H), IInv(H), NEW by, NEW now \in Times, Called(by, now),
         FollowAll(H, balances, balances', by, now), minted' = minted, burnt' = burnt
  PROVE  Keeps(H, by, now)
<1>1. /\ balances \in [Users -> BalanceOf(H)] /\ minted \in 0 .. MaxSupply /\ burnt \in Nat
  BY DEF IInv, Typed
<1>2. balances' \in [Users -> BalanceOf(H)]
      /\ \A u \in Users : Follows(H, balances[u], balances'[u], by, now)
  BY DEF FollowAll
<1>3. Total(balances') = Total(balances)
  <2>1. \A u \in Users : balances'[u].quantity = balances[u].quantity
    BY <1>2 DEF Follows
  <2>2. QED
    BY <1>1, <1>2, <2>1, TotalSame, SupplyAssumption
<1>4. Total(balances') + burnt' = minted'
  BY <1>3 DEF IInv, Conservation, TotalBalance, Total
<1>5. now \in Nat /\ latest' \in Nat /\ now <= latest'
  BY CallTimes DEF IInv
<1>6. ASSUME NEW u \in Users, H \subseteq RegularHolds, NEW t \in Nat, latest' <= t
      PROVE  LockedQuantity(balances'[u], t) <= balances'[u].quantity
  <2>1. /\ balances[u] \in BalanceOf(H) /\ balances'[u] \in BalanceOf(H)
        /\ balances'[u].quantity = balances[u].quantity /\ balances[u].quantity \in Nat
    BY <1>1, <1>2 DEF Follows, BalanceOf
  <2>2. now <= t
    BY <1>5, <1>6
  <2>3. LockedQuantity(balances'[u], t) <= LockedQuantity(balances[u], t)
    BY <1>2, <1>6, <2>2 DEF Follows, LocksNoMore
  <2>4. LockedQuantity(balances[u], t) <= balances[u].quantity
    BY <1>6, Unchanging DEF CoveredFrom
  <2>5. LockedQuantity(balances'[u], t) \in Int /\ LockedQuantity(balances[u], t) \in Int
    BY <1>6, <2>1, LockedType
  <2>6. QED
    BY <2>1, <2>3, <2>4, <2>5
<1>7. H \subseteq RegularHolds => \A u \in Users : CoveredFrom(balances'[u], latest')
  BY <1>6 DEF CoveredFrom
<1>8. \A u \in Users : RespectsHolds(balances[u], balances'[u], by, now)
  BY <1>2 DEF Follows
<1>9. QED
  BY <1>1, <1>2, <1>4, <1>7, <1>8, CallKeeps

LEMMA UnlockTokenKeeps ==
  ASSUME NEW H, HoldKind(H), IInv(H), NEW by \in Users, NEW now \in Times,
         NEW dto \in UnlockTokenDtos, UnlockToken(by, dto, now)
  PROVE  Keeps(H, by, now)
<1>1. balances \in [Users -> BalanceOf(H)] /\ now \in Nat
  BY TimesAssumption DEF IInv, Typed
<1>2. OrCaller(dto.owner, by) \in Users /\ dto.quantity \in Nat
  BY OrCallerType, SupplyAssumption DEF UnlockTokenDtos, Quantities
<1>3. Called(by, now) /\ minted' = minted /\ burnt' = burnt
      /\ balances' \in Unlocked(balances, by, OrCaller(dto.owner, by), dto.quantity, dto.lockedHoldName, now)
  BY DEF UnlockToken
<1>4. FollowAll(H, balances, balances', by, now)
  BY <1>1, <1>2, <1>3, UnlockedFollow DEF HoldKind
<1>5. QED
  BY <1>3, <1>4, UnlocksKeep

LEMMA UnlockTokensKeeps ==
  ASSUME NEW H, HoldKind(H), IInv(H), NEW by \in Users, NEW now \in Times,
         NEW dto \in UnlockTokensDtos, UnlockTokens(by, dto, now)
  PROVE  Keeps(H, by, now)
<1> DEFINE batch == dto.tokenInstances
<1>1. balances \in [Users -> BalanceOf(H)] /\ now \in Nat
  BY TimesAssumption DEF IInv, Typed
<1>2. PICK n \in 1 .. MaxBatch : batch \in [1 .. n -> LockTokenQuantities]
  BY DEF UnlockTokensDtos, Batches
<1>3. batch \in Seq(LockTokenQuantities)
  BY <1>2, FunctionSequence
<1>4. Called(by, now) /\ minted' = minted /\ burnt' = burnt
      /\ balances' \in UnlockAll(balances, by, batch, dto.name, now)
  BY DEF UnlockTokens
<1> HIDE DEF batch
<1>5. FollowAll(H, balances, balances', by, now)
  BY <1>1, <1>3, <1>4, UnlockAllFollow DEF HoldKind
<1>6. QED
  BY <1>4, <1>5, UnlocksKeep

-----------------------------------------------------------------------------
(* The theorems.                                                           *)

LEMMA NextKeeps ==
  ASSUME NEW H, HoldKind(H), IInv(H), Next
  PROVE  \E by \in Users, now \in Times : Keeps(H, by, now) /\ Called(by, now)
<1>1. PICK by \in Users, now \in Times :
        \/ \E to \in Users, q \in Quantities : Mint(by, to, q, now)
        \/ \E dto \in TransferTokenDtos : TransferToken(by, dto, now)
        \/ \E dto \in BurnTokensDtos : BurnTokens(by, dto, now)
        \/ \E dto \in LockTokenDtos : LockToken(by, dto, now)
        \/ \E dto \in LockTokensDtos : LockTokens(by, dto, now)
        \/ \E owner \in Users, period \in VestingPeriods : CreateVestingToken(by, owner, period, now)
        \/ \E dto \in UnlockTokenDtos : UnlockToken(by, dto, now)
        \/ \E dto \in UnlockTokensDtos : UnlockTokens(by, dto, now)
  BY DEF Next
<1>2. ASSUME NEW to \in Users, NEW q \in Quantities, Mint(by, to, q, now)
      PROVE  Keeps(H, by, now) /\ Called(by, now)
  BY <1>2, MintKeeps DEF Mint
<1>3. ASSUME NEW dto \in TransferTokenDtos, TransferToken(by, dto, now)
      PROVE  Keeps(H, by, now) /\ Called(by, now)
  <2>1. OrCaller(dto.from, by) \in Users /\ dto.to \in Users /\ dto.quantity \in Nat
    BY OrCallerType, SupplyAssumption DEF TransferTokenDtos, Quantities
  <2>2. Transfer(by, OrCaller(dto.from, by), dto.to, dto.quantity, now)
    BY <1>3 DEF TransferToken
  <2>3. Keeps(H, by, now)
    BY <2>1, <2>2, TransferKeeps
  <2>4. QED
    BY <2>2, <2>3 DEF Transfer
<1>4. ASSUME NEW dto \in BurnTokensDtos, BurnTokens(by, dto, now)
      PROVE  Keeps(H, by, now) /\ Called(by, now)
  BY <1>4, BurnTokensKeeps DEF BurnTokens, Burn
<1>5. ASSUME NEW dto \in LockTokenDtos, LockToken(by, dto, now)
      PROVE  Keeps(H, by, now) /\ Called(by, now)
  BY <1>5, LockTokenKeeps DEF LockToken, LockHolds
<1>6. ASSUME NEW dto \in LockTokensDtos, LockTokens(by, dto, now)
      PROVE  Keeps(H, by, now) /\ Called(by, now)
  BY <1>6, LockTokensKeeps DEF LockTokens, LockHolds
<1>7. ASSUME NEW owner \in Users, NEW period \in VestingPeriods, CreateVestingToken(by, owner, period, now)
      PROVE  Keeps(H, by, now) /\ Called(by, now)
  BY <1>7, CreateVestingTokenKeeps DEF CreateVestingToken
<1>8. ASSUME NEW dto \in UnlockTokenDtos, UnlockToken(by, dto, now)
      PROVE  Keeps(H, by, now) /\ Called(by, now)
  BY <1>8, UnlockTokenKeeps DEF UnlockToken
<1>9. ASSUME NEW dto \in UnlockTokensDtos, UnlockTokens(by, dto, now)
      PROVE  Keeps(H, by, now) /\ Called(by, now)
  BY <1>9, UnlockTokensKeeps DEF UnlockTokens
<1>10. QED
  BY <1>1, <1>2, <1>3, <1>4, <1>5, <1>6, <1>7, <1>8, <1>9

LEMMA StepHolds ==
  ASSUME NEW H, HoldKind(H), IInv(H), [Next]_vars
  PROVE  IInv(H)'
<1>1. CASE Next
  BY <1>1, NextKeeps DEF Keeps
<1>2. CASE UNCHANGED vars
  BY <1>2 DEF vars, IInv, Typed, Conservation, TotalBalance, Untouched, Covered
<1>3. QED
  BY <1>1, <1>2

THEOREM ClassHoldsInvariant == Spec => []IInv(ClassHolds)
<1>1. Init => IInv(ClassHolds)
  BY InitHolds
<1>2. IInv(ClassHolds) /\ [Next]_vars => IInv(ClassHolds)'
  BY ClassHoldsKind, StepHolds
<1>3. QED
  BY <1>1, <1>2, PTL DEF Spec

(***************************************************************************)
(* Whatever is minted, moved, held, released or burnt, the quantities and  *)
(* the holds of the balances stay well formed: no quantity gets below zero *)
(* and no more is burnt than was minted (TokenBalance.ts, mint and burn).  *)
(***************************************************************************)
THEOREM TypeCorrect == Spec => []TypeOK
<1>1. IInv(ClassHolds) => TypeOK
  <2> SUFFICES ASSUME IInv(ClassHolds) PROVE TypeOK
    OBVIOUS
  <2>1. balances \in [Users -> BalanceOf(ClassHolds)]
    BY DEF IInv, Typed
  <2>2. \A u \in Users : balances[u].quantity \in Nat /\ balances[u].holds \in Seq(Holds(Quantities, Nat))
    BY <2>1 DEF BalanceOf, ClassHolds
  <2>3. burnt \in 0 .. MaxSupply
    <3>1. Total(balances) \in Nat /\ Total(balances) + burnt = minted
      BY <2>1, TotalType, SupplyAssumption DEF IInv, Conservation, TotalBalance, Total
    <3>2. QED
      BY <3>1, SupplyAssumption DEF IInv, Typed
  <2>4. QED
    BY <2>2, <2>3 DEF TypeOK, IInv, Typed
<1>2. QED
  BY <1>1, ClassHoldsInvariant, PTL

(***************************************************************************)
(* Tokens are neither created nor lost: the balances of all users and what *)
(* was burnt always add up to what was minted, whatever the batches that   *)
(* transfer, lock, unlock and burn them (src/chaincode/src/transfer,       *)
(* locks, burns, mint).                                                    *)
(***************************************************************************)
THEOREM ConservationCorrect == Spec => []Conservation
<1>1. IInv(ClassHolds) => Conservation
  BY DEF IInv
<1>2. QED
  BY <1>1, ClassHoldsInvariant, PTL

(***************************************************************************)
(* What is locked is there: from the latest transaction time on, the holds *)
(* of no balance add up to more than its quantity, though clients choose   *)
(* the times of transactions in any order, and vesting holds release       *)
(* rounded parts (ensureQuantityIsSpendable in TokenBalance.ts).  A class  *)
(* whose vesting period is over as it starts is excluded: at that time     *)
(* the locked quantity of its hold is not a number, and anything can be    *)
(* spent.                                                                  *)
(***************************************************************************)
THEOREM LockedCorrect ==
  ASSUME NoInstantVesting
  PROVE  Spec => []LockedIsCovered
<1>1. Init => IInv(RegularClassHolds)
  BY InitHolds
<1>2. IInv(RegularClassHolds) /\ [Next]_vars => IInv(RegularClassHolds)'
  BY RegularHoldsKind, StepHolds
<1>3. IInv(RegularClassHolds) => LockedIsCovered
  BY TimesAssumption DEF IInv, Covered, CoveredFrom, LockedIsCovered, RegularClassHolds
<1>4. QED
  BY <1>1, <1>2, <1>3, PTL DEF Spec

(***************************************************************************)
(* What is held for a lock authority and has not expired is released by    *)
(* that user or a token authority alone, and vesting holds by nobody, in   *)
(* whichever order the holds are visited and however many quantities one   *)
(* call unlocks (unlockQuantity and isCallingUserAuthorized in             *)
(* TokenBalance.ts).                                                       *)
(***************************************************************************)
THEOREM HoldsCorrect == Spec => HoldsAreRespected
<1> DEFINE Step == \A u \in Users : balances'[u] # balances[u] =>
                     LET now == last'.time
                     IN  /\ \A authority \in Users :
                              HeldFor(balances'[u], authority, now) < HeldFor(balances[u], authority, now)
                                => last'.caller \in Authorities \cup {authority}
                         /\ VestingHolds(balances[u], now) \subseteq VestingHolds(balances'[u], now)
<1>1. IInv(ClassHolds) /\ [Next]_vars => [Step]_vars
  <2> SUFFICES ASSUME IInv(ClassHolds), Next PROVE Step
    OBVIOUS
  <2>1. PICK by \in Users, now \in Times : Keeps(ClassHolds, by, now) /\ Called(by, now)
    BY ClassHoldsKind, NextKeeps
  <2>2. last'.time = now /\ last'.caller = by
    BY <2>1 DEF Called
  <2>3. \A u \in Users : RespectsHolds(balances[u], balances'[u], by, now)
    BY <2>1 DEF Keeps, Respected
  <2>4. QED
    BY <2>2, <2>3 DEF RespectsHolds
<1>2. QED
  BY <1>1, ClassHoldsInvariant, PTL DEF Spec, HoldsAreRespected
=============================================================================
