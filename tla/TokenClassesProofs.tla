-------------------------- MODULE TokenClassesProofs --------------------------
(***************************************************************************)
(* Proofs about TokenClasses: the types, that what is minted suffices for  *)
(* what is configured to be done with it, and that vesting allocations are *)
(* released on schedule.                                                   *)
(***************************************************************************)
EXTENDS TokenClasses, TokenBalanceProofs

-----------------------------------------------------------------------------
(* The numbers.                                                            *)

LEMMA MaxOfTwo ==
  ASSUME NEW a \in Nat, NEW b \in Nat
  PROVE  Max({a, b}) \in {a, b} /\ a <= Max({a, b}) /\ b <= Max({a, b})
<1>1. \E x \in {a, b} : \A y \in {a, b} : x >= y
  <2>1. CASE a <= b
    BY <2>1
  <2>2. CASE b <= a
    BY <2>2
  <2>3. QED
    BY <2>1, <2>2
<1>2. Max({a, b}) \in {a, b} /\ \A y \in {a, b} : Max({a, b}) >= y
  BY <1>1 DEF Max
<1>3. QED
  BY <1>2

\* A part of at most the whole of q.
LEMMA PartType ==
  ASSUME NEW q \in Nat, NEW p \in 0 .. 100
  PROVE  Part(q, p) \in 0 .. q /\ 100 * Part(q, p) <= q * p
<1> DEFINE m == (q * p) \div 100
<1>1. q * p \in Nat /\ q * p <= q * 100
  OBVIOUS
<1>2. m \in Nat /\ 100 * m <= q * p
  BY <1>1
<1> HIDE DEF m
<1>3. m <= q
  BY <1>1, <1>2
<1>4. QED
  BY <1>2, <1>3 DEF Part, m

\* Two parts that are no more than the whole together.
LEMMA PartsType ==
  ASSUME NEW q \in Nat, NEW b \in 0 .. 100, NEW l \in 0 .. 100, b + l <= 100
  PROVE  Part(q, b) + Part(q, l) <= q
<1> DEFINE m == Part(q, b)
           n == Part(q, l)
<1>1. m \in Nat /\ n \in Nat /\ 100 * m <= q * b /\ 100 * n <= q * l
  <2>1. m \in 0 .. q /\ 100 * m <= q * b
    BY PartType
  <2>2. n \in 0 .. q /\ 100 * n <= q * l
    BY PartType
  <2> HIDE DEF m, n
  <2>3. QED
    BY <2>1, <2>2
<1>2. q * b + q * l = q * (b + l)
  OBVIOUS
<1>3. q * (b + l) <= q * 100
  OBVIOUS
<1>4. q * b \in Nat /\ q * l \in Nat
  OBVIOUS
<1> HIDE DEF m, n
<1>5. 100 * m + 100 * n <= q * 100
  BY <1>1, <1>2, <1>3, <1>4
<1>6. QED
  BY <1>1, <1>5 DEF m, n

\* Of q, the share that is not yet due after d of the period p, rounded down, and the share
\* that has vested of a period r that is at least as long, rounded half up, fit into q.
LEMMA SharesFit ==
  ASSUME NEW q \in Nat, NEW p \in Nat \ {0}, NEW d \in 0 .. p, NEW r \in Nat, p <= r
  PROVE  (q * (p - d)) \div p + (2 * q * d + r) \div (2 * r) <= q
<1> DEFINE a == q * (p - d)
           n == a \div p
           c == 2 * q * d + r
           m == c \div (2 * r)
           x == q * d
           y == q * p
           s == 2 * m - 1
<1>1. x \in Nat /\ y \in Nat
  OBVIOUS
<1>2. a = y - x /\ a \in Nat
  OBVIOUS
<1>3. c = 2 * x + r
  OBVIOUS
<1>4. n \in Nat /\ p * n <= a
  <2> HIDE DEF a
  <2>1. QED
    BY <1>2, Division
<1>5. m \in Nat /\ (2 * r) * m <= c
  <2>1. c \in Nat /\ 2 * r \in Nat \ {0}
    BY <1>1, <1>3
  <2> HIDE DEF c
  <2>2. QED
    BY <2>1, Division
<1> HIDE DEF a, n, c, m, x
<1>6. SUFFICES ASSUME q + 1 <= n + m PROVE FALSE
  BY <1>4, <1>5 DEF n, m, a, c
<1>7. p * s <= 2 * x
  <2>1. CASE m = 0
    <3>1. p * s = 0 - p
      BY <2>1
    <3>2. QED
      BY <1>1, <3>1
  <2>2. CASE m # 0
    <3>1. s \in Nat
      BY <1>5, <2>2
    <3>2. (2 * r) * m = r * s + r /\ r * s \in Nat
      BY <1>5, <3>1
    <3> HIDE DEF s
    <3>3. p * s <= r * s /\ p * s \in Nat
      BY <3>1
    <3>4. QED
      BY <1>1, <1>3, <1>5, <3>2, <3>3
  <2>3. QED
    BY <2>1, <2>2
<1>8. 2 * (p * n) + p * s = p * (2 * n + s) /\ p * n \in Nat /\ p * s \in Int
  BY <1>4, <1>5
<1>9. 2 * (p * n) + p * s <= 2 * y
  BY <1>1, <1>2, <1>4, <1>7, <1>8
<1>10. 2 * n + s >= 2 * q + 1 /\ 2 * n + s \in Int
  BY <1>4, <1>5, <1>6
<1> DEFINE z == 2 * n + s
<1>11. p * z >= p * (2 * q + 1)
  <2>1. z \in Int /\ z >= 2 * q + 1
    BY <1>10
  <2> HIDE DEF z, s
  <2>2. QED
    BY <2>1
<1>12. p * (2 * q + 1) = 2 * y + p
  OBVIOUS
<1> HIDE DEF s, y
<1>13. QED
  BY <1>1, <1>8, <1>9, <1>11, <1>12

-----------------------------------------------------------------------------
(* What has not vested, and the holds that are to keep it.                 *)

\* Every allocation has a cliff, and vests over some days: of another one the hold is over
\* as it starts, or never was one.
VestsGradually ==
  \A allocations \in Allocations : \A i \in DOMAIN allocations :
    allocations[i].cliff >= 1 /\ allocations[i].vestingDays >= 1

LEMMA AllocationFields ==
  ASSUME NEW a \in Allocation
  PROVE  /\ a.owner \in Users /\ a.quantity \in Nat /\ a.cliff \in Nat /\ a.vestingDays \in Nat
         /\ a.name \in Names
BY DEF Allocation

LEMMA UnvestedType ==
  ASSUME NEW a \in Allocation, NEW startDate \in Nat, NEW t \in Nat
  PROVE  Unvested(a, startDate, t) \in Nat
<1> DEFINE start == startDate + a.cliff
           end == start + a.vestingDays
           q == a.quantity
           p == a.vestingDays
           e == end - t
<1>1. start \in Nat /\ end \in Nat /\ q \in Nat /\ p \in Nat /\ end = start + p
  BY AllocationFields
<1>2. CASE t < start
  BY <1>1, <1>2 DEF Unvested
<1>3. CASE ~(t < start) /\ t >= end
  BY <1>1, <1>3 DEF Unvested
<1>4. CASE ~(t < start) /\ ~(t >= end)
  <2>1. Unvested(a, startDate, t) = (q * e) \div p
    BY <1>4 DEF Unvested
  <2>2. e \in Nat /\ p \in Nat \ {0}
    BY <1>1, <1>4
  <2> HIDE DEF q, e, p
  <2>3. q * e \in Nat
    BY <1>1, <2>2
  <2>4. QED
    BY <2>1, <2>2, <2>3, Division
<1>5. QED
  BY <1>2, <1>3, <1>4

LEMMA VestingHoldFields ==
  ASSUME NEW a \in Allocation, NEW startDate \in Nat, NEW by \in Users, NEW now \in Nat
  PROVE  /\ VestingHold(a, startDate, by, now) \in AllHolds
         /\ VestingHold(a, startDate, by, now).quantity = a.quantity
<1> DEFINE hold == VestingHold(a, startDate, by, now)
           start == startDate + a.cliff
           expires == IF a.cliff = 0 THEN startDate ELSE start + a.vestingDays
           vestingStart == IF start = 0 THEN None ELSE start
<1>1. /\ a.owner \in Users /\ a.quantity \in Nat /\ a.name \in Names
      /\ expires \in Nat /\ vestingStart \in Nat \cup {None}
  BY AllocationFields
<1>2. Max({expires, now}) \in Nat
  <2> HIDE DEF expires
  <2>1. QED
    BY <1>1, MaxOfTwo
<1>3. hold = [quantity |-> a.quantity, expires |-> Max({expires, now}), name |-> a.name,
              createdBy |-> a.owner, lockAuthority |-> by, vestingStart |-> vestingStart]
  BY DEF VestingHold
<1> HIDE DEF hold, expires, vestingStart
<1>4. hold \in AllHolds
  BY <1>1, <1>2, <1>3 DEF AllHolds, Holds
<1>5. QED
  BY <1>3, <1>4 DEF hold

\* The hold of an allocation with a cliff and days of vesting.
LEMMA GradualHold ==
  ASSUME NEW a \in Allocation, a.cliff >= 1, a.vestingDays >= 1,
         NEW startDate \in Nat, NEW by \in Users, NEW now \in Nat
  PROVE  LET hold  == VestingHold(a, startDate, by, now)
             start == startDate + a.cliff
         IN  /\ IsVesting(hold) /\ hold \in RegularHolds
             /\ hold.vestingStart = start /\ hold.expires \in Nat /\ hold.expires # 0
             /\ start + a.vestingDays <= hold.expires
<1> DEFINE hold == VestingHold(a, startDate, by, now)
           start == startDate + a.cliff
           end == start + a.vestingDays
<1>1. start \in Nat /\ start # 0 /\ end \in Nat /\ start < end /\ a.cliff # 0
  BY AllocationFields
<1>2. hold.vestingStart = start /\ hold.expires = Max({end, now})
  BY <1>1 DEF VestingHold
<1>3. hold \in AllHolds
  BY VestingHoldFields
<1> HIDE DEF hold, start, end
<1>4. hold.expires \in Nat /\ end <= hold.expires
  BY <1>1, <1>2, MaxOfTwo
<1>5. IsVesting(hold)
  BY <1>1, <1>2, NoneAssumption DEF IsVesting
<1>6. hold \in RegularHolds /\ hold.expires # 0
  BY <1>1, <1>2, <1>3, <1>4 DEF RegularHolds
<1>7. QED
  BY <1>2, <1>4, <1>5, <1>6 DEF hold, start, end

\* At any time it locks what has not vested.
LEMMA UnvestedIsLocked ==
  ASSUME NEW a \in Allocation, a.cliff >= 1, a.vestingDays >= 1,
         NEW startDate \in Nat, NEW by \in Users, NEW now \in Nat, NEW t \in Nat
  PROVE  Unvested(a, startDate, t) <= LockedOf(VestingHold(a, startDate, by, now), t)
<1> DEFINE hold == VestingHold(a, startDate, by, now)
           start == startDate + a.cliff
           end == start + a.vestingDays
           q == a.quantity
           p == a.vestingDays
           r == hold.expires - start
           d == t - start
<1>1. /\ start \in Nat /\ p \in Nat \ {0} /\ q \in Nat /\ end = start + p
  BY AllocationFields
<1>2. /\ IsVesting(hold) /\ hold \in RegularHolds /\ hold.quantity = q
      /\ hold.vestingStart = start /\ hold.expires \in Nat /\ hold.expires # 0 /\ end <= hold.expires
  BY GradualHold, VestingHoldFields
<1>3. LockedOf(hold, t) \in 0 .. q
  <2> HIDE DEF hold, q
  <2>1. QED
    BY <1>2, HoldLocks
<1>4. Unvested(a, startDate, t)
        = IF t < start THEN q ELSE IF t >= end THEN 0 ELSE (q * (end - t)) \div p
  <2>1. ~(t < start /\ t >= end)
    BY <1>1
  <2>2. QED
    BY <2>1 DEF Unvested
<1>5. LockedOf(hold, t) = IF IsExpired(hold, t) THEN 0 ELSE LockedVestingQuantity(hold, t)
  BY <1>2 DEF LockedOf, HoldQuantity
<1> HIDE DEF hold, q
<1>6. CASE t < start
  <2>1. ~IsExpired(hold, t)
    BY <1>1, <1>2, <1>6 DEF IsExpired
  <2>2. LockedOf(hold, t) = q
    BY <1>2, <1>5, <1>6, <2>1 DEF LockedVestingQuantity
  <2>3. QED
    BY <1>1, <1>4, <1>6, <2>2 DEF hold
<1>7. CASE ~(t < start) /\ t >= end
  BY <1>3, <1>1, <1>4, <1>7 DEF hold
<1>8. CASE ~(t < start) /\ ~(t >= end)
  <2>1. d \in 0 .. p /\ r \in Nat \ {0} /\ p <= r /\ end - t = p - d
    BY <1>1, <1>2, <1>8
  <2>2. ~IsExpired(hold, t) /\ ~(t > hold.expires)
    BY <1>1, <1>2, <1>8 DEF IsExpired
  <2>3. LockedOf(hold, t) = q - (2 * q * d + r) \div (2 * r)
    BY <1>2, <1>5, <1>8, <2>2 DEF LockedVestingQuantity
  <2>4. Unvested(a, startDate, t) = (q * (p - d)) \div p
    BY <1>4, <1>8, <2>1
  <2> DEFINE x == (q * (p - d)) \div p
             y == (2 * q * d + r) \div (2 * r)
  <2> HIDE DEF p, r, d
  <2>5. x + y <= q
    BY <1>1, <2>1, SharesFit
  <2>6. x \in Nat /\ y \in Nat
    <3>1. q * (p - d) \in Nat /\ 2 * q * d + r \in Nat /\ 2 * r \in Nat \ {0}
      <4>1. p - d \in Nat /\ d \in Nat
        BY <1>1, <2>1
      <4>2. QED
        BY <1>1, <2>1, <4>1
    <3>2. QED
      BY <1>1, <3>1, Division
  <2> HIDE DEF x, y
  <2>7. x <= q - y
    BY <1>1, <2>5, <2>6
  <2>8. QED
    BY <2>3, <2>4, <2>7 DEF x, y, hold
<1>9. QED
  BY <1>6, <1>7, <1>8

-----------------------------------------------------------------------------
(* What the vesting holds of a balance lock, and what becomes of it.       *)

VestingOf(H, t) == [h \in H |-> IF IsVesting(h) THEN LockedOf(h, t) ELSE 0]

VestingQuantity(H, b, t) == SumOver(b.holds, VestingOf(H, t))

LEMMA VestingOfType ==
  ASSUME NEW H, H \subseteq RegularHolds, NEW t \in Nat
  PROVE  /\ VestingOf(H, t) \in [H -> Int]
         /\ \A h \in H : 0 <= VestingOf(H, t)[h] /\ VestingOf(H, t)[h] <= LockedOfAll(H, t)[h]
<1>1. ASSUME NEW h \in H PROVE LockedOf(h, t) \in Nat
  <2>1. h.quantity \in Nat /\ LockedOf(h, t) \in 0 .. h.quantity
    BY HoldFields, HoldLocks DEF RegularHolds
  <2>2. QED
    BY <2>1
<1>2. QED
  BY <1>1 DEF VestingOf, LockedOfAll

LEMMA VestingType ==
  ASSUME NEW H, H \subseteq RegularHolds, NEW b \in BalanceOf(H), NEW t \in Nat
  PROVE  VestingQuantity(H, b, t) \in Int
<1>1. b.holds \in Seq(H)
  BY DEF BalanceOf
<1>2. QED
  BY <1>1, VestingOfType, SumOverType DEF VestingQuantity

LEMMA VestingIsLocked ==
  ASSUME NEW H, H \subseteq RegularHolds, NEW b \in BalanceOf(H), NEW t \in Nat
  PROVE  VestingQuantity(H, b, t) <= LockedQuantity(b, t)
<1>1. b.holds \in Seq(H)
  BY DEF BalanceOf
<1>2. SumOver(b.holds, VestingOf(H, t)) <= SumOver(b.holds, LockedOfAll(H, t))
  BY <1>1, VestingOfType, LockedOfAllType, SumOverMonotone
<1>3. QED
  BY <1>2, LockedIsSum DEF VestingQuantity

\* The holds that have expired by now lock nothing from now on.
LEMMA VestingOfUnexpired ==
  ASSUME NEW H, H \subseteq RegularHolds, NEW b \in BalanceOf(H),
         NEW now \in Nat, NEW t \in Nat, now <= t
  PROVE  SumOver(UnexpiredHolds(b, now), VestingOf(H, t)) = VestingQuantity(H, b, t)
<1> DEFINE value == VestingOf(H, t)
<1>1. value \in [H -> Int]
  BY VestingOfType
<1>2. ASSUME NEW h \in H, IsExpired(h, now) PROVE value[h] = 0
  <2>1. h.expires \in Nat
    BY HoldFields DEF RegularHolds
  <2>2. IsExpired(h, t)
    BY <1>2, <2>1 DEF IsExpired
  <2>3. QED
    BY <2>2 DEF VestingOf, LockedOf
<1> HIDE DEF value
<1>3. SumOver(UnexpiredHolds(b, now), value) = SumOver(b.holds, value)
  BY <1>1, <1>2, SumOfUnexpired
<1>4. QED
  BY <1>3 DEF VestingQuantity, value

LEMMA VestingAfterLock ==
  ASSUME NEW H, H \subseteq RegularHolds, NEW b \in BalanceOf(H), NEW hold \in H,
         NEW now \in Nat, NEW t \in Nat, now <= t
  PROVE  VestingQuantity(H, LockQuantity(b, hold, now), t)
           = VestingQuantity(H, b, t) + VestingOf(H, t)[hold]
<1> DEFINE s == UnexpiredHolds(b, now)
           value == VestingOf(H, t)
<1>1. s \in Seq(H) /\ value \in [H -> Int]
  BY UnexpiredType, VestingOfType
<1>2. LockQuantity(b, hold, now).holds = Append(s, hold)
  <2> HIDE DEF s
  <2>1. QED
    BY DEF LockQuantity, BalanceOf, s
<1>3. SumOver(s, value) = VestingQuantity(H, b, t)
  BY VestingOfUnexpired
<1> HIDE DEF s, value
<1>4. SumOver(Append(s, hold), value) = SumOver(s, value) + value[hold]
  BY <1>1, SumOverAppend
<1>5. QED
  BY <1>2, <1>3, <1>4 DEF VestingQuantity, value

\* Vesting holds are not unlocked.
LEMMA VestingAfterUnlock ==
  ASSUME NEW H, Kind(H), H \subseteq RegularHolds, NEW b \in BalanceOf(H), NEW q \in Nat,
         NEW name, NEW owner, NEW by, NEW isTokenAuthority,
         NEW now \in Nat, NEW t \in Nat, now <= t,
         NEW order \in VisitOrders(UnexpiredHolds(b, now))
  PROVE  LET result == UnlockQuantity(b, q, now, name, owner, by, isTokenAuthority, order)
         IN  SumOver(result.kept, VestingOf(H, t)) = VestingQuantity(H, b, t)
<1> DEFINE value == VestingOf(H, t)
           result == UnlockQuantity(b, q, now, name, owner, by, isTokenAuthority, order)
<1>1. value \in [H -> Int]
  BY VestingOfType
<1>2. Unreleased(H, value, name, owner, by, isTokenAuthority)
  <2>1. ASSUME NEW h \in H, ~IsVesting(h)
        PROVE  value[h] = 0 /\ \A m \in 1 .. h.quantity : value[[h EXCEPT !.quantity = m]] = 0
    <3>1. ASSUME NEW m \in 1 .. h.quantity PROVE value[[h EXCEPT !.quantity = m]] = 0
      <4> DEFINE part == [h EXCEPT !.quantity = m]
      <4>1. part \in H
        BY DEF Kind
      <4>2. ~IsVesting(part)
        BY <2>1 DEF Kind, AllHolds, Holds, IsVesting
      <4> HIDE DEF part
      <4>3. value[part] = 0
        BY <4>1, <4>2 DEF VestingOf
      <4>4. QED
        BY <4>3 DEF part
    <3>2. QED
      BY <2>1, <3>1 DEF VestingOf
  <2>2. QED
    BY <2>1 DEF Unreleased
<1> HIDE DEF value
<1>3. SumOver(result.kept, value) = SumOver(UnexpiredHolds(b, now), value)
  BY <1>1, <1>2, UnlockSums
<1>4. SumOver(UnexpiredHolds(b, now), value) = VestingQuantity(H, b, t)
  BY VestingOfUnexpired DEF value
<1>5. QED
  BY <1>3, <1>4 DEF value

-----------------------------------------------------------------------------
(* What a call may make of a balance.                                      *)

\* From a time on, c covers its holds, and keeps what is vesting in b.
Follows(H, b, c, since) ==
  /\ c \in BalanceOf(H)
  /\ H \subseteq RegularHolds =>
       /\ CoveredFrom(c, since)
       /\ \A t \in Nat : since <= t => VestingQuantity(H, b, t) <= VestingQuantity(H, c, t)

LEMMA FollowsTransitive ==
  ASSUME NEW H, NEW a \in BalanceOf(H), NEW b, NEW c, NEW since,
         Follows(H, a, b, since), Follows(H, b, c, since)
  PROVE  Follows(H, a, c, since)
<1>1. ASSUME H \subseteq RegularHolds, NEW t \in Nat, since <= t
      PROVE  VestingQuantity(H, a, t) <= VestingQuantity(H, c, t)
  <2>1. /\ VestingQuantity(H, a, t) \in Int /\ VestingQuantity(H, b, t) \in Int
        /\ VestingQuantity(H, c, t) \in Int
    BY <1>1, VestingType DEF Follows
  <2>2. /\ VestingQuantity(H, a, t) <= VestingQuantity(H, b, t)
        /\ VestingQuantity(H, b, t) <= VestingQuantity(H, c, t)
    BY <1>1 DEF Follows
  <2>3. QED
    BY <2>1, <2>2
<1>2. QED
  BY <1>1 DEF Follows

\* The same holds vest the same.
LEMMA SameHoldsFollow ==
  ASSUME NEW H, NEW b \in BalanceOf(H), NEW c \in BalanceOf(H), c.holds = b.holds, NEW since,
         H \subseteq RegularHolds => CoveredFrom(c, since)
  PROVE  Follows(H, b, c, since)
<1>1. ASSUME H \subseteq RegularHolds, NEW t \in Nat
      PROVE  VestingQuantity(H, b, t) <= VestingQuantity(H, c, t)
  <2>1. VestingQuantity(H, c, t) = VestingQuantity(H, b, t)
    BY DEF VestingQuantity
  <2>2. VestingQuantity(H, b, t) \in Int
    BY <1>1, VestingType
  <2>3. QED
    BY <2>1, <2>2
<1>2. QED
  BY <1>1 DEF Follows

LEMMA AddType ==
  ASSUME NEW H, NEW b \in BalanceOf(H), NEW q \in Nat
  PROVE  /\ AddQuantity(b, q) \in BalanceOf(H) /\ AddQuantity(b, q).quantity = b.quantity + q
         /\ AddQuantity(b, q).holds = b.holds
BY DEF AddQuantity, BalanceOf

LEMMA AddFollows ==
  ASSUME NEW H, NEW b \in BalanceOf(H), NEW q \in Nat, NEW since,
         H \subseteq RegularHolds => CoveredFrom(b, since)
  PROVE  /\ Follows(H, b, AddQuantity(b, q), since)
         /\ AddQuantity(b, q).quantity = b.quantity + q /\ AddQuantity(b, q).holds = b.holds
<1> DEFINE c == AddQuantity(b, q)
<1>1. c \in BalanceOf(H) /\ c.quantity = b.quantity + q /\ c.holds = b.holds /\ b.quantity \in Nat
  BY AddType DEF BalanceOf
<1> HIDE DEF c
<1>2. ASSUME H \subseteq RegularHolds, NEW t \in Nat, since <= t
      PROVE  LockedQuantity(c, t) <= c.quantity
  <2>1. LockedQuantity(c, t) = LockedQuantity(b, t)
    BY <1>1, SameHoldsLocked
  <2>2. LockedQuantity(b, t) <= b.quantity
    BY <1>2 DEF CoveredFrom
  <2>3. LockedQuantity(b, t) \in Int
    BY <1>2, LockedType
  <2>4. QED
    BY <1>1, <2>1, <2>2, <2>3
<1>3. Follows(H, b, c, since)
  BY <1>1, <1>2, SameHoldsFollow DEF CoveredFrom
<1>4. QED
  BY <1>1, <1>3 DEF c

LEMMA SpendFollows ==
  ASSUME NEW H, NEW b \in BalanceOf(H), NEW q \in Nat, NEW now \in Nat, NEW since \in Nat,
         now <= since, IsSpendable(b, q, now)
  PROVE  /\ Follows(H, b, SubtractQuantity(b, q), since)
         /\ SubtractQuantity(b, q).quantity = b.quantity - q
<1> DEFINE c == SubtractQuantity(b, q)
<1>1. b.quantity \in Nat /\ q <= b.quantity
  BY DEF IsSpendable, BalanceOf
<1>2. c \in BalanceOf(H) /\ c.quantity = b.quantity - q /\ c.holds = b.holds
  <2>1. b.quantity - q \in Nat
    BY <1>1
  <2>2. QED
    BY <2>1 DEF SubtractQuantity, BalanceOf
<1> HIDE DEF c
<1>3. ASSUME H \subseteq RegularHolds, NEW t \in Nat, since <= t
      PROVE  LockedQuantity(c, t) <= c.quantity
  <2>1. LockedQuantity(c, t) = LockedQuantity(b, t)
    BY <1>2, SameHoldsLocked
  <2>2. LockedQuantity(b, now) + q <= b.quantity
    BY <1>3, SpendableIsFree
  <2>3. LockedQuantity(b, t) <= LockedQuantity(b, now)
    BY <1>3, LockedReleases
  <2>4. LockedQuantity(b, t) \in Int /\ LockedQuantity(b, now) \in Int
    BY <1>3, LockedType
  <2>5. QED
    BY <1>1, <1>2, <2>1, <2>2, <2>3, <2>4
<1>4. Follows(H, b, c, since)
  BY <1>2, <1>3, SameHoldsFollow DEF CoveredFrom
<1>5. QED
  BY <1>2, <1>4 DEF c

LEMMA LockFollows ==
  ASSUME NEW H, NEW b \in BalanceOf(H), NEW hold \in H, H \subseteq AllHolds,
         NEW now \in Nat, NEW since \in Nat, now <= since, IsSpendable(b, hold.quantity, now)
  PROVE  /\ Follows(H, b, LockQuantity(b, hold, now), since)
         /\ LockQuantity(b, hold, now).quantity = b.quantity
<1> DEFINE c == LockQuantity(b, hold, now)
<1>1. b.quantity \in Nat /\ hold.quantity \in Nat
  BY HoldFields DEF BalanceOf
<1>2. c \in BalanceOf(H) /\ c.quantity = b.quantity
  <2>1. Append(UnexpiredHolds(b, now), hold) \in Seq(H)
    BY UnexpiredType
  <2>2. QED
    BY <2>1 DEF LockQuantity, BalanceOf
<1>3. ASSUME H \subseteq RegularHolds, NEW t \in Nat, since <= t
      PROVE  /\ LockedQuantity(c, t) <= c.quantity
             /\ VestingQuantity(H, b, t) <= VestingQuantity(H, c, t)
  <2>1. LockedQuantity(b, now) + hold.quantity <= b.quantity
    BY <1>1, <1>3, SpendableIsFree
  <2>2. LockedQuantity(b, t) <= LockedQuantity(b, now)
    BY <1>3, LockedReleases
  <2>3. LockedQuantity(c, t) <= LockedQuantity(b, t) + hold.quantity
    BY <1>3, LockedAfterLock
  <2>4. /\ LockedQuantity(b, t) \in Int /\ LockedQuantity(b, now) \in Int
        /\ LockedQuantity(c, t) \in Int
    BY <1>2, <1>3, LockedType
  <2>5. VestingQuantity(H, c, t) = VestingQuantity(H, b, t) + VestingOf(H, t)[hold]
    BY <1>3, VestingAfterLock
  <2>6. VestingQuantity(H, b, t) \in Int /\ VestingOf(H, t)[hold] \in Nat
    <3>1. VestingOf(H, t)[hold] \in Int /\ 0 <= VestingOf(H, t)[hold]
      BY <1>3, VestingOfType
    <3>2. QED
      BY <1>3, <3>1, VestingType
  <2> HIDE DEF c
  <2>7. LockedQuantity(c, t) <= c.quantity
    BY <1>1, <1>2, <2>1, <2>2, <2>3, <2>4
  <2>8. VestingQuantity(H, b, t) <= VestingQuantity(H, c, t)
    BY <2>5, <2>6
  <2>9. QED
    BY <2>7, <2>8
<1> HIDE DEF c
<1>4. Follows(H, b, c, since)
  BY <1>2, <1>3 DEF Follows, CoveredFrom
<1>5. QED
  BY <1>2, <1>4 DEF c

LEMMA UnlockFollows ==
  ASSUME NEW H, Kind(H), NEW b \in BalanceOf(H), NEW q \in Nat,
         NEW name, NEW owner, NEW by, NEW isTokenAuthority,
         NEW now \in Nat, NEW since \in Nat, now <= since,
         NEW order \in VisitOrders(UnexpiredHolds(b, now)),
         H \subseteq RegularHolds => CoveredFrom(b, since)
  PROVE  LET result == UnlockQuantity(b, q, now, name, owner, by, isTokenAuthority, order)
             after  == [b EXCEPT !.holds = result.kept]
         IN  Follows(H, b, after, since) /\ after.quantity = b.quantity
<1> DEFINE result == UnlockQuantity(b, q, now, name, owner, by, isTokenAuthority, order)
           after == [b EXCEPT !.holds = result.kept]
<1>1. /\ after \in BalanceOf(H) /\ after.quantity = b.quantity /\ after.holds = result.kept
      /\ \A t \in Nat : now \in Nat /\ now <= t /\ H \subseteq RegularHolds
           => LockedQuantity(after, t) <= LockedQuantity(b, t)
  <2>1. /\ result.kept \in Seq(H) /\ result.remaining \in Nat
        /\ after \in BalanceOf(H) /\ after.quantity = b.quantity
        /\ after.holds = result.kept /\ b.holds \in Seq(H)
        /\ \A t \in Nat : now \in Nat /\ now <= t /\ H \subseteq RegularHolds
             => LockedQuantity(after, t) <= LockedQuantity(b, t)
    BY UnlockLocksLess
  <2> HIDE DEF result, after
  <2>2. QED
    BY <2>1
<1>2. b.quantity \in Nat
  BY DEF BalanceOf
<1>3. ASSUME H \subseteq RegularHolds, NEW t \in Nat, since <= t
      PROVE  /\ LockedQuantity(after, t) <= after.quantity
             /\ VestingQuantity(H, b, t) <= VestingQuantity(H, after, t)
  <2>1. LockedQuantity(after, t) <= LockedQuantity(b, t)
    <3> HIDE DEF result, after
    <3>1. now <= t
      BY <1>3
    <3>2. QED
      BY <1>1, <1>3, <3>1
  <2>2. LockedQuantity(b, t) <= b.quantity
    BY <1>3 DEF CoveredFrom
  <2>3. SumOver(result.kept, VestingOf(H, t)) = VestingQuantity(H, b, t)
    BY <1>3, VestingAfterUnlock
  <2> HIDE DEF result, after
  <2>4. LockedQuantity(after, t) \in Int /\ LockedQuantity(b, t) \in Int
    BY <1>1, <1>3, LockedType
  <2>5. VestingQuantity(H, after, t) = VestingQuantity(H, b, t) /\ VestingQuantity(H, b, t) \in Int
    BY <1>1, <1>3, <2>3, VestingType DEF VestingQuantity
  <2>6. QED
    BY <1>1, <1>2, <2>1, <2>2, <2>4, <2>5
<1> HIDE DEF result, after
<1>4. Follows(H, b, after, since)
  BY <1>1, <1>3 DEF Follows, CoveredFrom
<1>5. QED
  BY <1>1, <1>4 DEF after, result

-----------------------------------------------------------------------------
(* The folds over the allocations of a class.                              *)

AllocateAll(held, allocations, startDate, by, now) ==
  FoldLeft(LAMBDA b, a : Allocate(b, a, startDate, by, now), held, allocations)

AllocationRun(run, A, allocations, held, startDate, by, now) ==
  /\ run \in [0 .. Len(allocations) -> A]
  /\ run[0] = held
  /\ \A i \in 1 .. Len(allocations) :
       run[i] = Allocate(run[i - 1], allocations[i], startDate, by, now)

\* No allocation leaves the set A.
AllocatesWithin(A, allocations, startDate, by, now) ==
  \A h \in A : \A i \in DOMAIN allocations : Allocate(h, allocations[i], startDate, by, now) \in A

LEMMA AllocateRun ==
  ASSUME NEW A, NEW held \in A, NEW allocations \in Seq(Allocation),
         NEW startDate, NEW by, NEW now, AllocatesWithin(A, allocations, startDate, by, now)
  PROVE  \E run :
           /\ AllocationRun(run, A, allocations, held, startDate, by, now)
           /\ AllocateAll(held, allocations, startDate, by, now) = run[Len(allocations)]
<1> DEFINE X == ToSet(allocations)
           Turn(a, h) == Allocate(h, a, startDate, by, now)
           G == [a \in X |-> [h \in A |-> Turn(a, h)]]
           Solves(iter) == iter = [T \in SUBSET DOMAIN allocations |->
                                     IF T = {} THEN held ELSE Turn(allocations[Max(T)], iter[T \ {Max(T)}])]
<1>1. allocations \in Seq(X)
  <2>1. \A i \in DOMAIN allocations : allocations[i] \in X
    BY DEF ToSet
  <2>2. allocations \in [1 .. Len(allocations) -> X] /\ Len(allocations) \in Nat
    <3> HIDE DEF X
    <3>1. QED
      BY <2>1
  <2>3. QED
    BY <2>2, FunctionSequence
<1>2. ASSUME NEW a \in X, NEW h \in A PROVE Turn(a, h) \in A
  BY DEF ToSet, AllocatesWithin
<1> HIDE DEF X, Turn
<1>3. G \in [X -> [A -> A]] /\ \A a \in X : \A h \in A : G[a][h] = Turn(a, h)
  BY <1>2
<1> HIDE DEF G
<1>4. Foldable(allocations, X, A, held, G)
  BY <1>1, <1>3 DEF Foldable
<1>5. DOMAIN allocations = 1 .. Len(allocations) /\ Len(allocations) \in Nat
      /\ \A i \in 1 .. Len(allocations) : allocations[i] \in X
  BY <1>1
<1>6. ASSUME NEW T \in SUBSET DOMAIN allocations, T # {} PROVE allocations[Max(T)] \in X
  BY <1>5, <1>6, MaxOfIndices
<1>7. PICK it \in [SUBSET DOMAIN allocations -> A] : Accumulates(it, allocations, held, A, G)
  BY <1>4, AccumulatorsExist
<1>8. \E iter : Solves(iter)
  <2>1. ASSUME NEW T \in SUBSET DOMAIN allocations
        PROVE  it[T] = IF T = {} THEN held ELSE Turn(allocations[Max(T)], it[T \ {Max(T)}])
    <3>1. it[T] = IF T = {} THEN held ELSE G[allocations[Max(T)]][it[T \ {Max(T)}]]
      BY <1>7 DEF Accumulates
    <3>2. it[T \ {Max(T)}] \in A
      BY <1>7
    <3>3. QED
      BY <1>3, <1>6, <3>1, <3>2
  <2>2. Solves(it)
    BY <1>7, <2>1
  <2>3. QED
    BY <2>2
<1> DEFINE iter == CHOOSE iter : Solves(iter)
<1>9. Solves(iter)
  BY <1>8
<1>10. AllocateAll(held, allocations, startDate, by, now) = iter[DOMAIN allocations]
  BY DEF AllocateAll, FoldLeft, MapThenFoldSet, Turn
<1> HIDE DEF iter
<1>11. AccumulatesWithin(iter, allocations, held, A, G)
  <2>1. iter[{}] = held
    BY <1>9
  <2>2. ASSUME NEW T \in SUBSET DOMAIN allocations, T # {}, iter[T \ {Max(T)}] \in A
        PROVE  iter[T] = G[allocations[Max(T)]][iter[T \ {Max(T)}]]
    <3>1. iter[T] = Turn(allocations[Max(T)], iter[T \ {Max(T)}])
      BY <1>9, <2>2
    <3>2. QED
      BY <1>3, <1>6, <2>2, <3>1
  <2>3. QED
    BY <2>1, <2>2 DEF AccumulatesWithin
<1>12. PICK run : IsRun(run, allocations, held, A, G) /\ run[Len(allocations)] = iter[DOMAIN allocations]
  BY <1>4, <1>11, AccumulatorsRun
<1>13. run \in [0 .. Len(allocations) -> A] /\ run[0] = held
  BY <1>12 DEF IsRun
<1>14. ASSUME NEW i \in 1 .. Len(allocations) PROVE run[i] = Turn(allocations[i], run[i - 1])
  <2>1. run[i] = G[allocations[i]][run[i - 1]]
    BY <1>12 DEF IsRun
  <2>2. i - 1 \in 0 .. Len(allocations)
    BY <1>5
  <2>3. run[i - 1] \in A
    BY <1>13, <2>2
  <2>4. QED
    BY <1>3, <1>5, <2>1, <2>3
<1>15. AllocationRun(run, A, allocations, held, startDate, by, now)
  BY <1>13, <1>14 DEF AllocationRun, Turn
<1>16. QED
  BY <1>10, <1>12, <1>13, <1>15

\* A sum over the allocations.
SumRun(run, allocations, value) ==
  /\ run \in [0 .. Len(allocations) -> Nat]
  /\ run[0] = 0
  /\ \A i \in 1 .. Len(allocations) : run[i] = run[i - 1] + value[allocations[i]]

Sums(iter, allocations, value) ==
  iter = [T \in SUBSET DOMAIN allocations |->
            IF T = {} THEN 0 ELSE iter[T \ {Max(T)}] + value[allocations[Max(T)]]]

LEMMA SumsRun ==
  ASSUME NEW allocations \in Seq(Allocation), NEW value \in [Allocation -> Nat]
  PROVE  /\ \E iter : Sums(iter, allocations, value)
         /\ \A iter : Sums(iter, allocations, value)
              => \E run : SumRun(run, allocations, value) /\ run[Len(allocations)] = iter[DOMAIN allocations]
<1> DEFINE X == Allocation
           Turn(a, n) == n + value[a]
           G == [a \in X |-> [n \in Nat |-> Turn(a, n)]]
<1>1. \A a \in X : \A n \in Nat : Turn(a, n) \in Nat
  OBVIOUS
<1> HIDE DEF X, Turn
<1>2. G \in [X -> [Nat -> Nat]] /\ \A a \in X : \A n \in Nat : G[a][n] = Turn(a, n)
  BY <1>1
<1> HIDE DEF G
<1>3. Foldable(allocations, X, Nat, 0, G)
  BY <1>2 DEF Foldable, X
<1>4. DOMAIN allocations = 1 .. Len(allocations) /\ Len(allocations) \in Nat
      /\ \A i \in 1 .. Len(allocations) : allocations[i] \in X
  BY DEF X
<1>5. ASSUME NEW T \in SUBSET DOMAIN allocations, T # {} PROVE allocations[Max(T)] \in X
  BY <1>4, <1>5, MaxOfIndices
<1>6. PICK it \in [SUBSET DOMAIN allocations -> Nat] : Accumulates(it, allocations, 0, Nat, G)
  BY <1>3, AccumulatorsExist
<1>7. ASSUME NEW T \in SUBSET DOMAIN allocations
      PROVE  it[T] = IF T = {} THEN 0 ELSE it[T \ {Max(T)}] + value[allocations[Max(T)]]
  <2>1. it[T] = IF T = {} THEN 0 ELSE G[allocations[Max(T)]][it[T \ {Max(T)}]]
    BY <1>6 DEF Accumulates
  <2>2. it[T \ {Max(T)}] \in Nat
    BY <1>6
  <2>3. T # {} => G[allocations[Max(T)]][it[T \ {Max(T)}]] = Turn(allocations[Max(T)], it[T \ {Max(T)}])
    BY <1>2, <1>5, <2>2
  <2>4. QED
    BY <2>1, <2>3 DEF Turn
<1>8. Sums(it, allocations, value)
  BY <1>6, <1>7 DEF Sums
<1>9. ASSUME NEW iter, Sums(iter, allocations, value)
      PROVE  \E run : SumRun(run, allocations, value) /\ run[Len(allocations)] = iter[DOMAIN allocations]
  <2>1. AccumulatesWithin(iter, allocations, 0, Nat, G)
    <3>1. iter[{}] = 0
      BY <1>9 DEF Sums
    <3>2. ASSUME NEW T \in SUBSET DOMAIN allocations, T # {}, iter[T \ {Max(T)}] \in Nat
          PROVE  iter[T] = G[allocations[Max(T)]][iter[T \ {Max(T)}]]
      <4>1. iter[T] = Turn(allocations[Max(T)], iter[T \ {Max(T)}])
        BY <1>9, <3>2 DEF Sums, Turn
      <4>2. QED
        BY <1>2, <1>5, <3>2, <4>1
    <3>3. QED
      BY <3>1, <3>2 DEF AccumulatesWithin
  <2>2. PICK run : IsRun(run, allocations, 0, Nat, G) /\ run[Len(allocations)] = iter[DOMAIN allocations]
    BY <1>3, <2>1, AccumulatorsRun
  <2>3. run \in [0 .. Len(allocations) -> Nat] /\ run[0] = 0
    BY <2>2 DEF IsRun
  <2>4. ASSUME NEW i \in 1 .. Len(allocations) PROVE run[i] = run[i - 1] + value[allocations[i]]
    <3>1. run[i] = G[allocations[i]][run[i - 1]]
      BY <2>2 DEF IsRun
    <3>2. i - 1 \in 0 .. Len(allocations)
      BY <1>4
    <3>3. run[i - 1] \in Nat
      BY <2>3, <3>2
    <3>4. QED
      BY <1>2, <1>4, <3>1, <3>3 DEF Turn
  <2>5. SumRun(run, allocations, value)
    BY <2>3, <2>4 DEF SumRun
  <2>6. QED
    BY <2>2, <2>5
<1>10. QED
  BY <1>8, <1>9

QuantityOf == [a \in Allocation |-> a.quantity]

LEMMA AllocationTotalRun ==
  ASSUME NEW allocations \in Seq(Allocation)
  PROVE  \E run : /\ SumRun(run, allocations, QuantityOf)
                  /\ AllocationTotal(allocations) = run[Len(allocations)]
<1> DEFINE Solves(iter) == iter = [T \in SUBSET DOMAIN allocations |->
                                     IF T = {} THEN 0
                                     ELSE iter[T \ {Max(T)}] + allocations[Max(T)].quantity]
           iter == CHOOSE iter : Solves(iter)
<1>1. QuantityOf \in [Allocation -> Nat]
  BY AllocationFields DEF QuantityOf
<1>2. ASSUME NEW T \in SUBSET DOMAIN allocations, T # {}
      PROVE  QuantityOf[allocations[Max(T)]] = allocations[Max(T)].quantity
  <2>1. DOMAIN allocations = 1 .. Len(allocations) /\ Len(allocations) \in Nat
        /\ \A i \in 1 .. Len(allocations) : allocations[i] \in Allocation
    OBVIOUS
  <2>2. Max(T) \in 1 .. Len(allocations)
    BY <1>2, <2>1, MaxOfIndices
  <2>3. QED
    BY <2>1, <2>2 DEF QuantityOf
<1>3. ASSUME NEW it, Sums(it, allocations, QuantityOf) PROVE Solves(it)
  BY <1>2, <1>3 DEF Sums
<1>4. ASSUME NEW it, Solves(it) PROVE Sums(it, allocations, QuantityOf)
  BY <1>2, <1>4 DEF Sums
<1>5. \E it : Solves(it)
  <2> HIDE DEF Solves
  <2>1. QED
    BY <1>1, <1>3, SumsRun
<1>6. Solves(iter)
  BY <1>5
<1>7. AllocationTotal(allocations) = iter[DOMAIN allocations]
  BY DEF AllocationTotal, FoldLeft, MapThenFoldSet
<1> HIDE DEF iter, Solves
<1>8. Sums(iter, allocations, QuantityOf)
  BY <1>4, <1>6
<1>9. QED
  BY <1>1, <1>7, <1>8, SumsRun

\* What is due to a user.
DueTo(u, startDate, t) == [a \in Allocation |-> IF a.owner = u THEN Unvested(a, startDate, t) ELSE 0]

Due(token, u, t) ==
  IF token = None THEN 0
  ELSE FoldLeft(LAMBDA sum, a : sum + IF a.owner = u THEN Unvested(a, token.startDate, t) ELSE 0,
                0, token.allocations)

LEMMA DueRun ==
  ASSUME NEW token, token # None, token.allocations \in Seq(Allocation), token.startDate \in Nat,
         NEW u, NEW t \in Nat
  PROVE  \E run : /\ SumRun(run, token.allocations, DueTo(u, token.startDate, t))
                  /\ Due(token, u, t) = run[Len(token.allocations)]
<1> DEFINE allocations == token.allocations
           value == DueTo(u, token.startDate, t)
           Value(a) == IF a.owner = u THEN Unvested(a, token.startDate, t) ELSE 0
           Solves(iter) == iter = [T \in SUBSET DOMAIN allocations |->
                                     IF T = {} THEN 0
                                     ELSE iter[T \ {Max(T)}] + Value(allocations[Max(T)])]
           iter == CHOOSE iter : Solves(iter)
<1>1. value \in [Allocation -> Nat] /\ \A a \in Allocation : value[a] = Value(a)
  BY UnvestedType DEF DueTo
<1>2. Due(token, u, t) = iter[DOMAIN allocations]
  BY DEF Due, FoldLeft, MapThenFoldSet
<1> HIDE DEF value, Value
<1>3. ASSUME NEW T \in SUBSET DOMAIN allocations, T # {}
      PROVE  value[allocations[Max(T)]] = Value(allocations[Max(T)])
  <2>1. DOMAIN allocations = 1 .. Len(allocations) /\ Len(allocations) \in Nat
        /\ \A i \in 1 .. Len(allocations) : allocations[i] \in Allocation
    OBVIOUS
  <2>2. Max(T) \in 1 .. Len(allocations)
    BY <1>3, <2>1, MaxOfIndices
  <2>3. QED
    BY <1>1, <2>1, <2>2
<1>4. ASSUME NEW it, Sums(it, allocations, value) PROVE Solves(it)
  BY <1>3, <1>4 DEF Sums
<1>5. ASSUME NEW it, Solves(it) PROVE Sums(it, allocations, value)
  BY <1>3, <1>5 DEF Sums
<1>6. allocations \in Seq(Allocation)
  OBVIOUS
<1> HIDE DEF allocations
<1>7. \E it : Solves(it)
  <2> HIDE DEF Solves
  <2>1. QED
    BY <1>1, <1>4, <1>6, SumsRun
<1>8. Solves(iter)
  BY <1>7
<1> HIDE DEF iter, Solves
<1>9. Sums(iter, allocations, value)
  BY <1>5, <1>8
<1>10. \E run : SumRun(run, allocations, value) /\ run[Len(allocations)] = iter[DOMAIN allocations]
  BY <1>1, <1>6, <1>9, SumsRun
<1>11. QED
  BY <1>2, <1>10 DEF allocations, value

LEMMA DueType ==
  ASSUME NEW token \in VestingTokens \cup {None}, NEW u, NEW t \in Nat
  PROVE  Due(token, u, t) \in Nat
<1>1. CASE token = None
  <2>1. Due(token, u, t) = 0
    BY <1>1 DEF Due
  <2>2. QED
    BY <2>1
<1>2. CASE token # None
  <2>1. token.startDate \in Nat /\ token.allocations \in Seq(Allocation)
    BY <1>2, ClassAssumption DEF VestingTokens
  <2>2. PICK run : /\ SumRun(run, token.allocations, DueTo(u, token.startDate, t))
                   /\ Due(token, u, t) = run[Len(token.allocations)]
    BY <1>2, <2>1, DueRun
  <2>3. Len(token.allocations) \in 0 .. Len(token.allocations)
    BY <2>1
  <2>4. run \in [0 .. Len(token.allocations) -> Nat]
    BY <2>2 DEF SumRun
  <2>5. run[Len(token.allocations)] \in Nat
    BY <2>3, <2>4
  <2>6. QED
    BY <2>2, <2>5
<1>3. QED
  BY <1>1, <1>2

-----------------------------------------------------------------------------
(* The inductive invariant: of holds of the kind H, what the class has of  *)
(* a supply is on its balances, each of which covers its holds, and keeps  *)
(* what has not vested in them.                                            *)

\* No hold of an allocation is over as it starts: what it locks is always a number.
NoInstantVesting ==
  \A allocations \in Allocations : \A i \in DOMAIN allocations :
    \A startDate \in StartDates, by \in Users, t \in Times :
      LET hold == VestingHold(allocations[i], startDate, by, t)
      IN  IsVesting(hold) => hold.vestingStart # hold.expires

\* The holds that calls make are of the kind.
HoldKind(H) ==
  /\ Kind(H)
  /\ \A h \in AllHolds : ~IsVesting(h) => h \in H
  /\ \A allocations \in Allocations : \A i \in DOMAIN allocations :
       \A startDate \in StartDates, by \in Users, t \in Times :
         VestingHold(allocations[i], startDate, by, t) \in H

Typed(H) ==
  /\ class \in TokenClassObjects \cup {None}
  /\ vesting \in VestingTokens \cup {None}
  /\ authorized \in NftCollectionAuthorizations \cup {None}
  /\ configuration \in TokenMintConfigurations \cup {None}
  /\ balances \in [Users -> BalanceOf(H)]
  /\ latest \in Times \cup {0}

Created == class = None => configuration = None /\ balances = [u \in Users |-> EmptyBalance]

Supplied == class # None => Total(balances) <= class.totalSupply

Covered(H) == H \subseteq RegularHolds => \A u \in Users : CoveredFrom(balances[u], latest)

Scheduled(H) ==
  H \subseteq RegularHolds /\ VestsGradually =>
    \A u \in Users : \A t \in Nat :
      latest <= t => Due(vesting, u, t) <= VestingQuantity(H, balances[u], t)

IInv(H) == Typed(H) /\ Created /\ Supplied /\ Covered(H) /\ Scheduled(H)

LEMMA AllocationType ==
  ASSUME NEW allocations \in Allocations
  PROVE  /\ allocations \in Seq(Allocation)
         /\ DOMAIN allocations = 1 .. Len(allocations) /\ Len(allocations) \in Nat
         /\ \A i \in DOMAIN allocations : allocations[i] \in Allocation
<1>1. allocations \in Seq(Allocation)
  BY ClassAssumption
<1>2. QED
  BY <1>1

LEMMA AllHoldsKind == HoldKind(AllHolds)
<1>1. ASSUME NEW h \in AllHolds, NEW m \in 1 .. h.quantity
      PROVE  [h EXCEPT !.quantity = m] \in AllHolds
  <2>1. m \in Nat
    BY HoldFields
  <2>2. QED
    BY <2>1 DEF AllHolds, Holds
<1>2. ASSUME NEW allocations \in Allocations, NEW i \in DOMAIN allocations,
             NEW startDate \in StartDates, NEW by \in Users, NEW t \in Times
      PROVE  VestingHold(allocations[i], startDate, by, t) \in AllHolds
  <2>1. allocations[i] \in Allocation
    BY AllocationType
  <2>2. startDate \in Nat /\ t \in Nat
    BY ClassAssumption
  <2>3. QED
    BY <2>1, <2>2, VestingHoldFields
<1>3. QED
  BY <1>1, <1>2 DEF HoldKind, Kind

LEMMA RegularHoldsKind ==
  ASSUME NoInstantVesting
  PROVE  HoldKind(RegularHolds)
<1>1. ASSUME NEW h \in RegularHolds, NEW m \in 1 .. h.quantity
      PROVE  [h EXCEPT !.quantity = m] \in RegularHolds
  <2> DEFINE part == [h EXCEPT !.quantity = m]
  <2>1. h \in AllHolds
    BY DEF RegularHolds
  <2>2. part \in AllHolds
    BY <2>1, AllHoldsKind DEF HoldKind, Kind
  <2>3. part.vestingStart = h.vestingStart /\ part.expires = h.expires
    BY <2>1 DEF AllHolds, Holds
  <2> HIDE DEF part
  <2>4. part \in RegularHolds
    BY <2>2, <2>3 DEF RegularHolds, IsVesting
  <2>5. QED
    BY <2>4 DEF part
<1>2. ASSUME NEW allocations \in Allocations, NEW i \in DOMAIN allocations,
             NEW startDate \in StartDates, NEW by \in Users, NEW t \in Times
      PROVE  VestingHold(allocations[i], startDate, by, t) \in RegularHolds
  <2> DEFINE hold == VestingHold(allocations[i], startDate, by, t)
  <2>1. hold \in AllHolds
    BY AllHoldsKind DEF HoldKind
  <2>2. IsVesting(hold) => hold.vestingStart # hold.expires
    BY DEF NoInstantVesting
  <2> HIDE DEF hold
  <2>3. hold \in RegularHolds
    BY <2>1, <2>2 DEF RegularHolds
  <2>4. QED
    BY <2>3 DEF hold
<1>3. \A h \in AllHolds : ~IsVesting(h) => h \in RegularHolds
  BY DEF RegularHolds
<1>4. RegularHolds \subseteq AllHolds
  BY DEF RegularHolds
<1>5. QED
  BY <1>1, <1>2, <1>3, <1>4 DEF HoldKind, Kind

LEMMA GradualIsNotInstant ==
  ASSUME VestsGradually
  PROVE  NoInstantVesting
<1> SUFFICES ASSUME NEW allocations \in Allocations, NEW i \in DOMAIN allocations,
                    NEW startDate \in StartDates, NEW by \in Users, NEW t \in Times
             PROVE  VestingHold(allocations[i], startDate, by, t) \in RegularHolds
  BY DEF NoInstantVesting, RegularHolds
<1>1. /\ allocations[i] \in Allocation /\ startDate \in Nat /\ t \in Nat
      /\ allocations[i].cliff >= 1 /\ allocations[i].vestingDays >= 1
  BY AllocationType, ClassAssumption DEF VestsGradually
<1>2. QED
  BY <1>1, GradualHold

LEMMA InitHolds ==
  ASSUME NEW H, Init
  PROVE  IInv(H)
<1>1. \A u \in Users : balances[u] = EmptyBalance
  BY DEF Init
<1>2. Typed(H)
  BY EmptyBalances DEF Init, Typed
<1>3. Created /\ Supplied
  BY DEF Init, Created, Supplied
<1>4. Covered(H)
  BY <1>1, EmptyBalances DEF Covered, CoveredFrom
<1>5. Scheduled(H)
  <2>1. ASSUME NEW u \in Users, NEW t \in Nat, H \subseteq RegularHolds
        PROVE  Due(vesting, u, t) <= VestingQuantity(H, balances[u], t)
    <3>1. Due(vesting, u, t) = 0
      BY DEF Init, Due
    <3>2. VestingQuantity(H, balances[u], t) = 0
      BY <1>1, EmptyBalances, SumOverEmpty DEF VestingQuantity
    <3>3. QED
      BY <3>1, <3>2
  <2>2. QED
    BY <2>1 DEF Scheduled
<1>6. QED
  BY <1>2, <1>3, <1>4, <1>5 DEF IInv

-----------------------------------------------------------------------------
(* What calls leave to show.                                               *)

LEMMA CallTimes ==
  ASSUME NEW H, Typed(H), NEW t \in Times, At(t)
  PROVE  /\ t \in Nat /\ latest \in Nat /\ latest' \in Nat /\ latest' \in Times \cup {0}
         /\ t <= latest' /\ latest <= latest'
<1>1. t \in Nat /\ latest \in Nat /\ latest \in Times \cup {0}
  BY ClassAssumption DEF Typed
<1>2. QED
  BY <1>1, MaxOfTwo DEF At

\* No user has any token before there is a class.
LEMMA NothingYet ==
  ASSUME NEW H, IInv(H), class = None
  PROVE  /\ Total(balances) = 0 /\ configuration = None
         /\ \A u \in Users : balances[u] = EmptyBalance
<1>1. balances = [u \in Users |-> EmptyBalance] /\ configuration = None
  BY DEF IInv, Created
<1>2. balances \in [Users -> BalanceOf(H)]
  BY DEF IInv, Typed
<1>3. \A u \in Users : balances[u] = EmptyBalance
  BY <1>1
<1>4. Total(balances) = 0
  <2>1. /\ Summable([u \in Users |-> balances[u].quantity], Users)
        /\ Total(balances) = SumFunctionOnSet([u \in Users |-> balances[u].quantity], Users)
        /\ \A u \in Users : [v \in Users |-> balances[v].quantity][u] = balances[u].quantity
    BY <1>2, TotalSummable, ClassAssumption
  <2>2. \A u \in Users : [v \in Users |-> balances[v].quantity][u] = 0
    BY <1>3, EmptyBalances
  <2>3. QED
    BY <2>1, <2>2, SumOfZeros
<1>5. QED
  BY <1>1, <1>3, <1>4

\* A balance that a call does not change.
LEMMA Unchanging ==
  ASSUME NEW H, IInv(H), NEW t \in Times, At(t), NEW u \in Users
  PROVE  /\ balances[u] \in BalanceOf(H)
         /\ H \subseteq RegularHolds => CoveredFrom(balances[u], latest')
         /\ Follows(H, balances[u], balances[u], latest')
<1>1. balances[u] \in BalanceOf(H)
  BY DEF IInv, Typed
<1>2. H \subseteq RegularHolds => CoveredFrom(balances[u], latest')
  <2>1. latest \in Nat /\ latest' \in Nat /\ latest <= latest'
    BY CallTimes DEF IInv
  <2>2. QED
    BY <2>1 DEF IInv, Covered, CoveredFrom
<1>3. QED
  BY <1>1, <1>2, SameHoldsFollow

\* A call that does with each balance what it may, and leaves what is due.
LEMMA CallKeeps ==
  ASSUME NEW H, IInv(H), NEW t \in Times, At(t),
         class' \in TokenClassObjects \cup {None}, authorized' \in NftCollectionAuthorizations \cup {None},
         configuration' \in TokenMintConfigurations \cup {None},
         balances' \in [Users -> BalanceOf(H)], vesting' = vesting,
         Created', Supplied',
         \A u \in Users : Follows(H, balances[u], balances'[u], latest')
  PROVE  IInv(H)'
<1>1. /\ latest \in Nat /\ latest' \in Nat /\ latest' \in Times \cup {0} /\ latest <= latest'
  BY CallTimes DEF IInv
<1>2. Typed(H)'
  BY <1>1 DEF IInv, Typed
<1>3. Covered(H)'
  BY DEF Covered, Follows
<1>4. Scheduled(H)'
  <2>1. ASSUME H \subseteq RegularHolds, VestsGradually, NEW u \in Users, NEW now \in Nat, latest' <= now
        PROVE  Due(vesting', u, now) <= VestingQuantity(H, balances'[u], now)
    <3>1. Due(vesting, u, now) <= VestingQuantity(H, balances[u], now)
      <4>1. latest <= now
        BY <1>1, <2>1
      <4>2. QED
        BY <2>1, <4>1 DEF IInv, Scheduled
    <3>2. VestingQuantity(H, balances[u], now) <= VestingQuantity(H, balances'[u], now)
      BY <2>1 DEF Follows
    <3>3. VestingQuantity(H, balances[u], now) \in Int /\ VestingQuantity(H, balances'[u], now) \in Int
      BY <2>1, VestingType DEF IInv, Typed
    <3>4. Due(vesting, u, now) \in Int
      <4>1. Due(vesting, u, now) \in Nat
        BY DueType DEF IInv, Typed
      <4>2. QED
        BY <4>1
    <3>5. QED
      BY <3>1, <3>2, <3>3, <3>4
  <2>2. QED
    BY <2>1 DEF Scheduled
<1>5. QED
  BY <1>2, <1>3, <1>4 DEF IInv

\* A call that changes no balance.
LEMMA BalancesStay ==
  ASSUME NEW H, IInv(H), NEW t \in Times, At(t), balances' = balances, vesting' = vesting,
         class' \in TokenClassObjects \cup {None}, authorized' \in NftCollectionAuthorizations \cup {None},
         configuration' \in TokenMintConfigurations \cup {None},
         class' = None => class = None /\ configuration' = None,
         class # None => class'.totalSupply = class.totalSupply
  PROVE  IInv(H)'
<1>1. balances \in [Users -> BalanceOf(H)]
  BY DEF IInv, Typed
<1>2. Created'
  BY DEF IInv, Created
<1>3. Supplied'
  <2>1. CASE class # None
    BY <2>1 DEF IInv, Supplied, Total
  <2>2. ASSUME class = None, class' # None PROVE Total(balances') <= class'.totalSupply
    <3>1. Total(balances) = 0
      BY <2>2, NothingYet
    <3>2. class'.totalSupply \in Nat
      BY <2>2, ClassAssumption DEF TokenClassObjects
    <3>3. QED
      BY <3>1, <3>2
  <2>3. QED
    BY <2>1, <2>2 DEF Supplied, Total
<1>4. \A u \in Users : Follows(H, balances[u], balances'[u], latest')
  BY Unchanging
<1>5. QED
  BY <1>1, <1>2, <1>3, <1>4, CallKeeps

-----------------------------------------------------------------------------
(* Classes, collections and configurations.                                *)

LEMMA GivenAuthoritiesType ==
  ASSUME NEW dto, dto.authorities \in Authorities \cup {None}, NEW by \in Users
  PROVE  GivenAuthorities(dto, by) \in Authorities
<1>1. {by} \in Authorities
  BY DEF Authorities
<1>2. QED
  BY <1>1 DEF GivenAuthorities

LEMMA CreatedClass ==
  ASSUME NEW isNonFungible \in BOOLEAN, NEW authorities \in Authorities, NEW supply \in 0 .. MaxSupply,
         CreateTokenClass(isNonFungible, authorities, supply)
  PROVE  class = None /\ class' \in TokenClassObjects /\ class' # None /\ class'.totalSupply = supply
<1>1. /\ class = None
      /\ class' = [isNonFungible |-> isNonFungible, authorities |-> authorities, totalSupply |-> supply]
  BY DEF CreateTokenClass
<1>2. class' \in TokenClassObjects
  BY <1>1 DEF TokenClassObjects
<1>3. QED
  BY <1>1, <1>2, NoneAssumption

\* What every call leaves as it is, if it does not change it.
LEMMA TypesStay ==
  ASSUME NEW H, IInv(H)
  PROVE  /\ class \in TokenClassObjects \cup {None}
         /\ vesting \in VestingTokens \cup {None}
         /\ authorized \in NftCollectionAuthorizations \cup {None}
         /\ configuration \in TokenMintConfigurations \cup {None}
         /\ balances \in [Users -> BalanceOf(H)]
         /\ class = None => configuration = None
BY DEF IInv, Typed, Created

LEMMA ZeroSupply == 0 \in 0 .. MaxSupply
BY ClassAssumption

LEMMA CreateClassKeeps ==
  ASSUME NEW H, IInv(H), NEW t \in Times, At(t), NEW by \in Users,
         NEW dto \in CreateTokenClassDtos, CreateClass(by, dto)
  PROVE  IInv(H)'
<1>1. dto.isNonFungible \in BOOLEAN /\ dto.authorities \in Authorities \cup {None}
  BY DEF CreateTokenClassDtos
<1>2. GivenAuthorities(dto, by) \in Authorities
  BY <1>1, GivenAuthoritiesType
<1>3. /\ CreateTokenClass(dto.isNonFungible, GivenAuthorities(dto, by), 0)
      /\ UNCHANGED <<authorized, vesting, configuration, balances>>
  BY DEF CreateClass
<1>4. class = None /\ class' \in TokenClassObjects /\ class' # None
  BY <1>1, <1>2, <1>3, ZeroSupply, CreatedClass
<1>5. QED
  BY <1>3, <1>4, TypesStay, BalancesStay

LEMMA UpdateTokenClassKeeps ==
  ASSUME NEW H, IInv(H), NEW t \in Times, At(t), NEW by \in Users,
         NEW dto \in UpdateTokenClassDtos, UpdateTokenClass(by, dto)
  PROVE  IInv(H)'
<1> DEFINE new == IF dto.overwriteAuthorities THEN dto.authorities ELSE class.authorities \cup dto.authorities
<1>1. /\ class # None /\ class' = [class EXCEPT !.authorities = new]
      /\ UNCHANGED <<authorized, vesting, configuration, balances>>
  BY DEF UpdateTokenClass
<1>2. class \in TokenClassObjects
  BY <1>1, TypesStay
<1>3. new \in Authorities
  BY <1>2 DEF UpdateTokenClassDtos, TokenClassObjects, Authorities
<1> HIDE DEF new
<1>4. class' \in TokenClassObjects /\ class'.totalSupply = class.totalSupply
  BY <1>1, <1>2, <1>3 DEF TokenClassObjects
<1>5. class' # None
  BY <1>4, NoneAssumption
<1>6. QED
  BY <1>1, <1>4, <1>5, TypesStay, BalancesStay

LEMMA CreateNftCollectionKeeps ==
  ASSUME NEW H, IInv(H), NEW t \in Times, At(t), NEW by \in Users,
         NEW dto \in CreateNftCollectionDtos, CreateNftCollection(by, dto)
  PROVE  IInv(H)'
<1>1. GivenAuthorities(dto, by) \in Authorities
  BY GivenAuthoritiesType DEF CreateNftCollectionDtos
<1>2. /\ CreateTokenClass(TRUE, GivenAuthorities(dto, by), 0)
      /\ UNCHANGED <<authorized, vesting, configuration, balances>>
  BY DEF CreateNftCollection
<1>3. class = None /\ class' \in TokenClassObjects /\ class' # None
  BY <1>1, <1>2, ZeroSupply, CreatedClass
<1>4. QED
  BY <1>2, <1>3, TypesStay, BalancesStay

LEMMA GrantKeeps ==
  ASSUME NEW H, IInv(H), NEW t \in Times, At(t),
         NEW dto \in GrantNftCollectionAuthorizationDtos, GrantNftCollectionAuthorization(dto)
  PROVE  IInv(H)'
<1>1. authorized' \in NftCollectionAuthorizations \cup {None}
  BY TypesStay DEF GrantNftCollectionAuthorization, GrantNftCollectionAuthorizationDtos,
                   NftCollectionAuthorizations
<1>2. UNCHANGED <<class, vesting, configuration, balances>>
  BY DEF GrantNftCollectionAuthorization
<1>3. QED
  BY <1>1, <1>2, TypesStay, BalancesStay

LEMMA RevokeKeeps ==
  ASSUME NEW H, IInv(H), NEW t \in Times, At(t), NEW by \in Users,
         NEW dto \in RevokeNftCollectionAuthorizationDtos, RevokeNftCollectionAuthorization(by, dto)
  PROVE  IInv(H)'
<1>1. authorized' \in NftCollectionAuthorizations \cup {None}
  BY TypesStay DEF RevokeNftCollectionAuthorization, NftCollectionAuthorizations
<1>2. UNCHANGED <<class, vesting, configuration, balances>>
  BY DEF RevokeNftCollectionAuthorization
<1>3. QED
  BY <1>1, <1>2, TypesStay, BalancesStay

LEMMA SaveTokenMintConfigurationKeeps ==
  ASSUME NEW H, IInv(H), NEW t \in Times, At(t), NEW by \in Users,
         NEW c \in TokenMintConfigurationDtos, SaveTokenMintConfiguration(by, c)
  PROVE  IInv(H)'
<1>1. class # None /\ configuration' \in TokenMintConfigurations
      /\ UNCHANGED <<class, authorized, vesting, balances>>
  BY DEF SaveTokenMintConfiguration, TokenMintConfigurations
<1>2. QED
  BY <1>1, TypesStay, BalancesStay

LEMMA DeleteTokenMintConfigurationKeeps ==
  ASSUME NEW H, IInv(H), NEW t \in Times, At(t), NEW by \in Users, DeleteTokenMintConfiguration(by)
  PROVE  IInv(H)'
<1>1. configuration' = None /\ UNCHANGED <<class, authorized, vesting, balances>>
  BY DEF DeleteTokenMintConfiguration
<1>2. QED
  BY <1>1, TypesStay, BalancesStay

-----------------------------------------------------------------------------
(* The creation of a class with vesting allocations.                       *)

\* The balances after the allocation of a, as they were before it.
Allocated(H, held, next, a, startDate, by, now) ==
  LET u == a.owner
  IN  /\ next \in [Users -> BalanceOf(H)] /\ u \in Users
      /\ \A x \in Users \ {u} : next[x] = held[x]
      /\ next[u].quantity = held[u].quantity + a.quantity
      /\ Total(next) = Total(held) + a.quantity
      /\ H \subseteq RegularHolds => \A t \in Nat : now <= t =>
           /\ LockedQuantity(next[u], t) <= LockedQuantity(held[u], t) + a.quantity
           /\ VestingQuantity(H, next[u], t)
                = VestingQuantity(H, held[u], t) + VestingOf(H, t)[VestingHold(a, startDate, by, now)]

LEMMA AllocateStep ==
  ASSUME NEW H, HoldKind(H), NEW held \in [Users -> BalanceOf(H)],
         NEW a \in Allocation, NEW startDate \in Nat, NEW by \in Users, NEW now \in Nat,
         VestingHold(a, startDate, by, now) \in H
  PROVE  Allocated(H, held, Allocate(held, a, startDate, by, now), a, startDate, by, now)
<1> DEFINE next == Allocate(held, a, startDate, by, now)
           u == a.owner
           hold == VestingHold(a, startDate, by, now)
           b == AddQuantity(held[u], a.quantity)
           c == LockQuantity(b, hold, now)
<1>1. u \in Users /\ a.quantity \in Nat /\ hold.quantity = a.quantity
  BY AllocationFields, VestingHoldFields
<1>2. held[u] \in BalanceOf(H) /\ held[u].quantity \in Nat
  BY <1>1 DEF BalanceOf
<1>3. b \in BalanceOf(H) /\ b.quantity = held[u].quantity + a.quantity /\ b.holds = held[u].holds
  <2> DEFINE d == held[u]
             q == a.quantity
  <2>1. d \in BalanceOf(H) /\ q \in Nat
    BY <1>1, <1>2
  <2> HIDE DEF d, q
  <2>2. AddQuantity(d, q) \in BalanceOf(H) /\ AddQuantity(d, q).quantity = d.quantity + q
        /\ AddQuantity(d, q).holds = d.holds
    BY <2>1, AddType
  <2>3. QED
    BY <2>2 DEF d, q
<1>4. next = [held EXCEPT ![u] = c]
  BY DEF Allocate
<1> HIDE DEF b, hold
<1>5. c \in BalanceOf(H) /\ c.quantity = b.quantity
  <2>1. hold \in H
    BY DEF hold
  <2>2. Append(UnexpiredHolds(b, now), hold) \in Seq(H)
    BY <1>3, <2>1, UnexpiredType
  <2>3. QED
    BY <1>3, <2>2 DEF LockQuantity, BalanceOf
<1>6. ASSUME H \subseteq RegularHolds, NEW t \in Nat, now <= t
      PROVE  /\ LockedQuantity(c, t) <= LockedQuantity(held[u], t) + a.quantity
             /\ VestingQuantity(H, c, t) = VestingQuantity(H, held[u], t) + VestingOf(H, t)[hold]
  <2>1. hold \in H
    BY DEF hold
  <2>2. LockedQuantity(c, t) <= LockedQuantity(b, t) + hold.quantity
    BY <1>3, <1>6, <2>1, LockedAfterLock
  <2>3. LockedQuantity(b, t) = LockedQuantity(held[u], t)
    BY <1>3, SameHoldsLocked
  <2>4. VestingQuantity(H, c, t) = VestingQuantity(H, b, t) + VestingOf(H, t)[hold]
    BY <1>3, <1>6, <2>1, VestingAfterLock
  <2>5. VestingQuantity(H, b, t) = VestingQuantity(H, held[u], t)
    BY <1>3 DEF VestingQuantity
  <2>6. QED
    BY <1>1, <2>2, <2>3, <2>4, <2>5
<1> HIDE DEF c, next
<1>7. next \in [Users -> BalanceOf(H)] /\ next[u] = c /\ \A x \in Users \ {u} : next[x] = held[x]
  BY <1>1, <1>4, <1>5
<1>8. Total(next) = Total(held) + a.quantity
  <2>1. Total(next) = Total(held) + (next[u].quantity - held[u].quantity)
    BY <1>1, <1>7, TotalChange, ClassAssumption
  <2>2. Total(held) \in Nat
    BY TotalType, ClassAssumption
  <2>3. QED
    BY <1>1, <1>2, <1>3, <1>5, <1>7, <2>1, <2>2
<1>9. QED
  BY <1>1, <1>3, <1>5, <1>6, <1>7, <1>8 DEF Allocated, next, hold

\* What the allocations make of the balances of a class that is new.
LEMMA AllocationsKeep ==
  ASSUME NEW H, HoldKind(H), NEW allocations \in Allocations, NEW startDate \in StartDates,
         NEW by \in Users, NEW now \in Times, NEW held \in [Users -> BalanceOf(H)],
         Total(held) = 0, \A u \in Users : held[u] = EmptyBalance
  PROVE  LET new == AllocateAll(held, allocations, startDate, by, now)
         IN  /\ new \in [Users -> BalanceOf(H)]
             /\ Total(new) = AllocationTotal(allocations)
             /\ H \subseteq RegularHolds => \A u \in Users : \A t \in Nat : now <= t =>
                  /\ LockedQuantity(new[u], t) <= new[u].quantity
                  /\ VestsGradually
                       => \A run : SumRun(run, allocations, DueTo(u, startDate, t))
                                     => run[Len(allocations)] <= VestingQuantity(H, new[u], t)
<1> DEFINE A == [Users -> BalanceOf(H)]
           new == AllocateAll(held, allocations, startDate, by, now)
           n == Len(allocations)
           Hold(i) == VestingHold(allocations[i], startDate, by, now)
<1>1. /\ allocations \in Seq(Allocation) /\ DOMAIN allocations = 1 .. n /\ n \in Nat
      /\ \A i \in 1 .. n : allocations[i] \in Allocation
      /\ startDate \in Nat /\ now \in Nat
  BY AllocationType, ClassAssumption
<1>2. ASSUME NEW i \in 1 .. n PROVE Hold(i) \in H
  BY <1>1 DEF HoldKind
<1>3. ASSUME NEW h \in A, NEW i \in DOMAIN allocations
      PROVE  Allocate(h, allocations[i], startDate, by, now) \in A
  <2>1. allocations[i] \in Allocation /\ VestingHold(allocations[i], startDate, by, now) \in H
    BY <1>1, <1>2
  <2>2. QED
    BY <1>1, <2>1, AllocateStep DEF Allocated
<1>4. PICK run : AllocationRun(run, A, allocations, held, startDate, by, now) /\ new = run[n]
  <2>1. AllocatesWithin(A, allocations, startDate, by, now)
    BY <1>3 DEF AllocatesWithin
  <2>2. ASSUME NEW B, held \in B, AllocatesWithin(B, allocations, startDate, by, now)
        PROVE  \E run : /\ AllocationRun(run, B, allocations, held, startDate, by, now)
                        /\ AllocateAll(held, allocations, startDate, by, now) = run[Len(allocations)]
    <3>1. allocations \in Seq(Allocation)
      BY <1>1
    <3> HIDE DEF A, new, n, Hold
    <3>2. QED
      BY <2>2, <3>1, AllocateRun
  <2>3. QED
    BY <2>1, <2>2
<1> HIDE DEF new
<1>5. run[0] = held /\ \A i \in 0 .. n : run[i] \in [Users -> BalanceOf(H)]
  BY <1>4 DEF AllocationRun
<1>6. ASSUME NEW i \in 1 .. n
      PROVE  Allocated(H, run[i - 1], run[i], allocations[i], startDate, by, now)
  <2>1. run[i] = Allocate(run[i - 1], allocations[i], startDate, by, now)
    BY <1>4 DEF AllocationRun
  <2>2. run[i - 1] \in [Users -> BalanceOf(H)] /\ allocations[i] \in Allocation
    <3>1. i - 1 \in 0 .. n
      BY <1>1
    <3>2. QED
      BY <1>1, <1>5, <3>1
  <2>3. VestingHold(allocations[i], startDate, by, now) \in H
    BY <1>2
  <2>4. QED
    BY <1>1, <2>1, <2>2, <2>3, AllocateStep
<1>7. Total(new) = AllocationTotal(allocations)
  <2>1. PICK sum : SumRun(sum, allocations, QuantityOf) /\ AllocationTotal(allocations) = sum[n]
    BY <1>1, AllocationTotalRun
  <2> DEFINE P == {i \in 0 .. n : Total(run[i]) = sum[i]}
  <2>2. 0 \in P
    BY <1>1, <1>5, <2>1 DEF SumRun
  <2>3. ASSUME NEW i \in 1 .. n, i - 1 \in P PROVE i \in P
    <3>1. Total(run[i]) = Total(run[i - 1]) + allocations[i].quantity
      BY <1>6 DEF Allocated
    <3>2. sum[i] = sum[i - 1] + QuantityOf[allocations[i]]
      BY <2>1 DEF SumRun
    <3>3. QuantityOf[allocations[i]] = allocations[i].quantity
      BY <1>1 DEF QuantityOf
    <3>4. Total(run[i - 1]) = sum[i - 1]
      BY <2>3
    <3>5. i \in 0 .. n
      BY <1>1
    <3>6. QED
      BY <3>1, <3>2, <3>3, <3>4, <3>5
  <2> HIDE DEF P
  <2>4. n \in P
    <3>1. \A i \in 0 .. n : i \in P
      BY <1>1, <2>2, <2>3, UpTo
    <3>2. QED
      BY <1>1, <3>1
  <2>5. QED
    BY <1>4, <2>1, <2>4 DEF P
<1>8. ASSUME H \subseteq RegularHolds, NEW u \in Users, NEW t \in Nat, now <= t
      PROVE  LockedQuantity(new[u], t) <= new[u].quantity
  <2> DEFINE P == {i \in 0 .. n : LockedQuantity(run[i][u], t) <= run[i][u].quantity}
  <2>1. 0 \in P
    <3>1. run[0][u] = EmptyBalance
      BY <1>5
    <3>2. LockedQuantity(EmptyBalance, t) <= EmptyBalance.quantity
      BY EmptyBalances
    <3>3. QED
      BY <1>1, <3>1, <3>2
  <2>2. ASSUME NEW i \in 1 .. n, i - 1 \in P PROVE i \in P
    <3> DEFINE b == run[i - 1][u]
               c == run[i][u]
               q == allocations[i].quantity
    <3>1. i - 1 \in 0 .. n /\ i \in 0 .. n
      BY <1>1
    <3>2. b \in BalanceOf(H) /\ c \in BalanceOf(H)
      BY <1>5, <3>1
    <3>3. LockedQuantity(b, t) <= b.quantity
      BY <2>2
    <3>4. q \in Nat /\ b.quantity \in Nat /\ c.quantity \in Nat
      BY <1>1, <3>2, AllocationFields DEF BalanceOf
    <3>5. LockedQuantity(b, t) \in Int /\ LockedQuantity(c, t) \in Int
      <4> HIDE DEF b, c
      <4>1. QED
        BY <1>8, <3>2, LockedType
    <3>6. CASE u = allocations[i].owner
      <4>1. c.quantity = b.quantity + q /\ LockedQuantity(c, t) <= LockedQuantity(b, t) + q
        BY <1>6, <1>8, <3>6 DEF Allocated
      <4> HIDE DEF b, c, q
      <4>2. LockedQuantity(c, t) <= c.quantity
        BY <3>3, <3>4, <3>5, <4>1
      <4>3. QED
        BY <3>1, <4>2 DEF c
    <3>7. CASE u # allocations[i].owner
      <4>1. c = b
        BY <1>6, <3>7 DEF Allocated
      <4>2. QED
        BY <3>1, <3>3, <4>1
    <3>8. QED
      BY <3>6, <3>7
  <2> HIDE DEF P
  <2>3. n \in P
    <3>1. \A i \in 0 .. n : i \in P
      BY <1>1, <2>1, <2>2, UpTo
    <3>2. QED
      BY <1>1, <3>1
  <2>4. QED
    BY <1>4, <2>3 DEF P
<1>9. ASSUME H \subseteq RegularHolds, VestsGradually, NEW u \in Users, NEW t \in Nat, now <= t,
             NEW due, SumRun(due, allocations, DueTo(u, startDate, t))
      PROVE  due[n] <= VestingQuantity(H, new[u], t)
  <2> DEFINE value == DueTo(u, startDate, t)
             P == {i \in 0 .. n : due[i] <= VestingQuantity(H, run[i][u], t)}
  <2>1. 0 \in P
    <3>1. run[0][u] = EmptyBalance
      BY <1>5
    <3>2. VestingQuantity(H, EmptyBalance, t) = 0
      BY EmptyBalances, SumOverEmpty DEF VestingQuantity
    <3>3. due[0] = 0
      BY <1>9 DEF SumRun
    <3>4. QED
      BY <1>1, <3>1, <3>2, <3>3
  <2>2. ASSUME NEW i \in 1 .. n, i - 1 \in P PROVE i \in P
    <3> DEFINE b == run[i - 1][u]
               c == run[i][u]
               a == allocations[i]
    <3>1. i - 1 \in 0 .. n /\ i \in 0 .. n
      BY <1>1
    <3>2. b \in BalanceOf(H) /\ c \in BalanceOf(H) /\ a \in Allocation
      BY <1>1, <1>5, <3>1
    <3>3. due[i - 1] <= VestingQuantity(H, b, t)
      BY <2>2
    <3>4. VestingQuantity(H, b, t) \in Int
      <4> HIDE DEF b
      <4>1. QED
        BY <1>9, <3>2, VestingType
    <3>5. due[i] = due[i - 1] + value[a] /\ due[i - 1] \in Nat
      BY <1>9, <3>1 DEF SumRun
    <3>6. CASE u = a.owner
      <4>1. VestingQuantity(H, c, t) = VestingQuantity(H, b, t) + VestingOf(H, t)[Hold(i)]
        BY <1>6, <1>9, <3>6 DEF Allocated
      <4>2. value[a] = Unvested(a, startDate, t) /\ value[a] \in Nat
        BY <1>1, <3>2, <3>6, UnvestedType DEF DueTo
      <4>3. VestingOf(H, t)[Hold(i)] \in Int /\ value[a] <= VestingOf(H, t)[Hold(i)]
        <5>1. a.cliff >= 1 /\ a.vestingDays >= 1
          BY <1>1, <1>9 DEF VestsGradually
        <5>2. Hold(i) \in H
          BY <1>2
        <5> DEFINE hold == VestingHold(a, startDate, by, now)
        <5>3. hold = Hold(i)
          OBVIOUS
        <5> HIDE DEF a, value
        <5>4. IsVesting(hold) /\ Unvested(a, startDate, t) <= LockedOf(hold, t)
          BY <1>1, <3>2, <5>1, GradualHold, UnvestedIsLocked
        <5> HIDE DEF hold, Hold
        <5>5. VestingOf(H, t)[hold] = LockedOf(hold, t)
          BY <5>2, <5>3, <5>4 DEF VestingOf
        <5>6. VestingOf(H, t)[hold] \in Int
          <6>1. VestingOf(H, t) \in [H -> Int]
            BY <1>9, VestingOfType
          <6>2. hold \in H
            BY <5>2, <5>3
          <6>3. QED
            BY <6>1, <6>2
        <5>7. QED
          BY <4>2, <5>3, <5>4, <5>5, <5>6
      <4> HIDE DEF b, c, a, value, Hold
      <4>4. due[i] <= VestingQuantity(H, c, t)
        BY <3>3, <3>4, <3>5, <4>1, <4>2, <4>3
      <4>5. QED
        BY <3>1, <4>4 DEF c
    <3>7. CASE u # a.owner
      <4>1. c = b
        BY <1>6, <3>7 DEF Allocated
      <4>2. value[a] = 0
        BY <3>2, <3>7 DEF DueTo
      <4>3. due[i] = due[i - 1]
        BY <3>5, <4>2
      <4>4. QED
        BY <3>1, <3>3, <4>1, <4>3
    <3>8. QED
      BY <3>6, <3>7
  <2> HIDE DEF P
  <2>3. n \in P
    <3>1. \A i \in 0 .. n : i \in P
      BY <1>1, <2>1, <2>2, UpTo
    <3>2. QED
      BY <1>1, <3>1
  <2>4. QED
    BY <1>4, <2>3 DEF P
<1>10. new \in [Users -> BalanceOf(H)]
  <2>1. n \in 0 .. n
    BY <1>1
  <2>2. QED
    BY <1>4, <1>5, <2>1
<1>11. QED
  BY <1>7, <1>8, <1>9, <1>10 DEF new

LEMMA CreateVestingTokenKeeps ==
  ASSUME NEW H, HoldKind(H), IInv(H), NEW t \in Times, At(t), NEW by \in Users,
         NEW dto \in CreateVestingTokenDtos, CreateVestingToken(by, dto, t)
  PROVE  IInv(H)'
<1> DEFINE new == AllocateAll(balances, dto.allocations, dto.startDate, by, t)
<1>1. /\ dto.allocations \in Allocations /\ dto.startDate \in StartDates
      /\ dto.authorities \in Authorities \cup {None}
  BY DEF CreateVestingTokenDtos
<1>2. MaxSupply \in Nat /\ MaxSupply \in 0 .. MaxSupply /\ GivenAuthorities(dto, by) \in Authorities
  BY <1>1, ClassAssumption, GivenAuthoritiesType
<1>3. /\ CreateTokenClass(FALSE, GivenAuthorities(dto, by), MaxSupply)
      /\ AllocationTotal(dto.allocations) = MaxSupply
      /\ vesting' = [startDate |-> dto.startDate, allocations |-> dto.allocations]
      /\ UNCHANGED <<authorized, configuration>>
  BY DEF CreateVestingToken
<1>4. balances' = new
  BY DEF CreateVestingToken, AllocateAll
<1>5. class = None /\ class' \in TokenClassObjects /\ class' # None /\ class'.totalSupply = MaxSupply
  BY <1>2, <1>3, CreatedClass
<1>6. /\ Total(balances) = 0 /\ \A u \in Users : balances[u] = EmptyBalance
      /\ balances \in [Users -> BalanceOf(H)]
  BY <1>5, NothingYet, TypesStay
<1>7. t \in Nat /\ latest' \in Nat /\ t <= latest' /\ latest' \in Times \cup {0}
  BY CallTimes DEF IInv
<1>8. /\ new \in [Users -> BalanceOf(H)]
      /\ Total(new) = AllocationTotal(dto.allocations)
      /\ H \subseteq RegularHolds => \A u \in Users : \A now \in Nat : t <= now =>
           /\ LockedQuantity(new[u], now) <= new[u].quantity
           /\ VestsGradually
                => \A run : SumRun(run, dto.allocations, DueTo(u, dto.startDate, now))
                              => run[Len(dto.allocations)] <= VestingQuantity(H, new[u], now)
  BY <1>1, <1>6, AllocationsKeep
<1> HIDE DEF new
<1>9. Typed(H)'
  <2>1. vesting' \in VestingTokens
    BY <1>1, <1>3 DEF VestingTokens
  <2>2. QED
    BY <1>3, <1>4, <1>5, <1>7, <1>8, <2>1, TypesStay DEF Typed
<1>10. Created' /\ Supplied'
  BY <1>2, <1>3, <1>4, <1>5, <1>8 DEF Created, Supplied, Total
<1>11. Covered(H)'
  <2>1. ASSUME H \subseteq RegularHolds, NEW u \in Users, NEW now \in Nat, latest' <= now
        PROVE  LockedQuantity(balances'[u], now) <= balances'[u].quantity
    <3>1. t <= now
      BY <1>7, <2>1
    <3>2. QED
      BY <1>4, <1>8, <2>1, <3>1
  <2>2. QED
    BY <2>1 DEF Covered, CoveredFrom
<1>12. Scheduled(H)'
  <2>1. ASSUME H \subseteq RegularHolds, VestsGradually, NEW u \in Users, NEW now \in Nat, latest' <= now
        PROVE  Due(vesting', u, now) <= VestingQuantity(H, balances'[u], now)
    <3> DEFINE token == vesting'
    <3>1. token.allocations = dto.allocations /\ token.startDate = dto.startDate /\ token # None
      <4>1. token \in VestingTokens
        BY <1>1, <1>3 DEF VestingTokens
      <4>2. QED
        BY <1>3, <4>1, NoneAssumption
    <3>2. t <= now
      BY <1>7, <2>1
    <3>3. token.allocations \in Seq(Allocation) /\ token.startDate \in Nat
      BY <1>1, <3>1, ClassAssumption
    <3> HIDE DEF token
    <3>4. PICK run : /\ SumRun(run, token.allocations, DueTo(u, token.startDate, now))
                     /\ Due(token, u, now) = run[Len(token.allocations)]
      BY <3>1, <3>3, DueRun
    <3>5. run[Len(dto.allocations)] <= VestingQuantity(H, new[u], now)
      BY <1>8, <2>1, <3>1, <3>2, <3>4
    <3>6. QED
      BY <1>4, <3>1, <3>4, <3>5 DEF token
  <2>2. QED
    BY <2>1 DEF Scheduled
<1>13. QED
  BY <1>9, <1>10, <1>11, <1>12 DEF IInv

-----------------------------------------------------------------------------
(* Mints, transfers and unlocks.                                           *)

\* A call that changes the balance of one user, who gets at most what the supply grows by.
LEMMA OneBalance ==
  ASSUME NEW H, IInv(H), NEW t \in Times, At(t), NEW x \in Users, NEW c, NEW q \in Nat,
         class # None, class' \in TokenClassObjects, class'.totalSupply = class.totalSupply + q,
         balances' = [balances EXCEPT ![x] = c],
         Follows(H, balances[x], c, latest'), c.quantity <= balances[x].quantity + q,
         UNCHANGED <<authorized, vesting, configuration>>
  PROVE  IInv(H)'
<1>1. balances \in [Users -> BalanceOf(H)] /\ class \in TokenClassObjects
  BY TypesStay
<1>2. class' # None
  BY NoneAssumption
<1> DEFINE new == balances'
<1>3. /\ new \in [Users -> BalanceOf(H)] /\ new[x] = c
      /\ \A u \in Users \ {x} : new[u] = balances[u]
  BY <1>1 DEF Follows
<1>4. \A u \in Users : Follows(H, balances[u], balances'[u], latest')
  BY <1>3, Unchanging
<1>5. Total(new) <= class'.totalSupply
  <2> HIDE DEF new
  <2>1. Total(new) = Total(balances) + (new[x].quantity - balances[x].quantity)
    BY <1>1, <1>3, TotalChange, ClassAssumption
  <2>2. Total(balances) <= class.totalSupply
    BY DEF IInv, Supplied
  <2>3. Total(balances) \in Nat /\ class.totalSupply \in Nat
    BY <1>1, TotalType, ClassAssumption DEF TokenClassObjects
  <2>4. balances[x].quantity \in Nat /\ new[x].quantity \in Nat
    BY <1>1, <1>3 DEF BalanceOf
  <2>5. QED
    BY <1>3, <2>1, <2>2, <2>3, <2>4
<1>6. Created' /\ Supplied'
  BY <1>2, <1>5 DEF Created, Supplied, Total
<1>7. QED
  BY <1>3, <1>4, <1>6, TypesStay, CallKeeps

Fields == {"preMintBurn", "postMintBurn", "postMintLock"}

LEMMA ConfiguredPart ==
  ASSUME configuration \in TokenMintConfigurations \cup {None}, NEW field \in Fields, Configured(field),
         NEW q \in Nat
  PROVE  configuration[field] \in 0 .. 100 /\ Part(q, configuration[field]) \in 0 .. q
<1>1. configuration \in TokenMintConfigurations /\ configuration[field] # None
  BY DEF Configured
<1>2. configuration[field] \in 0 .. 100
  BY <1>1 DEF TokenMintConfigurations, TokenMintConfigurationDtos, IsBurnToMint, IsPostMintLock, Fields
<1>3. QED
  BY <1>2, PartType

LEMMA BurnFollows ==
  ASSUME NEW H, IInv(H), NEW field \in Fields, NEW b \in BalanceOf(H), NEW q \in Nat,
         NEW now \in Nat, NEW since \in Nat, now <= since,
         H \subseteq RegularHolds => CoveredFrom(b, since), CanBurnToMint(field, b, q, now)
  PROVE  Follows(H, b, BurnToMint(field, b, q), since) /\ BurnToMint(field, b, q).quantity <= b.quantity
<1>1. b.quantity \in Nat
  BY DEF BalanceOf
<1>2. CASE Configured(field)
  <2> DEFINE p == Part(q, configuration[field])
  <2>1. p \in Nat
    BY <1>2, TypesStay, ConfiguredPart
  <2>2. IsSpendable(b, p, now) /\ BurnToMint(field, b, q) = SubtractQuantity(b, p)
    BY <1>2 DEF CanBurnToMint, BurnToMint
  <2> HIDE DEF p
  <2>3. Follows(H, b, SubtractQuantity(b, p), since) /\ SubtractQuantity(b, p).quantity = b.quantity - p
    BY <2>1, <2>2, SpendFollows
  <2>4. QED
    BY <1>1, <2>1, <2>2, <2>3
<1>3. CASE ~Configured(field)
  <2>1. BurnToMint(field, b, q) = b
    BY <1>3 DEF BurnToMint
  <2>2. QED
    BY <1>1, <2>1, SameHoldsFollow
<1>4. QED
  BY <1>2, <1>3

LEMMA LockOnMintFollows ==
  ASSUME NEW H, HoldKind(H), IInv(H), NEW b \in BalanceOf(H), NEW owner \in Users, NEW by,
         NEW q \in Nat, NEW now \in Nat, NEW since \in Nat, now <= since,
         H \subseteq RegularHolds => CoveredFrom(b, since), CanLockOnMint(b, owner, by, q, now)
  PROVE  Follows(H, b, LockOnMint(b, owner, q, now), since) /\ LockOnMint(b, owner, q, now).quantity = b.quantity
<1>1. CASE Configured("postMintLock")
  <2> DEFINE p == Part(q, configuration.postMintLock)
             expires == now + Expiration
             hold == [quantity |-> p, expires |-> expires, name |-> "postMintLock", createdBy |-> owner,
                      lockAuthority |-> LockAuthority, vestingStart |-> None]
  <2>1. p \in Nat /\ expires \in Nat
    BY <1>1, TypesStay, ConfiguredPart, ClassAssumption DEF Fields
  <2>2. IsSpendable(b, p, now) /\ LockOnMint(b, owner, q, now) = LockQuantity(b, hold, now)
    BY <1>1 DEF CanLockOnMint, LockOnMint
  <2> HIDE DEF p, expires
  <2>3. hold \in AllHolds
    BY <2>1, ClassAssumption DEF AllHolds, Holds
  <2>4. hold \in H /\ hold.quantity = p /\ H \subseteq AllHolds
    BY <2>3 DEF HoldKind, Kind, IsVesting
  <2> HIDE DEF hold
  <2>5. IsSpendable(b, hold.quantity, now)
    BY <2>2, <2>4
  <2>6. /\ Follows(H, b, LockQuantity(b, hold, now), since)
        /\ LockQuantity(b, hold, now).quantity = b.quantity
    BY <2>4, <2>5, LockFollows
  <2>7. QED
    BY <2>2, <2>6
<1>2. CASE ~Configured("postMintLock")
  <2>1. LockOnMint(b, owner, q, now) = b
    BY <1>2 DEF LockOnMint
  <2>2. QED
    BY <2>1, SameHoldsFollow
<1>3. QED
  BY <1>1, <1>2

LEMMA MintTokenKeeps ==
  ASSUME NEW H, HoldKind(H), IInv(H), NEW t \in Times, At(t), NEW by \in Users,
         NEW owner \in Users, NEW q \in Quantities, MintToken(by, owner, q, t)
  PROVE  IInv(H)'
<1> DEFINE b == balances[owner]
           before == BurnToMint("preMintBurn", b, q)
           minted == AddQuantity(before, q)
           burnt == BurnToMint("postMintBurn", minted, q)
           locked == LockOnMint(burnt, owner, q, t)
           since == latest'
           regular == H \subseteq RegularHolds
<1>1. /\ class # None /\ IsWithinSupply(q)
      /\ CanBurnToMint("preMintBurn", b, q, t) /\ CanBurnToMint("postMintBurn", minted, q, t)
      /\ CanLockOnMint(burnt, owner, by, q, t)
      /\ class' = [class EXCEPT !.totalSupply = @ + q]
      /\ balances' = [balances EXCEPT ![owner] = locked]
      /\ UNCHANGED <<authorized, vesting, configuration>>
  BY DEF MintToken
<1>2. q \in Nat /\ MaxSupply \in Nat /\ t \in Nat /\ since \in Nat /\ t <= since
  BY ClassAssumption, CallTimes DEF IInv, Quantities
<1>3. b \in BalanceOf(H) /\ regular => CoveredFrom(b, since)
  BY Unchanging
<1>4. b \in BalanceOf(H) /\ b.quantity \in Nat
  BY Unchanging DEF BalanceOf
<1>5. "preMintBurn" \in Fields /\ "postMintBurn" \in Fields
  BY DEF Fields
<1> HIDE DEF b, since
<1>6. Follows(H, b, before, since) /\ before.quantity <= b.quantity
  BY <1>1, <1>2, <1>3, <1>4, <1>5, BurnFollows
<1> HIDE DEF before
<1>7. before \in BalanceOf(H) /\ before.quantity \in Nat /\ regular => CoveredFrom(before, since)
  BY <1>6 DEF Follows, BalanceOf
<1>8. before \in BalanceOf(H) /\ before.quantity \in Nat
  BY <1>6 DEF Follows, BalanceOf
<1>9. Follows(H, before, minted, since) /\ minted.quantity = before.quantity + q
  BY <1>2, <1>7, <1>8, AddFollows
<1> HIDE DEF minted
<1>10. /\ minted \in BalanceOf(H) /\ minted.quantity \in Nat
       /\ regular => CoveredFrom(minted, since)
  BY <1>9 DEF Follows, BalanceOf
<1>11. Follows(H, minted, burnt, since) /\ burnt.quantity <= minted.quantity
  BY <1>1, <1>2, <1>5, <1>10, BurnFollows
<1> HIDE DEF burnt
<1>12. /\ burnt \in BalanceOf(H) /\ burnt.quantity \in Nat
       /\ regular => CoveredFrom(burnt, since)
  BY <1>11 DEF Follows, BalanceOf
<1>13. Follows(H, burnt, locked, since) /\ locked.quantity = burnt.quantity
  BY <1>1, <1>2, <1>12, LockOnMintFollows
<1> HIDE DEF locked
<1>14. Follows(H, b, locked, since)
  BY <1>4, <1>6, <1>8, <1>9, <1>10, <1>11, <1>12, <1>13, FollowsTransitive
<1>15. locked.quantity <= b.quantity + q
  BY <1>2, <1>4, <1>6, <1>8, <1>9, <1>10, <1>11, <1>12, <1>13
<1>16. class' \in TokenClassObjects /\ class'.totalSupply = class.totalSupply + q
  <2>1. class \in TokenClassObjects
    BY <1>1, TypesStay
  <2>2. class.totalSupply + q \in 0 .. MaxSupply
    BY <1>1, <1>2, <2>1 DEF IsWithinSupply, TokenClassObjects
  <2>3. QED
    BY <1>1, <2>1, <2>2 DEF TokenClassObjects
<1>17. QED
  BY <1>1, <1>2, <1>14, <1>15, <1>16, OneBalance DEF b, since

LEMMA TransferKeeps ==
  ASSUME NEW H, IInv(H), NEW t \in Times, At(t), NEW from \in Users, NEW to \in Users,
         NEW q \in Quantities, Transfer(from, to, q, t)
  PROVE  IInv(H)'
<1> DEFINE c == SubtractQuantity(balances[from], q)
           d == AddQuantity(balances[to], q)
           between == [balances EXCEPT ![from] = c]
           after == [between EXCEPT ![to] = d]
<1>1. /\ balances \in [Users -> BalanceOf(H)] /\ q \in Nat /\ q >= 1
      /\ balances[from] \in BalanceOf(H) /\ balances[to] \in BalanceOf(H)
  BY TypesStay, ClassAssumption DEF Quantities
<1>2. from # to /\ IsSpendable(balances[from], q, t) /\ UNCHANGED <<class, authorized, vesting, configuration>>
  BY DEF Transfer
<1>3. balances' = after
  BY <1>1 DEF Transfer
<1>4. t \in Nat /\ latest' \in Nat /\ t <= latest'
  BY CallTimes DEF IInv
<1>5. Follows(H, balances[from], c, latest') /\ c.quantity = balances[from].quantity - q
  BY <1>1, <1>2, <1>4, SpendFollows
<1>6. Follows(H, balances[to], d, latest') /\ d.quantity = balances[to].quantity + q
  <2>1. H \subseteq RegularHolds => CoveredFrom(balances[to], latest')
    BY Unchanging
  <2>2. QED
    BY <1>1, <2>1, AddFollows
<1> HIDE DEF c, d
<1>7. between \in [Users -> BalanceOf(H)] /\ after \in [Users -> BalanceOf(H)]
  BY <1>1, <1>5, <1>6 DEF Follows
<1>8. /\ between[from] = c /\ between[to] = balances[to] /\ after[to] = d /\ after[from] = c
      /\ \A u \in Users \ {from} : between[u] = balances[u]
      /\ \A u \in Users \ {to} : after[u] = between[u]
  BY <1>1, <1>2
<1> HIDE DEF between, after
<1>9. Total(after) = Total(balances)
  <2>1. Total(between) = Total(balances) + (between[from].quantity - balances[from].quantity)
    <3>1. \A u \in Users \ {from} : between[u].quantity = balances[u].quantity
      BY <1>8
    <3>2. QED
      BY <1>1, <1>7, <3>1, TotalChange, ClassAssumption
  <2>2. Total(after) = Total(between) + (after[to].quantity - between[to].quantity)
    <3>1. \A u \in Users \ {to} : after[u].quantity = between[u].quantity
      BY <1>8
    <3>2. QED
      BY <1>7, <3>1, TotalChange, ClassAssumption
  <2>3. Total(balances) \in Nat /\ balances[from].quantity \in Nat /\ balances[to].quantity \in Nat
    BY <1>1, TotalType, ClassAssumption DEF BalanceOf
  <2>4. QED
    BY <1>1, <1>5, <1>6, <1>8, <2>1, <2>2, <2>3
<1>10. ASSUME NEW u \in Users
       PROVE  Follows(H, balances[u], after[u], latest')
  <2>1. CASE u = from
    BY <1>5, <1>8, <2>1
  <2>2. CASE u = to
    BY <1>6, <1>8, <2>2
  <2>3. CASE u \notin {from, to}
    <3>1. after[u] = balances[u]
      BY <1>8, <2>3
    <3>2. QED
      BY <3>1, Unchanging
  <2>4. QED
    BY <2>1, <2>2, <2>3
<1>11. class # None
  <2>1. SUFFICES ASSUME class = None PROVE FALSE
    OBVIOUS
  <2>2. balances[from].quantity = 0
    BY <2>1, NothingYet, EmptyBalances
  <2>3. q <= balances[from].quantity
    BY <1>2 DEF IsSpendable
  <2>4. QED
    BY <1>1, <2>2, <2>3
<1>12. Created' /\ Supplied'
  BY <1>2, <1>3, <1>9, <1>11 DEF IInv, Created, Supplied, Total
<1>13. QED
  BY <1>2, <1>3, <1>7, <1>10, <1>12, TypesStay, CallKeeps

LEMMA UnlockKeeps ==
  ASSUME NEW H, HoldKind(H), IInv(H), NEW t \in Times, At(t), NEW by \in Users, NEW owner \in Users,
         NEW q \in Quantities, NEW name \in Names, Unlock(by, owner, q, name, t)
  PROVE  IInv(H)'
<1> DEFINE b == balances[owner]
<1>1. class # None /\ UNCHANGED <<class, authorized, vesting, configuration>>
  BY DEF Unlock
<1>2. PICK order \in VisitOrders(UnexpiredHolds(b, t)) :
        balances' = [balances EXCEPT ![owner].holds =
                       UnlockQuantity(b, q, t, name, owner, by, by \in class.authorities, order).kept]
  BY DEF Unlock
<1> DEFINE result == UnlockQuantity(b, q, t, name, owner, by, by \in class.authorities, order)
           after == [b EXCEPT !.holds = result.kept]
<1>3. /\ b \in BalanceOf(H) /\ b.quantity \in Nat /\ q \in Nat /\ Kind(H)
      /\ balances \in [Users -> BalanceOf(H)]
  BY Unchanging, TypesStay, ClassAssumption DEF BalanceOf, Quantities, HoldKind
<1>4. t \in Nat /\ latest' \in Nat /\ t <= latest'
  BY CallTimes DEF IInv
<1>5. balances' = [balances EXCEPT ![owner] = after]
  BY <1>2, <1>3
<1>6. H \subseteq RegularHolds => CoveredFrom(b, latest')
  BY Unchanging
<1>7. Follows(H, b, after, latest') /\ after.quantity = b.quantity
  <2> HIDE DEF b
  <2>1. QED
    BY <1>3, <1>4, <1>6, UnlockFollows
<1> HIDE DEF after
<1>8. class' \in TokenClassObjects /\ class'.totalSupply = class.totalSupply + 0
  <2>1. class \in TokenClassObjects
    BY <1>1, TypesStay
  <2>2. class.totalSupply \in Nat
    BY <2>1, ClassAssumption DEF TokenClassObjects
  <2>3. QED
    BY <1>1, <2>1, <2>2
<1>9. after.quantity <= b.quantity + 0
  BY <1>3, <1>7
<1>10. QED
  BY <1>1, <1>5, <1>7, <1>8, <1>9, OneBalance

-----------------------------------------------------------------------------
(* The theorems.                                                           *)

LEMMA NextClassKeeps ==
  ASSUME NEW H, HoldKind(H), IInv(H), NEW t \in Times, At(t), NEW by \in Users, NextClass(by, t)
  PROVE  IInv(H)'
<1>1. CASE \E dto \in CreateTokenClassDtos : CreateClass(by, dto)
  BY <1>1, CreateClassKeeps
<1>2. CASE \E dto \in UpdateTokenClassDtos : UpdateTokenClass(by, dto)
  BY <1>2, UpdateTokenClassKeeps
<1>3. CASE \E dto \in CreateNftCollectionDtos : CreateNftCollection(by, dto)
  BY <1>3, CreateNftCollectionKeeps
<1>4. CASE \E dto \in CreateVestingTokenDtos : CreateVestingToken(by, dto, t)
  BY <1>4, CreateVestingTokenKeeps
<1>5. CASE \E dto \in GrantNftCollectionAuthorizationDtos : GrantNftCollectionAuthorization(dto)
  BY <1>5, GrantKeeps
<1>6. CASE \E dto \in RevokeNftCollectionAuthorizationDtos : RevokeNftCollectionAuthorization(by, dto)
  BY <1>6, RevokeKeeps
<1>7. CASE \E dto \in TokenMintConfigurationDtos : SaveTokenMintConfiguration(by, dto)
  BY <1>7, SaveTokenMintConfigurationKeeps
<1>8. CASE DeleteTokenMintConfiguration(by)
  BY <1>8, DeleteTokenMintConfigurationKeeps
<1>9. QED
  BY <1>1, <1>2, <1>3, <1>4, <1>5, <1>6, <1>7, <1>8 DEF NextClass

LEMMA StepHolds ==
  ASSUME NEW H, HoldKind(H), IInv(H), [Next]_vars
  PROVE  IInv(H)'
<1>1. CASE Next
  <2>1. PICK by \in Users, t \in Times :
          /\ At(t)
          /\ \/ NextClass(by, t)
             \/ \E u \in Users, q \in Quantities :
                  \/ MintToken(by, u, q, t)
                  \/ Transfer(by, u, q, t)
                  \/ \E name \in Names : Unlock(by, u, q, name, t)
    BY <1>1 DEF Next
  <2>2. CASE NextClass(by, t)
    BY <2>1, <2>2, NextClassKeeps
  <2>3. ASSUME NEW u \in Users, NEW q \in Quantities, MintToken(by, u, q, t) PROVE IInv(H)'
    BY <2>1, <2>3, MintTokenKeeps
  <2>4. ASSUME NEW u \in Users, NEW q \in Quantities, Transfer(by, u, q, t) PROVE IInv(H)'
    BY <2>1, <2>4, TransferKeeps
  <2>5. ASSUME NEW u \in Users, NEW q \in Quantities, NEW name \in Names, Unlock(by, u, q, name, t)
        PROVE  IInv(H)'
    BY <2>1, <2>5, UnlockKeeps
  <2>6. QED
    BY <2>1, <2>2, <2>3, <2>4, <2>5
<1>2. CASE UNCHANGED vars
  BY <1>2 DEF vars, IInv, Typed, Created, Supplied, Covered, Scheduled
<1>3. QED
  BY <1>1, <1>2

LEMMA AllHoldsInvariant == Spec => []IInv(AllHolds)
<1>1. Init => IInv(AllHolds)
  BY InitHolds
<1>2. IInv(AllHolds) /\ [Next]_vars => IInv(AllHolds)'
  BY AllHoldsKind, StepHolds
<1>3. QED
  BY <1>1, <1>2, PTL DEF Spec

LEMMA RegularHoldsInvariant ==
  ASSUME NoInstantVesting
  PROVE  Spec => []IInv(RegularHolds)
<1>1. Init => IInv(RegularHolds)
  BY InitHolds
<1>2. IInv(RegularHolds) /\ [Next]_vars => IInv(RegularHolds)'
  BY RegularHoldsKind, StepHolds
<1>3. QED
  BY <1>1, <1>2, PTL DEF Spec

(***************************************************************************)
(* The types, and that no balance has more than the supply of the class:   *)
(* whatever is allocated, minted, burnt before or after it, locked, moved  *)
(* and unlocked (createTokenClass.ts, vestingToken.ts and                  *)
(* mintTokenWithAllowance.ts with its gates).                              *)
(***************************************************************************)
THEOREM TypeCorrect == Spec => []TypeOK
<1>1. IInv(AllHolds) => TypeOK
  <2> SUFFICES ASSUME IInv(AllHolds), NEW u \in Users
               PROVE  balances[u].quantity \in 0 .. MaxSupply
    BY DEF IInv, Typed, TypeOK
  <2>1. balances \in [Users -> BalanceOf(AllHolds)] /\ MaxSupply \in Nat
    BY TypesStay, ClassAssumption
  <2>2. balances[u].quantity \in Nat
    BY <2>1 DEF BalanceOf
  <2>3. CASE class = None
    BY <2>1, <2>3, NothingYet, EmptyBalances
  <2>4. CASE class # None
    <3>1. Total(balances) <= class.totalSupply /\ class.totalSupply \in 0 .. MaxSupply
      BY <2>4 DEF IInv, Supplied, Typed, TokenClassObjects
    <3>2. balances[u].quantity <= Total(balances)
      <4> DEFINE f == [v \in Users |-> balances[v].quantity]
      <4>1. /\ Summable(f, Users) /\ \A v \in Users : f[v] = balances[v].quantity /\ 0 <= f[v]
            /\ Total(balances) = SumFunctionOnSet(f, Users)
        BY <2>1, TotalSummable, ClassAssumption
      <4> HIDE DEF f
      <4>2. SumFunctionOnSet(f, {u}) <= SumFunctionOnSet(f, Users)
        BY <4>1, SumSubset
      <4>3. SumFunctionOnSet(f, {u}) = f[u]
        <5>1. Summable(f, {u})
          BY <4>1, SummableSubset
        <5>2. SumFunctionOnSet(f, {u}) = f[u] + SumFunctionOnSet(f, {u} \ {u})
          BY <5>1, SumRemove
        <5>3. SumFunctionOnSet(f, {u} \ {u}) = 0
          <6>1. {u} \ {u} = {}
            OBVIOUS
          <6>2. SumFunctionOnSet(f, {}) = 0
            BY SumEmpty
          <6>3. QED
            BY <6>1, <6>2
        <5>4. f[u] \in Nat
          BY <2>2, <4>1
        <5>5. QED
          BY <5>2, <5>3, <5>4
      <4>4. QED
        BY <4>1, <4>2, <4>3
    <3>3. Total(balances) \in Nat
      BY <2>1, TotalType, ClassAssumption
    <3>4. QED
      BY <2>1, <2>2, <3>1, <3>2, <3>3
  <2>5. QED
    BY <2>3, <2>4
<1>2. QED
  BY <1>1, AllHoldsInvariant, PTL

-----------------------------------------------------------------------------
(* What is configured to be done with a mint.                              *)

\* What the balance has beyond its holds may be burnt or locked.
LEMMA FreeIsSpendable ==
  ASSUME NEW b, NEW q \in Nat, NEW t, b.quantity \in Nat, LockedQuantity(b, t) \in Int,
         q <= b.quantity, LockedQuantity(b, t) + q <= b.quantity
  PROVE  IsSpendable(b, q, t)
<1> DEFINE locked == LockedQuantity(b, t)
<1>1. locked \in Int /\ locked + q <= b.quantity
  OBVIOUS
<1> HIDE DEF locked
<1>2. b.quantity - locked >= q
  BY <1>1
<1>3. QED
  BY <1>2 DEF IsSpendable, SpendableQuantity, locked

LEMMA MintSuffices ==
  ASSUME IInv(RegularHolds), configuration # None, ~class.isNonFungible,
         NEW u \in Users, NEW q \in Nat, NEW t \in Nat, latest <= t
  PROVE  LET minted == AddQuantity(balances[u], q)
             burnt  == BurnToMint("postMintBurn", minted, q)
         IN  /\ CanBurnToMint("postMintBurn", minted, q, t)
             /\ CanLockOnMint(burnt, u, u, q, t)
<1> DEFINE b == balances[u]
           minted == AddQuantity(b, q)
           burnt == BurnToMint("postMintBurn", minted, q)
           burn == Part(q, Percentage(configuration.postMintBurn))
           lock == Part(q, Percentage(configuration.postMintLock))
           locked == LockedQuantity(b, t)
<1>1. b \in BalanceOf(RegularHolds) /\ b.quantity \in Nat
  BY DEF IInv, Typed, BalanceOf
<1>2. /\ Percentage(configuration.postMintBurn) \in 0 .. 100
      /\ Percentage(configuration.postMintLock) \in 0 .. 100
      /\ Percentage(configuration.postMintBurn) + Percentage(configuration.postMintLock) <= 100
  <2>1. configuration \in TokenMintConfigurations
    BY DEF IInv, Typed
  <2>2. QED
    BY <2>1 DEF TokenMintConfigurations, TokenMintConfigurationDtos, IsWithinMint, IsBurnToMint,
                IsPostMintLock, Percentage
<1>3. burn \in Nat /\ lock \in Nat /\ burn + lock <= q
  <2>1. burn \in 0 .. q /\ lock \in 0 .. q
    BY <1>2, PartType
  <2>2. burn + lock <= q
    BY <1>2, PartsType
  <2> HIDE DEF burn, lock
  <2>3. QED
    BY <2>1, <2>2
<1>4. locked \in Int /\ locked <= b.quantity
  BY <1>1, LockedType DEF IInv, Covered, CoveredFrom
<1>5. minted.quantity = b.quantity + q /\ minted.holds = b.holds /\ minted \in BalanceOf(RegularHolds)
  BY <1>1, AddType
<1>6. LockedQuantity(minted, t) = locked
  <2> HIDE DEF minted
  <2>1. QED
    BY <1>5, SameHoldsLocked
<1>7. Configured("postMintBurn") => Part(q, configuration["postMintBurn"]) = burn
  BY DEF Configured, Percentage
<1>8. Configured("postMintLock") => Part(q, configuration.postMintLock) = lock
  BY DEF Configured, Percentage
<1> HIDE DEF b, burn, lock, locked, minted
<1>9. IsSpendable(minted, burn, t)
  <2>1. minted.quantity \in Nat /\ burn <= minted.quantity /\ locked + burn <= minted.quantity
    BY <1>1, <1>3, <1>4, <1>5
  <2>2. QED
    BY <1>3, <1>4, <1>6, <2>1, FreeIsSpendable
<1>10. burnt.holds = b.holds /\ burnt.quantity \in {minted.quantity, minted.quantity - burn}
  <2>1. burnt \in {minted, SubtractQuantity(minted, burn)}
    BY <1>7 DEF BurnToMint
  <2>2. /\ SubtractQuantity(minted, burn).quantity = minted.quantity - burn
        /\ SubtractQuantity(minted, burn).holds = minted.holds
    BY <1>5 DEF SubtractQuantity, BalanceOf
  <2> HIDE DEF burnt
  <2>3. QED
    BY <1>5, <2>1, <2>2
<1> HIDE DEF burnt
<1>11. IsSpendable(burnt, lock, t)
  <2>1. LockedQuantity(burnt, t) = locked
    BY <1>10, SameHoldsLocked DEF locked
  <2>2. burnt.quantity \in Nat /\ lock <= burnt.quantity /\ locked + lock <= burnt.quantity
    BY <1>1, <1>3, <1>4, <1>5, <1>10
  <2>3. QED
    BY <1>3, <1>4, <2>1, <2>2, FreeIsSpendable
<1>12. CanBurnToMint("postMintBurn", minted, q, t)
  BY <1>7, <1>9 DEF CanBurnToMint
<1>13. CanLockOnMint(burnt, u, u, q, t)
  BY <1>8, <1>11 DEF CanLockOnMint
<1>14. QED
  BY <1>12, <1>13 DEF burnt, minted, b

(***************************************************************************)
(* What is minted suffices for the burn and the lock that the              *)
(* configuration has for after it: validatePostProcessingTotals            *)
(* (TokenMintConfiguration.ts) lets no configuration ask for more, and     *)
(* each balance has what it had locked before, whatever calls were made.   *)
(* The hypothesis excludes the allocations of which the hold is over as it *)
(* starts: its locked quantity is no number, and nothing is less than it.  *)
(***************************************************************************)
THEOREM MintCovered ==
  ASSUME NoInstantVesting
  PROVE  Spec => []MintIsCovered
<1>1. IInv(RegularHolds) => MintIsCovered
  <2> SUFFICES ASSUME IInv(RegularHolds), configuration # None, ~class.isNonFungible,
                      NEW u \in Users, NEW q \in Quantities, NEW t \in Times, t >= latest
               PROVE  LET minted == AddQuantity(balances[u], q)
                          burnt  == BurnToMint("postMintBurn", minted, q)
                      IN  /\ CanBurnToMint("postMintBurn", minted, q, t)
                          /\ CanLockOnMint(burnt, u, u, q, t)
    BY DEF MintIsCovered
  <2>1. q \in Nat /\ t \in Nat /\ latest \in Nat
    BY ClassAssumption DEF Quantities, IInv, Typed
  <2>2. latest <= t
    BY <2>1
  <2>3. QED
    BY <2>1, <2>2, MintSuffices
<1>2. Spec => []IInv(RegularHolds)
  BY RegularHoldsInvariant
<1>3. QED
  BY <1>1, <1>2, PTL

-----------------------------------------------------------------------------
(* Vesting.                                                                *)

(***************************************************************************)
(* Whatever is transferred, minted, burnt, locked and unlocked after the   *)
(* class was created (vestingToken.ts), what of its allocations has        *)
(* not vested by the latest transaction is in the balances of their        *)
(* owners: the holds of createVestingToken, which unlockQuantity keeps,    *)
(* lock it.  The hypothesis excludes the allocations of no cliff and of no *)
(* days of vesting, of which the holds are over as they start or lock      *)
(* nothing.                                                                *)
(***************************************************************************)
THEOREM VestsAsScheduled ==
  ASSUME VestsGradually
  PROVE  Spec => []VestsOnSchedule
<1>1. IInv(RegularHolds) => VestsOnSchedule
  <2> SUFFICES ASSUME IInv(RegularHolds), vesting # None, NEW u \in Users
               PROVE  balances[u].quantity >=
                        FoldLeft(LAMBDA sum, a : sum + IF a.owner = u
                                                       THEN Unvested(a, vesting.startDate, latest) ELSE 0,
                                 0, vesting.allocations)
    BY DEF VestsOnSchedule
  <2> DEFINE due == Due(vesting, u, latest)
             kept == VestingQuantity(RegularHolds, balances[u], latest)
             locked == LockedQuantity(balances[u], latest)
  <2>1. /\ latest \in Nat /\ balances[u] \in BalanceOf(RegularHolds)
        /\ balances[u].quantity \in Nat
    BY ClassAssumption DEF IInv, Typed, BalanceOf
  <2>2. due <= kept
    BY <2>1 DEF IInv, Scheduled
  <2>3. kept <= locked /\ kept \in Int /\ locked \in Int
    BY <2>1, VestingIsLocked, VestingType, LockedType
  <2>4. locked <= balances[u].quantity
    BY <2>1 DEF IInv, Covered, CoveredFrom
  <2>5. due \in Nat
    BY <2>1, DueType DEF IInv, Typed
  <2>6. due = FoldLeft(LAMBDA sum, a : sum + IF a.owner = u
                                             THEN Unvested(a, vesting.startDate, latest) ELSE 0,
                       0, vesting.allocations)
    BY DEF Due
  <2> HIDE DEF due, kept, locked
  <2>7. balances[u].quantity >= due
    BY <2>1, <2>2, <2>3, <2>4, <2>5
  <2>8. QED
    BY <2>6, <2>7
<1>2. Spec => []IInv(RegularHolds)
  BY GradualIsNotInstant, RegularHoldsInvariant
<1>3. QED
  BY <1>1, <1>2, PTL
=============================================================================
