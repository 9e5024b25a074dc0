-------------------------- MODULE AllowancesProofs --------------------------
(***************************************************************************)
(* The properties of Allowances, for any grantors, permissions, times and  *)
(* quantities, and of TokenMint, whose mint allowances are maps of the same*)
(* kind, for any users, limits, times, quantities and deployments.         *)
(*                                                                         *)
(* The invariant counts what is left of the allowances of each permission  *)
(* as a sum over the keys, with weight 0 for a key that has no allowance   *)
(* or one that does not count.  A use of several allowances is followed    *)
(* turn by turn, on the map that has what the turns so far have put and    *)
(* for all other keys what was there: each turn takes from it what it      *)
(* takes from the quantity that remains.                                   *)
(*                                                                         *)
(* A call that mints or fulfils folds its mints over what it may write; of *)
(* each record on the way it is known what it adds to the balances, takes  *)
(* from the allowances and leaves of the requests (After, Passes, Claims). *)
(***************************************************************************)
EXTENDS Allowances, TokenMint, TokenBalanceProofs

-----------------------------------------------------------------------------
(* Maps of allowances of any kind and what is left of them: of keys K,     *)
(* allowances S, and the keys X whose allowances count.                    *)

Sound(S) == NoAllowance \notin S /\ \A a \in S : IsFinite(a) => Unspent(a) \in Nat

\* What of it is taken at a time, leaves an allowance of the same kind.
LeavesUsable(S, now, a, taken) ==
  LET after == [a EXCEPT !.quantitySpent = @ + taken, !.usesSpent = @ + 1]
      put   == IF after.usesSpent = after.uses \/ after.quantitySpent = after.quantity
               THEN [after EXCEPT !.expires = now] ELSE after
  IN  put \in S /\ IsFinite(put) /\ Unspent(put) = Unspent(a) - taken

Usable(S, now) ==
  \A a \in S, taken \in Nat : IsFinite(a) /\ taken <= Unspent(a) => LeavesUsable(S, now, a, taken)

MapsOf(K, S) == [K -> S \cup {NoAllowance}]

Value(al, X) ==
  [k \in DOMAIN al |-> IF al[k] # NoAllowance /\ k \in X /\ IsFinite(al[k]) THEN Unspent(al[k]) ELSE 0]

Worth(al, X) == SumFunctionOnSet(Value(al, X), Existing(al))

LEMMA ExistingIn ==
  ASSUME NEW K, NEW S, NEW al \in MapsOf(K, S)
  PROVE  /\ Existing(al) \subseteq K /\ \A k \in Existing(al) : al[k] \in S
         /\ \A k \in K : k \in Existing(al) <=> al[k] # NoAllowance
         /\ DOMAIN al = K
BY DEF MapsOf, Existing

LEMMA ValueType ==
  ASSUME NEW K, NEW S, Sound(S), NEW al \in MapsOf(K, S), NEW X
  PROVE  /\ Value(al, X) \in [K -> Nat]
         /\ \A k \in K : al[k] = NoAllowance => Value(al, X)[k] = 0
<1>1. \A k \in K : al[k] # NoAllowance /\ IsFinite(al[k]) => Unspent(al[k]) \in Nat
  BY DEF MapsOf, Sound
<1>2. QED
  BY <1>1 DEF Value, MapsOf

\* Elements of value 0 may be left out of a sum.
LEMMA SumWithoutZeros ==
  ASSUME NEW S, NEW f, Summable(f, S), NEW T \in SUBSET S, \A x \in S \ T : f[x] = 0
  PROVE  SumFunctionOnSet(f, S) = SumFunctionOnSet(f, T)
<1> DEFINE D == {R \in SUBSET (S \ T) : SumFunctionOnSet(f, T \cup R) # SumFunctionOnSet(f, T)}
<1>1. D = {}
  <2> SUFFICES ASSUME D # {} PROVE FALSE
    OBVIOUS
  <2>1. PICK R \in D : \A Q \in D : Cardinality(R) <= Cardinality(Q)
    <3>1. \A Q \in D : IsFiniteSet(Q)
      BY FS_Subset DEF Summable
    <3> HIDE DEF D
    <3>2. QED
      BY <3>1, SmallestSet
  <2>2. R # {}
    <3>1. T \cup {} = T
      OBVIOUS
    <3>2. QED
      BY <2>1, <3>1
  <2>3. PICK x \in R : TRUE
    BY <2>2
  <2>4. IsFiniteSet(R) /\ R \in SUBSET (S \ T)
    BY <2>1, FS_Subset DEF Summable
  <2>5. R \ {x} \notin D
    <3> HIDE DEF D
    <3>1. QED
      BY <2>1, <2>3, <2>4, Smaller
  <2>6. SumFunctionOnSet(f, T \cup (R \ {x})) = SumFunctionOnSet(f, T)
    BY <2>4, <2>5
  <2>7. SumFunctionOnSet(f, T \cup R) = f[x] + SumFunctionOnSet(f, (T \cup R) \ {x})
    <3>1. Summable(f, T \cup R)
      BY <2>4, SummableSubset
    <3>2. QED
      BY <2>3, <3>1, SumRemove
  <2>8. (T \cup R) \ {x} = T \cup (R \ {x}) /\ f[x] = 0
    BY <2>3, <2>4
  <2>9. SumFunctionOnSet(f, T) \in Int
    BY SummableSubset, SumType
  <2>10. SumFunctionOnSet(f, (T \cup R) \ {x}) = SumFunctionOnSet(f, T)
    BY <2>6, <2>8
  <2>11. SumFunctionOnSet(f, T \cup R) = SumFunctionOnSet(f, T)
    <3> HIDE DEF D
    <3>1. QED
      BY <2>7, <2>8, <2>9, <2>10
  <2>12. QED
    BY <2>1, <2>11
<1>2. S \ T \notin D /\ T \cup (S \ T) = S
  BY <1>1
<1>3. QED
  BY <1>2

\* The sum may be taken over any finite set that has the allowances.
LEMMA WorthOver ==
  ASSUME NEW K, NEW S, Sound(S), NEW al \in MapsOf(K, S), NEW X,
         NEW F \in SUBSET K, IsFiniteSet(F), Existing(al) \subseteq F
  PROVE  /\ SumFunctionOnSet(Value(al, X), F) = Worth(al, X)
         /\ Summable(Value(al, X), F)
         /\ Worth(al, X) \in Nat
<1>1. Summable(Value(al, X), F)
  BY ValueType DEF Summable
<1>2. \A k \in F \ Existing(al) : Value(al, X)[k] = 0
  BY ExistingIn, ValueType
<1>3. SumFunctionOnSet(Value(al, X), F) = Worth(al, X)
  BY <1>1, <1>2, SumWithoutZeros DEF Worth
<1>4. SumFunctionOnSet(Value(al, X), F) \in Nat
  <2>1. \A k \in F : 0 <= Value(al, X)[k]
    BY ValueType
  <2>2. QED
    BY <1>1, <2>1, SumNat
<1>5. QED
  BY <1>1, <1>3, <1>4

LEMMA WorthType ==
  ASSUME NEW K, NEW S, Sound(S), NEW al \in MapsOf(K, S), IsFiniteSet(Existing(al)), NEW X
  PROVE  Worth(al, X) \in Nat
<1>1. Existing(al) \in SUBSET K
  BY ExistingIn
<1>2. QED
  BY <1>1, WorthOver

\* Where nothing gets more, no more is left.
LEMMA WorthMonotone ==
  ASSUME NEW K, NEW S, Sound(S), NEW al \in MapsOf(K, S),
         NEW after \in MapsOf(K, S), NEW X,
         IsFiniteSet(Existing(al)), IsFiniteSet(Existing(after)),
         \A k \in K : Value(after, X)[k] <= Value(al, X)[k]
  PROVE  Worth(after, X) <= Worth(al, X)
<1> DEFINE F == Existing(al) \cup Existing(after)
<1>1. IsFiniteSet(F) /\ F \in SUBSET K /\ Existing(al) \subseteq F /\ Existing(after) \subseteq F
  BY FS_Union, ExistingIn
<1> HIDE DEF F
<1>2. /\ SumFunctionOnSet(Value(al, X), F) = Worth(al, X) /\ Summable(Value(al, X), F)
      /\ SumFunctionOnSet(Value(after, X), F) = Worth(after, X) /\ Summable(Value(after, X), F)
  BY <1>1, WorthOver
<1>3. \A k \in F : Value(after, X)[k] <= Value(al, X)[k]
  BY <1>1
<1>4. SumFunctionOnSet(Value(after, X), F) <= SumFunctionOnSet(Value(al, X), F)
  BY <1>2, <1>3, SumMonotone
<1>5. QED
  BY <1>2, <1>4

\* Where one key changes, the difference is that of its values.
LEMMA WorthUpdate ==
  ASSUME NEW K, NEW S, Sound(S), NEW al \in MapsOf(K, S),
         NEW after \in MapsOf(K, S), NEW X, NEW x \in K,
         IsFiniteSet(Existing(al)), IsFiniteSet(Existing(after)),
         \A k \in K \ {x} : Value(after, X)[k] = Value(al, X)[k]
  PROVE  Worth(after, X) = Worth(al, X) + (Value(after, X)[x] - Value(al, X)[x])
<1> DEFINE F == (Existing(al) \cup Existing(after)) \cup {x}
<1>1. /\ IsFiniteSet(F) /\ F \in SUBSET K /\ x \in F
      /\ Existing(al) \subseteq F /\ Existing(after) \subseteq F
  <2>1. IsFiniteSet(Existing(al) \cup Existing(after))
    BY FS_Union
  <2>2. IsFiniteSet(F)
    BY <2>1, FS_AddElement
  <2>3. QED
    BY <2>2, ExistingIn
<1> HIDE DEF F
<1>2. /\ SumFunctionOnSet(Value(al, X), F) = Worth(al, X) /\ Summable(Value(al, X), F)
      /\ SumFunctionOnSet(Value(after, X), F) = Worth(after, X) /\ Summable(Value(after, X), F)
  BY <1>1, WorthOver
<1>3. \A k \in F \ {x} : Value(after, X)[k] = Value(al, X)[k]
  BY <1>1
<1>4. Value(after, X)[x] \in Int
  BY ValueType
<1>5. SumFunctionOnSet(Value(after, X), F)
        = SumFunctionOnSet(Value(al, X), F) + (Value(after, X)[x] - Value(al, X)[x])
  BY <1>1, <1>2, <1>3, <1>4, SumUpdate
<1>6. QED
  BY <1>2, <1>5

-----------------------------------------------------------------------------
(* Uses: one turn of the loop, and all of them.                            *)

ResultsOf(K, S) == [remaining : Nat, used : SUBSET K, put : MapsOf(K, S)]

\* The keys of a use: of allowances that count, each of them once.
KeysIn(al, X) ==
  {s \in Seq(Existing(al) \cap X) : \A i, j \in 1 .. Len(s) : s[i] = s[j] => i = j}

LEMMA MinOfTwo ==
  ASSUME NEW m \in Nat, NEW n \in Nat
  PROVE  /\ Min({m, n}) \in Nat /\ Min({m, n}) <= m /\ Min({m, n}) <= n
         /\ Min({m, n}) = m \/ Min({m, n}) = n
<1>1. \E x \in {m, n} : \A y \in {m, n} : x <= y
  <2>1. m <= n \/ n <= m
    OBVIOUS
  <2>2. QED
    BY <2>1
<1>2. Min({m, n}) \in {m, n} /\ \A y \in {m, n} : Min({m, n}) <= y
  BY <1>1 DEF Min
<1>3. QED
  BY <1>2

\* What is taken of an allowance, and what it is then.
Taken(acc, allowance) == Min({acc.remaining, Unspent(allowance)})

\* A turn leaves the accumulator alone, or notes that an allowance that does not
\* count is used, or takes from one that counts.
Skips(turn, acc, a, now) == turn = acc /\ (acc.remaining = 0 \/ IsAllowanceExpired(a, now))

Notes(turn, acc, k, a) ==
  ~IsFinite(a) /\ turn.remaining = acc.remaining /\ turn.put = acc.put /\ turn.used = acc.used \cup {k}

Takes(turn, acc, k, a, taken) ==
  /\ IsFinite(a) /\ taken <= acc.remaining /\ taken <= Unspent(a)
  /\ taken = acc.remaining \/ taken = Unspent(a)
  /\ turn.remaining = acc.remaining - taken /\ turn.used = acc.used \cup {k}
  /\ turn.put[k] # NoAllowance /\ IsFinite(turn.put[k])
  /\ Unspent(turn.put[k]) = Unspent(a) - taken
  /\ \A j \in (DOMAIN acc.put) \ {k} : turn.put[j] = acc.put[j]

LEMMA AnyTurn ==
  ASSUME NEW K, NEW S, NEW now, Sound(S), Usable(S, now),
         NEW acc \in ResultsOf(K, S), NEW k \in K, NEW a \in S
  PROVE  LET turn == UseAllowance(acc, k, a, now)
         IN  /\ turn \in ResultsOf(K, S)
             /\ \/ Skips(turn, acc, a, now)
                \/ Notes(turn, acc, k, a)
                \/ \E taken \in Nat : Takes(turn, acc, k, a, taken)
<1> DEFINE turn == UseAllowance(acc, k, a, now)
<1>1. acc.remaining \in Nat /\ acc.used \in SUBSET K /\ acc.put \in MapsOf(K, S)
  BY DEF ResultsOf
<1>2. CASE acc.remaining = 0 \/ IsAllowanceExpired(a, now)
  <2>1. turn = acc
    BY <1>2 DEF UseAllowance
  <2>2. QED
    BY <1>2, <2>1 DEF Skips
<1>3. CASE ~(acc.remaining = 0 \/ IsAllowanceExpired(a, now)) /\ ~IsFinite(a)
  <2>1. turn = [acc EXCEPT !.used = @ \cup {k}]
    BY <1>3 DEF UseAllowance
  <2>2. turn \in ResultsOf(K, S)
    BY <1>1, <2>1 DEF ResultsOf
  <2>3. turn.remaining = acc.remaining /\ turn.put = acc.put /\ turn.used = acc.used \cup {k}
    BY <2>1 DEF ResultsOf
  <2> HIDE DEF turn
  <2>4. Notes(turn, acc, k, a)
    BY <1>3, <2>3 DEF Notes
  <2>5. QED
    BY <2>2, <2>4 DEF turn
<1>4. CASE ~(acc.remaining = 0 \/ IsAllowanceExpired(a, now)) /\ IsFinite(a)
  <2> DEFINE taken == Taken(acc, a)
             after == [a EXCEPT !.quantitySpent = @ + taken, !.usesSpent = @ + 1]
             put   == IF after.usesSpent = after.uses \/ after.quantitySpent = after.quantity
                      THEN [after EXCEPT !.expires = now] ELSE after
  <2>1. /\ taken \in Nat /\ taken <= acc.remaining /\ taken <= Unspent(a)
        /\ taken = acc.remaining \/ taken = Unspent(a)
    BY <1>1, <1>4, MinOfTwo DEF Taken, Sound
  <2>2. turn = [remaining |-> acc.remaining - taken, used |-> acc.used \cup {k},
                put |-> [acc.put EXCEPT ![k] = put]]
    BY <1>4 DEF UseAllowance, Taken
  <2> HIDE DEF taken
  <2>3. put \in S /\ IsFinite(put) /\ Unspent(put) = Unspent(a) - taken
    BY <1>4, <2>1 DEF Usable, LeavesUsable
  <2> HIDE DEF put, turn
  <2>4. /\ turn.remaining = acc.remaining - taken /\ turn.used = acc.used \cup {k}
        /\ turn.put = [acc.put EXCEPT ![k] = put]
    BY <2>2
  <2>5. turn.remaining \in Nat
    BY <1>1, <2>1, <2>4
  <2>6. turn.put \in MapsOf(K, S) /\ turn.put[k] = put /\ \A j \in K \ {k} : turn.put[j] = acc.put[j]
    BY <1>1, <2>3, <2>4 DEF MapsOf
  <2>7. turn \in ResultsOf(K, S)
    BY <1>1, <2>2, <2>4, <2>5, <2>6 DEF ResultsOf
  <2>8. Takes(turn, acc, k, a, taken)
    BY <1>1, <1>4, <2>1, <2>3, <2>4, <2>6 DEF Takes, MapsOf, Sound
  <2>9. QED
    BY <2>1, <2>7, <2>8 DEF turn
<1>5. QED
  BY <1>2, <1>3, <1>4

StartOf(al, keys, quantity, now) ==
  [remaining |-> quantity, used |-> {}, put |-> CleanAllowances(al, ToSet(keys), now)]

\* The accumulators that the loop runs through.
RunOf(run, R, al, keys, quantity, now) ==
  /\ run \in [0 .. Len(keys) -> R]
  /\ run[0] = StartOf(al, keys, quantity, now)
  /\ \A i \in 1 .. Len(keys) : run[i] = UseAllowance(run[i - 1], keys[i], al[keys[i]], now)

LEMMA AnyCleaned ==
  ASSUME NEW K, NEW S, NEW al \in MapsOf(K, S), NEW keys, NEW now
  PROVE  LET clean == CleanAllowances(al, keys, now)
         IN  /\ clean \in MapsOf(K, S)
             /\ \A k \in K : clean[k] = NoAllowance \/ clean[k] = al[k]
             /\ \A k \in K : k \notin keys => clean[k] = al[k]
BY DEF MapsOf, CleanAllowances

LEMMA AnyRunExists ==
  ASSUME NEW K, NEW S, NEW now, Sound(S), Usable(S, now), NEW al \in MapsOf(K, S), NEW X,
         NEW keys \in KeysIn(al, X), NEW quantity \in Nat
  PROVE  \E run : /\ RunOf(run, ResultsOf(K, S), al, keys, quantity, now)
                  /\ UseAllowances(al, keys, quantity, now) = run[Len(keys)]
<1> DEFINE E == Existing(al)
           base == StartOf(al, keys, quantity, now)
           Next1(k, acc) == UseAllowance(acc, k, al[k], now)
           G == [k \in E |-> [acc \in ResultsOf(K, S) |-> Next1(k, acc)]]
           Solves(iter) == iter = [T \in SUBSET DOMAIN keys |->
                                     IF T = {} THEN base ELSE Next1(keys[Max(T)], iter[T \ {Max(T)}])]
<1>1. ASSUME NEW k \in E, NEW acc \in ResultsOf(K, S) PROVE Next1(k, acc) \in ResultsOf(K, S)
  <2>1. k \in K /\ al[k] \in S
    BY ExistingIn
  <2>2. QED
    BY <2>1, AnyTurn
<1>2. base \in ResultsOf(K, S)
  BY AnyCleaned DEF ResultsOf, StartOf
<1>3. keys \in Seq(E)
  BY DEF KeysIn
<1> HIDE DEF E, base, Next1
<1>4. G \in [E -> [ResultsOf(K, S) -> ResultsOf(K, S)]] /\ \A k \in E : \A acc \in ResultsOf(K, S) : G[k][acc] = Next1(k, acc)
  BY <1>1
<1> HIDE DEF G
<1>5. Foldable(keys, E, ResultsOf(K, S), base, G)
  BY <1>2, <1>3, <1>4 DEF Foldable
<1>6. DOMAIN keys = 1 .. Len(keys) /\ Len(keys) \in Nat /\ \A i \in 1 .. Len(keys) : keys[i] \in E
  BY <1>3
<1>7. ASSUME NEW T \in SUBSET DOMAIN keys, T # {} PROVE keys[Max(T)] \in E
  BY <1>6, <1>7, MaxOfIndices
<1>8. PICK it \in [SUBSET DOMAIN keys -> ResultsOf(K, S)] : Accumulates(it, keys, base, ResultsOf(K, S), G)
  BY <1>5, AccumulatorsExist
<1>9. \E iter : Solves(iter)
  <2>1. ASSUME NEW T \in SUBSET DOMAIN keys
        PROVE  it[T] = IF T = {} THEN base ELSE Next1(keys[Max(T)], it[T \ {Max(T)}])
    <3>1. it[T] = IF T = {} THEN base ELSE G[keys[Max(T)]][it[T \ {Max(T)}]]
      BY <1>8 DEF Accumulates
    <3>2. it[T \ {Max(T)}] \in ResultsOf(K, S)
      BY <1>8
    <3>3. QED
      BY <1>4, <1>7, <3>1, <3>2
  <2>2. Solves(it)
    BY <1>8, <2>1
  <2>3. QED
    BY <2>2
<1> DEFINE iter == CHOOSE iter : Solves(iter)
<1>10. Solves(iter)
  BY <1>9
<1>11. UseAllowances(al, keys, quantity, now) = iter[DOMAIN keys]
  BY DEF UseAllowances, FoldLeft, MapThenFoldSet, base, Next1, StartOf
<1> HIDE DEF iter
<1>12. AccumulatesWithin(iter, keys, base, ResultsOf(K, S), G)
  <2>1. iter[{}] = base
    BY <1>10
  <2>2. ASSUME NEW T \in SUBSET DOMAIN keys, T # {}, iter[T \ {Max(T)}] \in ResultsOf(K, S)
        PROVE  iter[T] = G[keys[Max(T)]][iter[T \ {Max(T)}]]
    <3>1. iter[T] = Next1(keys[Max(T)], iter[T \ {Max(T)}])
      BY <1>10, <2>2
    <3>2. QED
      BY <1>4, <1>7, <2>2, <3>1
  <2>3. QED
    BY <2>1, <2>2 DEF AccumulatesWithin
<1>13. PICK run : IsRun(run, keys, base, ResultsOf(K, S), G) /\ run[Len(keys)] = iter[DOMAIN keys]
  BY <1>5, <1>12, AccumulatorsRun
<1>14. run \in [0 .. Len(keys) -> ResultsOf(K, S)] /\ run[0] = base
  BY <1>13 DEF IsRun
<1>15. ASSUME NEW i \in 1 .. Len(keys) PROVE run[i] = Next1(keys[i], run[i - 1])
  <2>1. run[i] = G[keys[i]][run[i - 1]]
    BY <1>13 DEF IsRun
  <2>2. i - 1 \in 0 .. Len(keys)
    BY <1>6
  <2>3. run[i - 1] \in ResultsOf(K, S)
    BY <1>14, <2>2
  <2>4. QED
    BY <1>4, <1>6, <2>1, <2>3
<1>16. RunOf(run, ResultsOf(K, S), al, keys, quantity, now)
  BY <1>14, <1>15 DEF RunOf, base, Next1
<1>17. QED
  BY <1>11, <1>13, <1>16

\* What the first i turns have put, and elsewhere what was there.
Mixed(run, al, keys, i) ==
  [k \in DOMAIN al |-> IF \E j \in 1 .. i : keys[j] = k THEN run[i].put[k] ELSE al[k]]

\* After i turns: keys whose turn has not come are as the cleaning left them, and what
\* was taken of the quantity was taken of what is left.
Balanced(run, al, keys, X, quantity, i) ==
  /\ \A k \in DOMAIN al : (\A j \in 1 .. i : keys[j] # k) => run[i].put[k] = run[0].put[k]
  /\ run[i].remaining <= quantity
  /\ Worth(Mixed(run, al, keys, i), X) + (quantity - run[i].remaining) <= Worth(al, X)

\* One more turn keeps it so.
LEMMA OneMoreTurn ==
  ASSUME NEW K, NEW S, NEW now, Sound(S), Usable(S, now),
         NEW al \in MapsOf(K, S), IsFiniteSet(Existing(al)), NEW X, NEW keys \in KeysIn(al, X),
         NEW quantity \in Nat,
         NEW run, RunOf(run, ResultsOf(K, S), al, keys, quantity, now),
         NEW i \in 1 .. Len(keys), Balanced(run, al, keys, X, quantity, i - 1)
  PROVE  Balanced(run, al, keys, X, quantity, i)
<1> DEFINE n == Len(keys)
           x == keys[i]
           acc == run[i - 1]
           turn == run[i]
           before == Mixed(run, al, keys, i - 1)
           after == Mixed(run, al, keys, i)
<1>1. /\ n \in Nat /\ i \in Nat /\ 1 <= i /\ i <= n
      /\ \A j \in 1 .. n : keys[j] \in Existing(al) /\ keys[j] \in X
      /\ \A j, m \in 1 .. n : keys[j] = keys[m] => j = m
  BY DEF KeysIn
<1>2. x \in Existing(al) /\ x \in K /\ x \in X /\ al[x] \in S /\ al[x] # NoAllowance
  BY <1>1, ExistingIn
<1>3. acc \in ResultsOf(K, S) /\ turn \in ResultsOf(K, S) /\ run[0] \in ResultsOf(K, S)
  <2>1. i - 1 \in 0 .. n /\ i \in 0 .. n /\ 0 \in 0 .. n
    BY <1>1
  <2>2. QED
    BY <2>1 DEF RunOf
<1>4. /\ acc.remaining \in Nat /\ acc.put \in MapsOf(K, S) /\ turn.remaining \in Nat /\ turn.put \in MapsOf(K, S)
      /\ run[0].put \in MapsOf(K, S)
  BY <1>3 DEF ResultsOf
<1>5. turn = UseAllowance(acc, x, al[x], now)
  BY DEF RunOf
<1>6. /\ \A k \in K : run[0].put[k] = NoAllowance \/ run[0].put[k] = al[k]
      /\ run[0].put = CleanAllowances(al, ToSet(keys), now)
  <2>1. run[0].put = CleanAllowances(al, ToSet(keys), now)
    BY DEF RunOf, StartOf
  <2>2. QED
    BY <2>1, AnyCleaned
<1>7. 1 .. i = (1 .. i - 1) \cup {i}
  BY <1>1
<1>8. \A j \in 1 .. i - 1 : keys[j] # x
  BY <1>1
<1>9. acc.put[x] = run[0].put[x]
  BY <1>2, <1>8 DEF Balanced, MapsOf
<1>10. /\ \A k \in K : before[k] = IF \E j \in 1 .. i - 1 : keys[j] = k THEN acc.put[k] ELSE al[k]
       /\ \A k \in K : after[k] = IF \E j \in 1 .. i : keys[j] = k THEN turn.put[k] ELSE al[k]
  BY DEF Mixed, MapsOf
<1>11. before \in MapsOf(K, S) /\ after \in MapsOf(K, S)
  BY <1>4 DEF Mixed, MapsOf
<1>12. Worth(before, X) + (quantity - acc.remaining) <= Worth(al, X) /\ acc.remaining <= quantity
  BY DEF Balanced, MapsOf
<1> HIDE DEF n, x, acc, turn, before, after
<1>13. IsFiniteSet(Existing(before)) /\ IsFiniteSet(Existing(after))
  <2>1. Existing(before) \subseteq Existing(al) /\ Existing(after) \subseteq Existing(al)
    <3>1. \A j \in 1 .. i : keys[j] \in Existing(al)
      BY <1>1 DEF n
    <3>2. \A j \in 1 .. i - 1 : keys[j] \in Existing(al)
      BY <1>7, <3>1
    <3>3. QED
      BY <1>10, <1>11, <3>1, <3>2, ExistingIn
  <2>2. QED
    BY <2>1, FS_Subset
<1>14. before[x] = al[x] /\ after[x] = turn.put[x]
  <2>1. \E j \in 1 .. i : keys[j] = x
    BY <1>7 DEF x
  <2>2. QED
    BY <1>2, <1>8, <1>10, <2>1
<1> DEFINE TurnCounts ==
             /\ \A k \in K \ {x} : turn.put[k] = acc.put[k]
             /\ turn.remaining <= acc.remaining
             /\ Value(after, X)[x] + (acc.remaining - turn.remaining) <= Value(before, X)[x]
<1>15. TurnCounts
  <2>1. Value(before, X)[x] = IF IsFinite(al[x]) THEN Unspent(al[x]) ELSE 0
    BY <1>2, <1>11, <1>14 DEF Value, MapsOf
  <2>2. Value(before, X)[x] \in Nat
    BY <1>2, <1>11, ValueType
  <2>3. CASE turn.put = acc.put /\ turn.remaining = acc.remaining
    <3>1. turn.put[x] = NoAllowance \/ turn.put[x] = al[x]
      BY <1>2, <1>6, <1>9, <2>3
    <3>2. Value(after, X)[x] = 0 \/ Value(after, X)[x] = Value(before, X)[x]
      BY <1>2, <1>11, <1>14, <3>1 DEF Value, MapsOf
    <3>3. Value(after, X)[x] + (acc.remaining - turn.remaining) <= Value(before, X)[x]
      BY <1>4, <2>2, <2>3, <3>2
    <3>4. QED
      BY <1>4, <2>3, <3>1, <3>3
  <2>4. ASSUME NEW taken \in Nat, Takes(turn, acc, x, al[x], taken)
        PROVE  TurnCounts
    <3>1. /\ IsFinite(al[x]) /\ turn.remaining = acc.remaining - taken /\ taken <= acc.remaining
          /\ turn.put[x] # NoAllowance /\ IsFinite(turn.put[x])
          /\ Unspent(turn.put[x]) = Unspent(al[x]) - taken
          /\ \A k \in K \ {x} : turn.put[k] = acc.put[k]
      BY <1>4, <2>4 DEF Takes, MapsOf
    <3>2. Value(after, X)[x] = Unspent(al[x]) - taken
      BY <1>2, <1>11, <1>14, <3>1 DEF Value, MapsOf
    <3>3. Value(before, X)[x] = Unspent(al[x])
      BY <2>1, <3>1
    <3>4. Value(after, X)[x] + (acc.remaining - turn.remaining) <= Value(before, X)[x]
      BY <1>4, <2>2, <2>4, <3>1, <3>2, <3>3
    <3>5. turn.remaining <= acc.remaining
      BY <1>4, <2>4, <3>1
    <3>6. QED
      BY <3>1, <3>4, <3>5
  <2>5. \/ Skips(turn, acc, al[x], now) \/ Notes(turn, acc, x, al[x])
        \/ \E taken \in Nat : Takes(turn, acc, x, al[x], taken)
    BY <1>2, <1>3, <1>5, AnyTurn
  <2>6. CASE Skips(turn, acc, al[x], now) \/ Notes(turn, acc, x, al[x])
    <3>1. turn.put = acc.put /\ turn.remaining = acc.remaining
      BY <2>6 DEF Skips, Notes
    <3>2. QED
      BY <2>3, <3>1
  <2>7. QED
    BY <2>4, <2>5, <2>6
<1>16. \A k \in K \ {x} : after[k] = before[k]
  <2>1. ASSUME NEW k \in K \ {x} PROVE after[k] = before[k]
    <3>1. (\E j \in 1 .. i : keys[j] = k) <=> (\E j \in 1 .. i - 1 : keys[j] = k)
      BY <1>7 DEF x
    <3>2. QED
      BY <1>10, <1>15, <3>1
  <2>2. QED
    BY <2>1
<1>17. Worth(after, X) = Worth(before, X) + (Value(after, X)[x] - Value(before, X)[x])
  <2>1. \A k \in K \ {x} : Value(after, X)[k] = Value(before, X)[k]
    BY <1>11, <1>16 DEF Value, MapsOf
  <2>2. QED
    BY <1>2, <1>11, <1>13, <2>1, WorthUpdate
<1>18. Worth(after, X) + (quantity - turn.remaining) <= Worth(al, X)
  <2>1. /\ Worth(before, X) \in Nat /\ Worth(after, X) \in Nat /\ Worth(al, X) \in Nat
        /\ Value(after, X)[x] \in Nat /\ Value(before, X)[x] \in Nat
    <3>1. Worth(before, X) \in Nat /\ Worth(after, X) \in Nat
      BY <1>11, <1>13, WorthType
    <3>2. Worth(al, X) \in Nat
      BY WorthType
    <3>3. QED
      BY <1>2, <1>11, <3>1, <3>2, ValueType
  <2>2. Value(after, X)[x] + (acc.remaining - turn.remaining) <= Value(before, X)[x]
    BY <1>15
  <2> DEFINE la == Worth(after, X)
             lb == Worth(before, X)
             l == Worth(al, X)
             wa == Value(after, X)[x]
             wb == Value(before, X)[x]
             ra == acc.remaining
             rt == turn.remaining
  <2>3. /\ la \in Nat /\ lb \in Nat /\ l \in Nat /\ wa \in Nat /\ wb \in Nat
        /\ ra \in Nat /\ rt \in Nat
        /\ la = lb + (wa - wb) /\ wa + (ra - rt) <= wb
        /\ lb + (quantity - ra) <= l
    BY <1>4, <1>12, <1>17, <2>1, <2>2
  <2> HIDE DEF la, lb, l, wa, wb, ra, rt, TurnCounts
  <2>4. la + (quantity - rt) <= l
    BY <2>3
  <2>5. QED
    BY <2>4 DEF la, l, rt
<1>19. turn.remaining <= quantity
  BY <1>4, <1>12, <1>15
<1>20. ASSUME NEW k \in K, \A j \in 1 .. i : keys[j] # k PROVE turn.put[k] = run[0].put[k]
  <2>1. k # x /\ \A j \in 1 .. i - 1 : keys[j] # k
    BY <1>7, <1>20 DEF x
  <2>2. acc.put[k] = run[0].put[k]
    BY <2>1 DEF Balanced, MapsOf, acc
  <2>3. QED
    BY <1>15, <2>1, <2>2
<1>21. QED
  BY <1>18, <1>19, <1>20 DEF Balanced, MapsOf, turn, after

\* A use takes from what is left of its keys, and leaves other keys alone.
LEMMA AnyUseTakes ==
  ASSUME NEW K, NEW S, NEW now, Sound(S), Usable(S, now),
         NEW al \in MapsOf(K, S), IsFiniteSet(Existing(al)), NEW X, NEW keys \in KeysIn(al, X),
         NEW quantity \in Nat
  PROVE  LET result == UseAllowances(al, keys, quantity, now)
         IN  /\ result \in ResultsOf(K, S) /\ result.remaining <= quantity
             /\ Existing(result.put) \subseteq Existing(al)
             /\ \A k \in K : k \notin X => result.put[k] = al[k]
             /\ Worth(result.put, X) + (quantity - result.remaining) <= Worth(al, X)
<1> DEFINE n == Len(keys)
<1>1. PICK run : RunOf(run, ResultsOf(K, S), al, keys, quantity, now) /\ UseAllowances(al, keys, quantity, now) = run[n]
  BY AnyRunExists
<1>2. /\ n \in Nat /\ DOMAIN keys = 1 .. n
      /\ \A j \in 1 .. n : keys[j] \in Existing(al) /\ keys[j] \in X
  BY DEF KeysIn
<1>3. run[0] = StartOf(al, keys, quantity, now) /\ run[0] \in ResultsOf(K, S) /\ run[n] \in ResultsOf(K, S)
  <2>1. 0 \in 0 .. n /\ n \in 0 .. n
    BY <1>2
  <2>2. QED
    BY <1>1, <2>1 DEF RunOf
<1>4. run[0].remaining = quantity /\ run[0].put = CleanAllowances(al, ToSet(keys), now)
  BY <1>3 DEF StartOf
<1>5. Mixed(run, al, keys, 0) = al
  <2>1. 1 .. 0 = {}
    OBVIOUS
  <2>2. \A k \in K : Mixed(run, al, keys, 0)[k] = al[k]
    BY <2>1 DEF Mixed, MapsOf
  <2>3. QED
    BY <2>2 DEF Mixed, MapsOf
<1>6. Balanced(run, al, keys, X, quantity, 0)
  <2>1. Worth(al, X) \in Nat
    BY WorthOver, ExistingIn
  <2>2. QED
    BY <1>4, <1>5, <2>1 DEF Balanced, MapsOf
<1> HIDE DEF n
<1>7. Balanced(run, al, keys, X, quantity, n)
  <2> DEFINE P == {i \in 0 .. n : Balanced(run, al, keys, X, quantity, i)}
  <2>1. 0 \in P
    BY <1>2, <1>6
  <2>2. ASSUME NEW i \in 1 .. n, i - 1 \in P PROVE i \in P
    <3>1. Balanced(run, al, keys, X, quantity, i)
      BY <1>1, <2>2, OneMoreTurn DEF n
    <3>2. QED
      BY <1>2, <3>1
  <2> HIDE DEF P
  <2>3. \A i \in 0 .. n : i \in P
    BY <1>2, <2>1, <2>2, UpTo
  <2>4. QED
    BY <1>2, <2>3 DEF P
<1>8. ASSUME NEW k \in K, \A j \in 1 .. n : keys[j] # k PROVE run[n].put[k] = al[k]
  <2>1. k \notin ToSet(keys)
    BY <1>2, <1>8 DEF ToSet
  <2>2. run[n].put[k] = run[0].put[k]
    BY <1>7, <1>8 DEF Balanced, MapsOf
  <2>3. QED
    BY <1>4, <2>1, <2>2, AnyCleaned
<1>9. run[n].put \in MapsOf(K, S)
  BY <1>3 DEF ResultsOf
<1>10. Mixed(run, al, keys, n) = run[n].put
  <2>1. \A k \in K : Mixed(run, al, keys, n)[k] = run[n].put[k]
    BY <1>8 DEF Mixed, MapsOf
  <2>2. Mixed(run, al, keys, n) = [k \in K |-> Mixed(run, al, keys, n)[k]]
    BY DEF Mixed, MapsOf
  <2>3. run[n].put = [k \in K |-> run[n].put[k]]
    BY <1>9 DEF MapsOf
  <2>4. QED
    BY <2>1, <2>2, <2>3
<1>11. Existing(run[n].put) \subseteq Existing(al)
  <2>1. ASSUME NEW k \in K, run[n].put[k] # NoAllowance PROVE k \in Existing(al)
    <3>1. CASE \A j \in 1 .. n : keys[j] # k
      BY <1>8, <2>1, <3>1, ExistingIn
    <3>2. QED
      BY <1>2, <3>1
  <2>2. QED
    BY <1>9, <2>1, ExistingIn
<1>12. \A k \in K : k \notin X => run[n].put[k] = al[k]
  BY <1>2, <1>8
<1>13. run[n].remaining <= quantity /\ Worth(run[n].put, X) + (quantity - run[n].remaining) <= Worth(al, X)
  BY <1>7, <1>10 DEF Balanced, MapsOf
<1>14. QED
  BY <1>1, <1>3, <1>11, <1>12, <1>13

-----------------------------------------------------------------------------
(* Maps of allowances and what is left of them.                            *)

SoundAllowances ==
  {a \in TokenAllowances : /\ IsFinite(a) => Unspent(a) \in Nat
                           /\ a.expires \in Expiries \cup Times}

Maps == [Keys -> SoundAllowances \cup {NoAllowance}]

\* What counts for a permission.
Weight(al, p) ==
  [k \in Keys |-> IF al[k] # NoAllowance /\ k.permission = p /\ IsFinite(al[k])
                  THEN Unspent(al[k]) ELSE 0]

Left(al, p) == SumFunctionOnSet(Weight(al, p), Existing(al))

LEMMA SoundParts ==
  ASSUME NEW a \in SoundAllowances
  PROVE  /\ a \in TokenAllowances /\ a # NoAllowance
         /\ a.quantity \in Quantities /\ a.uses \in Uses
         /\ a.quantitySpent \in Nat /\ a.usesSpent \in Nat /\ a.expires \in Nat
         /\ a.expires \in Expiries \cup Times
         /\ IsFinite(a) => a.quantity \in Nat \ {0} /\ Unspent(a) \in Nat
         /\ a = [quantity |-> a.quantity, quantitySpent |-> a.quantitySpent,
                 uses |-> a.uses, usesSpent |-> a.usesSpent, expires |-> a.expires]
BY AllowancesAssumption, NumbersAssumption DEF SoundAllowances, TokenAllowances, IsFinite

LEMMA ExistingSound ==
  ASSUME NEW al \in Maps
  PROVE  /\ Existing(al) \subseteq Keys /\ \A k \in Existing(al) : al[k] \in SoundAllowances
         /\ \A k \in Keys : k \in Existing(al) <=> al[k] # NoAllowance
BY DEF Maps, Existing

LEMMA SpentIsSound ==
  ASSUME NEW a \in SoundAllowances, IsFinite(a), NEW taken \in Nat, taken <= Unspent(a),
         NEW now \in Times
  PROVE  LeavesUsable(SoundAllowances, now, a, taken)
<1> DEFINE after == [a EXCEPT !.quantitySpent = @ + taken, !.usesSpent = @ + 1]
           late  == [after EXCEPT !.expires = now]
<1>1. /\ a \in TokenAllowances /\ a.quantity \in Nat /\ a.quantitySpent \in Nat /\ a.usesSpent \in Nat
      /\ Unspent(a) \in Nat /\ a.expires \in Expiries \cup Times /\ a.quantity # Infinity
  BY SoundParts DEF IsFinite
<1>2. after \in TokenAllowances
  <2> DEFINE x == a.quantitySpent + taken
             y == a.usesSpent + 1
  <2>1. x \in Nat /\ y \in Nat
    BY <1>1
  <2>2. after = [a EXCEPT !.quantitySpent = x, !.usesSpent = y]
    OBVIOUS
  <2> HIDE DEF x, y, after
  <2>3. QED
    BY <1>1, <2>1, <2>2 DEF TokenAllowances
<1>3. after.quantity = a.quantity /\ after.quantitySpent = a.quantitySpent + taken /\ after.expires = a.expires
  BY <1>1 DEF TokenAllowances
<1> HIDE DEF after
<1>4. late \in TokenAllowances /\ late.quantity = after.quantity
      /\ late.quantitySpent = after.quantitySpent /\ late.expires = now
  BY <1>2, NumbersAssumption DEF TokenAllowances
<1> HIDE DEF late
<1>5. after \in SoundAllowances /\ IsFinite(after) /\ Unspent(after) = Unspent(a) - taken
  BY <1>1, <1>2, <1>3 DEF SoundAllowances, IsFinite, Unspent
<1>6. late \in SoundAllowances /\ IsFinite(late) /\ Unspent(late) = Unspent(a) - taken
  BY <1>1, <1>3, <1>4 DEF SoundAllowances, IsFinite, Unspent
<1>7. QED
  BY <1>5, <1>6 DEF late, after, LeavesUsable

\* What the lemmas above say of them.
CountsFor(p) == {k \in Keys : k.permission = p}

LEMMA MapsAre ==
  /\ Maps = MapsOf(Keys, SoundAllowances) /\ Sound(SoundAllowances)
  /\ \A now \in Times : Usable(SoundAllowances, now)
<1>1. Sound(SoundAllowances)
  BY SoundParts DEF Sound
<1>2. ASSUME NEW now \in Times PROVE Usable(SoundAllowances, now)
  BY SpentIsSound DEF Usable
<1>3. QED
  BY <1>1, <1>2 DEF Maps, MapsOf

LEMMA WeightIs ==
  ASSUME NEW al \in Maps, NEW p
  PROVE  Weight(al, p) = Value(al, CountsFor(p)) /\ Left(al, p) = Worth(al, CountsFor(p))
<1>1. DOMAIN al = Keys
  BY DEF Maps
<1>2. Weight(al, p) = Value(al, CountsFor(p))
  BY <1>1 DEF Weight, Value, CountsFor
<1>3. QED
  BY <1>2 DEF Left, Worth

LEMMA WeightType ==
  ASSUME NEW al \in Maps, NEW p
  PROVE  /\ Weight(al, p) \in [Keys -> Nat]
         /\ \A k \in Keys : al[k] = NoAllowance => Weight(al, p)[k] = 0
BY MapsAre, WeightIs, ValueType

LEMMA LeftOver ==
  ASSUME NEW al \in Maps, NEW p, NEW F \in SUBSET Keys, IsFiniteSet(F), Existing(al) \subseteq F
  PROVE  /\ SumFunctionOnSet(Weight(al, p), F) = Left(al, p)
         /\ Summable(Weight(al, p), F)
         /\ Left(al, p) \in Nat
BY MapsAre, WeightIs, WorthOver

LEMMA LeftMonotone ==
  ASSUME NEW al \in Maps, NEW after \in Maps, NEW p,
         IsFiniteSet(Existing(al)), IsFiniteSet(Existing(after)),
         \A k \in Keys : Weight(after, p)[k] <= Weight(al, p)[k]
  PROVE  Left(after, p) <= Left(al, p)
BY MapsAre, WeightIs, WorthMonotone

LEMMA LeftUpdate ==
  ASSUME NEW al \in Maps, NEW after \in Maps, NEW p, NEW x \in Keys,
         IsFiniteSet(Existing(al)), IsFiniteSet(Existing(after)),
         \A k \in Keys \ {x} : Weight(after, p)[k] = Weight(al, p)[k]
  PROVE  Left(after, p) = Left(al, p) + (Weight(after, p)[x] - Weight(al, p)[x])
BY MapsAre, WeightIs, WorthUpdate

Results == [remaining : Nat, used : SUBSET Keys, put : Maps]

LEMMA ResultsAre == Results = ResultsOf(Keys, SoundAllowances)
BY MapsAre DEF Results, ResultsOf

LEMMA Turn ==
  ASSUME NEW acc \in Results, NEW k \in Keys, NEW a \in SoundAllowances, NEW now \in Times
  PROVE  LET turn == UseAllowance(acc, k, a, now)
         IN  /\ turn \in Results
             /\ \/ Skips(turn, acc, a, now)
                \/ Notes(turn, acc, k, a)
                \/ \E taken \in Nat : Takes(turn, acc, k, a, taken)
BY MapsAre, ResultsAre, AnyTurn

\* The keys of a use, all of one permission.
KeyLists(al, p) ==
  {s \in Seq({k \in Existing(al) : k.permission = p}) :
     \A i, j \in 1 .. Len(s) : s[i] = s[j] => i = j}

LEMMA KeyListsAre ==
  ASSUME NEW al \in Maps, NEW p
  PROVE  KeyLists(al, p) = KeysIn(al, CountsFor(p))
<1>1. {k \in Existing(al) : k.permission = p} = Existing(al) \cap CountsFor(p)
  BY ExistingSound DEF CountsFor
<1>2. QED
  BY <1>1 DEF KeyLists, KeysIn

UseRun(run, al, keys, quantity, now) == RunOf(run, Results, al, keys, quantity, now)

LEMMA RunExists ==
  ASSUME NEW al \in Maps, NEW p, NEW keys \in KeyLists(al, p), NEW quantity \in Nat, NEW now \in Times
  PROVE  \E run : /\ UseRun(run, al, keys, quantity, now)
                  /\ UseAllowances(al, keys, quantity, now) = run[Len(keys)]
BY MapsAre, ResultsAre, KeyListsAre, AnyRunExists DEF UseRun, RunOf

\* A use takes from what is left for its permission, and leaves other keys alone.
LEMMA UseTakes ==
  ASSUME NEW al \in Maps, IsFiniteSet(Existing(al)), NEW p, NEW keys \in KeyLists(al, p),
         NEW quantity \in Nat, NEW now \in Times
  PROVE  LET result == UseAllowances(al, keys, quantity, now)
         IN  /\ result \in Results /\ result.remaining <= quantity
             /\ Existing(result.put) \subseteq Existing(al)
             /\ \A k \in Keys : k.permission # p => result.put[k] = al[k]
             /\ Left(result.put, p) + (quantity - result.remaining) <= Left(al, p)
<1> DEFINE result == UseAllowances(al, keys, quantity, now)
<1>1. keys \in KeysIn(al, CountsFor(p)) /\ al \in MapsOf(Keys, SoundAllowances)
  BY KeyListsAre, MapsAre
<1>2. /\ result \in ResultsOf(Keys, SoundAllowances) /\ result.remaining <= quantity
      /\ Existing(result.put) \subseteq Existing(al)
      /\ \A k \in Keys : k \notin CountsFor(p) => result.put[k] = al[k]
      /\ Worth(result.put, CountsFor(p)) + (quantity - result.remaining) <= Worth(al, CountsFor(p))
  BY <1>1, MapsAre, AnyUseTakes
<1> HIDE DEF result
<1>3. result \in Results /\ result.put \in Maps
  <2>1. result \in Results
    BY <1>2, ResultsAre
  <2>2. QED
    BY <2>1 DEF Results
<1>4. Left(result.put, p) + (quantity - result.remaining) <= Left(al, p)
  BY <1>2, <1>3, WeightIs
<1>5. QED
  BY <1>2, <1>3, <1>4 DEF CountsFor, result

\* What the property counts is what is left.
LEMMA LeftIsUnspent ==
  ASSUME allowances \in Maps, IsFiniteSet(Existing(allowances)), NEW p \in Permissions
  PROVE  UnspentOf(KeysOf({p}, Grantors)) = Left(allowances, p)
<1> DEFINE F == {j \in KeysOf({p}, Grantors) : IsFinite(allowances[j])}
           f == [k \in F |-> Unspent(allowances[k])]
           E == Existing(allowances)
<1>1. E \in SUBSET Keys /\ F \in SUBSET E
  BY ExistingSound DEF KeysOf
<1>2. \A k \in F : f[k] = Weight(allowances, p)[k]
  BY <1>1, ExistingSound DEF KeysOf, Weight
<1>3. \A k \in E \ F : Weight(allowances, p)[k] = 0
  <2>1. ASSUME NEW k \in E \ F PROVE Weight(allowances, p)[k] = 0
    <3>1. k \in Keys /\ k.grantedBy \in Grantors
      BY <1>1 DEF Keys
    <3>2. k.permission # p \/ ~IsFinite(allowances[k])
      BY <3>1, <2>1 DEF KeysOf
    <3>3. QED
      BY <3>1, <3>2 DEF Weight
  <2>2. QED
    BY <2>1
<1>4. UnspentOf(KeysOf({p}, Grantors)) = SumFunctionOnSet(f, F)
  <2>1. DOMAIN f = F
    OBVIOUS
  <2>2. QED
    BY <2>1 DEF UnspentOf, SumFunction
<1> HIDE DEF F, f
<1>5. Summable(Weight(allowances, p), E)
  BY <1>1, LeftOver
<1>6. Left(allowances, p) = SumFunctionOnSet(Weight(allowances, p), F)
  BY <1>1, <1>3, <1>5, SumWithoutZeros DEF Left
<1>7. SumFunctionOnSet(Weight(allowances, p), F) = SumFunctionOnSet(f, F)
  <2>1. Summable(Weight(allowances, p), F)
    BY <1>1, <1>5, SummableSubset
  <2>2. QED
    BY <1>2, <2>1, SumAgrees
<1>8. QED
  BY <1>4, <1>6, <1>7

-----------------------------------------------------------------------------
(* Grants, refreshes and deletions.                                        *)

LEMMA NewIsSound ==
  ASSUME NEW quantity \in Quantities, NEW uses \in Uses, NEW expires \in Expiries
  PROVE  /\ NewAllowance(quantity, uses, expires) \in SoundAllowances
         /\ IsFinite(NewAllowance(quantity, uses, expires)) <=> quantity # Infinity
         /\ quantity # Infinity =>
              quantity \in Nat /\ Unspent(NewAllowance(quantity, uses, expires)) = quantity
<1>1. quantity # Infinity => quantity \in Nat
  BY NumbersAssumption
<1>2. NewAllowance(quantity, uses, expires) \in TokenAllowances
  BY NumbersAssumption DEF NewAllowance, TokenAllowances
<1>3. QED
  BY <1>1, <1>2 DEF NewAllowance, SoundAllowances, IsFinite, Unspent

\* An allowance that is refreshed has as much left.
LEMMA RefreshedIsSound ==
  ASSUME NEW a \in SoundAllowances, NEW uses \in Uses, NEW expires \in Expiries
  PROVE  LET b == [a EXCEPT !.uses = uses, !.expires = expires]
         IN  /\ b \in SoundAllowances
             /\ IsFinite(b) <=> IsFinite(a)
             /\ Unspent(b) = Unspent(a)
<1> DEFINE b == [a EXCEPT !.uses = uses, !.expires = expires]
<1>1. a \in TokenAllowances /\ expires \in Nat
  BY SoundParts, NumbersAssumption
<1>2. b \in TokenAllowances
  BY <1>1 DEF TokenAllowances
<1>3. b.quantity = a.quantity /\ b.quantitySpent = a.quantitySpent /\ b.expires = expires
  BY <1>1 DEF TokenAllowances
<1> HIDE DEF b
<1>4. b \in SoundAllowances /\ (IsFinite(b) <=> IsFinite(a)) /\ Unspent(b) = Unspent(a)
  BY <1>2, <1>3, SoundParts DEF SoundAllowances, IsFinite, Unspent
<1>5. QED
  BY <1>4 DEF b

\* The invariant.
Inv ==
  /\ allowances \in Maps
  /\ granted \in [Permissions -> Nat]
  /\ claimed \in [Permissions -> Nat]
  /\ IsFiniteSet(Existing(allowances))
  /\ \A p \in Permissions : claimed[p] + Left(allowances, p) <= granted[p]

LEMMA InitInv == Init => Inv
<1> SUFFICES ASSUME Init PROVE Inv
  OBVIOUS
<1>1. allowances \in Maps /\ Existing(allowances) = {}
  BY DEF Init, Maps, Existing
<1>2. IsFiniteSet(Existing(allowances))
  BY <1>1, FS_EmptySet
<1>3. \A p \in Permissions : Left(allowances, p) = 0
  BY <1>1, SumEmpty DEF Left
<1>4. QED
  BY <1>1, <1>2, <1>3 DEF Init, Inv

\* What is granted for a permission is added to what is left of it, at most.
LEMMA GrantKeepsInv ==
  ASSUME Inv, NEW new \in SUBSET Permissions, NEW quantity \in Quantities,
         NEW uses \in Uses, NEW expires \in Expiries,
         GrantedIn(new, quantity),
         NEW key \in [new -> Keys], \A p \in new : key[p].permission = p,
         allowances' \in Maps, IsFiniteSet(Existing(allowances')),
         \A p \in new : allowances'[key[p]] = NewAllowance(quantity, uses, expires),
         \A k \in Keys : (\A p \in new : k # key[p]) =>
           \A p \in Permissions : Weight(allowances', p)[k] = Weight(allowances, p)[k]
  PROVE  Inv'
<1>1. /\ allowances \in Maps /\ IsFiniteSet(Existing(allowances))
      /\ granted \in [Permissions -> Nat] /\ claimed \in [Permissions -> Nat]
  BY DEF Inv
<1>2. \A p \in Permissions : granted'[p] = granted[p] + IF p \in new /\ quantity # Infinity THEN quantity ELSE 0
  BY DEF GrantedIn
<1>3. claimed' = claimed /\ granted' \in [Permissions -> Nat]
  BY <1>1, NewIsSound DEF GrantedIn
<1>4. ASSUME NEW p \in Permissions PROVE claimed'[p] + Left(allowances', p) <= granted'[p]
  <2>1. Left(allowances, p) \in Nat /\ Left(allowances', p) \in Nat
    BY <1>1, LeftOver, ExistingSound
  <2>2. claimed[p] + Left(allowances, p) <= granted[p] /\ claimed[p] \in Nat /\ granted[p] \in Nat
    BY <1>1 DEF Inv
  <2>3. CASE p \notin new
    <3>1. ASSUME NEW k \in Keys PROVE Weight(allowances', p)[k] <= Weight(allowances, p)[k]
      <4>1. CASE \A r \in new : k # key[r]
        <5>1. Weight(allowances', p)[k] = Weight(allowances, p)[k] /\ Weight(allowances, p)[k] \in Nat
          BY <1>1, <4>1, WeightType
        <5>2. QED
          BY <5>1
      <4>2. CASE \E r \in new : k = key[r]
        <5>1. k.permission # p
          BY <2>3, <4>2
        <5>2. Weight(allowances', p)[k] = 0 /\ Weight(allowances, p)[k] = 0
          BY <5>1 DEF Weight
        <5>3. QED
          BY <5>2
      <4>3. QED
        BY <4>1, <4>2
    <3>2. Left(allowances', p) <= Left(allowances, p)
      BY <1>1, <3>1, LeftMonotone
    <3>3. QED
      BY <1>2, <1>3, <2>1, <2>2, <2>3, <3>2
  <2>4. CASE p \in new
    <3> DEFINE x == key[p]
    <3>1. x \in Keys /\ x.permission = p
      BY <2>4
    <3>2. ASSUME NEW k \in Keys \ {x} PROVE Weight(allowances', p)[k] = Weight(allowances, p)[k]
      <4>1. CASE \A r \in new : k # key[r]
        BY <4>1
      <4>2. CASE \E r \in new : k = key[r]
        <5>1. k.permission # p
          BY <3>2, <4>2
        <5>2. QED
          BY <5>1 DEF Weight
      <4>3. QED
        BY <4>1, <4>2
    <3> HIDE DEF x
    <3>3. Left(allowances', p) = Left(allowances, p) + (Weight(allowances', p)[x] - Weight(allowances, p)[x])
      BY <1>1, <3>1, <3>2, LeftUpdate
    <3>4. Weight(allowances', p)[x] = IF quantity # Infinity THEN quantity ELSE 0
      <4>1. allowances'[x] = NewAllowance(quantity, uses, expires)
        BY <2>4 DEF x
      <4>2. allowances'[x] # NoAllowance
        BY <4>1, NewIsSound, SoundParts
      <4>3. (IsFinite(allowances'[x]) <=> quantity # Infinity)
            /\ (quantity # Infinity => Unspent(allowances'[x]) = quantity)
        BY <4>1, NewIsSound
      <4>4. QED
        BY <3>1, <4>2, <4>3 DEF Weight
    <3>5. Weight(allowances, p)[x] \in Nat
      BY <1>1, <3>1, WeightType
    <3>6. (IF quantity # Infinity THEN quantity ELSE 0) \in Nat
      BY NewIsSound
    <3>7. granted'[p] = granted[p] + IF quantity # Infinity THEN quantity ELSE 0
      BY <1>2, <2>4
    <3>8. QED
      BY <1>3, <2>1, <2>2, <3>3, <3>4, <3>5, <3>6, <3>7
  <2>5. QED
    BY <2>3, <2>4
<1>5. QED
  BY <1>3, <1>4 DEF Inv

LEMMA GrantAllowanceKeepsInv ==
  ASSUME Inv, NEW by \in Grantors, NEW dto \in GrantAllowanceDtos, NEW now \in Times,
         GrantAllowance(by, dto, now)
  PROVE  Inv'
<1> DEFINE x == [permission |-> dto.permission, grantedBy |-> by, created |-> now]
           a == NewAllowance(dto.quantity, dto.uses, dto.expires)
           new == {dto.permission}
           key == [p \in new |-> x]
<1>1. /\ dto.permission \in Permissions /\ dto.quantity \in Quantities
      /\ dto.uses \in Uses /\ dto.expires \in Expiries
  BY DEF GrantAllowanceDtos
<1>2. x \in Keys /\ x.permission = dto.permission
  BY <1>1 DEF Keys
<1>3. allowances' = [allowances EXCEPT ![x] = a] /\ GrantedIn(new, dto.quantity)
  BY DEF GrantAllowance
<1>4. a \in SoundAllowances
  BY <1>1, NewIsSound
<1>5. allowances \in Maps /\ IsFiniteSet(Existing(allowances))
  BY DEF Inv
<1>6. /\ key \in [new -> Keys] /\ new \in SUBSET Permissions
      /\ \A p \in new : key[p] = x
      /\ \A p \in new : key[p].permission = p
  BY <1>1, <1>2
<1> HIDE DEF x, a, key
<1>7. allowances' \in Maps /\ allowances'[x] = a /\ \A k \in Keys \ {x} : allowances'[k] = allowances[k]
  BY <1>2, <1>3, <1>4, <1>5 DEF Maps
<1>8. IsFiniteSet(Existing(allowances'))
  <2>1. Existing(allowances') \subseteq Existing(allowances) \cup {x}
    BY <1>5, <1>7, ExistingSound
  <2>2. IsFiniteSet(Existing(allowances) \cup {x})
    BY <1>5, FS_AddElement
  <2>3. QED
    BY <2>1, <2>2, FS_Subset
<1>9. \A k \in Keys : (\A p \in new : k # key[p]) =>
        \A p \in Permissions : Weight(allowances', p)[k] = Weight(allowances, p)[k]
  <2>1. \A k \in Keys : (\A p \in new : k # key[p]) => k # x
    BY <1>6
  <2>2. QED
    BY <1>7, <2>1 DEF Weight
<1>10. \A p \in new : allowances'[key[p]] = a
  BY <1>6, <1>7
<1> HIDE DEF new
<1>11. \A p \in new : allowances'[key[p]] = NewAllowance(dto.quantity, dto.uses, dto.expires)
  BY <1>10 DEF a
<1>12. ASSUME NEW k \in Keys, \A p \in new : k # key[p], NEW p \in Permissions
       PROVE  Weight(allowances', p)[k] = Weight(allowances, p)[k]
  BY <1>9, <1>12
<1>13. /\ key \in [new -> Keys] /\ \A p \in new : key[p].permission = p
       /\ new \in SUBSET Permissions /\ GrantedIn(new, dto.quantity) /\ allowances' \in Maps
  BY <1>3, <1>6, <1>7
<1>14. QED
  BY <1>1, <1>8, <1>11, <1>12, <1>13, GrantKeepsInv

LEMMA GrantByPartialKeyKeepsInv ==
  ASSUME Inv, NEW by \in Grantors, NEW dto \in GrantAllowanceDtos, NEW now \in Times,
         NEW owned \in SUBSET Permissions, GrantAllowanceByPartialKey(by, owned, dto, now)
  PROVE  Inv'
<1> DEFINE had == KeysOf(owned, {by})
           new == {p \in owned \cap NFTs : \A k \in had : k.permission # p}
           keys == [permission : new, grantedBy : {by}, created : {now}]
           a == NewAllowance(dto.quantity, dto.uses, dto.expires)
           Refreshed(k) == [allowances[k] EXCEPT !.uses = dto.uses, !.expires = dto.expires]
           key == [p \in new |-> [permission |-> p, grantedBy |-> by, created |-> now]]
<1>1. dto.quantity \in Quantities /\ dto.uses \in Uses /\ dto.expires \in Expiries
  BY DEF GrantAllowanceDtos
<1>2. allowances \in Maps /\ IsFiniteSet(Existing(allowances))
  BY DEF Inv
<1>3. had \subseteq Existing(allowances) /\ \A k \in had : k.permission \in owned
  BY DEF KeysOf
<1>4. new \in SUBSET Permissions /\ \A k \in had : k.permission \notin new
  OBVIOUS
<1>5. /\ key \in [new -> Keys] /\ \A p \in new : key[p].permission = p
      /\ \A p \in new : key[p] \in keys /\ key[p] \notin had
      /\ \A k \in keys : \E p \in new : k = key[p]
  <2> HIDE DEF had, new
  <2>1. \A p \in new : [permission |-> p, grantedBy |-> by, created |-> now] \in Keys
    BY <1>4 DEF Keys
  <2>2. key \in [new -> Keys]
    BY <2>1
  <2>3. \A p \in new : key[p] = [permission |-> p, grantedBy |-> by, created |-> now]
    OBVIOUS
  <2> HIDE DEF key
  <2>4. ASSUME NEW p \in new PROVE key[p].permission = p /\ key[p] \in keys
    <3>1. key[p] = [permission |-> p, grantedBy |-> by, created |-> now]
      BY <2>3
    <3>2. QED
      BY <3>1
  <2>5. \A p \in new : key[p] \notin had
    BY <1>4, <2>4
  <2>6. \A k \in keys : \E p \in new : k = key[p]
    <3>1. ASSUME NEW k \in keys PROVE k = key[k.permission] /\ k.permission \in new
      BY <2>3
    <3>2. QED
      BY <3>1
  <2>7. QED
    BY <2>2, <2>4, <2>5, <2>6
<1>6. /\ \A k \in Keys : allowances'[k] = IF k \in had THEN Refreshed(k)
                                          ELSE IF k \in keys THEN a ELSE allowances[k]
      /\ allowances' = [k \in Keys |-> allowances'[k]]
      /\ GrantedIn(new, dto.quantity)
  BY DEF GrantAllowanceByPartialKey
<1>7. a \in SoundAllowances
  BY <1>1, NewIsSound
<1>8. ASSUME NEW k \in had
      PROVE  /\ Refreshed(k) \in SoundAllowances /\ (IsFinite(Refreshed(k)) <=> IsFinite(allowances[k]))
             /\ Unspent(Refreshed(k)) = Unspent(allowances[k])
             /\ Refreshed(k) # NoAllowance /\ allowances[k] # NoAllowance
  <2>1. allowances[k] \in SoundAllowances
    BY <1>2, <1>3, ExistingSound
  <2>2. QED
    BY <1>1, <2>1, RefreshedIsSound, SoundParts
<1> HIDE DEF had, new, keys, a, Refreshed, key
<1>9. allowances' \in Maps
  <2>1. \A k \in Keys : allowances'[k] \in SoundAllowances \cup {NoAllowance}
    BY <1>2, <1>6, <1>7, <1>8 DEF Maps
  <2>2. QED
    BY <1>6, <2>1 DEF Maps
<1>10. IsFiniteSet(Existing(allowances'))
  <2> DEFINE image == {key[p] : p \in new}
  <2>1. IsFiniteSet(new)
    BY <1>4, PermissionsAssumption, FS_Subset
  <2>2. IsFiniteSet(image)
    <3>1. key \in Surjection(new, image)
      BY <1>5 DEF Surjection
    <3> HIDE DEF image
    <3>2. QED
      BY <2>1, <3>1, FS_Surjection
  <2>3. Existing(allowances') \subseteq Existing(allowances) \cup image
    <3>1. ASSUME NEW k \in Keys, allowances'[k] # NoAllowance, k \notin image PROVE allowances[k] # NoAllowance
      BY <1>5, <1>6, <1>8, <3>1
    <3> HIDE DEF image
    <3>2. QED
      BY <1>2, <1>9, <3>1, ExistingSound
  <2> HIDE DEF image
  <2>4. QED
    BY <1>2, <2>2, <2>3, FS_Union, FS_Subset
<1>11. \A p \in new : allowances'[key[p]] = a
  BY <1>5, <1>6
<1>12. ASSUME NEW k \in Keys, \A p \in new : k # key[p], NEW p \in Permissions
       PROVE  Weight(allowances', p)[k] = Weight(allowances, p)[k]
  <2>1. k \notin keys
    BY <1>5, <1>12
  <2>2. CASE k \in had
    BY <1>6, <1>8, <2>2 DEF Weight
  <2>3. CASE k \notin had
    <3>1. allowances'[k] = allowances[k]
      BY <1>6, <2>1, <2>3
    <3>2. QED
      BY <3>1 DEF Weight
  <2>4. QED
    BY <2>2, <2>3
<1>13. QED
  BY <1>1, <1>4, <1>5, <1>6, <1>9, <1>10, <1>11, <1>12, GrantKeepsInv DEF a

LEMMA RefreshKeepsInv ==
  ASSUME Inv, NEW by \in Grantors, NEW dto \in RefreshAllowancesDtos(by), RefreshAllowances(dto)
  PROVE  Inv'
<1> DEFINE Refreshed(k) == [allowances[k] EXCEPT !.uses = dto.uses, !.expires = dto.expires]
<1>1. dto.keys \subseteq Existing(allowances) /\ dto.uses \in Uses /\ dto.expires \in Expiries
  BY DEF RefreshAllowancesDtos, KeysOf
<1>2. /\ allowances \in Maps /\ IsFiniteSet(Existing(allowances))
      /\ granted \in [Permissions -> Nat] /\ claimed \in [Permissions -> Nat]
  BY DEF Inv
<1>3. /\ \A k \in Keys : allowances'[k] = IF k \in dto.keys THEN Refreshed(k) ELSE allowances[k]
      /\ allowances' = [k \in Keys |-> allowances'[k]]
      /\ granted' = granted /\ claimed' = claimed
  BY DEF RefreshAllowances
<1>4. ASSUME NEW k \in dto.keys
      PROVE  /\ Refreshed(k) \in SoundAllowances /\ (IsFinite(Refreshed(k)) <=> IsFinite(allowances[k]))
             /\ Unspent(Refreshed(k)) = Unspent(allowances[k])
             /\ Refreshed(k) # NoAllowance /\ allowances[k] # NoAllowance
  <2>1. allowances[k] \in SoundAllowances
    BY <1>1, <1>2, ExistingSound
  <2>2. QED
    BY <1>1, <2>1, RefreshedIsSound, SoundParts
<1> HIDE DEF Refreshed
<1>5. allowances' \in Maps
  <2>1. \A k \in Keys : allowances'[k] \in SoundAllowances \cup {NoAllowance}
    BY <1>2, <1>3, <1>4 DEF Maps
  <2>2. QED
    BY <1>3, <2>1 DEF Maps
<1>6. IsFiniteSet(Existing(allowances'))
  <2>1. Existing(allowances') \subseteq Existing(allowances)
    BY <1>1, <1>2, <1>3, <1>5, ExistingSound
  <2>2. QED
    BY <1>2, <2>1, FS_Subset
<1>7. ASSUME NEW p \in Permissions PROVE Left(allowances', p) <= Left(allowances, p)
  <2>1. ASSUME NEW k \in Keys PROVE Weight(allowances', p)[k] <= Weight(allowances, p)[k]
    <3>1. Weight(allowances', p)[k] = Weight(allowances, p)[k]
      BY <1>3, <1>4 DEF Weight
    <3>2. Weight(allowances, p)[k] \in Nat
      BY <1>2, WeightType
    <3>3. QED
      BY <3>1, <3>2
  <2>2. QED
    BY <1>2, <1>5, <1>6, <2>1, LeftMonotone
<1>8. ASSUME NEW p \in Permissions PROVE claimed'[p] + Left(allowances', p) <= granted'[p]
  <2>1. Left(allowances, p) \in Nat /\ Left(allowances', p) \in Nat
    BY <1>2, <1>5, <1>6, LeftOver, ExistingSound
  <2>2. QED
    BY <1>2, <1>3, <1>7, <2>1 DEF Inv
<1>9. QED
  BY <1>2, <1>3, <1>5, <1>6, <1>8 DEF Inv

LEMMA DeleteKeepsInv ==
  ASSUME Inv, NEW dto \in DeleteAllowancesDtos, DeleteAllowances(dto)
  PROVE  Inv'
<1>1. /\ allowances \in Maps /\ IsFiniteSet(Existing(allowances))
      /\ granted \in [Permissions -> Nat] /\ claimed \in [Permissions -> Nat]
  BY DEF Inv
<1>2. /\ \A k \in Keys : allowances'[k] = NoAllowance \/ allowances'[k] = allowances[k]
      /\ allowances' = [k \in Keys |-> allowances'[k]]
      /\ granted' = granted /\ claimed' = claimed
  BY DEF DeleteAllowances
<1>3. allowances' \in Maps
  BY <1>1, <1>2 DEF Maps
<1>4. IsFiniteSet(Existing(allowances'))
  <2>1. Existing(allowances') \subseteq Existing(allowances)
    BY <1>1, <1>2, <1>3, ExistingSound
  <2>2. QED
    BY <1>1, <2>1, FS_Subset
<1>5. ASSUME NEW p \in Permissions PROVE Left(allowances', p) <= Left(allowances, p)
  <2>1. ASSUME NEW k \in Keys PROVE Weight(allowances', p)[k] <= Weight(allowances, p)[k]
    <3>1. Weight(allowances, p)[k] \in Nat
      BY <1>1, WeightType
    <3>2. Weight(allowances', p)[k] = 0 \/ Weight(allowances', p)[k] = Weight(allowances, p)[k]
      BY <1>2 DEF Weight
    <3>3. QED
      BY <3>1, <3>2
  <2>2. QED
    BY <1>1, <1>3, <1>4, <2>1, LeftMonotone
<1>6. ASSUME NEW p \in Permissions PROVE claimed'[p] + Left(allowances', p) <= granted'[p]
  <2>1. Left(allowances, p) \in Nat /\ Left(allowances', p) \in Nat
    BY <1>1, <1>3, <1>4, LeftOver, ExistingSound
  <2>2. QED
    BY <1>1, <1>2, <1>5, <2>1 DEF Inv
<1>7. QED
  BY <1>1, <1>2, <1>3, <1>4, <1>6 DEF Inv

-----------------------------------------------------------------------------
(* The lists of keys: the fetched ones, and those that a client names.     *)

LEMMA FetchedKeys ==
  ASSUME allowances \in Maps, IsFiniteSet(Existing(allowances)), NEW p, NEW grantors,
         NEW keys \in FetchAllowances(p, grantors)
  PROVE  /\ keys \in KeyLists(allowances, p)
         /\ \A i \in 1 .. Len(keys) : keys[i] \in KeysOf({p}, grantors)
<1> DEFINE S == KeysOf({p}, grantors)
           n == Cardinality(S)
<1>1. S \subseteq {k \in Existing(allowances) : k.permission = p}
  BY DEF KeysOf
<1>2. IsFiniteSet(S) /\ n \in Nat
  <2>1. S \in SUBSET Existing(allowances)
    BY <1>1
  <2> HIDE DEF S
  <2>2. QED
    BY <2>1, FS_Subset, FS_CardinalityType
<1>3. keys \in [1 .. n -> S] /\ \A i, j \in 1 .. n : i # j => keys[i] # keys[j]
  BY DEF FetchAllowances, SetToSeqs
<1> HIDE DEF S, n
<1>4. Len(keys) = n /\ keys \in Seq(S)
  BY <1>2, <1>3
<1>5. keys \in KeyLists(allowances, p)
  <2>1. keys \in Seq({k \in Existing(allowances) : k.permission = p})
    BY <1>1, <1>4
  <2>2. QED
    BY <1>3, <1>4, <2>1 DEF KeyLists
<1>6. QED
  BY <1>3, <1>4, <1>5 DEF S

LEMMA FetchedAll ==
  ASSUME allowances \in Maps, IsFiniteSet(Existing(allowances)), NEW p, NEW grantors,
         NEW keys \in FetchAllowances(p, grantors), NEW k \in KeysOf({p}, grantors)
  PROVE  \E i \in 1 .. Len(keys) : keys[i] = k
<1> DEFINE S == KeysOf({p}, grantors)
           n == Cardinality(S)
<1>1. IsFiniteSet(S) /\ n \in Nat
  <2>1. S \in SUBSET Existing(allowances)
    BY DEF KeysOf
  <2> HIDE DEF S
  <2>2. QED
    BY <2>1, FS_Subset, FS_CardinalityType
<1>2. keys \in [1 .. n -> S] /\ \A i, j \in 1 .. n : i # j => keys[i] # keys[j]
  BY DEF FetchAllowances, SetToSeqs
<1> HIDE DEF S, n
<1>3. Len(keys) = n
  BY <1>1, <1>2
<1>4. keys \in Injection(1 .. n, S)
  BY <1>2 DEF Injection, IsInjective
<1>5. Cardinality(1 .. n) = Cardinality(S) /\ IsFiniteSet(1 .. n)
  BY <1>1, FS_Interval DEF n
<1>6. keys \in Surjection(1 .. n, S)
  BY <1>1, <1>4, <1>5, FS_Injection
<1>7. QED
  BY <1>3, <1>6 DEF Surjection, S

\* Sequences without repetition.
Distinct(X) == {s \in Seq(X) : \A i, j \in 1 .. Len(s) : s[i] = s[j] => i = j}

LEMMA DistinctAppend ==
  ASSUME NEW X, NEW s \in Distinct(X), NEW k \in X, \A i \in 1 .. Len(s) : s[i] # k
  PROVE  Append(s, k) \in Distinct(X)
<1> DEFINE t == Append(s, k)
<1>1. s \in Seq(X) /\ Len(s) \in Nat /\ \A i, j \in 1 .. Len(s) : s[i] = s[j] => i = j
  BY DEF Distinct
<1>2. /\ t \in Seq(X) /\ Len(t) = Len(s) + 1 /\ t[Len(s) + 1] = k
      /\ \A i \in 1 .. Len(s) : t[i] = s[i]
  BY <1>1
<1> HIDE DEF t
<1>3. \A i, j \in 1 .. Len(t) : t[i] = t[j] => i = j
  <2>1. \A i \in 1 .. Len(t) : i = Len(s) + 1 \/ i \in 1 .. Len(s)
    BY <1>1, <1>2
  <2>2. QED
    BY <1>1, <1>2, <2>1
<1>4. QED
  BY <1>2, <1>3 DEF Distinct, t

LEMMA Deduplicated ==
  ASSUME NEW X, NEW keys \in Seq(X)
  PROVE  Deduplicate(keys) \in Distinct(X)
<1> DEFINE A == Distinct(X)
           Next1(k, s) == IF Contains(s, k) THEN s ELSE Append(s, k)
           G == [k \in X |-> [s \in A |-> Next1(k, s)]]
           Solves(iter) == iter = [T \in SUBSET DOMAIN keys |->
                                     IF T = {} THEN << >> ELSE Next1(keys[Max(T)], iter[T \ {Max(T)}])]
<1>1. ASSUME NEW k \in X, NEW s \in A PROVE Next1(k, s) \in A
  <2>1. ~Contains(s, k) => Append(s, k) \in A
    BY DistinctAppend DEF Contains
  <2>2. QED
    BY <2>1
<1>2. << >> \in A
  BY DEF Distinct
<1> HIDE DEF A, Next1
<1>3. G \in [X -> [A -> A]] /\ \A k \in X : \A s \in A : G[k][s] = Next1(k, s)
  BY <1>1
<1> HIDE DEF G
<1>4. Foldable(keys, X, A, << >>, G)
  BY <1>2, <1>3 DEF Foldable
<1>5. DOMAIN keys = 1 .. Len(keys) /\ Len(keys) \in Nat /\ \A i \in 1 .. Len(keys) : keys[i] \in X
  OBVIOUS
<1>6. ASSUME NEW T \in SUBSET DOMAIN keys, T # {} PROVE keys[Max(T)] \in X
  BY <1>5, <1>6, MaxOfIndices
<1>7. PICK it \in [SUBSET DOMAIN keys -> A] : Accumulates(it, keys, << >>, A, G)
  BY <1>4, AccumulatorsExist
<1>8. \E iter : Solves(iter)
  <2>1. ASSUME NEW T \in SUBSET DOMAIN keys
        PROVE  it[T] = IF T = {} THEN << >> ELSE Next1(keys[Max(T)], it[T \ {Max(T)}])
    <3>1. it[T] = IF T = {} THEN << >> ELSE G[keys[Max(T)]][it[T \ {Max(T)}]]
      BY <1>7 DEF Accumulates
    <3>2. it[T \ {Max(T)}] \in A
      BY <1>7
    <3>3. QED
      BY <1>3, <1>6, <3>1, <3>2
  <2>2. Solves(it)
    BY <1>7, <2>1
  <2>3. QED
    BY <2>2
<1> DEFINE iter == CHOOSE iter : Solves(iter)
<1>9. Solves(iter)
  BY <1>8
<1>10. Deduplicate(keys) = iter[DOMAIN keys]
  BY DEF Deduplicate, FoldLeft, MapThenFoldSet, Next1
<1> HIDE DEF iter
<1>11. AccumulatesWithin(iter, keys, << >>, A, G)
  <2>1. iter[{}] = << >>
    BY <1>9
  <2>2. ASSUME NEW T \in SUBSET DOMAIN keys, T # {}, iter[T \ {Max(T)}] \in A
        PROVE  iter[T] = G[keys[Max(T)]][iter[T \ {Max(T)}]]
    <3>1. iter[T] = Next1(keys[Max(T)], iter[T \ {Max(T)}])
      BY <1>9, <2>2
    <3>2. QED
      BY <1>3, <1>6, <2>2, <3>1
  <2>3. QED
    BY <2>1, <2>2 DEF AccumulatesWithin
<1>12. iter[DOMAIN keys] \in A
  BY <1>4, <1>11, FoldStays
<1>13. QED
  BY <1>10, <1>12 DEF A

\* Of a sequence without repetition, the keys of a permission are one, too.
LEMMA OfPermissionDistinct ==
  ASSUME NEW X, NEW keys \in Distinct(X), NEW p
  PROVE  OfPermission(keys, p) \in Distinct({k \in X : k.permission = p})
<1> DEFINE n == Len(keys)
           Y == {k \in X : k.permission = p}
           A == Seq(Y)
           Next1(k, s) == IF k.permission = p THEN Append(s, k) ELSE s
           G == [k \in X |-> [s \in A |-> Next1(k, s)]]
           Solves(iter) == iter = [T \in SUBSET DOMAIN keys |->
                                     IF T = {} THEN << >> ELSE Next1(keys[Max(T)], iter[T \ {Max(T)}])]
<1>1. ASSUME NEW k \in X, NEW s \in A PROVE Next1(k, s) \in A
  <2>1. k.permission = p => Append(s, k) \in A
    OBVIOUS
  <2>2. QED
    BY <2>1
<1>2. << >> \in A
  OBVIOUS
<1>3. keys \in Seq(X) /\ \A i, j \in 1 .. n : keys[i] = keys[j] => i = j
  BY DEF Distinct
<1>4. n \in Nat /\ DOMAIN keys = 1 .. n /\ \A i \in 1 .. n : keys[i] \in X
  BY <1>3
<1> HIDE DEF A, Next1, n
<1>5. G \in [X -> [A -> A]] /\ \A k \in X : \A s \in A : G[k][s] = Next1(k, s)
  BY <1>1
<1> HIDE DEF G
<1>6. Foldable(keys, X, A, << >>, G)
  BY <1>2, <1>3, <1>5 DEF Foldable
<1>7. ASSUME NEW T \in SUBSET DOMAIN keys, T # {} PROVE keys[Max(T)] \in X
  BY <1>4, <1>7, MaxOfIndices
<1>8. PICK it \in [SUBSET DOMAIN keys -> A] : Accumulates(it, keys, << >>, A, G)
  BY <1>6, AccumulatorsExist
<1>9. \E iter : Solves(iter)
  <2>1. ASSUME NEW T \in SUBSET DOMAIN keys
        PROVE  it[T] = IF T = {} THEN << >> ELSE Next1(keys[Max(T)], it[T \ {Max(T)}])
    <3>1. it[T] = IF T = {} THEN << >> ELSE G[keys[Max(T)]][it[T \ {Max(T)}]]
      BY <1>8 DEF Accumulates
    <3>2. it[T \ {Max(T)}] \in A
      BY <1>8
    <3>3. QED
      BY <1>5, <1>7, <3>1, <3>2
  <2>2. Solves(it)
    BY <1>8, <2>1
  <2>3. QED
    BY <2>2
<1> DEFINE iter == CHOOSE iter : Solves(iter)
<1>10. Solves(iter)
  BY <1>9
<1>11. OfPermission(keys, p) = iter[DOMAIN keys]
  BY DEF OfPermission, FoldLeft, MapThenFoldSet, Next1
<1> HIDE DEF iter
<1>12. AccumulatesWithin(iter, keys, << >>, A, G)
  <2>1. iter[{}] = << >>
    BY <1>10
  <2>2. ASSUME NEW T \in SUBSET DOMAIN keys, T # {}, iter[T \ {Max(T)}] \in A
        PROVE  iter[T] = G[keys[Max(T)]][iter[T \ {Max(T)}]]
    <3>1. iter[T] = Next1(keys[Max(T)], iter[T \ {Max(T)}])
      BY <1>10, <2>2
    <3>2. QED
      BY <1>5, <1>7, <2>2, <3>1
  <2>3. QED
    BY <2>1, <2>2 DEF AccumulatesWithin
<1>13. PICK run : IsRun(run, keys, << >>, A, G) /\ run[n] = iter[DOMAIN keys]
  BY <1>6, <1>12, AccumulatorsRun DEF n
<1>14. run \in [0 .. n -> A] /\ run[0] = << >>
  BY <1>13 DEF IsRun, n
<1>15. ASSUME NEW i \in 1 .. n PROVE run[i - 1] \in A /\ run[i] = Next1(keys[i], run[i - 1])
  <2>1. run[i] = G[keys[i]][run[i - 1]]
    BY <1>13 DEF IsRun, n
  <2>2. i - 1 \in 0 .. n
    BY <1>4
  <2>3. run[i - 1] \in A
    BY <1>14, <2>2
  <2>4. QED
    BY <1>4, <1>5, <2>1, <2>3
<1> DEFINE Good(i) == /\ run[i] \in Distinct(Y)
                      /\ \A m \in 1 .. Len(run[i]) : \E j \in 1 .. i : run[i][m] = keys[j]
           P == {i \in 0 .. n : Good(i)}
<1>16. 0 \in P
  <2> HIDE DEF Y
  <2>1. << >> \in Distinct(Y) /\ \A m \in 1 .. Len(<< >>) : FALSE
    BY DEF Distinct
  <2>2. Good(0)
    BY <1>14, <2>1
  <2>3. QED
    BY <1>4, <2>2
<1>17. ASSUME NEW i \in 1 .. n, i - 1 \in P PROVE i \in P
  <2> DEFINE s == run[i - 1]
             k == keys[i]
  <2>1. s \in Distinct(Y) /\ \A m \in 1 .. Len(s) : \E j \in 1 .. i - 1 : s[m] = keys[j]
    BY <1>17
  <2>2. s \in Seq(Y) /\ Len(s) \in Nat
    BY <2>1 DEF Distinct
  <2>3. run[i] = IF k.permission = p THEN Append(s, k) ELSE s
    BY <1>15 DEF Next1
  <2>4. \A j \in 1 .. i - 1 : j \in 1 .. i /\ j \in 1 .. n /\ j # i
    BY <1>4
  <2>5. i \in 0 .. n /\ i \in 1 .. i
    BY <1>4
  <2>6. k \in X /\ \A j \in 1 .. i - 1 : keys[j] # k
    BY <1>3, <1>4, <2>4
  <2>7. CASE k.permission = p
    <3>1. \A m \in 1 .. Len(s) : s[m] # k
      BY <2>1, <2>6
    <3> HIDE DEF s, k
    <3>2. Append(s, k) \in Distinct(Y)
      BY <2>1, <2>6, <2>7, <3>1, DistinctAppend
    <3>3. \A m \in 1 .. Len(Append(s, k)) : \E j \in 1 .. i : Append(s, k)[m] = keys[j]
      <4>1. /\ Len(Append(s, k)) = Len(s) + 1 /\ Append(s, k)[Len(s) + 1] = k
            /\ \A m \in 1 .. Len(s) : Append(s, k)[m] = s[m]
        BY <2>2
      <4>2. \A m \in 1 .. Len(s) + 1 : m \in 1 .. Len(s) \/ m = Len(s) + 1
        BY <2>2
      <4>3. k = keys[i]
        BY DEF k
      <4>4. QED
        BY <2>1, <2>4, <2>5, <4>1, <4>2, <4>3
    <3>4. QED
      BY <2>3, <2>5, <2>7, <3>2, <3>3
  <2>8. CASE k.permission # p
    <3>1. run[i] = s
      BY <2>3, <2>8
    <3>2. QED
      BY <2>1, <2>4, <2>5, <3>1
  <2>9. QED
    BY <2>7, <2>8
<1> HIDE DEF P
<1>18. \A i \in 0 .. n : i \in P
  BY <1>4, <1>16, <1>17, UpTo
<1>19. run[n] \in Distinct(Y)
  BY <1>4, <1>18 DEF P
<1>20. QED
  BY <1>11, <1>13, <1>19

LEMMA NamedKeys ==
  ASSUME allowances \in Maps, NEW named \in NamedAllowances, NEW p
  PROVE  OfPermission(Deduplicate(named), p) \in KeyLists(allowances, p)
<1> DEFINE X == Existing(allowances)
<1>1. named \in Seq(X)
  <2>1. PICK m \in 0 .. MaxNamed : named \in [1 .. m -> X]
    BY DEF NamedAllowances, BoundedSeq, SeqOf
  <2>2. m \in Nat
    BY NumbersAssumption
  <2> HIDE DEF X
  <2>3. QED
    BY <2>1, <2>2
<1> HIDE DEF X
<1>2. OfPermission(Deduplicate(named), p) \in Distinct({k \in X : k.permission = p})
  BY <1>1, Deduplicated, OfPermissionDistinct
<1>3. QED
  BY <1>2 DEF Distinct, KeyLists, X

-----------------------------------------------------------------------------
(* Every step.                                                             *)

LEMMA UseKeysKeepsInv ==
  ASSUME Inv, NEW p \in Permissions, NEW keys \in KeyLists(allowances, p),
         NEW quantity \in 1 .. MaxGrants, NEW now \in Times, UseKeys(p, keys, quantity, now)
  PROVE  Inv'
<1> DEFINE result == UseAllowances(allowances, keys, quantity, now)
<1>0. quantity \in Nat
  OBVIOUS
<1>1. /\ allowances \in Maps /\ IsFiniteSet(Existing(allowances))
      /\ granted \in [Permissions -> Nat] /\ claimed \in [Permissions -> Nat]
      /\ \A r \in Permissions : claimed[r] + Left(allowances, r) <= granted[r]
  BY DEF Inv
<1>2. /\ allowances' = result.put /\ granted' = granted
      /\ claimed' = [claimed EXCEPT ![p] = @ + quantity - result.remaining]
  BY DEF UseKeys
<1>3. /\ result \in Results /\ result.remaining <= quantity
      /\ Existing(result.put) \subseteq Existing(allowances)
      /\ \A k \in Keys : k.permission # p => result.put[k] = allowances[k]
      /\ Left(result.put, p) + (quantity - result.remaining) <= Left(allowances, p)
  BY <1>0, <1>1, UseTakes
<1> DEFINE put == result.put
           remaining == result.remaining
<1>4. put \in Maps /\ remaining \in Nat
  BY <1>3 DEF Results
<1> HIDE DEF result
<1>5. IsFiniteSet(Existing(put))
  BY <1>1, <1>3, FS_Subset
<1>6. claimed' \in [Permissions -> Nat]
  <2>1. claimed[p] + quantity - remaining \in Nat
    <3>1. claimed[p] \in Nat
      BY <1>1
    <3> HIDE DEF remaining
    <3>2. QED
      BY <1>0, <1>3, <1>4, <3>1 DEF remaining
  <2>2. QED
    BY <1>1, <1>2, <2>1
<1>7. ASSUME NEW r \in Permissions PROVE claimed'[r] + Left(put, r) <= granted[r]
  <2>1. Left(put, r) \in Nat /\ Left(allowances, r) \in Nat
    BY <1>1, <1>4, <1>5, LeftOver, ExistingSound
  <2>2. claimed[r] \in Nat /\ granted[r] \in Nat /\ claimed[r] + Left(allowances, r) <= granted[r]
    BY <1>1
  <2>3. CASE r = p
    <3>1. claimed'[r] = claimed[r] + quantity - remaining
      BY <1>1, <1>2, <2>3
    <3>2. Left(put, r) + (quantity - remaining) <= Left(allowances, r)
      BY <1>3, <2>3
    <3> DEFINE after == Left(put, r)
               before == Left(allowances, r)
    <3> HIDE DEF after, before, remaining, put
    <3>3. claimed[r] + quantity - remaining + after <= granted[r]
      BY <1>0, <1>4, <2>1, <2>2, <3>2 DEF after, before
    <3>4. QED
      BY <3>1, <3>3 DEF after
  <2>4. CASE r # p
    <3>1. claimed'[r] = claimed[r]
      BY <1>1, <1>2, <2>4
    <3>2. \A k \in Keys : Weight(put, r)[k] = Weight(allowances, r)[k]
      BY <1>3, <2>4 DEF Weight
    <3>3. \A k \in Keys : Weight(put, r)[k] <= Weight(allowances, r)[k]
      BY <1>1, <3>2, WeightType
    <3>4. Left(put, r) <= Left(allowances, r)
      BY <1>1, <1>4, <1>5, <3>3, LeftMonotone
    <3>5. QED
      BY <2>1, <2>2, <3>1, <3>4
  <2>5. QED
    BY <2>3, <2>4
<1>8. QED
  BY <1>1, <1>2, <1>4, <1>5, <1>6, <1>7 DEF Inv

LEMMA GrantCallKeepsInv ==
  ASSUME Inv, NEW now \in Times, GrantCall(now)
  PROVE  Inv'
<1>1. PICK by \in Grantors, dto \in GrantAllowanceDtos :
        \/ GrantAllowance(by, dto, now)
        \/ \E owned \in {query \cap OwnedFor(by, dto.permission \in Locks) : query \in QueryKeys} \ {{}} :
             GrantAllowanceByPartialKey(by, owned, dto, now)
  BY DEF GrantCall
<1>2. CASE GrantAllowance(by, dto, now)
  BY <1>2, GrantAllowanceKeepsInv
<1>3. CASE \E owned \in {query \cap OwnedFor(by, dto.permission \in Locks) : query \in QueryKeys} \ {{}} :
             GrantAllowanceByPartialKey(by, owned, dto, now)
  <2>1. PICK owned \in {query \cap OwnedFor(by, dto.permission \in Locks) : query \in QueryKeys} :
          GrantAllowanceByPartialKey(by, owned, dto, now)
    BY <1>3
  <2>2. owned \in SUBSET Permissions
    BY DEF OwnedFor
  <2>3. QED
    BY <2>1, <2>2, GrantByPartialKeyKeepsInv
<1>4. QED
  BY <1>1, <1>2, <1>3

LEMMA UseCallKeepsInv ==
  ASSUME Inv, NEW now \in Times, UseCall(now)
  PROVE  Inv'
<1>1. PICK quantity \in 1 .. MaxGrants :
        \/ \E permission \in Permissions, source \in Sources :
             VerifyAndUseAllowances(permission, source, quantity, now)
        \/ \E permission \in Permissions \ Locks, named \in NamedAllowances :
             VerifyAndUseTransferAllowancesByKeys(permission, named, quantity, now)
  BY DEF UseCall
<1>2. allowances \in Maps /\ IsFiniteSet(Existing(allowances))
  BY DEF Inv
<1>3. ASSUME NEW permission \in Permissions, NEW source \in Sources,
             VerifyAndUseAllowances(permission, source, quantity, now)
      PROVE  Inv'
  <2>1. PICK keys \in FetchAllowances(permission, source) : UseKeys(permission, keys, quantity, now)
    BY <1>3 DEF VerifyAndUseAllowances
  <2>2. keys \in KeyLists(allowances, permission)
    BY <1>2, FetchedKeys
  <2>3. QED
    BY <2>1, <2>2, UseKeysKeepsInv
<1>4. ASSUME NEW permission \in Permissions, NEW named \in NamedAllowances,
             VerifyAndUseTransferAllowancesByKeys(permission, named, quantity, now)
      PROVE  Inv'
  <2> DEFINE keys == OfPermission(Deduplicate(named), permission)
  <2>1. UseKeys(permission, keys, quantity, now)
    BY <1>4 DEF VerifyAndUseTransferAllowancesByKeys
  <2>2. keys \in KeyLists(allowances, permission)
    BY <1>2, NamedKeys
  <2> HIDE DEF keys
  <2>3. QED
    BY <2>1, <2>2, UseKeysKeepsInv
<1>5. QED
  BY <1>1, <1>3, <1>4

LEMMA NextInv ==
  ASSUME Inv, [Next]_vars
  PROVE  Inv'
<1>1. CASE UNCHANGED vars
  BY <1>1 DEF vars, Inv
<1>2. ASSUME NEW now \in Times, GrantCall(now) \/ UseCall(now) PROVE Inv'
  BY <1>2, GrantCallKeepsInv, UseCallKeepsInv
<1>3. ASSUME NEW by \in Grantors, NEW dto \in RefreshAllowancesDtos(by), RefreshAllowances(dto) PROVE Inv'
  BY <1>3, RefreshKeepsInv
<1>4. ASSUME NEW dto \in DeleteAllowancesDtos, DeleteAllowances(dto) PROVE Inv'
  BY <1>4, DeleteKeepsInv
<1>5. QED
  BY <1>1, <1>2, <1>3, <1>4 DEF Next

LEMMA InvHolds == Spec => []Inv
<1>1. Inv /\ [Next]_vars => Inv'
  BY NextInv
<1>2. QED
  BY InitInv, <1>1, PTL DEF Spec

(***************************************************************************)
(* The variables have their types, and no allowance is ever spent beyond   *)
(* its quantity, whatever is granted, refreshed, deleted and used.         *)
(***************************************************************************)
THEOREM TypeCorrect == Spec => []TypeOK
<1>1. Inv => TypeOK
  <2> SUFFICES ASSUME Inv PROVE TypeOK
    OBVIOUS
  <2>1. allowances \in Maps
    BY DEF Inv
  <2>2. allowances \in [Keys -> TokenAllowances \cup {NoAllowance}]
    BY <2>1 DEF Maps, SoundAllowances
  <2>3. ASSUME NEW k \in Existing(allowances)
        PROVE  /\ IsFinite(allowances[k]) => Unspent(allowances[k]) \in Nat
               /\ allowances[k].expires \in Expiries \cup Times
    BY <2>1, ExistingSound, SoundParts
  <2>4. QED
    BY <2>2, <2>3 DEF TypeOK, Inv
<1>2. QED
  BY InvHolds, <1>1, PTL

(***************************************************************************)
(* What was claimed for a permission and what is left of its allowances    *)
(* was granted: no action, and no sequence of actions, spends an allowance *)
(* twice (useAllowances, verifyAndUseTransferAllowancesByKeys).            *)
(***************************************************************************)
THEOREM ClaimsCorrect == Spec => []ClaimsWereGranted
<1>1. Inv => ClaimsWereGranted
  <2> SUFFICES ASSUME Inv, NEW p \in Permissions
               PROVE  claimed[p] + UnspentOf(KeysOf({p}, Grantors)) <= granted[p]
    BY DEF ClaimsWereGranted
  <2>1. UnspentOf(KeysOf({p}, Grantors)) = Left(allowances, p)
    BY LeftIsUnspent DEF Inv
  <2>2. QED
    BY <2>1 DEF Inv
<1>2. QED
  BY InvHolds, <1>1, PTL

-----------------------------------------------------------------------------
(* What the checks pass succeeds.                                          *)

\* The indices whose allowances the check counts, and what it counts of them.
Valid(al, keys, now) == {i \in DOMAIN keys : ~IsAllowanceInvalid(al[keys[i]], now)}

Countable(al, keys, now) == {i \in Valid(al, keys, now) : IsFinite(al[keys[i]])}

Counted(al, keys, now) ==
  [i \in DOMAIN keys |-> IF i \in Countable(al, keys, now) THEN Unspent(al[keys[i]]) ELSE 0]

LEMMA CountedParts ==
  ASSUME NEW al \in Maps, NEW p, NEW keys \in KeyLists(al, p), NEW now, NEW quantity
  PROVE  /\ Len(keys) \in Nat /\ DOMAIN keys = 1 .. Len(keys)
         /\ Counted(al, keys, now) \in [1 .. Len(keys) -> Nat]
         /\ Summable(Counted(al, keys, now), 1 .. Len(keys))
         /\ AllowsQuantity(al, keys, quantity, now) <=>
              \/ Countable(al, keys, now) # Valid(al, keys, now)
              \/ SumFunctionOnSet(Counted(al, keys, now), 1 .. Len(keys)) >= quantity
<1> DEFINE n == Len(keys)
           v == Counted(al, keys, now)
           F == Countable(al, keys, now)
           f == [i \in F |-> Unspent(al[keys[i]])]
<1>1. /\ n \in Nat /\ DOMAIN keys = 1 .. n /\ \A i \in 1 .. n : keys[i] \in Existing(al)
  BY DEF KeyLists
<1>2. \A i \in 1 .. n : al[keys[i]] \in SoundAllowances
  BY <1>1, ExistingSound
<1>3. F \in SUBSET (1 .. n) /\ \A i \in F : f[i] \in Nat /\ f[i] = v[i]
  BY <1>1, <1>2, SoundParts DEF Countable, Valid, Counted
<1>4. v \in [1 .. n -> Nat] /\ \A i \in (1 .. n) \ F : v[i] = 0
  BY <1>1, <1>3 DEF Counted
<1>5. Summable(v, 1 .. n)
  <2>1. IsFiniteSet(1 .. n)
    BY <1>1, FS_Interval
  <2>2. \A i \in 1 .. n : v[i] \in Int
    BY <1>4
  <2> HIDE DEF v, n
  <2>3. QED
    BY <2>1, <2>2 DEF Summable
<1>6. AllowsQuantity(al, keys, quantity, now) <=>
        F # Valid(al, keys, now) \/ SumFunctionOnSet(f, F) >= quantity
  <2>1. DOMAIN f = F
    OBVIOUS
  <2>2. QED
    BY <2>1 DEF AllowsQuantity, Valid, Countable, SumFunction
<1> HIDE DEF n, v, F, f
<1>7. SumFunctionOnSet(v, 1 .. n) = SumFunctionOnSet(f, F)
  <2>1. SumFunctionOnSet(v, 1 .. n) = SumFunctionOnSet(v, F)
    <3> DEFINE S == 1 .. n
    <3>1. Summable(v, S) /\ F \in SUBSET S /\ \A i \in S \ F : v[i] = 0
      BY <1>3, <1>4, <1>5
    <3> HIDE DEF S
    <3>2. SumFunctionOnSet(v, S) = SumFunctionOnSet(v, F)
      BY <3>1, SumWithoutZeros
    <3>3. QED
      BY <3>2 DEF S
  <2>2. SumFunctionOnSet(v, F) = SumFunctionOnSet(f, F)
    <3>1. Summable(v, F)
      BY <1>3, <1>5, SummableSubset
    <3>2. QED
      BY <1>3, <3>1, SumAgrees
  <2>3. QED
    BY <2>1, <2>2
<1>8. QED
  BY <1>1, <1>4, <1>5, <1>6, <1>7 DEF n, v, F

\* After i turns all is taken, or what remains is no more than what was counted from
\* there on, and the allowances that do not count were used.
Covered(run, al, keys, now, quantity, i) ==
  \/ run[i].remaining = 0
  \/ /\ run[i].remaining + SumFunctionOnSet(Counted(al, keys, now), 1 .. i) <= quantity
     /\ \A j \in 1 .. i : j \in Valid(al, keys, now) /\ ~IsFinite(al[keys[j]]) => keys[j] \in run[i].used

LEMMA OneMoreCovered ==
  ASSUME NEW al \in Maps, NEW p, NEW keys \in KeyLists(al, p),
         NEW quantity \in Nat, NEW now \in Times,
         NEW run, UseRun(run, al, keys, quantity, now),
         NEW i \in 1 .. Len(keys), Covered(run, al, keys, now, quantity, i - 1)
  PROVE  Covered(run, al, keys, now, quantity, i)
<1> DEFINE n == Len(keys)
           x == keys[i]
           acc == run[i - 1]
           turn == run[i]
           v == Counted(al, keys, now)
           before == SumFunctionOnSet(v, 1 .. i - 1)
           after == SumFunctionOnSet(v, 1 .. i)
<1>1. /\ n \in Nat /\ i \in Nat /\ 1 <= i /\ i <= n /\ i \in 1 .. n
      /\ x \in Existing(al)
  BY DEF KeyLists
<1>2. x \in Keys /\ al[x] \in SoundAllowances
  BY <1>1, ExistingSound
<1>3. acc \in Results /\ turn \in Results
  <2>1. i - 1 \in 0 .. n /\ i \in 0 .. n
    BY <1>1
  <2>2. QED
    BY <2>1 DEF UseRun, RunOf
<1>4. acc.remaining \in Nat /\ turn.remaining \in Nat
  BY <1>3 DEF Results
<1>5. \/ Skips(turn, acc, al[x], now) \/ Notes(turn, acc, x, al[x])
      \/ \E taken \in Nat : Takes(turn, acc, x, al[x], taken)
  <2>1. turn = UseAllowance(acc, x, al[x], now)
    BY DEF UseRun, RunOf
  <2>2. QED
    BY <1>2, <1>3, <2>1, Turn
<1>6. 1 .. i = (1 .. i - 1) \cup {i} /\ (1 .. i) \ {i} = 1 .. i - 1
  BY <1>1
<1>7. v \in [1 .. n -> Nat] /\ Summable(v, 1 .. n) /\ DOMAIN keys = 1 .. n
  BY CountedParts
<1>8. after = v[i] + before /\ before \in Nat /\ v[i] \in Nat
  <2>1. 1 .. i \in SUBSET (1 .. n) /\ i \in 1 .. i
    BY <1>1
  <2> HIDE DEF v, n
  <2>2. Summable(v, 1 .. i)
    BY <1>7, <2>1, SummableSubset
  <2>3. after = v[i] + SumFunctionOnSet(v, (1 .. i) \ {i})
    BY <2>1, <2>2, SumRemove
  <2>4. Summable(v, 1 .. i - 1) /\ \A j \in 1 .. i - 1 : 0 <= v[j]
    <3>1. 1 .. i - 1 \in SUBSET (1 .. n)
      BY <1>1, <1>6, <2>1
    <3>2. QED
      BY <1>7, <3>1, SummableSubset
  <2>5. before \in Nat
    BY <2>4, SumNat
  <2>6. QED
    BY <1>1, <1>6, <1>7, <2>3, <2>5
<1>9. /\ IsAllowanceExpired(al[x], now) => v[i] = 0 /\ i \notin Valid(al, keys, now)
      /\ ~IsFinite(al[x]) => v[i] = 0
      /\ v[i] = 0 \/ v[i] = Unspent(al[x])
  BY <1>1, <1>7 DEF Counted, Countable, Valid, IsAllowanceInvalid
<1>10. \/ acc.remaining = 0
       \/ /\ acc.remaining + before <= quantity
          /\ \A j \in 1 .. i - 1 : j \in Valid(al, keys, now) /\ ~IsFinite(al[keys[j]]) => keys[j] \in acc.used
  BY DEF Covered
<1> HIDE DEF n, acc, turn, v, before, after
<1> SUFFICES ASSUME turn.remaining # 0
             PROVE  /\ turn.remaining + after <= quantity
                    /\ \A j \in 1 .. i : j \in Valid(al, keys, now) /\ ~IsFinite(al[keys[j]])
                                           => keys[j] \in turn.used
  BY DEF Covered, turn, after, v
<1>11. acc.remaining # 0
  <2>1. turn.remaining <= acc.remaining
    <3>1. ASSUME NEW taken \in Nat, Takes(turn, acc, x, al[x], taken) PROVE turn.remaining <= acc.remaining
      BY <1>4, <3>1 DEF Takes
    <3>2. Skips(turn, acc, al[x], now) \/ Notes(turn, acc, x, al[x]) => turn.remaining = acc.remaining
      BY DEF Skips, Notes
    <3>3. QED
      BY <1>4, <1>5, <3>1, <3>2
  <2>2. QED
    BY <1>4, <2>1
<1>12. turn.remaining + after <= quantity
  <2>1. ASSUME turn.remaining = acc.remaining, v[i] = 0 PROVE turn.remaining + after <= quantity
    BY <1>4, <1>8, <1>10, <1>11, <2>1
  <2>2. CASE Skips(turn, acc, al[x], now)
    BY <1>9, <1>11, <2>1, <2>2 DEF Skips
  <2>3. CASE Notes(turn, acc, x, al[x])
    BY <1>9, <2>1, <2>3 DEF Notes
  <2>4. ASSUME NEW taken \in Nat, Takes(turn, acc, x, al[x], taken) PROVE turn.remaining + after <= quantity
    <3>1. turn.remaining = acc.remaining - taken /\ (taken = acc.remaining \/ taken = Unspent(al[x]))
      BY <2>4 DEF Takes
    <3>2. taken = Unspent(al[x])
      BY <1>4, <3>1
    <3>3. v[i] = 0 \/ v[i] = taken
      BY <1>9, <3>2
    <3>4. acc.remaining + before <= quantity
      BY <1>10, <1>11
    <3>5. after = before \/ after = taken + before
      BY <1>8, <3>3
    <3> DEFINE r == acc.remaining
               s == turn.remaining
    <3>6. r \in Nat /\ s = r - taken /\ r + before <= quantity
      BY <1>4, <3>1, <3>4
    <3> HIDE DEF r, s
    <3>7. s + after <= quantity
      BY <1>8, <3>5, <3>6
    <3>8. QED
      BY <3>7 DEF s
  <2>5. QED
    BY <1>5, <2>2, <2>3, <2>4
<1>13. ASSUME NEW j \in 1 .. i, j \in Valid(al, keys, now), ~IsFinite(al[keys[j]])
       PROVE  keys[j] \in turn.used
  <2>1. acc.used \subseteq turn.used
    BY <1>5 DEF Skips, Notes, Takes
  <2>2. CASE j \in 1 .. i - 1
    BY <1>10, <1>11, <1>13, <2>1, <2>2
  <2>3. CASE j = i
    <3>1. ~Skips(turn, acc, al[x], now)
      BY <1>9, <1>11, <1>13, <2>3 DEF Skips
    <3>2. QED
      BY <1>5, <2>3, <3>1 DEF Notes, Takes, x
  <2>4. QED
    BY <1>6, <2>2, <2>3
<1>14. QED
  BY <1>12, <1>13

LEMMA EnoughSucceeds ==
  ASSUME NEW al \in Maps, NEW p, NEW keys \in KeyLists(al, p),
         NEW quantity \in Nat, NEW now \in Times, AllowsQuantity(al, keys, quantity, now)
  PROVE  Succeeds(al, UseAllowances(al, keys, quantity, now))
<1> DEFINE n == Len(keys)
           sum == SumFunctionOnSet(Counted(al, keys, now), 1 .. n)
<1>1. PICK run : UseRun(run, al, keys, quantity, now) /\ UseAllowances(al, keys, quantity, now) = run[n]
  BY RunExists
<1>2. /\ n \in Nat /\ DOMAIN keys = 1 .. n
      /\ Countable(al, keys, now) # Valid(al, keys, now) \/ sum >= quantity
      /\ Summable(Counted(al, keys, now), 1 .. n)
  BY CountedParts
<1> HIDE DEF n
<1>3. Covered(run, al, keys, now, quantity, n)
  <2> DEFINE P == {i \in 0 .. n : Covered(run, al, keys, now, quantity, i)}
  <2>1. 0 \in P
    <3>1. 1 .. 0 = {}
      OBVIOUS
    <3>2. SumFunctionOnSet(Counted(al, keys, now), 1 .. 0) = 0
      BY <3>1, SumEmpty
    <3>3. run[0].remaining = quantity
      BY <1>1 DEF UseRun, RunOf, StartOf
    <3>4. Covered(run, al, keys, now, quantity, 0)
      BY <3>1, <3>2, <3>3 DEF Covered
    <3>5. QED
      BY <1>2, <3>4
  <2>2. ASSUME NEW i \in 1 .. n, i - 1 \in P PROVE i \in P
    <3>1. Covered(run, al, keys, now, quantity, i)
      BY <1>1, <2>2, OneMoreCovered DEF n
    <3>2. QED
      BY <1>2, <3>1
  <2> HIDE DEF P
  <2>3. \A i \in 0 .. n : i \in P
    BY <1>2, <2>1, <2>2, UpTo
  <2>4. QED
    BY <1>2, <2>3 DEF P
<1>4. run[n].remaining \in Nat
  <2>1. n \in 0 .. n
    BY <1>2
  <2>2. run[n] \in Results
    BY <1>1, <2>1 DEF UseRun, RunOf, n
  <2>3. QED
    BY <2>2 DEF Results
<1>5. SUFFICES ASSUME run[n].remaining # 0
               PROVE  \E k \in run[n].used : ~IsFinite(al[k])
  BY <1>1 DEF Succeeds
<1>6. /\ run[n].remaining + sum <= quantity
      /\ \A j \in 1 .. n : j \in Valid(al, keys, now) /\ ~IsFinite(al[keys[j]]) => keys[j] \in run[n].used
  BY <1>3, <1>5 DEF Covered
<1>7. ~(sum >= quantity)
  <2>1. sum \in Int
    BY <1>2, SumType
  <2> HIDE DEF sum
  <2>2. QED
    BY <1>4, <1>5, <1>6, <2>1
<1>8. PICK j \in 1 .. n : j \in Valid(al, keys, now) /\ ~IsFinite(al[keys[j]])
  BY <1>2, <1>7 DEF Countable, Valid
<1>9. QED
  BY <1>6, <1>8

\* The allowances of a grantor can be listed in the order in which they were created.
LEMMA OrdersExist ==
  ASSUME NEW S \in SUBSET Keys, IsFiniteSet(S)
  PROVE  \E s \in SetToSeqs(S) : \A i, j \in DOMAIN s : i < j => s[i].created <= s[j].created
<1> DEFINE Ordered(T, s) ==
             /\ s \in [1 .. Cardinality(T) -> T]
             /\ \A i, j \in 1 .. Cardinality(T) : i # j => s[i] # s[j]
             /\ \A i, j \in 1 .. Cardinality(T) : i < j => s[i].created <= s[j].created
           D == {T \in SUBSET S : ~ \E s : Ordered(T, s)}
<1>1. D = {}
  <2> SUFFICES ASSUME D # {} PROVE FALSE
    OBVIOUS
  <2>1. PICK T \in D : \A R \in D : Cardinality(T) <= Cardinality(R)
    <3>1. \A R \in D : IsFiniteSet(R)
      BY FS_Subset
    <3> HIDE DEF D
    <3>2. QED
      BY <3>1, SmallestSet
  <2>2. T \in SUBSET S /\ IsFiniteSet(T) /\ ~ \E s : Ordered(T, s)
    BY <2>1, FS_Subset
  <2>3. T # {}
    <3>1. ASSUME T = {} PROVE Ordered(T, << >>)
      <4>1. Cardinality(T) = 0 /\ 1 .. 0 = {}
        BY <3>1, FS_EmptySet
      <4>2. << >> \in [1 .. 0 -> T]
        BY <4>1
      <4>3. QED
        BY <4>1, <4>2
    <3> HIDE DEF Ordered
    <3>2. QED
      BY <2>2, <3>1
  <2>4. \A k \in T : k.created \in Nat
    BY <2>2, NumbersAssumption DEF Keys
  <2> DEFINE times == {k.created : k \in T}
  <2>5. times \in SUBSET Nat /\ times # {}
    BY <2>3, <2>4
  <2> HIDE DEF times
  <2>6. PICK t \in times : \A u \in times : t <= u
    BY <2>5, LeastElement
  <2>7. PICK x \in T : x.created = t
    BY <2>6 DEF times
  <2>8. \A k \in T : x.created <= k.created
    BY <2>6, <2>7 DEF times
  <2> DEFINE R == T \ {x}
             n == Cardinality(T)
  <2>9. IsFiniteSet(R) /\ n \in Nat /\ Cardinality(R) = n - 1 /\ n - 1 \in Nat
    BY <2>2, <2>7, Smaller
  <2>10. R \notin D /\ R \in SUBSET S
    <3>1. ~(n <= Cardinality(R))
      BY <2>9
    <3>2. R \in SUBSET S
      BY <2>2
    <3> HIDE DEF R, D
    <3>3. QED
      BY <2>1, <3>1, <3>2
  <2>11. PICK s : Ordered(R, s)
    BY <2>10
  <2>12. /\ s \in [1 .. n - 1 -> R]
         /\ \A i, j \in 1 .. n - 1 : i # j => s[i] # s[j]
         /\ \A i, j \in 1 .. n - 1 : i < j => s[i].created <= s[j].created
    BY <2>9, <2>11
  <2> DEFINE q == [i \in 1 .. n |-> IF i = 1 THEN x ELSE s[i - 1]]
  <2>13. \A i \in 1 .. n : i # 1 => i - 1 \in 1 .. n - 1
    BY <2>9
  <2>14. /\ q \in [1 .. n -> T]
         /\ \A i \in 1 .. n : i = 1 => q[i] = x
         /\ \A i \in 1 .. n : i # 1 => q[i] = s[i - 1] /\ q[i] \in R
    BY <2>7, <2>12, <2>13
  <2> HIDE DEF q
  <2>15. ASSUME NEW i \in 1 .. n, NEW j \in 1 .. n, i # j PROVE q[i] # q[j]
    <3>1. CASE i # 1 /\ j # 1
      <4>1. i - 1 \in 1 .. n - 1 /\ j - 1 \in 1 .. n - 1 /\ i - 1 # j - 1
        BY <2>13, <2>15, <3>1
      <4>2. q[i] = s[i - 1] /\ q[j] = s[j - 1]
        BY <2>14, <3>1
      <4>3. QED
        BY <2>12, <4>1, <4>2
    <3>2. CASE i = 1 \/ j = 1
      BY <2>14, <2>15, <3>2
    <3>3. QED
      BY <3>1, <3>2
  <2>16. ASSUME NEW i \in 1 .. n, NEW j \in 1 .. n, i < j PROVE q[i].created <= q[j].created
    <3>1. CASE i # 1
      <4>1. j # 1 /\ i - 1 \in 1 .. n - 1 /\ j - 1 \in 1 .. n - 1 /\ i - 1 < j - 1
        BY <2>9, <2>16, <3>1
      <4>2. q[i] = s[i - 1] /\ q[j] = s[j - 1]
        BY <2>14, <3>1, <4>1
      <4>3. QED
        BY <2>12, <4>1, <4>2
    <3>2. CASE i = 1
      BY <2>8, <2>14, <3>2
    <3>3. QED
      BY <3>1, <3>2
  <2>17. Ordered(T, q)
    BY <2>14, <2>15, <2>16
  <2> HIDE DEF Ordered
  <2>18. QED
    BY <2>2, <2>17
<1>2. PICK s : Ordered(S, s)
  BY <1>1
<1>3. s \in SetToSeqs(S) /\ DOMAIN s = 1 .. Cardinality(S)
  BY <1>2 DEF SetToSeqs
<1>4. QED
  BY <1>2, <1>3

\* The two checks agree on one instance.
LEMMA UsableAgrees ==
  ASSUME allowances \in Maps, IsFiniteSet(Existing(allowances)), NEW p, NEW owner, NEW now
  PROVE  (\A keys \in FetchAllowances(p, {owner}) : AllowsQuantity(allowances, keys, 1, now))
           <=> ~ \A k \in KeysOf({p}, {owner}) : IsUsedUp(allowances[k], now)
<1> DEFINE S == KeysOf({p}, {owner})
<1>1. \A k : IsUsedUp(allowances[k], now) <=> IsAllowanceInvalid(allowances[k], now)
  BY DEF IsUsedUp, IsAllowanceInvalid, IsAllowanceSpent, IsAllowanceExpired
<1>2. S \in SUBSET Keys /\ IsFiniteSet(S)
  <2>1. S \in SUBSET Existing(allowances)
    BY DEF KeysOf
  <2> HIDE DEF S
  <2>2. QED
    BY <2>1, ExistingSound, FS_Subset
<1>3. ASSUME \A k \in S : IsUsedUp(allowances[k], now)
      PROVE  \E keys \in FetchAllowances(p, {owner}) : ~AllowsQuantity(allowances, keys, 1, now)
  <2>1. PICK keys \in FetchAllowances(p, {owner}) : TRUE
    <3>1. \E s \in SetToSeqs(S) : \A i, j \in DOMAIN s : i < j => s[i].created <= s[j].created
      BY <1>2, OrdersExist
    <3>2. QED
      BY <3>1 DEF FetchAllowances
  <2>2. keys \in KeyLists(allowances, p) /\ \A i \in 1 .. Len(keys) : keys[i] \in S
    BY FetchedKeys
  <2>3. /\ DOMAIN keys = 1 .. Len(keys)
        /\ AllowsQuantity(allowances, keys, 1, now) <=>
             \/ Countable(allowances, keys, now) # Valid(allowances, keys, now)
             \/ SumFunctionOnSet(Counted(allowances, keys, now), 1 .. Len(keys)) >= 1
        /\ Summable(Counted(allowances, keys, now), 1 .. Len(keys))
    BY <2>2, CountedParts
  <2>4. Valid(allowances, keys, now) = {}
    BY <1>1, <1>3, <2>2, <2>3 DEF Valid
  <2>5. Countable(allowances, keys, now) = {}
    BY <2>4 DEF Countable
  <2>6. SumFunctionOnSet(Counted(allowances, keys, now), 1 .. Len(keys)) = 0
    <3>1. \A i \in 1 .. Len(keys) : Counted(allowances, keys, now)[i] = 0
      BY <2>3, <2>5 DEF Counted
    <3>2. QED
      BY <2>3, <3>1, SumOfZeros
  <2>7. QED
    BY <2>3, <2>4, <2>5, <2>6
<1>4. ASSUME NEW k \in S, ~IsUsedUp(allowances[k], now), NEW keys \in FetchAllowances(p, {owner})
      PROVE  AllowsQuantity(allowances, keys, 1, now)
  <2> HIDE DEF S
  <2>1. keys \in KeyLists(allowances, p)
    BY FetchedKeys
  <2>2. PICK i \in 1 .. Len(keys) : keys[i] = k
    <3>1. k \in KeysOf({p}, {owner})
      BY DEF S
    <3>2. \E i \in 1 .. Len(keys) : keys[i] = k
      BY <3>1, FetchedAll
    <3>3. QED
      BY <3>2
  <2> DEFINE v == Counted(allowances, keys, now)
             n == Len(keys)
  <2>3. /\ DOMAIN keys = 1 .. n /\ n \in Nat
        /\ AllowsQuantity(allowances, keys, 1, now) <=>
             \/ Countable(allowances, keys, now) # Valid(allowances, keys, now)
             \/ SumFunctionOnSet(v, 1 .. n) >= 1
        /\ Summable(v, 1 .. n) /\ v \in [1 .. n -> Nat]
    BY <2>1, CountedParts
  <2>4. i \in Valid(allowances, keys, now)
    BY <1>1, <1>4, <2>2, <2>3 DEF Valid
  <2>5. CASE ~IsFinite(allowances[k])
    <3>1. i \notin Countable(allowances, keys, now)
      BY <2>2, <2>5 DEF Countable
    <3>2. QED
      BY <2>3, <2>4, <3>1
  <2>6. CASE IsFinite(allowances[k])
    <3>1. i \in Countable(allowances, keys, now)
      BY <2>2, <2>4, <2>6 DEF Countable
    <3>2. v[i] = Unspent(allowances[k])
      BY <2>2, <2>3, <3>1 DEF Counted
    <3>3. allowances[k] \in SoundAllowances
      BY ExistingSound DEF KeysOf, S
    <3>4. v[i] \in Nat /\ v[i] >= 1
      <4>1. ~(allowances[k].quantitySpent >= allowances[k].quantity)
        BY <1>4, <2>6 DEF IsUsedUp
      <4>2. allowances[k].quantity \in Nat /\ allowances[k].quantitySpent \in Nat
        BY <2>6, <3>3, SoundParts
      <4>3. QED
        BY <3>2, <4>1, <4>2 DEF Unspent
    <3> DEFINE rest == SumFunctionOnSet(v, (1 .. n) \ {i})
    <3> HIDE DEF v, n
    <3>5. SumFunctionOnSet(v, 1 .. n) = v[i] + rest
      BY <2>2, <2>3, SumRemove DEF n
    <3>6. rest \in Nat
      <4>1. Summable(v, (1 .. n) \ {i})
        BY <2>3, SummableSubset
      <4>2. \A j \in (1 .. n) \ {i} : 0 <= v[j]
        BY <2>3
      <4>3. QED
        BY <4>1, <4>2, SumNat
    <3> HIDE DEF rest
    <3>7. v[i] + rest >= 1
      BY <3>4, <3>6
    <3>8. QED
      BY <2>3, <3>5, <3>7
  <2>7. QED
    BY <2>5, <2>6
<1>5. QED
  BY <1>3, <1>4

(***************************************************************************)
(* What a check lets pass succeeds: the quantity that checkAllowances adds *)
(* up is taken in full by useAllowances, and an instance that              *)
(* fullAllowanceCheck does not list as missing can be acted on.            *)
(***************************************************************************)
THEOREM ChecksCorrect == Spec => []ChecksAgree
<1>1. ASSUME Inv PROVE CheckIsEnough
  <2> SUFFICES ASSUME NEW now \in Times, NEW quantity \in 1 .. MaxGrants,
                      NEW permission \in Permissions, NEW source \in Sources,
                      NEW keys \in FetchAllowances(permission, source),
                      AllowsQuantity(allowances, keys, quantity, now)
               PROVE  Succeeds(allowances, UseAllowances(allowances, keys, quantity, now))
    BY DEF CheckIsEnough
  <2>1. allowances \in Maps /\ IsFiniteSet(Existing(allowances))
    BY <1>1 DEF Inv
  <2>2. keys \in KeyLists(allowances, permission)
    BY <2>1, FetchedKeys
  <2>3. quantity \in Nat
    OBVIOUS
  <2>4. QED
    BY <2>1, <2>2, <2>3, EnoughSucceeds
<1>2. ASSUME Inv PROVE FullCheckAgrees
  <2> SUFFICES ASSUME NEW now \in Times, NEW dto \in FullAllowanceCheckDtos
               PROVE  LET owned  == NFTs \cap OwnedFor(dto.owner, dto.locking)
                          usable == {p \in owned : \A keys \in FetchAllowances(p, {dto.owner}) :
                                                     AllowsQuantity(allowances, keys, 1, now)}
                      IN  FullAllowanceCheck(dto, now) = [all |-> usable = owned, missing |-> owned \ usable]
    BY DEF FullCheckAgrees
  <2> DEFINE owned == NFTs \cap OwnedFor(dto.owner, dto.locking)
             usable == {p \in owned : \A keys \in FetchAllowances(p, {dto.owner}) :
                                        AllowsQuantity(allowances, keys, 1, now)}
             missing == MissingAllowances(dto.owner, OwnedFor(dto.owner, dto.locking), now)
  <2>1. allowances \in Maps /\ IsFiniteSet(Existing(allowances))
    BY <1>2 DEF Inv
  <2>2. missing = {p \in owned : \A k \in KeysOf({p}, {dto.owner}) : IsUsedUp(allowances[k], now)}
    BY DEF MissingAllowances
  <2>3. \A p \in owned : p \in usable <=> p \notin missing
    <3>1. ASSUME NEW p \in owned
          PROVE  (\A keys \in FetchAllowances(p, {dto.owner}) : AllowsQuantity(allowances, keys, 1, now))
                   <=> ~ \A k \in KeysOf({p}, {dto.owner}) : IsUsedUp(allowances[k], now)
      BY <2>1, UsableAgrees
    <3> HIDE DEF owned
    <3>2. QED
      BY <2>2, <3>1
  <2>4. usable \subseteq owned /\ missing \subseteq owned
    BY <2>2
  <2> HIDE DEF owned, usable
  <2>5. missing = owned \ usable /\ (missing = {} <=> usable = owned)
    BY <2>3, <2>4
  <2>6. FullAllowanceCheck(dto, now) = [all |-> missing = {}, missing |-> missing]
    BY DEF FullAllowanceCheck
  <2> HIDE DEF missing
  <2>7. (missing = {}) = (usable = owned)
    BY <2>5
  <2>8. FullAllowanceCheck(dto, now) = [all |-> usable = owned, missing |-> owned \ usable]
    BY <2>5, <2>6, <2>7
  <2>9. QED
    BY <2>8 DEF owned, usable
<1>3. Inv => ChecksAgree
  BY <1>1, <1>2 DEF ChecksAgree
<1>4. QED
  BY InvHolds, <1>3, PTL

-----------------------------------------------------------------------------
(* Sorting a finite set by a total order.                                  *)

IsTotalOn(S, leq) ==
  /\ \A x, y \in S : <<x, y>> \in leq \/ <<y, x>> \in leq
  /\ \A x, y, z \in S : <<x, y>> \in leq /\ <<y, z>> \in leq => <<x, z>> \in leq

LEMMA GreatestExists ==
  ASSUME NEW S, IsFiniteSet(S), S # {}, NEW leq, IsTotalOn(S, leq)
  PROVE  \E m \in S : \A x \in S : <<x, m>> \in leq
<1> DEFINE Has1(T) == \E m \in T : \A x \in T : <<x, m>> \in leq
           D == {T \in SUBSET S : T # {} /\ ~Has1(T)}
<1>1. D = {}
  <2> SUFFICES ASSUME D # {} PROVE FALSE
    OBVIOUS
  <2>1. PICK T \in D : \A Q \in D : Cardinality(T) <= Cardinality(Q)
    <3>1. \A Q \in D : IsFiniteSet(Q)
      BY FS_Subset
    <3> HIDE DEF D
    <3>2. QED
      BY <3>1, SmallestSet
  <2>2. PICK x \in T : TRUE
    BY <2>1
  <2>3. T \in SUBSET S /\ IsFiniteSet(T) /\ ~Has1(T)
    BY <2>1, FS_Subset
  <2>4. T \ {x} \notin D
    <3> DEFINE c == Cardinality(T)
               d == Cardinality(T \ {x})
    <3>1. c \in Nat /\ d \in Nat /\ d = c - 1
      BY <2>2, <2>3, Smaller
    <3> HIDE DEF D
    <3>2. T \ {x} \in D => c <= d
      BY <2>1
    <3> HIDE DEF c, d
    <3>3. QED
      BY <3>1, <3>2
  <2>5. <<x, x>> \in leq
    BY <2>2, <2>3 DEF IsTotalOn
  <2>6. CASE T \ {x} = {}
    <3>1. \A y \in T : y = x
      BY <2>6
    <3>2. Has1(T)
      BY <2>2, <2>5, <3>1
    <3>3. QED
      BY <2>3, <3>2
  <2>7. CASE T \ {x} # {}
    <3>1. Has1(T \ {x})
      BY <2>3, <2>4, <2>7
    <3>2. PICK m \in T \ {x} : \A y \in T \ {x} : <<y, m>> \in leq
      BY <3>1
    <3>3. x \in S /\ m \in S /\ \A y \in T : y \in S
      BY <2>2, <2>3
    <3>4. CASE <<x, m>> \in leq
      <4>1. \A y \in T : <<y, m>> \in leq
        BY <3>2, <3>4
      <4>2. QED
        BY <2>3, <4>1
    <3>5. CASE <<m, x>> \in leq
      <4>1. \A y \in T : <<y, x>> \in leq
        BY <2>5, <3>2, <3>3, <3>5 DEF IsTotalOn
      <4>2. QED
        BY <2>2, <2>3, <4>1
    <3>6. QED
      BY <3>3, <3>4, <3>5 DEF IsTotalOn
  <2>8. QED
    BY <2>6, <2>7
<1>2. S \notin D
  BY <1>1
<1>3. QED
  BY <1>2

\* All elements of a set, each of them once, in their order.
Sorted(s, S, leq) ==
  /\ s \in [1 .. Cardinality(S) -> S]
  /\ \A i, j \in 1 .. Cardinality(S) : i < j => s[i] # s[j] /\ <<s[i], s[j]>> \in leq

LEMMA SortExists ==
  ASSUME NEW S, IsFiniteSet(S), NEW leq, IsTotalOn(S, leq)
  PROVE  \E s : Sorted(s, S, leq)
<1> DEFINE D == {T \in SUBSET S : ~\E s : Sorted(s, T, leq)}
<1>1. D = {}
  <2> SUFFICES ASSUME D # {} PROVE FALSE
    OBVIOUS
  <2>1. PICK T \in D : \A Q \in D : Cardinality(T) <= Cardinality(Q)
    <3>1. \A Q \in D : IsFiniteSet(Q)
      BY FS_Subset
    <3> HIDE DEF D
    <3>2. QED
      BY <3>1, SmallestSet
  <2>2. T \in SUBSET S /\ IsFiniteSet(T) /\ ~\E s : Sorted(s, T, leq)
    BY <2>1, FS_Subset
  <2>3. T # {}
    <3>1. ASSUME T = {} PROVE FALSE
      <4>1. Cardinality(T) = 0
        BY <3>1, FS_EmptySet
      <4>2. 1 .. 0 = {}
        OBVIOUS
      <4>3. Sorted([i \in 1 .. 0 |-> i], T, leq)
        BY <4>1, <4>2 DEF Sorted
      <4>4. QED
        BY <2>2, <4>3
    <3>2. QED
      BY <3>1
  <2>4. IsTotalOn(T, leq)
    BY <2>2 DEF IsTotalOn
  <2>5. PICK m \in T : \A x \in T : <<x, m>> \in leq
    BY <2>2, <2>3, <2>4, GreatestExists
  <2> DEFINE R == T \ {m}
             n == Cardinality(T)
  <2>6. n \in Nat /\ Cardinality(R) = n - 1 /\ Cardinality(R) \in Nat
    BY <2>2, <2>5, Smaller
  <2>7. R \notin D
    <3> HIDE DEF D
    <3>1. QED
      BY <2>1, <2>6
  <2>8. PICK r : Sorted(r, R, leq)
    BY <2>2, <2>7
  <2> DEFINE s == [i \in 1 .. n |-> IF i = n THEN m ELSE r[i]]
  <2>9. \A i \in 1 .. n : i # n => i \in 1 .. n - 1
    BY <2>6
  <2>10. /\ r \in [1 .. n - 1 -> R]
         /\ \A i, j \in 1 .. n - 1 : i < j => r[i] # r[j] /\ <<r[i], r[j]>> \in leq
    BY <2>6, <2>8 DEF Sorted
  <2> HIDE DEF n, R
  <2>11. s \in [1 .. n -> T]
    BY <2>5, <2>9, <2>10 DEF R
  <2>12. ASSUME NEW i \in 1 .. n, NEW j \in 1 .. n, i < j
         PROVE  s[i] # s[j] /\ <<s[i], s[j]>> \in leq
    <3>1. i # n /\ i \in 1 .. n - 1 /\ s[i] = r[i] /\ r[i] \in R
      BY <2>6, <2>9, <2>10, <2>12
    <3>2. CASE j = n
      BY <2>5, <3>1, <3>2 DEF R
    <3>3. CASE j # n
      BY <2>9, <2>10, <2>12, <3>1, <3>3
    <3>4. QED
      BY <3>2, <3>3
  <2>13. Sorted(s, T, leq)
    BY <2>11, <2>12 DEF Sorted, n
  <2>14. QED
    BY <2>2, <2>13
<1>2. S \notin D
  BY <1>1
<1>3. QED
  BY <1>2

\* Nothing is left out.
LEMMA SortedAll ==
  ASSUME NEW S, IsFiniteSet(S), NEW leq, NEW s, Sorted(s, S, leq)
  PROVE  /\ s \in Seq(S) /\ Len(s) = Cardinality(S) /\ Cardinality(S) \in Nat
         /\ {s[i] : i \in 1 .. Cardinality(S)} = S
         /\ \A i, j \in 1 .. Cardinality(S) : s[i] = s[j] => i = j
<1> DEFINE n == Cardinality(S)
<1>1. n \in Nat /\ s \in [1 .. n -> S]
  BY FS_CardinalityType DEF Sorted
<1>2. \A i, j \in 1 .. n : s[i] = s[j] => i = j
  <2>1. ASSUME NEW i \in 1 .. n, NEW j \in 1 .. n, i # j PROVE s[i] # s[j]
    <3>1. i < j \/ j < i
      BY <1>1, <2>1
    <3>2. QED
      BY <3>1 DEF Sorted
  <2>2. QED
    BY <2>1
<1>3. s \in Injection(1 .. n, S)
  BY <1>1, <1>2 DEF Injection, IsInjective
<1>4. Cardinality(1 .. n) = Cardinality(S) /\ IsFiniteSet(1 .. n)
  BY <1>1, FS_Interval DEF n
<1> HIDE DEF n
<1>5. s \in Surjection(1 .. n, S)
  BY <1>3, <1>4, FS_Injection
<1>6. {s[i] : i \in 1 .. n} = S
  BY <1>1, <1>5 DEF Surjection
<1>7. s \in Seq(S) /\ Len(s) = n
  BY <1>1
<1>8. QED
  BY <1>1, <1>2, <1>6, <1>7 DEF n

-----------------------------------------------------------------------------
(* The quantities of entries.                                              *)

HasQuantities(E) == IsFiniteSet(E) /\ \A e \in E : e.quantity \in Nat

QuantityOf(E) == [e \in E |-> e.quantity]

LEMMA EntrySum ==
  ASSUME NEW E, HasQuantities(E)
  PROVE  /\ EntryQuantity(E) = SumFunctionOnSet(QuantityOf(E), E)
         /\ Summable(QuantityOf(E), E) /\ \A e \in E : 0 <= QuantityOf(E)[e]
         /\ EntryQuantity(E) \in Nat
<1>1. DOMAIN QuantityOf(E) = E /\ \A e \in E : QuantityOf(E)[e] \in Nat
  BY DEF QuantityOf, HasQuantities
<1>2. Summable(QuantityOf(E), E) /\ \A e \in E : 0 <= QuantityOf(E)[e]
  BY <1>1 DEF Summable, HasQuantities
<1>3. EntryQuantity(E) = SumFunctionOnSet(QuantityOf(E), E)
  BY <1>1 DEF EntryQuantity, SumFunction, QuantityOf
<1>4. QED
  BY <1>2, <1>3, SumNat

\* Of a part of the entries the sum is one over the same quantities.
LEMMA PartSum ==
  ASSUME NEW E, HasQuantities(E), NEW T \in SUBSET E
  PROVE  /\ HasQuantities(T)
         /\ EntryQuantity(T) = SumFunctionOnSet(QuantityOf(E), T)
         /\ Summable(QuantityOf(E), T)
         /\ EntryQuantity(T) \in Nat /\ EntryQuantity(T) <= EntryQuantity(E)
<1>1. HasQuantities(T)
  BY FS_Subset DEF HasQuantities
<1>2. Summable(QuantityOf(E), T)
  BY EntrySum, SummableSubset
<1>3. \A e \in T : QuantityOf(E)[e] = QuantityOf(T)[e]
  BY DEF QuantityOf
<1>4. EntryQuantity(T) = SumFunctionOnSet(QuantityOf(E), T)
  BY <1>1, <1>2, <1>3, EntrySum, SumAgrees
<1>5. EntryQuantity(T) <= EntryQuantity(E)
  BY <1>4, EntrySum, SumSubset
<1>6. QED
  BY <1>1, <1>2, <1>4, <1>5, EntrySum

LEMMA NoEntries == EntryQuantity({}) = 0
<1>1. HasQuantities({})
  BY FS_EmptySet DEF HasQuantities
<1>2. QED
  BY <1>1, EntrySum, SumEmpty

LEMMA LessOne ==
  ASSUME NEW E, HasQuantities(E), NEW e \in E
  PROVE  EntryQuantity(E) = e.quantity + EntryQuantity(E \ {e})
<1>1. EntryQuantity(E) = QuantityOf(E)[e] + SumFunctionOnSet(QuantityOf(E), E \ {e})
  BY EntrySum, SumRemove
<1>2. QuantityOf(E)[e] = e.quantity
  BY DEF QuantityOf
<1>3. EntryQuantity(E \ {e}) = SumFunctionOnSet(QuantityOf(E), E \ {e})
  BY PartSum
<1>4. QED
  BY <1>1, <1>2, <1>3

LEMMA OneEntry ==
  ASSUME NEW e, e.quantity \in Nat
  PROVE  HasQuantities({e}) /\ EntryQuantity({e}) = e.quantity
<1>1. HasQuantities({e})
  BY FS_Singleton DEF HasQuantities
<1>2. {e} \ {e} = {}
  OBVIOUS
<1>3. EntryQuantity({e}) = e.quantity + EntryQuantity({})
  BY <1>1, <1>2, LessOne
<1>4. QED
  BY <1>1, <1>3, NoEntries

\* The quantities of two sets without a common entry add up.
LEMMA BothSums ==
  ASSUME NEW E, NEW F, HasQuantities(E), HasQuantities(F), E \cap F = {}
  PROVE  HasQuantities(E \cup F) /\ EntryQuantity(E \cup F) = EntryQuantity(E) + EntryQuantity(F)
<1>0. HasQuantities(E \cup F)
  BY FS_Union DEF HasQuantities
<1> DEFINE Adds(T) == EntryQuantity(E \cup T) = EntryQuantity(E) + EntryQuantity(T)
           D == {T \in SUBSET F : ~Adds(T)}
<1>1. D = {}
  <2> SUFFICES ASSUME D # {} PROVE FALSE
    OBVIOUS
  <2>1. PICK T \in D : \A Q \in D : Cardinality(T) <= Cardinality(Q)
    <3>1. \A Q \in D : IsFiniteSet(Q)
      BY FS_Subset DEF HasQuantities
    <3> HIDE DEF D
    <3>2. QED
      BY <3>1, SmallestSet
  <2>2. T \in SUBSET F /\ IsFiniteSet(T) /\ HasQuantities(T) /\ ~Adds(T)
    BY <2>1, PartSum, FS_Subset DEF HasQuantities
  <2>3. CASE T = {}
    <3>1. E \cup T = E
      BY <2>3
    <3>2. EntryQuantity(E) \in Nat
      BY EntrySum
    <3>3. Adds(T)
      BY <2>3, <3>1, <3>2, NoEntries
    <3>4. QED
      BY <2>2, <3>3
  <2>4. ASSUME NEW x \in T PROVE FALSE
    <3>1. T \ {x} \notin D
      <4> HIDE DEF D
      <4>1. QED
        BY <2>1, <2>2, Smaller
    <3>2. Adds(T \ {x})
      BY <2>2, <3>1
    <3>3. HasQuantities(E \cup T) /\ x \in E \cup T
      BY <1>0, <2>2, PartSum
    <3>4. (E \cup T) \ {x} = E \cup (T \ {x})
      BY <2>2
    <3>5. EntryQuantity(E \cup T) = x.quantity + EntryQuantity(E \cup (T \ {x}))
      BY <3>3, <3>4, LessOne
    <3>6. EntryQuantity(T) = x.quantity + EntryQuantity(T \ {x})
      BY <2>2, LessOne
    <3>7. EntryQuantity(E) \in Nat /\ EntryQuantity(T \ {x}) \in Nat /\ x.quantity \in Nat
      BY <2>2, EntrySum, PartSum DEF HasQuantities
    <3>8. Adds(T)
      BY <3>2, <3>5, <3>6, <3>7
    <3>9. QED
      BY <2>2, <3>8
  <2>5. QED
    BY <2>3, <2>4
<1>2. F \notin D
  BY <1>1
<1>3. QED
  BY <1>0, <1>2

-----------------------------------------------------------------------------
(* The entries of one kind: at most one of a time and a user.              *)

Entries(t) ==
  [time : 1 .. t, user : MintUsers, quantity : MintQuantities, known : Nat, by : MintUsers]

IsLog(E, t) ==
  /\ IsFiniteSet(E) /\ E \subseteq Entries(t)
  /\ \A e, f \in E : e.time = f.time /\ e.user = f.user => e = f

LEMMA LogEntries ==
  ASSUME NEW t \in Nat, NEW E, IsLog(E, t)
  PROVE  /\ HasQuantities(E)
         /\ \A e \in E : /\ e.time \in 1 .. t /\ e.time \in Nat /\ e.user \in MintUsers /\ e.by \in MintUsers
                         /\ e.quantity \in MintQuantities /\ e.quantity \in Nat /\ e.known \in Nat
<1>1. \A e \in E : /\ e.time \in 1 .. t /\ e.time \in Nat /\ e.user \in MintUsers /\ e.by \in MintUsers
                   /\ e.quantity \in MintQuantities /\ e.quantity \in Nat /\ e.known \in Nat
  BY DEF IsLog, Entries, MintQuantities
<1>2. QED
  BY <1>1 DEF HasQuantities, IsLog

LEMMA PartLog ==
  ASSUME NEW t, NEW E, IsLog(E, t), NEW T \in SUBSET E
  PROVE  IsLog(T, t)
BY FS_Subset DEF IsLog

LEMMA LaterLog ==
  ASSUME NEW t \in Nat, NEW s \in Nat, t <= s, NEW E, IsLog(E, t)
  PROVE  IsLog(E, s)
<1>1. 1 .. t \subseteq 1 .. s
  OBVIOUS
<1>2. Entries(t) \subseteq Entries(s)
  BY <1>1 DEF Entries
<1>3. QED
  BY <1>2 DEF IsLog

\* The order of the chain keys is one of all entries.
LEMMA Oldest ==
  ASSUME NEW t \in Nat, NEW E, IsLog(E, t)
  PROVE  /\ OldestFirst(E) \in Seq(E)
         /\ Len(OldestFirst(E)) = Cardinality(E) /\ Cardinality(E) \in Nat
         /\ {OldestFirst(E)[i] : i \in 1 .. Cardinality(E)} = E
         /\ \A i, j \in 1 .. Cardinality(E) : i < j => Before(OldestFirst(E)[i], OldestFirst(E)[j])
<1> DEFINE leq == {p \in E \X E : p[1] = p[2] \/ Before(p[1], p[2])}
           n == Cardinality(E)
           Good(s) == s \in [1 .. n -> E] /\ \A i, j \in 1 .. n : i < j => Before(s[i], s[j])
<1>1. \A e \in E : e.time \in Nat /\ e.user \in MintUsers /\ Rank[e.user] \in Nat
  BY LogEntries, MintAssumption
<1>2. \A e, f \in E : <<e, f>> \in leq <=> e = f \/ Before(e, f)
  OBVIOUS
<1> HIDE DEF leq
<1>3. IsTotalOn(E, leq)
  <2>1. ASSUME NEW e \in E, NEW f \in E PROVE e = f \/ Before(e, f) \/ Before(f, e)
    <3>1. e.time < f.time \/ f.time < e.time \/ e.time = f.time
      BY <1>1
    <3>2. Rank[e.user] < Rank[f.user] \/ Rank[f.user] < Rank[e.user] \/ Rank[e.user] = Rank[f.user]
      BY <1>1
    <3>3. Rank[e.user] = Rank[f.user] => e.user = f.user
      BY <1>1, MintAssumption
    <3>4. e.time = f.time /\ e.user = f.user => e = f
      BY DEF IsLog
    <3>5. QED
      BY <3>1, <3>2, <3>3, <3>4 DEF Before
  <2>2. ASSUME NEW e \in E, NEW f \in E, NEW g \in E, Before(e, f), Before(f, g) PROVE Before(e, g)
    <3> DEFINE a == Rank[e.user]
               b == Rank[f.user]
               c == Rank[g.user]
    <3>1. a \in Nat /\ b \in Nat /\ c \in Nat /\ e.time \in Nat /\ f.time \in Nat /\ g.time \in Nat
      BY <1>1
    <3>2. e.time < f.time \/ (e.time = f.time /\ a < b)
      BY <2>2 DEF Before
    <3>3. f.time < g.time \/ (f.time = g.time /\ b < c)
      BY <2>2 DEF Before
    <3> HIDE DEF a, b, c
    <3>4. e.time < g.time \/ (e.time = g.time /\ a < c)
      BY <3>1, <3>2, <3>3
    <3>5. QED
      BY <3>4 DEF Before, a, c
  <2>3. QED
    BY <1>2, <2>1, <2>2 DEF IsTotalOn
<1>4. IsFiniteSet(E)
  BY DEF IsLog
<1>5. PICK s : Sorted(s, E, leq)
  BY <1>3, <1>4, SortExists
<1>6. Good(s)
  <2>1. ASSUME NEW i \in 1 .. n, NEW j \in 1 .. n, i < j PROVE Before(s[i], s[j])
    <3>1. s[i] # s[j] /\ <<s[i], s[j]>> \in leq /\ s[i] \in E /\ s[j] \in E
      BY <1>5, <2>1 DEF Sorted
    <3>2. QED
      BY <1>2, <3>1
  <2>2. QED
    BY <1>5, <2>1 DEF Sorted
<1> DEFINE o == CHOOSE r \in [1 .. n -> E] : \A i, j \in DOMAIN r : i < j => Before(r[i], r[j])
<1>7. o \in [1 .. n -> E] /\ \A i, j \in DOMAIN o : i < j => Before(o[i], o[j])
  <2>1. \E r \in [1 .. n -> E] : \A i, j \in DOMAIN r : i < j => Before(r[i], r[j])
    <3>1. s \in [1 .. n -> E] /\ DOMAIN s = 1 .. n
      BY <1>6
    <3>2. QED
      BY <1>6, <3>1
  <2> HIDE DEF n
  <2>2. QED
    BY <2>1
<1>8. OldestFirst(E) = o
  BY DEF OldestFirst
<1> HIDE DEF o
<1>9. Good(o)
  BY <1>7
<1>10. Sorted(o, E, leq)
  <2>1. ASSUME NEW i \in 1 .. n, NEW j \in 1 .. n, i < j
        PROVE  o[i] # o[j] /\ <<o[i], o[j]>> \in leq
    <3>1. o[i] \in E /\ o[j] \in E /\ Before(o[i], o[j])
      BY <1>9, <2>1
    <3>2. ~Before(o[i], o[i])
      BY <1>1, <3>1 DEF Before
    <3>3. QED
      BY <1>2, <3>1, <3>2
  <2>2. QED
    BY <1>9, <2>1 DEF Sorted
<1>11. o \in Seq(E) /\ Len(o) = n /\ n \in Nat /\ {o[i] : i \in 1 .. n} = E
  BY <1>4, <1>10, SortedAll
<1>12. \A i, j \in 1 .. n : i < j => Before(o[i], o[j])
  BY <1>9
<1>13. QED
  BY <1>8, <1>11, <1>12

-----------------------------------------------------------------------------
(* What a reader of the entries knows.                                     *)

LEMMA MaxOfTwo ==
  ASSUME NEW m \in Int, NEW n \in Int
  PROVE  /\ Max({m, n}) \in Int /\ Max({m, n}) >= m /\ Max({m, n}) >= n
         /\ Max({m, n}) = m \/ Max({m, n}) = n
<1>1. \E x \in {m, n} : \A y \in {m, n} : x >= y
  <2>1. m >= n \/ n >= m
    OBVIOUS
  <2>2. QED
    BY <2>1
<1>2. Max({m, n}) \in {m, n} /\ \A y \in {m, n} : Max({m, n}) >= y
  BY <1>1 DEF Max
<1>3. QED
  BY <1>2

UpToTime(E, upTo) == {e \in E : e.time <= upTo}

\* What is read is a part of the entries; all of them, if they are few.
LEMMA KnownIs ==
  ASSUME NEW t \in Nat, NEW E, IsLog(E, t), NEW upTo
  PROVE  LET T == UpToTime(E, upTo)
         IN  \/ T = {} /\ KnownSupply(E, upTo) = 0
             \/ \E first \in T, R \in SUBSET T :
                  /\ KnownSupply(E, upTo) = first.known + EntryQuantity(R)
                  /\ Cardinality(T) <= LookbackTx =>
                       first = OldestFirst(T)[1] /\ R = T
<1> DEFINE T == UpToTime(E, upTo)
           range == OldestFirst(T)
           n == Cardinality(T)
           from == Max({1, n - LookbackTx + 1})
           read == SubSeq(range, from, n)
           R == {read[i] : i \in DOMAIN read}
<1>1. IsLog(T, t) /\ LookbackTx \in Nat \ {0}
  BY PartLog, LookbackAssumption DEF UpToTime
<1>2. /\ range \in Seq(T) /\ Len(range) = n /\ n \in Nat
      /\ {range[i] : i \in 1 .. n} = T
  BY <1>1, Oldest
<1> HIDE DEF T
<1>3. KnownSupply(E, upTo) = IF read = << >> THEN 0 ELSE read[1].known + EntryQuantity(R)
  BY <1>2 DEF KnownSupply, UpToTime, T
<1> HIDE DEF range
<1>4. from \in Int /\ from >= 1 /\ from >= n - LookbackTx + 1 /\ (from = 1 \/ from = n - LookbackTx + 1)
  <2> DEFINE m == n - LookbackTx + 1
  <2>1. m \in Int /\ 1 \in Int
    BY <1>1, <1>2
  <2> HIDE DEF m, n
  <2>2. /\ Max({1, m}) \in Int /\ Max({1, m}) >= 1 /\ Max({1, m}) >= m
        /\ Max({1, m}) = 1 \/ Max({1, m}) = m
    BY <2>1, MaxOfTwo
  <2>3. from = Max({1, m})
    BY DEF m, n
  <2> HIDE DEF from
  <2>4. from \in Int /\ from >= 1 /\ from >= m /\ (from = 1 \/ from = m)
    BY <2>2, <2>3
  <2>5. QED
    BY <2>4 DEF m
<1> HIDE DEF from
<1>5. \A i \in from .. n : range[i] \in T
  BY <1>2, <1>4
<1>6. /\ read \in Seq(T) /\ Len(read) = (IF from <= n THEN n - from + 1 ELSE 0)
      /\ \A i \in 1 .. n - from + 1 : read[i] = range[from + i - 1]
  <2>1. from \in Int /\ n \in Int /\ \A i \in from .. n : range[i] \in T
    BY <1>2, <1>4, <1>5
  <2> HIDE DEF n
  <2>2. QED
    BY <2>1, SubSeqProperties
<1> HIDE DEF read
<1>7. CASE n = 0
  <2>1. T = {}
    BY <1>2, <1>7
  <2>2. Len(read) = 0
    BY <1>4, <1>6, <1>7
  <2>3. read = << >>
    BY <1>6, <2>2
  <2>4. QED
    BY <1>3, <2>1, <2>3 DEF T
<1>8. CASE n # 0
  <2>1. from <= n
    BY <1>1, <1>2, <1>4, <1>8
  <2>2. Len(read) = n - from + 1 /\ n - from + 1 >= 1 /\ n - from + 1 \in Nat
    BY <1>2, <1>4, <1>6, <2>1
  <2>3. read # << >> /\ DOMAIN read = 1 .. n - from + 1
    BY <1>6, <2>2
  <2>4. read[1] = range[from] /\ read[1] \in T
    <3>1. 1 \in 1 .. n - from + 1 /\ from + 1 - 1 = from
      BY <1>4, <2>2
    <3>2. QED
      BY <1>5, <1>6, <3>1, <1>4, <2>1
  <2>5. R \in SUBSET T
    BY <1>6
  <2>6. KnownSupply(E, upTo) = read[1].known + EntryQuantity(R)
    BY <1>3, <2>3
  <2>7. ASSUME n <= LookbackTx PROVE read[1] = range[1] /\ R = T
    <3>1. from = 1
      BY <1>1, <1>2, <1>4, <2>7
    <3>2. DOMAIN read = 1 .. n /\ \A i \in 1 .. n : read[i] = range[i]
      BY <1>2, <1>6, <2>3, <3>1
    <3>3. QED
      BY <1>2, <2>4, <3>1, <3>2
  <2> HIDE DEF R
  <2>8. QED
    BY <2>4, <2>5, <2>6, <2>7 DEF T, range, n
<1>9. QED
  BY <1>7, <1>8

LEMMA KnownIsNat ==
  ASSUME NEW t \in Nat, NEW E, IsLog(E, t), NEW upTo
  PROVE  KnownSupply(E, upTo) \in Nat
<1> DEFINE T == UpToTime(E, upTo)
<1>1. IsLog(T, t)
  BY PartLog DEF UpToTime
<1>2. HasQuantities(T) /\ \A e \in T : e.known \in Nat
  BY <1>1, LogEntries
<1>3. \/ KnownSupply(E, upTo) = 0
      \/ \E first \in T, R \in SUBSET T : KnownSupply(E, upTo) = first.known + EntryQuantity(R)
  BY KnownIs
<1> HIDE DEF T
<1>4. \A R \in SUBSET T : EntryQuantity(R) \in Nat
  BY <1>2, PartSum
<1>5. QED
  BY <1>2, <1>3, <1>4

LEMMA RunningIsNat ==
  ASSUME NEW E, HasQuantities(E), NEW baseline \in Nat, NEW e
  PROVE  RunningTotal(E, baseline, e) \in Nat
<1> DEFINE B == {f \in E : Before(f, e)}
<1>1. B \in SUBSET E
  OBVIOUS
<1> HIDE DEF B
<1>2. EntryQuantity(B) \in Nat
  BY <1>1, PartSum
<1>3. QED
  BY <1>2 DEF RunningTotal, B

\* The entry that is put takes the place of one of the same key, if there is one.
LEMMA PutIsLog ==
  ASSUME NEW t \in Nat, NEW E, IsLog(E, t), NEW e \in Entries(t)
  PROVE  IsLog(PutRanged(E, e), t)
<1> DEFINE rest == {f \in E : <<f.time, f.user>> # <<e.time, e.user>>}
<1>1. rest \in SUBSET E
  OBVIOUS
<1>2. IsLog(rest, t)
  BY <1>1, PartLog
<1>3. \A f \in rest : ~(f.time = e.time /\ f.user = e.user)
  OBVIOUS
<1> HIDE DEF rest
<1>4. IsFiniteSet(rest \cup {e})
  BY <1>2, FS_AddElement DEF IsLog
<1>5. IsLog(rest \cup {e}, t)
  BY <1>2, <1>3, <1>4 DEF IsLog
<1>6. QED
  BY <1>5 DEF PutRanged, rest

\* Requests of one call.
LEMMA PutAllIsLog ==
  ASSUME NEW t \in Nat, NEW E, IsLog(E, t), NEW requests, IsLog(requests, t)
  PROVE  IsLog(PutRequests(E, requests), t)
<1> DEFINE rest == {e \in E : \A r \in requests : <<e.time, e.user>> # <<r.time, r.user>>}
<1>1. rest \in SUBSET E
  OBVIOUS
<1>2. IsLog(rest, t)
  BY <1>1, PartLog
<1>3. \A e \in rest : \A r \in requests : ~(e.time = r.time /\ e.user = r.user)
  OBVIOUS
<1> HIDE DEF rest
<1>4. IsFiniteSet(rest \cup requests)
  BY <1>2, FS_Union DEF IsLog
<1>5. IsLog(rest \cup requests, t)
  BY <1>2, <1>3, <1>4 DEF IsLog
<1>6. QED
  BY <1>5 DEF PutRequests, rest

\* They are later than all others, which stay.
LEMMA PutLater ==
  ASSUME NEW t \in Nat, NEW s \in Nat, t < s, NEW E, IsLog(E, t), NEW requests,
         \A r \in requests : r.time = s
  PROVE  /\ PutRequests(E, requests) = E \cup requests
         /\ E \cap requests = {}
<1>1. \A e \in E : e.time < s
  BY LogEntries
<1>2. QED
  BY <1>1 DEF PutRequests

LEMMA PutOneLater ==
  ASSUME NEW t \in Nat, NEW s \in Nat, t < s, NEW E, IsLog(E, t), NEW e, e.time = s
  PROVE  PutRanged(E, e) = E \cup {e} /\ e \notin E
<1>1. \A f \in E : f.time < s
  BY LogEntries
<1>2. QED
  BY <1>1 DEF PutRanged

\* Requests of users: their entries are as many as the users.
LEMMA NewAreLog ==
  ASSUME NEW t \in Nat \ {0}, NEW grants \in GrantAllowanceQuantities, NEW by \in MintUsers, NEW known \in Nat
  PROVE  LET requests == NewRequests(grants, by, known, t)
         IN  /\ IsLog(requests, t)
             /\ \A e \in requests : e.time = t /\ e.by = by /\ e.known = known
             /\ \E u \in MintUsers : u \in DOMAIN grants
<1> DEFINE requests == NewRequests(grants, by, known, t)
           U == DOMAIN grants
           Entry(u) == [time |-> t, user |-> u, quantity |-> grants[u], known |-> known, by |-> by]
           f == [u \in U |-> Entry(u)]
<1>1. PICK users \in (SUBSET MintUsers) \ {{}} : grants \in [users -> MintQuantities]
  BY DEF GrantAllowanceQuantities
<1>2. U \in SUBSET MintUsers /\ U # {} /\ \A u \in U : grants[u] \in MintQuantities
  BY <1>1
<1>3. IsFiniteSet(U)
  BY <1>2, MintAssumption, FS_Subset
<1> HIDE DEF U
<1>4. requests = {Entry(u) : u \in U}
  BY DEF NewRequests, U
<1>5. \A u \in U : Entry(u) \in Entries(t)
  <2>1. t \in 1 .. t
    OBVIOUS
  <2>2. QED
    BY <1>2, <2>1 DEF Entries
<1>6. \A e \in requests : e.time = t /\ e.by = by /\ e.known = known /\ e \in Entries(t)
  BY <1>4, <1>5
<1>7. \A d, e \in requests : d.user = e.user => d = e
  <2>1. \A e \in requests : e.user \in U /\ e = Entry(e.user)
    BY <1>4
  <2> HIDE DEF Entry, requests
  <2>2. QED
    BY <2>1
<1>8. IsFiniteSet(requests)
  <2>1. f \in Surjection(U, requests)
    <3>1. \A u \in U : f[u] = Entry(u)
      OBVIOUS
    <3>2. f \in [U -> requests]
      BY <1>4
    <3>3. \A e \in requests : \E u \in U : f[u] = e
      BY <1>4, <3>1
    <3> HIDE DEF f, requests, Entry
    <3>4. QED
      BY <3>2, <3>3 DEF Surjection
  <2> HIDE DEF f, requests
  <2>2. QED
    BY <1>3, <2>1, FS_Surjection
<1> HIDE DEF requests
<1>9. IsLog(requests, t)
  BY <1>6, <1>7, <1>8 DEF IsLog
<1>10. QED
  BY <1>2, <1>6, <1>9 DEF requests, U

-----------------------------------------------------------------------------
(* The mint allowances of the users and what is left of them.              *)

SoundMints == {a \in MintAllowances : Unspent(a) \in Nat}

MintMaps == MapsOf(MintKeys, SoundMints)

GrantedBy(g) == {k \in MintKeys : k.grantedBy \in g}

MintsLeft(held, g) ==
  SumFunctionOnSet([u \in MintUsers |-> Worth(held[u], GrantedBy(g))], MintUsers)

LEMMA SoundMintParts ==
  ASSUME NEW a \in SoundMints
  PROVE  /\ a \in MintAllowances /\ a # NoAllowance /\ IsFinite(a) /\ Unspent(a) \in Nat
         /\ a.quantity \in Nat /\ a.quantitySpent \in Nat /\ a.uses \in Nat
         /\ a.usesSpent \in Nat /\ a.expires \in Nat
         /\ a = [quantity |-> a.quantity, quantitySpent |-> a.quantitySpent,
                 uses |-> a.uses, usesSpent |-> a.usesSpent, expires |-> a.expires]
<1>1. a \in MintAllowances /\ Unspent(a) \in Nat /\ a # NoAllowance
  BY MintAssumption DEF SoundMints
<1>2. /\ a.quantity \in Nat /\ a.quantitySpent \in Nat /\ a.uses \in Nat
      /\ a.usesSpent \in Nat /\ a.expires \in Nat
      /\ a = [quantity |-> a.quantity, quantitySpent |-> a.quantitySpent,
              uses |-> a.uses, usesSpent |-> a.usesSpent, expires |-> a.expires]
  BY <1>1 DEF MintAllowances
<1>3. IsFinite(a)
  BY <1>2, MintAssumption DEF IsFinite
<1>4. QED
  BY <1>1, <1>2, <1>3

LEMMA MintsAreSound ==
  /\ Sound(SoundMints) /\ IsFiniteSet(MintKeys)
  /\ \A now \in Nat : Usable(SoundMints, now)
<1>1. Sound(SoundMints)
  BY SoundMintParts DEF Sound
<1>2. ASSUME NEW now \in Nat, NEW a \in SoundMints, NEW taken \in Nat, taken <= Unspent(a)
      PROVE  LeavesUsable(SoundMints, now, a, taken)
  <2> DEFINE after == [a EXCEPT !.quantitySpent = @ + taken, !.usesSpent = @ + 1]
             late  == [after EXCEPT !.expires = now]
  <2>1. /\ a \in MintAllowances /\ a.quantity \in Nat /\ a.quantitySpent \in Nat /\ a.usesSpent \in Nat
        /\ Unspent(a) \in Nat
    BY SoundMintParts
  <2>2. after \in MintAllowances
    <3> DEFINE x == a.quantitySpent + taken
               y == a.usesSpent + 1
    <3>1. x \in Nat /\ y \in Nat
      BY <2>1
    <3>2. after = [a EXCEPT !.quantitySpent = x, !.usesSpent = y]
      OBVIOUS
    <3> HIDE DEF x, y, after
    <3>3. QED
      BY <2>1, <3>1, <3>2 DEF MintAllowances
  <2>3. after.quantity = a.quantity /\ after.quantitySpent = a.quantitySpent + taken
    BY <2>1 DEF MintAllowances
  <2> HIDE DEF after
  <2>4. late \in MintAllowances /\ late.quantity = after.quantity /\ late.quantitySpent = after.quantitySpent
    BY <2>2 DEF MintAllowances
  <2> HIDE DEF late
  <2>5. Unspent(after) = Unspent(a) - taken /\ Unspent(late) = Unspent(a) - taken /\ Unspent(a) - taken \in Nat
    BY <1>2, <2>1, <2>3, <2>4 DEF Unspent
  <2>6. after \in SoundMints /\ late \in SoundMints
    BY <2>2, <2>4, <2>5 DEF SoundMints
  <2>7. QED
    BY <2>5, <2>6, SoundMintParts DEF late, after, LeavesUsable
<1>3. \A now \in Nat : Usable(SoundMints, now)
  BY <1>2 DEF Usable
<1>4. IsFiniteSet(MintKeys)
  <2> DEFINE P == MintUsers \X MintTimes
             f == [p \in P |-> [grantedBy |-> p[1], created |-> p[2]]]
  <2>1. IsFiniteSet(P)
    <3>1. IsFiniteSet(MintTimes)
      BY MintAssumption, FS_Interval DEF MintTimes
    <3>2. QED
      BY <3>1, MintAssumption, FS_Product
  <2>2. f \in Surjection(P, MintKeys)
    <3>1. \A p \in P : f[p] \in MintKeys
      BY DEF MintKeys
    <3>2. f \in [P -> MintKeys]
      BY <3>1
    <3>3. ASSUME NEW k \in MintKeys PROVE \E p \in P : f[p] = k
      <4>1. k = [grantedBy |-> k.grantedBy, created |-> k.created] /\ <<k.grantedBy, k.created>> \in P
        BY DEF MintKeys
      <4>2. f[<<k.grantedBy, k.created>>] = k
        BY <4>1
      <4>3. QED
        BY <4>1, <4>2
    <3> HIDE DEF f, P
    <3>4. QED
      BY <3>2, <3>3 DEF Surjection
  <2> HIDE DEF f, P
  <2>3. QED
    BY <2>1, <2>2, FS_Surjection
<1>5. QED
  BY <1>1, <1>3, <1>4

LEMMA MapWorth ==
  ASSUME NEW al \in MintMaps, NEW X
  PROVE  Worth(al, X) \in Nat /\ IsFiniteSet(Existing(al)) /\ Existing(al) \subseteq MintKeys
<1>1. Existing(al) \in SUBSET MintKeys
  BY ExistingIn DEF MintMaps
<1>2. IsFiniteSet(Existing(al))
  BY <1>1, MintsAreSound, FS_Subset
<1>3. QED
  BY <1>1, <1>2, MintsAreSound, WorthType DEF MintMaps

LEMMA LeftSummable ==
  ASSUME NEW held \in [MintUsers -> MintMaps], NEW X
  PROVE  LET f == [u \in MintUsers |-> Worth(held[u], X)]
         IN  /\ Summable(f, MintUsers) /\ \A u \in MintUsers : f[u] = Worth(held[u], X) /\ 0 <= f[u]
             /\ SumFunctionOnSet(f, MintUsers) \in Nat
<1> DEFINE f == [u \in MintUsers |-> Worth(held[u], X)]
<1>1. \A u \in MintUsers : f[u] = Worth(held[u], X) /\ f[u] \in Nat
  BY MapWorth
<1> HIDE DEF f
<1>2. Summable(f, MintUsers) /\ \A u \in MintUsers : 0 <= f[u]
  BY <1>1, MintAssumption DEF Summable
<1>3. SumFunctionOnSet(f, MintUsers) \in Nat
  BY <1>2, SumNat
<1>4. QED
  BY <1>1, <1>2, <1>3 DEF f

\* Where one user's allowances change, the difference is theirs.
LEMMA LeftAtOne ==
  ASSUME NEW held \in [MintUsers -> MintMaps], NEW after \in [MintUsers -> MintMaps],
         NEW x \in MintUsers, \A u \in MintUsers \ {x} : after[u] = held[u], NEW g
  PROVE  /\ MintsLeft(after, g) = MintsLeft(held, g)
                                    + (Worth(after[x], GrantedBy(g)) - Worth(held[x], GrantedBy(g)))
         /\ MintsLeft(held, g) \in Nat /\ MintsLeft(after, g) \in Nat
<1> DEFINE X == GrantedBy(g)
           f == [u \in MintUsers |-> Worth(held[u], X)]
           h == [u \in MintUsers |-> Worth(after[u], X)]
<1>1. /\ Summable(f, MintUsers) /\ SumFunctionOnSet(f, MintUsers) \in Nat
      /\ SumFunctionOnSet(h, MintUsers) \in Nat
  BY LeftSummable
<1>2. Worth(after[x], X) \in Int
  BY MapWorth
<1>3. h[x] = Worth(after[x], X) /\ f[x] = Worth(held[x], X) /\ \A u \in MintUsers \ {x} : h[u] = f[u]
  OBVIOUS
<1>4. MintsLeft(held, g) = SumFunctionOnSet(f, MintUsers) /\ MintsLeft(after, g) = SumFunctionOnSet(h, MintUsers)
  BY DEF MintsLeft
<1> HIDE DEF f, h, X
<1>5. SumFunctionOnSet(h, MintUsers) = SumFunctionOnSet(f, MintUsers) + (h[x] - f[x])
  BY <1>1, <1>2, <1>3, SumUpdate
<1>6. QED
  BY <1>1, <1>3, <1>4, <1>5 DEF X

\* What the model adds up is that sum.
LEMMA UnspentIsLeft ==
  ASSUME NEW held \in [MintUsers -> MintMaps], NEW g
  PROVE  UnspentMints(held, g) = MintsLeft(held, g)
<1> DEFINE X == GrantedBy(g)
           Of(u) == {k \in Existing(held[u]) : k.grantedBy \in g}
           Sums(u) == SumFunction([k \in Of(u) |-> Unspent(held[u][k])])
<1>1. ASSUME NEW u \in MintUsers PROVE Sums(u) = Worth(held[u], X)
  <2> DEFINE al == held[u]
             E == Existing(al)
             F == Of(u)
             f == [k \in F |-> Unspent(al[k])]
  <2>1. al \in MintMaps
    OBVIOUS
  <2>2. E \in SUBSET MintKeys /\ F \in SUBSET E /\ \A k \in E : al[k] \in SoundMints
    BY <2>1, ExistingIn DEF MintMaps
  <2>3. Sums(u) = SumFunctionOnSet(f, F)
    <3>1. DOMAIN f = F
      OBVIOUS
    <3>2. QED
      BY <3>1 DEF SumFunction
  <2>4. \A k \in F : f[k] = Value(al, X)[k]
    <3>1. ASSUME NEW k \in F PROVE f[k] = Value(al, X)[k]
      <4>1. al[k] \in SoundMints /\ k \in MintKeys /\ k.grantedBy \in g /\ k \in DOMAIN al
        BY <2>2 DEF Existing
      <4>2. IsFinite(al[k]) /\ al[k] # NoAllowance /\ k \in X
        BY <4>1, SoundMintParts DEF GrantedBy
      <4>3. QED
        BY <4>1, <4>2 DEF Value
    <3>2. QED
      BY <3>1
  <2>5. \A k \in E \ F : Value(al, X)[k] = 0
    <3>1. ASSUME NEW k \in E \ F PROVE Value(al, X)[k] = 0
      <4>1. k \notin X /\ k \in DOMAIN al
        BY <2>2 DEF GrantedBy, Existing
      <4>2. QED
        BY <4>1 DEF Value
    <3>2. QED
      BY <3>1
  <2> HIDE DEF f, F, E, al, X
  <2>6. Summable(Value(al, X), E)
    <3>1. IsFiniteSet(E)
      BY <2>1, MapWorth DEF E
    <3>2. QED
      BY <2>1, <2>2, <3>1, MintsAreSound, WorthOver DEF MintMaps, E
  <2>7. Worth(al, X) = SumFunctionOnSet(Value(al, X), F)
    BY <2>2, <2>5, <2>6, SumWithoutZeros DEF Worth, E
  <2>8. Summable(Value(al, X), F)
    BY <2>2, <2>6, SummableSubset
  <2>9. SumFunctionOnSet(Value(al, X), F) = SumFunctionOnSet(f, F)
    BY <2>4, <2>8, SumAgrees
  <2>10. QED
    BY <2>3, <2>7, <2>9 DEF al
<1>2. [u \in MintUsers |-> Sums(u)] = [u \in MintUsers |-> Worth(held[u], X)]
  <2> HIDE DEF Sums
  <2>1. QED
    BY <1>1
<1> DEFINE s == [u \in MintUsers |-> Sums(u)]
<1>3. UnspentMints(held, g) = SumFunctionOnSet(s, MintUsers)
  <2>1. DOMAIN s = MintUsers
    OBVIOUS
  <2>2. UnspentMints(held, g) = SumFunction(s)
    BY DEF UnspentMints
  <2> HIDE DEF s
  <2>3. QED
    BY <2>1, <2>2 DEF SumFunction
<1>4. QED
  BY <1>2, <1>3 DEF MintsLeft

\* What a use notes as used are allowances that there were.
LEMMA UsedExist ==
  ASSUME NEW K, NEW S, NEW now, Sound(S), Usable(S, now), NEW al \in MapsOf(K, S), NEW X,
         NEW keys \in KeysIn(al, X), NEW quantity \in Nat
  PROVE  UseAllowances(al, keys, quantity, now).used \subseteq Existing(al)
<1> DEFINE n == Len(keys)
<1>1. PICK run : RunOf(run, ResultsOf(K, S), al, keys, quantity, now) /\ UseAllowances(al, keys, quantity, now) = run[n]
  BY AnyRunExists
<1>2. n \in Nat /\ \A j \in 1 .. n : keys[j] \in Existing(al)
  BY DEF KeysIn
<1> DEFINE P == {i \in 0 .. n : run[i].used \subseteq Existing(al)}
<1>3. 0 \in P
  BY <1>1, <1>2 DEF RunOf, StartOf
<1>4. ASSUME NEW i \in 1 .. n, i - 1 \in P PROVE i \in P
  <2> DEFINE acc == run[i - 1]
             turn == run[i]
             x == keys[i]
  <2>1. i \in 0 .. n /\ i - 1 \in 0 .. n
    BY <1>2
  <2>2. acc \in ResultsOf(K, S) /\ turn = UseAllowance(acc, x, al[x], now)
    BY <1>1, <2>1 DEF RunOf
  <2>3. x \in Existing(al) /\ x \in K /\ al[x] \in S
    BY <1>2, ExistingIn
  <2>4. \/ Skips(turn, acc, al[x], now) \/ Notes(turn, acc, x, al[x])
        \/ \E taken \in Nat : Takes(turn, acc, x, al[x], taken)
    <3> HIDE DEF acc, turn, x
    <3>1. QED
      BY <2>2, <2>3, AnyTurn
  <2>5. turn.used \subseteq acc.used \cup {x}
    BY <2>4 DEF Skips, Notes, Takes
  <2>6. acc.used \subseteq Existing(al)
    BY <1>4
  <2>7. QED
    BY <2>1, <2>3, <2>5, <2>6
<1> HIDE DEF P, n
<1>5. \A i \in 0 .. n : i \in P
  BY <1>2, <1>3, <1>4, UpTo
<1>6. run[n].used \subseteq Existing(al)
  BY <1>2, <1>5 DEF P
<1>7. QED
  BY <1>1, <1>6

-----------------------------------------------------------------------------
(* Grants.                                                                 *)

LEMMA NewMintIsSound ==
  ASSUME NEW quantity \in Nat, NEW uses \in Nat
  PROVE  /\ NewAllowance(quantity, uses, 0) \in SoundMints
         /\ Unspent(NewAllowance(quantity, uses, 0)) = quantity
<1>1. NewAllowance(quantity, uses, 0) \in MintAllowances
  BY DEF NewAllowance, MintAllowances
<1>2. Unspent(NewAllowance(quantity, uses, 0)) = quantity
  BY DEF NewAllowance, Unspent
<1>3. QED
  BY <1>1, <1>2 DEF SoundMints

\* Of the keys that count, one more or one that is replaced.
LEMMA WorthAtKey ==
  ASSUME NEW al \in MintMaps, NEW after \in MintMaps, NEW k \in MintKeys, NEW a \in SoundMints,
         after[k] = a, \A j \in MintKeys \ {k} : after[j] = al[j], NEW X
  PROVE  Worth(after, X) <= Worth(al, X) + Unspent(a)
<1>0. al \in MapsOf(MintKeys, SoundMints) /\ after \in MapsOf(MintKeys, SoundMints)
  BY DEF MintMaps
<1>1. DOMAIN al = MintKeys /\ DOMAIN after = MintKeys
  BY <1>0 DEF MapsOf
<1>2. \A j \in MintKeys \ {k} : Value(after, X)[j] = Value(al, X)[j]
  BY <1>1 DEF Value
<1>3. Worth(after, X) = Worth(al, X) + (Value(after, X)[k] - Value(al, X)[k])
  BY <1>0, <1>2, MapWorth, MintsAreSound, WorthUpdate
<1>4. Unspent(a) \in Nat
  BY SoundMintParts
<1>5. Value(after, X)[k] <= Unspent(a)
  BY <1>1, <1>4 DEF Value
<1>6. Value(al, X)[k] \in Nat /\ Value(after, X)[k] \in Nat
  BY <1>0, MintsAreSound, ValueType
<1>7. Worth(al, X) \in Nat /\ Worth(after, X) \in Nat
  BY MapWorth
<1> DEFINE wa == Worth(al, X)
           wb == Worth(after, X)
           va == Value(al, X)[k]
           vb == Value(after, X)[k]
           q == Unspent(a)
<1>8. wb = wa + (vb - va) /\ vb <= q /\ va \in Nat /\ vb \in Nat /\ q \in Nat /\ wa \in Nat
  BY <1>3, <1>4, <1>5, <1>6, <1>7
<1> HIDE DEF wa, wb, va, vb, q
<1>9. wb <= wa + q
  BY <1>8
<1>10. QED
  BY <1>9 DEF wa, wb, q

Asked(requests, u, k) == {e \in requests : <<e.user, e.by, e.time>> = <<u, k.grantedBy, k.created>>}

LEMMA WithGrantedIs ==
  ASSUME NEW requests, NEW u \in MintUsers, NEW k \in MintKeys
  PROVE  WithGranted(requests)[u][k] =
           IF Asked(requests, u, k) = {} THEN mintAllowances[u][k]
           ELSE NewAllowance(EntryQuantity(Asked(requests, u, k)), MaxQuantity, 0)
<1> DEFINE G(v) == [j \in MintKeys |->
                     IF Asked(requests, v, j) = {} THEN mintAllowances[v][j]
                     ELSE NewAllowance(EntryQuantity(Asked(requests, v, j)), MaxQuantity, 0)]
<1>1. WithGranted(requests) = [v \in MintUsers |-> G(v)]
  BY DEF WithGranted, Asked
<1>2. WithGranted(requests)[u] = G(u)
  <2> HIDE DEF G
  <2>1. QED
    BY <1>1
<1>3. G(u)[k] = IF Asked(requests, u, k) = {} THEN mintAllowances[u][k]
                ELSE NewAllowance(EntryQuantity(Asked(requests, u, k)), MaxQuantity, 0)
  OBVIOUS
<1>4. QED
  BY <1>2, <1>3

LEMMA GrantedMaps ==
  ASSUME mintAllowances \in [MintUsers -> MintMaps], NEW requests, HasQuantities(requests)
  PROVE  WithGranted(requests) \in [MintUsers -> MintMaps]
<1>1. ASSUME NEW u \in MintUsers, NEW k \in MintKeys
      PROVE  WithGranted(requests)[u][k] \in SoundMints \cup {NoAllowance}
  <2>1. mintAllowances[u][k] \in SoundMints \cup {NoAllowance}
    BY DEF MintMaps, MapsOf
  <2>2. Asked(requests, u, k) \in SUBSET requests
    BY DEF Asked
  <2>3. EntryQuantity(Asked(requests, u, k)) \in Nat
    BY <2>2, PartSum
  <2>4. NewAllowance(EntryQuantity(Asked(requests, u, k)), MaxQuantity, 0) \in SoundMints
    BY <2>3, MintAssumption, NewMintIsSound
  <2>5. QED
    BY <2>1, <2>4, WithGrantedIs
<1>2. ASSUME NEW u \in MintUsers PROVE WithGranted(requests)[u] \in MintMaps
  <2>1. WithGranted(requests)[u] = [k \in MintKeys |-> WithGranted(requests)[u][k]]
    BY DEF WithGranted
  <2>2. QED
    BY <1>1, <2>1 DEF MintMaps, MapsOf
<1>3. WithGranted(requests) = [u \in MintUsers |-> WithGranted(requests)[u]]
  BY DEF WithGranted
<1>4. QED
  BY <1>2, <1>3

\* A grant adds at most what was requested.
LEMMA Granting ==
  ASSUME mintAllowances \in [MintUsers -> MintMaps], NEW requests, IsLog(requests, MaxTime), NEW g
  PROVE  MintsLeft(WithGranted(requests), g) <= MintsLeft(mintAllowances, g) + EntryQuantity(requests)
<1> DEFINE GrantsFit(T) == MintsLeft(WithGranted(T), g) <= MintsLeft(mintAllowances, g) + EntryQuantity(T)
           D == {T \in SUBSET requests : ~GrantsFit(T)}
<1>0. HasQuantities(requests) /\ MaxTime \in Nat
  BY LogEntries, MintAssumption
<1>1. D = {}
  <2> SUFFICES ASSUME D # {} PROVE FALSE
    OBVIOUS
  <2>1. PICK T \in D : \A Q \in D : Cardinality(T) <= Cardinality(Q)
    <3>1. \A Q \in D : IsFiniteSet(Q)
      BY <1>0, FS_Subset DEF HasQuantities
    <3> HIDE DEF D
    <3>2. QED
      BY <3>1, SmallestSet
  <2>2. T \in SUBSET requests /\ IsFiniteSet(T) /\ HasQuantities(T) /\ ~GrantsFit(T)
    BY <1>0, <2>1, PartSum DEF HasQuantities
  <2>3. CASE T = {}
    <3>1. \A u \in MintUsers : WithGranted(T)[u] = mintAllowances[u]
      <4>1. ASSUME NEW u \in MintUsers PROVE WithGranted(T)[u] = mintAllowances[u]
        <5>1. \A k \in MintKeys : WithGranted(T)[u][k] = mintAllowances[u][k]
          BY <2>3, WithGrantedIs DEF Asked
        <5>2. WithGranted(T)[u] \in MintMaps /\ mintAllowances[u] \in MintMaps
          BY <2>2, GrantedMaps
        <5>3. QED
          BY <5>1, <5>2 DEF MintMaps, MapsOf
      <4>2. QED
        BY <4>1
    <3>2. WithGranted(T) = mintAllowances
      BY <2>2, <3>1, GrantedMaps
    <3>3. MintsLeft(mintAllowances, g) \in Nat
      BY LeftSummable DEF MintsLeft
    <3>4. QED
      BY <2>2, <2>3, <3>2, <3>3, NoEntries
  <2>4. ASSUME NEW e \in T PROVE FALSE
    <3> DEFINE R == T \ {e}
               x == e.user
               k == [grantedBy |-> e.by, created |-> e.time]
               before == WithGranted(R)
               after == WithGranted(T)
    <3>1. R \notin D /\ R \in SUBSET requests
      <4> HIDE DEF D
      <4>1. QED
        BY <2>1, <2>2, Smaller
    <3>2. GrantsFit(R) /\ HasQuantities(R)
      BY <1>0, <3>1, PartSum
    <3>3. e \in requests /\ x \in MintUsers /\ k \in MintKeys /\ e.quantity \in Nat
      BY <1>0, <2>2, LogEntries DEF MintKeys, MintTimes
    <3>4. \A f \in T : f.time = e.time /\ f.user = e.user => f = e
      BY <2>2 DEF IsLog
    <3>5. Asked(T, x, k) = {e}
      BY <3>4 DEF Asked
    <3>6. ASSUME NEW u \in MintUsers, NEW j \in MintKeys, u # x \/ j # k
          PROVE  Asked(T, u, j) = Asked(R, u, j)
      <4>1. j = [grantedBy |-> j.grantedBy, created |-> j.created]
        BY DEF MintKeys
      <4>2. e \notin Asked(T, u, j)
        BY <3>6, <4>1 DEF Asked
      <4>3. QED
        BY <4>2 DEF Asked
    <3>7. before \in [MintUsers -> MintMaps] /\ after \in [MintUsers -> MintMaps]
      BY <2>2, <3>2, GrantedMaps
    <3>8. after[x][k] = NewAllowance(e.quantity, MaxQuantity, 0)
      BY <3>3, <3>5, WithGrantedIs, OneEntry
    <3>9. ASSUME NEW u \in MintUsers, NEW j \in MintKeys, u # x \/ j # k
          PROVE  after[u][j] = before[u][j]
      <4>1. Asked(T, u, j) = Asked(R, u, j)
        BY <3>6, <3>9
      <4> HIDE DEF R
      <4>2. QED
        BY <4>1, WithGrantedIs
    <3> HIDE DEF x, k, before, after, R
    <3>10. \A u \in MintUsers \ {x} : after[u] = before[u]
      <4>1. ASSUME NEW u \in MintUsers \ {x} PROVE after[u] = before[u]
        <5>1. after[u] \in MintMaps /\ before[u] \in MintMaps
          BY <3>7
        <5>2. \A j \in MintKeys : after[u][j] = before[u][j]
          BY <3>9, <4>1
        <5>3. QED
          BY <5>1, <5>2 DEF MintMaps, MapsOf
      <4>2. QED
        BY <4>1
    <3> DEFINE a == NewAllowance(e.quantity, MaxQuantity, 0)
    <3>11. a \in SoundMints /\ Unspent(a) = e.quantity
      BY <3>3, MintAssumption, NewMintIsSound
    <3>12. Worth(after[x], GrantedBy(g)) <= Worth(before[x], GrantedBy(g)) + e.quantity
      <4>1. after[x] \in MintMaps /\ before[x] \in MintMaps
        BY <3>3, <3>7
      <4>2. after[x][k] = a /\ \A j \in MintKeys \ {k} : after[x][j] = before[x][j]
        BY <3>3, <3>8, <3>9
      <4> HIDE DEF a
      <4>3. QED
        BY <3>3, <3>11, <4>1, <4>2, WorthAtKey
    <3> DEFINE la == MintsLeft(after, g)
               lb == MintsLeft(before, g)
               l == MintsLeft(mintAllowances, g)
               wa == Worth(after[x], GrantedBy(g))
               wb == Worth(before[x], GrantedBy(g))
               q == e.quantity
               s == EntryQuantity(R)
    <3>13. la = lb + (wa - wb) /\ lb \in Nat /\ la \in Nat
      BY <3>3, <3>7, <3>10, LeftAtOne
    <3>14. wa \in Nat /\ wb \in Nat /\ wa <= wb + q /\ q \in Nat
      BY <3>3, <3>7, <3>12, MapWorth
    <3>15. lb <= l + s /\ l \in Nat /\ s \in Nat
      <4>1. l \in Nat
        BY LeftSummable DEF MintsLeft
      <4>2. s \in Nat
        BY <3>2, EntrySum
      <4>3. lb <= l + s
        BY <3>2 DEF before
      <4>4. QED
        BY <4>1, <4>2, <4>3
    <3>16. EntryQuantity(T) = q + s
      BY <2>2, LessOne DEF R
    <3> HIDE DEF la, lb, l, wa, wb, q, s, D, GrantsFit
    <3>17. la <= l + (q + s)
      BY <3>13, <3>14, <3>15
    <3>18. GrantsFit(T)
      BY <3>16, <3>17 DEF la, l, GrantsFit, after
    <3>19. QED
      BY <2>2, <3>18
  <2>5. QED
    BY <2>3, <2>4
<1>2. requests \notin D
  BY <1>1
<1>3. QED
  BY <1>2

-----------------------------------------------------------------------------
(* Uses of mint allowances.                                                *)

LEMMA CreationOrder ==
  ASSUME NEW S, IsFiniteSet(S), \A k \in S : k.created \in Nat
  PROVE  \E s \in SetToSeqs(S) : \A i, j \in DOMAIN s : i < j => s[i].created <= s[j].created
<1> DEFINE leq == {p \in S \X S : p[1].created <= p[2].created}
           n == Cardinality(S)
<1>1. \A x, y \in S : <<x, y>> \in leq <=> x.created <= y.created
  OBVIOUS
<1> HIDE DEF leq
<1>2. IsTotalOn(S, leq)
  <2>1. ASSUME NEW x \in S, NEW y \in S PROVE <<x, y>> \in leq \/ <<y, x>> \in leq
    <3>1. x.created <= y.created \/ y.created <= x.created
      OBVIOUS
    <3>2. QED
      BY <1>1, <3>1
  <2>2. ASSUME NEW x \in S, NEW y \in S, NEW z \in S, <<x, y>> \in leq, <<y, z>> \in leq
        PROVE  <<x, z>> \in leq
    <3>1. x.created <= y.created /\ y.created <= z.created
      BY <1>1, <2>2
    <3>2. x.created <= z.created
      BY <3>1
    <3>3. QED
      BY <1>1, <3>2
  <2>3. QED
    BY <2>1, <2>2 DEF IsTotalOn
<1>3. PICK s : Sorted(s, S, leq)
  BY <1>2, SortExists
<1>4. n \in Nat /\ s \in [1 .. n -> S] /\ DOMAIN s = 1 .. n
  BY <1>3, FS_CardinalityType DEF Sorted
<1>5. \A i, j \in 1 .. n : i # j => s[i] # s[j]
  <2>1. \A i, j \in 1 .. n : s[i] = s[j] => i = j
    BY <1>3, SortedAll
  <2>2. QED
    BY <2>1
<1>6. s \in SetToSeqs(S)
  BY <1>4, <1>5 DEF SetToSeqs
<1>7. \A i, j \in DOMAIN s : i < j => s[i].created <= s[j].created
  <2>1. ASSUME NEW i \in 1 .. n, NEW j \in 1 .. n, i < j PROVE s[i].created <= s[j].created
    <3>1. <<s[i], s[j]>> \in leq
      BY <1>3, <2>1 DEF Sorted
    <3>2. QED
      BY <1>1, <1>4, <3>1
  <2>2. QED
    BY <1>4, <2>1
<1>8. QED
  BY <1>6, <1>7

LEMMA ApplicableKeys ==
  ASSUME NEW held \in MintMaps, NEW g, authorities \subseteq g
  PROVE  Applicable(held) \in KeysIn(held, GrantedBy(g))
<1> DEFINE S == {k \in Existing(held) : k.grantedBy \in authorities}
           n == Cardinality(S)
           s == CHOOSE s \in SetToSeqs(S) : \A i, j \in DOMAIN s : i < j => s[i].created <= s[j].created
<1>1. IsFiniteSet(Existing(held)) /\ Existing(held) \subseteq MintKeys
  BY MapWorth
<1>2. S \in SUBSET Existing(held) /\ IsFiniteSet(S) /\ S \subseteq Existing(held) \cap GrantedBy(g)
  BY <1>1, FS_Subset DEF GrantedBy
<1>3. \A k \in S : k.created \in Nat
  BY <1>1, <1>2 DEF MintKeys, MintTimes
<1>4. Applicable(held) = s
  BY DEF Applicable
<1> HIDE DEF S
<1>5. s \in SetToSeqs(S)
  BY <1>2, <1>3, CreationOrder
<1> HIDE DEF s
<1>6. n \in Nat /\ s \in [1 .. n -> S] /\ \A i, j \in 1 .. n : i # j => s[i] # s[j]
  BY <1>2, <1>5, FS_CardinalityType DEF SetToSeqs
<1> HIDE DEF n
<1>7. s \in Seq(Existing(held) \cap GrantedBy(g)) /\ Len(s) = n
  <2>1. s \in [1 .. n -> Existing(held) \cap GrantedBy(g)]
    BY <1>2, <1>6
  <2>2. QED
    BY <1>6, <2>1
<1>8. QED
  BY <1>4, <1>6, <1>7 DEF KeysIn

\* What is minted is taken from what the authorities have granted.
LEMMA MintIsTaken ==
  ASSUME NEW held \in MintMaps, NEW g, authorities \subseteq g, NEW q \in Nat, NEW t \in Nat
  PROVE  LET use == UseMint(held, q, t)
         IN  /\ use.put \in MintMaps
             /\ Worth(use.put, GrantedBy(g)) <= Worth(held, GrantedBy(g))
             /\ Succeeds(held, use) =>
                  Worth(use.put, GrantedBy(g)) + q <= Worth(held, GrantedBy(g))
<1> DEFINE use == UseMint(held, q, t)
           X == GrantedBy(g)
           keys == Applicable(held)
<1>0. held \in MapsOf(MintKeys, SoundMints)
  BY DEF MintMaps
<1>1. keys \in KeysIn(held, X) /\ use = UseAllowances(held, keys, q, t)
  BY ApplicableKeys DEF UseMint
<1>2. Sound(SoundMints) /\ Usable(SoundMints, t) /\ IsFiniteSet(Existing(held))
  BY MintsAreSound, MapWorth
<1> HIDE DEF use, X, keys
<1>3. /\ use \in ResultsOf(MintKeys, SoundMints) /\ use.remaining <= q
      /\ Worth(use.put, X) + (q - use.remaining) <= Worth(held, X)
  BY <1>0, <1>1, <1>2, AnyUseTakes
<1>4. use.used \subseteq Existing(held)
  BY <1>0, <1>1, <1>2, UsedExist
<1>5. use.remaining \in Nat /\ use.put \in MintMaps
  BY <1>3 DEF ResultsOf, MintMaps
<1>6. Succeeds(held, use) => use.remaining = 0
  <2>1. \A k \in use.used : held[k] \in SoundMints
    BY <1>0, <1>4, ExistingIn
  <2>2. \A k \in use.used : IsFinite(held[k])
    BY <2>1, SoundMintParts
  <2>3. QED
    BY <2>2 DEF Succeeds
<1>7. Worth(use.put, X) \in Nat /\ Worth(held, X) \in Nat
  BY <1>5, MapWorth
<1> DEFINE wa == Worth(held, X)
           wb == Worth(use.put, X)
           r == use.remaining
<1>8. wa \in Nat /\ wb \in Nat /\ r \in Nat /\ wb + (q - r) <= wa /\ r <= q
  BY <1>3, <1>5, <1>7
<1> HIDE DEF wa, wb, r
<1>9. wb <= wa /\ (r = 0 => wb + q <= wa)
  BY <1>8
<1>10. QED
  BY <1>5, <1>6, <1>9 DEF wa, wb, r, use, X

\* The check deletes some of them.
LEMMA CheckingTakes ==
  ASSUME NEW held \in MintMaps, NEW t, NEW X
  PROVE  Checked(held, t) \in MintMaps /\ Worth(Checked(held, t), X) <= Worth(held, X)
<1> DEFINE after == Checked(held, t)
<1>0. held \in MapsOf(MintKeys, SoundMints)
  BY DEF MintMaps
<1>1. /\ after \in MapsOf(MintKeys, SoundMints)
      /\ \A k \in MintKeys : after[k] = NoAllowance \/ after[k] = held[k]
  BY <1>0, AnyCleaned DEF Checked
<1> HIDE DEF after
<1>2. after \in MintMaps
  BY <1>1 DEF MintMaps
<1>3. \A k \in MintKeys : Value(held, X)[k] \in Nat /\ Value(after, X)[k] \in Nat
  BY <1>0, <1>1, MintsAreSound, ValueType
<1>4. ASSUME NEW k \in MintKeys PROVE Value(after, X)[k] <= Value(held, X)[k]
  <2>1. k \in DOMAIN held /\ k \in DOMAIN after
    BY <1>0, <1>1 DEF MapsOf
  <2>2. CASE after[k] = held[k]
    <3>1. Value(after, X)[k] = Value(held, X)[k]
      BY <2>1, <2>2 DEF Value
    <3>2. QED
      BY <1>3, <3>1
  <2>3. CASE after[k] = NoAllowance
    <3>1. Value(after, X)[k] = 0
      BY <2>1, <2>3 DEF Value
    <3>2. QED
      BY <1>3, <3>1
  <2>4. QED
    BY <1>1, <2>2, <2>3
<1>5. QED
  BY <1>0, <1>1, <1>2, <1>4, MintsAreSound, MapWorth, WorthMonotone DEF after

-----------------------------------------------------------------------------
(* The tokens in the balances.                                             *)

InstanceSets == {S \in SUBSET Nat : IsFiniteSet(S)}

StockOf(quantity, ins) ==
  IF IsNonFungible THEN SumFunctionOnSet([u \in MintUsers |-> Cardinality(ins[u])], MintUsers)
  ELSE SumFunctionOnSet(quantity, MintUsers)

LEMMA UserSums ==
  ASSUME NEW f \in [MintUsers -> Nat]
  PROVE  /\ SumFunctionOnSet(f, MintUsers) \in Nat
         /\ \A x \in MintUsers : f[x] <= SumFunctionOnSet(f, MintUsers)
         /\ \A x \in MintUsers, g \in [MintUsers -> Nat] : (\A u \in MintUsers \ {x} : g[u] = f[u])
              => SumFunctionOnSet(g, MintUsers) = SumFunctionOnSet(f, MintUsers) + (g[x] - f[x])
<1>1. Summable(f, MintUsers) /\ \A u \in MintUsers : 0 <= f[u]
  BY MintAssumption DEF Summable
<1>2. SumFunctionOnSet(f, MintUsers) \in Nat
  BY <1>1, SumNat
<1>3. ASSUME NEW x \in MintUsers PROVE f[x] <= SumFunctionOnSet(f, MintUsers)
  <2>1. SumFunctionOnSet(f, MintUsers) = f[x] + SumFunctionOnSet(f, MintUsers \ {x})
    BY <1>1, SumRemove
  <2>2. SumFunctionOnSet(f, MintUsers \ {x}) \in Nat
    <3>1. Summable(f, MintUsers \ {x})
      BY <1>1, SummableSubset
    <3>2. QED
      BY <1>1, <3>1, SumNat
  <2>3. QED
    BY <2>1, <2>2
<1>4. ASSUME NEW x \in MintUsers, NEW g \in [MintUsers -> Nat], \A u \in MintUsers \ {x} : g[u] = f[u]
      PROVE  SumFunctionOnSet(g, MintUsers) = SumFunctionOnSet(f, MintUsers) + (g[x] - f[x])
  BY <1>1, <1>4, SumUpdate
<1>5. QED
  BY <1>2, <1>3, <1>4

Counts(ins) == [u \in MintUsers |-> Cardinality(ins[u])]

LEMMA CountsType ==
  ASSUME NEW ins \in [MintUsers -> InstanceSets]
  PROVE  Counts(ins) \in [MintUsers -> Nat]
<1>1. \A u \in MintUsers : IsFiniteSet(ins[u])
  BY DEF InstanceSets
<1>2. \A u \in MintUsers : Cardinality(ins[u]) \in Nat
  BY <1>1, FS_CardinalityType
<1>3. QED
  BY <1>2 DEF Counts

LEMMA StockType ==
  ASSUME NEW quantity \in [MintUsers -> Nat], NEW ins \in [MintUsers -> InstanceSets]
  PROVE  StockOf(quantity, ins) \in Nat
BY UserSums, CountsType DEF StockOf, Counts

LEMMA SetsOfInstances ==
  ASSUME NEW I \in InstanceSets, NEW ids \in InstanceSets
  PROVE  /\ I \cup ids \in InstanceSets
         /\ I \cap ids = {} => Cardinality(I \cup ids) = Cardinality(I) + Cardinality(ids)
         /\ \A id \in I : I \ {id} \in InstanceSets /\ Cardinality(I \ {id}) = Cardinality(I) - 1
<1>1. IsFiniteSet(I) /\ IsFiniteSet(ids) /\ I \in SUBSET Nat /\ ids \in SUBSET Nat
  BY DEF InstanceSets
<1>2. I \cup ids \in InstanceSets
  BY <1>1, FS_Union DEF InstanceSets
<1>3. ASSUME NEW id \in I PROVE I \ {id} \in InstanceSets /\ Cardinality(I \ {id}) = Cardinality(I) - 1
  <2>1. IsFiniteSet(I \ {id}) /\ Cardinality(I \ {id}) = Cardinality(I) - 1
    BY <1>1, <1>3, Smaller
  <2>2. QED
    BY <1>1, <2>1 DEF InstanceSets
<1>4. ASSUME I \cap ids = {} PROVE Cardinality(I \cup ids) = Cardinality(I) + Cardinality(ids)
  <2>1. Cardinality(I \cup ids) = Cardinality(I) + Cardinality(ids) - Cardinality(I \cap ids)
    BY <1>1, FS_Union
  <2>2. Cardinality(I \cap ids) = 0
    BY <1>4, FS_EmptySet
  <2>3. Cardinality(I) \in Nat /\ Cardinality(ids) \in Nat
    BY <1>1, FS_CardinalityType
  <2>4. QED
    BY <2>1, <2>2, <2>3
<1>5. QED
  BY <1>2, <1>3, <1>4

\* Tokens come to one user, ...
LEMMA StockAdded ==
  ASSUME NEW quantity \in [MintUsers -> Nat], NEW ins \in [MintUsers -> InstanceSets],
         NEW x \in MintUsers, NEW q \in Nat
  PROVE  /\ \A more \in [MintUsers -> Nat] :
              more[x] = quantity[x] + q /\ (\A u \in MintUsers \ {x} : more[u] = quantity[u])
                => (~IsNonFungible => StockOf(more, ins) = StockOf(quantity, ins) + q)
         /\ \A others \in [MintUsers -> InstanceSets] :
              Cardinality(others[x]) = Cardinality(ins[x]) + q /\ (\A u \in MintUsers \ {x} : others[u] = ins[u])
                => (IsNonFungible => StockOf(quantity, others) = StockOf(quantity, ins) + q)
<1>1. ASSUME NEW more \in [MintUsers -> Nat], ~IsNonFungible,
             more[x] = quantity[x] + q, \A u \in MintUsers \ {x} : more[u] = quantity[u]
      PROVE  StockOf(more, ins) = StockOf(quantity, ins) + q
  <2>1. SumFunctionOnSet(more, MintUsers) = SumFunctionOnSet(quantity, MintUsers) + (more[x] - quantity[x])
    BY <1>1, UserSums
  <2>2. SumFunctionOnSet(quantity, MintUsers) \in Nat /\ quantity[x] \in Nat
    BY UserSums
  <2>3. SumFunctionOnSet(more, MintUsers) = SumFunctionOnSet(quantity, MintUsers) + q
    BY <1>1, <2>1, <2>2
  <2>4. QED
    BY <1>1, <2>3 DEF StockOf
<1>2. ASSUME NEW others \in [MintUsers -> InstanceSets], IsNonFungible,
             Cardinality(others[x]) = Cardinality(ins[x]) + q, \A u \in MintUsers \ {x} : others[u] = ins[u]
      PROVE  StockOf(quantity, others) = StockOf(quantity, ins) + q
  <2> DEFINE f == Counts(ins)
             h == Counts(others)
  <2>1. f \in [MintUsers -> Nat] /\ h \in [MintUsers -> Nat]
    BY CountsType
  <2>2. \A u \in MintUsers : f[u] = Cardinality(ins[u]) /\ h[u] = Cardinality(others[u])
    BY DEF Counts
  <2> HIDE DEF f, h
  <2>3. h[x] = f[x] + q /\ \A u \in MintUsers \ {x} : h[u] = f[u]
    BY <1>2, <2>2
  <2>4. SumFunctionOnSet(h, MintUsers) = SumFunctionOnSet(f, MintUsers) + (h[x] - f[x])
    BY <2>1, <2>3, UserSums
  <2>5. SumFunctionOnSet(f, MintUsers) \in Nat /\ f[x] \in Nat
    BY <2>1, UserSums
  <2>6. SumFunctionOnSet(h, MintUsers) = SumFunctionOnSet(f, MintUsers) + q
    BY <2>3, <2>4, <2>5
  <2>7. QED
    BY <1>2, <2>6 DEF StockOf, f, h, Counts
<1>3. QED
  BY <1>1, <1>2

\* ... or leave one.
LEMMA StockTaken ==
  ASSUME NEW quantity \in [MintUsers -> Nat], NEW ins \in [MintUsers -> InstanceSets],
         NEW x \in MintUsers
  PROVE  /\ \A q \in Nat, less \in [MintUsers -> Nat] :
              less[x] = quantity[x] - q /\ (\A u \in MintUsers \ {x} : less[u] = quantity[u])
                => (~IsNonFungible => StockOf(less, ins) = StockOf(quantity, ins) - q)
         /\ \A id \in ins[x], others \in [MintUsers -> InstanceSets] :
              others[x] = ins[x] \ {id} /\ (\A u \in MintUsers \ {x} : others[u] = ins[u])
                => (IsNonFungible => StockOf(quantity, others) = StockOf(quantity, ins) - 1)
<1>1. ASSUME NEW q \in Nat, NEW less \in [MintUsers -> Nat], ~IsNonFungible,
             less[x] = quantity[x] - q, \A u \in MintUsers \ {x} : less[u] = quantity[u]
      PROVE  StockOf(less, ins) = StockOf(quantity, ins) - q
  <2>1. SumFunctionOnSet(less, MintUsers) = SumFunctionOnSet(quantity, MintUsers) + (less[x] - quantity[x])
    BY <1>1, UserSums
  <2>2. SumFunctionOnSet(quantity, MintUsers) \in Nat /\ quantity[x] \in Nat
    BY UserSums
  <2>3. SumFunctionOnSet(less, MintUsers) = SumFunctionOnSet(quantity, MintUsers) - q
    BY <1>1, <2>1, <2>2
  <2>4. QED
    BY <1>1, <2>3 DEF StockOf
<1>2. ASSUME NEW id \in ins[x], NEW others \in [MintUsers -> InstanceSets], IsNonFungible,
             others[x] = ins[x] \ {id}, \A u \in MintUsers \ {x} : others[u] = ins[u]
      PROVE  StockOf(quantity, others) = StockOf(quantity, ins) - 1
  <2> DEFINE f == Counts(ins)
             h == Counts(others)
  <2>1. f \in [MintUsers -> Nat] /\ h \in [MintUsers -> Nat]
    BY CountsType
  <2>2. \A u \in MintUsers : f[u] = Cardinality(ins[u]) /\ h[u] = Cardinality(others[u])
    BY DEF Counts
  <2> HIDE DEF f, h
  <2>3. Cardinality(ins[x] \ {id}) = Cardinality(ins[x]) - 1
    BY <1>2, SetsOfInstances
  <2>4. h[x] = f[x] - 1 /\ \A u \in MintUsers \ {x} : h[u] = f[u]
    BY <1>2, <2>2, <2>3
  <2>5. SumFunctionOnSet(h, MintUsers) = SumFunctionOnSet(f, MintUsers) + (h[x] - f[x])
    BY <2>1, <2>4, UserSums
  <2>6. SumFunctionOnSet(f, MintUsers) \in Nat /\ f[x] \in Nat
    BY <2>1, UserSums
  <2>7. SumFunctionOnSet(h, MintUsers) = SumFunctionOnSet(f, MintUsers) - 1
    BY <2>4, <2>5, <2>6
  <2>8. QED
    BY <1>2, <2>7 DEF StockOf, f, h, Counts
<1>3. QED
  BY <1>1, <1>2

\* The ids of what is minted are as many as are minted.
LEMMA IdsAre ==
  ASSUME NEW count \in Nat, NEW q \in Nat
  PROVE  /\ NextIds(count, q) \in InstanceSets
         /\ IsNonFungible => NextIds(count, q) = count + 1 .. count + q /\ Cardinality(NextIds(count, q)) = q
<1>1. IsFiniteSet(count + 1 .. count + q) /\ Cardinality(count + 1 .. count + q) = q
  <2>1. count + 1 \in Int /\ count + q \in Int /\ count + 1 <= count + q <=> q >= 1
    OBVIOUS
  <2>2. CASE q = 0
    <3>1. count + 1 .. count + q = {}
      BY <2>2
    <3>2. QED
      BY <2>2, <3>1, FS_EmptySet
  <2>3. CASE q # 0
    <3>1. /\ IsFiniteSet(count + 1 .. count + q)
          /\ Cardinality(count + 1 .. count + q) =
               IF count + 1 > count + q THEN 0 ELSE (count + q) - (count + 1) + 1
      BY <2>1, FS_Interval
    <3>2. QED
      BY <2>3, <3>1
  <2>4. QED
    BY <2>2, <2>3
<1>2. count + 1 .. count + q \subseteq Nat
  OBVIOUS
<1>3. {} \in InstanceSets
  BY FS_EmptySet DEF InstanceSets
<1>4. QED
  BY <1>1, <1>2, <1>3 DEF NextIds, InstanceSets

-----------------------------------------------------------------------------
(* What a call writes, mint by mint.                                       *)

Logs(t) == {E \in SUBSET Entries(t) : IsLog(E, t)}

MintIds(t) == {"TokenMintFulfillment"} \X (1 .. t) \X MintUsers \X MintUsers
AllowanceIds(t) == {"TokenMintAllowance"} \X (1 .. t) \X MintUsers \X MintUsers

Writings(t) ==
  [ok : BOOLEAN, by : MintUsers, held : MintMaps, supply : Nat, requests : Logs(t),
   quantity : [MintUsers -> Nat], instances : [MintUsers -> InstanceSets],
   fulfilled : SUBSET MintIds(t), results : Nat, minted : Nat]

LEMMA WritingParts ==
  ASSUME NEW t, NEW w \in Writings(t)
  PROVE  /\ w.ok \in BOOLEAN /\ w.by \in MintUsers /\ w.held \in MintMaps /\ w.supply \in Nat
         /\ w.requests \in Logs(t) /\ IsLog(w.requests, t) /\ w.quantity \in [MintUsers -> Nat]
         /\ w.instances \in [MintUsers -> InstanceSets] /\ w.fulfilled \in SUBSET MintIds(t)
         /\ w.results \in Nat /\ w.minted \in Nat
         /\ StockOf(w.quantity, w.instances) \in Nat
<1>1. /\ w.ok \in BOOLEAN /\ w.by \in MintUsers /\ w.held \in MintMaps /\ w.supply \in Nat
      /\ w.requests \in Logs(t) /\ w.quantity \in [MintUsers -> Nat]
      /\ w.instances \in [MintUsers -> InstanceSets] /\ w.fulfilled \in SUBSET MintIds(t)
      /\ w.results \in Nat /\ w.minted \in Nat
  BY DEF Writings
<1>2. QED
  BY <1>1, StockType DEF Logs

LEMMA Received ==
  ASSUME NEW t, NEW w \in Writings(t), NEW owner \in MintUsers, NEW q \in Nat, NEW count \in Nat,
         CanReceive(w, owner, NextIds(count, q))
  PROVE  LET v == Receive(w, owner, q, NextIds(count, q))
         IN  /\ v \in Writings(t)
             /\ v.ok = w.ok /\ v.by = w.by /\ v.held = w.held /\ v.supply = w.supply
             /\ v.requests = w.requests /\ v.fulfilled = w.fulfilled
             /\ v.minted = w.minted + q
             /\ StockOf(v.quantity, v.instances) = StockOf(w.quantity, w.instances) + q
             /\ v.instances = IF IsNonFungible
                              THEN [w.instances EXCEPT ![owner] = @ \cup NextIds(count, q)]
                              ELSE w.instances
<1> DEFINE ids == NextIds(count, q)
           v == Receive(w, owner, q, ids)
           more == [w.quantity EXCEPT ![owner] = @ + q]
           others == [w.instances EXCEPT ![owner] = @ \cup ids]
           n == w.minted + q
           r == w.results + q
           r1 == w.results + 1
<1>1. ids \in InstanceSets /\ (IsNonFungible => Cardinality(ids) = q) /\ ids \cap w.instances[owner] = {}
  BY IdsAre DEF CanReceive
<1>2. /\ w.quantity \in [MintUsers -> Nat] /\ w.instances \in [MintUsers -> InstanceSets]
      /\ w.minted \in Nat /\ w.results \in Nat
  BY WritingParts
<1> HIDE DEF ids
<1>3. /\ more \in [MintUsers -> Nat] /\ others \in [MintUsers -> InstanceSets]
      /\ IsNonFungible => StockOf(w.quantity, others) = StockOf(w.quantity, w.instances) + q
      /\ ~IsNonFungible => StockOf(more, w.instances) = StockOf(w.quantity, w.instances) + q
  <2> DEFINE Q == w.quantity
             I == w.instances
  <2>1. Q \in [MintUsers -> Nat] /\ I \in [MintUsers -> InstanceSets] /\ ids \cap I[owner] = {}
    BY <1>1, <1>2
  <2>2. I[owner] \cup ids \in InstanceSets
    BY <1>1, <2>1, SetsOfInstances
  <2>3. /\ more \in [MintUsers -> Nat] /\ more[owner] = Q[owner] + q
        /\ \A u \in MintUsers \ {owner} : more[u] = Q[u]
    BY <2>1
  <2>4. /\ others \in [MintUsers -> InstanceSets] /\ others[owner] = I[owner] \cup ids
        /\ \A u \in MintUsers \ {owner} : others[u] = I[u]
    BY <2>1, <2>2
  <2> HIDE DEF Q, I, more, others
  <2>5. IsNonFungible => Cardinality(others[owner]) = Cardinality(I[owner]) + q
    <3>1. I[owner] \in InstanceSets /\ I[owner] \cap ids = {}
      BY <2>1
    <3>2. Cardinality(I[owner] \cup ids) = Cardinality(I[owner]) + Cardinality(ids)
      BY <1>1, <3>1, SetsOfInstances
    <3>3. QED
      BY <1>1, <2>4, <3>2
  <2>6. ASSUME IsNonFungible PROVE StockOf(Q, others) = StockOf(Q, I) + q
    <3>1. Cardinality(others[owner]) = Cardinality(I[owner]) + q
      BY <2>5, <2>6
    <3>2. \A o \in [MintUsers -> InstanceSets] :
            Cardinality(o[owner]) = Cardinality(I[owner]) + q /\ (\A u \in MintUsers \ {owner} : o[u] = I[u])
              => (IsNonFungible => StockOf(Q, o) = StockOf(Q, I) + q)
      BY <2>1, StockAdded
    <3>3. IsNonFungible => StockOf(Q, others) = StockOf(Q, I) + q
      BY <2>4, <3>1, <3>2
    <3>4. QED
      BY <2>6, <3>3
  <2>7. ~IsNonFungible => StockOf(more, I) = StockOf(Q, I) + q
    BY <2>1, <2>3, StockAdded
  <2>8. QED
    BY <2>3, <2>4, <2>6, <2>7 DEF Q, I
<1>4. n \in Nat /\ r \in Nat /\ r1 \in Nat
  BY <1>2
<1>5. CASE IsNonFungible
  <2>1. v = [w EXCEPT !.instances = others, !.results = r, !.minted = n]
    BY <1>5 DEF Receive, Writings
  <2> HIDE DEF v, others, n, r
  <2>2. /\ v \in Writings(t)
        /\ v.ok = w.ok /\ v.by = w.by /\ v.held = w.held /\ v.supply = w.supply
        /\ v.requests = w.requests /\ v.fulfilled = w.fulfilled
        /\ v.minted = n /\ v.quantity = w.quantity /\ v.instances = others
    BY <1>3, <1>4, <2>1 DEF Writings
  <2>3. QED
    BY <1>3, <1>5, <2>2 DEF v, n, others, ids
<1>6. CASE ~IsNonFungible
  <2>1. v = [w EXCEPT !.quantity = more, !.results = r1, !.minted = n]
    BY <1>6 DEF Receive, Writings
  <2> HIDE DEF v, more, n, r1
  <2>2. /\ v \in Writings(t)
        /\ v.ok = w.ok /\ v.by = w.by /\ v.held = w.held /\ v.supply = w.supply
        /\ v.requests = w.requests /\ v.fulfilled = w.fulfilled
        /\ v.minted = n /\ v.quantity = more /\ v.instances = w.instances
    BY <1>3, <1>4, <2>1 DEF Writings
  <2>3. QED
    BY <1>3, <1>6, <2>2 DEF v, n, ids
<1>7. QED
  BY <1>5, <1>6

\* What is minted is what is used of the allowances and what the balances gain.
After(w, v) ==
  /\ v.by = w.by /\ w.minted <= v.minted
  /\ v.supply - w.supply <= v.minted - w.minted
  /\ StockOf(v.quantity, v.instances) - StockOf(w.quantity, w.instances) = v.minted - w.minted
  /\ \A g \in SUBSET MintUsers : authorities \subseteq g =>
       Worth(v.held, GrantedBy(g)) + (v.minted - w.minted) <= Worth(w.held, GrantedBy(g))

LEMMA AfterItself ==
  ASSUME NEW t, NEW w \in Writings(t), NEW v \in Writings(t),
         v.by = w.by, v.minted = w.minted, v.supply = w.supply,
         v.quantity = w.quantity, v.instances = w.instances,
         \A g \in SUBSET MintUsers : authorities \subseteq g =>
           Worth(v.held, GrantedBy(g)) <= Worth(w.held, GrantedBy(g))
  PROVE  After(w, v)
<1>1. w.minted \in Nat /\ w.supply \in Nat /\ StockOf(w.quantity, w.instances) \in Nat
  BY WritingParts
<1>2. ASSUME NEW g \in SUBSET MintUsers, authorities \subseteq g
      PROVE  Worth(v.held, GrantedBy(g)) + (v.minted - w.minted) <= Worth(w.held, GrantedBy(g))
  <2>1. Worth(v.held, GrantedBy(g)) \in Nat /\ Worth(w.held, GrantedBy(g)) \in Nat
    BY WritingParts, MapWorth
  <2>2. Worth(v.held, GrantedBy(g)) <= Worth(w.held, GrantedBy(g))
    BY <1>2
  <2>3. v.minted - w.minted = 0
    BY <1>1
  <2>4. QED
    BY <2>1, <2>2, <2>3
<1>3. StockOf(v.quantity, v.instances) = StockOf(w.quantity, w.instances)
  OBVIOUS
<1>4. v.supply - w.supply = 0 /\ v.minted - w.minted = 0 /\ w.minted <= v.minted
      /\ StockOf(v.quantity, v.instances) - StockOf(w.quantity, w.instances) = 0
  BY <1>1, <1>3
<1>5. QED
  BY <1>2, <1>4 DEF After

LEMMA AfterBoth ==
  ASSUME NEW t, NEW w \in Writings(t), NEW v \in Writings(t), NEW x \in Writings(t),
         After(w, v), After(v, x)
  PROVE  After(w, x)
<1> DEFINE a == w.minted
           b == v.minted
           c == x.minted
<1>1. /\ a \in Nat /\ b \in Nat /\ c \in Nat
      /\ w.supply \in Nat /\ v.supply \in Nat /\ x.supply \in Nat
      /\ StockOf(w.quantity, w.instances) \in Nat /\ StockOf(v.quantity, v.instances) \in Nat
      /\ StockOf(x.quantity, x.instances) \in Nat
  BY WritingParts
<1>2. /\ a <= b /\ b <= c
      /\ v.supply - w.supply <= b - a /\ x.supply - v.supply <= c - b
      /\ StockOf(v.quantity, v.instances) - StockOf(w.quantity, w.instances) = b - a
      /\ StockOf(x.quantity, x.instances) - StockOf(v.quantity, v.instances) = c - b
  BY DEF After
<1>3. ASSUME NEW g \in SUBSET MintUsers, authorities \subseteq g
      PROVE  Worth(x.held, GrantedBy(g)) + (c - a) <= Worth(w.held, GrantedBy(g))
  <2> DEFINE m == Worth(w.held, GrantedBy(g))
             n == Worth(v.held, GrantedBy(g))
             o == Worth(x.held, GrantedBy(g))
  <2>1. m \in Nat /\ n \in Nat /\ o \in Nat
    BY WritingParts, MapWorth
  <2>2. n + (b - a) <= m /\ o + (c - b) <= n
    BY <1>3 DEF After
  <2> HIDE DEF m, n, o, a, b, c
  <2>3. o + (c - a) <= m
    BY <1>1, <2>1, <2>2
  <2>4. QED
    BY <2>3 DEF m, o
<1>4. x.by = w.by
  BY DEF After
<1> DEFINE sa == w.supply
           sb == v.supply
           sc == x.supply
           ka == StockOf(w.quantity, w.instances)
           kb == StockOf(v.quantity, v.instances)
           kc == StockOf(x.quantity, x.instances)
<1>5. /\ sa \in Nat /\ sb \in Nat /\ sc \in Nat /\ ka \in Nat /\ kb \in Nat /\ kc \in Nat
      /\ sb - sa <= b - a /\ sc - sb <= c - b /\ kb - ka = b - a /\ kc - kb = c - b
  BY <1>1, <1>2
<1> HIDE DEF a, b, c, sa, sb, sc, ka, kb, kc
<1>6. a <= c /\ sc - sa <= c - a /\ kc - ka = c - a
  BY <1>1, <1>2, <1>5
<1>7. QED
  BY <1>3, <1>4, <1>6 DEF After, a, c, sa, sc, ka, kc

-----------------------------------------------------------------------------
(* Minting at once.                                                        *)

Ops == [owner : MintUsers, quantity : MintQuantities]

\* No instance is in two balances.
Disjoint(ins) == \A u, v \in MintUsers : u # v => ins[u] \cap ins[v] = {}

\* Instances are numbered as they are minted.
Numbered(ins, n) == Disjoint(ins) /\ \A u \in MintUsers : ins[u] \subseteq 1 .. n

\* The instances that one user receives are all that are new, ...
LEMMA OneReceives ==
  ASSUME NEW ins, NEW ids, NEW x \in MintUsers, NEW others, others[x] = ins[x] \cup ids,
         \A u \in MintUsers \ {x} : others[u] = ins[u]
  PROVE  /\ \A u \in MintUsers : ins[u] \subseteq others[u]
         /\ ids \cap ins[x] = {} => UNION {others[u] \ ins[u] : u \in MintUsers} = ids
         /\ Disjoint(ins) /\ (\A u \in MintUsers : ids \cap ins[u] = {}) => Disjoint(others)
<1>1. \A u \in MintUsers : ins[u] \subseteq others[u]
  OBVIOUS
<1>2. ASSUME ids \cap ins[x] = {} PROVE UNION {others[u] \ ins[u] : u \in MintUsers} = ids
  <2>1. others[x] \ ins[x] = ids
    BY <1>2
  <2>2. \A u \in MintUsers \ {x} : others[u] \ ins[u] = {}
    OBVIOUS
  <2>3. QED
    BY <2>1, <2>2
<1>3. ASSUME Disjoint(ins), \A u \in MintUsers : ids \cap ins[u] = {},
             NEW u \in MintUsers, NEW v \in MintUsers, u # v
      PROVE  others[u] \cap others[v] = {}
  <2>1. ins[u] \cap ins[v] = {} /\ ids \cap ins[u] = {} /\ ids \cap ins[v] = {}
    BY <1>3 DEF Disjoint
  <2>2. u = x \/ others[u] = ins[u]
    OBVIOUS
  <2>3. v = x \/ others[v] = ins[v]
    OBVIOUS
  <2>4. QED
    BY <1>3, <2>1, <2>2, <2>3
<1>4. QED
  BY <1>1, <1>2, <1>3 DEF Disjoint

\* ... and what is minted at once has the numbers after totalSupply.
NumbersOn(w, v) ==
  /\ v.supply - w.supply = v.minted - w.minted
  /\ IsNonFungible =>
       /\ \A u \in MintUsers : w.instances[u] \subseteq v.instances[u]
       /\ UNION {v.instances[u] \ w.instances[u] : u \in MintUsers} = w.supply + 1 .. v.supply

LEMMA NumbersItself ==
  ASSUME NEW t, NEW w \in Writings(t), NEW v, v.minted = w.minted, v.supply = w.supply,
         v.instances = w.instances
  PROVE  NumbersOn(w, v)
<1>1. w.minted \in Nat /\ w.supply \in Nat
  BY WritingParts
<1>2. v.supply - w.supply = 0 /\ v.minted - w.minted = 0 /\ w.supply + 1 .. v.supply = {}
  BY <1>1
<1>3. UNION {v.instances[u] \ w.instances[u] : u \in MintUsers} = {}
  OBVIOUS
<1>4. QED
  BY <1>2, <1>3 DEF NumbersOn

LEMMA NumbersBoth ==
  ASSUME NEW t, NEW w \in Writings(t), NEW v \in Writings(t), NEW x \in Writings(t),
         After(w, v), After(v, x), NumbersOn(w, v), NumbersOn(v, x)
  PROVE  NumbersOn(w, x)
<1> DEFINE a == w.minted
           b == v.minted
           c == x.minted
           sa == w.supply
           sb == v.supply
           sc == x.supply
           old == UNION {v.instances[u] \ w.instances[u] : u \in MintUsers}
           new == UNION {x.instances[u] \ v.instances[u] : u \in MintUsers}
           all == UNION {x.instances[u] \ w.instances[u] : u \in MintUsers}
<1>1. /\ a \in Nat /\ b \in Nat /\ c \in Nat /\ sa \in Nat /\ sb \in Nat /\ sc \in Nat
      /\ a <= b /\ b <= c /\ sb - sa = b - a /\ sc - sb = c - b
  BY WritingParts DEF After, NumbersOn
<1>2. ASSUME IsNonFungible
      PROVE  /\ \A u \in MintUsers : w.instances[u] \subseteq x.instances[u]
             /\ old = sa + 1 .. sb /\ new = sb + 1 .. sc /\ all = old \cup new
  <2>1. /\ \A u \in MintUsers : w.instances[u] \subseteq v.instances[u] /\ v.instances[u] \subseteq x.instances[u]
        /\ old = sa + 1 .. sb /\ new = sb + 1 .. sc
    BY <1>2 DEF NumbersOn
  <2>2. all = old \cup new
    BY <2>1
  <2>3. QED
    BY <2>1, <2>2
<1> HIDE DEF a, b, c, sa, sb, sc, old, new, all
<1>3. sc - sa = c - a /\ sa <= sb /\ sb <= sc
  BY <1>1
<1>4. (sa + 1 .. sb) \cup (sb + 1 .. sc) = sa + 1 .. sc
  BY <1>1, <1>3
<1>5. QED
  BY <1>2, <1>3, <1>4 DEF NumbersOn, a, c, sa, sc, all

LEMMA NumberedGrows ==
  ASSUME NEW ins, NEW n \in Nat, Numbered(ins, n), NEW q \in Nat, NEW x \in MintUsers,
         NEW others, others[x] = ins[x] \cup (n + 1 .. n + q),
         \A u \in MintUsers \ {x} : others[u] = ins[u]
  PROVE  Numbered(others, n + q)
<1>1. 1 .. n \subseteq 1 .. n + q /\ n + 1 .. n + q \subseteq 1 .. n + q
      /\ (1 .. n) \cap (n + 1 .. n + q) = {}
  OBVIOUS
<1> DEFINE new == n + 1 .. n + q
           old == 1 .. n
           all == 1 .. n + q
<1>2. old \subseteq all /\ new \subseteq all /\ old \cap new = {}
  BY <1>1
<1>3. others[x] = ins[x] \cup new
  OBVIOUS
<1>4. \A u \in MintUsers : ins[u] \subseteq old
  BY DEF Numbered
<1> HIDE DEF new, old, all
<1>5. \A u \in MintUsers : others[u] \subseteq all
  BY <1>2, <1>3, <1>4
<1>6. ASSUME NEW u \in MintUsers, NEW v \in MintUsers, u # v PROVE others[u] \cap others[v] = {}
  <2>1. ins[u] \cap ins[v] = {}
    BY <1>6 DEF Numbered, Disjoint
  <2>2. \A w \in MintUsers : others[w] \subseteq ins[w] \cup new
    BY <1>3
  <2>3. u = x \/ others[u] = ins[u]
    OBVIOUS
  <2>4. v = x \/ others[v] = ins[v]
    OBVIOUS
  <2>5. ins[u] \cap new = {} /\ ins[v] \cap new = {}
    BY <1>2, <1>4
  <2>6. QED
    BY <1>3, <1>6, <2>1, <2>3, <2>4, <2>5
<1>7. QED
  BY <1>5, <1>6 DEF Numbered, Disjoint, all

LEMMA MintOneAfter ==
  ASSUME NEW t \in Nat \ {0}, IsLog(mintRequests, t), NEW w \in Writings(t), NEW op \in Ops
  PROVE  LET v == MintOne(w, op, t)
         IN  /\ v \in Writings(t) /\ After(w, v) /\ NumbersOn(w, v)
             /\ IsNonFungible /\ Numbered(w.instances, w.supply) => Numbered(v.instances, v.supply)
<1> DEFINE v == MintOne(w, op, t)
           q == op.quantity
           use == UseMint(w.held, q, t)
           ids == NextIds(w.supply, q)
           known == KnownMints(t) + w.minted
           entry == MintEntry(op.owner, q, w.by, known, t)
           fails == \/ ~ValidateMintRequest(w.held, q, t)
                    \/ ~CanBeMinted(w.supply, q, 0, 0)
                    \/ ~Succeeds(w.held, use)
                    \/ IsNonFungible /\ q > MaxNftMint
                    \/ ~CanReceive(w, op.owner, ids)
           r == Receive(w, op.owner, q, ids)
           put == use.put
           s == w.supply + q
           E == PutRanged(w.requests, entry)
           F == w.fulfilled \cup {MintId(entry)}
<1>1. q \in MintQuantities /\ q \in Nat /\ op.owner \in MintUsers
  BY DEF Ops, MintQuantities
<1>2. w.supply \in Nat /\ w.held \in MintMaps /\ w.by \in MintUsers /\ w.minted \in Nat /\ IsLog(w.requests, t)
      /\ w.fulfilled \in SUBSET MintIds(t)
  BY WritingParts
<1>3. known \in Nat
  <2>1. KnownMints(t) \in Nat
    BY KnownIsNat DEF KnownMints
  <2>2. QED
    BY <1>2, <2>1
<1>4. entry \in Entries(t) /\ MintId(entry) \in MintIds(t)
  <2>1. t \in 1 .. t
    OBVIOUS
  <2> HIDE DEF known, q
  <2>2. entry \in Entries(t)
    BY <1>1, <1>2, <1>3, <2>1 DEF MintEntry, Entries
  <2>3. MintId(entry) \in MintIds(t)
    BY <1>1, <1>2, <2>1 DEF MintEntry, MintIds, MintId
  <2>4. QED
    BY <2>2, <2>3
<1>5. E \in Logs(t) /\ F \in SUBSET MintIds(t) /\ s \in Nat
  <2> HIDE DEF entry
  <2>1. IsLog(E, t)
    BY <1>2, <1>4, PutIsLog
  <2>2. E \in Logs(t)
    BY <2>1 DEF Logs, IsLog
  <2>3. QED
    BY <1>1, <1>2, <1>4, <2>2
<1>6. v = IF fails THEN [w EXCEPT !.ok = FALSE]
          ELSE [r EXCEPT !.held = put, !.supply = r.supply + q, !.requests = PutRanged(r.requests, entry),
                         !.fulfilled = r.fulfilled \cup {MintId(entry)}]
  BY DEF MintOne
<1>7. CASE fails
  <2>1. v = [w EXCEPT !.ok = FALSE]
    BY <1>6, <1>7
  <2> HIDE DEF v
  <2>2. v \in Writings(t) /\ v.by = w.by /\ v.minted = w.minted /\ v.supply = w.supply
        /\ v.quantity = w.quantity /\ v.instances = w.instances /\ v.held = w.held
    BY <2>1 DEF Writings
  <2>3. \A g : Worth(w.held, g) \in Nat
    BY <1>2, MapWorth
  <2>4. After(w, v) /\ NumbersOn(w, v)
    BY <2>2, <2>3, AfterItself, NumbersItself
  <2>5. QED
    BY <2>2, <2>4 DEF v
<1>8. CASE ~fails
  <2>1. CanReceive(w, op.owner, ids) /\ Succeeds(w.held, use)
    BY <1>8
  <2>2. /\ r \in Writings(t)
        /\ r.ok = w.ok /\ r.by = w.by /\ r.held = w.held /\ r.supply = w.supply
        /\ r.requests = w.requests /\ r.fulfilled = w.fulfilled
        /\ r.minted = w.minted + q
        /\ StockOf(r.quantity, r.instances) = StockOf(w.quantity, w.instances) + q
        /\ r.instances = IF IsNonFungible
                         THEN [w.instances EXCEPT ![op.owner] = @ \cup ids]
                         ELSE w.instances
    BY <1>1, <1>2, <2>1, Received
  <2>3. v = [r EXCEPT !.held = put, !.supply = s, !.requests = E, !.fulfilled = F]
    BY <1>6, <1>8, <2>2
  <2>4. /\ put \in MintMaps
        /\ \A g \in SUBSET MintUsers : authorities \subseteq g =>
             Worth(put, GrantedBy(g)) + q <= Worth(w.held, GrantedBy(g))
    <3>1. put \in MintMaps
      BY <1>1, <1>2, MintIsTaken
    <3>2. ASSUME NEW g \in SUBSET MintUsers, authorities \subseteq g
          PROVE  Worth(put, GrantedBy(g)) + q <= Worth(w.held, GrantedBy(g))
      BY <1>1, <1>2, <2>1, <3>2, MintIsTaken
    <3>3. QED
      BY <3>1, <3>2
  <2> HIDE DEF v, put, s, E, F, r
  <2>5. /\ v \in Writings(t)
        /\ v.by = r.by /\ v.minted = r.minted /\ v.quantity = r.quantity /\ v.instances = r.instances
        /\ v.held = put /\ v.supply = s
    BY <1>5, <2>2, <2>3, <2>4 DEF Writings
  <2>6. After(w, v)
    <3> DEFINE m == w.minted
               n == v.minted
               k == StockOf(w.quantity, w.instances)
               l == StockOf(v.quantity, v.instances)
               x == w.supply
    <3>1. m \in Nat /\ n = m + q /\ k \in Nat /\ l = k + q /\ q \in Nat /\ x \in Nat /\ s = x + q
      BY <1>1, <1>2, <2>2, <2>5, WritingParts DEF s
    <3> HIDE DEF m, n, k, l, x, q, s
    <3>2. n - m = q /\ l - k = q /\ m <= n /\ s - x = q /\ q <= q
      BY <3>1
    <3>3. v.by = w.by /\ v.supply = s
      BY <2>2, <2>5
    <3>4. \A g \in SUBSET MintUsers : authorities \subseteq g =>
            Worth(v.held, GrantedBy(g)) + q <= Worth(w.held, GrantedBy(g))
      BY <2>4, <2>5
    <3>5. QED
      BY <3>2, <3>3, <3>4 DEF After, m, n, k, l, x
  <2>7. ASSUME IsNonFungible, Numbered(w.instances, w.supply)
        PROVE  Numbered(v.instances, v.supply)
    <3> DEFINE I == w.instances
               J == v.instances
    <3>1. I \in [MintUsers -> InstanceSets] /\ J = [I EXCEPT ![op.owner] = @ \cup ids]
      BY <2>2, <2>5, <2>7, WritingParts
    <3>2. ids = w.supply + 1 .. w.supply + q
      BY <2>7 DEF NextIds
    <3> DEFINE m == w.supply
               x == op.owner
    <3>3. Numbered(I, m) /\ m \in Nat /\ x \in MintUsers /\ q \in Nat
      BY <1>1, <1>2, <2>7, WritingParts
    <3> HIDE DEF I, J, ids
    <3>4. J[x] = I[x] \cup (m + 1 .. m + q) /\ \A u \in MintUsers \ {x} : J[u] = I[u]
      BY <1>1, <3>1, <3>2
    <3> HIDE DEF m, x, q
    <3>5. Numbered(J, m + q)
      BY <3>3, <3>4, NumberedGrows
    <3>6. QED
      BY <2>5, <3>5 DEF J, s, m, q
  <2>8. NumbersOn(w, v)
    <3> DEFINE m == w.minted
               x == w.supply
               I == w.instances
               J == v.instances
    <3>1. m \in Nat /\ x \in Nat /\ q \in Nat /\ v.minted = m + q /\ v.supply = x + q
      BY <1>1, <1>2, <2>2, <2>5 DEF s
    <3>2. ASSUME IsNonFungible
          PROVE  /\ \A u \in MintUsers : I[u] \subseteq J[u]
                 /\ UNION {J[u] \ I[u] : u \in MintUsers} = x + 1 .. x + q
      <4>1. I \in [MintUsers -> InstanceSets] /\ J = [I EXCEPT ![op.owner] = @ \cup ids]
        BY <2>2, <2>5, <3>2, WritingParts
      <4>2. ids = x + 1 .. x + q /\ ids \cap I[op.owner] = {}
        BY <2>1, <3>2 DEF NextIds, CanReceive
      <4> HIDE DEF I, J, ids, x, q
      <4>3. J[op.owner] = I[op.owner] \cup ids /\ \A u \in MintUsers \ {op.owner} : J[u] = I[u]
        BY <1>1, <4>1
      <4>4. /\ \A u \in MintUsers : I[u] \subseteq J[u]
            /\ ids \cap I[op.owner] = {} => UNION {J[u] \ I[u] : u \in MintUsers} = ids
        BY <1>1, <4>3, OneReceives
      <4>5. QED
        BY <4>2, <4>4
    <3> HIDE DEF m, x, q
    <3>3. (x + q) - x = (m + q) - m
      BY <3>1
    <3>4. QED
      BY <3>1, <3>2, <3>3 DEF NumbersOn, m, x, I, J
  <2>9. QED
    BY <2>5, <2>6, <2>7, <2>8 DEF v
<1>9. QED
  BY <1>7, <1>8

\* All mints of a call, one after the other.
LEMMA MintAllAfter ==
  ASSUME NEW t \in Nat \ {0}, IsLog(mintRequests, t), NEW start \in Writings(t), NEW ops \in Seq(Ops)
  PROVE  LET v == MintAll(start, ops, t)
         IN  /\ v \in Writings(t) /\ After(start, v) /\ NumbersOn(start, v)
             /\ IsNonFungible /\ Numbered(start.instances, start.supply) => Numbered(v.instances, v.supply)
<1> DEFINE Keeps(w) == IsNonFungible /\ Numbered(start.instances, start.supply) => Numbered(w.instances, w.supply)
           A == {w \in Writings(t) : After(start, w) /\ NumbersOn(start, w) /\ Keeps(w)}
           Next1(op, w) == MintOne(w, op, t)
           G == [op \in Ops |-> [w \in A |-> Next1(op, w)]]
           Solves(iter) == iter = [T \in SUBSET DOMAIN ops |->
                                     IF T = {} THEN start ELSE Next1(ops[Max(T)], iter[T \ {Max(T)}])]
<1>1. ASSUME NEW op \in Ops, NEW w \in A PROVE Next1(op, w) \in A
  <2>1. w \in Writings(t) /\ After(start, w) /\ NumbersOn(start, w) /\ Keeps(w)
    OBVIOUS
  <2>2. /\ Next1(op, w) \in Writings(t) /\ After(w, Next1(op, w)) /\ NumbersOn(w, Next1(op, w))
        /\ IsNonFungible /\ Numbered(w.instances, w.supply)
             => Numbered(Next1(op, w).instances, Next1(op, w).supply)
    BY <2>1, MintOneAfter
  <2> HIDE DEF Next1
  <2>3. After(start, Next1(op, w)) /\ NumbersOn(start, Next1(op, w))
    BY <2>1, <2>2, AfterBoth, NumbersBoth
  <2>4. QED
    BY <2>1, <2>2, <2>3
<1>2. start \in A
  <2>1. start.held \in MintMaps /\ \A X : Worth(start.held, X) \in Nat
    BY WritingParts, MapWorth
  <2>2. After(start, start) /\ NumbersOn(start, start)
    BY <2>1, AfterItself, NumbersItself
  <2>3. QED
    BY <2>2
<1> HIDE DEF A, Next1
<1>3. G \in [Ops -> [A -> A]] /\ \A op \in Ops : \A w \in A : G[op][w] = Next1(op, w)
  BY <1>1
<1> HIDE DEF G
<1>4. Foldable(ops, Ops, A, start, G)
  BY <1>2, <1>3 DEF Foldable
<1>5. DOMAIN ops = 1 .. Len(ops) /\ Len(ops) \in Nat /\ \A i \in 1 .. Len(ops) : ops[i] \in Ops
  OBVIOUS
<1>6. ASSUME NEW T \in SUBSET DOMAIN ops, T # {} PROVE ops[Max(T)] \in Ops
  BY <1>5, <1>6, MaxOfIndices
<1>7. PICK it \in [SUBSET DOMAIN ops -> A] : Accumulates(it, ops, start, A, G)
  BY <1>4, AccumulatorsExist
<1>8. \E iter : Solves(iter)
  <2>1. ASSUME NEW T \in SUBSET DOMAIN ops
        PROVE  it[T] = IF T = {} THEN start ELSE Next1(ops[Max(T)], it[T \ {Max(T)}])
    <3>1. it[T] = IF T = {} THEN start ELSE G[ops[Max(T)]][it[T \ {Max(T)}]]
      BY <1>7 DEF Accumulates
    <3>2. it[T \ {Max(T)}] \in A
      BY <1>7
    <3>3. QED
      BY <1>3, <1>6, <3>1, <3>2
  <2>2. Solves(it)
    BY <1>7, <2>1
  <2>3. QED
    BY <2>2
<1> DEFINE iter == CHOOSE iter : Solves(iter)
<1>9. Solves(iter)
  BY <1>8
<1>10. MintAll(start, ops, t) = iter[DOMAIN ops]
  BY DEF MintAll, FoldLeft, MapThenFoldSet, Next1
<1> HIDE DEF iter
<1>11. AccumulatesWithin(iter, ops, start, A, G)
  <2>1. iter[{}] = start
    BY <1>9
  <2>2. ASSUME NEW T \in SUBSET DOMAIN ops, T # {}, iter[T \ {Max(T)}] \in A
        PROVE  iter[T] = G[ops[Max(T)]][iter[T \ {Max(T)}]]
    <3>1. iter[T] = Next1(ops[Max(T)], iter[T \ {Max(T)}])
      BY <1>9, <2>2
    <3>2. QED
      BY <1>3, <1>6, <2>2, <3>1
  <2>3. QED
    BY <2>1, <2>2 DEF AccumulatesWithin
<1>12. iter[DOMAIN ops] \in A
  BY <1>4, <1>11, FoldStays
<1>13. QED
  BY <1>10, <1>12 DEF A

-----------------------------------------------------------------------------
(* Fulfilling.                                                             *)

\* A fulfilment writes no request and leaves totalSupply.
Passes(w, v) == v.requests = w.requests /\ v.supply = w.supply

\* It passes over a request, or marks it fulfilled and mints its instances.
Claims(w, v, e, counter) ==
  \/ v.instances = w.instances /\ v.fulfilled = w.fulfilled /\ v.minted = w.minted
  \/ /\ v.fulfilled = w.fulfilled \cup {MintId(e)} /\ v.minted = w.minted + e.quantity
     /\ IsNonFungible =>
          /\ NextIds(counter, e.quantity) \cap w.instances[e.user] = {}
          /\ v.instances[e.user] = w.instances[e.user] \cup NextIds(counter, e.quantity)
          /\ \A u \in MintUsers \ {e.user} : v.instances[u] = w.instances[u]

LEMMA FulfillOneAfter ==
  ASSUME NEW t \in Nat \ {0}, NEW w \in Writings(t), NEW e \in Entries(t),
         NEW range, HasQuantities(range), NEW requests, NEW baseline \in Nat
  PROVE  LET v       == FulfillOne(w, e, range, requests, baseline, t)
             counter == RunningTotal(range \ requests, baseline, e)
         IN  v \in Writings(t) /\ After(w, v) /\ Passes(w, v) /\ Claims(w, v, e, counter)
<1> DEFINE v == FulfillOne(w, e, range, requests, baseline, t)
           q == e.quantity
           use == UseMint(w.held, q, t)
           counter == RunningTotal(range \ requests, baseline, e)
           w1 == [w EXCEPT !.held = use.put]
           stop == [w EXCEPT !.ok = FALSE]
           ids == NextIds(counter, q)
           r == Receive(w1, e.user, q, ids)
           F == r.fulfilled \cup {MintId(e)}
           done == [r EXCEPT !.fulfilled = F]
           Claim(x) ==
             /\ x \in Writings(t) /\ After(w, x)
             /\ x.requests = w.requests /\ x.supply = w.supply
             /\ \/ x.instances = w.instances /\ x.fulfilled = w.fulfilled /\ x.minted = w.minted
                \/ /\ x.fulfilled = w.fulfilled \cup {MintId(e)} /\ x.minted = w.minted + q
                   /\ IsNonFungible =>
                        /\ ids \cap w.instances[e.user] = {}
                        /\ x.instances[e.user] = w.instances[e.user] \cup ids
                        /\ \A u \in MintUsers \ {e.user} : x.instances[u] = w.instances[u]
<1>1. q \in Nat /\ e.user \in MintUsers /\ MintId(e) \in MintIds(t)
  <2>1. q \in Nat /\ e.user \in MintUsers /\ e.time \in 1 .. t /\ e.by \in MintUsers
    BY DEF Entries, MintQuantities
  <2>2. QED
    BY <2>1 DEF MintId, MintIds
<1>2. w.held \in MintMaps /\ w.minted \in Nat /\ w.supply \in Nat /\ \A X : Worth(w.held, X) \in Nat
  BY WritingParts, MapWorth
<1>3. counter \in Nat
  <2>1. HasQuantities(range \ requests)
    BY PartSum
  <2>2. QED
    BY <2>1, RunningIsNat
<1>4. /\ use.put \in MintMaps
      /\ \A g \in SUBSET MintUsers : authorities \subseteq g =>
           /\ Worth(use.put, GrantedBy(g)) <= Worth(w.held, GrantedBy(g))
           /\ Succeeds(w.held, use) => Worth(use.put, GrantedBy(g)) + q <= Worth(w.held, GrantedBy(g))
  <2>1. use.put \in MintMaps
    BY <1>1, <1>2, MintIsTaken
  <2>2. ASSUME NEW g \in SUBSET MintUsers, authorities \subseteq g
        PROVE  /\ Worth(use.put, GrantedBy(g)) <= Worth(w.held, GrantedBy(g))
               /\ Succeeds(w.held, use) => Worth(use.put, GrantedBy(g)) + q <= Worth(w.held, GrantedBy(g))
    BY <1>1, <1>2, <2>2, MintIsTaken
  <2>3. QED
    BY <2>1, <2>2
<1>5. \/ v = w \/ v = stop \/ v = w1
      \/ v = done /\ Succeeds(w.held, use) /\ CanReceive(w1, e.user, ids)
  BY DEF FulfillOne, ConstructVerifiedMints
<1> HIDE DEF v, use, counter, ids
<1>6. Claim(w)
  <2>1. After(w, w)
    BY <1>2, AfterItself
  <2>2. QED
    BY <2>1
<1>7. Claim(stop)
  <2> HIDE DEF stop
  <2>1. stop \in Writings(t) /\ stop.by = w.by /\ stop.minted = w.minted /\ stop.supply = w.supply
        /\ stop.quantity = w.quantity /\ stop.instances = w.instances /\ stop.held = w.held
        /\ stop.requests = w.requests /\ stop.fulfilled = w.fulfilled
    BY DEF stop, Writings
  <2>2. After(w, stop)
    BY <1>2, <2>1, AfterItself
  <2>3. QED
    BY <2>1, <2>2
<1>8. /\ w1 \in Writings(t) /\ w1.by = w.by /\ w1.minted = w.minted /\ w1.supply = w.supply
      /\ w1.quantity = w.quantity /\ w1.instances = w.instances /\ w1.held = use.put
      /\ w1.requests = w.requests /\ w1.fulfilled = w.fulfilled
  BY <1>4 DEF Writings
<1> HIDE DEF w1, stop
<1>9. Claim(w1)
  <2>1. After(w, w1)
    BY <1>4, <1>8, AfterItself
  <2>2. QED
    BY <1>8, <2>1
<1>10. ASSUME Succeeds(w.held, use), CanReceive(w1, e.user, ids)
       PROVE  Claim(done)
  <2>1. /\ r \in Writings(t)
        /\ r.by = w1.by /\ r.held = w1.held /\ r.supply = w1.supply
        /\ r.requests = w1.requests /\ r.fulfilled = w1.fulfilled
        /\ r.minted = w1.minted + q
        /\ StockOf(r.quantity, r.instances) = StockOf(w1.quantity, w1.instances) + q
        /\ r.instances = IF IsNonFungible
                         THEN [w1.instances EXCEPT ![e.user] = @ \cup ids]
                         ELSE w1.instances
    BY <1>1, <1>3, <1>8, <1>10, Received DEF ids
  <2>2. F \in SUBSET MintIds(t) /\ F = w.fulfilled \cup {MintId(e)}
    BY <1>1, <1>8, <2>1, WritingParts
  <2> HIDE DEF r, F, Claim
  <2>3. /\ done \in Writings(t)
        /\ done.by = r.by /\ done.held = r.held /\ done.supply = r.supply
        /\ done.requests = r.requests /\ done.fulfilled = F
        /\ done.minted = r.minted /\ done.quantity = r.quantity /\ done.instances = r.instances
    BY <2>1, <2>2 DEF Writings
  <2> HIDE DEF done
  <2>4. After(w, done)
    <3> DEFINE m == w.minted
               n == done.minted
               k == StockOf(w.quantity, w.instances)
               l == StockOf(done.quantity, done.instances)
               x == w.supply
               y == done.supply
    <3>1. m \in Nat /\ n = m + q /\ k \in Nat /\ l = k + q /\ x \in Nat /\ y = x
      BY <1>2, <1>8, <2>1, <2>3, WritingParts
    <3> HIDE DEF m, n, k, l, x, y, q
    <3>2. n - m = q /\ l - k = q /\ m <= n /\ y - x <= q
      BY <1>1, <3>1
    <3>3. done.by = w.by /\ done.held = use.put
      BY <1>8, <2>1, <2>3
    <3>4. \A g \in SUBSET MintUsers : authorities \subseteq g =>
            Worth(done.held, GrantedBy(g)) + q <= Worth(w.held, GrantedBy(g))
      BY <1>4, <1>10, <3>3
    <3>5. QED
      BY <3>2, <3>3, <3>4 DEF After, m, n, k, l, x, y
  <2>5. ASSUME IsNonFungible
        PROVE  /\ ids \cap w.instances[e.user] = {}
               /\ done.instances[e.user] = w.instances[e.user] \cup ids
               /\ \A u \in MintUsers \ {e.user} : done.instances[u] = w.instances[u]
    <3> DEFINE I == w.instances
               J == done.instances
    <3>1. I \in [MintUsers -> InstanceSets] /\ J = [I EXCEPT ![e.user] = @ \cup ids]
      BY <1>8, <2>1, <2>3, <2>5, WritingParts
    <3>2. ids \cap I[e.user] = {}
      BY <1>8, <1>10 DEF CanReceive
    <3> HIDE DEF I, J
    <3>3. J[e.user] = I[e.user] \cup ids /\ \A u \in MintUsers \ {e.user} : J[u] = I[u]
      BY <1>1, <3>1
    <3>4. QED
      BY <3>2, <3>3 DEF I, J
  <2>6. /\ done.requests = w.requests /\ done.supply = w.supply
        /\ done.fulfilled = w.fulfilled \cup {MintId(e)} /\ done.minted = w.minted + q
    BY <1>8, <2>1, <2>2, <2>3
  <2>7. QED
    BY <2>3, <2>4, <2>5, <2>6 DEF Claim
<1> HIDE DEF Claim, done, r
<1>11. Claim(v)
  BY <1>5, <1>6, <1>7, <1>9, <1>10
<1>12. QED
  BY <1>11 DEF Claim, v, ids, counter, Passes, Claims

\* All requests of a call, one after the other.
LEMMA FulfillAllAfter ==
  ASSUME NEW t \in Nat \ {0}, NEW start \in Writings(t), NEW fulfil \in Seq(Entries(t)),
         NEW range, HasQuantities(range), NEW requests, NEW baseline \in Nat
  PROVE  LET v == FulfillAll(start, fulfil, range, requests, baseline, t)
         IN  /\ v \in Writings(t) /\ After(start, v) /\ Passes(start, v)
             /\ Len(fulfil) = 1 => v = FulfillOne(start, fulfil[1], range, requests, baseline, t)
<1> DEFINE A == {w \in Writings(t) :
                   After(start, w) /\ Passes(start, w)}
           Next1(e, w) == FulfillOne(w, e, range, requests, baseline, t)
           X == Entries(t)
           G == [e \in X |-> [w \in A |-> Next1(e, w)]]
           Solves(iter) == iter = [T \in SUBSET DOMAIN fulfil |->
                                     IF T = {} THEN start ELSE Next1(fulfil[Max(T)], iter[T \ {Max(T)}])]
<1>1. ASSUME NEW e \in X, NEW w \in A PROVE Next1(e, w) \in A
  <2>1. w \in Writings(t) /\ After(start, w) /\ Passes(start, w)
    OBVIOUS
  <2>0. e \in Entries(t)
    OBVIOUS
  <2> HIDE DEF A, X
  <2>2. Next1(e, w) \in Writings(t) /\ After(w, Next1(e, w)) /\ Passes(w, Next1(e, w))
    BY <2>0, <2>1, FulfillOneAfter
  <2> USE DEF A
  <2> HIDE DEF Next1
  <2>3. After(start, Next1(e, w))
    BY <2>1, <2>2, AfterBoth
  <2>4. QED
    BY <2>1, <2>2, <2>3 DEF Passes
<1>2. start \in A
  <2>1. start.held \in MintMaps /\ \A Y : Worth(start.held, Y) \in Nat
    BY WritingParts, MapWorth
  <2>2. After(start, start)
    BY <2>1, AfterItself
  <2>3. QED
    BY <2>2 DEF Passes
<1> HIDE DEF A, Next1, X
<1>3. G \in [X -> [A -> A]] /\ \A e \in X : \A w \in A : G[e][w] = Next1(e, w)
  BY <1>1
<1> HIDE DEF G
<1>4. Foldable(fulfil, X, A, start, G)
  BY <1>2, <1>3 DEF Foldable, X
<1>5. DOMAIN fulfil = 1 .. Len(fulfil) /\ Len(fulfil) \in Nat /\ \A i \in 1 .. Len(fulfil) : fulfil[i] \in X
  BY DEF X
<1>6. ASSUME NEW T \in SUBSET DOMAIN fulfil, T # {} PROVE fulfil[Max(T)] \in X /\ Max(T) \in T
  BY <1>5, <1>6, MaxOfIndices
<1>7. PICK it \in [SUBSET DOMAIN fulfil -> A] : Accumulates(it, fulfil, start, A, G)
  BY <1>4, AccumulatorsExist
<1>8. \E iter : Solves(iter)
  <2>1. ASSUME NEW T \in SUBSET DOMAIN fulfil
        PROVE  it[T] = IF T = {} THEN start ELSE Next1(fulfil[Max(T)], it[T \ {Max(T)}])
    <3>1. it[T] = IF T = {} THEN start ELSE G[fulfil[Max(T)]][it[T \ {Max(T)}]]
      BY <1>7 DEF Accumulates
    <3>2. it[T \ {Max(T)}] \in A
      BY <1>7
    <3>3. QED
      BY <1>3, <1>6, <3>1, <3>2
  <2>2. Solves(it)
    BY <1>7, <2>1
  <2>3. QED
    BY <2>2
<1> DEFINE iter == CHOOSE iter : Solves(iter)
<1>9. Solves(iter)
  BY <1>8
<1>10. FulfillAll(start, fulfil, range, requests, baseline, t) = iter[DOMAIN fulfil]
  BY DEF FulfillAll, FoldLeft, MapThenFoldSet, Next1
<1> HIDE DEF iter
<1>11. AccumulatesWithin(iter, fulfil, start, A, G)
  <2>1. iter[{}] = start
    BY <1>9
  <2>2. ASSUME NEW T \in SUBSET DOMAIN fulfil, T # {}, iter[T \ {Max(T)}] \in A
        PROVE  iter[T] = G[fulfil[Max(T)]][iter[T \ {Max(T)}]]
    <3>1. iter[T] = Next1(fulfil[Max(T)], iter[T \ {Max(T)}])
      BY <1>9, <2>2
    <3>2. QED
      BY <1>3, <1>6, <2>2, <3>1
  <2>3. QED
    BY <2>1, <2>2 DEF AccumulatesWithin
<1>12. iter[DOMAIN fulfil] \in A
  BY <1>4, <1>11, FoldStays
<1>13. ASSUME Len(fulfil) = 1 PROVE iter[DOMAIN fulfil] = Next1(fulfil[1], start)
  <2> DEFINE T == DOMAIN fulfil
  <2>1. T = {1}
    BY <1>5, <1>13
  <2>2. Max(T) = 1
    BY <1>6, <2>1
  <2>3. T \ {Max(T)} = {}
    BY <2>1, <2>2
  <2> HIDE DEF T
  <2>4. iter[T] = Next1(fulfil[Max(T)], iter[T \ {Max(T)}]) /\ iter[{}] = start
    BY <1>9, <2>1 DEF T
  <2>5. QED
    BY <2>2, <2>3, <2>4 DEF T
<1>14. QED
  BY <1>10, <1>12, <1>13 DEF A, Next1

-----------------------------------------------------------------------------
(* What holds at all times.                                                *)

MintInv ==
  /\ deployment \in Deployments
  /\ authorities \in (SUBSET MintUsers) \ {{}}
  /\ latest \in 0 .. MaxTime
  /\ mintAllowances \in [MintUsers -> MintMaps]
  /\ IsLog(allowanceRequests, latest)
  /\ IsLog(mintRequests, latest)
  /\ IsLog(burnCounters, latest)
  /\ fulfilled \subseteq MintIds(latest) \cup AllowanceIds(latest)
  /\ totalSupply \in Nat /\ minted \in Nat /\ burned \in Nat /\ totalSupply <= minted
  /\ fungible \in [MintUsers -> Nat]
  /\ instances \in [MintUsers -> InstanceSets] /\ tokenInstances \in InstanceSets
  /\ \A u \in MintUsers : instances[u] \subseteq tokenInstances
  /\ StockOf(fungible, instances) + burned = minted

NewlyGranted == {e \in allowanceRequests' : AllowanceId(e) \in fulfilled' \ fulfilled}

\* What a step of the system does that grants no more than the requests.
StepGranting(requests) ==
  /\ MintInv'
  /\ \A g \in SUBSET MintUsers : authorities \subseteq g =>
       minted' + MintsLeft(mintAllowances', g)
         <= minted + MintsLeft(mintAllowances, g) + EntryQuantity(requests)
  /\ allowanceRequests \subseteq allowanceRequests'
  /\ fulfilled \subseteq fulfilled' /\ again \subseteq again'

\* What it does unless it fulfils requests of allowances a second time.
MintStep == StepGranting(NewlyGranted)

LEMMA InitMintInv == InitMint => MintInv
<1> SUFFICES ASSUME InitMint PROVE MintInv
  OBVIOUS
<1>1. MaxTime \in Nat
  BY MintAssumption
<1>2. [k \in MintKeys |-> NoAllowance] \in MintMaps
  BY DEF MintMaps, MapsOf
<1>3. mintAllowances \in [MintUsers -> MintMaps]
  BY <1>2 DEF InitMint
<1>4. \A t : IsLog({}, t)
  BY FS_EmptySet DEF IsLog
<1>5. {} \in InstanceSets /\ Cardinality({}) = 0
  BY FS_EmptySet DEF InstanceSets
<1>6. /\ fungible \in [MintUsers -> Nat] /\ instances \in [MintUsers -> InstanceSets]
      /\ tokenInstances \in InstanceSets /\ \A u \in MintUsers : instances[u] \subseteq tokenInstances
  BY <1>5 DEF InitMint
<1>7. StockOf(fungible, instances) = 0
  <2>1. /\ Summable(fungible, MintUsers) /\ \A u \in MintUsers : fungible[u] = 0
        /\ Summable(Counts(instances), MintUsers) /\ \A u \in MintUsers : Counts(instances)[u] = 0
    BY <1>5, MintAssumption DEF InitMint, Summable, Counts
  <2>2. SumFunctionOnSet(fungible, MintUsers) = 0 /\ SumFunctionOnSet(Counts(instances), MintUsers) = 0
    BY <2>1, SumOfZeros
  <2>3. QED
    BY <2>2 DEF StockOf, Counts
<1>8. deployment \in Deployments /\ authorities \in (SUBSET MintUsers) \ {{}}
  BY DEF InitMint
<1>9. QED
  BY <1>1, <1>3, <1>4, <1>6, <1>7, <1>8 DEF InitMint, MintInv

LEMMA NowLater ==
  ASSUME MintInv, NEW t \in MintTimes, t > latest
  PROVE  /\ t \in Nat \ {0} /\ t <= MaxTime /\ latest \in Nat /\ latest < t
         /\ IsLog(allowanceRequests, t) /\ IsLog(mintRequests, t) /\ IsLog(burnCounters, t)
         /\ MintIds(latest) \subseteq MintIds(t) /\ AllowanceIds(latest) \subseteq AllowanceIds(t)
         /\ t \in 0 .. MaxTime
<1>1. t \in Nat \ {0} /\ t <= MaxTime /\ latest \in Nat /\ latest < t /\ t \in 0 .. MaxTime
  BY MintAssumption DEF MintInv, MintTimes
<1>2. 1 .. latest \subseteq 1 .. t
  BY <1>1
<1>3. MintIds(latest) \subseteq MintIds(t) /\ AllowanceIds(latest) \subseteq AllowanceIds(t)
  BY <1>2 DEF MintIds, AllowanceIds
<1>4. IsLog(allowanceRequests, t) /\ IsLog(mintRequests, t) /\ IsLog(burnCounters, t)
  BY <1>1, LaterLog DEF MintInv
<1>5. QED
  BY <1>1, <1>3, <1>4

\* No mint is the grant of an allowance, and nothing was fulfilled later than now.
LEMMA IdsDiffer ==
  /\ \A s, t, e : AllowanceId(e) \in MintIds(t) => FALSE
  /\ \A t \in Nat : \A e : AllowanceId(e) \in AllowanceIds(t) => e.time <= t
  /\ \A d, e : AllowanceId(d) = AllowanceId(e) => d.time = e.time /\ d.user = e.user
<1>1. \A t, e : AllowanceId(e) \in MintIds(t) => FALSE
  BY DEF AllowanceId, MintIds
<1>2. \A t \in Nat : \A e : AllowanceId(e) \in AllowanceIds(t) => e.time <= t
  BY DEF AllowanceId, AllowanceIds
<1>3. \A d, e : AllowanceId(d) = AllowanceId(e) => d.time = e.time /\ d.user = e.user
  BY DEF AllowanceId
<1>4. QED
  BY <1>1, <1>2, <1>3

LEMMA WrittenIs ==
  ASSUME MintInv, NEW t \in MintTimes, t > latest, NEW held \in [MintUsers -> MintMaps], NEW by \in MintUsers
  PROVE  LET w == Written(held, by)
         IN  /\ w \in Writings(t) /\ w.by = by /\ w.held = held[by] /\ w.supply = totalSupply
             /\ w.requests = mintRequests /\ w.quantity = fungible /\ w.instances = instances
             /\ w.fulfilled = {} /\ w.minted = 0
<1>1. IsLog(mintRequests, t)
  BY NowLater
<1>2. mintRequests \in Logs(t)
  BY <1>1 DEF Logs, IsLog
<1>3. /\ held[by] \in MintMaps /\ totalSupply \in Nat /\ fungible \in [MintUsers -> Nat]
      /\ instances \in [MintUsers -> InstanceSets]
  BY DEF MintInv
<1>4. QED
  BY <1>2, <1>3 DEF Written, Writings

\* The instances of all users, with those that are added to some of them.
LEMMA InstancesAdded ==
  ASSUME NEW I \in [MintUsers -> InstanceSets], NEW J \in [MintUsers -> InstanceSets],
         NEW N \in InstanceSets, \A u \in MintUsers : I[u] \subseteq N,
         NEW all, all = N \cup UNION {J[u] \ I[u] : u \in MintUsers}
  PROVE  all \in InstanceSets /\ \A u \in MintUsers : J[u] \subseteq all
<1> DEFINE new == {J[u] \ I[u] : u \in MintUsers}
           f == [u \in MintUsers |-> J[u] \ I[u]]
<1>1. \A u \in MintUsers : J[u] \in SUBSET Nat /\ IsFiniteSet(J[u])
  BY DEF InstanceSets
<1>2. f \in Surjection(MintUsers, new)
  <2>1. f \in [MintUsers -> new] /\ \A x \in new : \E u \in MintUsers : f[u] = x
    OBVIOUS
  <2>2. QED
    BY <2>1 DEF Surjection
<1>3. \A x \in new : x \in SUBSET Nat /\ IsFiniteSet(x)
  <2>1. \A u \in MintUsers : J[u] \ I[u] \in SUBSET Nat /\ IsFiniteSet(J[u] \ I[u])
    <3>1. ASSUME NEW u \in MintUsers PROVE J[u] \ I[u] \in SUBSET Nat /\ IsFiniteSet(J[u] \ I[u])
      <4>1. J[u] \ I[u] \in SUBSET J[u]
        OBVIOUS
      <4>2. QED
        BY <1>1, <4>1, FS_Subset
    <3>2. QED
      BY <3>1
  <2>2. QED
    BY <2>1
<1>4. \A u \in MintUsers : J[u] \subseteq N \cup UNION new
  OBVIOUS
<1> HIDE DEF new, f
<1>5. IsFiniteSet(new)
  BY <1>2, MintAssumption, FS_Surjection
<1>6. IsFiniteSet(UNION new) /\ UNION new \in SUBSET Nat
  BY <1>3, <1>5, FS_UNION
<1>7. N \cup UNION new \in InstanceSets
  BY <1>6, FS_Union DEF InstanceSets
<1>8. QED
  BY <1>4, <1>7 DEF new

\* What a call that mints leaves.
LEMMA WritesKeep ==
  ASSUME MintInv, NEW t \in MintTimes, t > latest, NEW held \in [MintUsers -> MintMaps], NEW by \in MintUsers,
         NEW w \in Writings(t), After(Written(held, by), w), Write(w, held), UNCHANGED deployment
  PROVE  /\ mintAllowances' \in [MintUsers -> MintMaps]
         /\ IsLog(mintRequests', t)
         /\ totalSupply' \in Nat /\ minted' \in Nat /\ totalSupply' <= minted' /\ minted <= minted'
         /\ fungible' \in [MintUsers -> Nat] /\ instances' \in [MintUsers -> InstanceSets]
         /\ tokenInstances' \in InstanceSets /\ \A u \in MintUsers : instances'[u] \subseteq tokenInstances'
         /\ StockOf(fungible, instances)' + burned = minted'
         /\ w.fulfilled \subseteq MintIds(t)
         /\ \A g \in SUBSET MintUsers : authorities \subseteq g =>
              minted' + MintsLeft(mintAllowances', g) <= minted + MintsLeft(held, g)
<1> DEFINE v == Written(held, by)
<1>1. /\ v \in Writings(t) /\ v.by = by /\ v.held = held[by] /\ v.supply = totalSupply
      /\ v.requests = mintRequests /\ v.quantity = fungible /\ v.instances = instances
      /\ v.fulfilled = {} /\ v.minted = 0
  BY WrittenIs
<1> HIDE DEF v
<1>2. /\ w.by = by /\ 0 <= w.minted /\ w.supply - totalSupply <= w.minted - 0
      /\ StockOf(w.quantity, w.instances) - StockOf(fungible, instances) = w.minted - 0
      /\ \A g \in SUBSET MintUsers : authorities \subseteq g =>
           Worth(w.held, GrantedBy(g)) + (w.minted - 0) <= Worth(held[by], GrantedBy(g))
  BY <1>1 DEF After, v
<1>3. /\ w.held \in MintMaps /\ w.supply \in Nat /\ IsLog(w.requests, t) /\ w.quantity \in [MintUsers -> Nat]
      /\ w.instances \in [MintUsers -> InstanceSets] /\ w.fulfilled \in SUBSET MintIds(t) /\ w.minted \in Nat
      /\ StockOf(w.quantity, w.instances) \in Nat
  BY WritingParts
<1>4. /\ totalSupply' = w.supply /\ mintAllowances' = [held EXCEPT ![by] = w.held]
      /\ mintRequests' = w.requests /\ fungible' = w.quantity /\ instances' = w.instances
      /\ tokenInstances' = tokenInstances \cup UNION {w.instances[u] \ instances[u] : u \in MintUsers}
      /\ minted' = minted + w.minted
  BY <1>2 DEF Write
<1>12. tokenInstances' \in InstanceSets /\ \A u \in MintUsers : instances'[u] \subseteq tokenInstances'
  <2> DEFINE I == w.instances
  <2>1. I \in [MintUsers -> InstanceSets] /\ instances \in [MintUsers -> InstanceSets]
        /\ tokenInstances \in InstanceSets /\ \A u \in MintUsers : instances[u] \subseteq tokenInstances
    BY <1>3 DEF MintInv
  <2>2. tokenInstances' = tokenInstances \cup UNION {I[u] \ instances[u] : u \in MintUsers} /\ instances' = I
    BY <1>4
  <2> HIDE DEF I
  <2>3. QED
    BY <2>1, <2>2, InstancesAdded
<1>5. /\ mintAllowances' \in [MintUsers -> MintMaps] /\ mintAllowances'[by] = w.held
      /\ \A u \in MintUsers \ {by} : mintAllowances'[u] = held[u]
  BY <1>3, <1>4
<1>6. totalSupply \in Nat /\ minted \in Nat /\ burned \in Nat /\ totalSupply <= minted
      /\ StockOf(fungible, instances) \in Nat /\ StockOf(fungible, instances) + burned = minted
  BY StockType DEF MintInv
<1>7. StockOf(fungible, instances)' = StockOf(w.quantity, w.instances)
  BY <1>4 DEF StockOf, IsNonFungible
<1>8. ASSUME NEW g \in SUBSET MintUsers, authorities \subseteq g
      PROVE  minted' + MintsLeft(mintAllowances', g) <= minted + MintsLeft(held, g)
  <2> DEFINE la == MintsLeft(mintAllowances', g)
             lb == MintsLeft(held, g)
             wa == Worth(w.held, GrantedBy(g))
             wb == Worth(held[by], GrantedBy(g))
             m == w.minted
  <2>1. la = lb + (wa - wb) /\ la \in Nat /\ lb \in Nat
    BY <1>5, LeftAtOne
  <2>2. wa + m <= wb /\ wa \in Nat /\ wb \in Nat /\ m \in Nat
    <3>1. wa + (m - 0) <= wb
      BY <1>2, <1>8
    <3>2. held[by] \in MintMaps
      OBVIOUS
    <3>3. wa \in Nat /\ wb \in Nat
      BY <1>3, <3>2, MapWorth
    <3>4. QED
      BY <1>3, <3>1, <3>3
  <2>3. minted' = minted + m /\ minted \in Nat
    BY <1>4, <1>6
  <2> HIDE DEF la, lb, wa, wb, m
  <2>4. minted' + la <= minted + lb
    BY <2>1, <2>2, <2>3
  <2>5. QED
    BY <2>4 DEF la, lb
<1> DEFINE sa == StockOf(fungible, instances)
           sb == StockOf(w.quantity, w.instances)
           m == w.minted
           x == w.supply
<1>9. /\ sa \in Nat /\ sb \in Nat /\ m \in Nat /\ x \in Nat
      /\ sb - sa = m /\ x - totalSupply <= m /\ sa + burned = minted
      /\ minted' = minted + m /\ totalSupply' = x /\ StockOf(fungible, instances)' = sb
  BY <1>2, <1>3, <1>4, <1>6, <1>7
<1> HIDE DEF sa, sb, m, x
<1>10. /\ totalSupply' \in Nat /\ minted' \in Nat /\ totalSupply' <= minted' /\ minted <= minted'
       /\ sb + burned = minted'
  BY <1>6, <1>9
<1>11. QED
  BY <1>3, <1>4, <1>5, <1>8, <1>9, <1>10, <1>12

-----------------------------------------------------------------------------
(* What each step does.                                                    *)

\* Requests that a call writes as granted are what it has newly granted.
LEMMA GrantsAreNew ==
  ASSUME MintInv, NEW t \in MintTimes, t > latest, NEW requests, IsLog(requests, t),
         \A r \in requests : r.time = t, NEW others \in SUBSET MintIds(t),
         allowanceRequests' = PutRequests(allowanceRequests, requests),
         \A i : i \in fulfilled' <=> i \in fulfilled \/ i \in others \/ \E r \in requests : i = AllowanceId(r)
  PROVE  /\ NewlyGranted = requests
         /\ IsLog(allowanceRequests', t) /\ allowanceRequests \subseteq allowanceRequests'
         /\ fulfilled \subseteq fulfilled' /\ fulfilled' \subseteq MintIds(t) \cup AllowanceIds(t)
<1>1. /\ t \in Nat \ {0} /\ latest \in Nat /\ latest < t /\ IsLog(allowanceRequests, t)
      /\ MintIds(latest) \subseteq MintIds(t) /\ AllowanceIds(latest) \subseteq AllowanceIds(t)
  BY NowLater
<1>2. IsLog(allowanceRequests, latest) /\ fulfilled \subseteq MintIds(latest) \cup AllowanceIds(latest)
  BY DEF MintInv
<1>3. allowanceRequests' = allowanceRequests \cup requests
  BY <1>1, <1>2, PutLater
<1>4. IsLog(allowanceRequests', t)
  BY <1>1, PutAllIsLog
<1>5. \A e \in allowanceRequests : e.time \in Nat /\ e.time <= latest
  BY <1>1, <1>2, LogEntries
<1>6. \A r \in requests : AllowanceId(r) \in AllowanceIds(t)
  <2>1. \A r \in requests : r.time \in 1 .. t /\ r.user \in MintUsers /\ r.by \in MintUsers
    BY <1>1, LogEntries
  <2>2. QED
    BY <2>1 DEF AllowanceId, AllowanceIds
<1>7. fulfilled \subseteq fulfilled'
  OBVIOUS
<1>8. fulfilled' \subseteq MintIds(t) \cup AllowanceIds(t)
  <2>1. ASSUME NEW i \in fulfilled' PROVE i \in MintIds(t) \cup AllowanceIds(t)
    <3>1. i \in fulfilled \/ i \in others \/ \E r \in requests : i = AllowanceId(r)
      OBVIOUS
    <3>2. QED
      BY <1>1, <1>2, <1>6, <3>1
  <2>2. QED
    BY <2>1
<1>9. ASSUME NEW r \in requests PROVE AllowanceId(r) \in fulfilled' \ fulfilled
  <2>1. AllowanceId(r) \in fulfilled'
    OBVIOUS
  <2>2. r.time = t
    OBVIOUS
  <2>3. AllowanceId(r) \notin MintIds(latest)
    BY IdsDiffer
  <2>4. AllowanceId(r) \notin AllowanceIds(latest)
    BY <1>1, <2>2, IdsDiffer
  <2>5. QED
    BY <1>2, <2>1, <2>3, <2>4
<1>10. ASSUME NEW e \in allowanceRequests PROVE AllowanceId(e) \notin fulfilled' \ fulfilled
  <2>1. AllowanceId(e) \notin others
    BY IdsDiffer
  <2>2. \A r \in requests : AllowanceId(e) # AllowanceId(r)
    <3>1. ASSUME NEW r \in requests, AllowanceId(e) = AllowanceId(r) PROVE FALSE
      <4>1. e.time = r.time
        BY <3>1, IdsDiffer
      <4>2. QED
        BY <1>1, <1>5, <4>1
    <3>2. QED
      BY <3>1
  <2>3. QED
    BY <2>1, <2>2
<1>11. NewlyGranted = requests
  BY <1>3, <1>9, <1>10 DEF NewlyGranted
<1>12. QED
  BY <1>4, <1>3, <1>7, <1>8, <1>11

\* Nothing is granted where only mints are fulfilled.
LEMMA NoneGranted ==
  ASSUME NEW t, NEW more \in SUBSET MintIds(t), fulfilled' \subseteq fulfilled \cup more
  PROVE  NewlyGranted = {} /\ EntryQuantity(NewlyGranted) = 0
<1>1. \A e : AllowanceId(e) \notin fulfilled' \ fulfilled
  BY IdsDiffer
<1>2. NewlyGranted = {}
  BY <1>1 DEF NewlyGranted
<1>3. QED
  BY <1>2, NoEntries

LEMMA KnownGrantsAreNat ==
  ASSUME MintInv, NEW t \in MintTimes, t > latest, NEW offset
  PROVE  KnownMintAllowances(t, offset) \in Nat
BY NowLater, KnownIsNat DEF KnownMintAllowances

\* The requests of a grant.
LEMMA RequestsAre ==
  ASSUME MintInv, NEW t \in MintTimes, t > latest, NEW grants \in GrantAllowanceQuantities,
         NEW by \in MintUsers, NEW offset
  PROVE  LET requests == NewRequests(grants, by, KnownMintAllowances(t, offset), t)
         IN  IsLog(requests, t) /\ \A e \in requests : e.time = t
<1>1. KnownMintAllowances(t, offset) \in Nat /\ t \in Nat \ {0}
  BY KnownGrantsAreNat, NowLater
<1>2. \A k \in Nat : /\ IsLog(NewRequests(grants, by, k, t), t)
                     /\ \A e \in NewRequests(grants, by, k, t) : e.time = t
  BY <1>1, NewAreLog
<1>3. QED
  BY <1>1, <1>2

LEMMA GrantStep ==
  ASSUME MintInv, NEW t \in MintTimes, t > latest, latest' = t,
         NEW by \in MintUsers, NEW dto \in GrantMintAllowanceDtos, GrantMintAllowance(by, dto, t)
  PROVE  MintStep
<1> DEFINE requests == GrantedAtOnce(by, dto.quantities, t)
<1>1. IsLog(requests, t) /\ \A e \in requests : e.time = t
  BY RequestsAre DEF GrantedAtOnce, GrantMintAllowanceDtos
<1>2. /\ mintAllowances' = WithGranted(requests)
      /\ allowanceRequests' = PutRequests(allowanceRequests, requests)
      /\ fulfilled' = fulfilled \cup {AllowanceId(e) : e \in requests} /\ again \subseteq again'
      /\ UNCHANGED <<deployment, authorities, totalSupply, mintRequests, fungible, instances,
                     tokenInstances, minted, burned, burnCounters>>
  BY DEF GrantMintAllowance, PutFulfilled
<1> HIDE DEF requests
<1>3. /\ NewlyGranted = requests
      /\ IsLog(allowanceRequests', t) /\ allowanceRequests \subseteq allowanceRequests'
      /\ fulfilled \subseteq fulfilled' /\ fulfilled' \subseteq MintIds(t) \cup AllowanceIds(t)
  <2>1. {} \in SUBSET MintIds(t)
    OBVIOUS
  <2>2. \A i : i \in fulfilled' <=> i \in fulfilled \/ i \in {} \/ \E r \in requests : i = AllowanceId(r)
    BY <1>2
  <2>3. allowanceRequests' = PutRequests(allowanceRequests, requests)
    BY <1>2
  <2>4. QED
    BY <1>1, <2>1, <2>2, <2>3, GrantsAreNew
<1>4. /\ t \in Nat /\ t <= MaxTime /\ t \in 0 .. MaxTime /\ MaxTime \in Nat
      /\ IsLog(mintRequests, t) /\ IsLog(burnCounters, t)
  BY NowLater, MintAssumption
<1>5. mintAllowances \in [MintUsers -> MintMaps] /\ HasQuantities(requests)
  BY <1>1, <1>4, LogEntries DEF MintInv
<1>6. mintAllowances' \in [MintUsers -> MintMaps]
  BY <1>2, <1>5, GrantedMaps
<1>7. StockOf(fungible, instances)' = StockOf(fungible, instances)
  BY <1>2 DEF StockOf, IsNonFungible
<1>8. MintInv'
  BY <1>2, <1>3, <1>4, <1>6, <1>7 DEF MintInv
<1>9. ASSUME NEW g \in SUBSET MintUsers
      PROVE  minted' + MintsLeft(mintAllowances', g)
               <= minted + MintsLeft(mintAllowances, g) + EntryQuantity(NewlyGranted)
  <2>1. IsLog(requests, MaxTime)
    BY <1>1, <1>4, LaterLog
  <2>2. MintsLeft(mintAllowances', g) <= MintsLeft(mintAllowances, g) + EntryQuantity(requests)
    BY <1>2, <1>5, <2>1, Granting
  <2>3. /\ MintsLeft(mintAllowances', g) \in Nat /\ MintsLeft(mintAllowances, g) \in Nat
        /\ EntryQuantity(requests) \in Nat /\ minted \in Nat /\ minted' = minted
    BY <1>2, <1>5, <1>6, LeftSummable, EntrySum DEF MintInv, MintsLeft
  <2>4. QED
    BY <1>3, <2>2, <2>3
<1>10. QED
  BY <1>2, <1>3, <1>8, <1>9 DEF MintStep, StepGranting

LEMMA RequestAllowanceStep ==
  ASSUME MintInv, NEW t \in MintTimes, t > latest, latest' = t,
         NEW by \in MintUsers, NEW dto \in HighThroughputGrantAllowanceDtos,
         RequestMintAllowance(by, dto, t)
  PROVE  MintStep /\ NewlyGranted = {}
<1> DEFINE requests == NewRequests(dto.quantities, by, KnownMintAllowances(t, Lookback), t)
<1>1. IsLog(requests, t) /\ \A e \in requests : e.time = t
  BY RequestsAre DEF HighThroughputGrantAllowanceDtos
<1>2. /\ allowanceRequests' = PutRequests(allowanceRequests, requests)
      /\ UNCHANGED <<deployment, authorities, ledger, burned, burnCounters>>
  BY DEF RequestMintAllowance
<1> HIDE DEF requests
<1>3. NewlyGranted = {} /\ EntryQuantity(NewlyGranted) = 0
  BY <1>2, NoneGranted DEF ledger
<1>4. /\ t \in Nat /\ latest < t /\ latest \in Nat /\ t \in 0 .. MaxTime
      /\ IsLog(mintRequests, t) /\ IsLog(burnCounters, t) /\ IsLog(allowanceRequests, t)
      /\ MintIds(latest) \subseteq MintIds(t) /\ AllowanceIds(latest) \subseteq AllowanceIds(t)
  BY NowLater
<1>5. allowanceRequests' = allowanceRequests \cup requests /\ IsLog(allowanceRequests', t)
  BY <1>1, <1>2, <1>4, PutLater, PutAllIsLog DEF MintInv
<1>6. StockOf(fungible, instances)' = StockOf(fungible, instances)
  BY <1>2 DEF StockOf, IsNonFungible, ledger
<1>7. fulfilled \subseteq MintIds(t) \cup AllowanceIds(t)
  BY <1>4 DEF MintInv
<1>8. MintInv'
  BY <1>2, <1>4, <1>5, <1>6, <1>7 DEF MintInv, ledger
<1>9. ASSUME NEW g \in SUBSET MintUsers
      PROVE  minted' + MintsLeft(mintAllowances', g)
               <= minted + MintsLeft(mintAllowances, g) + EntryQuantity(NewlyGranted)
  <2>1. MintsLeft(mintAllowances, g) \in Nat /\ minted \in Nat
    BY LeftSummable DEF MintInv, MintsLeft
  <2>2. mintAllowances' = mintAllowances /\ minted' = minted
    BY <1>2 DEF ledger
  <2>3. QED
    BY <1>3, <2>1, <2>2
<1>10. QED
  BY <1>2, <1>3, <1>5, <1>8, <1>9 DEF MintStep, StepGranting, ledger

\* What fulfilling requests of allowances leaves.
LEMMA FulfillAllowanceLeaves ==
  ASSUME MintInv, NEW t \in MintTimes, t > latest, latest' = t,
         NEW requests, FulfillMintAllowance(requests, t)
  PROVE  /\ MintInv' /\ requests \subseteq allowanceRequests /\ allowanceRequests' = allowanceRequests
         /\ IsLog(requests, t) /\ IsLog(requests, MaxTime) /\ HasQuantities(requests)
         /\ mintAllowances' = WithGranted(requests) /\ minted' = minted
         /\ fulfilled' = fulfilled \cup {AllowanceId(e) : e \in requests}
         /\ again' = again \cup ({AllowanceId(e) : e \in requests} \cap fulfilled)
<1>1. /\ requests \subseteq allowanceRequests
      /\ mintAllowances' = WithGranted(requests)
      /\ fulfilled' = fulfilled \cup {AllowanceId(e) : e \in requests}
      /\ again' = again \cup ({AllowanceId(e) : e \in requests} \cap fulfilled)
      /\ UNCHANGED <<deployment, authorities, totalSupply, mintRequests, allowanceRequests,
                     fungible, instances, tokenInstances, minted, burned, burnCounters>>
  BY DEF FulfillMintAllowance, PutFulfilled
<1>2. /\ t \in Nat /\ latest < t /\ latest \in Nat /\ t \in 0 .. MaxTime /\ t <= MaxTime /\ MaxTime \in Nat
      /\ IsLog(mintRequests, t) /\ IsLog(burnCounters, t) /\ IsLog(allowanceRequests, t)
      /\ MintIds(latest) \subseteq MintIds(t) /\ AllowanceIds(latest) \subseteq AllowanceIds(t)
  BY NowLater, MintAssumption
<1>3. IsLog(requests, t) /\ HasQuantities(requests)
  BY <1>1, <1>2, PartLog, LogEntries
<1>4. IsLog(requests, MaxTime)
  BY <1>2, <1>3, LaterLog
<1>5. fulfilled' \subseteq MintIds(t) \cup AllowanceIds(t)
  <2>1. \A r \in requests : r.time \in 1 .. t /\ r.user \in MintUsers /\ r.by \in MintUsers
    BY <1>2, <1>3, LogEntries
  <2>2. \A r \in requests : AllowanceId(r) \in AllowanceIds(t)
    BY <2>1 DEF AllowanceId, AllowanceIds
  <2>3. fulfilled \subseteq MintIds(t) \cup AllowanceIds(t)
    BY <1>2 DEF MintInv
  <2>4. QED
    BY <1>1, <2>2, <2>3
<1>6. mintAllowances' \in [MintUsers -> MintMaps]
  BY <1>1, <1>3, GrantedMaps DEF MintInv
<1>7. StockOf(fungible, instances)' = StockOf(fungible, instances)
  BY <1>1 DEF StockOf, IsNonFungible
<1>8. MintInv'
  BY <1>1, <1>2, <1>5, <1>6, <1>7 DEF MintInv
<1>9. QED
  BY <1>1, <1>3, <1>4, <1>8

\* What it grants are those of the requests whose allowances it changes.
LEMMA FulfillGrants ==
  ASSUME MintInv, NEW t \in MintTimes, t > latest, latest' = t,
         NEW requests, FulfillMintAllowance(requests, t),
         NEW T \in SUBSET requests, WithGranted(T) = WithGranted(requests),
         NEW new \in SUBSET allowanceRequests', T \subseteq new
  PROVE  StepGranting(new)
<1>1. /\ MintInv' /\ allowanceRequests' = allowanceRequests
      /\ IsLog(requests, MaxTime) /\ mintAllowances' = WithGranted(T) /\ minted' = minted
      /\ fulfilled \subseteq fulfilled' /\ again \subseteq again'
  BY FulfillAllowanceLeaves
<1>2. mintAllowances \in [MintUsers -> MintMaps] /\ mintAllowances' \in [MintUsers -> MintMaps] /\ minted \in Nat
  BY <1>1 DEF MintInv
<1>3. EntryQuantity(T) <= EntryQuantity(new) /\ EntryQuantity(T) \in Nat /\ EntryQuantity(new) \in Nat
  <2>1. latest' \in Nat /\ IsLog(allowanceRequests', latest')
    BY <1>1 DEF MintInv
  <2>2. HasQuantities(allowanceRequests')
    BY <2>1, LogEntries
  <2>3. HasQuantities(new)
    BY <2>2, PartSum
  <2>4. QED
    BY <2>3, PartSum, EntrySum
<1>4. ASSUME NEW g \in SUBSET MintUsers
      PROVE  minted' + MintsLeft(mintAllowances', g) <= minted + MintsLeft(mintAllowances, g) + EntryQuantity(new)
  <2>1. IsLog(T, MaxTime)
    BY <1>1, PartLog
  <2>2. MintsLeft(mintAllowances', g) <= MintsLeft(mintAllowances, g) + EntryQuantity(T)
    BY <1>1, <1>2, <2>1, Granting
  <2>3. MintsLeft(mintAllowances', g) \in Nat /\ MintsLeft(mintAllowances, g) \in Nat
    BY <1>2, LeftSummable DEF MintsLeft
  <2>4. QED
    BY <1>1, <1>2, <1>3, <2>2, <2>3
<1>5. QED
  BY <1>1, <1>4 DEF StepGranting

\* Requests that were not fulfilled before are what is newly granted.
LEMMA FulfillAllowanceStep ==
  ASSUME MintInv, NEW t \in MintTimes, t > latest, latest' = t,
         NEW requests, FulfillMintAllowance(requests, t), GrantedOnce'
  PROVE  MintStep /\ NewlyGranted = requests /\ \A e \in requests : AllowanceId(e) \notin fulfilled
<1>1. /\ MintInv' /\ requests \subseteq allowanceRequests /\ allowanceRequests' = allowanceRequests
      /\ fulfilled' = fulfilled \cup {AllowanceId(e) : e \in requests}
      /\ again' = again \cup ({AllowanceId(e) : e \in requests} \cap fulfilled)
  BY FulfillAllowanceLeaves
<1>2. IsLog(allowanceRequests, t)
  BY NowLater
<1>3. \A e \in requests : AllowanceId(e) \notin fulfilled
  <2>1. \A e \in requests : AllowanceId(e) \notin again'
    BY <1>1 DEF GrantedOnce
  <2>2. QED
    BY <1>1, <2>1
<1>4. NewlyGranted = requests
  <2>1. ASSUME NEW e \in requests PROVE e \in NewlyGranted
    BY <1>1, <1>3 DEF NewlyGranted
  <2>2. ASSUME NEW e \in NewlyGranted PROVE e \in requests
    <3>1. e \in allowanceRequests /\ AllowanceId(e) \in fulfilled' \ fulfilled
      BY <1>1 DEF NewlyGranted
    <3>2. PICK r \in requests : AllowanceId(e) = AllowanceId(r)
      BY <1>1, <3>1
    <3>3. e.time = r.time /\ e.user = r.user /\ r \in allowanceRequests
      BY <1>1, <3>2, IdsDiffer
    <3>4. QED
      BY <1>2, <3>1, <3>3 DEF IsLog
  <2>3. QED
    BY <2>1, <2>2
<1>5. StepGranting(NewlyGranted)
  <2>1. NewlyGranted \in SUBSET allowanceRequests'
    BY DEF NewlyGranted
  <2>2. requests \in SUBSET requests /\ requests \subseteq NewlyGranted
    BY <1>4
  <2>3. QED
    BY <2>1, <2>2, FulfillGrants
<1>6. QED
  BY <1>3, <1>4, <1>5 DEF MintStep

\* An allowance that is put as it was before grants nothing.
LEMMA FulfillAgainStep ==
  ASSUME MintInv, NEW t \in MintTimes, t > latest, latest' = t,
         NEW requests, FulfillMintAllowance(requests, t)
  PROVE  StepGranting(GrantedByCall)
<1> DEFINE T == requests \cap GrantedByCall
<1>1. /\ MintInv' /\ requests \subseteq allowanceRequests /\ allowanceRequests' = allowanceRequests
      /\ IsLog(requests, t) /\ HasQuantities(requests) /\ mintAllowances' = WithGranted(requests)
  BY FulfillAllowanceLeaves
<1>2. mintAllowances \in [MintUsers -> MintMaps]
  BY DEF MintInv
<1>3. HasQuantities(T)
  BY <1>1, PartSum
<1>4. ASSUME NEW u \in MintUsers, NEW k \in MintKeys PROVE WithGranted(T)[u][k] = WithGranted(requests)[u][k]
  <2> DEFINE asked == Asked(requests, u, k)
             put == Asked(T, u, k)
  <2>1. put \subseteq asked
    BY DEF Asked
  <2>2. CASE asked = {}
    <3>1. put = {}
      BY <2>1, <2>2
    <3>2. QED
      BY <2>2, <3>1, WithGrantedIs
  <2>3. ASSUME NEW e \in asked PROVE WithGranted(T)[u][k] = WithGranted(requests)[u][k]
    <3>1. e \in requests /\ e.user = u /\ e.by = k.grantedBy /\ e.time = k.created
      BY DEF Asked
    <3>2. asked = {e}
      <4>1. \A f \in asked : f \in requests /\ f.user = u /\ f.time = k.created
        BY DEF Asked
      <4>2. QED
        BY <1>1, <3>1, <4>1 DEF IsLog
    <3>3. [grantedBy |-> e.by, created |-> e.time] = k
      BY <3>1 DEF MintKeys
    <3>4. AllowanceOf(e) = mintAllowances[u][k] /\ AllowanceOf(e)' = mintAllowances'[u][k]
      BY <3>1, <3>3 DEF AllowanceOf
    <3>5. WithGranted(requests)[u][k] = NewAllowance(e.quantity, MaxQuantity, 0)
      <4>1. e.quantity \in Nat
        BY <1>1, <3>1 DEF HasQuantities
      <4>2. EntryQuantity(asked) = e.quantity
        BY <3>2, <4>1, OneEntry
      <4> HIDE DEF asked
      <4>3. asked # {}
        BY <3>2
      <4>4. QED
        BY <4>2, <4>3, WithGrantedIs DEF asked
    <3>6. CASE e \in GrantedByCall
      <4>1. put = asked
        BY <3>1, <3>2, <3>6 DEF Asked
      <4>2. QED
        BY <4>1, WithGrantedIs
    <3>7. CASE e \notin GrantedByCall
      <4>1. put = {}
        BY <2>1, <3>2, <3>7 DEF Asked
      <4>2. mintAllowances[u][k] = NewAllowance(e.quantity, MaxQuantity, 0)
        BY <1>1, <3>1, <3>4, <3>5, <3>7 DEF GrantedByCall
      <4>3. QED
        BY <3>5, <4>1, <4>2, WithGrantedIs
    <3>8. QED
      BY <3>6, <3>7
  <2>4. QED
    BY <2>2, <2>3
<1>5. WithGranted(T) = WithGranted(requests)
  <2> DEFINE a == WithGranted(T)
             b == WithGranted(requests)
  <2>1. a \in [MintUsers -> MintMaps] /\ b \in [MintUsers -> MintMaps]
    BY <1>1, <1>2, <1>3, GrantedMaps
  <2> HIDE DEF a, b, T
  <2>2. \A u \in MintUsers : \A k \in MintKeys : a[u][k] = b[u][k]
    BY <1>4 DEF a, b
  <2>3. \A u \in MintUsers : a[u] = b[u]
    BY <2>1, <2>2 DEF MintMaps, MapsOf
  <2>4. a = b
    BY <2>1, <2>3
  <2>5. QED
    BY <2>4 DEF a, b
<1>6. GrantedByCall \in SUBSET allowanceRequests'
  BY DEF GrantedByCall
<1>7. T \in SUBSET requests /\ T \subseteq GrantedByCall
  OBVIOUS
<1> HIDE DEF T
<1>8. QED
  BY <1>5, <1>6, <1>7, FulfillGrants

\* What a call that mints at once comes to.
LEMMA MintsStep ==
  ASSUME MintInv, NEW t \in MintTimes, t > latest, latest' = t,
         NEW by \in MintUsers, NEW w \in Writings(t), After(Written(mintAllowances, by), w),
         WriteMints(w, mintAllowances)
  PROVE  MintStep /\ NewlyGranted = {}
<1>1. /\ Write(w, mintAllowances)
      /\ fulfilled' = fulfilled \cup w.fulfilled /\ again \subseteq again'
      /\ UNCHANGED <<deployment, authorities, allowanceRequests, burned, burnCounters>>
  BY DEF WriteMints, PutFulfilled
<1>2. /\ mintAllowances' \in [MintUsers -> MintMaps]
      /\ IsLog(mintRequests', t)
      /\ totalSupply' \in Nat /\ minted' \in Nat /\ totalSupply' <= minted' /\ minted <= minted'
      /\ fungible' \in [MintUsers -> Nat] /\ instances' \in [MintUsers -> InstanceSets]
      /\ tokenInstances' \in InstanceSets /\ \A u \in MintUsers : instances'[u] \subseteq tokenInstances'
      /\ StockOf(fungible, instances)' + burned = minted'
      /\ w.fulfilled \subseteq MintIds(t)
      /\ \A g \in SUBSET MintUsers : authorities \subseteq g =>
           minted' + MintsLeft(mintAllowances', g) <= minted + MintsLeft(mintAllowances, g)
  <2>1. mintAllowances \in [MintUsers -> MintMaps] /\ UNCHANGED deployment
    BY <1>1 DEF MintInv
  <2>2. QED
    BY <1>1, <2>1, WritesKeep
<1>3. NewlyGranted = {} /\ EntryQuantity(NewlyGranted) = 0
  BY <1>1, <1>2, NoneGranted
<1>4. /\ t \in 0 .. MaxTime /\ IsLog(allowanceRequests, t) /\ IsLog(burnCounters, t)
      /\ MintIds(latest) \subseteq MintIds(t) /\ AllowanceIds(latest) \subseteq AllowanceIds(t)
  BY NowLater
<1>5. fulfilled' \subseteq MintIds(t) \cup AllowanceIds(t)
  BY <1>1, <1>2, <1>4 DEF MintInv
<1>6. burned \in Nat /\ burned' = burned
  BY <1>1 DEF MintInv
<1>7. MintInv'
  BY <1>1, <1>2, <1>4, <1>5, <1>6 DEF MintInv
<1>8. ASSUME NEW g \in SUBSET MintUsers, authorities \subseteq g
      PROVE  minted' + MintsLeft(mintAllowances', g)
               <= minted + MintsLeft(mintAllowances, g) + EntryQuantity(NewlyGranted)
  <2>1. MintsLeft(mintAllowances, g) \in Nat /\ minted \in Nat
    BY LeftSummable DEF MintInv, MintsLeft
  <2>2. minted' + MintsLeft(mintAllowances', g) <= minted + MintsLeft(mintAllowances, g)
    BY <1>2, <1>8
  <2>3. QED
    BY <1>3, <2>1, <2>2
<1>9. QED
  BY <1>1, <1>3, <1>7, <1>8 DEF MintStep, StepGranting

LEMMA MintTokenStep ==
  ASSUME MintInv, NEW t \in MintTimes, t > latest, latest' = t,
         NEW by \in MintUsers, NEW dto \in MintTokenDtos, MintToken(by, dto, t)
  PROVE  MintStep /\ NewlyGranted = {}
<1> DEFINE start == Written(mintAllowances, by)
           op == Operation(dto, by)
           w == MintOne(start, op, t)
<1>1. start \in Writings(t)
  BY WrittenIs DEF MintInv
<1>2. op \in Ops
  BY DEF Operation, MintTokenDtos, Ops
<1>3. WriteMints(w, mintAllowances)
  BY DEF MintToken
<1>4. t \in Nat \ {0} /\ IsLog(mintRequests, t)
  BY NowLater
<1> HIDE DEF start, op
<1>5. w \in Writings(t) /\ After(start, w)
  BY <1>1, <1>2, <1>4, MintOneAfter
<1> HIDE DEF w
<1>6. QED
  BY <1>3, <1>5, MintsStep DEF start

LEMMA OperationsAre ==
  ASSUME NEW by \in MintUsers, NEW dto \in MintTokenDtos
  PROVE  Operation(dto, by) \in Ops
BY DEF Operation, MintTokenDtos, Ops

\* The mints of a batch.
LEMMA BatchIsSeq ==
  ASSUME NEW by \in MintUsers, NEW ops \in Operations(BatchMintTokenDtos, by)
  PROVE  ops \in Seq(Ops)
<1>1. PICK dto \in BatchMintTokenDtos : ops = [i \in DOMAIN dto.mintDtos |-> Operation(dto.mintDtos[i], by)]
  BY DEF Operations
<1>2. dto.mintDtos \in [1 .. 2 -> MintTokenDtos]
  BY DEF BatchMintTokenDtos, TupleOf
<1>3. \A i \in 1 .. 2 : Operation(dto.mintDtos[i], by) \in Ops
  BY <1>2, OperationsAre
<1>4. ops \in [1 .. 2 -> Ops]
  BY <1>1, <1>2, <1>3
<1>5. ops \in UNION {[1 .. n -> Ops] : n \in Nat}
  <2>1. [1 .. 2 -> Ops] \in {[1 .. n -> Ops] : n \in Nat}
    OBVIOUS
  <2>2. QED
    BY <1>4, <2>1
<1>6. QED
  BY <1>5, SeqDef

LEMMA BatchMintStep ==
  ASSUME MintInv, NEW t \in MintTimes, t > latest, latest' = t,
         NEW by \in MintUsers, NEW ops \in Operations(BatchMintTokenDtos, by), BatchMintToken(by, ops, t)
  PROVE  MintStep /\ NewlyGranted = {}
<1> DEFINE start == Written(mintAllowances, by)
           w == MintAll(start, ops, t)
<1>1. start \in Writings(t)
  BY WrittenIs DEF MintInv
<1>2. ops \in Seq(Ops)
  BY BatchIsSeq
<1>3. WriteMints(w, mintAllowances)
  BY DEF BatchMintToken
<1>4. t \in Nat \ {0} /\ IsLog(mintRequests, t)
  BY NowLater
<1> HIDE DEF start
<1>5. w \in Writings(t) /\ After(start, w)
  BY <1>1, <1>2, <1>4, MintAllAfter
<1> HIDE DEF w
<1>6. QED
  BY <1>3, <1>5, MintsStep DEF start

LEMMA GrantAndMintStep ==
  ASSUME MintInv, NEW t \in MintTimes, t > latest, latest' = t,
         NEW by \in MintUsers, NEW op \in Ops, GrantAndMint(by, op, t)
  PROVE  MintStep
<1> DEFINE q == op.quantity
           grants == [u \in {by} |-> q]
           requests == GrantedAtOnce(by, grants, t)
           k == [grantedBy |-> by, created |-> t]
           a == NewAllowance(q, 1, 0)
           held == [mintAllowances EXCEPT ![by][k] = a]
           start == Written(held, by)
           w == MintOne(start, op, t)
<1>1. /\ Write(w, held)
      /\ fulfilled' = fulfilled \cup (w.fulfilled \cup {AllowanceId(e) : e \in requests}) /\ again \subseteq again'
      /\ allowanceRequests' = PutRequests(allowanceRequests, requests)
      /\ UNCHANGED <<deployment, authorities, burned, burnCounters>>
  BY DEF GrantAndMint, PutFulfilled
<1>2. q \in MintQuantities /\ q \in Nat /\ k \in MintKeys
  BY DEF Ops, MintQuantities, MintKeys
<1>3. a \in SoundMints /\ Unspent(a) = q
  BY <1>2, NewMintIsSound
<1>4. mintAllowances \in [MintUsers -> MintMaps] /\ mintAllowances[by] \in [MintKeys -> SoundMints \cup {NoAllowance}]
  BY DEF MintInv, MintMaps, MapsOf
<1> HIDE DEF a, k, q
<1>5. /\ held \in [MintUsers -> MintMaps]
      /\ \A u \in MintUsers \ {by} : held[u] = mintAllowances[u]
      /\ held[by][k] = a /\ \A j \in MintKeys \ {k} : held[by][j] = mintAllowances[by][j]
  <2> DEFINE one == [mintAllowances[by] EXCEPT ![k] = a]
  <2>1. one \in MintMaps
    BY <1>2, <1>3, <1>4 DEF MintMaps, MapsOf
  <2>2. one[k] = a /\ \A j \in MintKeys \ {k} : one[j] = mintAllowances[by][j]
    BY <1>2, <1>4
  <2>3. held = [mintAllowances EXCEPT ![by] = one]
    BY <1>4
  <2> HIDE DEF one, held
  <2>4. held \in [MintUsers -> MintMaps] /\ held[by] = one /\ \A u \in MintUsers \ {by} : held[u] = mintAllowances[u]
    BY <1>4, <2>1, <2>3
  <2>5. QED
    BY <2>2, <2>4
<1>6. requests = {[time |-> t, user |-> by, quantity |-> q, known |-> KnownMintAllowances(t, 1), by |-> by]}
  <2>1. DOMAIN grants = {by} /\ grants[by] = q
    OBVIOUS
  <2> HIDE DEF grants
  <2>2. QED
    BY <2>1 DEF GrantedAtOnce, NewRequests
<1>7. IsLog(requests, t) /\ (\A e \in requests : e.time = t) /\ HasQuantities(requests) /\ EntryQuantity(requests) = q
  <2>1. grants \in GrantAllowanceQuantities
    <3>1. {by} \in (SUBSET MintUsers) \ {{}} /\ grants \in [{by} -> MintQuantities]
      BY <1>2
    <3> HIDE DEF grants
    <3>2. QED
      BY <3>1 DEF GrantAllowanceQuantities
  <2> HIDE DEF grants
  <2>2. IsLog(requests, t) /\ \A e \in requests : e.time = t
    BY <2>1, RequestsAre DEF GrantedAtOnce
  <2> DEFINE e == [time |-> t, user |-> by, quantity |-> q, known |-> KnownMintAllowances(t, 1), by |-> by]
  <2>3. e.quantity = q
    OBVIOUS
  <2> HIDE DEF e, requests
  <2>4. requests = {e}
    BY <1>6 DEF e, requests
  <2>5. HasQuantities({e}) /\ EntryQuantity({e}) = q
    BY <1>2, <2>3, OneEntry
  <2>6. QED
    BY <2>2, <2>4, <2>5
<1> HIDE DEF held, requests
<1>8. start \in Writings(t) /\ t \in Nat \ {0} /\ IsLog(mintRequests, t)
  BY <1>5, WrittenIs, NowLater
<1> HIDE DEF start
<1>9. w \in Writings(t) /\ After(start, w)
  BY <1>8, MintOneAfter
<1> HIDE DEF w
<1>10. /\ mintAllowances' \in [MintUsers -> MintMaps]
       /\ IsLog(mintRequests', t)
       /\ totalSupply' \in Nat /\ minted' \in Nat /\ totalSupply' <= minted' /\ minted <= minted'
       /\ fungible' \in [MintUsers -> Nat] /\ instances' \in [MintUsers -> InstanceSets]
       /\ tokenInstances' \in InstanceSets /\ \A u \in MintUsers : instances'[u] \subseteq tokenInstances'
       /\ StockOf(fungible, instances)' + burned = minted'
       /\ w.fulfilled \subseteq MintIds(t)
       /\ \A g \in SUBSET MintUsers : authorities \subseteq g =>
            minted' + MintsLeft(mintAllowances', g) <= minted + MintsLeft(held, g)
  <2>1. After(Written(held, by), w) /\ UNCHANGED deployment
    BY <1>1, <1>9 DEF start
  <2>2. QED
    BY <1>1, <1>5, <1>9, <2>1, WritesKeep
<1>11. /\ NewlyGranted = requests
       /\ IsLog(allowanceRequests', t) /\ allowanceRequests \subseteq allowanceRequests'
       /\ fulfilled \subseteq fulfilled' /\ fulfilled' \subseteq MintIds(t) \cup AllowanceIds(t)
  <2> DEFINE others == w.fulfilled
  <2>1. others \in SUBSET MintIds(t)
    BY <1>10
  <2>2. \A i : i \in fulfilled' <=> i \in fulfilled \/ i \in others \/ \E r \in requests : i = AllowanceId(r)
    BY <1>1
  <2>3. allowanceRequests' = PutRequests(allowanceRequests, requests)
    BY <1>1
  <2> HIDE DEF others
  <2>4. QED
    BY <1>7, <2>1, <2>2, <2>3, GrantsAreNew
<1>12. t \in 0 .. MaxTime /\ IsLog(burnCounters, t)
  BY NowLater
<1>13. burned \in Nat /\ burned' = burned
  BY <1>1 DEF MintInv
<1>14. MintInv'
  BY <1>1, <1>10, <1>11, <1>12, <1>13 DEF MintInv
<1>15. ASSUME NEW g \in SUBSET MintUsers, authorities \subseteq g
       PROVE  minted' + MintsLeft(mintAllowances', g)
                <= minted + MintsLeft(mintAllowances, g) + EntryQuantity(NewlyGranted)
  <2> DEFINE la == MintsLeft(mintAllowances, g)
             lb == MintsLeft(held, g)
             lc == MintsLeft(mintAllowances', g)
             X == GrantedBy(g)
             wa == Worth(mintAllowances[by], X)
             wb == Worth(held[by], X)
             m == minted'
  <2>1. m + lc <= minted + lb
    BY <1>10, <1>15
  <2>2. lb = la + (wb - wa) /\ la \in Nat /\ lb \in Nat
    BY <1>4, <1>5, LeftAtOne
  <2>3. wb <= wa + q
    <3>1. mintAllowances[by] \in MintMaps /\ held[by] \in MintMaps
      BY <1>4, <1>5
    <3>2. Worth(held[by], X) <= Worth(mintAllowances[by], X) + Unspent(a)
      BY <1>2, <1>3, <1>5, <3>1, WorthAtKey
    <3>3. QED
      BY <1>3, <3>2
  <2>4. wa \in Nat /\ wb \in Nat
    BY <1>4, <1>5, MapWorth
  <2>5. lc \in Nat
    BY <1>10, LeftSummable DEF MintsLeft
  <2>6. minted \in Nat /\ m \in Nat
    BY <1>10 DEF MintInv
  <2> HIDE DEF la, lb, lc, wa, wb, m
  <2>7. lb <= la + q
    BY <1>2, <2>2, <2>3, <2>4
  <2>8. m + lc <= minted + la + q
    BY <1>2, <2>1, <2>2, <2>5, <2>6, <2>7
  <2>9. QED
    BY <1>7, <1>11, <2>8 DEF la, lc, m
<1>16. QED
  BY <1>1, <1>11, <1>14, <1>15 DEF MintStep, StepGranting

\* What a step leaves that writes no ids of allowances and mints no more than is used.
LEMMA QuietStep ==
  ASSUME MintInv, NEW t \in MintTimes, t > latest, latest' = t, MintInv', NEW more \in SUBSET MintIds(t),
         fulfilled' \subseteq fulfilled \cup more, fulfilled \subseteq fulfilled', again \subseteq again',
         allowanceRequests \subseteq allowanceRequests',
         \A g \in SUBSET MintUsers : authorities \subseteq g =>
           minted' + MintsLeft(mintAllowances', g) <= minted + MintsLeft(mintAllowances, g)
  PROVE  MintStep /\ NewlyGranted = {}
<1>1. NewlyGranted = {} /\ EntryQuantity(NewlyGranted) = 0
  BY NoneGranted
<1>2. ASSUME NEW g \in SUBSET MintUsers, authorities \subseteq g
      PROVE  minted' + MintsLeft(mintAllowances', g)
               <= minted + MintsLeft(mintAllowances, g) + EntryQuantity(NewlyGranted)
  <2>1. MintsLeft(mintAllowances, g) \in Nat /\ minted \in Nat
    BY LeftSummable DEF MintInv, MintsLeft
  <2>2. minted' + MintsLeft(mintAllowances', g) <= minted + MintsLeft(mintAllowances, g)
    BY <1>2
  <2>3. QED
    BY <1>1, <2>1, <2>2
<1>3. QED
  BY <1>1, <1>2 DEF MintStep, StepGranting

LEMMA SubmitStep ==
  ASSUME MintInv, NEW t \in MintTimes, t > latest, latest' = t,
         NEW by \in MintUsers, NEW op \in Ops, SubmitMintRequest(by, op, t)
  PROVE  MintStep /\ NewlyGranted = {}
<1> DEFINE entry == MintEntry(op.owner, op.quantity, by, KnownMints(t), t)
           al == mintAllowances[by]
           after == Checked(al, t)
<1>1. /\ mintAllowances' = [mintAllowances EXCEPT ![by] = after]
      /\ mintRequests' = PutRanged(mintRequests, entry)
      /\ UNCHANGED <<deployment, authorities, totalSupply, allowanceRequests, fulfilled, again,
                     fungible, instances, tokenInstances, minted, burned, burnCounters>>
  BY DEF SubmitMintRequest
<1>2. /\ t \in Nat \ {0} /\ t \in 0 .. MaxTime /\ latest \in Nat
      /\ IsLog(mintRequests, t) /\ IsLog(allowanceRequests, t) /\ IsLog(burnCounters, t)
      /\ MintIds(latest) \subseteq MintIds(t) /\ AllowanceIds(latest) \subseteq AllowanceIds(t)
  BY NowLater
<1>3. KnownMints(t) \in Nat
  BY <1>2, KnownIsNat DEF KnownMints
<1>4. entry \in Entries(t)
  <2>1. op.owner \in MintUsers /\ op.quantity \in MintQuantities /\ t \in 1 .. t
    BY <1>2 DEF Ops
  <2>2. QED
    BY <1>3, <2>1 DEF MintEntry, Entries
<1>5. mintAllowances \in [MintUsers -> MintMaps] /\ al \in MintMaps
  BY DEF MintInv
<1>6. after \in MintMaps /\ \A X : Worth(after, X) <= Worth(al, X) /\ Worth(after, X) \in Nat /\ Worth(al, X) \in Nat
  BY <1>5, CheckingTakes, MapWorth
<1> HIDE DEF entry, al, after
<1>7. IsLog(mintRequests', t)
  BY <1>1, <1>2, <1>4, PutIsLog
<1>8. /\ mintAllowances' \in [MintUsers -> MintMaps] /\ mintAllowances'[by] = after
      /\ \A u \in MintUsers \ {by} : mintAllowances'[u] = mintAllowances[u]
  BY <1>1, <1>5, <1>6
<1>9. StockOf(fungible, instances)' = StockOf(fungible, instances)
  BY <1>1 DEF StockOf, IsNonFungible
<1>10. fulfilled \subseteq MintIds(t) \cup AllowanceIds(t)
  BY <1>2 DEF MintInv
<1>11. MintInv'
  BY <1>1, <1>2, <1>7, <1>8, <1>9, <1>10 DEF MintInv
<1>12. ASSUME NEW g \in SUBSET MintUsers
       PROVE  minted' + MintsLeft(mintAllowances', g) <= minted + MintsLeft(mintAllowances, g)
  <2> DEFINE la == MintsLeft(mintAllowances, g)
             lb == MintsLeft(mintAllowances', g)
             wa == Worth(al, GrantedBy(g))
             wb == Worth(after, GrantedBy(g))
  <2>1. lb = la + (wb - wa) /\ la \in Nat /\ lb \in Nat
    BY <1>5, <1>8, LeftAtOne DEF al
  <2>2. wb <= wa /\ wa \in Nat /\ wb \in Nat
    BY <1>6
  <2>3. minted \in Nat /\ minted' = minted
    BY <1>1 DEF MintInv
  <2> HIDE DEF la, lb, wa, wb
  <2>4. lb <= la
    BY <2>1, <2>2
  <2>5. minted' + lb <= minted + la
    BY <2>1, <2>3, <2>4
  <2>6. QED
    BY <2>5 DEF la, lb
<1>13. {} \in SUBSET MintIds(t) /\ fulfilled' = fulfilled /\ again' = again /\ allowanceRequests' = allowanceRequests
  BY <1>1
<1>14. QED
  BY <1>11, <1>12, <1>13, QuietStep

\* What is fulfilled are requests that are there.
LEMMA FulfilAre ==
  ASSUME MintInv, NEW t \in MintTimes, t > latest,
         NEW requests \in FulfillMintDtos(mintRequests), ToSet(requests) \subseteq mintRequests
  PROVE  /\ OldestFirst(ToSet(requests)) \in Seq(Entries(t))
         /\ Len(OldestFirst(ToSet(requests))) = Cardinality(ToSet(requests))
         /\ HasQuantities(FulfillRange(mintRequests, ToSet(requests)))
         /\ requests[1] \in ToSet(requests) /\ requests[1].known \in Nat
<1>1. t \in Nat \ {0} /\ IsLog(mintRequests, t)
  BY NowLater
<1>2. requests[1] \in ToSet(requests)
  <2>1. requests # << >> /\ requests \in BoundedSeq(MintRequestDtos(mintRequests), MaxBatch)
    BY DEF FulfillMintDtos
  <2>2. PICK m \in 0 .. MaxBatch : requests \in [1 .. m -> MintRequestDtos(mintRequests)]
    BY <2>1 DEF BoundedSeq, SeqOf
  <2>3. m \in Nat
    BY <2>2, MintAssumption
  <2>4. m # 0
    <3>1. ASSUME m = 0 PROVE FALSE
      <4>1. requests \in [1 .. 0 -> MintRequestDtos(mintRequests)] /\ 1 .. 0 = {}
        BY <2>2, <3>1
      <4>2. requests = << >>
        BY <4>1
      <4>3. QED
        BY <2>1, <4>2
    <3>2. QED
      BY <3>1
  <2>5. 1 \in DOMAIN requests
    BY <2>2, <2>3, <2>4
  <2>6. QED
    BY <2>5 DEF ToSet
<1> DEFINE E == ToSet(requests)
<1>3. IsLog(E, t)
  BY <1>1, PartLog
<1>4. requests[1].known \in Nat
  BY <1>1, <1>2, LogEntries
<1>5. OldestFirst(E) \in Seq(Entries(t)) /\ Len(OldestFirst(E)) = Cardinality(E)
  <2> HIDE DEF E
  <2>1. OldestFirst(E) \in Seq(E) /\ Len(OldestFirst(E)) = Cardinality(E)
    BY <1>1, <1>3, Oldest
  <2>2. E \subseteq Entries(t)
    BY <1>3 DEF IsLog
  <2>3. QED
    BY <2>1, <2>2
<1>6. HasQuantities(FulfillRange(mintRequests, E))
  <2>1. FulfillRange(mintRequests, E) \subseteq mintRequests
    BY DEF FulfillRange, InRange
  <2>2. IsLog(FulfillRange(mintRequests, E), t)
    BY <1>1, <2>1, PartLog
  <2>3. QED
    BY <1>1, <2>2, LogEntries
<1>7. QED
  BY <1>2, <1>4, <1>5, <1>6

LEMMA FulfillMintStep ==
  ASSUME MintInv, NEW t \in MintTimes, t > latest, latest' = t,
         NEW by \in MintUsers, NEW requests \in FulfillMintDtos(mintRequests),
         FulfillMintRequest(by, requests, t)
  PROVE  MintStep /\ NewlyGranted = {}
<1> DEFINE E == ToSet(requests)
           range == FulfillRange(mintRequests, E)
           fulfil == OldestFirst(E)
           baseline == requests[1].known
           start == Written(mintAllowances, by)
           w == FulfillAll(start, fulfil, range, E, baseline, t)
<1>1. /\ \A e \in E : MatchesOriginal(e)
      /\ Write(w, mintAllowances)
      /\ PutFulfilled(w.fulfilled)
      /\ UNCHANGED <<deployment, authorities, allowanceRequests, burned, burnCounters>>
  BY DEF FulfillMintRequest
<1>2. E \subseteq mintRequests
  BY <1>1 DEF MatchesOriginal
<1>3. fulfil \in Seq(Entries(t)) /\ HasQuantities(range) /\ baseline \in Nat
  BY <1>2, FulfilAre
<1>4. start \in Writings(t) /\ t \in Nat \ {0}
  BY WrittenIs, NowLater DEF MintInv
<1> HIDE DEF E, range, fulfil, baseline, start
<1>5. w \in Writings(t) /\ After(start, w)
  BY <1>3, <1>4, FulfillAllAfter
<1> HIDE DEF w
<1>6. WriteMints(w, mintAllowances)
  BY <1>1 DEF WriteMints
<1>7. QED
  BY <1>5, <1>6, MintsStep DEF start

LEMMA BurnStep ==
  ASSUME MintInv, NEW t \in MintTimes, t > latest, latest' = t,
         NEW user \in MintUsers, NEW q \in MintQuantities, NEW ids,
         IsNonFungible => q = 1 /\ \E id \in instances[user] : ids = {id},
         ~IsNonFungible => ids = {},
         Burn(user, q, ids, t)
  PROVE  MintStep /\ NewlyGranted = {}
<1> DEFINE counter == BurnCounter(user, q, t)
           less == [fungible EXCEPT ![user] = @ - (IF IsNonFungible THEN 0 ELSE q)]
           others == [instances EXCEPT ![user] = @ \ ids]
<1>1. /\ burnCounters' = PutRanged(burnCounters, counter)
      /\ burned' = burned + q
      /\ fungible' = less /\ fungible'[user] >= 0
      /\ instances' = others
      /\ UNCHANGED <<deployment, authorities, totalSupply, mintAllowances, allowanceRequests,
                     mintRequests, fulfilled, again, tokenInstances, minted>>
  BY DEF Burn
<1>2. /\ t \in Nat \ {0} /\ t \in 0 .. MaxTime
      /\ IsLog(mintRequests, t) /\ IsLog(allowanceRequests, t) /\ IsLog(burnCounters, t)
      /\ MintIds(latest) \subseteq MintIds(t) /\ AllowanceIds(latest) \subseteq AllowanceIds(t)
  BY NowLater
<1>3. counter \in Entries(t)
  <2>1. KnownSupply(burnCounters, t - Lookback) \in Nat /\ t \in 1 .. t
    BY <1>2, KnownIsNat
  <2>2. QED
    BY <2>1 DEF BurnCounter, Entries
<1> HIDE DEF counter
<1>4. IsLog(burnCounters', t)
  BY <1>1, <1>2, <1>3, PutIsLog
<1>5. /\ fungible \in [MintUsers -> Nat] /\ instances \in [MintUsers -> InstanceSets] /\ q \in Nat
      /\ StockOf(fungible, instances) \in Nat /\ burned \in Nat /\ minted \in Nat
      /\ StockOf(fungible, instances) + burned = minted
  BY StockType DEF MintInv, MintQuantities
<1>6. /\ less[user] = fungible[user] - (IF IsNonFungible THEN 0 ELSE q)
      /\ \A u \in MintUsers \ {user} : less[u] = fungible[u]
      /\ less \in [MintUsers -> Nat]
  <2>1. less[user] = fungible[user] - (IF IsNonFungible THEN 0 ELSE q)
    BY <1>5
  <2>2. less[user] \in Nat
    <3>1. less[user] >= 0
      BY <1>1
    <3>2. fungible[user] \in Nat
      BY <1>5
    <3>3. fungible[user] - (IF IsNonFungible THEN 0 ELSE q) \in Int
      BY <1>5, <3>2
    <3>4. QED
      BY <2>1, <3>1, <3>3
  <2>3. \A u \in MintUsers \ {user} : less[u] = fungible[u]
    BY <1>5
  <2>4. DOMAIN less = MintUsers /\ less = [u \in MintUsers |-> less[u]]
    BY <1>5
  <2> HIDE DEF less
  <2>5. \A u \in MintUsers : less[u] \in Nat
    BY <1>5, <2>2, <2>3
  <2>6. QED
    BY <2>1, <2>3, <2>4, <2>5
<1>7. /\ others[user] = instances[user] \ ids
      /\ \A u \in MintUsers \ {user} : others[u] = instances[u]
  BY <1>5
<1>8. ASSUME IsNonFungible
      PROVE  /\ StockOf(fungible, instances)' + burned' = minted' /\ burned' \in Nat /\ minted' = minted
             /\ fungible' \in [MintUsers -> Nat] /\ instances' \in [MintUsers -> InstanceSets]
  <2>1. PICK id \in instances[user] : ids = {id}
    BY <1>8
  <2>2. others[user] = instances[user] \ {id} /\ others[user] \in InstanceSets
    <3>1. instances[user] \in InstanceSets
      BY <1>5
    <3>2. QED
      BY <1>7, <2>1, <3>1, SetsOfInstances
  <2>3. others \in [MintUsers -> InstanceSets]
    BY <1>5, <2>2
  <2>4. less = fungible
    <3>1. \A u \in MintUsers : less[u] = fungible[u]
      <4>1. fungible[user] \in Nat
        BY <1>5
      <4>2. less[user] = fungible[user] - 0
        BY <1>6, <1>8
      <4>3. less[user] = fungible[user]
        BY <4>1, <4>2
      <4>4. QED
        BY <1>6, <4>3
    <3>2. QED
      BY <1>5, <1>6, <3>1
  <2> HIDE DEF less, others
  <2>5. StockOf(fungible, others) = StockOf(fungible, instances) - 1
    <3>1. \A o \in [MintUsers -> InstanceSets] :
            o[user] = instances[user] \ {id} /\ (\A u \in MintUsers \ {user} : o[u] = instances[u])
              => (IsNonFungible => StockOf(fungible, o) = StockOf(fungible, instances) - 1)
      BY <1>5, StockTaken
    <3>2. IsNonFungible => StockOf(fungible, others) = StockOf(fungible, instances) - 1
      BY <1>7, <2>2, <2>3, <3>1
    <3>3. QED
      BY <1>8, <3>2
  <2>6. StockOf(fungible, instances)' = StockOf(fungible, others)
    BY <1>1, <2>4 DEF StockOf, IsNonFungible
  <2>7. q = 1
    BY <1>8
  <2> DEFINE a == StockOf(fungible, instances)
             b == StockOf(fungible, instances)'
  <2>8. b = a - 1 /\ a \in Nat /\ a + burned = minted /\ burned' = burned + 1
    BY <1>1, <1>5, <2>5, <2>6, <2>7
  <2> HIDE DEF a, b
  <2>9. b + burned' = minted /\ burned' \in Nat
    BY <1>5, <2>8
  <2>10. StockOf(fungible, instances)' + burned' = minted' /\ burned' \in Nat /\ minted' = minted
    BY <1>1, <2>9 DEF b
  <2>11. fungible' \in [MintUsers -> Nat] /\ instances' \in [MintUsers -> InstanceSets]
    BY <1>1, <1>5, <2>3, <2>4
  <2>12. QED
    BY <2>10, <2>11
<1>9. ASSUME ~IsNonFungible
      PROVE  /\ StockOf(fungible, instances)' + burned' = minted' /\ burned' \in Nat /\ minted' = minted
             /\ fungible' \in [MintUsers -> Nat] /\ instances' \in [MintUsers -> InstanceSets]
  <2>1. ids = {}
    BY <1>9
  <2>2. others = instances
    BY <1>5, <2>1
  <2>3. less[user] = fungible[user] - q
    BY <1>6, <1>9
  <2>4. StockOf(less, instances) = StockOf(fungible, instances) - q
    <3> HIDE DEF less
    <3>1. \A n \in Nat, o \in [MintUsers -> Nat] :
            o[user] = fungible[user] - n /\ (\A u \in MintUsers \ {user} : o[u] = fungible[u])
              => (~IsNonFungible => StockOf(o, instances) = StockOf(fungible, instances) - n)
      BY <1>5, StockTaken
    <3>2. ~IsNonFungible => StockOf(less, instances) = StockOf(fungible, instances) - q
      BY <1>5, <1>6, <2>3, <3>1
    <3>3. QED
      BY <1>9, <3>2
  <2> HIDE DEF less, others
  <2>6. StockOf(fungible, instances)' = StockOf(less, instances)
    BY <1>1, <2>2 DEF StockOf, IsNonFungible
  <2> DEFINE a == StockOf(fungible, instances)
             b == StockOf(fungible, instances)'
  <2>8. b = a - q /\ a \in Nat /\ a + burned = minted /\ burned' = burned + q
    BY <1>1, <1>5, <2>4, <2>6
  <2> HIDE DEF a, b
  <2>9. b + burned' = minted /\ burned' \in Nat
    BY <1>5, <2>8
  <2>10. StockOf(fungible, instances)' + burned' = minted' /\ burned' \in Nat /\ minted' = minted
    BY <1>1, <2>9 DEF b
  <2>11. fungible' \in [MintUsers -> Nat] /\ instances' \in [MintUsers -> InstanceSets]
    BY <1>1, <1>5, <1>6, <2>2
  <2>12. QED
    BY <2>10, <2>11
<1>10. /\ StockOf(fungible, instances)' + burned' = minted' /\ burned' \in Nat /\ minted' = minted
       /\ fungible' \in [MintUsers -> Nat] /\ instances' \in [MintUsers -> InstanceSets]
  BY <1>8, <1>9
<1>11. fulfilled \subseteq MintIds(t) \cup AllowanceIds(t)
  BY <1>2 DEF MintInv
<1>12. MintInv'
  <2>1. /\ deployment' = deployment /\ authorities' = authorities /\ totalSupply' = totalSupply
        /\ mintAllowances' = mintAllowances /\ allowanceRequests' = allowanceRequests
        /\ mintRequests' = mintRequests /\ fulfilled' = fulfilled /\ tokenInstances' = tokenInstances
    BY <1>1
  <2>2. \A u \in MintUsers : instances'[u] \subseteq instances[u]
    BY <1>1, <1>5, <1>7
  <2>3. \A u \in MintUsers : instances'[u] \subseteq tokenInstances'
    BY <2>1, <2>2 DEF MintInv
  <2>4. QED
    BY <1>2, <1>4, <1>5, <1>10, <1>11, <2>1, <2>3 DEF MintInv
<1>13. ASSUME NEW g \in SUBSET MintUsers
       PROVE  minted' + MintsLeft(mintAllowances', g) <= minted + MintsLeft(mintAllowances, g)
  <2>1. MintsLeft(mintAllowances, g) \in Nat
    BY LeftSummable DEF MintInv, MintsLeft
  <2>2. QED
    BY <1>1, <1>5, <2>1
<1>14. {} \in SUBSET MintIds(t) /\ fulfilled' = fulfilled /\ again' = again /\ allowanceRequests' = allowanceRequests
  BY <1>1
<1>15. QED
  BY <1>12, <1>13, <1>14, QuietStep

LEMMA TransferStep ==
  ASSUME MintInv, NEW t \in MintTimes, t > latest, latest' = t,
         NEW from \in MintUsers, NEW to \in MintUsers, NEW id, TransferToken(from, to, id)
  PROVE  MintStep /\ NewlyGranted = {}
<1> DEFINE left == [instances EXCEPT ![from] = @ \ {id}]
           moved == [left EXCEPT ![to] = @ \cup {id}]
<1>1. /\ id \in instances[from] /\ to # from /\ id \notin instances[to]
      /\ instances' = [instances EXCEPT ![from] = @ \ {id}, ![to] = @ \cup {id}]
      /\ UNCHANGED <<deployment, authorities, totalSupply, mintAllowances, allowanceRequests,
                     mintRequests, fulfilled, again, fungible, tokenInstances, minted, burned, burnCounters>>
  BY DEF TransferToken
<1>2. /\ t \in 0 .. MaxTime
      /\ IsLog(mintRequests, t) /\ IsLog(allowanceRequests, t) /\ IsLog(burnCounters, t)
      /\ MintIds(latest) \subseteq MintIds(t) /\ AllowanceIds(latest) \subseteq AllowanceIds(t)
  BY NowLater
<1>3. /\ fungible \in [MintUsers -> Nat] /\ instances \in [MintUsers -> InstanceSets]
      /\ tokenInstances \in InstanceSets /\ \A u \in MintUsers : instances[u] \subseteq tokenInstances
  BY DEF MintInv
<1>4. /\ left[from] = instances[from] \ {id} /\ \A u \in MintUsers \ {from} : left[u] = instances[u]
      /\ moved[to] = left[to] \cup {id} /\ \A u \in MintUsers \ {to} : moved[u] = left[u]
      /\ DOMAIN left = MintUsers /\ DOMAIN moved = MintUsers
      /\ left = [u \in MintUsers |-> left[u]] /\ moved = [u \in MintUsers |-> moved[u]]
  BY <1>3
<1>5. instances' = moved
  BY <1>1, <1>3
<1> HIDE DEF left, moved
<1>6. left[from] \in InstanceSets
  <2>1. instances[from] \in InstanceSets
    BY <1>3
  <2>2. QED
    BY <1>1, <1>4, <2>1, SetsOfInstances
<1>7. left \in [MintUsers -> InstanceSets]
  BY <1>3, <1>4, <1>6
<1>8. moved[to] \in InstanceSets /\ Cardinality(moved[to]) = Cardinality(left[to]) + 1
  <2>1. left[to] = instances[to] /\ left[to] \in InstanceSets /\ instances[from] \in InstanceSets
    BY <1>1, <1>3, <1>4
  <2>2. {id} \in InstanceSets /\ Cardinality({id}) = 1
    BY <1>1, <2>1, FS_Singleton DEF InstanceSets
  <2>3. left[to] \cap {id} = {}
    BY <1>1, <2>1
  <2>4. QED
    BY <1>4, <2>1, <2>2, <2>3, SetsOfInstances
<1>9. moved \in [MintUsers -> InstanceSets]
  BY <1>4, <1>7, <1>8
<1>10. StockOf(fungible, moved) = StockOf(fungible, instances)
  <2>1. CASE IsNonFungible
    <3>1. \A o \in [MintUsers -> InstanceSets] :
            o[from] = instances[from] \ {id} /\ (\A u \in MintUsers \ {from} : o[u] = instances[u])
              => (IsNonFungible => StockOf(fungible, o) = StockOf(fungible, instances) - 1)
      BY <1>1, <1>3, StockTaken
    <3>2. StockOf(fungible, left) = StockOf(fungible, instances) - 1
      BY <1>4, <1>7, <2>1, <3>1
    <3>3. \A o \in [MintUsers -> InstanceSets] :
            Cardinality(o[to]) = Cardinality(left[to]) + 1 /\ (\A u \in MintUsers \ {to} : o[u] = left[u])
              => (IsNonFungible => StockOf(fungible, o) = StockOf(fungible, left) + 1)
      BY <1>3, <1>7, StockAdded
    <3>4. StockOf(fungible, moved) = StockOf(fungible, left) + 1
      BY <1>4, <1>8, <1>9, <2>1, <3>3
    <3>5. StockOf(fungible, instances) \in Nat
      BY <1>3, StockType
    <3>6. QED
      BY <3>2, <3>4, <3>5
  <2>2. CASE ~IsNonFungible
    BY <2>2 DEF StockOf
  <2>3. QED
    BY <2>1, <2>2
<1>11. StockOf(fungible, instances)' = StockOf(fungible, instances)
  <2>1. StockOf(fungible, instances)' = StockOf(fungible, moved)
    BY <1>1, <1>5 DEF StockOf, IsNonFungible
  <2>2. QED
    BY <1>10, <2>1
<1>12. \A u \in MintUsers : moved[u] \subseteq tokenInstances
  <2>1. id \in tokenInstances
    BY <1>1, <1>3
  <2>2. \A u \in MintUsers : left[u] \subseteq tokenInstances
    BY <1>3, <1>4
  <2>3. QED
    BY <1>4, <2>1, <2>2
<1>13. fulfilled \subseteq MintIds(t) \cup AllowanceIds(t)
  BY <1>2 DEF MintInv
<1>14. MintInv'
  BY <1>1, <1>2, <1>5, <1>9, <1>11, <1>12, <1>13 DEF MintInv
<1>15. ASSUME NEW g \in SUBSET MintUsers
       PROVE  minted' + MintsLeft(mintAllowances', g) <= minted + MintsLeft(mintAllowances, g)
  <2>1. MintsLeft(mintAllowances, g) \in Nat /\ minted \in Nat
    BY LeftSummable DEF MintInv, MintsLeft
  <2>2. QED
    BY <1>1, <2>1
<1>16. {} \in SUBSET MintIds(t) /\ fulfilled' = fulfilled /\ again' = again /\ allowanceRequests' = allowanceRequests
  BY <1>1
<1>17. QED
  BY <1>14, <1>15, <1>16, QuietStep

LEMMA AuthoritiesStep ==
  ASSUME MintInv, NEW t \in MintTimes, t > latest, latest' = t,
         NEW by \in MintUsers, NEW users \in SUBSET MintUsers, NEW overwrite,
         UpdateAuthorities(by, users, overwrite)
  PROVE  MintStep /\ NewlyGranted = {}
<1>1. /\ users # {}
      /\ authorities' = IF overwrite THEN users ELSE authorities \cup users
      /\ UNCHANGED <<deployment, ledger, allowanceRequests, burnCounters, burned>>
  BY DEF UpdateAuthorities
<1>2. /\ t \in 0 .. MaxTime
      /\ IsLog(mintRequests, t) /\ IsLog(allowanceRequests, t) /\ IsLog(burnCounters, t)
      /\ MintIds(latest) \subseteq MintIds(t) /\ AllowanceIds(latest) \subseteq AllowanceIds(t)
  BY NowLater
<1>3. authorities' \in (SUBSET MintUsers) \ {{}}
  BY <1>1 DEF MintInv
<1>4. StockOf(fungible, instances)' = StockOf(fungible, instances)
  BY <1>1 DEF StockOf, IsNonFungible, ledger
<1>5. fulfilled \subseteq MintIds(t) \cup AllowanceIds(t)
  BY <1>2 DEF MintInv
<1>6. MintInv'
  BY <1>1, <1>2, <1>3, <1>4, <1>5 DEF MintInv, ledger
<1>7. ASSUME NEW g \in SUBSET MintUsers
      PROVE  minted' + MintsLeft(mintAllowances', g) <= minted + MintsLeft(mintAllowances, g)
  <2>1. MintsLeft(mintAllowances, g) \in Nat /\ minted \in Nat
    BY LeftSummable DEF MintInv, MintsLeft
  <2>2. QED
    BY <1>1, <2>1 DEF ledger
<1>8. {} \in SUBSET MintIds(t) /\ fulfilled' = fulfilled /\ again' = again /\ allowanceRequests' = allowanceRequests
  BY <1>1 DEF ledger
<1>9. QED
  BY <1>6, <1>7, <1>8, QuietStep

\* Where nothing is put anew, what is newly granted is all that is granted.
LEMMA NewIsGranted ==
  ASSUME MintInv, MintStep
  PROVE  StepGranting(GrantedByCall)
<1>1. MintInv' /\ StepGranting(NewlyGranted)
  BY DEF MintStep, StepGranting
<1>2. NewlyGranted \subseteq GrantedByCall /\ GrantedByCall \subseteq allowanceRequests'
  BY DEF NewlyGranted, GrantedByCall
<1>3. latest' \in Nat /\ IsLog(allowanceRequests', latest')
  BY <1>1 DEF MintInv
<1>4. HasQuantities(GrantedByCall)
  BY <1>2, <1>3, LogEntries, PartSum
<1> DEFINE p == EntryQuantity(NewlyGranted)
           q == EntryQuantity(GrantedByCall)
<1>5. p \in Nat /\ q \in Nat /\ p <= q
  BY <1>2, <1>4, PartSum, EntrySum
<1> HIDE DEF p, q
<1>6. ASSUME NEW g \in SUBSET MintUsers, authorities \subseteq g
      PROVE  minted' + MintsLeft(mintAllowances', g) <= minted + MintsLeft(mintAllowances, g) + q
  <2>1. MintsLeft(mintAllowances, g) \in Nat /\ minted \in Nat
    BY LeftSummable DEF MintInv, MintsLeft
  <2>2. MintsLeft(mintAllowances', g) \in Nat /\ minted' \in Nat
    BY <1>1, LeftSummable DEF MintInv, MintsLeft
  <2>3. minted' + MintsLeft(mintAllowances', g) <= minted + MintsLeft(mintAllowances, g) + p
    BY <1>1, <1>6 DEF StepGranting, p
  <2>4. QED
    BY <1>5, <2>1, <2>2, <2>3
<1>7. QED
  BY <1>1, <1>6 DEF StepGranting, q

LEMMA NextMintStep ==
  ASSUME MintInv, NextMint
  PROVE  StepGranting(GrantedByCall) /\ (GrantedOnce' => MintStep)
<1>1. PICK t \in MintTimes :
        /\ t > latest /\ latest' = t
        /\ \/ \E by \in MintUsers :
                \/ \E dto \in GrantMintAllowanceDtos : GrantMintAllowance(by, dto, t)
                \/ \E dto \in HighThroughputGrantAllowanceDtos : RequestMintAllowance(by, dto, t)
                \/ \E dto \in MintTokenDtos : MintToken(by, dto, t)
                \/ \E dto \in MintTokenWithAllowanceDtos : MintTokenWithAllowance(by, dto, t)
                \/ \E dto \in HighThroughputMintTokenDtos : RequestMint(by, dto, t)
                \/ \E ops \in Operations(BatchMintTokenDtos, by) : BatchMintToken(by, ops, t)
                \/ \E requests \in FulfillMintDtos(mintRequests) : FulfillMint(by, requests, t)
                \/ BurnTokens(by, t)
                \/ \E to \in MintUsers, id \in instances[by] : TransferToken(by, to, id)
                \/ \E users \in SUBSET MintUsers, overwrite \in BOOLEAN : UpdateAuthorities(by, users, overwrite)
           \/ \E requests \in FulfillMintAllowanceDtos(allowanceRequests) : FulfillMintAllowance(requests, t)
  BY DEF NextMint
<1>2. ASSUME NEW by \in MintUsers, NEW dto \in GrantMintAllowanceDtos, GrantMintAllowance(by, dto, t)
      PROVE  MintStep
  BY <1>1, <1>2, GrantStep
<1>3. ASSUME NEW by \in MintUsers, NEW dto \in HighThroughputGrantAllowanceDtos, RequestMintAllowance(by, dto, t)
      PROVE  MintStep
  BY <1>1, <1>3, RequestAllowanceStep
<1>4. ASSUME NEW by \in MintUsers, NEW dto \in MintTokenDtos, MintToken(by, dto, t)
      PROVE  MintStep
  BY <1>1, <1>4, MintTokenStep
<1>5. ASSUME NEW by \in MintUsers, NEW dto \in MintTokenWithAllowanceDtos, MintTokenWithAllowance(by, dto, t)
      PROVE  MintStep
  <2>1. Operation(dto, by) \in Ops
    BY OperationsAre DEF MintTokenDtos, MintTokenWithAllowanceDtos
  <2>2. QED
    BY <1>1, <1>5, <2>1, GrantAndMintStep DEF MintTokenWithAllowance
<1>6. ASSUME NEW by \in MintUsers, NEW dto \in HighThroughputMintTokenDtos, RequestMint(by, dto, t)
      PROVE  MintStep
  <2>1. Operation(dto, by) \in Ops
    BY OperationsAre DEF MintTokenDtos, HighThroughputMintTokenDtos
  <2>2. QED
    BY <1>1, <1>6, <2>1, SubmitStep DEF RequestMint
<1>7. ASSUME NEW by \in MintUsers, NEW ops \in Operations(BatchMintTokenDtos, by), BatchMintToken(by, ops, t)
      PROVE  MintStep
  BY <1>1, <1>7, BatchMintStep
<1>8. ASSUME NEW by \in MintUsers, NEW requests \in FulfillMintDtos(mintRequests), FulfillMint(by, requests, t)
      PROVE  MintStep
  BY <1>1, <1>8, FulfillMintStep DEF FulfillMint
<1>9. ASSUME NEW by \in MintUsers, BurnTokens(by, t) PROVE MintStep
  <2>1. CASE ~IsNonFungible /\ \E q \in MintQuantities : Burn(by, q, {}, t)
    BY <1>1, <2>1, BurnStep
  <2>2. CASE IsNonFungible /\ \E id \in instances[by] : Burn(by, 1, {id}, t)
    <3>1. 1 \in MintQuantities
      BY MintAssumption DEF MintQuantities
    <3>2. PICK id \in instances[by] : Burn(by, 1, {id}, t)
      BY <2>2
    <3>3. QED
      BY <1>1, <2>2, <3>1, <3>2, BurnStep
  <2>3. QED
    BY <1>9, <2>1, <2>2 DEF BurnTokens
<1>10. ASSUME NEW by \in MintUsers, NEW users \in SUBSET MintUsers, NEW overwrite \in BOOLEAN,
              UpdateAuthorities(by, users, overwrite)
       PROVE  MintStep
  BY <1>1, <1>10, AuthoritiesStep
<1>11. ASSUME NEW by \in MintUsers, NEW to \in MintUsers, NEW id, TransferToken(by, to, id)
       PROVE  MintStep
  BY <1>1, <1>11, TransferStep
<1>12. ASSUME NEW requests \in FulfillMintAllowanceDtos(allowanceRequests), FulfillMintAllowance(requests, t)
       PROVE  StepGranting(GrantedByCall) /\ (GrantedOnce' => MintStep)
  BY <1>1, <1>12, FulfillAllowanceStep, FulfillAgainStep
<1>13. CASE MintStep
  BY <1>13, NewIsGranted
<1>14. QED
  BY <1>1, <1>2, <1>3, <1>4, <1>5, <1>6, <1>7, <1>8, <1>9, <1>10, <1>11, <1>12, <1>13

LEMMA MintAlways == MintSpec => []MintInv
<1>1. MintInv /\ [NextMint]_mintVars => MintInv'
  <2> SUFFICES ASSUME MintInv, [NextMint]_mintVars PROVE MintInv'
    OBVIOUS
  <2>1. CASE NextMint
    BY <2>1, NextMintStep DEF StepGranting
  <2>2. CASE UNCHANGED mintVars
    BY <2>2 DEF mintVars, ledger, MintInv, StockOf, IsNonFungible
  <2>3. QED
    BY <2>1, <2>2
<1>2. QED
  BY <1>1, InitMintInv, PTL DEF MintSpec

LEMMA MintTypes == MintInv => MintTypeOK
<1> SUFFICES ASSUME MintInv PROVE MintTypeOK
  OBVIOUS
<1>1. latest \in Nat /\ latest <= MaxTime /\ MaxTime \in Nat
  BY MintAssumption DEF MintInv
<1>2. /\ mintAllowances \in [MintUsers -> [MintKeys -> MintAllowances \cup {NoAllowance}]]
      /\ \A u \in MintUsers : \A k \in Existing(mintAllowances[u]) : Unspent(mintAllowances[u][k]) \in Nat
  <2>1. \A al \in MintMaps : al \in [MintKeys -> MintAllowances \cup {NoAllowance}]
    BY DEF MintMaps, MapsOf, SoundMints
  <2>2. \A al \in MintMaps : \A k \in Existing(al) : Unspent(al[k]) \in Nat
    BY DEF MintMaps, MapsOf, SoundMints, Existing
  <2>3. mintAllowances \in [MintUsers -> MintMaps]
    BY DEF MintInv
  <2>4. QED
    BY <2>1, <2>2, <2>3
<1>3. ASSUME NEW e \in allowanceRequests \cup mintRequests \cup burnCounters
      PROVE  e.time \in MintTimes /\ e.user \in MintUsers /\ e.quantity \in MintQuantities /\ e.known \in Nat
  <2>1. /\ IsLog(allowanceRequests, latest) /\ IsLog(mintRequests, latest)
        /\ IsLog(burnCounters, latest)
    BY DEF MintInv
  <2>2. e.time \in 1 .. latest /\ e.user \in MintUsers /\ e.quantity \in MintQuantities /\ e.known \in Nat
    BY <1>1, <2>1, LogEntries
  <2>3. QED
    BY <1>1, <2>2 DEF MintTimes
<1>4. instances \in [MintUsers -> SUBSET tokenInstances] /\ tokenInstances \subseteq Nat
  BY DEF MintInv, InstanceSets
<1>5. StockOf(fungible, instances) \in Nat
  BY StockType DEF MintInv
<1>6. totalSupply \in 0 .. minted /\ burned \in 0 .. minted
  BY <1>5 DEF MintInv
<1>7. QED
  BY <1>1, <1>2, <1>3, <1>4, <1>6 DEF MintInv, MintTypeOK

(***************************************************************************)
(* The variables of the mint keep their types: no allowance is spent beyond*)
(* its quantity, no balance is negative, and neither what mintToken counts *)
(* in totalSupply nor what is burned is ever more than was minted.         *)
(***************************************************************************)
THEOREM MintTypeCorrect == MintSpec => []MintTypeOK
BY MintAlways, MintTypes, PTL

(***************************************************************************)
(* Whoever mints, at once or by request: what one call mints, it takes from*)
(* what the authorities of that moment have granted (mintToken,            *)
(* validateMintRequest, constructVerifiedMints), what the call itself has  *)
(* granted included: new allowances, and those of requests that it fulfils *)
(* a second time.                                                          *)
(***************************************************************************)
THEOREM MintsAreGranted == MintSpec => MintsSpendAllowances
<1> DEFINE new == GrantedByCall
           TakesGranted == minted' - minted <= UnspentMints(mintAllowances, authorities) + EntryQuantity(new)
                                           - UnspentMints(mintAllowances', authorities)
<1>1. MintInv /\ MintInv' /\ [NextMint]_mintVars => [TakesGranted]_mintVars
  <2> SUFFICES ASSUME MintInv, MintInv', NextMint PROVE TakesGranted
    OBVIOUS
  <2>1. StepGranting(new)
    BY NextMintStep
  <2>2. /\ mintAllowances \in [MintUsers -> MintMaps] /\ mintAllowances' \in [MintUsers -> MintMaps]
        /\ authorities \in SUBSET MintUsers /\ minted \in Nat /\ minted' \in Nat
    BY DEF MintInv
  <2> DEFINE a == UnspentMints(mintAllowances, authorities)
             b == UnspentMints(mintAllowances', authorities)
             q == EntryQuantity(new)
             m == minted'
  <2>3. a = MintsLeft(mintAllowances, authorities) /\ b = MintsLeft(mintAllowances', authorities)
    BY <2>2, UnspentIsLeft
  <2>4. a \in Nat /\ b \in Nat
    BY <2>2, <2>3, LeftSummable DEF MintsLeft
  <2>5. q \in Nat
    <3>1. IsLog(allowanceRequests', latest') /\ latest' \in Nat
      BY DEF MintInv
    <3>2. IsLog(new, latest')
      BY <3>1, PartLog DEF GrantedByCall
    <3>3. HasQuantities(new)
      BY <3>1, <3>2, LogEntries
    <3>4. QED
      BY <3>3, EntrySum
  <2>6. m + b <= minted + a + q
    BY <2>1, <2>2, <2>3 DEF StepGranting
  <2>7. m \in Nat
    BY <2>2
  <2> HIDE DEF a, b, q, m
  <2>8. m - minted <= a + q - b
    BY <2>2, <2>4, <2>5, <2>6, <2>7
  <2>9. QED
    BY <2>8 DEF a, b, q, m
<1>2. QED
  BY <1>1, MintAlways, PTL DEF MintSpec, MintsSpendAllowances

-----------------------------------------------------------------------------
(* The running totals, as long as a reader takes all entries.              *)

\* A writer knows what was there one millisecond or a lookback before.
KnownSince(E) ==
  \A e \in E : \E off \in {1, Lookback} : e.known = EntryQuantity(UpToTime(E, e.time - off))

LEMMA Offsets == \A off \in {1, Lookback} : off \in Nat /\ 1 <= off /\ off <= Lookback
BY LookbackAssumption

LEMMA AllKnown ==
  ASSUME NEW t \in Nat, NEW E, IsLog(E, t), KnownSince(E), Cardinality(E) <= LookbackTx, NEW upTo \in Int
  PROVE  /\ KnownSupply(E, upTo) = EntryQuantity(UpToTime(E, upTo))
         /\ KnownSupply(E, upTo) <= EntryQuantity(E) /\ KnownSupply(E, upTo) \in Nat
<1> DEFINE T == UpToTime(E, upTo)
<1>1. T \subseteq E
  BY DEF UpToTime
<1>2. IsLog(T, t)
  BY <1>1, PartLog
<1>3. Cardinality(T) <= LookbackTx
  <2>1. Cardinality(T) <= Cardinality(E) /\ Cardinality(T) \in Nat /\ Cardinality(E) \in Nat
    BY <1>1, FS_Subset, FS_CardinalityType DEF IsLog
  <2>2. LookbackTx \in Nat
    BY LookbackAssumption
  <2> HIDE DEF T
  <2>3. QED
    BY <2>1, <2>2
<1>4. \A e \in E : e.time \in Nat
  BY LogEntries
<1>5. KnownSupply(E, upTo) = EntryQuantity(T)
  <2>1. CASE T = {} /\ KnownSupply(E, upTo) = 0
    BY <2>1, NoEntries
  <2>2. ASSUME NEW first \in T, NEW R \in SUBSET T,
               KnownSupply(E, upTo) = first.known + EntryQuantity(R),
               first = OldestFirst(T)[1] /\ R = T
        PROVE  KnownSupply(E, upTo) = EntryQuantity(T)
    <3>1. PICK off \in {1, Lookback} : first.known = EntryQuantity(UpToTime(E, first.time - off))
      BY <1>1 DEF KnownSince
    <3>2. UpToTime(E, first.time - off) = {}
      <4>1. ASSUME NEW f \in UpToTime(E, first.time - off) PROVE FALSE
        <5>1. f \in E /\ f.time <= first.time - off /\ f.time \in Nat /\ first.time \in Nat
          BY <1>1, <1>4 DEF UpToTime
        <5>2. off \in Nat /\ 1 <= off
          BY Offsets
        <5>3. f.time < first.time
          BY <5>1, <5>2
        <5>4. f \in T
          <6>1. first.time <= upTo /\ f.time <= first.time - off
            BY <5>1 DEF UpToTime
          <6>2. ASSUME ~(f.time <= upTo) PROVE FALSE
            BY <5>1, <5>2, <6>1, <6>2
          <6>3. QED
            BY <5>1, <6>2 DEF UpToTime
        <5>5. /\ Cardinality(T) \in Nat /\ {OldestFirst(T)[i] : i \in 1 .. Cardinality(T)} = T
              /\ \A i, j \in 1 .. Cardinality(T) : i < j => Before(OldestFirst(T)[i], OldestFirst(T)[j])
          BY <1>2, Oldest
        <5>6. PICK j \in 1 .. Cardinality(T) : f = OldestFirst(T)[j]
          BY <5>4, <5>5
        <5>7. j # 1
          BY <2>2, <5>1, <5>3, <5>6
        <5>8. Before(first, f)
          <6>1. 1 \in 1 .. Cardinality(T) /\ 1 < j
            BY <5>5, <5>7
          <6>2. Before(OldestFirst(T)[1], OldestFirst(T)[j])
            BY <5>5, <6>1
          <6>3. QED
            BY <2>2, <5>6, <6>2
        <5>9. first.time <= f.time
          BY <5>1, <5>8 DEF Before
        <5>10. QED
          BY <5>1, <5>3, <5>9
      <4>2. QED
        BY <4>1
    <3>3. first.known = 0
      BY <3>1, <3>2, NoEntries
    <3>4. EntryQuantity(T) \in Nat
      BY <1>2, LogEntries, EntrySum
    <3>5. QED
      BY <2>2, <3>3, <3>4
  <2>3. \/ T = {} /\ KnownSupply(E, upTo) = 0
        \/ \E first \in T, R \in SUBSET T :
             /\ KnownSupply(E, upTo) = first.known + EntryQuantity(R)
             /\ Cardinality(T) <= LookbackTx => first = OldestFirst(T)[1] /\ R = T
    BY KnownIs
  <2>4. QED
    BY <1>3, <2>1, <2>2, <2>3
<1>6. EntryQuantity(T) \in Nat /\ EntryQuantity(T) <= EntryQuantity(E)
  BY <1>1, LogEntries, PartSum
<1>7. QED
  BY <1>5, <1>6

AllAt(N, s) == \A n \in N : n.time = s

\* Entries that are later than all others change nothing of what those know.
LEMMA LaterUnknown ==
  ASSUME NEW t \in Nat, NEW s \in Nat, t < s, NEW E, IsLog(E, t), NEW N, AllAt(N, s)
  PROVE  \A upTo \in Int : upTo < s => EntryQuantity(UpToTime(E \cup N, upTo)) = EntryQuantity(UpToTime(E, upTo))
<1> SUFFICES ASSUME NEW upTo \in Int, upTo < s
             PROVE  EntryQuantity(UpToTime(E \cup N, upTo)) = EntryQuantity(UpToTime(E, upTo))
  OBVIOUS
<1>1. \A n \in N : ~(n.time <= upTo)
  BY DEF AllAt
<1>2. UpToTime(E \cup N, upTo) = UpToTime(E, upTo)
  BY <1>1 DEF UpToTime
<1>3. QED
  BY <1>2

LEMMA KnownSinceGrows ==
  ASSUME NEW t \in Nat, NEW s \in Nat, t < s, NEW E, IsLog(E, t), KnownSince(E),
         Cardinality(E) <= LookbackTx, NEW N, NEW off \in {1, Lookback},
         \A n \in N : n.time = s /\ n.known = KnownSupply(E, s - off)
  PROVE  KnownSince(E \cup N)
<1>3. AllAt(N, s)
  BY DEF AllAt
<1>4. \A u \in Int : u < s => EntryQuantity(UpToTime(E \cup N, u)) = EntryQuantity(UpToTime(E, u))
  BY <1>3, LaterUnknown
<1>1. ASSUME NEW e \in E
      PROVE  \E o \in {1, Lookback} : e.known = EntryQuantity(UpToTime(E \cup N, e.time - o))
  <2>1. PICK o \in {1, Lookback} : e.known = EntryQuantity(UpToTime(E, e.time - o))
    BY DEF KnownSince
  <2>2. e.time \in Nat /\ e.time <= t /\ o \in Nat
    BY LogEntries, Offsets
  <2> DEFINE upTo == e.time - o
  <2>3. upTo \in Int /\ upTo < s
    BY <2>2
  <2> HIDE DEF upTo
  <2>4. EntryQuantity(UpToTime(E \cup N, upTo)) = EntryQuantity(UpToTime(E, upTo))
    BY <1>4, <2>3
  <2>5. QED
    BY <2>1, <2>4 DEF upTo
<1>2. ASSUME NEW n \in N
      PROVE  \E o \in {1, Lookback} : n.known = EntryQuantity(UpToTime(E \cup N, n.time - o))
  <2>1. n.time = s /\ n.known = KnownSupply(E, s - off)
    OBVIOUS
  <2>2. off \in Nat /\ 1 <= off
    BY Offsets
  <2> DEFINE upTo == s - off
  <2>3. upTo \in Int /\ upTo < s
    BY <2>2
  <2> HIDE DEF upTo
  <2>4. EntryQuantity(UpToTime(E \cup N, upTo)) = EntryQuantity(UpToTime(E, upTo))
    BY <1>4, <2>3
  <2>5. KnownSupply(E, upTo) = EntryQuantity(UpToTime(E, upTo))
    BY <2>3, AllKnown
  <2>6. QED
    BY <2>1, <2>4, <2>5 DEF upTo
<1>5. QED
  BY <1>1, <1>2 DEF KnownSince

\* What an entry and those before it come to.
UpToEntry(E, e) == {f \in E : f = e \/ Before(f, e)}

LEMMA UpToEntryIs ==
  ASSUME NEW t \in Nat, NEW E, IsLog(E, t), NEW e \in E
  PROVE  LET before == {f \in E : Before(f, e)}
         IN  /\ EntryQuantity(UpToEntry(E, e)) = e.quantity + EntryQuantity(before)
             /\ EntryQuantity(UpToEntry(E, e)) \in Nat /\ EntryQuantity(before) \in Nat
             /\ EntryQuantity(UpToEntry(E, e)) <= EntryQuantity(E) /\ EntryQuantity(E) \in Nat
<1> DEFINE before == {f \in E : Before(f, e)}
           U == UpToEntry(E, e)
<1>1. U \subseteq E /\ e \in U
  BY DEF UpToEntry
<1>2. HasQuantities(E)
  BY LogEntries
<1>3. HasQuantities(U) /\ EntryQuantity(U) \in Nat /\ EntryQuantity(U) <= EntryQuantity(E)
      /\ EntryQuantity(E) \in Nat
  BY <1>1, <1>2, PartSum, EntrySum
<1>4. U \ {e} = before
  <2>1. ~Before(e, e)
    <3>1. e.time \in Nat /\ e.user \in MintUsers
      BY LogEntries
    <3>2. Rank[e.user] \in Nat
      BY <3>1, MintAssumption
    <3>3. QED
      BY <3>1, <3>2 DEF Before
  <2>2. QED
    BY <2>1 DEF UpToEntry
<1>5. EntryQuantity(U) = e.quantity + EntryQuantity(U \ {e})
  BY <1>1, <1>3, LessOne
<1>6. EntryQuantity(before) \in Nat
  BY <1>2, PartSum
<1>7. QED
  BY <1>3, <1>4, <1>5, <1>6

LEMMA UpToEntryStays ==
  ASSUME NEW t \in Nat, NEW s \in Nat, t < s, NEW E, IsLog(E, t), NEW N, AllAt(N, s), NEW e \in E
  PROVE  EntryQuantity(UpToEntry(E \cup N, e)) = EntryQuantity(UpToEntry(E, e))
<1>1. e.time \in Nat /\ e.time <= t
  BY LogEntries
<1>2. ASSUME NEW n \in N, n = e \/ Before(n, e) PROVE FALSE
  <2>0. n.time = s
    BY DEF AllAt
  <2>1. n.time <= e.time
    BY <1>1, <1>2, <2>0 DEF Before
  <2>2. QED
    BY <1>1, <2>0, <2>1
<1>3. UpToEntry(E \cup N, e) = UpToEntry(E, e)
  BY <1>2 DEF UpToEntry
<1>4. QED
  BY <1>3

-----------------------------------------------------------------------------
(* Supply and capacity.                                                    *)

GrantedRequests == {e \in allowanceRequests : AllowanceId(e) \in fulfilled}

Bursty == Has("RequestMintAllowance") => InBursts(allowanceRequests)

\* The request and those before it are within the limits.
KeptWithin(E, e, burns) ==
  /\ EntryQuantity(UpToEntry(E, e)) <= MaxCapacity
  /\ EntryQuantity(UpToEntry(E, e)) - burns <= MaxSupply

LimitsInv ==
  /\ Cardinality(allowanceRequests) <= MaxEntries /\ Cardinality(burnCounters) <= MaxEntries
  /\ KnownSince(allowanceRequests) /\ KnownSince(burnCounters)
  /\ burned = EntryQuantity(burnCounters)
  /\ minted + MintsLeft(mintAllowances, MintUsers) <= EntryQuantity(GrantedRequests)
  /\ Bursty => \A e \in GrantedRequests : KeptWithin(allowanceRequests, e, burned)

LEMMA InitLimits == InitMint => LimitsInv
<1> SUFFICES ASSUME InitMint PROVE LimitsInv
  OBVIOUS
<1>1. MintInv
  BY InitMintInv
<1>2. allowanceRequests = {} /\ burnCounters = {} /\ burned = 0 /\ minted = 0 /\ fulfilled = {}
      /\ mintAllowances = [u \in MintUsers |-> [k \in MintKeys |-> NoAllowance]]
  BY DEF InitMint
<1>3. Cardinality({}) = 0 /\ MaxEntries \in Nat /\ EntryQuantity({}) = 0
  BY FS_EmptySet, NoEntries, MintAssumption
<1>4. GrantedRequests = {} /\ KnownSince(allowanceRequests) /\ KnownSince(burnCounters)
  BY <1>2 DEF GrantedRequests, KnownSince
<1>5. MintsLeft(mintAllowances, MintUsers) = 0
  <2> DEFINE X == GrantedBy(MintUsers)
             f == [u \in MintUsers |-> Worth(mintAllowances[u], X)]
  <2>1. \A u \in MintUsers : f[u] = 0
    <3>1. ASSUME NEW u \in MintUsers PROVE Worth(mintAllowances[u], X) = 0
      <4>1. Existing(mintAllowances[u]) = {}
        BY <1>2 DEF Existing
      <4>2. Summable(Value(mintAllowances[u], X), {})
        BY FS_EmptySet DEF Summable
      <4>3. SumFunctionOnSet(Value(mintAllowances[u], X), {}) = 0
        BY <4>2, SumOfZeros
      <4>4. QED
        BY <4>1, <4>3 DEF Worth
    <3>2. QED
      BY <3>1
  <2>2. Summable(f, MintUsers)
    BY <1>1, LeftSummable DEF MintInv
  <2> HIDE DEF f
  <2>3. SumFunctionOnSet(f, MintUsers) = 0
    BY <2>1, <2>2, SumOfZeros
  <2>4. QED
    BY <2>3 DEF f, MintsLeft
<1>6. QED
  BY <1>2, <1>3, <1>4, <1>5 DEF LimitsInv

\* What is minted and what is left was requested and granted.
LEMMA GrantedGrows ==
  ASSUME MintInv, MintStep,
         minted + MintsLeft(mintAllowances, MintUsers) <= EntryQuantity(GrantedRequests)
  PROVE  minted' + MintsLeft(mintAllowances', MintUsers) <= EntryQuantity(GrantedRequests')
<1> DEFINE F == GrantedRequests
           N == NewlyGranted
           G == GrantedRequests'
<1>1. MintInv' /\ allowanceRequests \subseteq allowanceRequests' /\ fulfilled \subseteq fulfilled'
      /\ minted' + MintsLeft(mintAllowances', MintUsers)
           <= minted + MintsLeft(mintAllowances, MintUsers) + EntryQuantity(N)
  <2>1. authorities \subseteq MintUsers /\ MintUsers \in SUBSET MintUsers
    BY DEF MintInv
  <2>2. QED
    BY <2>1 DEF MintStep, StepGranting
<1>2. F \cup N \subseteq G /\ F \cap N = {} /\ G \subseteq allowanceRequests'
  BY <1>1 DEF GrantedRequests, NewlyGranted
<1>3. HasQuantities(allowanceRequests')
  <2>1. IsLog(allowanceRequests', latest') /\ latest' \in Nat
    BY <1>1 DEF MintInv
  <2>2. QED
    BY <2>1, LogEntries
<1> HIDE DEF F, N, G
<1>4. HasQuantities(G) /\ HasQuantities(F) /\ HasQuantities(N)
  BY <1>2, <1>3, PartSum
<1>5. EntryQuantity(F \cup N) = EntryQuantity(F) + EntryQuantity(N)
  BY <1>2, <1>4, BothSums
<1>6. EntryQuantity(F \cup N) <= EntryQuantity(G) /\ EntryQuantity(G) \in Nat
      /\ EntryQuantity(F) \in Nat /\ EntryQuantity(N) \in Nat
  BY <1>2, <1>4, PartSum, EntrySum
<1>7. /\ MintsLeft(mintAllowances, MintUsers) \in Nat /\ MintsLeft(mintAllowances', MintUsers) \in Nat
      /\ minted \in Nat /\ minted' \in Nat
  BY <1>1, LeftSummable DEF MintInv, MintsLeft
<1> DEFINE a == MintsLeft(mintAllowances, MintUsers)
           b == MintsLeft(mintAllowances', MintUsers)
           m == minted'
           f == EntryQuantity(F)
           n == EntryQuantity(N)
           h == EntryQuantity(G)
           u == EntryQuantity(F \cup N)
<1>8. /\ a \in Nat /\ b \in Nat /\ minted \in Nat /\ m \in Nat /\ f \in Nat /\ n \in Nat /\ h \in Nat
      /\ m + b <= minted + a + n /\ minted + a <= f /\ u = f + n /\ u <= h
  BY <1>1, <1>5, <1>6, <1>7 DEF F
<1> HIDE DEF a, b, m, f, n, h, u
<1>9. m + b <= h
  BY <1>8
<1>10. QED
  BY <1>9 DEF b, m, h, G

LEMMA BurnsKnown ==
  ASSUME MaxEntries <= LookbackTx, MintInv, LimitsInv, NEW t \in MintTimes
  PROVE  KnownBurns(t) \in Nat /\ KnownBurns(t) <= burned /\ burned \in Nat
<1>1. latest \in Nat /\ IsLog(burnCounters, latest) /\ burned \in Nat
  BY DEF MintInv
<1>2. Cardinality(burnCounters) <= LookbackTx
  <2>1. Cardinality(burnCounters) \in Nat /\ MaxEntries \in Nat /\ LookbackTx \in Nat
    BY <1>1, FS_CardinalityType, MintAssumption, LookbackAssumption DEF IsLog
  <2>2. Cardinality(burnCounters) <= MaxEntries
    BY DEF LimitsInv
  <2>3. QED
    BY <2>1, <2>2
<1> DEFINE upTo == t - Lookback
<1>3. upTo \in Int
  BY LookbackAssumption DEF MintTimes
<1> HIDE DEF upTo
<1>4. KnownSupply(burnCounters, upTo) \in Nat /\ KnownSupply(burnCounters, upTo) <= EntryQuantity(burnCounters)
  BY <1>1, <1>2, <1>3, AllKnown DEF LimitsInv
<1>5. QED
  BY <1>1, <1>4 DEF KnownBurns, LimitsInv, upTo

LEMMA AllGrantsKnown ==
  ASSUME MaxEntries <= LookbackTx, MintInv, LimitsInv
  PROVE  /\ Cardinality(allowanceRequests) <= LookbackTx /\ Cardinality(burnCounters) <= LookbackTx
         /\ \A upTo \in Int : KnownSupply(allowanceRequests, upTo) = EntryQuantity(UpToTime(allowanceRequests, upTo))
<1>1. latest \in Nat /\ IsLog(burnCounters, latest) /\ IsLog(allowanceRequests, latest)
  BY DEF MintInv
<1>2. /\ Cardinality(burnCounters) \in Nat /\ Cardinality(allowanceRequests) \in Nat
      /\ MaxEntries \in Nat /\ LookbackTx \in Nat
  BY <1>1, FS_CardinalityType, MintAssumption, LookbackAssumption DEF IsLog
<1>3. Cardinality(burnCounters) <= MaxEntries /\ Cardinality(allowanceRequests) <= MaxEntries
  BY DEF LimitsInv
<1>4. Cardinality(allowanceRequests) <= LookbackTx /\ Cardinality(burnCounters) <= LookbackTx
  BY <1>2, <1>3
<1>5. KnownSince(allowanceRequests)
  BY DEF LimitsInv
<1>6. \A upTo \in Int : KnownSupply(allowanceRequests, upTo) = EntryQuantity(UpToTime(allowanceRequests, upTo))
  BY <1>1, <1>4, <1>5, AllKnown
<1>7. QED
  BY <1>4, <1>6

LEMMA MinMaxOfFinite ==
  ASSUME NEW S \in SUBSET Nat, IsFiniteSet(S), S # {}
  PROVE  Min(S) \in S /\ Max(S) \in S /\ \A x \in S : Min(S) <= x /\ x <= Max(S)
<1> DEFINE up == {p \in S \X S : p[1] <= p[2]}
           down == {p \in S \X S : p[2] <= p[1]}
<1>1. IsTotalOn(S, up)
  BY DEF IsTotalOn
<1>2. IsTotalOn(S, down)
  BY DEF IsTotalOn
<1>3. \E m \in S : \A x \in S : <<x, m>> \in up
  BY <1>1, GreatestExists
<1>4. \E m \in S : \A x \in S : <<x, m>> \in down
  BY <1>2, GreatestExists
<1>5. \E m \in S : \A x \in S : m >= x
  BY <1>3
<1>6. \E m \in S : \A x \in S : m <= x
  BY <1>4
<1>7. Max(S) \in S /\ \A x \in S : Max(S) >= x
  BY <1>5 DEF Max
<1>8. Min(S) \in S /\ \A x \in S : Min(S) <= x
  BY <1>6 DEF Min
<1>9. QED
  BY <1>7, <1>8

\* Of the requests that were granted, only the newly granted ones are to be looked at.
LEMMA KeptGrows ==
  ASSUME MintInv, LimitsInv, NEW t \in MintTimes, t > latest, deployment' = deployment,
         NEW N, AllAt(N, t), allowanceRequests' = allowanceRequests \cup N,
         burned' \in Nat, burned <= burned',
         ASSUME Bursty', NEW e \in NewlyGranted PROVE KeptWithin(allowanceRequests', e, burned')
  PROVE  Bursty' => \A e \in GrantedRequests' : KeptWithin(allowanceRequests', e, burned')
<1> SUFFICES ASSUME Bursty', NEW e \in GrantedRequests' PROVE KeptWithin(allowanceRequests', e, burned')
  OBVIOUS
<1>1. e \in allowanceRequests' /\ AllowanceId(e) \in fulfilled'
  BY DEF GrantedRequests
<1>2. CASE AllowanceId(e) \notin fulfilled
  <2>1. e \in NewlyGranted
    BY <1>1, <1>2 DEF NewlyGranted
  <2>2. QED
    BY <2>1
<1>3. CASE AllowanceId(e) \in fulfilled
  <2>1. latest \in Nat /\ latest < t /\ t \in Nat /\ IsLog(allowanceRequests, latest)
        /\ fulfilled \subseteq MintIds(latest) \cup AllowanceIds(latest) /\ burned \in Nat
    BY NowLater DEF MintInv
  <2>2. e.time <= latest
    BY <1>3, <2>1, IdsDiffer
  <2>3. e \in allowanceRequests
    BY <1>1, <2>1, <2>2 DEF AllAt
  <2>4. e \in GrantedRequests
    BY <1>3, <2>3 DEF GrantedRequests
  <2>5. Bursty
    BY DEF Bursty, Has, InBursts
  <2>6. KeptWithin(allowanceRequests, e, burned)
    BY <2>4, <2>5 DEF LimitsInv
  <2>7. /\ EntryQuantity(UpToEntry(allowanceRequests \cup N, e)) = EntryQuantity(UpToEntry(allowanceRequests, e))
        /\ EntryQuantity(UpToEntry(allowanceRequests, e)) \in Nat
    <3>1. EntryQuantity(UpToEntry(allowanceRequests, e)) \in Nat
      BY <2>1, <2>3, UpToEntryIs
    <3>3. QED
      BY <2>1, <2>3, <3>1, UpToEntryStays
  <2> DEFINE c == EntryQuantity(UpToEntry(allowanceRequests, e))
             b == burned'
  <2>12. b \in Nat /\ burned <= b
    OBVIOUS
  <2>8. c \in Nat /\ c <= MaxCapacity /\ c - burned <= MaxSupply /\ MaxSupply \in Nat
    BY <2>6, <2>7, MintAssumption DEF KeptWithin
  <2> HIDE DEF c, b
  <2>9. c <= MaxCapacity /\ c - b <= MaxSupply
    BY <2>1, <2>8, <2>12
  <2>10. EntryQuantity(UpToEntry(allowanceRequests', e)) = c
    BY <2>7 DEF c
  <2>11. QED
    BY <2>9, <2>10 DEF KeptWithin, b
<1>4. QED
  BY <1>2, <1>3

\* A grant sees all that was granted or requested.
LEMMA GrantWithin ==
  ASSUME MaxEntries <= LookbackTx, MintInv, LimitsInv, NEW t \in MintTimes, t > latest,
         NEW grants \in GrantAllowanceQuantities, NEW by \in MintUsers,
         CanGrant(by, GrantedAtOnce(by, grants, t), t),
         NEW A, A = allowanceRequests \cup GrantedAtOnce(by, grants, t), NEW e \in A
  PROVE  KeptWithin(A, e, burned)
<1> DEFINE R == GrantedAtOnce(by, grants, t)
           E == allowanceRequests
           burns == KnownBurns(t)
<1>1. /\ t \in Nat /\ latest \in Nat /\ latest < t /\ IsLog(E, latest) /\ IsLog(E, t)
  BY NowLater DEF MintInv
<1>2. IsLog(R, t) /\ \A r \in R : r.time = t
  BY RequestsAre DEF GrantedAtOnce
<1>3. PICK r \in R : CanBeMinted(totalSupply, EntryQuantity(R), r.known, burns)
  BY DEF CanGrant
<1>4. r.known = EntryQuantity(E)
  <2>1. r.known = KnownMintAllowances(t, 1)
    BY DEF GrantedAtOnce, NewRequests
  <2>2. t - 1 \in Int
    BY <1>1
  <2>3. KnownMintAllowances(t, 1) = EntryQuantity(UpToTime(E, t - 1))
    BY <2>2, AllGrantsKnown DEF KnownMintAllowances
  <2>4. \A f \in E : f.time <= t - 1
    BY <1>1, LogEntries
  <2>5. UpToTime(E, t - 1) = E
    BY <2>4 DEF UpToTime
  <2>6. QED
    BY <2>1, <2>3, <2>5
<1>5. E \cap R = {}
  <2>1. \A f \in E : f.time \in Nat /\ f.time <= latest
    BY <1>1, LogEntries
  <2>2. QED
    BY <1>1, <1>2, <2>1
<1> HIDE DEF R, E, burns
<1>6. HasQuantities(E) /\ HasQuantities(R)
  BY <1>1, <1>2, LogEntries
<1>7. A = E \cup R
  BY DEF E, R
<1>8. EntryQuantity(A) = EntryQuantity(E) + EntryQuantity(R)
  BY <1>5, <1>6, <1>7, BothSums
<1>9. IsLog(A, t)
  <2>1. \A f \in E : f.time \in Nat /\ f.time <= latest
    BY <1>1, LogEntries
  <2>2. ASSUME NEW f \in A, NEW h \in A, f.time = h.time /\ f.user = h.user PROVE f = h
    <3>1. CASE f \in E /\ h \in E
      BY <1>1, <2>2, <3>1 DEF IsLog
    <3>2. CASE f \in R /\ h \in R
      BY <1>2, <2>2, <3>2 DEF IsLog
    <3>3. CASE f \in E /\ h \in R
      BY <1>1, <1>2, <2>1, <2>2, <3>3
    <3>4. CASE f \in R /\ h \in E
      BY <1>1, <1>2, <2>1, <2>2, <3>4
    <3>5. QED
      BY <1>7, <3>1, <3>2, <3>3, <3>4
  <2>3. IsFiniteSet(E) /\ IsFiniteSet(R) /\ E \subseteq Entries(t) /\ R \subseteq Entries(t)
    BY <1>1, <1>2 DEF IsLog
  <2>4. IsFiniteSet(E \cup R)
    BY <2>3, FS_Union
  <2>5. IsFiniteSet(A) /\ A \subseteq Entries(t)
    BY <1>7, <2>3, <2>4
  <2> HIDE DEF R, E
  <2>6. QED
    BY <2>2, <2>5 DEF IsLog
<1>10. EntryQuantity(UpToEntry(A, e)) \in Nat /\ EntryQuantity(UpToEntry(A, e)) <= EntryQuantity(A)
  BY <1>1, <1>9, UpToEntryIs
<1>11. burns \in Nat /\ burns <= burned /\ burned \in Nat
  BY BurnsKnown DEF burns
<1> DEFINE c == EntryQuantity(UpToEntry(A, e))
           x == EntryQuantity(E)
           y == EntryQuantity(R)
           z == EntryQuantity(A)
<1>12. /\ c \in Nat /\ x \in Nat /\ y \in Nat /\ z = x + y /\ c <= z
       /\ x + y <= MaxCapacity /\ x - burns + y <= MaxSupply /\ MaxCapacity \in Nat /\ MaxSupply \in Nat
  BY <1>3, <1>4, <1>6, <1>8, <1>10, EntrySum, MintAssumption DEF CanBeMinted
<1> HIDE DEF c, x, y, z
<1>13. c <= MaxCapacity /\ c - burned <= MaxSupply
  BY <1>11, <1>12
<1>14. QED
  BY <1>13 DEF c, KeptWithin

\* In bursts the range of a fulfilment and what its first entry knows hold all that lies before.
LEMMA FulfilWithin ==
  ASSUME MaxEntries <= LookbackTx, MintInv, LimitsInv, NEW t \in MintTimes, t > latest,
         NEW requests, FulfillMintAllowance(requests, t), Bursty, NEW e \in requests
  PROVE  KeptWithin(allowanceRequests, e, burned)
<1> DEFINE E == allowanceRequests
           range == FulfillRange(E, requests)
           first == OldestFirst(range)[1]
           baseline == first.known
           burns == KnownBurns(t)
           times == {r.time : r \in requests}
           low == Min(times)
           high == Max(times)
           inside == {f \in range : Before(f, e)}
           before == {f \in E : Before(f, e)}
<1>1. /\ requests \subseteq E /\ Has("RequestMintAllowance")
      /\ CanBeMinted(totalSupply, e.quantity, RunningTotal(range, baseline, e), burns)
  BY DEF FulfillMintAllowance
<1>2. t \in Nat /\ IsLog(E, t) /\ latest \in Nat /\ HasQuantities(E)
  BY NowLater, LogEntries
<1>3. /\ low \in times /\ high \in times /\ low \in Nat /\ high \in Nat
      /\ \A r \in requests : low <= r.time /\ r.time <= high /\ r.time \in Nat
  <2>1. \A r \in requests : r.time \in Nat
    BY <1>1, <1>2, LogEntries
  <2>2. times \subseteq Nat /\ times # {} /\ IsFiniteSet(times)
    <3>1. IsFiniteSet(requests)
      BY <1>1, <1>2, PartLog DEF IsLog
    <3>2. IsFiniteSet(times)
      <4> DEFINE f == [r \in requests |-> r.time]
      <4>1. f \in Surjection(requests, times)
        BY DEF Surjection
      <4> HIDE DEF f, times
      <4>2. QED
        BY <3>1, <4>1, FS_Surjection
    <3>3. QED
      BY <2>1, <3>2
  <2>3. low \in times /\ high \in times /\ \A x \in times : low <= x /\ x <= high
    BY <2>2, MinMaxOfFinite
  <2>4. QED
    BY <2>1, <2>2, <2>3
<1>4. PICK m \in requests : m.time = low
  BY <1>3
<1>5. range = {f \in E : f.time \in low - Lookback .. high} /\ range \subseteq E
  BY DEF FulfillRange, InRange
<1>6. Lookback \in Nat \ {0}
  BY LookbackAssumption
<1>7. \A f \in E : f.time \in Nat
  BY <1>2, LogEntries
<1>8. m \in range /\ e \in range
  BY <1>1, <1>3, <1>4, <1>5, <1>6
<1>9. first \in range /\ first.time <= m.time
  <2> HIDE DEF range
  <2>1. IsLog(range, t)
    BY <1>2, <1>5, PartLog
  <2>2. /\ Cardinality(range) \in Nat /\ {OldestFirst(range)[i] : i \in 1 .. Cardinality(range)} = range
        /\ \A i, j \in 1 .. Cardinality(range) : i < j => Before(OldestFirst(range)[i], OldestFirst(range)[j])
    BY <1>2, <2>1, Oldest
  <2>3. PICK j \in 1 .. Cardinality(range) : m = OldestFirst(range)[j]
    BY <1>8, <2>2
  <2>4. 1 \in 1 .. Cardinality(range)
    BY <2>2, <2>3
  <2>5. first \in range
    BY <2>2, <2>4
  <2>6. CASE j = 1
    BY <1>5, <1>7, <2>3, <2>5, <2>6
  <2>7. CASE j # 1
    <3>1. 1 < j
      BY <2>2, <2>3, <2>7
    <3>2. Before(first, m)
      BY <2>2, <2>3, <2>4, <3>1
    <3>3. first.time \in Nat /\ m.time \in Nat
      BY <1>5, <1>7, <1>8, <2>5
    <3>4. first.time <= m.time
      BY <3>2, <3>3 DEF Before
    <3>5. QED
      BY <2>5, <3>4
  <2>8. QED
    BY <2>6, <2>7
<1> HIDE DEF first, low, high, range
<1>10. PICK off \in {1, Lookback} : first.known = EntryQuantity(UpToTime(E, first.time - off))
  BY <1>5, <1>9 DEF LimitsInv, KnownSince
<1> DEFINE seen == UpToTime(E, first.time - off)
<1>11. before \subseteq seen \cup inside
  <2>1. ASSUME NEW f \in E, Before(f, e), f \notin range PROVE f \in seen
    <3>1. f.time \in Nat /\ e.time \in Nat /\ first.time \in Nat /\ m.time \in Nat
      BY <1>5, <1>7, <1>8, <1>9
    <3>2. f.time <= e.time /\ e.time <= high
      BY <1>3, <2>1, <3>1 DEF Before
    <3>3. f.time < low - Lookback
      BY <1>3, <1>5, <1>6, <2>1, <3>1, <3>2
    <3>4. first.time \in low - Lookback .. low
      BY <1>4, <1>5, <1>9, <1>3, <1>6, <3>1
    <3>5. InBursts(E)
      BY <1>1 DEF Bursty
    <3>6. f.time <= first.time - Lookback
      BY <1>1, <1>4, <1>5, <1>9, <3>3, <3>4, <3>5 DEF InBursts
    <3>7. off \in Nat /\ off <= Lookback
      BY Offsets
    <3>8. f.time <= first.time - off
      BY <1>6, <3>1, <3>6, <3>7
    <3>9. QED
      BY <3>8 DEF UpToTime
  <2>2. QED
    BY <2>1
<1>12. HasQuantities(seen) /\ HasQuantities(inside)
  <2>1. seen \subseteq E /\ inside \subseteq E
    BY <1>5 DEF UpToTime
  <2> HIDE DEF seen, inside
  <2>2. QED
    BY <1>2, <2>1, PartSum
<1> HIDE DEF seen, inside, before
<1>13. EntryQuantity(before) <= EntryQuantity(seen) + EntryQuantity(inside)
       /\ EntryQuantity(seen) \in Nat /\ EntryQuantity(inside) \in Nat
  <2> DEFINE rest == inside \ seen
  <2>1. HasQuantities(rest) /\ EntryQuantity(rest) <= EntryQuantity(inside) /\ EntryQuantity(rest) \in Nat
    BY <1>12, PartSum
  <2>2. seen \cap rest = {} /\ before \subseteq seen \cup rest
    BY <1>11
  <2> HIDE DEF rest
  <2>3. HasQuantities(seen \cup rest) /\ EntryQuantity(seen \cup rest) = EntryQuantity(seen) + EntryQuantity(rest)
    BY <1>12, <2>1, <2>2, BothSums
  <2>4. EntryQuantity(before) <= EntryQuantity(seen \cup rest) /\ EntryQuantity(before) \in Nat
    BY <2>2, <2>3, PartSum
  <2>5. EntryQuantity(seen) \in Nat /\ EntryQuantity(inside) \in Nat
    BY <1>12, EntrySum
  <2>6. QED
    BY <2>1, <2>3, <2>4, <2>5
<1>14. RunningTotal(range, baseline, e) = EntryQuantity(seen) + EntryQuantity(inside)
  BY <1>10 DEF RunningTotal, seen, inside
<1>15. /\ EntryQuantity(UpToEntry(E, e)) = e.quantity + EntryQuantity(before)
       /\ EntryQuantity(UpToEntry(E, e)) \in Nat /\ EntryQuantity(before) \in Nat /\ e.quantity \in Nat
  <2>1. e \in E /\ e.quantity \in Nat
    BY <1>1, <1>2 DEF HasQuantities
  <2>2. QED
    BY <1>2, <2>1, UpToEntryIs DEF before
<1>16. burns \in Nat /\ burns <= burned /\ burned \in Nat
  BY BurnsKnown
<1> DEFINE c == EntryQuantity(UpToEntry(E, e))
           b == EntryQuantity(before)
           x == EntryQuantity(seen)
           y == EntryQuantity(inside)
           k == RunningTotal(range, baseline, e)
           q == e.quantity
<1>17. /\ c = q + b /\ b \in Nat /\ q \in Nat /\ x \in Nat /\ y \in Nat /\ b <= x + y /\ k = x + y
       /\ k + q <= MaxCapacity /\ k - burns + q <= MaxSupply /\ MaxCapacity \in Nat /\ MaxSupply \in Nat
  BY <1>1, <1>13, <1>14, <1>15, MintAssumption DEF CanBeMinted
<1> HIDE DEF c, b, x, y, k, q, burns
<1>18. c <= MaxCapacity /\ c - burned <= MaxSupply
  BY <1>16, <1>17
<1>19. QED
  BY <1>18 DEF c, KeptWithin

\* What a step leaves of the running totals and of what was granted.
Records ==
  /\ KnownSince(allowanceRequests') /\ KnownSince(burnCounters')
  /\ burned' = EntryQuantity(burnCounters')
  /\ Bursty' => \A e \in GrantedRequests' : KeptWithin(allowanceRequests', e, burned')

LEMMA QuietRecords ==
  ASSUME MintInv, LimitsInv, NEW t \in MintTimes, t > latest,
         deployment' = deployment, allowanceRequests' = allowanceRequests,
         burnCounters' = burnCounters, burned' = burned, NewlyGranted = {}
  PROVE  Records
<1>1. burned' \in Nat /\ burned <= burned'
  BY DEF MintInv
<1>2. AllAt({}, t) /\ allowanceRequests' = allowanceRequests \cup {}
  BY DEF AllAt
<1>3. Bursty' => \A e \in GrantedRequests' : KeptWithin(allowanceRequests', e, burned')
  BY <1>1, <1>2, KeptGrows
<1>4. QED
  BY <1>3 DEF Records, LimitsInv

LEMMA BurnRecords ==
  ASSUME MaxEntries <= LookbackTx, MintInv, LimitsInv, NEW t \in MintTimes, t > latest,
         NEW user \in MintUsers, NEW q \in MintQuantities, NEW ids, Burn(user, q, ids, t), NewlyGranted = {}
  PROVE  Records
<1> DEFINE c == BurnCounter(user, q, t)
           N == {c}
<1>1. /\ burnCounters' = PutRanged(burnCounters, c) /\ burned' = burned + q
      /\ deployment' = deployment /\ allowanceRequests' = allowanceRequests
  BY DEF Burn
<1>2. /\ t \in Nat /\ latest \in Nat /\ latest < t /\ IsLog(burnCounters, latest)
      /\ burned \in Nat /\ q \in Nat
  BY NowLater DEF MintInv, MintQuantities
<1>3. c.time = t /\ c.known = KnownSupply(burnCounters, t - Lookback) /\ c.quantity = q
  BY DEF BurnCounter
<1> HIDE DEF c
<1>4. burnCounters' = burnCounters \cup {c} /\ c \notin burnCounters
  BY <1>1, <1>2, <1>3, PutOneLater
<1>5. KnownSince(burnCounters \cup N)
  <2>1. Lookback \in {1, Lookback} /\ Cardinality(burnCounters) <= LookbackTx
    BY AllGrantsKnown
  <2>2. \A n \in N : n.time = t /\ n.known = KnownSupply(burnCounters, t - Lookback)
    BY <1>3
  <2>3. KnownSince(burnCounters)
    BY DEF LimitsInv
  <2> HIDE DEF N
  <2>4. QED
    BY <1>2, <2>1, <2>2, <2>3, KnownSinceGrows
<1>6. burned' = EntryQuantity(burnCounters')
  <2>1. HasQuantities(burnCounters) /\ burned = EntryQuantity(burnCounters)
    BY <1>2, LogEntries DEF LimitsInv
  <2>2. HasQuantities({c}) /\ EntryQuantity({c}) = q
    BY <1>2, <1>3, OneEntry
  <2>3. burnCounters \cap {c} = {}
    BY <1>4
  <2>4. EntryQuantity(burnCounters \cup {c}) = EntryQuantity(burnCounters) + EntryQuantity({c})
    BY <2>1, <2>2, <2>3, BothSums
  <2>5. QED
    BY <1>1, <1>4, <2>1, <2>2, <2>4
<1>7. AllAt({}, t) /\ allowanceRequests' = allowanceRequests \cup {}
  BY <1>1 DEF AllAt
<1>8. burned' \in Nat /\ burned <= burned'
  BY <1>1, <1>2
<1>9. Bursty' => \A e \in GrantedRequests' : KeptWithin(allowanceRequests', e, burned')
  BY <1>1, <1>7, <1>8, KeptGrows
<1>10. KnownSince(allowanceRequests')
  BY <1>1 DEF LimitsInv
<1>11. QED
  BY <1>4, <1>5, <1>6, <1>9, <1>10 DEF Records

\* Requests that a call adds know what was there.
LEMMA RequestsKnow ==
  ASSUME MaxEntries <= LookbackTx, MintInv, LimitsInv, NEW t \in MintTimes, t > latest,
         NEW grants \in GrantAllowanceQuantities, NEW by \in MintUsers, NEW off \in {1, Lookback}
  PROVE  LET N == NewRequests(grants, by, KnownMintAllowances(t, off), t)
         IN  /\ AllAt(N, t) /\ PutRequests(allowanceRequests, N) = allowanceRequests \cup N
             /\ KnownSince(allowanceRequests \cup N)
<1> DEFINE N == NewRequests(grants, by, KnownMintAllowances(t, off), t)
<1>1. t \in Nat /\ latest \in Nat /\ latest < t /\ IsLog(allowanceRequests, latest)
  BY NowLater DEF MintInv
<1>2. \A n \in N : n.time = t /\ n.known = KnownSupply(allowanceRequests, t - off)
  BY DEF NewRequests, KnownMintAllowances
<1> HIDE DEF N
<1>3. AllAt(N, t) /\ \A n \in N : n.time = t
  BY <1>2 DEF AllAt
<1>4. Cardinality(allowanceRequests) <= LookbackTx
  BY AllGrantsKnown
<1>5. KnownSince(allowanceRequests)
  BY DEF LimitsInv
<1>6. KnownSince(allowanceRequests \cup N)
  BY <1>1, <1>2, <1>4, <1>5, KnownSinceGrows
<1>7. PutRequests(allowanceRequests, N) = allowanceRequests \cup N
  BY <1>1, <1>3, PutLater
<1>8. QED
  BY <1>3, <1>6, <1>7 DEF N

LEMMA RequestRecords ==
  ASSUME MaxEntries <= LookbackTx, MintInv, LimitsInv, NEW t \in MintTimes, t > latest,
         NEW by \in MintUsers, NEW dto \in HighThroughputGrantAllowanceDtos,
         RequestMintAllowance(by, dto, t), NewlyGranted = {}
  PROVE  Records
<1> DEFINE N == NewRequests(dto.quantities, by, KnownMintAllowances(t, Lookback), t)
<1>1. /\ allowanceRequests' = PutRequests(allowanceRequests, N)
      /\ deployment' = deployment /\ burned' = burned /\ burnCounters' = burnCounters
  BY DEF RequestMintAllowance
<1>2. dto.quantities \in GrantAllowanceQuantities /\ Lookback \in {1, Lookback}
  BY DEF HighThroughputGrantAllowanceDtos
<1>3. /\ AllAt(N, t) /\ PutRequests(allowanceRequests, N) = allowanceRequests \cup N
      /\ KnownSince(allowanceRequests \cup N)
  BY <1>2, RequestsKnow
<1> HIDE DEF N
<1>4. burned \in Nat /\ burned' \in Nat /\ burned <= burned'
  BY <1>1 DEF MintInv
<1>5. allowanceRequests' = allowanceRequests \cup N
  BY <1>1, <1>3
<1>6. Bursty' => \A e \in GrantedRequests' : KeptWithin(allowanceRequests', e, burned')
  BY <1>1, <1>3, <1>4, <1>5, KeptGrows
<1>7. QED
  BY <1>1, <1>3, <1>5, <1>6 DEF Records, LimitsInv

\* Grants at once.
LEMMA GrantRecords ==
  ASSUME MaxEntries <= LookbackTx, MintInv, LimitsInv, NEW t \in MintTimes, t > latest,
         NEW by \in MintUsers, NEW grants \in GrantAllowanceQuantities,
         CanGrant(by, GrantedAtOnce(by, grants, t), t),
         allowanceRequests' = PutRequests(allowanceRequests, GrantedAtOnce(by, grants, t)),
         deployment' = deployment, burned' = burned, burnCounters' = burnCounters
  PROVE  Records
<1> DEFINE N == GrantedAtOnce(by, grants, t)
<1>1. 1 \in {1, Lookback}
  OBVIOUS
<1>2. /\ AllAt(N, t) /\ PutRequests(allowanceRequests, N) = allowanceRequests \cup N
      /\ KnownSince(allowanceRequests \cup N)
  BY <1>1, RequestsKnow DEF GrantedAtOnce
<1>3. allowanceRequests' = allowanceRequests \cup GrantedAtOnce(by, grants, t)
  BY <1>2
<1>4. ASSUME NEW e \in allowanceRequests' PROVE KeptWithin(allowanceRequests', e, burned')
  <2> DEFINE A == allowanceRequests'
  <2>1. A = allowanceRequests \cup GrantedAtOnce(by, grants, t) /\ e \in A
    BY <1>3
  <2> HIDE DEF A
  <2>2. KeptWithin(A, e, burned)
    BY <2>1, GrantWithin
  <2>3. QED
    BY <2>2 DEF A
<1>5. Bursty' => \A e \in GrantedRequests' : KeptWithin(allowanceRequests', e, burned')
  BY <1>4 DEF GrantedRequests
<1>6. QED
  BY <1>2, <1>3, <1>5 DEF Records, LimitsInv

LEMMA FulfilRecords ==
  ASSUME MaxEntries <= LookbackTx, MintInv, LimitsInv, NEW t \in MintTimes, t > latest,
         NEW requests, FulfillMintAllowance(requests, t), NewlyGranted = requests
  PROVE  Records
<1>1. /\ deployment' = deployment /\ allowanceRequests' = allowanceRequests
      /\ burned' = burned /\ burnCounters' = burnCounters
  BY DEF FulfillMintAllowance
<1>2. AllAt({}, t) /\ allowanceRequests' = allowanceRequests \cup {}
  BY <1>1 DEF AllAt
<1>3. burned \in Nat /\ burned' \in Nat /\ burned <= burned'
  BY <1>1 DEF MintInv
<1>4. ASSUME Bursty', NEW e \in NewlyGranted PROVE KeptWithin(allowanceRequests', e, burned')
  <2>1. Bursty /\ e \in requests
    BY <1>1, <1>4 DEF Bursty, Has
  <2>2. KeptWithin(allowanceRequests, e, burned)
    BY <2>1, FulfilWithin
  <2>3. QED
    BY <1>1, <2>2
<1>5. Bursty' => \A e \in GrantedRequests' : KeptWithin(allowanceRequests', e, burned')
  BY <1>1, <1>2, <1>3, <1>4, KeptGrows
<1>6. QED
  BY <1>1, <1>5 DEF Records, LimitsInv

LEMMA NextRecords ==
  ASSUME MaxEntries <= LookbackTx, MintInv, LimitsInv, NextMint, GrantedOnce'
  PROVE  Records
<1>1. PICK t \in MintTimes :
        /\ t > latest /\ latest' = t
        /\ \/ \E by \in MintUsers :
                \/ \E dto \in GrantMintAllowanceDtos : GrantMintAllowance(by, dto, t)
                \/ \E dto \in HighThroughputGrantAllowanceDtos : RequestMintAllowance(by, dto, t)
                \/ \E dto \in MintTokenDtos : MintToken(by, dto, t)
                \/ \E dto \in MintTokenWithAllowanceDtos : MintTokenWithAllowance(by, dto, t)
                \/ \E dto \in HighThroughputMintTokenDtos : RequestMint(by, dto, t)
                \/ \E ops \in Operations(BatchMintTokenDtos, by) : BatchMintToken(by, ops, t)
                \/ \E requests \in FulfillMintDtos(mintRequests) : FulfillMint(by, requests, t)
                \/ BurnTokens(by, t)
                \/ \E to \in MintUsers, id \in instances[by] : TransferToken(by, to, id)
                \/ \E users \in SUBSET MintUsers, overwrite \in BOOLEAN : UpdateAuthorities(by, users, overwrite)
           \/ \E requests \in FulfillMintAllowanceDtos(allowanceRequests) : FulfillMintAllowance(requests, t)
  BY DEF NextMint
<1>2. ASSUME NEW by \in MintUsers, NEW dto \in GrantMintAllowanceDtos, GrantMintAllowance(by, dto, t)
      PROVE  Records
  <2>1. dto.quantities \in GrantAllowanceQuantities
    BY DEF GrantMintAllowanceDtos
  <2>2. /\ CanGrant(by, GrantedAtOnce(by, dto.quantities, t), t)
        /\ allowanceRequests' = PutRequests(allowanceRequests, GrantedAtOnce(by, dto.quantities, t))
        /\ deployment' = deployment /\ burned' = burned /\ burnCounters' = burnCounters
    BY <1>2 DEF GrantMintAllowance
  <2>3. QED
    BY <1>1, <2>1, <2>2, GrantRecords
<1>3. ASSUME NEW by \in MintUsers, NEW dto \in HighThroughputGrantAllowanceDtos, RequestMintAllowance(by, dto, t)
      PROVE  Records
  BY <1>1, <1>3, RequestAllowanceStep, RequestRecords
<1>4. ASSUME NEW by \in MintUsers, NEW dto \in MintTokenDtos, MintToken(by, dto, t)
      PROVE  Records
  <2>1. NewlyGranted = {}
    BY <1>1, <1>4, MintTokenStep
  <2>2. /\ deployment' = deployment /\ allowanceRequests' = allowanceRequests
        /\ burnCounters' = burnCounters /\ burned' = burned
    BY <1>4 DEF MintToken, WriteMints
  <2>3. QED
    BY <1>1, <2>1, <2>2, QuietRecords
<1>5. ASSUME NEW by \in MintUsers, NEW dto \in MintTokenWithAllowanceDtos, MintTokenWithAllowance(by, dto, t)
      PROVE  Records
  <2> DEFINE op == Operation(dto, by)
             grants == [u \in {by} |-> op.quantity]
  <2>1. op \in Ops
    BY OperationsAre DEF MintTokenDtos, MintTokenWithAllowanceDtos
  <2>2. grants \in GrantAllowanceQuantities
    <3>1. {by} \in (SUBSET MintUsers) \ {{}} /\ grants \in [{by} -> MintQuantities]
      BY <2>1 DEF Ops
    <3> HIDE DEF grants
    <3>2. QED
      BY <3>1 DEF GrantAllowanceQuantities
  <2>3. /\ CanGrant(by, GrantedAtOnce(by, grants, t), t)
        /\ allowanceRequests' = PutRequests(allowanceRequests, GrantedAtOnce(by, grants, t))
        /\ deployment' = deployment /\ burned' = burned /\ burnCounters' = burnCounters
    BY <1>5 DEF MintTokenWithAllowance, GrantAndMint
  <2> HIDE DEF grants
  <2>4. QED
    BY <1>1, <2>2, <2>3, GrantRecords
<1>6. ASSUME NEW by \in MintUsers, NEW dto \in HighThroughputMintTokenDtos, RequestMint(by, dto, t)
      PROVE  Records
  <2>1. Operation(dto, by) \in Ops
    BY OperationsAre DEF MintTokenDtos, HighThroughputMintTokenDtos
  <2>2. SubmitMintRequest(by, Operation(dto, by), t)
    BY <1>6 DEF RequestMint
  <2>3. NewlyGranted = {}
    BY <1>1, <2>1, <2>2, SubmitStep
  <2>4. /\ deployment' = deployment /\ allowanceRequests' = allowanceRequests
        /\ burnCounters' = burnCounters /\ burned' = burned
    BY <2>2 DEF SubmitMintRequest
  <2>5. QED
    BY <1>1, <2>3, <2>4, QuietRecords
<1>7. ASSUME NEW by \in MintUsers, NEW ops \in Operations(BatchMintTokenDtos, by), BatchMintToken(by, ops, t)
      PROVE  Records
  <2>1. NewlyGranted = {}
    BY <1>1, <1>7, BatchMintStep
  <2>2. /\ deployment' = deployment /\ allowanceRequests' = allowanceRequests
        /\ burnCounters' = burnCounters /\ burned' = burned
    BY <1>7 DEF BatchMintToken, WriteMints
  <2>3. QED
    BY <1>1, <2>1, <2>2, QuietRecords
<1>8. ASSUME NEW by \in MintUsers, NEW requests \in FulfillMintDtos(mintRequests), FulfillMint(by, requests, t)
      PROVE  Records
  <2>1. FulfillMintRequest(by, requests, t)
    BY <1>8 DEF FulfillMint
  <2>2. NewlyGranted = {}
    BY <1>1, <2>1, FulfillMintStep
  <2>3. /\ deployment' = deployment /\ allowanceRequests' = allowanceRequests
        /\ burnCounters' = burnCounters /\ burned' = burned
    BY <2>1 DEF FulfillMintRequest
  <2>4. QED
    BY <1>1, <2>2, <2>3, QuietRecords
<1>9. ASSUME NEW by \in MintUsers, BurnTokens(by, t) PROVE Records
  <2>1. ASSUME ~IsNonFungible, NEW q \in MintQuantities, Burn(by, q, {}, t) PROVE Records
    <3>1. NewlyGranted = {}
      BY <1>1, <2>1, BurnStep
    <3>2. QED
      BY <1>1, <2>1, <3>1, BurnRecords
  <2>2. ASSUME IsNonFungible, NEW id \in instances[by], Burn(by, 1, {id}, t) PROVE Records
    <3>1. 1 \in MintQuantities
      BY MintAssumption DEF MintQuantities
    <3>2. NewlyGranted = {}
      BY <1>1, <2>2, <3>1, BurnStep
    <3>3. QED
      BY <1>1, <2>2, <3>1, <3>2, BurnRecords
  <2>3. QED
    BY <1>9, <2>1, <2>2 DEF BurnTokens
<1>10. ASSUME NEW by \in MintUsers, NEW users \in SUBSET MintUsers, NEW overwrite \in BOOLEAN,
              UpdateAuthorities(by, users, overwrite)
       PROVE  Records
  <2>1. NewlyGranted = {}
    BY <1>1, <1>10, AuthoritiesStep
  <2>2. /\ deployment' = deployment /\ allowanceRequests' = allowanceRequests
        /\ burnCounters' = burnCounters /\ burned' = burned
    BY <1>10 DEF UpdateAuthorities
  <2>3. QED
    BY <1>1, <2>1, <2>2, QuietRecords
<1>11. ASSUME NEW by \in MintUsers, NEW to \in MintUsers, NEW id, TransferToken(by, to, id)
       PROVE  Records
  <2>1. NewlyGranted = {}
    BY <1>1, <1>11, TransferStep
  <2>2. /\ deployment' = deployment /\ allowanceRequests' = allowanceRequests
        /\ burnCounters' = burnCounters /\ burned' = burned
    BY <1>11 DEF TransferToken
  <2>3. QED
    BY <1>1, <2>1, <2>2, QuietRecords
<1>12. ASSUME NEW requests \in FulfillMintAllowanceDtos(allowanceRequests), FulfillMintAllowance(requests, t)
       PROVE  Records
  BY <1>1, <1>12, FulfillAllowanceStep, FulfilRecords
<1>13. QED
  BY <1>1, <1>2, <1>3, <1>4, <1>5, <1>6, <1>7, <1>8, <1>9, <1>10, <1>11, <1>12

\* The limits are kept as long as no request of allowances is fulfilled twice.
LimitsOnce == GrantedOnce => LimitsInv

LEMMA LimitsAlways ==
  ASSUME MaxEntries <= LookbackTx
  PROVE  MintSpec => []LimitsOnce
<1>1. MintInv /\ LimitsOnce /\ [NextMint]_mintVars => LimitsOnce'
  <2> SUFFICES ASSUME MintInv, LimitsOnce, [NextMint]_mintVars, GrantedOnce' PROVE LimitsInv'
    BY DEF LimitsOnce
  <2>1. CASE NextMint
    <3>1. MintStep
      BY <2>1, NextMintStep
    <3>2. allowanceRequests \subseteq allowanceRequests' /\ again \subseteq again'
      BY <3>1 DEF MintStep, StepGranting
    <3>3. GrantedOnce
      BY <3>2 DEF GrantedOnce
    <3>4. LimitsInv
      BY <3>3 DEF LimitsOnce
    <3>5. minted + MintsLeft(mintAllowances, MintUsers) <= EntryQuantity(GrantedRequests)
      BY <3>4 DEF LimitsInv
    <3>6. minted' + MintsLeft(mintAllowances', MintUsers) <= EntryQuantity(GrantedRequests')
      BY <3>1, <3>5, GrantedGrows
    <3>7. Records
      BY <2>1, <3>4, NextRecords
    <3>8. Cardinality(allowanceRequests') <= MaxEntries /\ Cardinality(burnCounters') <= MaxEntries
      BY <2>1 DEF NextMint, InBounds
    <3>9. QED
      BY <3>6, <3>7, <3>8 DEF LimitsInv, Records
  <2>2. CASE UNCHANGED mintVars
    <3>1. LimitsInv
      BY <2>2 DEF mintVars, ledger, LimitsOnce, GrantedOnce
    <3>2. QED
      BY <2>2, <3>1 DEF mintVars, ledger, LimitsInv, GrantedRequests, Bursty, Has
  <2>3. QED
    BY <2>1, <2>2
<1>2. InitMint => LimitsOnce
  BY InitLimits DEF LimitsOnce
<1>3. QED
  BY <1>1, <1>2, MintAlways, PTL DEF MintSpec

\* The latest request that was granted has all others before it.
LEMMA WithinBursts == MintInv /\ LimitsOnce => LimitsHoldInBursts
<1> SUFFICES ASSUME MintInv, LimitsInv, Bursty PROVE WithinLimits
  BY DEF LimitsOnce, LimitsHoldInBursts, Bursty
<1> DEFINE E == allowanceRequests
           F == GrantedRequests
           later == {p \in F \X F : p[1] = p[2] \/ Before(p[1], p[2])}
           a == MintsLeft(mintAllowances, MintUsers)
<1>1. /\ latest \in Nat /\ IsLog(E, latest) /\ minted \in Nat /\ burned \in Nat
      /\ mintAllowances \in [MintUsers -> MintMaps]
  BY DEF MintInv
<1>2. F \subseteq E /\ IsLog(F, latest) /\ HasQuantities(E) /\ HasQuantities(F)
  <2>1. F \subseteq E
    BY DEF GrantedRequests
  <2>2. QED
    BY <1>1, <2>1, PartLog, LogEntries
<1>3. UnspentMints(mintAllowances, MintUsers) = a /\ a \in Nat
  BY <1>1, UnspentIsLeft, LeftSummable DEF MintsLeft
<1>4. minted + a <= EntryQuantity(F) /\ EntryQuantity(F) \in Nat
  BY <1>2, EntrySum DEF LimitsInv
<1>5. MaxCapacity \in Nat /\ MaxSupply \in Nat
  BY MintAssumption
<1>6. CASE F = {}
  <2>1. minted + a <= 0
    BY <1>4, <1>6, NoEntries
  <2> HIDE DEF a
  <2>2. QED
    BY <1>1, <1>3, <1>5, <2>1 DEF WithinLimits
<1>7. CASE F # {}
  <2>1. IsTotalOn(F, later)
    <3>1. \A e \in F : e.time \in Nat /\ e.user \in MintUsers /\ Rank[e.user] \in Nat
      BY <1>1, <1>2, LogEntries, MintAssumption
    <3>2. ASSUME NEW x \in F, NEW y \in F PROVE <<x, y>> \in later \/ <<y, x>> \in later
      <4>1. CASE x.time = y.time /\ Rank[x.user] = Rank[y.user]
        <5>1. x.user = y.user
          BY <3>1, <4>1, MintAssumption
        <5>2. x = y
          BY <1>2, <4>1, <5>1 DEF IsLog
        <5>3. QED
          BY <5>2
      <4>2. CASE x.time # y.time \/ Rank[x.user] # Rank[y.user]
        <5>1. Before(x, y) \/ Before(y, x)
          BY <3>1, <4>2 DEF Before
        <5>2. QED
          BY <5>1
      <4>3. QED
        BY <4>1, <4>2
    <3>3. ASSUME NEW x \in F, NEW y \in F, NEW z \in F, <<x, y>> \in later, <<y, z>> \in later
          PROVE  <<x, z>> \in later
      <4>1. (x = y \/ Before(x, y)) /\ (y = z \/ Before(y, z))
        BY <3>3
      <4>2. x = z \/ Before(x, z)
        BY <3>1, <4>1 DEF Before
      <4>3. QED
        BY <4>2
    <3> HIDE DEF later
    <3>4. QED
      BY <3>2, <3>3 DEF IsTotalOn
  <2>2. PICK m \in F : \A x \in F : <<x, m>> \in later
    BY <1>2, <1>7, <2>1, GreatestExists DEF IsLog
  <2> DEFINE U == UpToEntry(E, m)
             c == EntryQuantity(U)
  <2>3. F \subseteq U /\ U \subseteq E /\ m \in E
    BY <1>2, <2>2 DEF UpToEntry
  <2>4. KeptWithin(E, m, burned)
    BY DEF LimitsInv
  <2>5. c <= MaxCapacity /\ c - burned <= MaxSupply
    BY <2>4 DEF KeptWithin
  <2> HIDE DEF U
  <2>6. c \in Nat /\ EntryQuantity(F) <= c
    <3>1. HasQuantities(U) /\ c \in Nat
      BY <1>2, <2>3, PartSum
    <3>2. QED
      BY <2>3, <3>1, PartSum
  <2> DEFINE s == UnspentMints(mintAllowances, MintUsers)
             f == EntryQuantity(F)
  <2>7. /\ f \in Nat /\ minted + s <= f /\ s \in Nat /\ f <= c
    BY <1>3, <1>4, <2>6
  <2> HIDE DEF s, c, f
  <2>8. minted + s <= MaxCapacity /\ (minted + s) - burned <= MaxSupply
    BY <1>1, <1>5, <2>5, <2>6, <2>7
  <2>9. QED
    BY <2>8 DEF WithinLimits, s
<1>8. QED
  BY <1>6, <1>7

(***************************************************************************)
(* Grants and fulfilments keep the supply and the capacity of the token    *)
(* class (ensureQuantityCanBeMinted), with all that can still be minted, as*)
(* long as a reader of the running totals takes all entries                *)
(* (lookbackTxCount), the requests come in bursts and none of them is      *)
(* fulfilled a second time: fulfillMintAllowance does not look at what was *)
(* fulfilled, and puts an allowance anew that was spent.                   *)
(***************************************************************************)
THEOREM LimitsAreKept ==
  ASSUME MaxEntries <= LookbackTx
  PROVE  MintSpec => []LimitsHoldInBursts
BY MintAlways, LimitsAlways, WithinBursts, PTL

-----------------------------------------------------------------------------
(* Unique instances.                                                       *)

\* The instances that a request stands for.
IdsOf(R, e) == EntryQuantity(UpToEntry(R, e)) - e.quantity + 1 .. EntryQuantity(UpToEntry(R, e))

\* Those of the requests that are fulfilled.
Given(R, ids) == UNION {IdsOf(R, e) : e \in {f \in R : MintId(f) \in ids}}

LEMMA IdsDisjoint ==
  ASSUME NEW t \in Nat, NEW R, IsLog(R, t), NEW e \in R, NEW f \in R, e # f
  PROVE  IdsOf(R, e) \cap IdsOf(R, f) = {}
<1>1. \A x \in R : /\ x.time \in Nat /\ x.user \in MintUsers /\ Rank[x.user] \in Nat /\ x.quantity \in Nat
  BY LogEntries, MintAssumption
<1>2. ASSUME NEW x \in R, NEW y \in R, Before(x, y)
      PROVE  EntryQuantity(UpToEntry(R, x)) <= EntryQuantity(UpToEntry(R, y)) - y.quantity
  <2> DEFINE U == UpToEntry(R, x)
             B == {z \in R : Before(z, y)}
             c == EntryQuantity(U)
             d == EntryQuantity(UpToEntry(R, y))
             b == EntryQuantity(B)
  <2>1. U \subseteq B
    <3>1. ASSUME NEW z \in R, z = x \/ Before(z, x) PROVE Before(z, y)
      BY <1>1, <1>2, <3>1 DEF Before
    <3>2. QED
      BY <3>1 DEF UpToEntry
  <2>2. d = y.quantity + b /\ b \in Nat /\ d \in Nat /\ c \in Nat
    BY UpToEntryIs
  <2>3. HasQuantities(B)
    BY LogEntries, PartSum
  <2> HIDE DEF U, B
  <2>4. c <= b
    BY <2>1, <2>3, PartSum
  <2> HIDE DEF c, d, b
  <2>5. c <= d - y.quantity
    BY <1>1, <2>2, <2>4
  <2>6. QED
    BY <2>5 DEF c, d, U
<1>3. Before(e, f) \/ Before(f, e)
  <2>1. ASSUME ~Before(e, f), ~Before(f, e) PROVE FALSE
    <3>1. e.time = f.time /\ Rank[e.user] = Rank[f.user]
      BY <1>1, <2>1 DEF Before
    <3>2. e.user = f.user
      BY <1>1, <3>1, MintAssumption
    <3>3. QED
      BY <3>1, <3>2 DEF IsLog
  <2>2. QED
    BY <2>1
<1> DEFINE c == EntryQuantity(UpToEntry(R, e))
           d == EntryQuantity(UpToEntry(R, f))
           p == e.quantity
           q == f.quantity
<1>4. c \in Nat /\ d \in Nat /\ p \in Nat /\ q \in Nat
  BY <1>1, UpToEntryIs
<1>5. c <= d - q \/ d <= c - p
  BY <1>2, <1>3
<1> HIDE DEF c, d, p, q
<1>6. (c - p + 1 .. c) \cap (d - q + 1 .. d) = {}
  BY <1>4, <1>5
<1>7. QED
  BY <1>6 DEF IdsOf, c, d, p, q

\* A request that is later than all others leaves what they stand for.
LEMMA IdsStay ==
  ASSUME NEW t \in Nat, NEW s \in Nat, t < s, NEW R, IsLog(R, t), NEW n, n.time = s, NEW ids
  PROVE  Given(R, ids) \subseteq Given(R \cup {n}, ids)
<1>1. ASSUME NEW e \in R PROVE IdsOf(R \cup {n}, e) = IdsOf(R, e)
  <2> DEFINE N == {n}
  <2>2. AllAt(N, s)
    BY DEF AllAt
  <2> HIDE DEF N
  <2>3. EntryQuantity(UpToEntry(R \cup N, e)) = EntryQuantity(UpToEntry(R, e))
    BY <2>2, UpToEntryStays
  <2>4. QED
    BY <2>3 DEF IdsOf, N
<1>2. QED
  BY <1>1 DEF Given

NoneApart(R) == \A e, f \in R : f.time # e.time + Lookback

\* What requests know that were made and fulfilled in two phases.
KnownBehind(R) == \A e \in R : e.known = EntryQuantity(UpToTime(R, e.time - Lookback))

\* The one who fulfils a request counts all those before it.
LEMMA CountsAllBefore ==
  ASSUME NEW t \in Nat, NEW R, IsLog(R, t), KnownBehind(R), NoneApart(R), NEW e \in R
  PROVE  LET counter == RunningTotal(FulfillRange(R, {e}) \ {e}, e.known, e)
         IN  counter \in Nat /\ counter = EntryQuantity(UpToEntry(R, e)) - e.quantity
<1> DEFINE range == FulfillRange(R, {e})
           seen == UpToTime(R, e.time - Lookback)
           inside == {f \in range \ {e} : Before(f, e)}
           before == {f \in R : Before(f, e)}
<1>1. \A f \in R : f.time \in Nat /\ f.quantity \in Nat
  BY LogEntries
<1>2. Lookback \in Nat \ {0}
  BY LookbackAssumption
<1>3. range = {f \in R : f.time \in e.time - Lookback .. e.time}
  <2>1. {x.time : x \in {e}} = {e.time}
    OBVIOUS
  <2>2. {e.time} \in SUBSET Nat /\ IsFiniteSet({e.time}) /\ {e.time} # {}
    BY <1>1, FS_Singleton
  <2>3. Min({e.time}) = e.time /\ Max({e.time}) = e.time
    BY <2>2, MinMaxOfFinite
  <2>4. QED
    BY <2>1, <2>3 DEF FulfillRange, InRange
<1>4. ~Before(e, e)
  <2>1. Rank[e.user] \in Nat
    BY LogEntries, MintAssumption
  <2>2. QED
    BY <1>1, <2>1 DEF Before
<1>5. \A f \in seen : f.time <= e.time - Lookback /\ f \in R
  BY DEF UpToTime
<1>6. \A f \in inside : f.time >= e.time - Lookback /\ f.time <= e.time /\ f \in R /\ Before(f, e)
  BY <1>1, <1>2, <1>3
<1>7. seen \cap inside = {}
  <2>1. ASSUME NEW f \in seen, f \in inside PROVE FALSE
    <3>1. f.time <= e.time - Lookback /\ f.time >= e.time - Lookback /\ f \in R
      BY <1>5, <1>6, <2>1
    <3>2. e.time = f.time + Lookback
      BY <1>1, <1>2, <3>1
    <3>3. QED
      BY <3>1, <3>2 DEF NoneApart
  <2>2. QED
    BY <2>1
<1>8. before = seen \cup inside
  <2>1. ASSUME NEW f \in R, Before(f, e) PROVE f \in seen \cup inside
    <3>1. f.time <= e.time /\ f # e
      BY <1>1, <1>4, <2>1 DEF Before
    <3>2. CASE f.time <= e.time - Lookback
      BY <3>2 DEF UpToTime
    <3>3. CASE ~(f.time <= e.time - Lookback)
      <4>1. f.time \in e.time - Lookback .. e.time
        BY <1>1, <1>2, <3>1, <3>3
      <4>2. f \in range
        BY <1>3, <4>1
      <4>3. QED
        BY <2>1, <3>1, <4>2
    <3>4. QED
      BY <3>2, <3>3
  <2>2. ASSUME NEW f \in seen PROVE f \in before
    <3>1. f.time < e.time
      BY <1>1, <1>2, <1>5
    <3>2. QED
      BY <1>5, <3>1 DEF Before
  <2>3. ASSUME NEW f \in inside PROVE f \in before
    BY <1>6
  <2>4. QED
    BY <2>1, <2>2, <2>3
<1>9. e.known = EntryQuantity(seen)
  BY DEF KnownBehind
<1>10. RunningTotal(range \ {e}, e.known, e) = EntryQuantity(seen) + EntryQuantity(inside)
  BY <1>9 DEF RunningTotal
<1>11. seen \subseteq R /\ inside \subseteq R
  BY <1>5, <1>6
<1>12. EntryQuantity(UpToEntry(R, e)) = e.quantity + EntryQuantity(before)
       /\ EntryQuantity(before) \in Nat /\ e.quantity \in Nat
  BY <1>1, UpToEntryIs
<1> HIDE DEF seen, inside, before, range
<1>13. HasQuantities(seen) /\ HasQuantities(inside)
  BY <1>11, LogEntries, PartSum
<1>14. EntryQuantity(before) = EntryQuantity(seen) + EntryQuantity(inside)
  BY <1>7, <1>8, <1>13, BothSums
<1> DEFINE b == EntryQuantity(before)
           c == EntryQuantity(UpToEntry(R, e))
           k == RunningTotal(range \ {e}, e.known, e)
<1>15. k = b /\ c = e.quantity + b /\ b \in Nat /\ e.quantity \in Nat
  BY <1>10, <1>12, <1>14
<1> HIDE DEF b, c, k
<1>16. k \in Nat /\ k = c - e.quantity
  BY <1>15
<1>17. QED
  BY <1>16 DEF k, c, range

\* NFTs are minted at once, or in two phases.
OneWayMints ==
  \A d \in Deployments : d.isNonFungible =>
    "RequestMint" \notin d.methods \/ d.methods \cap {"MintToken", "MintTokenWithAllowance"} = {}

(***************************************************************************)
(* At once, the instances are numbered up to totalSupply.  In two phases,  *)
(* each request stands for instances of its own, of which none is given    *)
(* before it is fulfilled.                                                 *)
(***************************************************************************)
UniqueNow ==
  /\ IsNonFungible /\ ~Has("RequestMint") =>
       Disjoint(instances) /\ tokenInstances = 1 .. totalSupply /\ minted = totalSupply
  /\ IsNonFungible /\ Has("RequestMint") =>
       /\ KnownBehind(mintRequests)
       /\ NoneApart(mintRequests) /\ MintedOnce =>
            /\ Disjoint(instances)
            /\ tokenInstances \subseteq Given(mintRequests, fulfilled)
            /\ Cardinality(tokenInstances) = minted

UniqueInv == Cardinality(mintRequests) <= MaxEntries /\ UniqueNow

LEMMA InitUnique == InitMint => UniqueInv
<1> SUFFICES ASSUME InitMint PROVE UniqueInv
  OBVIOUS
<1>1. /\ mintRequests = {} /\ instances = [u \in MintUsers |-> {}] /\ tokenInstances = {}
      /\ totalSupply = 0 /\ minted = 0
  BY DEF InitMint
<1>2. Cardinality(mintRequests) <= MaxEntries /\ Cardinality(tokenInstances) = minted
  BY <1>1, FS_EmptySet, MintAssumption
<1>3. Disjoint(instances) /\ tokenInstances = 1 .. totalSupply
  BY <1>1 DEF Disjoint
<1>4. KnownBehind(mintRequests)
  BY <1>1 DEF KnownBehind
<1>5. tokenInstances \subseteq Given(mintRequests, fulfilled)
  BY <1>1
<1>6. QED
  BY <1>1, <1>2, <1>3, <1>4, <1>5 DEF UniqueInv, UniqueNow

\* A step that neither mints nor requests a mint.
LEMMA UniqueQuiet ==
  ASSUME UniqueInv, UNCHANGED <<deployment, mintRequests, totalSupply, tokenInstances, minted>>,
         Disjoint(instances) => Disjoint(instances'),
         fulfilled \subseteq fulfilled', again \subseteq again'
  PROVE  UniqueNow'
<1>1. MintedOnce' => MintedOnce
  BY DEF MintedOnce
<1>2. Given(mintRequests, fulfilled) \subseteq Given(mintRequests, fulfilled')
  BY DEF Given
<1>3. IsNonFungible' = IsNonFungible /\ Has("RequestMint")' = Has("RequestMint")
  BY DEF IsNonFungible, Has
<1>4. /\ Disjoint(instances)' = Disjoint(instances')
      /\ KnownBehind(mintRequests)' = KnownBehind(mintRequests)
      /\ NoneApart(mintRequests)' = NoneApart(mintRequests)
      /\ Given(mintRequests, fulfilled)' = Given(mintRequests, fulfilled')
  BY DEF Disjoint, KnownBehind, NoneApart, Given
<1>5. QED
  BY <1>1, <1>2, <1>3, <1>4 DEF UniqueInv, UniqueNow

\* A step that mints at once.
LEMMA MintsNumbered ==
  ASSUME OneWayMints, MintInv, UniqueInv, Has("MintToken") \/ Has("MintTokenWithAllowance"),
         deployment' = deployment, NEW t \in MintTimes, t > latest,
         NEW by \in MintUsers, NEW held \in [MintUsers -> MintMaps], NEW w \in Writings(t),
         After(Written(held, by), w), NumbersOn(Written(held, by), w),
         IsNonFungible /\ Numbered(instances, totalSupply) => Numbered(w.instances, w.supply),
         Write(w, held)
  PROVE  UniqueNow'
<1> DEFINE v == Written(held, by)
           new == UNION {w.instances[u] \ instances[u] : u \in MintUsers}
           m == w.minted
           n == w.supply
<1>1. IsNonFungible' = IsNonFungible /\ Has("RequestMint")' = Has("RequestMint")
  BY DEF IsNonFungible, Has
<1>2. IsNonFungible => ~Has("RequestMint")
  BY DEF OneWayMints, MintInv, IsNonFungible, Has
<1>3. v.supply = totalSupply /\ v.instances = instances /\ v.minted = 0
  BY WrittenIs
<1>4. /\ instances' = w.instances /\ totalSupply' = n /\ minted' = minted + m
      /\ tokenInstances' = tokenInstances \cup new
  BY DEF Write
<1>5. /\ m \in Nat /\ n \in Nat /\ totalSupply \in Nat /\ n - totalSupply = m - 0
      /\ IsNonFungible => new = totalSupply + 1 .. n
  BY <1>3, WritingParts DEF NumbersOn, MintInv
<1> HIDE DEF v, new, m, n
<1>6. ASSUME IsNonFungible
      PROVE  Disjoint(w.instances) /\ tokenInstances' = 1 .. totalSupply' /\ minted' = totalSupply'
  <2>1. Disjoint(instances) /\ tokenInstances = 1 .. totalSupply /\ minted = totalSupply
    BY <1>2, <1>6 DEF UniqueInv, UniqueNow
  <2>2. \A u \in MintUsers : instances[u] \subseteq 1 .. totalSupply
    BY <2>1 DEF MintInv
  <2>3. Disjoint(w.instances)
    BY <1>6, <2>1, <2>2 DEF Numbered
  <2>4. tokenInstances' = (1 .. totalSupply) \cup (totalSupply + 1 .. n)
    BY <1>4, <1>5, <1>6, <2>1
  <2>5. (1 .. totalSupply) \cup (totalSupply + 1 .. n) = 1 .. n /\ totalSupply + m = n
    BY <1>5
  <2>6. QED
    BY <1>4, <2>1, <2>3, <2>4, <2>5
<1>7. Disjoint(instances)' = Disjoint(w.instances)
  BY <1>4 DEF Disjoint
<1>8. QED
  BY <1>1, <1>2, <1>6, <1>7 DEF UniqueNow

LEMMA MintTokenUnique ==
  ASSUME OneWayMints, MintInv, UniqueInv, NEW t \in MintTimes, t > latest,
         NEW by \in MintUsers, NEW dto \in MintTokenDtos, MintToken(by, dto, t)
  PROVE  UniqueNow'
<1> DEFINE start == Written(mintAllowances, by)
           w == MintOne(start, Operation(dto, by), t)
<1>1. Has("MintToken") /\ WriteMints(w, mintAllowances)
  BY DEF MintToken
<1>2. start \in Writings(t) /\ start.instances = instances /\ start.supply = totalSupply
      /\ t \in Nat \ {0} /\ IsLog(mintRequests, t) /\ mintAllowances \in [MintUsers -> MintMaps]
  BY WrittenIs, NowLater DEF MintInv
<1>3. Operation(dto, by) \in Ops
  BY OperationsAre
<1> HIDE DEF start
<1>4. /\ w \in Writings(t) /\ After(start, w) /\ NumbersOn(start, w)
      /\ IsNonFungible /\ Numbered(start.instances, start.supply) => Numbered(w.instances, w.supply)
  BY <1>2, <1>3, MintOneAfter
<1> HIDE DEF w
<1>5. Write(w, mintAllowances) /\ deployment' = deployment
  BY <1>1 DEF WriteMints
<1>6. QED
  BY <1>1, <1>2, <1>4, <1>5, MintsNumbered DEF start

LEMMA BatchMintUnique ==
  ASSUME OneWayMints, MintInv, UniqueInv, NEW t \in MintTimes, t > latest,
         NEW by \in MintUsers, NEW ops \in Operations(BatchMintTokenDtos, by), BatchMintToken(by, ops, t)
  PROVE  UniqueNow'
<1> DEFINE start == Written(mintAllowances, by)
           w == MintAll(start, ops, t)
<1>1. Has("MintToken") /\ WriteMints(w, mintAllowances)
  BY DEF BatchMintToken
<1>2. start \in Writings(t) /\ start.instances = instances /\ start.supply = totalSupply
      /\ t \in Nat \ {0} /\ IsLog(mintRequests, t) /\ mintAllowances \in [MintUsers -> MintMaps]
  BY WrittenIs, NowLater DEF MintInv
<1>3. ops \in Seq(Ops)
  BY BatchIsSeq
<1> HIDE DEF start
<1>4. /\ w \in Writings(t) /\ After(start, w) /\ NumbersOn(start, w)
      /\ IsNonFungible /\ Numbered(start.instances, start.supply) => Numbered(w.instances, w.supply)
  BY <1>2, <1>3, MintAllAfter
<1> HIDE DEF w
<1>5. Write(w, mintAllowances) /\ deployment' = deployment
  BY <1>1 DEF WriteMints
<1>6. QED
  BY <1>1, <1>2, <1>4, <1>5, MintsNumbered DEF start

LEMMA GrantAndMintUnique ==
  ASSUME OneWayMints, MintInv, UniqueInv, NEW t \in MintTimes, t > latest,
         NEW by \in MintUsers, NEW op \in Ops, Has("MintTokenWithAllowance"), GrantAndMint(by, op, t)
  PROVE  UniqueNow'
<1> DEFINE q == op.quantity
           k == [grantedBy |-> by, created |-> t]
           a == NewAllowance(q, 1, 0)
           held == [mintAllowances EXCEPT ![by][k] = a]
           start == Written(held, by)
           w == MintOne(start, op, t)
<1>1. Write(w, held) /\ deployment' = deployment
  BY DEF GrantAndMint
<1>2. a \in SoundMints
  <2>1. q \in Nat
    BY MintAssumption DEF Ops, MintQuantities
  <2>2. QED
    BY <2>1, NewMintIsSound
<1>3. held \in [MintUsers -> MintMaps]
  <2>1. mintAllowances \in [MintUsers -> MintMaps] /\ mintAllowances[by] \in MintMaps
    BY DEF MintInv
  <2>2. k \in MintKeys
    BY DEF MintKeys
  <2> DEFINE after == [mintAllowances[by] EXCEPT ![k] = a]
  <2> HIDE DEF a, k
  <2>3. after \in MintMaps
    BY <1>2, <2>1, <2>2 DEF MintMaps, MapsOf
  <2>4. held = [mintAllowances EXCEPT ![by] = after]
    OBVIOUS
  <2> HIDE DEF after
  <2>5. QED
    BY <2>1, <2>3, <2>4
<1> HIDE DEF held
<1>4. start \in Writings(t) /\ start.instances = instances /\ start.supply = totalSupply
      /\ t \in Nat \ {0} /\ IsLog(mintRequests, t)
  BY <1>3, WrittenIs, NowLater
<1> HIDE DEF start
<1>5. /\ w \in Writings(t) /\ After(start, w) /\ NumbersOn(start, w)
      /\ IsNonFungible /\ Numbered(start.instances, start.supply) => Numbered(w.instances, w.supply)
  BY <1>4, MintOneAfter
<1> HIDE DEF w
<1>6. QED
  BY <1>1, <1>3, <1>4, <1>5, MintsNumbered DEF start

\* A later request stands for the instances after those of all others.
LEMMA SubmitUnique ==
  ASSUME MaxEntries <= LookbackTx, MintInv, UniqueInv, NEW t \in MintTimes, t > latest,
         NEW by \in MintUsers, NEW op \in Ops, Has("RequestMint"), SubmitMintRequest(by, op, t)
  PROVE  UniqueNow'
<1> DEFINE R == mintRequests
           n == MintEntry(op.owner, op.quantity, by, KnownMints(t), t)
           N == {n}
<1>1. /\ mintRequests' = PutRanged(R, n)
      /\ UNCHANGED <<deployment, totalSupply, instances, tokenInstances, minted, fulfilled, again>>
  BY DEF SubmitMintRequest
<1>2. latest \in Nat /\ t \in Nat /\ latest < t /\ IsLog(R, latest)
  BY NowLater DEF MintInv
<1>3. n.time = t /\ n.known = KnownMints(t)
  BY DEF MintEntry
<1>4. Lookback \in Nat \ {0} /\ LookbackTx \in Nat
  BY LookbackAssumption
<1> HIDE DEF n
<1>5. mintRequests' = R \cup {n}
  BY <1>1, <1>2, <1>3, PutOneLater
<1>6. AllAt(N, t)
  BY <1>3 DEF AllAt
<1>7. ASSUME KnownBehind(R) PROVE KnownBehind(R \cup {n})
  <2>1. KnownSince(R)
    BY <1>7 DEF KnownSince, KnownBehind
  <2>2. Cardinality(R) <= LookbackTx
    <3>1. Cardinality(R) <= MaxEntries /\ Cardinality(R) \in Nat /\ MaxEntries \in Nat
      BY <1>2, FS_CardinalityType, MintAssumption DEF UniqueInv, IsLog
    <3>2. QED
      BY <1>4, <3>1
  <2>3. t - Lookback \in Int
    BY <1>2, <1>4
  <2>4. n.known = EntryQuantity(UpToTime(R, t - Lookback))
    <3>1. KnownSupply(R, t - Lookback) = EntryQuantity(UpToTime(R, t - Lookback))
      BY <1>2, <2>1, <2>2, <2>3, AllKnown
    <3>2. QED
      BY <1>3, <3>1 DEF KnownMints
  <2>5. \A upTo \in Int : upTo < t => EntryQuantity(UpToTime(R \cup N, upTo)) = EntryQuantity(UpToTime(R, upTo))
    <3> HIDE DEF N
    <3>1. QED
      BY <1>2, <1>6, LaterUnknown
  <2>6. ASSUME NEW e \in R PROVE e.known = EntryQuantity(UpToTime(R \cup {n}, e.time - Lookback))
    <3>1. e.time \in Nat /\ e.time <= latest
      BY <1>2, LogEntries
    <3>2. e.time - Lookback \in Int /\ e.time - Lookback < t
      BY <1>2, <1>4, <3>1
    <3>3. QED
      BY <1>7, <2>5, <3>2 DEF KnownBehind
  <2>7. n.known = EntryQuantity(UpToTime(R \cup {n}, n.time - Lookback))
    <3>1. t - Lookback < t
      BY <1>2, <1>4
    <3>2. QED
      BY <1>3, <2>3, <2>4, <2>5, <3>1
  <2>8. QED
    BY <2>6, <2>7 DEF KnownBehind
<1>8. Given(R, fulfilled) \subseteq Given(R \cup {n}, fulfilled)
  BY <1>2, <1>3, IdsStay
<1>9. (NoneApart(R \cup {n}) => NoneApart(R)) /\ (MintedOnce' => MintedOnce)
  BY <1>1, <1>5 DEF NoneApart, MintedOnce
<1>10. IsNonFungible' = IsNonFungible /\ Has("RequestMint")' = Has("RequestMint")
  BY <1>1 DEF IsNonFungible, Has
<1>11. /\ KnownBehind(mintRequests)' = KnownBehind(R \cup {n})
       /\ NoneApart(mintRequests)' = NoneApart(R \cup {n})
       /\ Given(mintRequests, fulfilled)' = Given(R \cup {n}, fulfilled)
       /\ Disjoint(instances)' = Disjoint(instances)
  BY <1>1, <1>5 DEF KnownBehind, NoneApart, Given, Disjoint
<1>12. QED
  BY <1>1, <1>7, <1>8, <1>9, <1>10, <1>11 DEF UniqueInv, UniqueNow

LEMMA OneRequest ==
  ASSUME MaxBatch = 1, NEW requests \in FulfillMintDtos(mintRequests)
  PROVE  ToSet(requests) = {requests[1]}
<1>1. requests # << >> /\ requests \in BoundedSeq(MintRequestDtos(mintRequests), MaxBatch)
  BY DEF FulfillMintDtos
<1>2. PICK m \in 0 .. MaxBatch : requests \in [1 .. m -> MintRequestDtos(mintRequests)]
  BY <1>1 DEF BoundedSeq, SeqOf
<1>3. m # 0
  <2>1. ASSUME m = 0 PROVE FALSE
    <3>1. requests \in [1 .. 0 -> MintRequestDtos(mintRequests)] /\ 1 .. 0 = {}
      BY <1>2, <2>1
    <3>2. requests = << >>
      BY <3>1
    <3>3. QED
      BY <1>1, <3>2
  <2>2. QED
    BY <2>1
<1>4. DOMAIN requests = {1}
  BY <1>2, <1>3
<1>5. QED
  BY <1>4 DEF ToSet

\* What one request mints are the instances that it stands for.
LEMMA FulfillMintUnique ==
  ASSUME MaxBatch = 1, MintInv, UniqueInv, NEW t \in MintTimes, t > latest,
         NEW by \in MintUsers, NEW requests \in FulfillMintDtos(mintRequests),
         Has("RequestMint"), FulfillMintRequest(by, requests, t)
  PROVE  UniqueNow'
<1> DEFINE R == mintRequests
           E == ToSet(requests)
           e == requests[1]
           range == FulfillRange(R, E)
           fulfil == OldestFirst(E)
           start == Written(mintAllowances, by)
           w == FulfillAll(start, fulfil, range, E, e.known, t)
           counter == RunningTotal(range \ E, e.known, e)
<1>1. /\ \A f \in E : MatchesOriginal(f)
      /\ Write(w, mintAllowances) /\ PutFulfilled(w.fulfilled) /\ deployment' = deployment
  BY DEF FulfillMintRequest
<1>2. E = {e}
  BY OneRequest
<1>3. E \subseteq R /\ e \in R
  BY <1>1, <1>2 DEF MatchesOriginal
<1>4. /\ fulfil \in Seq(Entries(t)) /\ HasQuantities(range) /\ e.known \in Nat
      /\ Len(fulfil) = Cardinality(E)
  BY <1>3, FulfilAre
<1>5. /\ start \in Writings(t) /\ t \in Nat \ {0} /\ start.instances = instances
      /\ start.requests = R /\ start.fulfilled = {} /\ start.minted = 0
  BY WrittenIs, NowLater DEF MintInv
<1>6. latest \in Nat /\ IsLog(R, latest) /\ IsLog(R, t) /\ e \in Entries(t) /\ instances \in [MintUsers -> InstanceSets]
  BY <1>3, NowLater DEF MintInv, IsLog
<1>7. Len(fulfil) = 1 /\ fulfil[1] = e
  <2>1. Cardinality(E) = 1
    BY <1>2, FS_Singleton
  <2>2. IsLog(E, t)
    BY <1>3, <1>6, PartLog
  <2> HIDE DEF E, e
  <2>3. Len(fulfil) = 1
    BY <1>4, <2>1
  <2>4. {fulfil[i] : i \in 1 .. Cardinality(E)} = E
    BY <1>5, <2>2, Oldest
  <2> HIDE DEF fulfil
  <2>5. {fulfil[i] : i \in 1 .. 1} = {e}
    BY <1>2, <2>1, <2>4
  <2>6. QED
    BY <2>3, <2>5
<1> HIDE DEF E, e, range, fulfil, start
<1>8. /\ w \in Writings(t) /\ Passes(start, w)
      /\ w = FulfillOne(start, e, range, E, e.known, t)
  BY <1>4, <1>5, <1>7, FulfillAllAfter
<1>9. Claims(start, w, e, counter)
  BY <1>4, <1>5, <1>6, <1>8, FulfillOneAfter
<1> DEFINE I == w.instances
           F == w.fulfilled
           new == UNION {I[u] \ instances[u] : u \in MintUsers}
           ids == NextIds(counter, e.quantity)
           q == e.quantity
           m == w.minted
<1>10. /\ mintRequests' = R /\ instances' = I /\ tokenInstances' = tokenInstances \cup new
       /\ minted' = minted + m /\ fulfilled' = fulfilled \cup F /\ again' = again \cup (F \cap fulfilled)
  <2> HIDE DEF w
  <2>1. QED
    BY <1>1, <1>5, <1>8 DEF Write, Passes, PutFulfilled
<1>11. \/ I = instances /\ F = {} /\ m = 0
       \/ /\ F = {MintId(e)} /\ m = 0 + q
          /\ IsNonFungible =>
               /\ ids \cap instances[e.user] = {}
               /\ I[e.user] = instances[e.user] \cup ids
               /\ \A u \in MintUsers \ {e.user} : I[u] = instances[u]
  <2> HIDE DEF w, counter
  <2>1. QED
    BY <1>5, <1>9 DEF Claims
<1>12. q \in Nat /\ minted \in Nat /\ tokenInstances \in InstanceSets /\ e.user \in MintUsers
       /\ \A u \in MintUsers : instances[u] \subseteq tokenInstances
  BY <1>3, <1>6, LogEntries DEF MintInv
<1> HIDE DEF I, F, new, m, w
<1>13. MintedOnce' => MintedOnce /\ (MintId(e) \in F => MintId(e) \notin fulfilled)
  BY <1>3, <1>10 DEF MintedOnce
<1>14. Given(R, fulfilled) \subseteq Given(R, fulfilled \cup F)
  BY DEF Given
<1>15. ASSUME IsNonFungible, KnownBehind(R), NoneApart(R), MintedOnce',
              Disjoint(instances), tokenInstances \subseteq Given(R, fulfilled), Cardinality(tokenInstances) = minted
       PROVE  /\ Disjoint(I) /\ tokenInstances' \subseteq Given(R, fulfilled \cup F)
              /\ Cardinality(tokenInstances') = minted'
  <2>1. CASE I = instances /\ F = {} /\ m = 0
    <3>1. new = {}
      BY <2>1 DEF new
    <3>2. QED
      BY <1>10, <1>12, <1>14, <1>15, <2>1, <3>1
  <2>2. CASE /\ F = {MintId(e)} /\ m = 0 + q
             /\ ids \cap instances[e.user] = {}
             /\ I[e.user] = instances[e.user] \cup ids
             /\ \A u \in MintUsers \ {e.user} : I[u] = instances[u]
    <3>1. counter \in Nat /\ counter = EntryQuantity(UpToEntry(R, e)) - q
      BY <1>2, <1>3, <1>6, <1>15, CountsAllBefore DEF range
    <3>2. ids = IdsOf(R, e) /\ ids \in InstanceSets /\ Cardinality(ids) = q
      <4> DEFINE c == EntryQuantity(UpToEntry(R, e))
      <4>1. c \in Nat
        BY <1>3, <1>6, UpToEntryIs
      <4>2. counter + q = c
        <5> HIDE DEF counter, c, q
        <5>1. QED
          BY <1>12, <3>1, <4>1 DEF c
      <4>3. ids = counter + 1 .. counter + q
        BY <1>15 DEF NextIds
      <4>4. ids \in InstanceSets /\ Cardinality(ids) = q
        <5> HIDE DEF counter
        <5>1. QED
          BY <1>12, <1>15, <3>1, IdsAre
      <4>5. QED
        BY <3>1, <4>2, <4>3, <4>4 DEF IdsOf
    <3> HIDE DEF ids, counter, q
    <3>3. tokenInstances \cap ids = {}
      <4>1. ASSUME NEW f \in R, MintId(f) \in fulfilled PROVE IdsOf(R, f) \cap ids = {}
        <5>1. e # f
          BY <1>13, <1>15, <2>2, <4>1
        <5>2. QED
          BY <1>3, <1>6, <3>2, <5>1, IdsDisjoint
      <4>2. QED
        BY <1>15, <4>1 DEF Given
    <3>4. new = ids /\ Disjoint(I)
      <4>1. \A u \in MintUsers : ids \cap instances[u] = {}
        BY <1>12, <3>3
      <4> DEFINE x == e.user
      <4>2. x \in MintUsers /\ I[x] = instances[x] \cup ids /\ \A u \in MintUsers \ {x} : I[u] = instances[u]
        BY <1>12, <2>2
      <4> HIDE DEF x
      <4>3. /\ ids \cap instances[x] = {} => UNION {I[u] \ instances[u] : u \in MintUsers} = ids
            /\ Disjoint(instances) /\ (\A u \in MintUsers : ids \cap instances[u] = {}) => Disjoint(I)
        BY <4>2, OneReceives
      <4>4. QED
        BY <1>15, <4>1, <4>2, <4>3 DEF new
    <3>5. Cardinality(tokenInstances') = minted'
      <4>1. Cardinality(tokenInstances \cup ids) = Cardinality(tokenInstances) + Cardinality(ids)
        BY <1>12, <3>2, <3>3, SetsOfInstances
      <4>2. QED
        BY <1>10, <1>12, <1>15, <2>2, <3>2, <3>4, <4>1
    <3>6. ids \subseteq Given(R, fulfilled \cup F)
      BY <1>3, <2>2, <3>2 DEF Given
    <3>7. QED
      BY <1>10, <1>14, <1>15, <3>4, <3>5, <3>6
  <2> HIDE DEF ids
  <2>3. QED
    BY <1>11, <1>15, <2>1, <2>2
<1>16. IsNonFungible' = IsNonFungible /\ Has("RequestMint")' = Has("RequestMint")
  BY <1>1 DEF IsNonFungible, Has
<1>17. /\ KnownBehind(mintRequests)' = KnownBehind(R)
       /\ NoneApart(mintRequests)' = NoneApart(R)
       /\ Given(mintRequests, fulfilled)' = Given(R, fulfilled \cup F)
       /\ Disjoint(instances)' = Disjoint(I)
  BY <1>10 DEF KnownBehind, NoneApart, Given, Disjoint
<1>18. QED
  BY <1>13, <1>15, <1>16, <1>17 DEF UniqueInv, UniqueNow

LEMMA BurnUnique ==
  ASSUME MintInv, UniqueInv, NEW user \in MintUsers, NEW q, NEW ids, NEW t, Burn(user, q, ids, t)
  PROVE  UniqueNow'
<1>1. /\ instances' = [instances EXCEPT ![user] = @ \ ids]
      /\ UNCHANGED <<deployment, mintRequests, totalSupply, tokenInstances, minted, fulfilled, again>>
  BY DEF Burn
<1>2. instances \in [MintUsers -> InstanceSets]
  BY DEF MintInv
<1>3. \A u \in MintUsers : instances'[u] \subseteq instances[u]
  BY <1>1, <1>2
<1>4. Disjoint(instances) => Disjoint(instances')
  BY <1>3 DEF Disjoint
<1>5. QED
  BY <1>1, <1>4, UniqueQuiet

LEMMA TransferUnique ==
  ASSUME MintInv, UniqueInv, NEW from \in MintUsers, NEW to \in MintUsers, NEW id, TransferToken(from, to, id)
  PROVE  UniqueNow'
<1>1. /\ id \in instances[from] /\ to # from
      /\ instances' = [instances EXCEPT ![from] = @ \ {id}, ![to] = @ \cup {id}]
      /\ UNCHANGED <<deployment, mintRequests, totalSupply, tokenInstances, minted, fulfilled, again>>
  BY DEF TransferToken
<1>2. instances \in [MintUsers -> InstanceSets]
  BY DEF MintInv
<1>3. /\ instances'[from] = instances[from] \ {id} /\ instances'[to] = instances[to] \cup {id}
      /\ \A u \in MintUsers \ {from, to} : instances'[u] = instances[u]
  BY <1>1, <1>2
<1>4. ASSUME Disjoint(instances), NEW u \in MintUsers, NEW v \in MintUsers, u # v
      PROVE  instances'[u] \cap instances'[v] = {}
  <2>1. instances[u] \cap instances[v] = {}
    BY <1>4 DEF Disjoint
  <2>2. \A x \in MintUsers \ {from} : id \notin instances[x]
    BY <1>1, <1>4 DEF Disjoint
  <2>3. \A x \in MintUsers \ {to} : id \notin instances'[x] /\ instances'[x] \subseteq instances[x]
    BY <1>3, <2>2
  <2>4. CASE u = to
    BY <1>3, <1>4, <2>1, <2>3, <2>4
  <2>5. CASE v = to
    BY <1>3, <1>4, <2>1, <2>3, <2>5
  <2>6. CASE u # to /\ v # to
    BY <2>1, <2>3, <2>6
  <2>7. QED
    BY <2>4, <2>5, <2>6
<1>5. Disjoint(instances) => Disjoint(instances')
  BY <1>4 DEF Disjoint
<1>6. QED
  BY <1>1, <1>5, UniqueQuiet

LEMMA NextUnique ==
  ASSUME MaxBatch = 1, MaxEntries <= LookbackTx, OneWayMints, MintInv, UniqueInv, NextMint
  PROVE  UniqueInv'
<1>1. PICK t \in MintTimes :
        /\ t > latest /\ latest' = t
        /\ \/ \E by \in MintUsers :
                \/ \E dto \in GrantMintAllowanceDtos : GrantMintAllowance(by, dto, t)
                \/ \E dto \in HighThroughputGrantAllowanceDtos : RequestMintAllowance(by, dto, t)
                \/ \E dto \in MintTokenDtos : MintToken(by, dto, t)
                \/ \E dto \in MintTokenWithAllowanceDtos : MintTokenWithAllowance(by, dto, t)
                \/ \E dto \in HighThroughputMintTokenDtos : RequestMint(by, dto, t)
                \/ \E ops \in Operations(BatchMintTokenDtos, by) : BatchMintToken(by, ops, t)
                \/ \E requests \in FulfillMintDtos(mintRequests) : FulfillMint(by, requests, t)
                \/ BurnTokens(by, t)
                \/ \E to \in MintUsers, id \in instances[by] : TransferToken(by, to, id)
                \/ \E users \in SUBSET MintUsers, overwrite \in BOOLEAN : UpdateAuthorities(by, users, overwrite)
           \/ \E requests \in FulfillMintAllowanceDtos(allowanceRequests) : FulfillMintAllowance(requests, t)
        /\ InBounds
  BY DEF NextMint
<1>2. Cardinality(mintRequests') <= MaxEntries
  BY <1>1 DEF InBounds
<1>3. ASSUME UNCHANGED <<deployment, mintRequests, totalSupply, instances, tokenInstances, minted>>,
             fulfilled \subseteq fulfilled', again \subseteq again'
      PROVE  UniqueNow'
  BY <1>3, UniqueQuiet
<1>4. ASSUME NEW by \in MintUsers, NEW dto \in GrantMintAllowanceDtos, GrantMintAllowance(by, dto, t)
      PROVE  UniqueNow'
  BY <1>3, <1>4 DEF GrantMintAllowance, PutFulfilled
<1>5. ASSUME NEW by \in MintUsers, NEW dto \in HighThroughputGrantAllowanceDtos, RequestMintAllowance(by, dto, t)
      PROVE  UniqueNow'
  BY <1>3, <1>5 DEF RequestMintAllowance, ledger
<1>6. ASSUME NEW by \in MintUsers, NEW dto \in MintTokenDtos, MintToken(by, dto, t)
      PROVE  UniqueNow'
  BY <1>1, <1>6, MintTokenUnique
<1>7. ASSUME NEW by \in MintUsers, NEW dto \in MintTokenWithAllowanceDtos, MintTokenWithAllowance(by, dto, t)
      PROVE  UniqueNow'
  <2>1. Operation(dto, by) \in Ops
    BY OperationsAre DEF MintTokenDtos, MintTokenWithAllowanceDtos
  <2>2. QED
    BY <1>1, <1>7, <2>1, GrantAndMintUnique DEF MintTokenWithAllowance
<1>8. ASSUME NEW by \in MintUsers, NEW dto \in HighThroughputMintTokenDtos, RequestMint(by, dto, t)
      PROVE  UniqueNow'
  <2>1. Operation(dto, by) \in Ops
    BY OperationsAre DEF MintTokenDtos, HighThroughputMintTokenDtos
  <2>2. QED
    BY <1>1, <1>8, <2>1, SubmitUnique DEF RequestMint
<1>9. ASSUME NEW by \in MintUsers, NEW ops \in Operations(BatchMintTokenDtos, by), BatchMintToken(by, ops, t)
      PROVE  UniqueNow'
  BY <1>1, <1>9, BatchMintUnique
<1>10. ASSUME NEW by \in MintUsers, NEW requests \in FulfillMintDtos(mintRequests), FulfillMint(by, requests, t)
       PROVE  UniqueNow'
  BY <1>1, <1>10, FulfillMintUnique DEF FulfillMint
<1>11. ASSUME NEW by \in MintUsers, BurnTokens(by, t) PROVE UniqueNow'
  BY <1>11, BurnUnique DEF BurnTokens
<1>12. ASSUME NEW by \in MintUsers, NEW users \in SUBSET MintUsers, NEW overwrite \in BOOLEAN,
              UpdateAuthorities(by, users, overwrite)
       PROVE  UniqueNow'
  BY <1>3, <1>12 DEF UpdateAuthorities, ledger
<1>13. ASSUME NEW requests \in FulfillMintAllowanceDtos(allowanceRequests), FulfillMintAllowance(requests, t)
       PROVE  UniqueNow'
  BY <1>3, <1>13 DEF FulfillMintAllowance, PutFulfilled
<1>14. ASSUME NEW by \in MintUsers, NEW to \in MintUsers, NEW id \in instances[by], TransferToken(by, to, id)
       PROVE  UniqueNow'
  BY <1>14, TransferUnique
<1>15. UniqueNow'
  BY <1>1, <1>4, <1>5, <1>6, <1>7, <1>8, <1>9, <1>10, <1>11, <1>12, <1>13, <1>14
<1>16. QED
  BY <1>2, <1>15 DEF UniqueInv

LEMMA UniqueAlways ==
  ASSUME MaxBatch = 1, MaxEntries <= LookbackTx, OneWayMints
  PROVE  MintSpec => []UniqueInv
<1>1. MintInv /\ UniqueInv /\ [NextMint]_mintVars => UniqueInv'
  <2> SUFFICES ASSUME MintInv, UniqueInv, [NextMint]_mintVars PROVE UniqueInv'
    OBVIOUS
  <2>1. CASE NextMint
    BY <2>1, NextUnique
  <2>2. CASE UNCHANGED mintVars
    <3>1. UNCHANGED <<deployment, mintRequests, totalSupply, instances, tokenInstances, minted, fulfilled, again>>
      BY <2>2 DEF mintVars, ledger
    <3>2. UniqueNow'
      BY <3>1, UniqueQuiet
    <3>3. Cardinality(mintRequests') <= MaxEntries
      BY <3>1 DEF UniqueInv
    <3>4. QED
      BY <3>2, <3>3 DEF UniqueInv
  <2>3. QED
    BY <2>1, <2>2
<1>2. QED
  BY <1>1, MintAlways, InitUnique, PTL DEF MintSpec

LEMMA UniqueInstances == MintInv /\ UniqueInv => InstancesAreUnique
<1> SUFFICES ASSUME MintInv, UniqueInv, IsNonFungible, MintedOnce, ~SeenTwice
             PROVE  Disjoint(instances) /\ Cardinality(tokenInstances) = minted
  BY DEF InstancesAreUnique, Disjoint
<1>1. CASE ~Has("RequestMint")
  <2>1. Disjoint(instances) /\ tokenInstances = 1 .. totalSupply /\ minted = totalSupply
    BY <1>1 DEF UniqueInv, UniqueNow
  <2>2. totalSupply \in Nat
    BY DEF MintInv
  <2>3. NextIds(0, totalSupply) = 1 .. totalSupply
    BY <2>2 DEF NextIds
  <2>4. Cardinality(1 .. totalSupply) = totalSupply
    BY <2>2, <2>3, IdsAre
  <2>5. QED
    BY <2>1, <2>4
<1>2. CASE Has("RequestMint")
  <2>1. NoneApart(mintRequests)
    BY <1>2 DEF NoneApart, SeenTwice
  <2>2. QED
    BY <1>2, <2>1 DEF UniqueInv, UniqueNow
<1>3. QED
  BY <1>1, <1>2

(***************************************************************************)
(* No NFT instance is in two balances, and no id is given to two mints,    *)
(* whether a contract mints at once, numbering by totalSupply (mintToken), *)
(* or by requests that count the quantities before them                    *)
(* (fulfillMintRequest), and whatever is burned and transferred: if it has *)
(* one of both ways only, fulfils one request at a time, and readers of    *)
(* the running totals take all entries (lookbackTxCount).  The property    *)
(* itself is about runs in which no mint request is fulfilled a second     *)
(* time: fulfillMintRequest would give it the ids that it got before.      *)
(***************************************************************************)
THEOREM InstancesStayUnique ==
  ASSUME MaxBatch = 1, MaxEntries <= LookbackTx, OneWayMints
  PROVE  MintSpec => []InstancesAreUnique
BY MintAlways, UniqueAlways, UniqueInstances, PTL
=============================================================================
